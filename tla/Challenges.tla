----------------------------- MODULE Challenges -----------------------------
(***************************************************************************)
(* What a login dialog promises to the network, with no threads, queues or *)
(* objects in it: a server's challenge suspends its request until the user *)
(* answers that very challenge, and a challenge is answered at most once.  *)
(* LoginDialog implements this specification.                              *)
(***************************************************************************)
CONSTANTS
  Requests,
  Dialogs,      \* the challenges, each put at most once
  NoRequest

VARIABLES
  request,      \* "running", "waiting" for an answer, "refused" or "gone"
  of,           \* the request a challenge is about
  status        \* of a challenge: "unused", "open" or "closed"

vars == <<request, of, status>>

Init ==
  /\ request = [r \in Requests |-> "running"]
  /\ of = [d \in Dialogs |-> NoRequest]
  /\ status = [d \in Dialogs |-> "unused"]

\* The server wants credentials.
Open(r, d) ==
  /\ request[r] = "running"
  /\ status[d] = "unused"
  /\ request' = [request EXCEPT ![r] = "waiting"]
  /\ of' = [of EXCEPT ![d] = r]
  /\ status' = [status EXCEPT ![d] = "open"]

\* The user's answer: the request goes on with the credentials or with the refusal.
Answer(d, success) ==
  /\ status[d] = "open"
  /\ request[of[d]] = "waiting"
  /\ request' = [request EXCEPT ![of[d]] = IF success THEN "running" ELSE "refused"]
  /\ status' = [status EXCEPT ![d] = "closed"]
  /\ UNCHANGED of

\* The request is cancelled or finished, and with it the challenge it waits for.
EndRequest(r) ==
  /\ request[r] # "gone"
  /\ request' = [request EXCEPT ![r] = "gone"]
  /\ status' = [d \in Dialogs |-> IF of[d] = r THEN "closed" ELSE status[d]]
  /\ UNCHANGED of

Next ==
  \/ \E r \in Requests, d \in Dialogs : Open(r, d)
  \/ \E d \in Dialogs, success \in BOOLEAN : Answer(d, success)
  \/ \E r \in Requests : EndRequest(r)

Spec == Init /\ [][Next]_vars
=============================================================================
