---------------------------- MODULE LoginDialog ----------------------------
(***************************************************************************)
(* shell/browser/shell_login_dialog.cc: the dialog that asks the user for  *)
(* the credentials an HTTP server or proxy wants.                          *)
(*                                                                         *)
(* Three parties: the IO thread owns the request and its loader (outside   *)
(* src/, login_delegate is the loader's scoped_refptr), the UI thread      *)
(* talks to Java, and Java shows the dialog under the raw address of the   *)
(* C++ object.  The threads exchange tasks through two FIFO queues; every  *)
(* queued task holds a reference to its dialog, and a dialog nobody refers *)
(* to is deleted.                                                          *)
(***************************************************************************)
EXTENDS Naturals, Sequences

CONSTANTS
  Requests,
  Dialogs,        \* incarnations: each is created at most once (bound of the model)
  NoRequest,
  NoDialog

ASSUME LoginConstants ==
  /\ NoRequest \notin Requests
  /\ NoDialog \notin Dialogs

VARIABLES
  request,         \* the network's side of each request
  request_,        \* the raw pointer in each dialog
  login_delegate,  \* the loader's reference
  creating,        \* the dialog whose constructor has returned, not yet adopted
  ui, io,          \* the tasks posted to each thread
  java,            \* the dialogs Java shows
  deleted,         \* the dialogs whose last reference is gone
  early,           \* the dialogs prepared before the loader had stored them (history)
  crashed          \* a use of freed memory has ended the process

vars == <<request, request_, login_delegate, creating, ui, io, java, deleted, early, crashed>>

\* "gone": the loader has cancelled or finished it and the URLRequest is freed.
RequestStates == {"running", "waiting", "refused", "gone"}
UiTasks == [task : {"PrepDialog", "PlatformRequestCancelled"}, dialog : Dialogs]
IoTasks == [task : {"SendAuthToRequester"}, dialog : Dialogs, success : BOOLEAN]

TypeOK ==
  /\ request \in [Requests -> RequestStates]
  /\ request_ \in [Dialogs -> Requests \cup {NoRequest}]
  /\ login_delegate \in [Requests -> Dialogs \cup {NoDialog}]
  /\ creating \in Dialogs \cup {NoDialog}
  /\ ui \in Seq(UiTasks)
  /\ io \in Seq(IoTasks)
  /\ java \subseteq Dialogs
  /\ deleted \subseteq Dialogs
  /\ early \subseteq Dialogs
  /\ crashed \in BOOLEAN

Init ==
  /\ request = [r \in Requests |-> "running"]
  /\ request_ = [d \in Dialogs |-> NoRequest]
  /\ login_delegate = [r \in Requests |-> NoDialog]
  /\ creating = NoDialog
  /\ ui = <<>>
  /\ io = <<>>
  /\ java = {}
  /\ deleted = {}
  /\ early = {}
  /\ crashed = FALSE

Created(d) == request_[d] # NoRequest
Posted(queue, d) == \E i \in DOMAIN queue : queue[i].dialog = d

UiTask(task, d) == [task |-> task, dialog |-> d]
IoTask(d, success) ==
  [task |-> "SendAuthToRequester", dialog |-> d, success |-> success]

\* Mutant: a task posted to the UI thread carries an unretained pointer.
ReferredMutUnretained(d) ==
  \/ Posted(io, d)
  \/ \E r \in Requests : login_delegate[r] = d

\* base::Bind retains the dialog for a task; so does the loader.
Referred(d) ==
  \/ Posted(ui, d)
  \/ Posted(io, d)
  \/ \E r \in Requests : login_delegate[r] = d

\* Part of every step: the release of the last reference deletes the dialog.
Release ==
  deleted' = deleted \cup {d \in Dialogs : request_'[d] # NoRequest /\ ~Referred(d)'}

IoFree == creating = NoDialog

-----------------------------------------------------------------------------
(* IO thread *)

\* CreateLoginDelegate: the constructor posts PrepDialog, bound to itself, while
\* nobody refers to the dialog yet.
CreateLoginDelegate(r, d) ==
  /\ IoFree
  /\ request[r] = "running"
  /\ ~Created(d)
  /\ request' = [request EXCEPT ![r] = "waiting"]
  /\ request_' = [request_ EXCEPT ![d] = r]
  /\ creating' = d
  /\ ui' = Append(ui, UiTask("PrepDialog", d))
  /\ UNCHANGED <<login_delegate, io, java, early, crashed>>
  /\ Release

\* The loader stores what CreateLoginDelegate returned: a freed object, if the UI thread
\* was faster.
Adopt ==
  /\ creating # NoDialog
  /\ login_delegate' = [login_delegate EXCEPT ![request_[creating]] = creating]
  /\ creating' = NoDialog
  /\ UNCHANGED <<request, request_, ui, io, java, early, crashed>>
  /\ Release

\* Mutant: the UI thread is not told.
OnRequestCancelledMutSilent(r) == UNCHANGED ui

OnRequestCancelled(r) ==
  ui' = IF login_delegate[r] = NoDialog
          THEN ui
          ELSE Append(ui, UiTask("PlatformRequestCancelled", login_delegate[r]))

\* The request is cancelled or finished: the loader cancels the dialog it still
\* refers to and drops the reference.
EndRequest(r) ==
  /\ IoFree
  /\ request[r] # "gone"
  /\ request' = [request EXCEPT ![r] = "gone"]
  /\ login_delegate' = [login_delegate EXCEPT ![r] = NoDialog]
  /\ OnRequestCancelled(r)
  /\ UNCHANGED <<request_, creating, io, java, early, crashed>>
  /\ Release

\* SetAuth restarts the request, which may be challenged again; CancelAuth lets it
\* continue with the server's refusal.  Nothing checks that the request exists: a call
\* through the pointer to a freed one does nothing, or ends the process (UseFreed).
SendAuthToRequester ==
  LET d == Head(io).dialog
      r == request_[d]
  IN  /\ IoFree
      /\ io # <<>>
      /\ request' = [request EXCEPT ![r] =
                       IF @ = "gone" THEN "gone"
                       ELSE IF Head(io).success THEN "running" ELSE "refused"]
      /\ login_delegate' = [login_delegate EXCEPT ![r] = NoDialog]
      /\ io' = Tail(io)
      /\ UNCHANGED <<request_, creating, ui, java, early, crashed>>
      /\ Release

-----------------------------------------------------------------------------
(* UI thread *)

UiMayRun(task) == ui # <<>> /\ Head(ui).task = task

\* Java shows the dialog.  The constructor has posted the task, so the loader may not yet
\* have stored the dialog: then the task's reference was the only one.
PrepDialog ==
  /\ UiMayRun("PrepDialog")
  /\ java' = java \cup {Head(ui).dialog}
  /\ ui' = Tail(ui)
  /\ early' = early \cup ({Head(ui).dialog} \cap {creating})
  /\ UNCHANGED <<request, request_, login_delegate, creating, io, crashed>>
  /\ Release

\* Java withdraws the dialog, if it still shows it.
PlatformRequestCancelled ==
  /\ UiMayRun("PlatformRequestCancelled")
  /\ java' = java \ {Head(ui).dialog}
  /\ ui' = Tail(ui)
  /\ UNCHANGED <<request, request_, login_delegate, creating, io, early, crashed>>
  /\ Release

\* Mutant: the answer is posted to the wrong thread.
ProcessResponseMutThread(d, success) ==
  /\ d \in java
  /\ java' = java \ {d}
  /\ ui' = Append(ui, IoTask(d, success))
  /\ UNCHANGED <<request, request_, login_delegate, creating, io, early, crashed>>
  /\ Release

\* Mutant: every answer is posted twice.
ProcessResponseMutTwice(d, success) ==
  /\ d \in java
  /\ java' = java \ {d}
  /\ io' = io \o <<IoTask(d, success), IoTask(d, success)>>
  /\ UNCHANGED <<request, request_, login_delegate, creating, ui, early, crashed>>
  /\ Release

\* Mutant: a refusal of the user is not passed on.
ProcessResponseMutDrops(d, success) ==
  /\ d \in java
  /\ java' = java \ {d}
  /\ io' = IF success THEN Append(io, IoTask(d, success)) ELSE io
  /\ UNCHANGED <<request, request_, login_delegate, creating, ui, early, crashed>>
  /\ Release

\* HTTP_AUTH_RESPONSE: the user accepts or cancels; Java closes the dialog and
\* answers once.
ProcessResponse(d, success) ==
  /\ d \in java
  /\ java' = java \ {d}
  /\ io' = Append(io, IoTask(d, success))
  /\ UNCHANGED <<request, request_, login_delegate, creating, ui, early, crashed>>
  /\ Release

-----------------------------------------------------------------------------
\* Undefined behaviour: the next step of a thread may go through the address of a freed
\* dialog or of a freed request.  It finds the memory intact, as in the actions above,
\* or the process dies.
UseFreed ==
  /\ \/ creating \in deleted                                           \* Adopt
     \/ \E r \in Requests : IoFree /\ login_delegate[r] \in deleted     \* EndRequest
     \/ /\ IoFree /\ io # <<>>                                \* SendAuthToRequester
        /\ \/ Head(io).dialog \in deleted
           \/ request[request_[Head(io).dialog]] = "gone"
     \/ ui # <<>> /\ Head(ui).dialog \in deleted       \* PlatformRequestCancelled
     \/ java \cap deleted # {}                                 \* ProcessResponse
  /\ crashed' = TRUE
  /\ UNCHANGED <<request, request_, login_delegate, creating, ui, io, java, deleted, early>>

Step ==
  \/ \E r \in Requests, d \in Dialogs : CreateLoginDelegate(r, d)
  \/ Adopt
  \/ \E r \in Requests : EndRequest(r)
  \/ SendAuthToRequester
  \/ PrepDialog
  \/ PlatformRequestCancelled
  \/ \E d \in Dialogs, success \in BOOLEAN : ProcessResponse(d, success)
  \/ UseFreed

Next == ~crashed /\ Step

\* Both message loops run what was posted to them; users, servers and pages owe
\* nothing.
Fairness ==
  /\ WF_vars(~crashed /\ Adopt)
  /\ WF_vars(~crashed /\ SendAuthToRequester)
  /\ WF_vars(~crashed /\ (PrepDialog \/ PlatformRequestCancelled))

Spec == Init /\ [][Next]_vars /\ Fairness

-----------------------------------------------------------------------------
(* Properties *)

\* The object Java addresses in its answer still exists, whichever of the request, the
\* loader and the dialog goes first (ProcessResponse casts the address back without any
\* check).  Only one race can take it away: the UI thread prepares a dialog that the
\* loader has not stored yet.
HandleIsAlive == \A d \in java : Created(d) /\ (d \in deleted => d \in early)

SendsAuth == Len(io') < Len(io)

\* An answer that finds its request alive finds it waiting for exactly this dialog:
\* credentials typed for one challenge never answer a later one.
AnswerMeetsChallenge ==
  [][SendsAuth =>
       LET d == Head(io).dialog
           r == request_[d]
       IN  request[r] # "gone" => request[r] = "waiting" /\ login_delegate[r] = d]_vars

\* How the network sees a challenge: open from the moment the dialog is created until
\* the loader drops its reference.
ChallengeStatus ==
  [d \in Dialogs |->
     IF request_[d] = NoRequest THEN "unused"
     ELSE IF creating = d \/ login_delegate[request_[d]] = d THEN "open"
     ELSE "closed"]

Challenge == INSTANCE Challenges WITH of <- request_, status <- ChallengeStatus

\* Three parties, two queues and an object that may outlive its request behave as one
\* challenge at a time: an answer resumes the request it was asked for, once, and
\* nothing else changes a request.
ImplementsChallenges == Challenge!Spec

\* request_ is "the request that wants login data" (shell_login_dialog.h): it exists
\* when SendAuthToRequester dereferences it.
RequesterExists ==
  [][SendsAuth => request[request_[Head(io).dialog]] # "gone"]_vars

\* No dialog outlives its request for good: Java withdraws it and the object is
\* freed, even when the cancellation crosses the user's answer.
DialogsVanish ==
  \A d \in Dialogs :
    Created(d) /\ request[request_[d]] = "gone" ~>
      \/ d \notin java /\ d \in deleted
      \/ crashed

\* A dialog the user has closed, accepting or refusing, does not leave its request
\* waiting.
AnswerResumes ==
  \A r \in Requests, d \in Dialogs :
    login_delegate[r] = d /\ ~Posted(ui, d) /\ d \notin java ~>
      login_delegate[r] # d \/ crashed
=============================================================================
