------------------------------ MODULE IoThread ------------------------------
(***************************************************************************)
(* The message loop of the IO thread: tasks are posted from any thread and *)
(* run one at a time, in the order they were posted.                       *)
(***************************************************************************)
EXTENDS Naturals, Sequences

VARIABLE io      \* the tasks posted to the IO thread, records with a field `task`

Post(t) == io' = Append(io, t)

Runs(t) ==
  /\ io # <<>>
  /\ Head(io) = t
  /\ io' = Tail(io)
=============================================================================
