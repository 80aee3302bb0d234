---------------------- MODULE SeaturtleProtocolHandler ----------------------
(***************************************************************************)
(* extra/seaturtle_protocol_handler.cc: the program's own pages.  A        *)
(* request for one becomes a job on the IO thread, which asks Java to      *)
(* render the page and hands the text to the loader, buffer by buffer.     *)
(*                                                                         *)
(* A page is a sequence of characters that are told apart by their         *)
(* position; none of them is NUL, at which strncpy would stop.             *)
(***************************************************************************)
EXTENDS IoThread

CONSTANTS
  Jobs,         \* each is created at most once (bound of the model)
  Lengths,      \* how long a page may be
  BufferSizes   \* the sizes of the loader's buffers

ASSUME JobConstants == Lengths \subseteq Nat /\ BufferSizes \subseteq Nat \ {0}

VARIABLES
  job,                  \* how far each job is
  resp_,                \* the length of what Java has rendered
  bytes_already_read_,
  delivered             \* the characters handed to the loader

jobVars == <<job, resp_, bytes_already_read_, delivered>>

StartTask(j) == [task |-> "StartAsync", job |-> j]

JobTypeOK ==
  /\ job \in [Jobs -> {"unborn", "started", "reading", "complete", "killed"}]
  /\ resp_ \in [Jobs -> Lengths \cup {0}]
  /\ bytes_already_read_ \in [Jobs -> Nat]
  /\ delivered \in [Jobs -> Seq(Nat \ {0})]

JobInit ==
  /\ job = [j \in Jobs |-> "unborn"]
  /\ resp_ = [j \in Jobs |-> 0]
  /\ bytes_already_read_ = [j \in Jobs |-> 0]
  /\ delivered = [j \in Jobs |-> <<>>]

Text(length) == [i \in 1 .. length |-> i]

\* MaybeCreateJob and Start: the answer must not come before Start returns.
StartJob(j) ==
  /\ job[j] = "unborn"
  /\ job' = [job EXCEPT ![j] = "started"]
  /\ Post(StartTask(j))
  /\ UNCHANGED <<resp_, bytes_already_read_, delivered>>

\* RENDER: Java renders the page, synchronously, and the loader begins to read.  The
\* task of a job that was destroyed meanwhile does nothing (weak_factory_).
StartAsync(j) ==
  /\ Runs(StartTask(j))
  /\ IF job[j] = "started"
       THEN /\ job' = [job EXCEPT ![j] = "reading"]
            /\ \E length \in Lengths : resp_' = [resp_ EXCEPT ![j] = length]
       ELSE UNCHANGED <<job, resp_>>
  /\ UNCHANGED <<bytes_already_read_, delivered>>

Smaller(m, n) == IF m < n THEN m ELSE n

\* Mutant: the whole buffer counts.
ReadRawDataMutBuffer(j, buf_size) ==
  /\ job[j] = "reading"
  /\ IF bytes_already_read_[j] < resp_[j]
       THEN /\ delivered' = [delivered EXCEPT ![j] = @ \o Text(buf_size)]
            /\ bytes_already_read_' = [bytes_already_read_ EXCEPT ![j] = @ + buf_size]
            /\ UNCHANGED job
       ELSE /\ job' = [job EXCEPT ![j] = "complete"]
            /\ UNCHANGED <<bytes_already_read_, delivered>>
  /\ UNCHANGED <<io, resp_>>

\* The beginning of the page, as much as fits; nothing once as many bytes as the page
\* has were handed over, which ends the request.
ReadRawData(j, buf_size) ==
  /\ job[j] = "reading"
  /\ IF bytes_already_read_[j] < resp_[j]
       THEN LET bytes_read == Smaller(buf_size, resp_[j])
            IN  /\ delivered' = [delivered EXCEPT ![j] = @ \o Text(bytes_read)]
                /\ bytes_already_read_' = [bytes_already_read_ EXCEPT ![j] = @ + bytes_read]
                /\ UNCHANGED job
       ELSE /\ job' = [job EXCEPT ![j] = "complete"]
            /\ UNCHANGED <<bytes_already_read_, delivered>>
  /\ UNCHANGED <<io, resp_>>

\* The request is cancelled and the job destroyed.
KillJob(j) ==
  /\ job[j] \in {"started", "reading"}
  /\ job' = [job EXCEPT ![j] = "killed"]
  /\ UNCHANGED <<io, resp_, bytes_already_read_, delivered>>

-----------------------------------------------------------------------------
(* Properties *)

\* "optional string render_response = 7; // html content" (protos/jni.proto): a
\* request for one of the program's pages that completes has delivered what Java
\* rendered, each character once and in order.
PageDelivered == \A j \in Jobs : job[j] = "complete" => delivered[j] = Text(resp_[j])

\* What the code does keep of that, whatever other pages are asked for: a request that
\* completes has delivered the page, whole and once, or the page was longer than a buffer.
FittingPageDelivered ==
  \A j \in Jobs :
    job[j] = "complete" =>
      delivered[j] = Text(resp_[j]) \/ \E buf_size \in BufferSizes : buf_size < resp_[j]
=============================================================================
