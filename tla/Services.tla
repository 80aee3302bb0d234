------------------------------ MODULE Services ------------------------------
(***************************************************************************)
(* The services that Java and the IO thread render each other: the proxy   *)
(* configuration, the program's own pages, and the HTTP fetches Java asks  *)
(* for to complete what the user types (extra/fetch.cc).                   *)
(*                                                                         *)
(* They share the IO thread: its constructor calls and renderings hold up  *)
(* every task behind them, and a fetch waits until a proxy configuration   *)
(* is known.                                                               *)
(***************************************************************************)
EXTENDS ProxyConfigService, SeaturtleProtocolHandler

CONSTANTS
  Fetches,      \* each is created at most once (bound of the model)
  NoFetch

ASSUME FetchConstants == NoFetch \notin Fetches

VARIABLES
  fetch,        \* how far each Fetcher is; "done": it has deleted itself
  returning,    \* UI thread: the fetcher whose Fetch has not returned
  starting,     \* IO thread: the fetcher whose Init makes the network context
  known,        \* Java: the fetches whose id it was given
  completed,    \* Java: the fetches whose result it has received
  early         \* history: those that were over before the call of Fetch had returned

fetchVars == <<fetch, returning, starting, known, completed, early>>
vars == <<io, proxyVars, jobVars, fetchVars>>

InitTask(f) == [task |-> "Init", fetch |-> f]

Tasks == {ProxyTask(c) : c \in States} \cup {StartTask(j) : j \in Jobs}
           \cup {InitTask(f) : f \in Fetches}

TypeOK ==
  /\ io \in Seq(Tasks)
  /\ ProxyTypeOK
  /\ JobTypeOK
  /\ fetch \in [Fetches -> {"unborn", "posted", "starting", "waiting", "running", "done"}]
  /\ returning \in Fetches \cup {NoFetch}
  /\ starting \in Fetches \cup {NoFetch}
  /\ known \subseteq Fetches
  /\ completed \subseteq Fetches
  /\ early \subseteq Fetches

Init ==
  /\ io = <<>>
  /\ ProxyInit
  /\ JobInit
  /\ fetch = [f \in Fetches |-> "unborn"]
  /\ returning = NoFetch
  /\ starting = NoFetch
  /\ known = {}
  /\ completed = {}
  /\ early = {}

UiIdle == returning = NoFetch

-----------------------------------------------------------------------------
(* UI thread: Java's calls *)

\* HTTP_FETCH: Fetch creates the fetcher and posts its Init ...
Fetch(f) ==
  /\ UiIdle
  /\ fetch[f] = "unborn"
  /\ fetch' = [fetch EXCEPT ![f] = "posted"]
  /\ returning' = f
  /\ Post(InitTask(f))
  /\ UNCHANGED <<proxyVars, jobVars, starting, known, completed, early>>

\* ... and then reads f->id_ for the answer: of a fetcher that is deleted, anything.
ReturnId ==
  /\ returning # NoFetch
  /\ returning' = NoFetch
  /\ IF fetch[returning] # "done"
       THEN known' = known \cup {returning}
       ELSE known' \in {known} \cup {known \cup {f} : f \in Fetches}
  /\ UNCHANGED <<io, proxyVars, jobVars, fetch, starting, completed, early>>

PushProxy ==
  /\ UiIdle
  /\ SetConfig
  /\ UNCHANGED <<jobVars, fetchVars>>

DeviceChanges(c) ==
  /\ ChangeProxy(c)
  /\ UNCHANGED <<io, jobVars, fetchVars>>

-----------------------------------------------------------------------------
(* IO thread *)

\* GetLatestProxyConfig: without a configuration the request waits for OnProxyConfigChanged.
Proxied(config) == IF config = NoConfig THEN "waiting" ELSE "running"

\* Mutant: the observers are not told.
NotifyMutSilent == UNCHANGED fetch

\* OnProxyConfigChanged: the requests that waited go on.
Notify ==
  fetch' = [f \in Fetches |->
              IF fetch[f] = "waiting" /\ latest_' # NoConfig THEN "running" ELSE fetch[f]]

\* The fetch is started; the first request of the process makes the shared proxy
\* service first, whose constructor asks Java.
InitFetch(f) ==
  /\ ProxyIdle
  /\ Runs(InitTask(f))
  /\ IF service = "none"
       THEN /\ BeginService
            /\ starting' = f
            /\ fetch' = [fetch EXCEPT ![f] = "starting"]
       ELSE /\ fetch' = [fetch EXCEPT ![f] = Proxied(latest_)]
            /\ UNCHANGED <<proxyVars, starting>>
  /\ UNCHANGED <<jobVars, returning, known, completed, early>>

\* The network context is made for a page.
FirstPage ==
  /\ ProxyIdle
  /\ BeginService
  /\ UNCHANGED <<io, jobVars, fetchVars>>

AskProxy ==
  /\ AnswerProxyRequest
  /\ UNCHANGED <<io, jobVars, fetchVars>>

\* The constructor returns, and the fetch that waited for the context starts.
ServiceMade ==
  /\ FinishService
  /\ starting' = NoFetch
  /\ fetch' = IF starting = NoFetch THEN fetch
              ELSE [fetch EXCEPT ![starting] = Proxied(latest_')]
  /\ UNCHANGED <<jobVars, returning, known, completed, early>>

ApplyProxy(c) ==
  /\ ProxyIdle
  /\ SetAllConfigsOnNetworkThread(c)
  /\ Notify
  /\ UNCHANGED <<jobVars, returning, starting, known, completed, early>>

\* HTTP_FETCH_COMPLETE: Java is given the result, and the fetcher deletes itself.
OnURLFetchComplete(f) ==
  /\ ProxyIdle
  /\ fetch[f] = "running"
  /\ fetch' = [fetch EXCEPT ![f] = "done"]
  /\ completed' = completed \cup {f}
  /\ early' = IF returning = f THEN early \cup {f} ELSE early
  /\ UNCHANGED <<io, proxyVars, jobVars, returning, starting, known>>

RunJob(j) ==
  /\ ProxyIdle
  /\ \/ StartJob(j)
     \/ StartAsync(j)
     \/ \E buf_size \in BufferSizes : ReadRawData(j, buf_size)
     \/ KillJob(j)
  /\ UNCHANGED <<proxyVars, fetchVars>>

RunTask ==
  \/ \E f \in Fetches : InitFetch(f)
  \/ \E c \in States : ApplyProxy(c)
  \/ \E j \in Jobs : ProxyIdle /\ StartAsync(j) /\ UNCHANGED <<proxyVars, fetchVars>>

Step ==
  \/ \E f \in Fetches : Fetch(f)
  \/ ReturnId
  \/ PushProxy
  \/ \E c \in States : DeviceChanges(c)
  \/ \E f \in Fetches : InitFetch(f)
  \/ FirstPage
  \/ AskProxy
  \/ ServiceMade
  \/ \E c \in States : ApplyProxy(c)
  \/ \E f \in Fetches : OnURLFetchComplete(f)
  \/ \E j \in Jobs : RunJob(j)

Next == ~crashed /\ Step

\* The IO thread runs what is posted to it, Java answers and pushes what has changed,
\* the calls of the UI thread return, and every URLFetcher ends, with or without a
\* result.
Fairness ==
  /\ WF_vars(~crashed /\ RunTask)
  /\ WF_vars(~crashed /\ AskProxy)
  /\ WF_vars(~crashed /\ ServiceMade)
  /\ WF_vars(~crashed /\ ReturnId)
  /\ WF_vars(~crashed /\ PushProxy)
  /\ \A f \in Fetches : WF_vars(~crashed /\ OnURLFetchComplete(f))

Spec == Init /\ [][Next]_vars /\ Fairness

-----------------------------------------------------------------------------
(* Properties *)

\* While the device has a proxy configuration, every fetch Java asks for is answered,
\* whether it came before or after the service, the configuration or a change of it; and
\* Java knows the id of the answer unless the fetch was over before Fetch returned.
FetchesAnswered ==
  \A f \in Fetches :
    fetch[f] # "unborn" /\ javaConfig # NoConfig
      ~> \/ f \in completed /\ f \in known \cup early
         \/ javaConfig = NoConfig
         \/ crashed
=============================================================================
