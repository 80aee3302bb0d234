--------------------------- MODULE ServicesProofs ---------------------------
(***************************************************************************)
(* Proofs about Services, for any configurations, jobs and fetches and a   *)
(* queue of any length: types, that the network ends up with the           *)
(* configuration of the device, that no fetch is forgotten, that Java is   *)
(* given the ids it needs, and what becomes of the program's pages.        *)
(***************************************************************************)
EXTENDS Services, TLAPS

Proxies == {ProxyTask(c) : c \in States}

-----------------------------------------------------------------------------
(* The tasks of a queue when one is posted to its end or the first one is run *)

\* Some task of T is queued; the last task of T, if there is one, is x.
Holds(q, T) == \E i \in DOMAIN q : q[i] \in T
LastIs(q, T, x) ==
  \A i \in DOMAIN q :
    q[i] \in T /\ (\A j \in DOMAIN q : j > i => q[j] \notin T) => q[i] = x

LEMMA AppendIndex ==
  ASSUME NEW S, NEW q \in Seq(S), NEW e \in S
  PROVE  /\ Append(q, e) \in Seq(S)
         /\ DOMAIN Append(q, e) = 1 .. Len(q) + 1
         /\ DOMAIN q = 1 .. Len(q)
         /\ Len(q) \in Nat
         /\ \A i \in 1 .. Len(q) : Append(q, e)[i] = q[i]
         /\ Append(q, e)[Len(q) + 1] = e
OBVIOUS

LEMMA TailIndex ==
  ASSUME NEW S, NEW q \in Seq(S), q # <<>>
  PROVE  /\ Tail(q) \in Seq(S)
         /\ Head(q) \in S /\ Head(q) = q[1]
         /\ Len(q) \in Nat \ {0}
         /\ DOMAIN Tail(q) = 1 .. Len(q) - 1
         /\ DOMAIN q = 1 .. Len(q)
         /\ \A i \in 1 .. Len(q) - 1 : Tail(q)[i] = q[i + 1]
OBVIOUS

LEMMA AppendTask ==
  ASSUME NEW S, NEW q \in Seq(S), NEW e \in S, NEW T
  PROVE  Holds(Append(q, e), T) <=> Holds(q, T) \/ e \in T
<1> DEFINE a == Append(q, e)
           n == Len(q)
<1>1. /\ DOMAIN a = 1 .. n + 1 /\ DOMAIN q = 1 .. n /\ n \in Nat
      /\ \A i \in 1 .. n : a[i] = q[i]
      /\ a[n + 1] = e
  BY AppendIndex
<1> HIDE DEF a, n
<1>2. Holds(a, T) <=> Holds(q, T) \/ e \in T
  BY <1>1 DEF Holds
<1>3. QED BY <1>2 DEF a

LEMMA TailTask ==
  ASSUME NEW S, NEW q \in Seq(S), q # <<>>, NEW T
  PROVE  Holds(q, T) <=> Head(q) \in T \/ Holds(Tail(q), T)
<1> DEFINE t == Tail(q)
           n == Len(q)
           h == Head(q)
<1>1. /\ DOMAIN t = 1 .. n - 1 /\ DOMAIN q = 1 .. n /\ n \in Nat \ {0}
      /\ \A i \in 1 .. n - 1 : t[i] = q[i + 1]
      /\ h = q[1]
  BY TailIndex
<1> HIDE DEF t, n, h
<1>2. \A i \in 2 .. n : i - 1 \in 1 .. n - 1 /\ t[i - 1] = q[i]
  BY <1>1
<1>3. h \in T => Holds(q, T)
  BY <1>1 DEF Holds
<1>4. Holds(t, T) => Holds(q, T)
  BY <1>1 DEF Holds
<1>5. ASSUME Holds(q, T), h \notin T PROVE Holds(t, T)
  <2>1. PICK i \in 2 .. n : q[i] \in T
    BY <1>1, <1>5 DEF Holds
  <2>2. QED BY <1>1, <1>2, <2>1 DEF Holds
<1>6. QED BY <1>3, <1>4, <1>5 DEF t, h

LEMMA LastTask ==
  ASSUME NEW S, NEW q \in Seq(S), NEW e \in S, NEW T, NEW x
  PROVE  /\ LastIs(q, T, x) /\ e \notin T => LastIs(Append(q, e), T, x)
         /\ e \in T => LastIs(Append(q, e), T, e)
         /\ q # <<>> /\ LastIs(q, T, x) => LastIs(Tail(q), T, x)
         /\ q # <<>> /\ LastIs(q, T, x) /\ Head(q) \in T /\ ~Holds(Tail(q), T) => Head(q) = x
<1> DEFINE a == Append(q, e)
           n == Len(q)
           t == Tail(q)
<1>1. /\ DOMAIN a = 1 .. n + 1 /\ DOMAIN q = 1 .. n /\ n \in Nat
      /\ \A i \in 1 .. n : a[i] = q[i]
      /\ a[n + 1] = e
  BY AppendIndex
<1>2. q # <<>> => /\ DOMAIN t = 1 .. n - 1 /\ n \in Nat \ {0}
                  /\ \A i \in 1 .. n - 1 : t[i] = q[i + 1]
                  /\ Head(q) = q[1]
  BY TailIndex
<1> HIDE DEF a, n, t
<1>3. ASSUME LastIs(q, T, x), e \notin T,
             NEW i \in DOMAIN a, a[i] \in T, \A j \in DOMAIN a : j > i => a[j] \notin T
      PROVE  a[i] = x
  BY <1>1, <1>3 DEF LastIs
<1>4. ASSUME e \in T, NEW i \in DOMAIN a, \A j \in DOMAIN a : j > i => a[j] \notin T
      PROVE  a[i] = e
  BY <1>1, <1>4
<1>5. ASSUME q # <<>>, \A j \in 1 .. n - 1 : t[j] \notin T, NEW k \in 2 .. n
      PROVE  q[k] \notin T
  <2>1. k - 1 \in 1 .. n - 1 /\ t[k - 1] = q[k]
    BY <1>1, <1>2, <1>5
  <2>2. QED BY <1>5, <2>1
<1>6. ASSUME q # <<>>, LastIs(q, T, x), NEW i \in 1 .. n - 1, t[i] \in T,
             \A j \in 1 .. n - 1 : j > i => t[j] \notin T
      PROVE  t[i] = x
  <2>1. ASSUME NEW k \in 1 .. n, k > i + 1 PROVE q[k] \notin T
    <3>1. k - 1 \in 1 .. n - 1 /\ k - 1 > i /\ t[k - 1] = q[k]
      BY <1>1, <1>2, <1>6, <2>1
    <3>2. QED BY <1>6, <3>1
  <2>2. i + 1 \in 1 .. n /\ q[i + 1] = t[i]
    BY <1>1, <1>2, <1>6
  <2>3. QED BY <1>1, <1>6, <2>1, <2>2 DEF LastIs
<1>7. ASSUME q # <<>>, LastIs(q, T, x), Head(q) \in T, ~Holds(t, T)
      PROVE  Head(q) = x
  <2>1. \A k \in 2 .. n : q[k] \notin T
    BY <1>2, <1>5, <1>7 DEF Holds
  <2>2. 1 \in 1 .. n /\ \A k \in 1 .. n : k > 1 => k \in 2 .. n
    BY <1>1, <1>2, <1>7
  <2>3. QED BY <1>1, <1>2, <1>7, <2>1, <2>2 DEF LastIs
<1>8. LastIs(q, T, x) /\ e \notin T => LastIs(a, T, x)
  BY <1>3 DEF LastIs
<1>9. e \in T => LastIs(a, T, e)
  BY <1>4 DEF LastIs
<1>10. q # <<>> /\ LastIs(q, T, x) => LastIs(t, T, x)
  <2> SUFFICES ASSUME q # <<>>, LastIs(q, T, x) PROVE LastIs(t, T, x)
    OBVIOUS
  <2>1. DOMAIN t = 1 .. n - 1
    BY <1>2
  <2>2. QED BY <1>6, <2>1 DEF LastIs
<1>11. QED BY <1>7, <1>8, <1>9, <1>10 DEF a, t

-----------------------------------------------------------------------------
(* Types *)

LEMMA TextType ==
  ASSUME NEW n \in Nat, NEW s \in Seq(Nat \ {0})
  PROVE  Text(n) \in Seq(Nat \ {0}) /\ s \o Text(n) \in Seq(Nat \ {0})
<1>1. Text(n) \in Seq(Nat \ {0})
  BY DEF Text
<1>2. QED BY <1>1


LEMMA InitType == Init => TypeOK
<1> SUFFICES ASSUME Init PROVE TypeOK
  OBVIOUS
<1>1. JobTypeOK
  BY DEF Init, JobInit, JobTypeOK
<1>2. ProxyTypeOK
  BY DEF Init, ProxyInit, ProxyTypeOK, States
<1>3. QED BY <1>1, <1>2 DEF Init, TypeOK

\* The job actions keep their own types.
LEMMA JobType ==
  ASSUME JobTypeOK, NEW j \in Jobs,
         \/ StartJob(j) \/ StartAsync(j) \/ KillJob(j)
         \/ \E buf_size \in BufferSizes : ReadRawData(j, buf_size)
  PROVE  JobTypeOK'
<1> USE JobConstants DEF JobTypeOK
<1>1. CASE StartJob(j)
  BY <1>1 DEF StartJob
<1>2. CASE StartAsync(j)
  BY <1>2 DEF StartAsync
<1>3. CASE KillJob(j)
  BY <1>3 DEF KillJob
<1>4. ASSUME NEW buf_size \in BufferSizes, ReadRawData(j, buf_size)
      PROVE  JobTypeOK'
  <2>a. Lengths \cup {0} \subseteq Nat /\ BufferSizes \subseteq Nat
    BY JobConstants
  <2>b. resp_[j] \in Lengths \cup {0} /\ bytes_already_read_[j] \in Nat
    OBVIOUS
  <2>0. buf_size \in Nat /\ resp_[j] \in Nat /\ bytes_already_read_[j] \in Nat
    BY <2>a, <2>b
  <2>1. Smaller(buf_size, resp_[j]) \in Nat
    BY <2>0 DEF Smaller
  <2>2. CASE bytes_already_read_[j] < resp_[j]
    <3> DEFINE n == Smaller(buf_size, resp_[j])
    <3>1. /\ delivered' = [delivered EXCEPT ![j] = @ \o Text(n)]
          /\ bytes_already_read_' = [bytes_already_read_ EXCEPT ![j] = @ + n]
          /\ UNCHANGED <<job, resp_>>
      BY <1>4, <2>2 DEF ReadRawData
    <3> HIDE DEF n
    <3>2. n \in Nat
      BY <2>1 DEF n
    <3>3. delivered[j] \o Text(n) \in Seq(Nat \ {0})
      BY <3>2, TextType
    <3>4. QED BY <3>1, <3>2, <3>3
  <2>3. CASE ~(bytes_already_read_[j] < resp_[j])
    BY <1>4, <2>3 DEF ReadRawData
  <2>4. QED BY <2>2, <2>3
<1>5. QED BY <1>1, <1>2, <1>3, <1>4

LEMMA QueueType ==
  ASSUME TypeOK, [Step]_vars
  PROVE  io' \in Seq(Tasks)
<1>0. io \in Seq(Tasks)
  BY DEF TypeOK
<1>1. ASSUME NEW t \in Tasks, Post(t) PROVE io' \in Seq(Tasks)
  BY <1>0, <1>1, AppendIndex DEF Post
<1>2. ASSUME NEW t, Runs(t) PROVE io' \in Seq(Tasks)
  BY <1>0, <1>2, TailIndex DEF Runs
<1>3. ASSUME NEW f \in Fetches, Fetch(f) PROVE io' \in Seq(Tasks)
  BY <1>1, <1>3 DEF Fetch, Tasks
<1>4. ASSUME PushProxy PROVE io' \in Seq(Tasks)
  BY <1>1, <1>4 DEF PushProxy, SetConfig, TypeOK, ProxyTypeOK, Tasks
<1>5. ASSUME NEW f \in Fetches, InitFetch(f) PROVE io' \in Seq(Tasks)
  BY <1>2, <1>5 DEF InitFetch
<1>6. ASSUME NEW c \in States, ApplyProxy(c) PROVE io' \in Seq(Tasks)
  BY <1>2, <1>6 DEF ApplyProxy, SetAllConfigsOnNetworkThread
<1>7. ASSUME NEW j \in Jobs, RunJob(j) PROVE io' \in Seq(Tasks)
  <2>1. CASE StartJob(j)
    BY <1>1, <2>1 DEF StartJob, Tasks
  <2>2. CASE StartAsync(j)
    BY <1>2, <2>2 DEF StartAsync
  <2>3. CASE KillJob(j) \/ \E buf_size \in BufferSizes : ReadRawData(j, buf_size)
    BY <1>0, <2>3 DEF KillJob, ReadRawData
  <2>4. QED BY <1>7, <2>1, <2>2, <2>3 DEF RunJob
<1>8. QED
  BY <1>0, <1>3, <1>4, <1>5, <1>6, <1>7
     DEF Step, ReturnId, DeviceChanges, FirstPage, AskProxy, AnswerProxyRequest, ServiceMade,
         FinishService, OnURLFetchComplete, vars

LEMMA TypeStep == TypeOK /\ [Step]_vars => TypeOK'
<1> SUFFICES ASSUME TypeOK, [Step]_vars PROVE TypeOK'
  OBVIOUS
<1>0. io' \in Seq(Tasks)
  BY QueueType
<1> USE FetchConstants, ProxyConstants DEF TypeOK, ProxyTypeOK
<1>1. ASSUME NEW f \in Fetches, Fetch(f) PROVE TypeOK'
  BY <1>0, <1>1 DEF Fetch, proxyVars, jobVars, JobTypeOK
<1>2. ASSUME ReturnId PROVE TypeOK'
  BY <1>0, <1>2 DEF ReturnId, proxyVars, jobVars, JobTypeOK
<1>3. ASSUME PushProxy PROVE TypeOK'
  BY <1>0, <1>3 DEF PushProxy, SetConfig, fetchVars, jobVars, JobTypeOK
<1>4. ASSUME NEW c \in States, DeviceChanges(c) PROVE TypeOK'
  BY <1>0, <1>4 DEF DeviceChanges, ChangeProxy, fetchVars, jobVars, JobTypeOK
<1>5. ASSUME NEW f \in Fetches, InitFetch(f) PROVE TypeOK'
  <2>1. JobTypeOK' /\ UNCHANGED <<returning, known, completed, early>>
    BY <1>5 DEF InitFetch, jobVars, JobTypeOK
  <2>2. CASE service = "none"
    BY <1>0, <1>5, <2>1, <2>2 DEF InitFetch, BeginService
  <2>3. CASE service # "none"
    BY <1>0, <1>5, <2>1, <2>3 DEF InitFetch, proxyVars, Proxied
  <2>4. QED BY <2>2, <2>3
<1>6. ASSUME FirstPage \/ AskProxy PROVE TypeOK'
  BY <1>0, <1>6 DEF FirstPage, AskProxy, BeginService, AnswerProxyRequest, fetchVars, jobVars,
                    JobTypeOK
<1>7. ASSUME ServiceMade PROVE TypeOK'
  <2>1. latest_' \in States
    BY <1>7 DEF ServiceMade, FinishService, SetConfigOnNetworkThread
  <2>2. Proxied(latest_') \in {"waiting", "running"}
    BY DEF Proxied
  <2>3. fetch' \in [Fetches -> {"unborn", "posted", "starting", "waiting", "running", "done"}]
    BY <1>7, <2>2 DEF ServiceMade
  <2>4. QED BY <1>0, <1>7, <2>1, <2>3
            DEF ServiceMade, FinishService, jobVars, JobTypeOK, States
<1>8. ASSUME NEW c \in States, ApplyProxy(c) PROVE TypeOK'
  <2>1. latest_' \in States
    BY <1>8 DEF ApplyProxy, SetAllConfigsOnNetworkThread, SetConfigOnNetworkThread
  <2>2. fetch' \in [Fetches -> {"unborn", "posted", "starting", "waiting", "running", "done"}]
    BY <1>8 DEF ApplyProxy, Notify
  <2>3. QED BY <1>0, <1>8, <2>1, <2>2
            DEF ApplyProxy, SetAllConfigsOnNetworkThread, jobVars, JobTypeOK
<1>9. ASSUME NEW f \in Fetches, OnURLFetchComplete(f) PROVE TypeOK'
  BY <1>0, <1>9 DEF OnURLFetchComplete, proxyVars, jobVars, JobTypeOK
<1>10. ASSUME NEW j \in Jobs, RunJob(j) PROVE TypeOK'
  <2>1. JobTypeOK'
    BY <1>10, JobType DEF RunJob
  <2>2. QED BY <1>0, <1>10, <2>1 DEF RunJob, proxyVars, fetchVars
<1>11. ASSUME UNCHANGED vars PROVE TypeOK'
  BY <1>0, <1>11 DEF vars, proxyVars, jobVars, fetchVars, JobTypeOK
<1>12. QED BY <1>1, <1>2, <1>3, <1>4, <1>5, <1>6, <1>7, <1>8, <1>9, <1>10, <1>11 DEF Step

\* Types, for a queue without bound on the jobs and fetches in it.
THEOREM ServicesTypes == Spec => []TypeOK
<1>1. [Next]_vars => [Step]_vars
  BY DEF Next
<1>2. QED BY <1>1, InitType, TypeStep, PTL DEF Spec

-----------------------------------------------------------------------------
(* The configuration in force *)

\* The last configuration on its way is the device's, unless Java has still to push that.
LastIsCurrent == ~unsent => LastIs(io, Proxies, ProxyTask(javaConfig))

\* When none is on its way, the device's has arrived, if the device has one.
ArrivedIsCurrent ==
  ~unsent /\ ~Holds(io, Proxies) /\ javaConfig # NoConfig =>
    /\ service = "answered" => answer = javaConfig
    /\ service = "ready" => latest_ = javaConfig

ProxyInv ==
  /\ TypeOK
  /\ LastIsCurrent
  /\ ArrivedIsCurrent

LEMMA InitProxy == Init => ProxyInv
<1> SUFFICES ASSUME Init PROVE ProxyInv
  OBVIOUS
<1>1. ~Holds(io, Proxies) /\ LastIs(io, Proxies, ProxyTask(javaConfig))
  BY DEF Init, Holds, LastIs
<1>2. QED BY <1>1, InitType DEF Init, ProxyInit, ProxyInv, LastIsCurrent, ArrivedIsCurrent

\* Only the queue changes, and not the configurations in it.
LEMMA SameProxies ==
  ASSUME ProxyInv, UNCHANGED proxyVars,
         \/ io' = io
         \/ \E t \in Tasks \ Proxies : Post(t) \/ Runs(t)
  PROVE  LastIsCurrent' /\ ArrivedIsCurrent'
<1>0. io \in Seq(Tasks)
  BY DEF ProxyInv, TypeOK
<1>1. Holds(io, Proxies)' <=> Holds(io, Proxies)
  <2>1. ASSUME NEW t \in Tasks \ Proxies, Post(t) PROVE Holds(io', Proxies) <=> Holds(io, Proxies)
    BY <1>0, <2>1, AppendTask DEF Post
  <2>2. ASSUME NEW t \in Tasks \ Proxies, Runs(t) PROVE Holds(io', Proxies) <=> Holds(io, Proxies)
    BY <1>0, <2>2, TailTask DEF Runs
  <2>3. QED BY <2>1, <2>2
<1>2. LastIsCurrent'
  <2> DEFINE x == ProxyTask(javaConfig)
  <2>1. ASSUME NEW t \in Tasks \ Proxies, Post(t), LastIs(io, Proxies, x)
        PROVE  LastIs(io', Proxies, x)
    BY <1>0, <2>1, LastTask DEF Post
  <2>2. ASSUME NEW t \in Tasks \ Proxies, Runs(t), LastIs(io, Proxies, x)
        PROVE  LastIs(io', Proxies, x)
    <3>1. t = Head(io) /\ io # <<>> /\ io' = Tail(io)
      BY <2>2 DEF Runs
    <3>2. QED BY <1>0, <2>2, <3>1, LastTask
  <2>3. javaConfig' = javaConfig /\ unsent' = unsent
    BY DEF proxyVars
  <2>4. QED BY <2>1, <2>2, <2>3 DEF ProxyInv, LastIsCurrent
<1>3. QED BY <1>1, <1>2 DEF ProxyInv, ArrivedIsCurrent, proxyVars

LEMMA PushKeeps == ASSUME ProxyInv, PushProxy PROVE ProxyInv'
<1>0. io \in Seq(Tasks) /\ TypeOK'
  BY TypeStep DEF ProxyInv, TypeOK, Step
<1>1. /\ javaConfig \in States /\ javaConfig' = javaConfig /\ unsent' = FALSE
      /\ io' = Append(io, ProxyTask(javaConfig))
  BY DEF PushProxy, SetConfig, Post, ProxyInv, TypeOK, ProxyTypeOK
<1>2. ProxyTask(javaConfig) \in Tasks /\ ProxyTask(javaConfig) \in Proxies
  BY <1>1 DEF Tasks, Proxies
<1>3. LastIs(io', Proxies, ProxyTask(javaConfig))
  BY <1>0, <1>1, <1>2, LastTask
<1>4. Holds(io', Proxies)
  BY <1>0, <1>1, <1>2, AppendTask
<1>5. QED BY <1>0, <1>1, <1>3, <1>4 DEF ProxyInv, LastIsCurrent, ArrivedIsCurrent

LEMMA ApplyKeeps == ASSUME ProxyInv, NEW c \in States, ApplyProxy(c) PROVE ProxyInv'
<1>0. io \in Seq(Tasks) /\ TypeOK'
  BY TypeStep DEF ProxyInv, TypeOK, Step
<1>1. /\ service \in {"none", "ready"} /\ io # <<>> /\ Head(io) = ProxyTask(c)
      /\ io' = Tail(io)
      /\ UNCHANGED <<javaConfig, unsent, service, answer>>
      /\ service = "ready" /\ c # NoConfig => latest_' = c
  BY DEF ApplyProxy, ProxyIdle, SetAllConfigsOnNetworkThread, SetConfigOnNetworkThread, Runs
<1>2. ProxyTask(c) \in Proxies
  BY DEF Proxies
<1>3. LastIsCurrent'
  <2>1. ASSUME LastIs(io, Proxies, ProxyTask(javaConfig))
        PROVE  LastIs(Tail(io), Proxies, ProxyTask(javaConfig))
    <3>1. Head(io) \in Tasks
      BY <1>0, <1>1, TailIndex
    <3>2. QED BY <1>0, <1>1, <2>1, <3>1, LastTask
  <2>2. QED BY <1>1, <2>1 DEF ProxyInv, LastIsCurrent
<1>4. ASSUME ~unsent, ~Holds(Tail(io), Proxies), service = "ready"
      PROVE  c = javaConfig
  <2>1. Head(io) \in Tasks
    BY <1>0, <1>1, TailIndex
  <2>2. LastIs(io, Proxies, ProxyTask(javaConfig))
    BY <1>4 DEF ProxyInv, LastIsCurrent
  <2>3. Head(io) = ProxyTask(javaConfig)
    BY <1>0, <1>1, <1>2, <1>4, <2>1, <2>2, LastTask
  <2>4. ProxyTask(c).config = ProxyTask(javaConfig).config
    BY <1>1, <2>3
  <2>5. QED BY <2>4 DEF ProxyTask
<1>5. ArrivedIsCurrent'
  BY <1>1, <1>4 DEF ArrivedIsCurrent
<1>6. QED BY <1>0, <1>3, <1>5 DEF ProxyInv

LEMMA StepProxy == ProxyInv /\ [Step]_vars => ProxyInv'
<1> SUFFICES ASSUME ProxyInv, [Step]_vars PROVE ProxyInv'
  OBVIOUS
<1>0. TypeOK'
  BY TypeStep DEF ProxyInv
<1> DEFINE Rest == LastIsCurrent' /\ ArrivedIsCurrent'
<1>1. ASSUME NEW f \in Fetches, Fetch(f) PROVE Rest
  <2>1. UNCHANGED proxyVars /\ Post(InitTask(f))
    BY <1>1 DEF Fetch
  <2>2. InitTask(f) \in Tasks \ Proxies
    BY DEF Tasks, Proxies, InitTask, ProxyTask
  <2>3. QED BY <2>1, <2>2, SameProxies
<1>2. ASSUME ReturnId \/ UNCHANGED vars PROVE Rest
  BY <1>2, SameProxies DEF ReturnId, vars
<1>3. ASSUME NEW f \in Fetches, OnURLFetchComplete(f) PROVE Rest
  BY <1>3, SameProxies DEF OnURLFetchComplete
<1>4. ASSUME NEW j \in Jobs, RunJob(j) PROVE Rest
  <2>1. UNCHANGED proxyVars
    BY <1>4 DEF RunJob
  <2>2. io' = io \/ Post(StartTask(j)) \/ Runs(StartTask(j))
    BY <1>4 DEF RunJob, StartJob, StartAsync, ReadRawData, KillJob
  <2>3. QED BY <2>1, <2>2, SameProxies DEF Tasks, Proxies, StartTask, ProxyTask
<1>5. ASSUME NEW f \in Fetches, InitFetch(f) PROVE Rest
  <2>1. Runs(InitTask(f)) /\ InitTask(f) \in Tasks \ Proxies
    BY <1>5 DEF InitFetch, Tasks, Proxies, InitTask, ProxyTask
  <2>2. CASE service # "none"
    BY <1>5, <2>1, <2>2, SameProxies DEF InitFetch
  <2>3. CASE service = "none"
    <3>1. service' = "asking" /\ UNCHANGED <<javaConfig, unsent, answer, latest_>>
      BY <1>5, <2>3 DEF InitFetch, BeginService
    <3>2. /\ io \in Seq(Tasks) /\ io # <<>> /\ Head(io) = InitTask(f) /\ io' = Tail(io)
          /\ Head(io) \notin Proxies /\ Head(io) \in Tasks
      BY <2>1 DEF Runs, ProxyInv, TypeOK
    <3>3. Holds(Tail(io), Proxies) => Holds(io, Proxies)
      BY <3>2, TailTask
    <3>4. LastIs(io, Proxies, ProxyTask(javaConfig))
            => LastIs(Tail(io), Proxies, ProxyTask(javaConfig))
      BY <3>2, LastTask
    <3>5. QED BY <3>1, <3>2, <3>3, <3>4
              DEF ProxyInv, LastIsCurrent, ArrivedIsCurrent
  <2>4. QED BY <2>2, <2>3
<1>6. ASSUME NEW c \in States, DeviceChanges(c) PROVE Rest
  <2>1. javaConfig' = c /\ unsent' = TRUE
    BY <1>6 DEF DeviceChanges, ChangeProxy
  <2>2. QED BY <2>1 DEF LastIsCurrent, ArrivedIsCurrent
<1>7. ASSUME FirstPage \/ AskProxy PROVE Rest
  BY <1>7 DEF FirstPage, AskProxy, BeginService, AnswerProxyRequest, ProxyInv, LastIsCurrent,
              ArrivedIsCurrent
<1>8. ASSUME ServiceMade PROVE Rest
  <2>1. /\ service = "answered" /\ service' = "ready"
        /\ latest_' = IF answer = NoConfig THEN latest_ ELSE answer
        /\ UNCHANGED <<io, javaConfig, unsent>>
    BY <1>8 DEF ServiceMade, FinishService, SetConfigOnNetworkThread
  <2>2. QED BY <2>1 DEF ProxyInv, LastIsCurrent, ArrivedIsCurrent
<1>9. QED
  BY <1>0, <1>1, <1>2, <1>3, <1>4, <1>5, <1>6, <1>7, <1>8, PushKeeps, ApplyKeeps
     DEF Step, ProxyInv

\* Once nothing is on the way, the network uses the proxy configuration of a device that
\* has one, however the answer to the constructor and the pushed changes crossed
\* (SetAllConfigsOnNetworkThread, the constructor of ProxyConfigService).
THEOREM ProxySettles == Spec => []ConfigSettles
<1>1. ProxyInv => ConfigSettles
  <2> SUFFICES ASSUME ProxyInv, service = "ready", javaConfig # NoConfig, ~unsent,
                      ~\E c \in States, i \in DOMAIN io : io[i] = ProxyTask(c)
               PROVE  latest_ = javaConfig
    BY DEF ConfigSettles
  <2>1. ~Holds(io, Proxies)
    BY DEF Holds, Proxies
  <2>2. QED BY <2>1 DEF ProxyInv, ArrivedIsCurrent
<1>2. [Next]_vars => [Step]_vars
  BY DEF Next
<1>3. QED BY <1>1, <1>2, InitProxy, StepProxy, PTL DEF Spec

-----------------------------------------------------------------------------
(* Pages, when every buffer holds the page *)

Fits(length) == \A buf_size \in BufferSizes : length <= buf_size

\* A job has handed over nothing or everything.
PageInv ==
  \A j \in Jobs :
    /\ job[j] \in {"unborn", "started"} => bytes_already_read_[j] = 0 /\ delivered[j] = <<>>
    /\ job[j] = "reading" /\ Fits(resp_[j]) =>
         \/ bytes_already_read_[j] = 0 /\ delivered[j] = <<>>
         \/ bytes_already_read_[j] = resp_[j] /\ delivered[j] = Text(resp_[j])
    /\ job[j] = "complete" /\ Fits(resp_[j]) => delivered[j] = Text(resp_[j])

LEMMA JobKeeps ==
  ASSUME JobTypeOK, PageInv, NEW j \in Jobs,
         \/ StartJob(j) \/ StartAsync(j) \/ KillJob(j)
         \/ \E buf_size \in BufferSizes : ReadRawData(j, buf_size)
  PROVE  PageInv'
<1> USE DEF JobTypeOK, PageInv
<1>1. CASE StartJob(j)
  BY <1>1 DEF StartJob
<1>2. CASE StartAsync(j)
  BY <1>2 DEF StartAsync
<1>3. CASE KillJob(j)
  BY <1>3 DEF KillJob
<1>4. ASSUME NEW buf_size \in BufferSizes, ReadRawData(j, buf_size)
      PROVE  PageInv'
  <2>0. /\ job[j] = "reading" /\ UNCHANGED resp_
        /\ \A i \in Jobs \ {j} : /\ job'[i] = job[i]
                                 /\ bytes_already_read_'[i] = bytes_already_read_[i]
                                 /\ delivered'[i] = delivered[i]
    BY <1>4 DEF ReadRawData
  <2>1. CASE ~Fits(resp_[j])
    <3>1. job'[j] \in {"reading", "complete"}
      BY <1>4, <2>0 DEF ReadRawData
    <3>2. QED BY <2>0, <2>1, <3>1
  <2>2. CASE Fits(resp_[j])
    <3>a. Lengths \cup {0} \subseteq Nat /\ BufferSizes \subseteq Nat
      BY JobConstants
    <3>b. resp_[j] \in Nat /\ buf_size \in Nat /\ resp_[j] <= buf_size
      BY <2>2, <3>a DEF Fits
    <3>1. CASE bytes_already_read_[j] < resp_[j]
      <4>1. Smaller(buf_size, resp_[j]) = resp_[j]
        BY <3>b DEF Smaller
      <4>2. /\ UNCHANGED job
            /\ delivered' = [delivered EXCEPT ![j] = @ \o Text(resp_[j])]
            /\ bytes_already_read_' = [bytes_already_read_ EXCEPT ![j] = @ + resp_[j]]
        BY <1>4, <3>1, <4>1 DEF ReadRawData
      <4>3. bytes_already_read_[j] = 0 /\ delivered[j] = <<>>
        BY <2>0, <2>2, <3>1, <3>b
      <4>4. Text(resp_[j]) \in Seq(Nat \ {0})
        BY <3>b DEF Text
      <4>5. <<>> \o Text(resp_[j]) = Text(resp_[j])
        BY <4>4
      <4>6. delivered'[j] = Text(resp_[j]) /\ bytes_already_read_'[j] = resp_[j]
        BY <3>b, <4>2, <4>3, <4>5
      <4>7. QED BY <2>0, <4>2, <4>6
    <3>2. CASE ~(bytes_already_read_[j] < resp_[j])
      <4>1. job' = [job EXCEPT ![j] = "complete"] /\ UNCHANGED <<bytes_already_read_, delivered>>
        BY <1>4, <3>2 DEF ReadRawData
      <4>2. resp_[j] = 0 => Text(resp_[j]) = <<>>
        BY DEF Text
      <4>3. delivered[j] = Text(resp_[j])
        BY <2>0, <2>2, <3>2, <3>b, <4>2
      <4>4. QED BY <2>0, <4>1, <4>3
    <3>3. QED BY <3>1, <3>2
  <2>3. QED BY <2>1, <2>2
<1>5. QED BY <1>1, <1>2, <1>3, <1>4

\* For pages and buffers of any lengths: a request that completes has delivered the page,
\* whole and once, or the page was longer than a buffer the loader uses, the failure that
\* ReadRawData has, which copies from the beginning each time.
THEOREM PagesFit == Spec => []FittingPageDelivered
<1>1. Init => PageInv
  BY DEF Init, JobInit, PageInv
<1>2. TypeOK /\ PageInv /\ [Next]_vars => PageInv'
  <2> SUFFICES ASSUME TypeOK, PageInv, [Step]_vars PROVE PageInv'
    BY DEF Next
  <2>1. ASSUME NEW j \in Jobs, RunJob(j) PROVE PageInv'
    BY <2>1, JobKeeps DEF RunJob, TypeOK
  <2>2. ASSUME UNCHANGED jobVars PROVE PageInv'
    BY <2>2 DEF jobVars, PageInv
  <2>3. QED BY <2>1, <2>2
            DEF Step, Fetch, ReturnId, PushProxy, DeviceChanges, InitFetch, FirstPage, AskProxy,
                ServiceMade, ApplyProxy, OnURLFetchComplete, vars
<1>3. TypeOK /\ PageInv => FittingPageDelivered
  <2> SUFFICES ASSUME TypeOK, PageInv, NEW j \in Jobs, job[j] = "complete",
                      \A buf_size \in BufferSizes : ~(buf_size < resp_[j])
               PROVE  delivered[j] = Text(resp_[j])
    BY DEF FittingPageDelivered
  <2>1. Lengths \cup {0} \subseteq Nat /\ BufferSizes \subseteq Nat
    BY JobConstants
  <2>2. resp_[j] \in Lengths \cup {0}
    BY DEF TypeOK, JobTypeOK
  <2>3. \A buf_size \in BufferSizes : resp_[j] <= buf_size
    BY <2>1, <2>2
  <2>4. QED BY <2>3 DEF PageInv, Fits
<1>4. QED BY <1>1, <1>2, <1>3, ServicesTypes, PTL DEF Spec

-----------------------------------------------------------------------------
(* Fetches: what makes FetchesAnswered possible at every moment *)

\* At most one task of T is queued.
Once(q, T) == \A i, j \in DOMAIN q : q[i] \in T /\ q[j] \in T => i = j

LEMMA AppendOnce ==
  ASSUME NEW S, NEW q \in Seq(S), NEW e \in S, NEW T, Once(q, T), e \in T => ~Holds(q, T)
  PROVE  Once(Append(q, e), T)
<1> DEFINE a == Append(q, e)
           n == Len(q)
<1>1. /\ DOMAIN a = 1 .. n + 1 /\ DOMAIN q = 1 .. n /\ n \in Nat
      /\ \A i \in 1 .. n : a[i] = q[i]
      /\ a[n + 1] = e
  BY AppendIndex
<1> HIDE DEF a, n
<1>2. Once(a, T)
  BY <1>1 DEF Once, Holds
<1>3. QED BY <1>2 DEF a

LEMMA TailOnce ==
  ASSUME NEW S, NEW q \in Seq(S), q # <<>>, NEW T, Once(q, T)
  PROVE  Once(Tail(q), T) /\ (Head(q) \in T => ~Holds(Tail(q), T))
<1> DEFINE t == Tail(q)
           n == Len(q)
           h == Head(q)
<1>1. /\ DOMAIN t = 1 .. n - 1 /\ DOMAIN q = 1 .. n /\ n \in Nat \ {0}
      /\ \A i \in 1 .. n - 1 : t[i] = q[i + 1]
      /\ h = q[1]
  BY TailIndex
<1> HIDE DEF t, n, h
<1>2. \A i \in 1 .. n - 1 : i + 1 \in 1 .. n /\ i + 1 # 1
  BY <1>1
<1>3. ASSUME NEW i \in 1 .. n - 1, NEW j \in 1 .. n - 1, t[i] \in T, t[j] \in T PROVE i = j
  <2>1. i + 1 = j + 1
    BY <1>1, <1>2, <1>3 DEF Once
  <2>2. QED BY <2>1
<1>4. h \in T => ~Holds(t, T)
  BY <1>1, <1>2 DEF Once, Holds
<1>5. Once(t, T)
  BY <1>1, <1>3 DEF Once
<1>6. QED BY <1>4, <1>5 DEF t, h

InitOf(f) == {InitTask(f)}

\* A fetcher's Init, which holds a raw pointer to it, is queued once, from Fetch until the
\* IO thread runs it, and finds the fetcher as Fetch left it.
InitQueued ==
  \A f \in Fetches : (fetch[f] = "posted" <=> Holds(io, InitOf(f))) /\ Once(io, InitOf(f))

\* One fetch at most is held up by the constructor of the service.
StartingOne ==
  /\ \A f \in Fetches : fetch[f] = "starting" <=> starting = f
  /\ starting # NoFetch => service \in {"asking", "answered"}

\* A request waits for a configuration only of a service that has none.
WaitingForConfig ==
  \A f \in Fetches : fetch[f] = "waiting" => service = "ready" /\ latest_ = NoConfig

DoneIsCompleted == \A f \in Fetches : fetch[f] = "done" <=> f \in completed

\* The fetcher whose id is read is alive, or was over too early;
ReturningLives ==
  returning # NoFetch =>
    fetch[returning] # "unborn" /\ (fetch[returning] = "done" => returning \in early)

\* Java knows, or is being told, the id of every fetch it asked for that was not over too
\* early, and no other id until one was.
IdIsKnown ==
  /\ \A f \in Fetches : fetch[f] # "unborn" => f \in known \cup early \cup {returning}
  /\ early = {} => \A f \in known : fetch[f] # "unborn"

FetchInv ==
  /\ ProxyInv
  /\ InitQueued
  /\ StartingOne
  /\ WaitingForConfig
  /\ DoneIsCompleted
  /\ ReturningLives
  /\ IdIsKnown

LEMMA InitFetches == Init => FetchInv
<1> SUFFICES ASSUME Init PROVE FetchInv
  OBVIOUS
<1>1. InitQueued
  BY DEF Init, InitQueued, Holds, Once
<1>2. QED BY <1>1, InitProxy, FetchConstants
          DEF Init, FetchInv, StartingOne, WaitingForConfig, DoneIsCompleted, ReturningLives,
              IdIsKnown

\* The Inits in the queue when another task is posted or run.
LEMMA OtherTask ==
  ASSUME io \in Seq(Tasks), NEW f \in Fetches, Once(io, InitOf(f)),
         \/ io' = io
         \/ \E t \in Tasks \ InitOf(f) : Post(t) \/ Runs(t)
  PROVE  (Holds(io', InitOf(f)) <=> Holds(io, InitOf(f))) /\ Once(io', InitOf(f))
<1>1. ASSUME NEW t \in Tasks \ InitOf(f), Post(t)
      PROVE  (Holds(io', InitOf(f)) <=> Holds(io, InitOf(f))) /\ Once(io', InitOf(f))
  BY <1>1, AppendTask, AppendOnce DEF Post
<1>2. ASSUME NEW t \in Tasks \ InitOf(f), Runs(t)
      PROVE  (Holds(io', InitOf(f)) <=> Holds(io, InitOf(f))) /\ Once(io', InitOf(f))
  BY <1>2, TailTask, TailOnce DEF Runs
<1>3. QED BY <1>1, <1>2

\* A step that leaves the Inits alone starts no fetch and unstarts none.
LEMMA SameInits ==
  ASSUME FetchInv,
         \/ io' = io
         \/ \E t \in Tasks : (\A f \in Fetches : t # InitTask(f)) /\ (Post(t) \/ Runs(t)),
         \A f \in Fetches : fetch'[f] = "posted" <=> fetch[f] = "posted"
  PROVE  InitQueued'
<1> SUFFICES ASSUME NEW f \in Fetches
             PROVE  (fetch'[f] = "posted" <=> Holds(io', InitOf(f))) /\ Once(io', InitOf(f))
  BY DEF InitQueued, InitOf, InitTask
<1>1. io \in Seq(Tasks) /\ Once(io, InitOf(f)) /\ (fetch[f] = "posted" <=> Holds(io, InitOf(f)))
  BY DEF FetchInv, ProxyInv, TypeOK, InitQueued
<1>2. io' = io \/ \E t \in Tasks \ InitOf(f) : Post(t) \/ Runs(t)
  BY DEF InitOf
<1>3. QED BY <1>1, <1>2, OtherTask

LEMMA FetchKeeps == ASSUME FetchInv, NEW f \in Fetches, Fetch(f) PROVE FetchInv'
<1>0. ProxyInv' /\ io \in Seq(Tasks) /\ InitTask(f) \in Tasks
  BY StepProxy DEF FetchInv, ProxyInv, TypeOK, Step, Tasks
<1>1. /\ returning = NoFetch /\ returning' = f /\ f # NoFetch
      /\ fetch[f] = "unborn" /\ fetch' = [fetch EXCEPT ![f] = "posted"]
      /\ fetch \in [Fetches -> {"unborn", "posted", "starting", "waiting", "running", "done"}]
      /\ Post(InitTask(f))
      /\ UNCHANGED <<service, latest_, starting, known, completed, early>>
  BY FetchConstants DEF Fetch, UiIdle, proxyVars, FetchInv, ProxyInv, TypeOK
<1>2. InitQueued'
  <2>1. ASSUME NEW g \in Fetches, g # f
        PROVE  (fetch'[g] = "posted" <=> Holds(io', InitOf(g))) /\ Once(io', InitOf(g))
    <3>1. InitTask(f) \in Tasks \ InitOf(g)
      BY <1>0, <2>1 DEF InitOf, InitTask
    <3>2. QED BY <1>0, <1>1, <2>1, <3>1, OtherTask DEF FetchInv, InitQueued
  <2>2. fetch'[f] = "posted" /\ Holds(io', InitOf(f)) /\ Once(io', InitOf(f))
    <3>1. ~Holds(io, InitOf(f)) /\ Once(io, InitOf(f)) /\ InitTask(f) \in InitOf(f)
      BY <1>1 DEF FetchInv, InitQueued, InitOf
    <3>2. QED BY <1>0, <1>1, <3>1, AppendTask, AppendOnce DEF Post
  <2>3. QED BY <2>1, <2>2 DEF InitQueued, InitOf, InitTask
<1>3. StartingOne' /\ WaitingForConfig' /\ DoneIsCompleted'
  BY <1>1 DEF FetchInv, StartingOne, WaitingForConfig, DoneIsCompleted
<1>4. ReturningLives' /\ IdIsKnown'
  BY <1>1, FetchConstants DEF FetchInv, ReturningLives, IdIsKnown
<1>5. QED BY <1>0, <1>2, <1>3, <1>4 DEF FetchInv

LEMMA StartKeeps == ASSUME FetchInv, NEW f \in Fetches, InitFetch(f) PROVE FetchInv'
<1>0. ProxyInv' /\ io \in Seq(Tasks)
  BY StepProxy DEF FetchInv, ProxyInv, TypeOK, Step
<1>1. /\ fetch \in [Fetches -> {"unborn", "posted", "starting", "waiting", "running", "done"}]
      /\ io # <<>> /\ Head(io) = InitTask(f) /\ io' = Tail(io)
      /\ service \in {"none", "ready"}
      /\ UNCHANGED <<returning, known, completed, early>>
  BY DEF InitFetch, ProxyIdle, Runs, FetchInv, ProxyInv, TypeOK
<1>2. fetch[f] = "posted" /\ Once(io', InitOf(f)) /\ ~Holds(io', InitOf(f))
  <2>1. Once(io, InitOf(f)) /\ Head(io) \in InitOf(f)
    BY <1>1 DEF FetchInv, InitQueued, InitOf
  <2>2. QED BY <1>0, <1>1, <2>1, TailTask, TailOnce DEF FetchInv, InitQueued
<1>3. \/ /\ service = "none" /\ service' = "asking" /\ starting' = f /\ latest_' = latest_
         /\ fetch' = [fetch EXCEPT ![f] = "starting"]
      \/ /\ service = "ready" /\ UNCHANGED <<service, latest_, starting>>
         /\ fetch' = [fetch EXCEPT ![f] = IF latest_ = NoConfig THEN "waiting" ELSE "running"]
  BY <1>1 DEF InitFetch, BeginService, Proxied, proxyVars
<1>4. InitQueued'
  <2>1. ASSUME NEW g \in Fetches, g # f
        PROVE  (fetch'[g] = "posted" <=> Holds(io', InitOf(g))) /\ Once(io', InitOf(g))
    <3>1. InitTask(f) \in Tasks \ InitOf(g) /\ Runs(InitTask(f))
      BY <2>1 DEF InitOf, InitTask, Tasks, InitFetch
    <3>2. fetch'[g] = fetch[g]
      BY <1>1, <1>3, <2>1
    <3>3. QED BY <1>0, <3>1, <3>2, OtherTask DEF FetchInv, InitQueued
  <2>2. fetch'[f] # "posted"
    BY <1>1, <1>3
  <2>3. QED BY <1>2, <2>1, <2>2 DEF InitQueued, InitOf, InitTask
<1>5. StartingOne' /\ WaitingForConfig'
  <2>0. starting = NoFetch /\ f # NoFetch /\ \A g \in Fetches : fetch[g] # "starting"
    BY <1>1, FetchConstants DEF FetchInv, StartingOne
  <2>1. CASE service = "none"
    BY <1>1, <1>3, <2>0, <2>1 DEF FetchInv, StartingOne, WaitingForConfig
  <2>2. CASE service = "ready"
    <3>1. latest_ = NoConfig => fetch' = [fetch EXCEPT ![f] = "waiting"]
      BY <1>3, <2>2
    <3>2. latest_ # NoConfig => fetch' = [fetch EXCEPT ![f] = "running"]
      BY <1>3, <2>2
    <3>3. UNCHANGED <<service, latest_, starting>>
      BY <1>3, <2>2
    <3>4. QED BY <1>1, <2>0, <2>2, <3>1, <3>2, <3>3
              DEF FetchInv, StartingOne, WaitingForConfig
  <2>3. QED BY <1>1, <2>1, <2>2
<1>6. fetch'[f] \notin {"unborn", "done"} /\ \A g \in Fetches : g # f => fetch'[g] = fetch[g]
  BY <1>1, <1>3
<1>7. DoneIsCompleted' /\ ReturningLives' /\ IdIsKnown'
  BY <1>1, <1>2, <1>6
     DEF FetchInv, ProxyInv, TypeOK, DoneIsCompleted, ReturningLives, IdIsKnown
<1>8. QED BY <1>0, <1>4, <1>5, <1>7 DEF FetchInv

LEMMA ReturnKeeps == ASSUME FetchInv, ReturnId PROVE FetchInv'
<1>0. ProxyInv'
  BY StepProxy DEF FetchInv, Step
<1>1. /\ returning \in Fetches /\ returning' = NoFetch
      /\ known \subseteq known' /\ (fetch[returning] # "done" => known' = known \cup {returning})
      /\ UNCHANGED <<io, service, latest_, fetch, starting, completed, early>>
  BY DEF ReturnId, FetchInv, ProxyInv, TypeOK, proxyVars
<1>2. InitQueued' /\ StartingOne' /\ WaitingForConfig' /\ DoneIsCompleted' /\ ReturningLives'
  BY <1>1 DEF FetchInv, InitQueued, InitOf, InitTask, StartingOne, WaitingForConfig,
              DoneIsCompleted, ReturningLives
<1>3. IdIsKnown'
  BY <1>1, FetchConstants DEF FetchInv, IdIsKnown, ReturningLives
<1>4. QED BY <1>0, <1>2, <1>3 DEF FetchInv

LEMMA MadeKeeps == ASSUME FetchInv, ServiceMade PROVE FetchInv'
<1>0. ProxyInv'
  BY StepProxy DEF FetchInv, Step
<1>1. /\ fetch \in [Fetches -> {"unborn", "posted", "starting", "waiting", "running", "done"}]
      /\ starting \in Fetches \cup {NoFetch} /\ starting' = NoFetch /\ NoFetch \notin Fetches
      /\ service = "answered" /\ service' = "ready"
      /\ fetch' = IF starting = NoFetch THEN fetch
                  ELSE [fetch EXCEPT ![starting] =
                          IF latest_' = NoConfig THEN "waiting" ELSE "running"]
      /\ UNCHANGED <<io, returning, known, completed, early>>
  BY FetchConstants
     DEF ServiceMade, FinishService, Proxied, FetchInv, ProxyInv, TypeOK
<1>2. \A f \in Fetches : \/ fetch'[f] = fetch[f] /\ f # starting /\ fetch[f] # "starting"
                         \/ /\ f = starting /\ fetch[f] = "starting"
                            /\ fetch'[f] = IF latest_' = NoConfig THEN "waiting" ELSE "running"
  BY <1>1 DEF FetchInv, StartingOne
<1>3. InitQueued'
  BY <1>1, <1>2, SameInits
<1>4. StartingOne' /\ DoneIsCompleted'
  BY <1>1, <1>2 DEF FetchInv, StartingOne, DoneIsCompleted
<1>5. WaitingForConfig'
  BY <1>1, <1>2 DEF FetchInv, WaitingForConfig
<1>6. ReturningLives' /\ IdIsKnown'
  BY <1>1, <1>2 DEF FetchInv, ProxyInv, TypeOK, ReturningLives, IdIsKnown
<1>7. QED BY <1>0, <1>3, <1>4, <1>5, <1>6 DEF FetchInv

LEMMA ConfigKeeps == ASSUME FetchInv, NEW c \in States, ApplyProxy(c) PROVE FetchInv'
<1>0. ProxyInv' /\ ProxyTask(c) \in Tasks /\ \A f \in Fetches : ProxyTask(c) # InitTask(f)
  BY StepProxy DEF FetchInv, Step, Tasks, ProxyTask, InitTask
<1>1. /\ Runs(ProxyTask(c)) /\ service' = service
      /\ latest_' = IF service = "ready" /\ c # NoConfig THEN c ELSE latest_
      /\ UNCHANGED <<returning, starting, known, completed, early>>
  BY DEF ApplyProxy, ProxyIdle, SetAllConfigsOnNetworkThread, SetConfigOnNetworkThread
<1>2. \A f \in Fetches :
        fetch'[f] = IF fetch[f] = "waiting" /\ latest_' # NoConfig THEN "running" ELSE fetch[f]
  BY DEF ApplyProxy, Notify
<1>3. InitQueued'
  BY <1>0, <1>1, <1>2, SameInits
<1>4. StartingOne' /\ DoneIsCompleted'
  BY <1>1, <1>2 DEF FetchInv, StartingOne, DoneIsCompleted
<1>5. WaitingForConfig'
  BY <1>1, <1>2 DEF FetchInv, WaitingForConfig
<1>6. ReturningLives' /\ IdIsKnown'
  BY <1>1, <1>2 DEF FetchInv, ProxyInv, TypeOK, ReturningLives, IdIsKnown
<1>7. QED BY <1>0, <1>3, <1>4, <1>5, <1>6 DEF FetchInv

LEMMA CompleteKeeps == ASSUME FetchInv, NEW f \in Fetches, OnURLFetchComplete(f) PROVE FetchInv'
<1>0. ProxyInv'
  BY StepProxy DEF FetchInv, Step
<1>1. /\ fetch \in [Fetches -> {"unborn", "posted", "starting", "waiting", "running", "done"}]
      /\ fetch[f] = "running" /\ fetch' = [fetch EXCEPT ![f] = "done"]
      /\ completed' = completed \cup {f}
      /\ early' = IF returning = f THEN early \cup {f} ELSE early
      /\ UNCHANGED <<io, service, latest_, returning, starting, known>>
  BY DEF OnURLFetchComplete, proxyVars, FetchInv, ProxyInv, TypeOK
<1>2. InitQueued'
  BY <1>1, SameInits
<1>3. StartingOne' /\ DoneIsCompleted' /\ WaitingForConfig'
  BY <1>1 DEF FetchInv, StartingOne, DoneIsCompleted, WaitingForConfig
<1>4. ReturningLives' /\ IdIsKnown'
  BY <1>1 DEF FetchInv, ProxyInv, TypeOK, ReturningLives, IdIsKnown
<1>5. QED BY <1>0, <1>2, <1>3, <1>4 DEF FetchInv

\* The steps of the jobs, of Java and of the constructor leave the fetches alone.
LEMMA OthersKeepFetches ==
  ASSUME FetchInv,
         \/ PushProxy \/ FirstPage \/ AskProxy \/ UNCHANGED vars
         \/ \E c \in States : DeviceChanges(c)
         \/ \E j \in Jobs : RunJob(j)
  PROVE  FetchInv'
<1>0. ProxyInv'
  BY StepProxy DEF FetchInv, Step
<1>1. UNCHANGED fetchVars
  BY DEF PushProxy, FirstPage, AskProxy, DeviceChanges, RunJob, vars
<1>2. \/ io' = io
      \/ \E t \in Tasks : (\A f \in Fetches : t # InitTask(f)) /\ (Post(t) \/ Runs(t))
  <2>1. ASSUME PushProxy PROVE <1>2!2
    <3>1. javaConfig \in States /\ Post(ProxyTask(javaConfig))
      BY <2>1 DEF PushProxy, SetConfig, FetchInv, ProxyInv, TypeOK, ProxyTypeOK
    <3>2. QED BY <3>1 DEF Tasks, ProxyTask, InitTask
  <2>2. ASSUME NEW j \in Jobs, RunJob(j) PROVE <1>2!1 \/ <1>2!2
    <3>1. io' = io \/ Post(StartTask(j)) \/ Runs(StartTask(j))
      BY <2>2 DEF RunJob, StartJob, StartAsync, ReadRawData, KillJob
    <3>2. QED BY <3>1 DEF Tasks, StartTask, InitTask
  <2>3. QED BY <2>1, <2>2
            DEF FirstPage, BeginService, AskProxy, AnswerProxyRequest, DeviceChanges, ChangeProxy,
                vars
<1>3. \/ service' = service /\ latest_' = latest_
      \/ service = "none" /\ service' = "asking" /\ latest_' = latest_
      \/ service = "asking" /\ service' = "answered" /\ latest_' = latest_
  BY DEF PushProxy, SetConfig, FirstPage, BeginService, AskProxy, AnswerProxyRequest,
         DeviceChanges, ChangeProxy, RunJob, proxyVars, vars
<1>4. InitQueued'
  BY <1>1, <1>2, SameInits DEF fetchVars
<1>5. StartingOne' /\ WaitingForConfig' /\ DoneIsCompleted' /\ ReturningLives' /\ IdIsKnown'
  BY <1>1, <1>3 DEF fetchVars, FetchInv, StartingOne, WaitingForConfig, DoneIsCompleted,
                    ReturningLives, IdIsKnown
<1>6. QED BY <1>0, <1>4, <1>5 DEF FetchInv

LEMMA StepFetches == FetchInv /\ [Step]_vars => FetchInv'
<1> SUFFICES ASSUME FetchInv, [Step]_vars PROVE FetchInv'
  OBVIOUS
<1>1. QED
  BY FetchKeeps, StartKeeps, ReturnKeeps, MadeKeeps, ConfigKeeps, CompleteKeeps,
     OthersKeepFetches DEF Step

LEMMA FetchesInv == Spec => []FetchInv
<1>1. [Next]_vars => [Step]_vars
  BY DEF Next
<1>2. QED BY <1>1, InitFetches, StepFetches, PTL DEF Spec

\* A fetch that Java asked for is never forgotten: once the device has a configuration it is
\* queued, or held up by a constructor that is being answered, or running, or waits for a
\* configuration that is on its way, or Java has its result (fetch.cc Init,
\* OnURLFetchComplete, the observers of ProxyConfigService).
FetchIsUnderWay ==
  \A f \in Fetches :
    fetch[f] # "unborn" /\ javaConfig # NoConfig =>
      \/ Holds(io, InitOf(f))
      \/ starting = f /\ service \in {"asking", "answered"}
      \/ fetch[f] = "running"
      \/ fetch[f] = "waiting" /\ service = "ready" /\ (unsent \/ Holds(io, Proxies))
      \/ f \in completed

THEOREM FetchesAreUnderWay == Spec => []FetchIsUnderWay
<1>1. FetchInv => FetchIsUnderWay
  <2> SUFFICES ASSUME FetchInv, NEW f \in Fetches, fetch[f] # "unborn", javaConfig # NoConfig
               PROVE  \/ Holds(io, InitOf(f))
                      \/ starting = f /\ service \in {"asking", "answered"}
                      \/ fetch[f] = "running"
                      \/ fetch[f] = "waiting" /\ service = "ready" /\ (unsent \/ Holds(io, Proxies))
                      \/ f \in completed
    BY DEF FetchIsUnderWay
  <2>0. fetch[f] \in {"posted", "starting", "waiting", "running", "done"}
    BY DEF FetchInv, ProxyInv, TypeOK
  <2>1. fetch[f] = "posted" => Holds(io, InitOf(f))
    BY DEF FetchInv, InitQueued
  <2>2. fetch[f] = "starting" => starting = f /\ service \in {"asking", "answered"}
    BY FetchConstants DEF FetchInv, StartingOne
  <2>3. fetch[f] = "waiting" => service = "ready" /\ (unsent \/ Holds(io, Proxies))
    BY DEF FetchInv, WaitingForConfig, ProxyInv, ArrivedIsCurrent
  <2>4. fetch[f] = "done" => f \in completed
    BY DEF FetchInv, DoneIsCompleted
  <2>5. QED BY <2>0, <2>1, <2>2, <2>3, <2>4
<1>2. QED BY <1>1, FetchesInv, PTL

\* The Init in the IO thread's queue, a base::Bind of a raw Fetcher pointer, is there once and
\* finds the fetcher neither started nor deleted: it deletes itself only when it is done.
THEOREM InitFindsItsFetcher == Spec => []InitQueued
BY FetchesInv, PTL DEF FetchInv

\* Java knows the id of every fetch of which it is given a result, unless that was over
\* before the call that started it returned: Fetch reads `f->id_` after the post, then from
\* a fetcher that has deleted itself.  Until that has happened to one fetch, no id of a
\* fetch that was not asked for is given out.
IdsKnown ==
  /\ completed \subseteq known \cup early \cup {returning}
  /\ returning \in completed => returning \in early
  /\ early = {} => \A f \in known : fetch[f] # "unborn"

THEOREM IdsAreKnown == Spec => []IdsKnown
<1>1. FetchInv => IdsKnown
  <2> SUFFICES ASSUME FetchInv PROVE IdsKnown
    OBVIOUS
  <2>1. completed \subseteq Fetches /\ NoFetch \notin Fetches
    BY FetchConstants DEF FetchInv, ProxyInv, TypeOK
  <2>2. \A f \in completed : fetch[f] = "done"
    BY <2>1 DEF FetchInv, DoneIsCompleted
  <2>3. \A f \in completed : f \in known \cup early \cup {returning}
    BY <2>1, <2>2 DEF FetchInv, IdIsKnown
  <2>4. returning \in completed => returning \in early
    BY <2>1, <2>2 DEF FetchInv, ReturningLives
  <2>5. QED BY <2>3, <2>4 DEF FetchInv, IdIsKnown, IdsKnown
<1>2. QED BY <1>1, FetchesInv, PTL
=============================================================================
