------------------------- MODULE LoginDialogProofs -------------------------
(***************************************************************************)
(* Proofs about LoginDialog, for any requests and dialogs: the tasks, the  *)
(* dialogs Java shows and the loader's references together implement       *)
(* Challenges, no challenge is lost, the dialogs of a request that is gone *)
(* are about to be withdrawn, and no dialog Java can still answer has been *)
(* deleted, but for those the UI thread prepares before the loader has     *)
(* stored them.                                                            *)
(*                                                                         *)
(* The argument: a dialog has one token, which is its PrepDialog task,     *)
(* then its place on Java's screen, then its SendAuthToRequester task; and *)
(* whoever holds the token finds the challenge open or the request gone.   *)
(***************************************************************************)
EXTENDS LoginDialog, TLAPS

-----------------------------------------------------------------------------
(* The tasks of a queue when one is posted to its end or the first one is run *)

\* Some task of T is queued; at most one is; each one is followed by one of U.
Holds(q, T) == \E i \in DOMAIN q : q[i] \in T
Once(q, T) == \A i, j \in DOMAIN q : q[i] \in T /\ q[j] \in T => i = j
Followed(q, T, U) ==
  \A i \in DOMAIN q : q[i] \in T => \E j \in DOMAIN q : j > i /\ q[j] \in U

LEMMA AppendIndex ==
  ASSUME NEW S, NEW q \in Seq(S), NEW e \in S
  PROVE  /\ Append(q, e) \in Seq(S)
         /\ DOMAIN Append(q, e) = 1 .. Len(q) + 1
         /\ DOMAIN q = 1 .. Len(q)
         /\ Len(q) \in Nat
         /\ \A i \in 1 .. Len(q) : Append(q, e)[i] = q[i]
         /\ Append(q, e)[Len(q) + 1] = e
OBVIOUS

LEMMA TailIndex ==
  ASSUME NEW S, NEW q \in Seq(S), q # <<>>
  PROVE  /\ Tail(q) \in Seq(S)
         /\ Head(q) \in S /\ Head(q) = q[1]
         /\ Len(q) \in Nat \ {0}
         /\ DOMAIN Tail(q) = 1 .. Len(q) - 1
         /\ DOMAIN q = 1 .. Len(q)
         /\ \A i \in 1 .. Len(q) - 1 : Tail(q)[i] = q[i + 1]
OBVIOUS

LEMMA AppendTask ==
  ASSUME NEW S, NEW q \in Seq(S), NEW e \in S, NEW T, NEW U
  PROVE  /\ Holds(Append(q, e), T) <=> Holds(q, T) \/ e \in T
         /\ Once(q, T) /\ (e \notin T \/ ~Holds(q, T)) => Once(Append(q, e), T)
         /\ Followed(q, T, U) /\ e \notin T => Followed(Append(q, e), T, U)
         /\ e \in U /\ e \notin T => Followed(Append(q, e), T, U)
<1> DEFINE a == Append(q, e)
           n == Len(q)
<1>1. /\ DOMAIN a = 1 .. n + 1 /\ DOMAIN q = 1 .. n /\ n \in Nat
      /\ \A i \in 1 .. n : a[i] = q[i]
      /\ a[n + 1] = e
  BY AppendIndex
<1> HIDE DEF a, n
<1>2. Holds(a, T) <=> Holds(q, T) \/ e \in T
  BY <1>1 DEF Holds
<1>3. Once(q, T) /\ (e \notin T \/ ~Holds(q, T)) => Once(a, T)
  BY <1>1 DEF Once, Holds
<1>4. Followed(q, T, U) /\ e \notin T => Followed(a, T, U)
  BY <1>1 DEF Followed
<1>5. e \in U /\ e \notin T => Followed(a, T, U)
  BY <1>1 DEF Followed
<1>6. QED BY <1>2, <1>3, <1>4, <1>5 DEF a

LEMMA AppendKeeps ==
  ASSUME NEW S, NEW q \in Seq(S), NEW e \in S, NEW T, Holds(q, T)
  PROVE  Holds(Append(q, e), T)
BY AppendTask

LEMMA AppendHolds ==
  ASSUME NEW S, NEW q \in Seq(S), NEW e \in S, NEW T
  PROVE  Holds(Append(q, e), T) <=> Holds(q, T) \/ e \in T
BY AppendTask

LEMMA AppendFollowed ==
  ASSUME NEW S, NEW q \in Seq(S), NEW e \in S, NEW T, NEW U, e \notin T,
         Followed(q, T, U) \/ e \in U
  PROVE  Followed(Append(q, e), T, U)
BY AppendTask

LEMMA TailTask ==
  ASSUME NEW S, NEW q \in Seq(S), q # <<>>, NEW T, NEW U
  PROVE  /\ Head(q) \in T => Holds(q, T)
         /\ Holds(Tail(q), T) => Holds(q, T)
         /\ Holds(q, T) => Head(q) \in T \/ Holds(Tail(q), T)
         /\ Once(q, T) => Once(Tail(q), T)
         /\ Once(q, T) /\ Head(q) \in T => ~Holds(Tail(q), T)
         /\ Followed(q, T, U) => Followed(Tail(q), T, U)
         /\ Followed(q, T, U) /\ Head(q) \in T => Holds(Tail(q), U)
<1> DEFINE t == Tail(q)
           n == Len(q)
           h == Head(q)
<1>1. /\ DOMAIN t = 1 .. n - 1 /\ DOMAIN q = 1 .. n /\ n \in Nat \ {0}
      /\ \A i \in 1 .. n - 1 : t[i] = q[i + 1]
      /\ h = q[1]
  BY TailIndex
<1> HIDE DEF t, n, h
<1>2. \A i \in 2 .. n : i - 1 \in 1 .. n - 1 /\ t[i - 1] = q[i]
  BY <1>1
<1>3. h \in T => Holds(q, T)
  BY <1>1 DEF Holds
<1>4. Holds(t, T) => Holds(q, T)
  BY <1>1 DEF Holds
<1>5. ASSUME Holds(q, T), h \notin T PROVE Holds(t, T)
  <2>1. PICK i \in 2 .. n : q[i] \in T
    BY <1>1, <1>5 DEF Holds
  <2>2. QED BY <1>1, <1>2, <2>1 DEF Holds
<1>n. \A i \in DOMAIN t : /\ i \in Nat /\ i + 1 \in DOMAIN q /\ t[i] = q[i + 1]
                         /\ i + 1 # 1 /\ i + 1 \in 1 .. n
  BY <1>1
<1>6. ASSUME Once(q, T), NEW i \in DOMAIN t, NEW j \in DOMAIN t, t[i] \in T, t[j] \in T
      PROVE  i = j
  <2>1. i + 1 = j + 1
    BY <1>n, <1>6 DEF Once
  <2>2. i \in Nat /\ j \in Nat
    BY <1>n
  <2>3. QED BY <2>1, <2>2
<1>7. ASSUME Once(q, T), h \in T, NEW i \in DOMAIN t, t[i] \in T PROVE FALSE
  <2>1. i + 1 \in DOMAIN q /\ i + 1 # 1 /\ q[i + 1] \in T
    BY <1>n, <1>7
  <2>2. 1 \in DOMAIN q /\ q[1] \in T
    BY <1>1, <1>7
  <2>3. QED BY <1>7, <2>1, <2>2 DEF Once
<1>8. ASSUME Followed(q, T, U), NEW i \in DOMAIN t, t[i] \in T
      PROVE  \E j \in DOMAIN t : j > i /\ t[j] \in U
  <2>0. i \in Nat /\ i + 1 \in DOMAIN q /\ q[i + 1] \in T
    BY <1>n, <1>8
  <2>1. PICK j \in DOMAIN q : j > i + 1 /\ q[j] \in U
    BY <1>8, <2>0 DEF Followed
  <2>a. DOMAIN q = 1 .. n /\ n \in Nat
    BY <1>1
  <2>2. j \in 2 .. n /\ j - 1 > i
    BY <2>0, <2>1, <2>a
  <2>3. j - 1 \in DOMAIN t /\ t[j - 1] = q[j]
    BY <1>1, <1>2, <2>2
  <2>4. QED BY <2>1, <2>2, <2>3
<1>9. ASSUME Followed(q, T, U), h \in T PROVE Holds(t, U)
  <2>1. PICK j \in 1 .. n : j > 1 /\ q[j] \in U
    BY <1>1, <1>9 DEF Followed
  <2>2. j - 1 \in DOMAIN t /\ t[j - 1] \in U
    BY <1>1, <1>2, <2>1
  <2>3. QED BY <2>2 DEF Holds
<1>10. QED BY <1>3, <1>4, <1>5, <1>6, <1>7, <1>8, <1>9 DEF t, h, Holds, Once, Followed

-----------------------------------------------------------------------------
(* Types *)

LEMMA InitType == Init => TypeOK
<1> SUFFICES ASSUME Init PROVE TypeOK
  OBVIOUS
<1>1. crashed \in BOOLEAN
  BY DEF Init
<1>2. /\ request \in [Requests -> RequestStates]
      /\ request_ \in [Dialogs -> Requests \cup {NoRequest}]
      /\ login_delegate \in [Requests -> Dialogs \cup {NoDialog}]
  BY DEF Init, RequestStates
<1>3. ui \in Seq(UiTasks) /\ io \in Seq(IoTasks)
  BY DEF Init
<1>4. QED BY <1>1, <1>2, <1>3 DEF Init, TypeOK

LEMMA TypeStep == TypeOK /\ [Next]_vars => TypeOK'
<1> SUFFICES ASSUME TypeOK, [Next]_vars PROVE TypeOK'
  OBVIOUS
<1> USE LoginConstants DEF TypeOK
<1>1. ASSUME NEW r \in Requests, NEW d \in Dialogs, CreateLoginDelegate(r, d)
      PROVE  TypeOK'
  <2>1. UiTask("PrepDialog", d) \in UiTasks
    BY DEF UiTask, UiTasks
  <2>2. ui' \in Seq(UiTasks)
    BY <1>1, <2>1, AppendIndex DEF CreateLoginDelegate
  <2>3. QED BY <1>1, <2>2 DEF CreateLoginDelegate, Release, RequestStates
<1>2. CASE Adopt
  BY <1>2 DEF Adopt, Release
<1>3. ASSUME NEW r \in Requests, EndRequest(r)
      PROVE  TypeOK'
  <2>1. ASSUME login_delegate[r] # NoDialog
        PROVE  UiTask("PlatformRequestCancelled", login_delegate[r]) \in UiTasks
    BY <2>1 DEF UiTask, UiTasks
  <2>2. ui' \in Seq(UiTasks)
    BY <1>3, <2>1, AppendIndex DEF EndRequest, OnRequestCancelled
  <2>3. QED BY <1>3, <2>2 DEF EndRequest, Release, RequestStates
<1>4. CASE SendAuthToRequester
  <2>1. io' \in Seq(IoTasks) /\ Head(io) \in IoTasks
    BY <1>4, TailIndex DEF SendAuthToRequester
  <2>2. request' \in [Requests -> RequestStates]
    BY <1>4 DEF SendAuthToRequester, RequestStates
  <2>3. QED BY <1>4, <2>1, <2>2 DEF SendAuthToRequester, Release
<1>5. CASE PrepDialog
  <2>1. ui' \in Seq(UiTasks) /\ Head(ui) \in UiTasks
    BY <1>5, TailIndex DEF PrepDialog, UiMayRun
  <2>2. QED BY <1>5, <2>1 DEF PrepDialog, Release, UiTasks
<1>6. CASE PlatformRequestCancelled
  <2>1. ui' \in Seq(UiTasks) /\ Head(ui) \in UiTasks
    BY <1>6, TailIndex DEF PlatformRequestCancelled, UiMayRun
  <2>2. QED BY <1>6, <2>1 DEF PlatformRequestCancelled, Release
<1>7. ASSUME NEW d \in Dialogs, NEW success \in BOOLEAN, ProcessResponse(d, success)
      PROVE  TypeOK'
  <2>1. IoTask(d, success) \in IoTasks
    BY DEF IoTask, IoTasks
  <2>2. io' \in Seq(IoTasks)
    BY <1>7, <2>1, AppendIndex DEF ProcessResponse
  <2>3. QED BY <1>7, <2>2 DEF ProcessResponse, Release
<1>8. CASE UseFreed \/ UNCHANGED vars
  BY <1>8 DEF UseFreed, vars
<1>9. QED BY <1>1, <1>2, <1>3, <1>4, <1>5, <1>6, <1>7, <1>8 DEF Next, Step

\* Tasks, references and Java's dialogs keep their types (the six operations of
\* shell_login_dialog.cc and the loader's).
THEOREM LoginTypes == Spec => []TypeOK
<1>1. QED BY InitType, TypeStep, PTL DEF Spec

-----------------------------------------------------------------------------
(* Tokens *)

PrepOf(d) == {UiTask("PrepDialog", d)}
SendOf(d) == {IoTask(d, success) : success \in BOOLEAN}
CancelOf(d) == {UiTask("PlatformRequestCancelled", d)}

Preparing(d) == Holds(ui, PrepOf(d))
Sending(d) == Holds(io, SendOf(d))
Token(d) == Preparing(d) \/ d \in java \/ Sending(d)

IsOpen(d) == creating = d \/ login_delegate[request_[d]] = d

\* What the loader refers to is a dialog of the request that waits.
Delegates ==
  \A r \in Requests : login_delegate[r] # NoDialog =>
    request_[login_delegate[r]] = r /\ request[r] = "waiting"

CreatingOpen ==
  creating # NoDialog =>
    /\ request_[creating] \in Requests
    /\ request[request_[creating]] = "waiting"
    /\ login_delegate[request_[creating]] = NoDialog

TokenOpen ==
  \A d \in Dialogs : Token(d) =>
    Created(d) /\ (request[request_[d]] = "gone" \/ IsOpen(d))

OneToken(d) ==
  /\ Once(ui, PrepOf(d))
  /\ Once(io, SendOf(d))
  /\ Preparing(d) => d \notin java /\ ~Sending(d)
  /\ d \in java => ~Sending(d)

TokenOnce == \A d \in Dialogs : OneToken(d)

Inv ==
  /\ TypeOK
  /\ Delegates
  /\ CreatingOpen
  /\ TokenOpen
  /\ TokenOnce

LEMMA TasksDiffer ==
  ASSUME NEW d \in Dialogs, NEW e \in Dialogs, NEW success \in BOOLEAN
  PROVE  /\ UiTask("PlatformRequestCancelled", d) \notin PrepOf(e)
         /\ UiTask("PrepDialog", d) \notin CancelOf(e)
         /\ UiTask("PrepDialog", d) \in PrepOf(e) <=> d = e
         /\ UiTask("PlatformRequestCancelled", d) \in CancelOf(e) <=> d = e
         /\ IoTask(d, success) \in SendOf(e) <=> d = e
BY DEF PrepOf, SendOf, CancelOf, UiTask, IoTask

\* Neither the tokens nor what the network sees of a challenge changes.
LEMMA Unchanged ==
  ASSUME Inv, TypeOK',
         UNCHANGED <<request, request_, login_delegate, creating>>,
         \A d \in Dialogs : (Token(d)' => Token(d)) /\ OneToken(d)'
  PROVE  Inv'
BY DEF Inv, Delegates, CreatingOpen, TokenOpen, TokenOnce, IsOpen, Created

LEMMA InitInv == Init => Inv
<1> SUFFICES ASSUME Init PROVE Inv
  OBVIOUS
<1>1. TypeOK
  BY InitType
<1>2. Delegates /\ CreatingOpen
  BY DEF Init, Delegates, CreatingOpen
<1>3. \A d \in Dialogs : ~Token(d) /\ OneToken(d)
  BY DEF Init, Token, Preparing, Sending, OneToken, Holds, Once
<1>4. QED BY <1>1, <1>2, <1>3 DEF Inv, TokenOpen, TokenOnce

LEMMA CreateInv ==
  ASSUME Inv, TypeOK', NEW r \in Requests, NEW d \in Dialogs, CreateLoginDelegate(r, d)
  PROVE  Inv'
<1> USE LoginConstants
<1>1. /\ creating = NoDialog /\ request[r] = "running" /\ request_[d] = NoRequest
      /\ request' = [request EXCEPT ![r] = "waiting"]
      /\ request_' = [request_ EXCEPT ![d] = r]
      /\ creating' = d
      /\ ui' = Append(ui, UiTask("PrepDialog", d))
      /\ login_delegate' = login_delegate /\ io' = io /\ java' = java
  BY DEF CreateLoginDelegate, IoFree, Created
<1>2. UiTask("PrepDialog", d) \in UiTasks /\ ui \in Seq(UiTasks)
  BY DEF UiTask, UiTasks, Inv, TypeOK
<1>3. ~Token(d)
  BY <1>1 DEF Inv, TokenOpen, Created
<1>4. ASSUME NEW e \in Dialogs
      PROVE  /\ Preparing(e)' <=> Preparing(e) \/ e = d
             /\ Sending(e)' <=> Sending(e)
             /\ OneToken(e)'
  <2>0. UiTask("PrepDialog", d) \in PrepOf(e) <=> e = d
    BY TasksDiffer
  <2>1. Preparing(e)' <=> Preparing(e) \/ e = d
    BY <1>1, <1>2, <2>0, AppendHolds DEF Preparing, PrepOf
  <2>2. Sending(e)' <=> Sending(e)
    BY <1>1 DEF Sending
  <2>3. Once(ui, PrepOf(e))'
    <3>1. UiTask("PrepDialog", d) \notin PrepOf(e) \/ ~Holds(ui, PrepOf(e))
      BY <1>3, TasksDiffer DEF Token, Preparing
    <3>2. Once(ui, PrepOf(e))
      BY DEF Inv, TokenOnce, OneToken
    <3>3. QED BY <1>1, <1>2, <3>1, <3>2, AppendTask
  <2>4. OneToken(e)
    BY DEF Inv, TokenOnce
  <2>5. QED BY <1>1, <1>3, <2>1, <2>2, <2>3, <2>4 DEF OneToken, Token
<1>5. Delegates'
  BY <1>1 DEF Inv, TypeOK, Delegates
<1>6. CreatingOpen'
  BY <1>1 DEF Inv, TypeOK, Delegates, CreatingOpen
<1>7. ASSUME NEW e \in Dialogs, Token(e)'
      PROVE  (Created(e) /\ (request[request_[e]] = "gone" \/ IsOpen(e)))'
  <2>1. CASE e = d
    BY <1>1, <2>1 DEF Inv, TypeOK, Created, IsOpen
  <2>2. CASE e # d
    <3>1. Token(e)
      BY <1>1, <1>4, <1>7, <2>2 DEF Token
    <3>2. Created(e) /\ (request[request_[e]] = "gone" \/ login_delegate[request_[e]] = e)
      BY <1>1, <3>1 DEF Inv, TokenOpen, IsOpen
    <3>3. request_'[e] = request_[e] /\ request_[e] \in Requests
      BY <1>1, <2>2, <3>2 DEF Inv, TypeOK, Created
    <3>4. QED BY <1>1, <3>2, <3>3 DEF Inv, TypeOK, Created, IsOpen
  <2>3. QED BY <2>1, <2>2
<1>8. QED BY <1>4, <1>5, <1>6, <1>7 DEF Inv, TokenOpen, TokenOnce

LEMMA AdoptInv == ASSUME Inv, TypeOK', Adopt PROVE Inv'
<1> USE LoginConstants
<1>1. /\ creating \in Dialogs /\ creating' = NoDialog
      /\ login_delegate' = [login_delegate EXCEPT ![request_[creating]] = creating]
      /\ UNCHANGED <<request, request_, ui, io, java>>
  BY DEF Adopt, Inv, TypeOK
<1>2. Delegates' /\ CreatingOpen'
  BY <1>1 DEF Inv, TypeOK, Delegates, CreatingOpen
<1>3. \A d \in Dialogs : (Token(d)' <=> Token(d)) /\ (OneToken(d)' <=> OneToken(d))
  BY <1>1 DEF Token, OneToken, Preparing, Sending
<1>4. \A d \in Dialogs : Created(d) /\ IsOpen(d) => IsOpen(d)'
  BY <1>1 DEF Inv, TypeOK, CreatingOpen, IsOpen, Created
<1>5. QED BY <1>1, <1>2, <1>3, <1>4 DEF Inv, TokenOpen, TokenOnce, Created

LEMMA EndInv == ASSUME Inv, TypeOK', NEW r \in Requests, EndRequest(r) PROVE Inv'
<1> USE LoginConstants
<1>1. /\ creating = NoDialog /\ creating' = creating
      /\ request' = [request EXCEPT ![r] = "gone"]
      /\ login_delegate' = [login_delegate EXCEPT ![r] = NoDialog]
      /\ UNCHANGED <<request_, io, java>>
  BY DEF EndRequest, IoFree
<1>2. Delegates' /\ CreatingOpen'
  BY <1>1 DEF Inv, TypeOK, Delegates, CreatingOpen
<1>3. ASSUME NEW e \in Dialogs
      PROVE  (Token(e)' <=> Token(e)) /\ (OneToken(e)' <=> OneToken(e))
  <2>1. CASE login_delegate[r] = NoDialog
    BY <1>1, <2>1 DEF EndRequest, OnRequestCancelled, Token, OneToken, Preparing, Sending
  <2>2. CASE login_delegate[r] # NoDialog
    <3> DEFINE task == UiTask("PlatformRequestCancelled", login_delegate[r])
    <3>1. task \in UiTasks /\ ui' = Append(ui, task) /\ ui \in Seq(UiTasks)
      BY <2>2 DEF EndRequest, OnRequestCancelled, UiTask, UiTasks, Inv, TypeOK
    <3>2. task \notin PrepOf(e)
      BY <2>2, TasksDiffer DEF Inv, TypeOK
    <3>3. (Preparing(e)' <=> Preparing(e)) /\ (Once(ui, PrepOf(e)) => Once(ui, PrepOf(e))')
      BY <3>1, <3>2, AppendTask DEF Preparing
    <3>4. OneToken(e)
      BY DEF Inv, TokenOnce
    <3>5. QED BY <1>1, <3>3, <3>4 DEF Token, OneToken, Sending
  <2>3. QED BY <2>1, <2>2
<1>4. \A e \in Dialogs : Created(e) /\ (request[request_[e]] = "gone" \/ IsOpen(e))
        => (request[request_[e]] = "gone" \/ IsOpen(e))'
  BY <1>1 DEF Inv, TypeOK, IsOpen, Created
<1>5. QED BY <1>1, <1>2, <1>3, <1>4 DEF Inv, TokenOpen, TokenOnce, Created

\* The answer's dialog is open, or its request is gone: nobody else holds its token.
LEMMA SendInv ==
  ASSUME Inv, TypeOK', SendAuthToRequester
  PROVE  /\ Inv'
         /\ LET d == Head(io).dialog
                r == request_[d]
            IN  /\ d \in Dialogs /\ r \in Requests
                /\ request[r] = "gone" \/ (request[r] = "waiting" /\ login_delegate[r] = d)
<1> USE LoginConstants
<1>0. io # <<>> /\ io \in Seq(IoTasks)
  BY DEF SendAuthToRequester, Inv, TypeOK
<1>2. Head(io) \in IoTasks
  BY <1>0, TailIndex
<1>a. PICK d \in Dialogs : d = Head(io).dialog
  BY <1>2 DEF IoTasks
<1>b. Head(io) \in SendOf(d)
  BY <1>2, <1>a DEF SendOf, IoTask, IoTasks
<1>c. Sending(d)
  BY <1>0, <1>b, TailTask DEF Sending
<1>d. Created(d) /\ request_[d] \in Requests
  BY <1>c DEF Inv, TypeOK, TokenOpen, Token, Created
<1>e. PICK r \in Requests : r = request_[d]
  BY <1>d
<1>1. /\ creating = NoDialog /\ creating' = creating /\ io' = Tail(io)
      /\ request' = [request EXCEPT ![r] = IF @ = "gone" THEN "gone"
                        ELSE IF Head(io).success THEN "running" ELSE "refused"]
      /\ login_delegate' = [login_delegate EXCEPT ![r] = NoDialog]
      /\ UNCHANGED <<request_, ui, java>>
  BY <1>a, <1>e DEF SendAuthToRequester, IoFree
<1>5. request[r] = "gone" \/ login_delegate[r] = d
  BY <1>1, <1>c, <1>e DEF Inv, TokenOpen, Token, IsOpen
<1>6. request[r] = "gone" \/ (request[r] = "waiting" /\ login_delegate[r] = d)
  BY LoginConstants, <1>5 DEF Inv, Delegates
<1>7. ~Token(d)'
  <2>1. OneToken(d) /\ Once(io, SendOf(d))
    BY DEF Inv, TokenOnce, OneToken
  <2>2. ~Holds(Tail(io), SendOf(d))
    BY <1>0, <1>b, <2>1, TailTask
  <2>3. QED BY <1>1, <1>c, <2>1, <2>2 DEF OneToken, Token, Preparing, Sending
<1>8. ASSUME NEW e \in Dialogs
      PROVE  (Token(e)' => Token(e)) /\ OneToken(e)'
  <2>1. (Sending(e)' => Sending(e)) /\ (Once(io, SendOf(e)) => Once(io, SendOf(e))')
    BY <1>0, <1>1, TailTask DEF Sending
  <2>2. OneToken(e)
    BY DEF Inv, TokenOnce
  <2>3. QED BY <1>1, <2>1, <2>2 DEF OneToken, Token, Preparing
<1>9. Delegates' /\ CreatingOpen'
  BY <1>1, <1>5 DEF Inv, TypeOK, Delegates, CreatingOpen
<1>10. ASSUME NEW e \in Dialogs, Token(e)'
       PROVE  (Created(e) /\ (request[request_[e]] = "gone" \/ IsOpen(e)))'
  <2>1. e # d /\ Created(e) /\ (request[request_[e]] = "gone" \/ login_delegate[request_[e]] = e)
    BY <1>1, <1>7, <1>8, <1>10 DEF Inv, TokenOpen, IsOpen, Created
  <2>2. request_[e] \in Requests
    BY <2>1 DEF Created, Inv, TypeOK
  <2>3. CASE request[request_[e]] = "gone"
    BY <1>1, <2>1, <2>2, <2>3 DEF Inv, TypeOK, Created
  <2>4. CASE request[request_[e]] # "gone"
    <3>1. request_[e] # r
      BY <1>5, <2>1, <2>4
    <3>2. QED BY <1>1, <2>1, <2>2, <3>1 DEF Inv, TypeOK, Created, IsOpen
  <2>5. QED BY <2>3, <2>4
<1>11. Inv'
  BY <1>8, <1>9, <1>10 DEF Inv, TokenOpen, TokenOnce
<1>12. QED BY <1>6, <1>11, <1>a, <1>e

LEMMA PrepInv == ASSUME Inv, TypeOK', PrepDialog PROVE Inv'
<1>0. ui # <<>> /\ ui \in Seq(UiTasks) /\ Head(ui).task = "PrepDialog"
  BY DEF PrepDialog, UiMayRun, Inv, TypeOK
<1>2. Head(ui) \in UiTasks
  BY <1>0, TailIndex
<1>a. PICK d \in Dialogs : d = Head(ui).dialog
  BY <1>2 DEF UiTasks
<1>1. /\ java' = java \cup {d} /\ ui' = Tail(ui)
      /\ UNCHANGED <<request, request_, login_delegate, creating, io>>
  BY <1>a DEF PrepDialog
<1>3. Head(ui) \in PrepOf(d)
  BY <1>0, <1>2, <1>a DEF PrepOf, UiTask, UiTasks
<1>4. ASSUME NEW e \in Dialogs
      PROVE  (Token(e)' => Token(e)) /\ OneToken(e)'
  <2>1. (Preparing(e)' => Preparing(e)) /\ (Once(ui, PrepOf(e)) => Once(ui, PrepOf(e))')
    BY <1>0, <1>1, TailTask DEF Preparing
  <2>2. OneToken(e)
    BY DEF Inv, TokenOnce
  <2>3. Sending(e)' <=> Sending(e)
    BY <1>1 DEF Sending
  <2>4. CASE e = d
    <3>1. Preparing(d) /\ (Once(ui, PrepOf(d)) => ~Preparing(d)')
      BY <1>0, <1>1, <1>3, TailTask DEF Preparing
    <3>2. QED BY <1>1, <2>1, <2>2, <2>3, <2>4, <3>1 DEF OneToken, Token
  <2>5. CASE e # d
    BY <1>1, <2>1, <2>2, <2>3, <2>5 DEF OneToken, Token
  <2>6. QED BY <2>4, <2>5
<1>5. QED BY <1>1, <1>4, Unchanged

LEMMA CancelInv == ASSUME Inv, TypeOK', PlatformRequestCancelled PROVE Inv'
<1>1. /\ ui # <<>> /\ ui' = Tail(ui) /\ java' \subseteq java
      /\ UNCHANGED <<request, request_, login_delegate, creating, io>>
  BY DEF PlatformRequestCancelled, UiMayRun
<1>2. ui \in Seq(UiTasks)
  BY DEF Inv, TypeOK
<1>3. ASSUME NEW e \in Dialogs
      PROVE  (Token(e)' => Token(e)) /\ OneToken(e)'
  <2>1. (Preparing(e)' => Preparing(e)) /\ (Once(ui, PrepOf(e)) => Once(ui, PrepOf(e))')
    BY <1>1, <1>2, TailTask DEF Preparing
  <2>2. OneToken(e)
    BY DEF Inv, TokenOnce
  <2>3. QED BY <1>1, <2>1, <2>2 DEF OneToken, Token, Sending
<1>4. QED BY <1>1, <1>3, Unchanged

LEMMA ResponseInv ==
  ASSUME Inv, TypeOK', NEW d \in Dialogs, NEW success \in BOOLEAN, ProcessResponse(d, success)
  PROVE  Inv'
<1>1. /\ d \in java /\ java' = java \ {d} /\ io' = Append(io, IoTask(d, success))
      /\ UNCHANGED <<request, request_, login_delegate, creating, ui>>
  BY DEF ProcessResponse
<1>2. io \in Seq(IoTasks) /\ IoTask(d, success) \in IoTasks
  BY DEF Inv, TypeOK, IoTask, IoTasks
<1>3. ASSUME NEW e \in Dialogs
      PROVE  (Token(e)' => Token(e)) /\ OneToken(e)'
  <2>1. OneToken(e)
    BY DEF Inv, TokenOnce
  <2>2. Sending(e)' <=> Sending(e) \/ e = d
    BY <1>1, <1>2, AppendTask, TasksDiffer DEF Sending
  <2>3. Once(io, SendOf(e))'
    <3>1. IoTask(d, success) \notin SendOf(e) \/ ~Holds(io, SendOf(e))
      BY <1>1, <2>1, TasksDiffer DEF OneToken, Sending
    <3>2. QED BY <1>1, <1>2, <2>1, <3>1, AppendTask DEF OneToken
  <2>4. Preparing(e)' <=> Preparing(e)
    BY <1>1 DEF Preparing
  <2>5. QED BY <1>1, <2>1, <2>2, <2>3, <2>4 DEF OneToken, Token
<1>4. QED BY <1>1, <1>3, Unchanged

LEMMA StepInv == Inv /\ [Next]_vars => Inv'
<1> SUFFICES ASSUME Inv, [Next]_vars PROVE Inv'
  OBVIOUS
<1>0. TypeOK'
  BY TypeStep DEF Inv
<1>a. ASSUME UseFreed \/ UNCHANGED vars
      PROVE  UNCHANGED <<request, request_, login_delegate, creating, ui, io, java>>
  BY <1>a DEF UseFreed, vars
<1>1. ASSUME UseFreed \/ UNCHANGED vars PROVE Inv'
  BY <1>0, <1>1, <1>a DEF Inv, TypeOK, Delegates, CreatingOpen, TokenOpen, TokenOnce, OneToken,
              Token, Preparing, Sending, IsOpen, Created
<1>2. QED BY <1>0, <1>1, CreateInv, AdoptInv, EndInv, SendInv, PrepInv, CancelInv, ResponseInv
          DEF Next, Step

LEMMA Invariance == Spec => []Inv
<1>1. QED BY InitInv, StepInv, PTL DEF Spec

-----------------------------------------------------------------------------
(* Refinement *)

\* Nothing the network sees has changed.
LEMMA SameStatus ==
  ASSUME Inv, UNCHANGED <<request, request_, login_delegate, creating>>
  PROVE  UNCHANGED Challenge!vars
BY DEF Challenge!vars, ChallengeStatus

LEMMA CreateOpens ==
  ASSUME Inv, NEW r \in Requests, NEW d \in Dialogs, CreateLoginDelegate(r, d)
  PROVE  Challenge!Open(r, d)
<1> USE LoginConstants
<1>1. /\ creating = NoDialog /\ request[r] = "running" /\ request_[d] = NoRequest
      /\ request' = [request EXCEPT ![r] = "waiting"]
      /\ request_' = [request_ EXCEPT ![d] = r]
      /\ creating' = d
      /\ login_delegate' = login_delegate
  BY DEF CreateLoginDelegate, IoFree, Created
<1>2. ChallengeStatus[d] = "unused"
  BY <1>1 DEF ChallengeStatus
<1>3. ASSUME NEW e \in Dialogs
      PROVE  ChallengeStatus'[e] = IF e = d THEN "open" ELSE ChallengeStatus[e]
  BY <1>1 DEF Inv, TypeOK, ChallengeStatus
<1>4. ChallengeStatus' = [ChallengeStatus EXCEPT ![d] = "open"]
  BY <1>3 DEF ChallengeStatus
<1>5. QED BY <1>1, <1>2, <1>4 DEF Challenge!Open

LEMMA AdoptStutters == ASSUME Inv, Adopt PROVE UNCHANGED Challenge!vars
<1> USE LoginConstants
<1>1. /\ creating \in Dialogs /\ creating' = NoDialog
      /\ login_delegate' = [login_delegate EXCEPT ![request_[creating]] = creating]
      /\ UNCHANGED <<request, request_>>
  BY DEF Adopt, Inv, TypeOK
<1>2. request_[creating] \in Requests /\ login_delegate[request_[creating]] = NoDialog
  BY <1>1 DEF Inv, CreatingOpen
<1>3. ASSUME NEW e \in Dialogs PROVE ChallengeStatus'[e] = ChallengeStatus[e]
  BY <1>1, <1>2 DEF Inv, TypeOK, ChallengeStatus
<1>4. ChallengeStatus' = ChallengeStatus
  BY <1>3 DEF ChallengeStatus
<1>5. QED BY <1>1, <1>4 DEF Challenge!vars

LEMMA EndEnds ==
  ASSUME Inv, NEW r \in Requests, EndRequest(r)
  PROVE  Challenge!EndRequest(r)
<1> USE LoginConstants
<1>1. /\ creating = NoDialog /\ creating' = creating /\ request[r] # "gone"
      /\ request' = [request EXCEPT ![r] = "gone"]
      /\ login_delegate' = [login_delegate EXCEPT ![r] = NoDialog]
      /\ UNCHANGED request_
  BY DEF EndRequest, IoFree
<1>2. ASSUME NEW e \in Dialogs
      PROVE  ChallengeStatus'[e] = IF request_[e] = r THEN "closed" ELSE ChallengeStatus[e]
  BY <1>1 DEF Inv, TypeOK, ChallengeStatus
<1>3. ChallengeStatus' = [e \in Dialogs |-> IF request_[e] = r THEN "closed"
                                             ELSE ChallengeStatus[e]]
  BY <1>2 DEF ChallengeStatus
<1>4. QED BY <1>1, <1>3 DEF Challenge!EndRequest

LEMMA SendAnswers ==
  ASSUME Inv, TypeOK', SendAuthToRequester
  PROVE  \/ \E d \in Dialogs, success \in BOOLEAN : Challenge!Answer(d, success)
         \/ UNCHANGED Challenge!vars
<1> USE LoginConstants
<1>0. io # <<>> /\ io \in Seq(IoTasks)
  BY DEF SendAuthToRequester, Inv, TypeOK
<1>1. Head(io) \in IoTasks
  BY <1>0, TailIndex
<1>2. PICK success \in BOOLEAN : success = Head(io).success
  BY <1>1 DEF IoTasks
<1>3. PICK d \in Dialogs, r \in Requests :
        /\ d = Head(io).dialog /\ r = request_[d]
        /\ request[r] = "gone" \/ (request[r] = "waiting" /\ login_delegate[r] = d)
  BY SendInv
<1>4. /\ creating = NoDialog /\ creating' = creating
      /\ request' = [request EXCEPT ![r] = IF @ = "gone" THEN "gone"
                        ELSE IF success THEN "running" ELSE "refused"]
      /\ login_delegate' = [login_delegate EXCEPT ![r] = NoDialog]
      /\ UNCHANGED request_
  BY <1>2, <1>3 DEF SendAuthToRequester, IoFree
<1>5. CASE request[r] = "gone"
  <2>1. login_delegate[r] = NoDialog
    BY <1>5 DEF Inv, Delegates
  <2>2. request' = request /\ login_delegate' = login_delegate
    BY <1>4, <1>5, <2>1 DEF Inv, TypeOK
  <2>3. QED BY <1>4, <2>2, SameStatus
<1>6. CASE request[r] = "waiting" /\ login_delegate[r] = d
  <2>1. ChallengeStatus[d] = "open"
    BY <1>3, <1>6 DEF ChallengeStatus
  <2>2. ASSUME NEW e \in Dialogs
        PROVE  ChallengeStatus'[e] = IF e = d THEN "closed" ELSE ChallengeStatus[e]
    BY <1>3, <1>4, <1>6 DEF Inv, TypeOK, ChallengeStatus
  <2>3. ChallengeStatus' = [ChallengeStatus EXCEPT ![d] = "closed"]
    BY <2>2 DEF ChallengeStatus
  <2>4. Challenge!Answer(d, success)
    BY <1>3, <1>4, <1>6, <2>1, <2>3 DEF Challenge!Answer
  <2>5. QED BY <2>4
<1>7. QED BY <1>3, <1>5, <1>6

LEMMA InitRefines == Init => Challenge!Init
BY DEF Init, Challenge!Init, ChallengeStatus

LEMMA StepRefines ==
  Inv /\ Inv' /\ [Next]_vars => [Challenge!Next]_(Challenge!vars)
<1> SUFFICES ASSUME Inv, Inv', [Next]_vars
             PROVE  [Challenge!Next]_(Challenge!vars)
  OBVIOUS
<1>0. TypeOK'
  BY DEF Inv
<1>1. ASSUME NEW r \in Requests, NEW d \in Dialogs, CreateLoginDelegate(r, d)
      PROVE  Challenge!Next
  BY <1>1, CreateOpens DEF Challenge!Next
<1>2. CASE Adopt
  BY <1>2, AdoptStutters
<1>3. ASSUME NEW r \in Requests, EndRequest(r)
      PROVE  Challenge!Next
  BY <1>3, EndEnds DEF Challenge!Next
<1>4. CASE SendAuthToRequester
  BY <1>0, <1>4, SendAnswers DEF Challenge!Next
<1>5. ASSUME \/ PrepDialog \/ PlatformRequestCancelled \/ UseFreed \/ UNCHANGED vars
             \/ \E d \in Dialogs, success \in BOOLEAN : ProcessResponse(d, success)
      PROVE  UNCHANGED Challenge!vars
  <2>1. UNCHANGED <<request, request_, login_delegate, creating>>
    BY <1>5 DEF PrepDialog, PlatformRequestCancelled, ProcessResponse, UseFreed, vars
  <2>2. QED BY <2>1, SameStatus
<1>6. QED BY <1>1, <1>2, <1>3, <1>4, <1>5 DEF Next, Step

\* The dialog implements the challenges it stands for: an answer resumes the request it
\* was asked for, at most once (CreateLoginDelegate, SendAuthToRequester,
\* OnRequestCancelled).
THEOREM DialogRefinesChallenge == Spec => ImplementsChallenges
<1>1. QED BY InitRefines, StepRefines, Invariance, PTL
          DEF Spec, ImplementsChallenges, Challenge!Spec

\* Credentials typed for one challenge never answer a later one (SendAuthToRequester
\* compares nothing: it relies on the loader having dropped the old dialog).
THEOREM AnswersMeetChallenges == Spec => AnswerMeetsChallenge
<1>1. Inv /\ Inv' /\ [Next]_vars =>
        [SendsAuth => LET d == Head(io).dialog
                          r == request_[d]
                      IN  request[r] # "gone" =>
                            request[r] = "waiting" /\ login_delegate[r] = d]_vars
  <2> SUFFICES ASSUME Inv, Inv', Next, SendsAuth
               PROVE  LET d == Head(io).dialog
                          r == request_[d]
                      IN  request[r] # "gone" =>
                            request[r] = "waiting" /\ login_delegate[r] = d
    OBVIOUS
  <2>1. CASE SendAuthToRequester
    BY <2>1, SendInv DEF Inv
  <2>2. ASSUME NEW d \in Dialogs, NEW success \in BOOLEAN, ProcessResponse(d, success)
        PROVE  FALSE
    <3>1. io' = Append(io, IoTask(d, success)) /\ io \in Seq(IoTasks)
      BY <2>2 DEF ProcessResponse, Inv, TypeOK
    <3>2. IoTask(d, success) \in IoTasks
      BY DEF IoTask, IoTasks
    <3>3. QED BY <3>1, <3>2 DEF SendsAuth
  <2>3. ASSUME io' = io PROVE FALSE
    BY <2>3 DEF SendsAuth, Inv, TypeOK
  <2>4. QED BY <2>1, <2>2, <2>3
            DEF Next, Step, CreateLoginDelegate, Adopt, EndRequest, PrepDialog,
                PlatformRequestCancelled, UseFreed
<1>2. QED BY <1>1, Invariance, PTL DEF Spec, AnswerMeetsChallenge

-----------------------------------------------------------------------------
(***************************************************************************)
(* What is under way.  The invariant adds the converse of TokenOpen, that  *)
(* the loader waits for nothing that is not under way, and that the        *)
(* dialogs of a request that is gone are about to be withdrawn: at once if *)
(* Java shows them, and behind their preparation if it does not yet.       *)
(***************************************************************************)

OpenPending == \A d \in Dialogs : Created(d) /\ IsOpen(d) => Token(d)

\* Java is about to be told that the request is gone.
CancelComes ==
  \A d \in java : request[request_[d]] = "gone" => Holds(ui, CancelOf(d))

\* The cancellation is queued behind the dialog's preparation.
CancelFollows ==
  \A d \in Dialogs : Created(d) /\ request[request_[d]] = "gone"
    => Followed(ui, PrepOf(d), CancelOf(d))

CancelMeansGone ==
  \A d \in Dialogs : Holds(ui, CancelOf(d)) => Created(d) /\ request[request_[d]] = "gone"

PendingInv ==
  /\ Inv
  /\ OpenPending
  /\ CancelComes
  /\ CancelFollows
  /\ CancelMeansGone

LEMMA InitPending == Init => PendingInv
<1> SUFFICES ASSUME Init PROVE PendingInv
  OBVIOUS
<1>1. Inv
  BY InitInv
<1>2. QED BY <1>1 DEF Init, PendingInv, OpenPending, CancelComes, CancelFollows,
                      CancelMeansGone, Created, Holds

LEMMA CreatePending ==
  ASSUME PendingInv, Inv', NEW r \in Requests, NEW d \in Dialogs, CreateLoginDelegate(r, d)
  PROVE  PendingInv'
<1> USE LoginConstants
<1>1. /\ creating = NoDialog /\ request[r] = "running" /\ request_[d] = NoRequest
      /\ request' = [request EXCEPT ![r] = "waiting"]
      /\ request_' = [request_ EXCEPT ![d] = r]
      /\ creating' = d
      /\ ui' = Append(ui, UiTask("PrepDialog", d))
      /\ login_delegate' = login_delegate /\ io' = io /\ java' = java
  BY DEF CreateLoginDelegate, Created, IoFree
<1>2. UiTask("PrepDialog", d) \in UiTasks /\ ui \in Seq(UiTasks)
  BY DEF UiTask, UiTasks, PendingInv, Inv, TypeOK
<1>3. ~Token(d)
  BY <1>1 DEF PendingInv, Inv, TokenOpen, Created
<1>4. OpenPending'
  <2> SUFFICES ASSUME NEW e \in Dialogs, (Created(e) /\ IsOpen(e))' PROVE Token(e)'
    BY DEF OpenPending
  <2>1. CASE e = d
    <3>1. UiTask("PrepDialog", d) \in PrepOf(e)
      BY <2>1 DEF PrepOf
    <3>2. Holds(Append(ui, UiTask("PrepDialog", d)), PrepOf(e))
      BY <1>2, <3>1, AppendTask
    <3>3. Preparing(e)'
      BY <1>1, <3>2 DEF Preparing, PrepOf
    <3>4. QED BY <3>3 DEF Token
  <2>2. CASE e # d
    <3>1. Created(e) /\ IsOpen(e)
      BY <1>1, <2>2 DEF Created, IsOpen, PendingInv, Inv, TypeOK
    <3>2. Token(e)
      BY <3>1 DEF PendingInv, OpenPending
    <3>3. Holds(ui, PrepOf(e)) => Holds(ui', PrepOf(e))
      BY <1>1, <1>2, AppendKeeps
    <3>4. Preparing(e) => Preparing(e)'
      BY <3>3 DEF Preparing, PrepOf
    <3>5. Sending(e) => Sending(e)'
      BY <1>1 DEF Sending, SendOf
    <3>6. QED BY <1>1, <3>2, <3>4, <3>5 DEF Token
  <2>3. QED BY <2>1, <2>2
<1>5. CancelComes'
  <2> SUFFICES ASSUME NEW e \in java, (request[request_[e]] = "gone")'
               PROVE  Holds(ui, CancelOf(e))'
    BY <1>1 DEF CancelComes
  <2>1. e # d /\ e \in Dialogs /\ request_[e] \in Requests
    BY <1>3 DEF Token, PendingInv, Inv, TypeOK, TokenOpen, Created
  <2>2. request[request_[e]] = "gone"
    BY <1>1, <2>1 DEF PendingInv, Inv, TypeOK
  <2>3. QED BY <1>1, <1>2, <2>2, AppendTask DEF PendingInv, CancelComes
<1>6. CancelFollows'
  <2> SUFFICES ASSUME NEW e \in Dialogs, (Created(e) /\ request[request_[e]] = "gone")'
               PROVE  Followed(ui, PrepOf(e), CancelOf(e))'
    BY DEF CancelFollows
  <2>1. e # d
    BY <1>1 DEF PendingInv, Inv, TypeOK
  <2>2. Created(e) /\ request[request_[e]] = "gone"
    BY <1>1, <2>1 DEF PendingInv, Inv, TypeOK, Created
  <2>3. UiTask("PrepDialog", d) \notin PrepOf(e)
    BY <2>1, TasksDiffer
  <2>4. Followed(ui, PrepOf(e), CancelOf(e))
    BY <2>2 DEF PendingInv, CancelFollows
  <2>5. Followed(Append(ui, UiTask("PrepDialog", d)), PrepOf(e), CancelOf(e))
    BY <1>2, <2>3, <2>4, AppendFollowed
  <2>6. QED BY <1>1, <2>5 DEF PrepOf, CancelOf
<1>7. CancelMeansGone'
  <2> SUFFICES ASSUME NEW e \in Dialogs, Holds(ui, CancelOf(e))'
               PROVE  (Created(e) /\ request[request_[e]] = "gone")'
    BY DEF CancelMeansGone
  <2>0. UiTask("PrepDialog", d) \notin CancelOf(e)
    BY TasksDiffer
  <2>1. Holds(ui, CancelOf(e))
    BY <1>1, <1>2, <2>0, AppendHolds DEF CancelOf
  <2>2. Created(e) /\ request[request_[e]] = "gone" /\ request_[e] \in Requests
    BY <2>1 DEF PendingInv, CancelMeansGone, Inv, TypeOK, Created
  <2>3. QED BY <1>1, <2>2 DEF PendingInv, Inv, TypeOK, Created
<1>8. QED BY <1>4, <1>5, <1>6, <1>7 DEF PendingInv

LEMMA AdoptPending == ASSUME PendingInv, Inv', Adopt PROVE PendingInv'
<1> USE LoginConstants
<1>1. /\ creating \in Dialogs /\ creating' = NoDialog
      /\ login_delegate' = [login_delegate EXCEPT ![request_[creating]] = creating]
      /\ UNCHANGED <<request, request_, ui, io, java>>
  BY DEF Adopt, PendingInv, Inv, TypeOK
<1>2. CancelComes' /\ CancelFollows' /\ CancelMeansGone'
  BY <1>1 DEF PendingInv, CancelComes, CancelFollows, CancelMeansGone, Created
<1>3. \A e \in Dialogs : (Created(e) /\ IsOpen(e))' => Created(e) /\ IsOpen(e)
  BY <1>1 DEF Created, IsOpen, PendingInv, Inv, TypeOK
<1>4. OpenPending'
  BY <1>1, <1>3 DEF PendingInv, OpenPending, Token, Preparing, Sending
<1>5. QED BY <1>2, <1>4 DEF PendingInv

LEMMA EndPending ==
  ASSUME PendingInv, Inv', NEW r \in Requests, EndRequest(r)
  PROVE  PendingInv'
<1> USE LoginConstants
<1>1. /\ creating = NoDialog /\ creating' = creating
      /\ request' = [request EXCEPT ![r] = "gone"]
      /\ login_delegate' = [login_delegate EXCEPT ![r] = NoDialog]
      /\ UNCHANGED <<request_, io, java>>
  BY DEF EndRequest, IoFree
<1>2. \A e \in Dialogs : (Created(e) /\ IsOpen(e))' => Created(e) /\ IsOpen(e)
  BY <1>1 DEF Created, IsOpen, PendingInv, Inv, TypeOK
<1>3. ASSUME NEW e \in Dialogs, Created(e), request[request_[e]] = "gone"
      PROVE  (Created(e) /\ request[request_[e]] = "gone")'
  BY <1>1, <1>3 DEF Created, PendingInv, Inv, TypeOK
<1>4. CASE login_delegate[r] = NoDialog
  <2>1. ui' = ui
    BY <1>4 DEF EndRequest, OnRequestCancelled
  <2>2. ASSUME NEW e \in Dialogs, request_[e] = r, request[r] # "gone"
        PROVE  ~Token(e)
    BY <1>1, <1>4, <2>2 DEF PendingInv, Inv, TokenOpen, IsOpen
  <2>3. CancelComes'
    <3> SUFFICES ASSUME NEW e \in java, (request[request_[e]] = "gone")'
                 PROVE  Holds(ui, CancelOf(e))
      BY <1>1, <2>1 DEF CancelComes
    <3>1. e \in Dialogs /\ request_[e] \in Requests /\ Token(e)
      BY DEF Token, PendingInv, Inv, TypeOK, TokenOpen, Created
    <3>2. request[request_[e]] = "gone"
      BY <1>1, <2>2, <3>1 DEF PendingInv, Inv, TypeOK
    <3>3. QED BY <3>2 DEF PendingInv, CancelComes
  <2>4. CancelFollows'
    <3> SUFFICES ASSUME NEW e \in Dialogs, (Created(e) /\ request[request_[e]] = "gone")'
                 PROVE  Followed(ui, PrepOf(e), CancelOf(e))
      BY <2>1 DEF CancelFollows
    <3>1. Created(e) /\ request_[e] \in Requests
      BY <1>1 DEF Created, PendingInv, Inv, TypeOK
    <3>2. CASE request[request_[e]] = "gone"
      BY <3>1, <3>2 DEF PendingInv, CancelFollows
    <3>3. CASE request[request_[e]] # "gone"
      <4>1. ~Holds(ui, PrepOf(e))
        BY <1>1, <2>2, <3>1, <3>3 DEF Token, Preparing, PendingInv, Inv, TypeOK
      <4>2. QED BY <4>1 DEF Followed, Holds
    <3>4. QED BY <3>2, <3>3
  <2>5. OpenPending'
    BY <1>1, <1>2, <2>1 DEF PendingInv, OpenPending, Token, Preparing, Sending
  <2>6. CancelMeansGone'
    BY <1>3, <2>1 DEF PendingInv, CancelMeansGone
  <2>7. QED BY <2>3, <2>4, <2>5, <2>6 DEF PendingInv
<1>5. CASE login_delegate[r] # NoDialog
  <2>0. PICK d \in Dialogs : d = login_delegate[r]
    BY <1>5 DEF PendingInv, Inv, TypeOK
  <2>1. /\ UiTask("PlatformRequestCancelled", d) \in UiTasks /\ ui \in Seq(UiTasks)
        /\ ui' = Append(ui, UiTask("PlatformRequestCancelled", d))
    BY <1>5, <2>0 DEF EndRequest, OnRequestCancelled, UiTask, UiTasks, PendingInv, Inv, TypeOK
  <2>2. ASSUME NEW e \in Dialogs, request_[e] = r, request[r] # "gone", Token(e)
        PROVE  e = d
    BY <1>1, <2>0, <2>2 DEF PendingInv, Inv, TokenOpen, IsOpen
  <2>3. CancelComes'
    <3> SUFFICES ASSUME NEW e \in java, (request[request_[e]] = "gone")'
                 PROVE  Holds(ui', CancelOf(e))
      BY <1>1 DEF CancelComes
    <3>1. e \in Dialogs /\ request_[e] \in Requests /\ Token(e)
      BY DEF Token, PendingInv, Inv, TypeOK, TokenOpen, Created
    <3>2. CASE request[request_[e]] = "gone"
      <4>1. Holds(ui, CancelOf(e))
        BY <3>2 DEF PendingInv, CancelComes
      <4>2. QED BY <2>1, <4>1, AppendKeeps
    <3>3. CASE request[request_[e]] # "gone"
      <4>1. e = d
        BY <1>1, <2>2, <3>1, <3>3 DEF PendingInv, Inv, TypeOK
      <4>2. UiTask("PlatformRequestCancelled", d) \in CancelOf(e)
        BY <4>1 DEF CancelOf
      <4>3. QED BY <2>1, <4>2, AppendTask
    <3>4. QED BY <3>2, <3>3
  <2>4. CancelFollows'
    <3> SUFFICES ASSUME NEW e \in Dialogs, (Created(e) /\ request[request_[e]] = "gone")'
                 PROVE  Followed(ui', PrepOf(e), CancelOf(e))
      BY DEF CancelFollows
    <3>1. Created(e) /\ request_[e] \in Requests
      BY <1>1 DEF Created, PendingInv, Inv, TypeOK
    <3>a. UiTask("PlatformRequestCancelled", d) \notin PrepOf(e)
      BY DEF PrepOf, UiTask
    <3>2. CASE Followed(ui, PrepOf(e), CancelOf(e))
      BY <2>1, <3>2, <3>a, AppendFollowed
    <3>3. CASE ~Followed(ui, PrepOf(e), CancelOf(e))
      <4>1. request[request_[e]] # "gone"
        BY <3>1, <3>3 DEF PendingInv, CancelFollows
      <4>2. Token(e)
        BY <3>3 DEF Followed, Token, Preparing, Holds
      <4>3. e = d
        BY <1>1, <2>2, <3>1, <4>1, <4>2 DEF PendingInv, Inv, TypeOK
      <4>4. UiTask("PlatformRequestCancelled", d) \in CancelOf(e)
        BY <4>3 DEF CancelOf
      <4>5. QED BY <2>1, <3>a, <4>4, AppendFollowed
    <3>4. QED BY <3>2, <3>3
  <2>5. OpenPending'
    <3> SUFFICES ASSUME NEW e \in Dialogs, Token(e) PROVE Token(e)'
      BY <1>2 DEF PendingInv, OpenPending
    <3>1. Preparing(e) => Preparing(e)'
      BY <2>1, AppendKeeps DEF Preparing
    <3>2. QED BY <1>1, <3>1 DEF Token, Sending
  <2>6. CancelMeansGone'
    <3> SUFFICES ASSUME NEW e \in Dialogs, Holds(ui', CancelOf(e))
                 PROVE  (Created(e) /\ request[request_[e]] = "gone")'
      BY DEF CancelMeansGone
    <3>1. CASE Holds(ui, CancelOf(e))
      BY <1>3, <3>1 DEF PendingInv, CancelMeansGone
    <3>2. CASE ~Holds(ui, CancelOf(e))
      <4>0. UiTask("PlatformRequestCancelled", d) \in CancelOf(e)
        BY <2>1, <3>2, AppendHolds
      <4>1. e = d
        BY <4>0 DEF CancelOf, UiTask
      <4>2. request_[d] = r
        BY <1>5, <2>0 DEF PendingInv, Inv, Delegates
      <4>3. QED BY <1>1, <4>1, <4>2 DEF Created, PendingInv, Inv, TypeOK
    <3>3. QED BY <3>1, <3>2
  <2>7. QED BY <2>3, <2>4, <2>5, <2>6 DEF PendingInv
<1>6. QED BY <1>4, <1>5

LEMMA SendPending == ASSUME PendingInv, Inv', SendAuthToRequester PROVE PendingInv'
<1>0. io # <<>> /\ io \in Seq(IoTasks)
  BY DEF SendAuthToRequester, PendingInv, Inv, TypeOK
<1>1. PICK d \in Dialogs, r \in Requests : d = Head(io).dialog /\ r = request_[d]
  BY SendInv DEF PendingInv, Inv
<1>2. /\ request' = [request EXCEPT ![r] = IF @ = "gone" THEN "gone"
                        ELSE IF Head(io).success THEN "running" ELSE "refused"]
      /\ login_delegate' = [login_delegate EXCEPT ![r] = NoDialog]
      /\ io' = Tail(io)
      /\ UNCHANGED <<request_, creating, ui, java>>
      /\ creating = NoDialog
  BY <1>1 DEF SendAuthToRequester, IoFree
<1>3. \A s \in Requests : request'[s] = "gone" <=> request[s] = "gone"
  BY <1>2 DEF PendingInv, Inv, TypeOK
<1>4. \A e \in Dialogs : Created(e) => request_[e] \in Requests
  BY DEF Created, PendingInv, Inv, TypeOK
<1>5. \A e \in java : e \in Dialogs /\ Created(e)
  BY DEF Token, PendingInv, Inv, TypeOK, TokenOpen
<1>6. CancelComes' /\ CancelFollows' /\ CancelMeansGone'
  BY <1>2, <1>3, <1>4, <1>5
     DEF PendingInv, CancelComes, CancelFollows, CancelMeansGone, Created
<1>7. OpenPending'
  <2> SUFFICES ASSUME NEW e \in Dialogs, (Created(e) /\ IsOpen(e))' PROVE Token(e)'
    BY DEF OpenPending
  <2>1. e # d /\ Created(e) /\ IsOpen(e)
    BY LoginConstants, <1>1, <1>2, <1>4 DEF Created, IsOpen, PendingInv, Inv, TypeOK
  <2>2. Token(e)
    BY <2>1 DEF PendingInv, OpenPending
  <2>3. Head(io) \notin SendOf(e)
    BY <1>1, <2>1 DEF SendOf, IoTask
  <2>4. Sending(e) => Sending(e)'
    BY <1>0, <1>2, <2>3, TailTask DEF Sending
  <2>5. QED BY <1>2, <2>2, <2>4 DEF Token, Preparing
<1>8. QED BY <1>6, <1>7 DEF PendingInv

LEMMA PrepPending == ASSUME PendingInv, Inv', PrepDialog PROVE PendingInv'
<1>0. ui # <<>> /\ ui \in Seq(UiTasks) /\ Head(ui).task = "PrepDialog"
  BY DEF PrepDialog, UiMayRun, PendingInv, Inv, TypeOK
<1>1. Head(ui) \in UiTasks
  BY <1>0, TailIndex
<1>2. PICK d \in Dialogs : d = Head(ui).dialog
  BY <1>1 DEF UiTasks
<1>3. /\ java' = java \cup {d} /\ ui' = Tail(ui)
      /\ UNCHANGED <<request, request_, login_delegate, creating, io>>
  BY <1>2 DEF PrepDialog
<1>4. Head(ui) \in PrepOf(d)
  BY <1>0, <1>1, <1>2 DEF PrepOf, UiTask, UiTasks
<1>5. CancelComes'
  <2> SUFFICES ASSUME NEW e \in java', request[request_[e]] = "gone"
               PROVE  Holds(Tail(ui), CancelOf(e))
    BY <1>3 DEF CancelComes
  <2>1. CASE e = d
    <3>1. Preparing(d)
      BY <1>0, <1>4, TailTask DEF Preparing
    <3>2. Followed(ui, PrepOf(d), CancelOf(d))
      BY <2>1, <3>1 DEF PendingInv, CancelFollows, Inv, TokenOpen, Token
    <3>3. QED BY <1>0, <1>4, <2>1, <3>2, TailTask
  <2>2. CASE e \in java
    <3>1. Holds(ui, CancelOf(e))
      BY <2>2 DEF PendingInv, CancelComes
    <3>2. Head(ui) \notin CancelOf(e)
      BY <1>0 DEF CancelOf, UiTask
    <3>3. QED BY <1>0, <3>1, <3>2, TailTask
  <2>3. QED BY <1>3, <2>1, <2>2
<1>6. CancelFollows'
  BY <1>0, <1>3, TailTask DEF PendingInv, CancelFollows, Created
<1>7. CancelMeansGone'
  BY <1>0, <1>3, TailTask DEF PendingInv, CancelMeansGone, Created
<1>8. OpenPending'
  <2> SUFFICES ASSUME NEW e \in Dialogs, Token(e) PROVE Token(e)'
    BY <1>3 DEF PendingInv, OpenPending, Created, IsOpen
  <2>1. e = d \/ Head(ui) \notin PrepOf(e)
    BY <1>2 DEF PrepOf, UiTask
  <2>2. e = d \/ (Preparing(e) => Preparing(e)')
    BY <1>0, <1>3, <2>1, TailTask DEF Preparing
  <2>3. QED BY <1>3, <2>2 DEF Token, Sending
<1>9. QED BY <1>5, <1>6, <1>7, <1>8 DEF PendingInv

LEMMA CancelPending ==
  ASSUME PendingInv, Inv', PlatformRequestCancelled
  PROVE  PendingInv'
<1>0. ui # <<>> /\ ui \in Seq(UiTasks) /\ Head(ui).task = "PlatformRequestCancelled"
  BY DEF PlatformRequestCancelled, UiMayRun, PendingInv, Inv, TypeOK
<1>1. Head(ui) \in UiTasks
  BY <1>0, TailIndex
<1>2. PICK d \in Dialogs : d = Head(ui).dialog
  BY <1>1 DEF UiTasks
<1>3. /\ java' = java \ {d} /\ ui' = Tail(ui)
      /\ UNCHANGED <<request, request_, login_delegate, creating, io>>
  BY <1>2 DEF PlatformRequestCancelled
<1>4. \A e \in Dialogs : Head(ui) \notin PrepOf(e)
  BY <1>0 DEF PrepOf, UiTask
<1>5. CancelComes'
  <2> SUFFICES ASSUME NEW e \in java, e # d, request[request_[e]] = "gone"
               PROVE  Holds(Tail(ui), CancelOf(e))
    BY <1>3 DEF CancelComes
  <2>1. Holds(ui, CancelOf(e))
    BY DEF PendingInv, CancelComes
  <2>2. Head(ui) \notin CancelOf(e)
    BY <1>2 DEF CancelOf, UiTask
  <2>3. QED BY <1>0, <2>1, <2>2, TailTask
<1>6. CancelFollows'
  BY <1>0, <1>3, TailTask DEF PendingInv, CancelFollows, Created
<1>7. CancelMeansGone'
  BY <1>0, <1>3, TailTask DEF PendingInv, CancelMeansGone, Created
<1>8. OpenPending'
  <2> SUFFICES ASSUME NEW e \in Dialogs, Created(e), IsOpen(e) PROVE Token(e)'
    BY <1>3 DEF OpenPending, Created, IsOpen
  <2>1. Head(ui) \in CancelOf(d)
    BY <1>0, <1>1, <1>2 DEF CancelOf, UiTask, UiTasks
  <2>2. Created(d) /\ request[request_[d]] = "gone"
    BY <1>0, <2>1, TailTask DEF PendingInv, CancelMeansGone
  <2>3. e # d
    <3>1. creating # d
      BY LoginConstants, <2>2 DEF PendingInv, Inv, CreatingOpen
    <3>2. request_[d] \in Requests
      BY <2>2 DEF Created, PendingInv, Inv, TypeOK
    <3>3. login_delegate[request_[d]] # d
      BY LoginConstants, <2>2, <3>2 DEF PendingInv, Inv, Delegates
    <3>4. QED BY <3>1, <3>3 DEF IsOpen
  <2>4. Preparing(e) => Preparing(e)'
    BY <1>0, <1>3, <1>4, TailTask DEF Preparing
  <2>5. Token(e)
    BY DEF PendingInv, OpenPending
  <2>6. QED BY <1>3, <2>3, <2>4, <2>5 DEF Token, Sending
<1>9. QED BY <1>5, <1>6, <1>7, <1>8 DEF PendingInv

LEMMA ResponsePending ==
  ASSUME PendingInv, Inv', NEW d \in Dialogs, NEW success \in BOOLEAN, ProcessResponse(d, success)
  PROVE  PendingInv'
<1>1. /\ d \in java /\ java' = java \ {d} /\ io' = Append(io, IoTask(d, success))
      /\ UNCHANGED <<request, request_, login_delegate, creating, ui>>
  BY DEF ProcessResponse
<1>2. io \in Seq(IoTasks) /\ IoTask(d, success) \in IoTasks
  BY DEF PendingInv, Inv, TypeOK, IoTask, IoTasks
<1>3. CancelComes' /\ CancelFollows' /\ CancelMeansGone'
  BY <1>1 DEF PendingInv, CancelComes, CancelFollows, CancelMeansGone, Created
<1>4. ASSUME NEW e \in Dialogs, Token(e) PROVE Token(e)'
  <2>1. Sending(e) => Sending(e)'
    BY <1>1, <1>2, AppendKeeps DEF Sending
  <2>2. IoTask(d, success) \in SendOf(d)
    BY DEF SendOf
  <2>3. Holds(io', SendOf(d))
    BY <1>1, <1>2, <2>2, AppendTask
  <2>4. Sending(d)'
    BY <2>3 DEF Sending, SendOf
  <2>5. QED BY <1>1, <1>4, <2>1, <2>4 DEF Token, Preparing
<1>5. OpenPending'
  BY <1>1, <1>4 DEF PendingInv, OpenPending, Created, IsOpen
<1>6. QED BY <1>3, <1>5 DEF PendingInv

LEMMA StepPending == PendingInv /\ [Next]_vars => PendingInv'
<1> SUFFICES ASSUME PendingInv, [Next]_vars PROVE PendingInv'
  OBVIOUS
<1>0. Inv'
  BY StepInv DEF PendingInv
<1>a. ASSUME UseFreed \/ UNCHANGED vars
      PROVE  UNCHANGED <<request, request_, login_delegate, creating, ui, io, java>>
  BY <1>a DEF UseFreed, vars
<1>1. ASSUME UseFreed \/ UNCHANGED vars PROVE PendingInv'
  BY <1>0, <1>1, <1>a DEF PendingInv, OpenPending, CancelComes, CancelFollows, CancelMeansGone,
                    Created, IsOpen, Token, Preparing, Sending
<1>2. QED BY <1>0, <1>1, CreatePending, AdoptPending, EndPending, SendPending, PrepPending,
             CancelPending, ResponsePending DEF Next, Step

LEMMA PendingInvariance == Spec => []PendingInv
<1>1. QED BY InitPending, StepPending, PTL DEF Spec

\* A challenge of a request that lives is open exactly while one of three things is on
\* its way: its preparation, the user's decision, or the answer.
ChallengeInOnePlace ==
  \A d \in Dialogs : Created(d) /\ request[request_[d]] # "gone" =>
    /\ IsOpen(d) <=> Token(d)
    /\ OneToken(d)

\* No request waits for an answer that nobody will give, and none is given twice
\* (PrepDialog, ProcessResponse and SendAuthToRequester hand one token on): the safety
\* core of AnswerResumes.
THEOREM NoChallengeIsLost == Spec => []ChallengeInOnePlace
<1>1. PendingInv => ChallengeInOnePlace
  BY DEF PendingInv, ChallengeInOnePlace, OpenPending, Inv, TokenOpen, TokenOnce
<1>2. QED BY <1>1, PendingInvariance, PTL

\* What Java shows for a request that is gone is about to be withdrawn, even when the
\* cancellation crosses the preparation of the dialog (OnRequestCancelled): the safety
\* core of DialogsVanish.
THEOREM WithdrawalComes == Spec => []CancelComes
<1>1. PendingInv => CancelComes
  BY DEF PendingInv
<1>2. QED BY <1>1, PendingInvariance, PTL

-----------------------------------------------------------------------------
(* Lifetime: what is deleted without the race is neither shown nor referred to *)

\* While the loader has not stored the dialog, its task keeps it, or has run early.
CreatingPrepared ==
  creating # NoDialog =>
    \/ creating \in early
    \/ Preparing(creating) /\ creating \notin java

DeletedIsForgotten ==
  \A d \in deleted \ early : Created(d) /\ ~Referred(d) /\ d \notin java

LifeInv ==
  /\ PendingInv
  /\ CreatingPrepared
  /\ DeletedIsForgotten

TasksOf(S, d) == {task \in S : task.dialog = d}

LEMMA PostedHolds ==
  ASSUME NEW S, NEW q \in Seq(S), NEW d
  PROVE  Posted(q, d) <=> Holds(q, TasksOf(S, d))
BY DEF Posted, Holds, TasksOf

JavaIsReferred == \A d \in java \ early : Referred(d)

LEMMA JavaReferred == Inv /\ CreatingPrepared /\ CancelComes => JavaIsReferred
<1> SUFFICES ASSUME Inv, CreatingPrepared, CancelComes, NEW d \in java \ early
             PROVE  Referred(d)
  BY DEF JavaIsReferred
<1>1. d \in Dialogs /\ Created(d) /\ request_[d] \in Requests
  BY DEF Inv, TypeOK, TokenOpen, Token, Created
<1>2. CASE request[request_[d]] = "gone"
  <2>1. PICK i \in DOMAIN ui : ui[i] \in CancelOf(d)
    BY <1>2 DEF CancelComes, Holds
  <2>2. ui[i].dialog = d
    BY <2>1 DEF CancelOf, UiTask
  <2>3. QED BY <2>2 DEF Referred, Posted
<1>3. CASE request[request_[d]] # "gone"
  <2>1. creating # d
    BY LoginConstants, <1>1 DEF CreatingPrepared
  <2>2. login_delegate[request_[d]] = d
    BY <1>1, <1>3, <2>1 DEF Inv, TokenOpen, Token, IsOpen
  <2>3. QED BY <1>1, <2>2 DEF Referred
<1>4. QED BY <1>2, <1>3

LEMMA CreatingReferred ==
  ASSUME CreatingPrepared, creating # NoDialog
  PROVE  creating \in early \/ Referred(creating)
BY DEF CreatingPrepared, Preparing, Holds, PrepOf, UiTask, Referred, Posted

\* A step deletes only what nobody refers to and Java does not show.
LEMMA DeletedStep ==
  ASSUME LifeInv, PendingInv', CreatingPrepared', Release, early \subseteq early',
         \A d \in deleted \ early :
           Created(d)' /\ (Referred(d)' => Referred(d)) /\ (d \in java' => d \in java)
  PROVE  DeletedIsForgotten'
<1> SUFFICES ASSUME NEW d \in deleted' \ early'
             PROVE  Created(d)' /\ ~Referred(d)' /\ d \notin java'
  BY DEF DeletedIsForgotten
<1>1. CASE d \in deleted
  BY <1>1 DEF LifeInv, DeletedIsForgotten
<1>2. CASE d \notin deleted
  <2>1. Created(d)' /\ ~Referred(d)'
    BY <1>2 DEF Release, Created
  <2>2. (Inv /\ CreatingPrepared /\ CancelComes => JavaIsReferred)'
    BY JavaReferred, PTL
  <2>3. QED BY <2>1, <2>2 DEF JavaIsReferred, PendingInv
<1>3. QED BY <1>1, <1>2

LEMMA InitLife == Init => LifeInv
<1> SUFFICES ASSUME Init PROVE LifeInv
  OBVIOUS
<1>1. PendingInv
  BY InitPending
<1>2. QED BY <1>1 DEF Init, LifeInv, CreatingPrepared, DeletedIsForgotten

\* Who refers to a dialog after a task has been posted or run.
LEMMA AppendPosted ==
  ASSUME NEW S, NEW q \in Seq(S), NEW e \in S, NEW d, Posted(Append(q, e), d)
  PROVE  Posted(q, d) \/ e.dialog = d
<1>1. Append(q, e) \in Seq(S)
  BY AppendIndex
<1>2. Holds(Append(q, e), TasksOf(S, d))
  BY <1>1, PostedHolds
<1>3. Holds(q, TasksOf(S, d)) \/ e \in TasksOf(S, d)
  BY <1>2, AppendTask
<1>4. QED BY <1>3, PostedHolds DEF TasksOf

LEMMA TailPosted ==
  ASSUME NEW S, NEW q \in Seq(S), q # <<>>, NEW d
  PROVE  /\ Posted(Tail(q), d) => Posted(q, d)
         /\ Head(q).dialog = d => Posted(q, d)
<1>1. Tail(q) \in Seq(S) /\ Head(q) \in S
  BY TailIndex
<1>2. Posted(Tail(q), d) <=> Holds(Tail(q), TasksOf(S, d))
  BY <1>1, PostedHolds
<1>3. Posted(q, d) <=> Holds(q, TasksOf(S, d))
  BY PostedHolds
<1>4. Holds(Tail(q), TasksOf(S, d)) => Holds(q, TasksOf(S, d))
  BY TailTask
<1>5. Head(q).dialog = d => Holds(q, TasksOf(S, d))
  BY <1>1, TailTask DEF TasksOf
<1>6. QED BY <1>2, <1>3, <1>4, <1>5

LEMMA CreateLife ==
  ASSUME LifeInv, PendingInv', NEW r \in Requests, NEW d \in Dialogs, CreateLoginDelegate(r, d)
  PROVE  LifeInv'
<1> USE LoginConstants
<1>1. /\ request[r] = "running" /\ request_[d] = NoRequest
      /\ request' = [request EXCEPT ![r] = "waiting"]
      /\ request_' = [request_ EXCEPT ![d] = r]
      /\ creating' = d
      /\ ui' = Append(ui, UiTask("PrepDialog", d))
      /\ login_delegate' = login_delegate /\ io' = io /\ java' = java
      /\ early' = early /\ Release
  BY DEF CreateLoginDelegate, Created
<1>2. /\ UiTask("PrepDialog", d) \in UiTasks /\ ui \in Seq(UiTasks)
      /\ UiTask("PrepDialog", d).dialog = d
  BY DEF UiTask, UiTasks, LifeInv, PendingInv, Inv, TypeOK
<1>3. ~Token(d)
  BY <1>1 DEF LifeInv, PendingInv, Inv, TokenOpen, Created
<1>4. CreatingPrepared'
  <2>1. UiTask("PrepDialog", d) \in PrepOf(d)
    BY DEF PrepOf
  <2>2. Holds(Append(ui, UiTask("PrepDialog", d)), PrepOf(d))
    BY <1>2, <2>1, AppendTask
  <2>3. d \notin java
    BY <1>3 DEF Token
  <2>4. creating' = d /\ ui' = Append(ui, UiTask("PrepDialog", d)) /\ java' = java
    BY <1>1
  <2>5. QED BY <2>2, <2>3, <2>4 DEF CreatingPrepared, Preparing
<1>5. ASSUME NEW e \in deleted \ early
      PROVE  Created(e)' /\ (Referred(e)' => Referred(e)) /\ (e \in java' => e \in java)
  <2>1. Created(e) /\ e # d /\ e \in Dialogs
    BY <1>1 DEF LifeInv, DeletedIsForgotten, Created, PendingInv, Inv, TypeOK
  <2>2. Posted(ui, e)' => Posted(ui, e)
    BY <1>1, <1>2, <2>1, AppendPosted
  <2>3. QED BY <1>1, <2>1, <2>2 DEF Referred, Created, LifeInv, PendingInv, Inv, TypeOK, Posted
<1>6. DeletedIsForgotten'
  BY <1>1, <1>4, <1>5, DeletedStep
<1>7. QED BY <1>4, <1>6 DEF LifeInv

LEMMA AdoptLife == ASSUME LifeInv, PendingInv', Adopt PROVE LifeInv'
<1> USE LoginConstants
<1>1. /\ creating \in Dialogs /\ creating' = NoDialog /\ Release
      /\ login_delegate' = [login_delegate EXCEPT ![request_[creating]] = creating]
      /\ UNCHANGED <<request, request_, ui, io, java, early>>
  BY DEF Adopt, LifeInv, PendingInv, Inv, TypeOK
<1>2. CreatingPrepared'
  BY <1>1 DEF CreatingPrepared
<1>3. ASSUME NEW e \in deleted \ early
      PROVE  Created(e)' /\ (Referred(e)' => Referred(e)) /\ (e \in java' => e \in java)
  <2>1. creating # e
    BY <1>1, CreatingReferred DEF LifeInv, DeletedIsForgotten
  <2>2. QED BY <1>1, <2>1 DEF Referred, Created, Posted, LifeInv, PendingInv, Inv, TypeOK,
                              DeletedIsForgotten
<1>4. QED BY <1>1, <1>2, <1>3, DeletedStep DEF LifeInv

LEMMA EndLife ==
  ASSUME LifeInv, PendingInv', NEW r \in Requests, EndRequest(r)
  PROVE  LifeInv'
<1> USE LoginConstants
<1>1. /\ creating = NoDialog /\ creating' = creating /\ Release
      /\ login_delegate' = [login_delegate EXCEPT ![r] = NoDialog]
      /\ UNCHANGED <<request_, io, java, early>>
  BY DEF EndRequest, IoFree
<1>2. CreatingPrepared'
  BY <1>1 DEF CreatingPrepared
<1>3. ASSUME NEW e \in deleted \ early PROVE Posted(ui, e)' => Posted(ui, e)
  <2>1. CASE login_delegate[r] = NoDialog
    BY <2>1 DEF EndRequest, OnRequestCancelled, Posted
  <2>2. CASE login_delegate[r] # NoDialog
    <3> DEFINE d == login_delegate[r]
               task == UiTask("PlatformRequestCancelled", d)
    <3>1. /\ task \in UiTasks /\ ui \in Seq(UiTasks) /\ task.dialog = d
          /\ ui' = Append(ui, task)
      BY <2>2 DEF EndRequest, OnRequestCancelled, UiTask, UiTasks, LifeInv, PendingInv, Inv, TypeOK
    <3>2. e # d
      BY DEF LifeInv, DeletedIsForgotten, Referred
    <3> HIDE DEF d, task
    <3>3. QED BY <3>1, <3>2, AppendPosted
  <2>3. QED BY <2>1, <2>2
<1>4. ASSUME NEW e \in deleted \ early
      PROVE  Created(e)' /\ (Referred(e)' => Referred(e)) /\ (e \in java' => e \in java)
  BY <1>1, <1>3 DEF LifeInv, DeletedIsForgotten, Referred, Created, Posted, PendingInv, Inv, TypeOK
<1>5. QED BY <1>1, <1>2, <1>4, DeletedStep DEF LifeInv

LEMMA SendLife == ASSUME LifeInv, PendingInv', SendAuthToRequester PROVE LifeInv'
<1>0. io # <<>> /\ io \in Seq(IoTasks)
  BY DEF SendAuthToRequester, LifeInv, PendingInv, Inv, TypeOK
<1>1. PICK r \in Requests : r = request_[Head(io).dialog]
  BY SendInv DEF LifeInv, PendingInv, Inv
<1>2. /\ login_delegate' = [login_delegate EXCEPT ![r] = NoDialog]
      /\ io' = Tail(io) /\ Release
      /\ UNCHANGED <<request_, creating, ui, java, early>>
  BY <1>1 DEF SendAuthToRequester
<1>3. CreatingPrepared'
  BY <1>2 DEF LifeInv, CreatingPrepared, Preparing
<1>4. ASSUME NEW e \in deleted \ early
      PROVE  Created(e)' /\ (Referred(e)' => Referred(e)) /\ (e \in java' => e \in java)
  <2>1. Posted(io, e)' => Posted(io, e)
    BY <1>0, <1>2, TailPosted
  <2>2. e \in Dialogs
    BY DEF LifeInv, PendingInv, Inv, TypeOK
  <2>3. Referred(e)' => Referred(e)
    BY LoginConstants, <1>2, <2>1, <2>2 DEF Referred, Posted, LifeInv, PendingInv, Inv, TypeOK
  <2>4. QED BY <1>2, <2>3 DEF LifeInv, DeletedIsForgotten, Created
<1>5. QED BY <1>2, <1>3, <1>4, DeletedStep DEF LifeInv

\* The first task of the UI thread has run.
LEMMA UiRan ==
  ASSUME LifeInv, PendingInv', ui # <<>>, ui' = Tail(ui), Release, early \subseteq early',
         UNCHANGED <<request, request_, login_delegate, creating, io>>,
         NEW d \in Dialogs, Head(ui).dialog = d, java' \subseteq java \cup {d},
         CreatingPrepared'
  PROVE  LifeInv'
<1>1. ui \in Seq(UiTasks)
  BY DEF LifeInv, PendingInv, Inv, TypeOK
<1>2. ASSUME NEW e \in deleted \ early
      PROVE  Created(e)' /\ (Referred(e)' => Referred(e)) /\ (e \in java' => e \in java)
  <2>1. Posted(ui, e)' => Posted(ui, e)
    BY <1>1, TailPosted
  <2>2. e # d
    BY <1>1, TailPosted DEF LifeInv, DeletedIsForgotten, Referred
  <2>3. QED BY <2>1, <2>2 DEF Referred, Posted, Created, LifeInv, DeletedIsForgotten
<1>3. QED BY <1>2, DeletedStep DEF LifeInv

LEMMA PrepLife ==
  ASSUME LifeInv, PendingInv', PrepDialog
  PROVE  LifeInv'
<1>0. ui # <<>> /\ ui \in Seq(UiTasks) /\ Head(ui).task = "PrepDialog"
  BY DEF PrepDialog, UiMayRun, LifeInv, PendingInv, Inv, TypeOK
<1>1. Head(ui) \in UiTasks
  BY <1>0, TailIndex
<1>2. PICK d \in Dialogs : d = Head(ui).dialog
  BY <1>1 DEF UiTasks
<1>3. /\ java' = java \cup {d} /\ ui' = Tail(ui) /\ Release
      /\ early' = early \cup ({d} \cap {creating})
      /\ UNCHANGED <<request, request_, login_delegate, creating, io>>
  BY <1>2 DEF PrepDialog, UiMayRun
<1>4. ASSUME NEW e \in Dialogs, e # d
      PROVE  Head(ui) \notin PrepOf(e)
  BY <1>2, <1>4 DEF PrepOf, UiTask
<1>5. CreatingPrepared'
  <2>1. creating # NoDialog => creating \in Dialogs
    BY DEF LifeInv, PendingInv, Inv, TypeOK
  <2>2. CASE creating = d
    BY <1>3, <2>2 DEF CreatingPrepared
  <2>3. CASE creating # d
    BY <1>0, <1>3, <1>4, <2>1, <2>3, TailTask DEF LifeInv, CreatingPrepared, Preparing
  <2>4. QED BY <2>2, <2>3
<1>6. QED BY <1>0, <1>2, <1>3, <1>5, UiRan

LEMMA CancelLife ==
  ASSUME LifeInv, PendingInv', PlatformRequestCancelled
  PROVE  LifeInv'
<1>0. ui # <<>> /\ ui \in Seq(UiTasks) /\ Head(ui).task = "PlatformRequestCancelled"
  BY DEF PlatformRequestCancelled, UiMayRun, LifeInv, PendingInv, Inv, TypeOK
<1>1. Head(ui) \in UiTasks
  BY <1>0, TailIndex
<1>2. PICK d \in Dialogs : d = Head(ui).dialog
  BY <1>1 DEF UiTasks
<1>3. /\ java' = java \ {d} /\ ui' = Tail(ui) /\ Release
      /\ UNCHANGED <<request, request_, login_delegate, creating, io, early>>
  BY <1>2 DEF PlatformRequestCancelled
<1>4. \A e \in Dialogs : Head(ui) \notin PrepOf(e)
  BY <1>0 DEF PrepOf, UiTask
<1>5. CreatingPrepared'
  <2>1. creating # NoDialog => creating \in Dialogs
    BY DEF LifeInv, PendingInv, Inv, TypeOK
  <2>2. QED BY <1>0, <1>3, <1>4, <2>1, TailTask DEF LifeInv, CreatingPrepared, Preparing
<1>6. QED BY <1>0, <1>2, <1>3, <1>5, UiRan

LEMMA ResponseLife ==
  ASSUME LifeInv, PendingInv', NEW d \in Dialogs, NEW success \in BOOLEAN,
         ProcessResponse(d, success)
  PROVE  LifeInv'
<1>1. /\ d \in java /\ java' = java \ {d} /\ io' = Append(io, IoTask(d, success)) /\ Release
      /\ UNCHANGED <<request, request_, login_delegate, creating, ui, early>>
  BY DEF ProcessResponse
<1>2. /\ io \in Seq(IoTasks) /\ IoTask(d, success) \in IoTasks
      /\ IoTask(d, success).dialog = d
  BY DEF LifeInv, PendingInv, Inv, TypeOK, IoTask, IoTasks
<1>3. CreatingPrepared'
  BY <1>1 DEF LifeInv, CreatingPrepared, Preparing
<1>4. ASSUME NEW e \in deleted \ early
      PROVE  Created(e)' /\ (Referred(e)' => Referred(e)) /\ (e \in java' => e \in java)
  <2>1. e # d
    BY <1>1 DEF LifeInv, DeletedIsForgotten
  <2>2. Posted(io, e)' => Posted(io, e)
    BY <1>1, <1>2, <2>1, AppendPosted
  <2>3. QED BY <1>1, <2>2 DEF Referred, Posted, Created, LifeInv, DeletedIsForgotten
<1>5. QED BY <1>1, <1>3, <1>4, DeletedStep DEF LifeInv

LEMMA StepLife == LifeInv /\ [Next]_vars => LifeInv'
<1> SUFFICES ASSUME LifeInv, [Next]_vars PROVE LifeInv'
  OBVIOUS
<1>0. PendingInv'
  BY StepPending DEF LifeInv
<1>a. ASSUME UseFreed \/ UNCHANGED vars
      PROVE  UNCHANGED <<request, request_, login_delegate, creating, ui, io, java, deleted,
                         early>>
  BY <1>a DEF UseFreed, vars
<1>1. ASSUME UseFreed \/ UNCHANGED vars PROVE LifeInv'
  BY <1>0, <1>1, <1>a DEF LifeInv, CreatingPrepared, Preparing, DeletedIsForgotten, Created,
                    Referred, Posted
<1>2. QED BY <1>0, <1>1, CreateLife, AdoptLife, EndLife, SendLife, PrepLife, CancelLife,
             ResponseLife DEF Next, Step

\* The object Java addresses in its answer has not been deleted, unless the UI thread
\* prepared it before the loader had stored it (ProcessResponse casts the address back
\* without a check): cancellations, answers and repeated challenges cannot free it.
THEOREM HandlesAreAlive == Spec => []HandleIsAlive
<1>1. LifeInv => HandleIsAlive
  BY DEF LifeInv, HandleIsAlive, DeletedIsForgotten, PendingInv, Inv, TypeOK, TokenOpen, Token
<1>2. QED BY <1>1, InitLife, StepLife, PTL DEF Spec
=============================================================================
