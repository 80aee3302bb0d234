--------------------------- MODULE TabViewProofs ---------------------------
(***************************************************************************)
(* Proofs about TabView, for any tabs, addresses and URLs: what the user   *)
(* sees of a tab settles to what is there, its log is true, and a page     *)
(* behind a broken certificate has the user's consent.                     *)
(***************************************************************************)
EXTENDS TabView, TLAPS

\* Only an open tab navigates.
LoadingIsOpen ==
  \A t \in Tabs : loading[t] # Idle =>
    /\ Open(t)
    /\ loading[t].url \in Urls
    /\ loading[t].number \in 1 .. MaxLoads
    /\ loading[t].state \in {"started", "asked"}

\* A tab that was never opened is as it was made.
UnbornIsNew ==
  \A t \in Tabs : phase[t] = "unborn" =>
    committed[t] = NoUrl /\ log_[t] = {} /\ view[t] = NewView

TypeInv == TypeOK /\ LoadingIsOpen /\ UnbornIsNew

LEMMA InitType == Init => TypeInv
<1> SUFFICES ASSUME Init PROVE TypeInv
  OBVIOUS
<1> USE TabViewConstants
<1>1. Idle \in Loads /\ NewView \in Views
  BY DEF Idle, Loads, NewView, Views
<1>2. TypeOK
  <2>1. /\ loading \in [Tabs -> Loads] /\ view \in [Tabs -> Views]
        /\ log_ \in [Tabs -> SUBSET Events] /\ committed \in [Tabs -> Urls \cup {NoUrl}]
    BY <1>1 DEF Init
  <2>2. /\ phase \in [Tabs -> {"unborn", "open", "closed"}]
        /\ address \in [Tabs -> Addresses \cup {Freed}]
        /\ \A t \in Tabs : ~Open(t) /\ address[t] = Freed /\ ask[t] = {}
        /\ ask \in [Tabs -> SUBSET {"ssl", "log"}]
    BY DEF Init, Open
  <2>3. looking \in Found \cup {NoCallback} /\ callbacks \subseteq AceCbs
        /\ allowed \subseteq Sites /\ consents \subseteq Sites /\ written \subseteq Cookies
        /\ crashed \in BOOLEAN
    BY Zenon DEF Init
  <2>4. loads \in 0 .. MaxLoads /\ events \in 0 .. MaxEvents
    BY DEF Init
  <2>5. QED BY <2>1, <2>2, <2>3, <2>4 DEF TypeOK
<1>3. LoadingIsOpen /\ UnbornIsNew
  BY DEF Init, LoadingIsOpen, UnbornIsNew
<1>4. QED BY <1>2, <1>3 DEF TypeInv

LEMMA EventType ==
  ASSUME NEW t \in Tabs, NEW blocked \in BOOLEAN, NEW cookie \in Cookies \cup {NoCookie}
  PROVE  Event(t, blocked, cookie) \in Events
BY DEF Event, Events

LEMMA LaunchType ==
  ASSUME TypeInv, NEW t \in Tabs, NEW a \in Addresses, LaunchShell(t, a), UNCHANGED crashed
  PROVE  TypeInv'
<1> USE TabViewConstants
<1>1. /\ phase[t] = "unborn" /\ \A s \in Tabs : address[s] # a
      /\ phase' = [phase EXCEPT ![t] = "open"] /\ address' = [address EXCEPT ![t] = a]
      /\ UNCHANGED <<loading, committed, loads, log_, view, ask, events, looking, written,
                     callbacks, allowed, consents>>
  BY DEF LaunchShell, pages, logs, network, certs
<1>2. TypeOK'
  BY <1>1 DEF TypeInv, TypeOK, Open
<1>3. LoadingIsOpen' /\ UnbornIsNew'
  BY <1>1 DEF TypeInv, TypeOK, LoadingIsOpen, UnbornIsNew, Open
<1>4. QED BY <1>2, <1>3 DEF TypeInv

LEMMA CloseType ==
  ASSUME TypeInv, NEW t \in Tabs, Close(t), UNCHANGED crashed
  PROVE  TypeInv'
<1> USE TabViewConstants
<1>1. /\ phase[t] = "open"
      /\ phase' = [phase EXCEPT ![t] = "closed"] /\ address' = [address EXCEPT ![t] = Freed]
      /\ loading' = [loading EXCEPT ![t] = Idle] /\ log_' = [log_ EXCEPT ![t] = {}]
      /\ ask' = [ask EXCEPT ![t] = {}]
      /\ UNCHANGED <<committed, loads, view, events, looking, written,
                     callbacks, allowed, consents>>
  BY DEF Close, Open, network, certs
<1>2. Idle \in Loads
  BY DEF Idle, Loads
<1>3. TypeOK'
  BY <1>1, <1>2 DEF TypeInv, TypeOK, Open
<1>4. LoadingIsOpen' /\ UnbornIsNew'
  BY <1>1 DEF TypeInv, TypeOK, LoadingIsOpen, UnbornIsNew, Open
<1>5. QED BY <1>3, <1>4 DEF TypeInv

LEMMA LoadType ==
  ASSUME TypeInv, NEW t \in Tabs, NEW url \in Urls, LoadURL(t, url), UNCHANGED crashed
  PROVE  TypeInv'
<1> USE TabViewConstants
<1>1. /\ Open(t) /\ loads < MaxLoads /\ loads' = loads + 1
      /\ loading' = [loading EXCEPT ![t] =
                       [number |-> loads + 1, url |-> url, state |-> "started"]]
      /\ UNCHANGED <<phase, address, committed, log_, view, ask, events, looking, written,
                     callbacks, allowed, consents>>
  BY DEF LoadURL, tabs, logs, network, certs
<1>2. loads + 1 \in 1 .. MaxLoads
  BY <1>1 DEF TypeInv, TypeOK
<1>3. [number |-> loads + 1, url |-> url, state |-> "started"] \in Loads
  BY <1>2 DEF Loads
<1>4. TypeOK'
  BY <1>1, <1>2, <1>3 DEF TypeInv, TypeOK, Open
<1>5. LoadingIsOpen' /\ UnbornIsNew'
  BY <1>1, <1>2 DEF TypeInv, TypeOK, LoadingIsOpen, UnbornIsNew, Open
<1>6. QED BY <1>4, <1>5 DEF TypeInv

LEMMA NavigateType ==
  ASSUME TypeInv, NEW t \in Tabs, DidNavigateMainFrame(t) \/ NavigateInPage(t), UNCHANGED crashed
  PROVE  TypeInv'
<1> USE TabViewConstants
<1>1. CASE DidNavigateMainFrame(t)
  <2>1. loading[t] # Idle
    BY <1>1 DEF DidNavigateMainFrame, Idle
  <2>2. Open(t) /\ loading[t].url \in Urls /\ Idle \in Loads
    BY <2>1 DEF TypeInv, LoadingIsOpen, Idle, Loads
  <2>a. view' = [view EXCEPT ![t] = [view[t] EXCEPT !.url = loading[t].url]]
    BY <1>1 DEF DidNavigateMainFrame
  <2>b. [view[t] EXCEPT !.url = loading[t].url] \in Views
    <3>1. view[t] \in Views /\ loading[t].url \in Urls \cup {NoUrl}
      BY <2>2 DEF TypeInv, TypeOK
    <3>2. QED BY <3>1 DEF Views
  <2>c. view' \in [Tabs -> Views] /\ committed' \in [Tabs -> Urls \cup {NoUrl}]
    BY <1>1, <2>2, <2>a, <2>b DEF DidNavigateMainFrame, TypeInv, TypeOK
  <2>3. TypeOK'
    BY <1>1, <2>2, <2>c
       DEF TypeInv, TypeOK, Open, DidNavigateMainFrame, tabs, network, certs
  <2>4. LoadingIsOpen' /\ UnbornIsNew'
    BY <1>1, <2>2 DEF TypeInv, TypeOK, LoadingIsOpen, UnbornIsNew, Open, DidNavigateMainFrame, tabs
  <2>5. QED BY <2>3, <2>4 DEF TypeInv
<1>2. CASE NavigateInPage(t)
  BY <1>2 DEF TypeInv, TypeOK, LoadingIsOpen, UnbornIsNew, Open, NavigateInPage, tabs, pages,
              network, certs
<1>3. QED BY <1>1, <1>2

LEMMA AskType ==
  ASSUME TypeInv, NEW t \in Tabs, GetLog(t) \/ GetSSLStatus(t), UNCHANGED crashed
  PROVE  TypeInv'
<1>1. Open(t)
  BY DEF TypeInv, TypeOK, GetLog, GetSSLStatus
<1>2. Insecure(committed[t]) \in BOOLEAN
  BY DEF Insecure
<1>a. view[t] \in Views /\ log_[t] \in SUBSET Events
  BY DEF TypeInv, TypeOK
<1>b. ASSUME GetLog(t) PROVE TypeOK'
  <2>1. [view[t] EXCEPT !.log = log_[t]] \in Views
    BY <1>a DEF Views
  <2>2. view' = [view EXCEPT ![t] = [view[t] EXCEPT !.log = log_[t]]]
    BY <1>b DEF GetLog
  <2>3. view' \in [Tabs -> Views]
    BY <2>1, <2>2 DEF TypeInv, TypeOK
  <2>4. QED BY <1>1, <1>b, <2>3 DEF GetLog, TypeInv, TypeOK, Open, tabs, pages, network, certs
<1>c. ASSUME GetSSLStatus(t) PROVE TypeOK'
  <2>1. [view[t] EXCEPT !.insecure = Insecure(committed[t])] \in Views
    BY <1>2, <1>a DEF Views
  <2>2. view' = [view EXCEPT ![t] = [view[t] EXCEPT !.insecure = Insecure(committed[t])]]
    BY <1>c DEF GetSSLStatus
  <2>3. view' \in [Tabs -> Views]
    BY <2>1, <2>2 DEF TypeInv, TypeOK
  <2>4. QED BY <1>1, <1>c, <2>3 DEF GetSSLStatus, TypeInv, TypeOK, Open, tabs, pages, network, certs
<1>3. TypeOK'
  BY <1>b, <1>c
<1>4. LoadingIsOpen' /\ UnbornIsNew'
  BY <1>1 DEF TypeInv, TypeOK, LoadingIsOpen, UnbornIsNew, Open, GetLog, GetSSLStatus, tabs, pages
<1>5. QED BY <1>3, <1>4 DEF TypeInv

LEMMA ErrorType ==
  ASSUME TypeInv, NEW t \in Tabs, AllowCertificateError(t), UNCHANGED crashed
  PROVE  TypeInv'
<1> USE TabViewConstants
<1>1. loading[t] # Idle
  BY DEF AllowCertificateError, Idle
<1>2. loading[t].url \in Urls /\ loading[t].number \in 1 .. MaxLoads /\ Open(t)
  BY <1>1 DEF TypeInv, LoadingIsOpen
<1>3. callbacks' \subseteq AceCbs
  BY <1>2 DEF AllowCertificateError, AceCbs, TypeInv, TypeOK
<1>4. loading' = [loading EXCEPT ![t].state = "asked"]
  BY DEF AllowCertificateError
<1>a. loading' = [loading EXCEPT ![t] = [loading[t] EXCEPT !.state = "asked"]]
  BY <1>4
<1>b. [loading[t] EXCEPT !.state = "asked"] \in Loads
  <2>1. loading[t] \in Loads
    BY DEF TypeInv, TypeOK
  <2>2. QED BY <2>1 DEF Loads
<1>5. loading' \in [Tabs -> Loads]
  BY <1>a, <1>b DEF TypeInv, TypeOK
<1>6. TypeOK'
  BY <1>3, <1>5 DEF TypeInv, TypeOK, Open, AllowCertificateError, tabs, logs, network
<1>7. LoadingIsOpen'
  BY <1>1, <1>2, <1>4 DEF AllowCertificateError, TypeInv, TypeOK, LoadingIsOpen, Loads, Open, tabs
<1>8. UnbornIsNew'
  BY DEF AllowCertificateError, TypeInv, UnbornIsNew, tabs, logs
<1>9. QED BY <1>6, <1>7, <1>8 DEF TypeInv

LEMMA ResponseType ==
  ASSUME TypeInv, NEW cb \in callbacks, NEW allow \in BOOLEAN,
         AllowCertificateErrorResponse(cb, allow), UNCHANGED crashed
  PROVE  TypeInv'
<1> USE TabViewConstants
<1>1. PICK t \in Tabs : t = cb.tab
  BY DEF TypeInv, TypeOK, AceCbs
<1>2. cb.number \in 1 .. MaxLoads /\ cb.url \in Urls
  BY DEF TypeInv, TypeOK, AceCbs
<1>3. allowed' \subseteq Sites /\ consents' \subseteq Sites /\ callbacks' \subseteq AceCbs
  BY <1>2 DEF AllowCertificateErrorResponse, RunAceCb, TypeInv, TypeOK, Sites
<1>4. Idle \in Loads /\ Idle.number = 0
  BY DEF Idle, Loads
<1>5. /\ loading' = IF loading[t].number # cb.number THEN loading
                    ELSE [loading EXCEPT ![t] = IF allow THEN [@ EXCEPT !.state = "started"]
                                                ELSE Idle]
  BY <1>1 DEF AllowCertificateErrorResponse, RunAceCb
<1>6. loading' \in [Tabs -> Loads] /\ LoadingIsOpen'
  <2>0. UNCHANGED phase
    BY DEF AllowCertificateErrorResponse, tabs
  <2>1. CASE loading[t].number # cb.number
    BY <1>5, <2>0, <2>1 DEF TypeInv, TypeOK, LoadingIsOpen, Open
  <2>2. CASE loading[t].number = cb.number /\ allow
    <3>1. loading[t] # Idle
      BY <1>2, <1>4, <2>2
    <3>2. loading' = [loading EXCEPT ![t] = [loading[t] EXCEPT !.state = "started"]]
      BY <1>5, <2>2
    <3>a. loading[t] \in Loads
      BY DEF TypeInv, TypeOK
    <3>3. [loading[t] EXCEPT !.state = "started"] \in Loads
      BY <3>a DEF Loads
    <3>4. QED BY <2>0, <3>1, <3>2, <3>3 DEF TypeInv, TypeOK, LoadingIsOpen, Open, Loads
  <2>3. CASE loading[t].number = cb.number /\ ~allow
    BY <1>4, <1>5, <2>0, <2>3 DEF TypeInv, TypeOK, LoadingIsOpen, Open
  <2>4. QED BY <2>1, <2>2, <2>3
<1>7. TypeOK'
  BY <1>3, <1>6 DEF TypeInv, TypeOK, Open, AllowCertificateErrorResponse, tabs, logs, network
<1>8. UnbornIsNew'
  BY DEF AllowCertificateErrorResponse, TypeInv, UnbornIsNew, tabs, logs
<1>9. QED BY <1>6, <1>7, <1>8 DEF TypeInv

LEMMA LogType ==
  ASSUME TypeInv, NEW t \in Tabs, LogEvent(t), UNCHANGED crashed
  PROVE  TypeInv'
<1> USE TabViewConstants
<1>1. Event(t, TRUE, NoCookie) \in Events
  BY EventType
<1>a. /\ log_' = [log_ EXCEPT ![t] = @ \cup {Event(t, TRUE, NoCookie)}]
      /\ ask' = [ask EXCEPT ![t] = @ \cup {"log"}]
  BY DEF LogEvent
<1>b. log_[t] \cup {Event(t, TRUE, NoCookie)} \in SUBSET Events
  BY <1>1 DEF TypeInv, TypeOK
<1>c. ask[t] \cup {"log"} \in SUBSET {"ssl", "log"}
  BY DEF TypeInv, TypeOK
<1>d. log_' \in [Tabs -> SUBSET Events]
  BY <1>a, <1>b DEF TypeInv, TypeOK
<1>e. ask' \in [Tabs -> SUBSET {"ssl", "log"}]
  BY <1>a, <1>c DEF TypeInv, TypeOK
<1>f. Open(t) /\ events' \in 0 .. MaxEvents
  BY DEF LogEvent, TypeInv, TypeOK
<1>2. TypeOK'
  BY <1>a, <1>d, <1>e, <1>f DEF LogEvent, TypeInv, TypeOK, Open, tabs, pages, network, certs
<1>3. LoadingIsOpen' /\ UnbornIsNew'
  BY DEF LogEvent, TypeInv, TypeOK, LoadingIsOpen, UnbornIsNew, Open, tabs, pages
<1>4. QED BY <1>2, <1>3 DEF TypeInv

LEMMA FoundType ==
  ASSUME TypeInv, NEW t \in Tabs, NEW event \in Events, ForURLRequest(t, event),
         written' \subseteq Cookies, UNCHANGED crashed
  PROVE  TypeInv'
<1> USE TabViewConstants
<1>1. looking' \in Found
  BY DEF ForURLRequest, Found, TypeInv, TypeOK, Open
<1>2. TypeOK'
  BY <1>1 DEF ForURLRequest, TypeInv, TypeOK, Open, tabs, pages, certs
<1>3. LoadingIsOpen' /\ UnbornIsNew'
  BY DEF ForURLRequest, TypeInv, TypeOK, LoadingIsOpen, UnbornIsNew, Open, tabs, pages
<1>4. QED BY <1>2, <1>3 DEF TypeInv

\* Nothing but cookies.
LEMMA WrittenType ==
  ASSUME TypeInv, UNCHANGED crashed, written' \subseteq Cookies,
         UNCHANGED <<tabs, pages, logs, looking, certs>>
  PROVE  TypeInv'
<1>1. TypeOK'
  BY DEF TypeInv, TypeOK, Open, tabs, pages, logs, certs
<1>2. LoadingIsOpen' /\ UnbornIsNew'
  BY DEF TypeInv, LoadingIsOpen, UnbornIsNew, Open, tabs, pages, logs
<1>3. QED BY <1>1, <1>2 DEF TypeInv

LEMMA IoType ==
  ASSUME TypeInv, NEW t \in Tabs, UNCHANGED crashed,
         \/ \E blocked \in BOOLEAN : OnBeforeURLRequest(t, blocked)
         \/ OnCanAccessFile(t)
         \/ \E c \in Cookies : OnCanSetCookie(t, c)
  PROVE  TypeInv'
<1>0. written \subseteq Cookies /\ NoCookie \in Cookies \cup {NoCookie}
  BY DEF TypeInv, TypeOK
<1>1. ASSUME NEW blocked \in BOOLEAN, OnBeforeURLRequest(t, blocked) PROVE TypeInv'
  <2>1. Event(t, blocked, NoCookie) \in Events
    BY EventType
  <2>2. QED BY <1>0, <1>1, <2>1, FoundType DEF OnBeforeURLRequest
<1>2. ASSUME OnCanAccessFile(t) PROVE TypeInv'
  <2>1. Event(t, TRUE, NoCookie) \in Events
    BY EventType
  <2>2. QED BY <1>0, <1>2, <2>1, FoundType DEF OnCanAccessFile
<1>3. ASSUME NEW c \in Cookies, OnCanSetCookie(t, c) PROVE TypeInv'
  <2>1. (~CanSetCookie(c)) \in BOOLEAN
    BY Zenon
  <2>2. Event(t, ~CanSetCookie(c), c) \in Events
    BY <2>1, EventType
  <2>3. written' \subseteq Cookies
    BY <1>0, <1>3 DEF OnCanSetCookie
  <2>4. CASE ForURLRequest(t, Event(t, ~CanSetCookie(c), c))
    BY <2>2, <2>3, <2>4, FoundType
  <2>5. CASE ForURLRequestNull
    BY <2>3, <2>5, WrittenType DEF ForURLRequestNull
  <2>6. QED BY <1>3, <2>4, <2>5 DEF OnCanSetCookie
<1>4. QED BY <1>1, <1>2, <1>3

LEMMA NotifyType ==
  ASSUME TypeInv, AddEvent \/ Notify, UNCHANGED crashed
  PROVE  TypeInv'
<1> USE TabViewConstants
<1>0. ASSUME looking # NoCallback
      PROVE  looking.address \in Addresses /\ looking.event \in Events
  BY <1>0 DEF TypeInv, TypeOK, Found
<1>a. \A t \in Tabs : Open(t) <=> address[t] # Freed
  BY DEF TypeInv, TypeOK
<1>1. CASE AddEvent
  <2>1. looking # NoCallback /\ looking \in Found
    BY <1>1 DEF AddEvent, TypeInv, TypeOK
  <2>2. looking' \in Found
    BY <1>1, <2>1 DEF AddEvent, Found
  <2>3. log_' \in [Tabs -> SUBSET Events]
    BY <1>0, <1>1, <2>1 DEF AddEvent, TypeInv, TypeOK
  <2>4. TypeOK'
    BY <1>1, <2>2, <2>3 DEF AddEvent, TypeInv, TypeOK, Open, tabs, pages, certs
  <2>5. \A t \in Tabs : phase[t] = "unborn" => address[t] # looking.address
    BY <1>0, <1>a, <2>1 DEF Open
  <2>6. LoadingIsOpen' /\ UnbornIsNew'
    BY <1>1, <2>5 DEF AddEvent, TypeInv, TypeOK, LoadingIsOpen, UnbornIsNew, Open, tabs, pages
  <2>7. QED BY <2>4, <2>6 DEF TypeInv
<1>2. CASE Notify
  <2>1. looking # NoCallback
    BY <1>2 DEF Notify
  <2>2. ask' = [t \in Tabs |-> IF address[t] = looking.address THEN ask[t] \cup {"log"} ELSE ask[t]]
    BY <1>2 DEF Notify
  <2>3. ask' \in [Tabs -> SUBSET {"ssl", "log"}]
    BY <2>2 DEF TypeInv, TypeOK
  <2>4. \A t \in Tabs : ask'[t] # {} => Open(t)
    BY <1>0, <1>a, <2>1, <2>2 DEF TypeInv, TypeOK
  <2>5. TypeOK'
    BY <1>2, <2>3, <2>4 DEF Notify, TypeInv, TypeOK, Open, tabs, pages, certs
  <2>6. LoadingIsOpen' /\ UnbornIsNew'
    BY <1>2 DEF Notify, TypeInv, LoadingIsOpen, UnbornIsNew, Open, tabs, pages
  <2>7. QED BY <2>5, <2>6 DEF TypeInv
<1>3. QED BY <1>1, <1>2

\* Load, OpenURLFromTab and Reload are one step of the controller.
LEMMA LoadIsLoadURL ==
  ASSUME TypeInv, NEW t \in Tabs,
         \/ \E as_desktop \in BOOLEAN : Reload(t, as_desktop)
         \/ \E url \in Urls : Load(t, url) \/ OpenURLFromTab(t, url)
  PROVE  \E url \in Urls : LoadURL(t, url)
<1>1. ASSUME NEW as_desktop \in BOOLEAN, Reload(t, as_desktop)
      PROVE  \E url \in Urls : LoadURL(t, url)
  <2>1. loading[t].url \in Urls \cup {NoUrl} /\ committed[t] \in Urls \cup {NoUrl}
    BY DEF TypeInv, TypeOK, Loads
  <2>2. QED BY <1>1, <2>1 DEF Reload, ActiveUrl, CurrentUrl
<1>2. QED BY <1>1 DEF Load, OpenURLFromTab

LEMMA CrashType == ASSUME TypeInv, Crash PROVE TypeInv'
<1> USE TabViewConstants
<1>1. Idle \in Loads /\ NewView \in Views
  BY DEF Idle, Loads, NewView, Views
<1>2. TypeOK'
  BY <1>1 DEF Crash, TypeInv, TypeOK, Open
<1>3. LoadingIsOpen' /\ UnbornIsNew'
  BY DEF Crash, LoadingIsOpen, UnbornIsNew
<1>4. QED BY <1>2, <1>3 DEF TypeInv

LEMMA TypeStep == TypeInv /\ [Next]_vars => TypeInv'
<1> SUFFICES ASSUME TypeInv, [Next]_vars PROVE TypeInv'
  OBVIOUS
<1>1. ASSUME UNCHANGED vars PROVE TypeInv'
  BY <1>1 DEF vars, TypeInv, TypeOK, LoadingIsOpen, UnbornIsNew, Open
<1>2. ASSUME Step, UNCHANGED crashed PROVE TypeInv'
  <2>1. ASSUME NEW t \in Tabs,
               \/ \E as_desktop \in BOOLEAN : Reload(t, as_desktop)
               \/ \E url \in Urls : Load(t, url) \/ OpenURLFromTab(t, url)
        PROVE  TypeInv'
    BY <1>2, <2>1, LoadIsLoadURL, LoadType
  <2>2. ASSUME NEW t \in Tabs, RequestGeolocationPermission(t) PROVE TypeInv'
    BY <1>2, <2>2, LogType DEF RequestGeolocationPermission
  <2>3. ASSUME NEW t \in Tabs, NEW c \in Cookies, OnCanSetCookie(t, c) PROVE TypeInv'
    BY <1>2, <2>3, IoType
  <2>4. ASSUME NEW c \in Cookies, AllowSetCookie(c) PROVE TypeInv'
    BY <1>2, <2>4, WrittenType DEF AllowSetCookie, TypeInv, TypeOK
  <2>5. QED
    BY <1>2, <2>1, <2>2, <2>3, <2>4, LaunchType, CloseType, NavigateType, AskType, ErrorType,
       ResponseType, IoType, NotifyType DEF Step
<1>3. ASSUME NEW t \in Tabs, SubResourceError(t) PROVE TypeInv'
  BY <1>3, LogType, CrashType DEF SubResourceError
<1>4. QED BY <1>1, <1>2, <1>3 DEF Next

\* Types, and no two open tabs at one address.
THEOREM TabViewTypes == Spec => []TypeOK
<1>1. TypeInv => TypeOK
  BY DEF TypeInv
<1>2. QED BY <1>1, InitType, TypeStep, PTL DEF Spec

-----------------------------------------------------------------------------
(* Consent *)

\* The engine passes what the user has consented to, and no other site's page.
ConsentInv == allowed \subseteq consents /\ ConsentIsForThisSite

LEMMA ConsentStep == TypeInv /\ ConsentInv /\ [Next]_vars => ConsentInv'
<1> SUFFICES ASSUME TypeInv, ConsentInv, [Next]_vars PROVE ConsentInv'
  OBVIOUS
<1> USE DEF ConsentInv, ConsentIsForThisSite
<1>1. ASSUME NEW t \in Tabs, DidNavigateMainFrame(t) PROVE ConsentInv'
  BY <1>1 DEF DidNavigateMainFrame, Passes, certs, TypeInv, TypeOK
<1>2. ASSUME NEW cb \in callbacks, NEW allow \in BOOLEAN,
             AllowCertificateErrorResponse(cb, allow)
      PROVE  ConsentInv'
  BY <1>2 DEF AllowCertificateErrorResponse, RunAceCb
<1>3. ASSUME UNCHANGED <<committed, allowed, consents>> PROVE ConsentInv'
  BY <1>3
<1>4. QED
  BY <1>1, <1>2, <1>3
     DEF Next, Step, LaunchShell, Close, LoadURL, Load, OpenURLFromTab, Reload, NavigateInPage,
         GetLog, GetSSLStatus, AllowCertificateError, LogEvent, RequestGeolocationPermission,
         SubResourceError, Crash, ForURLRequest, ForURLRequestNull, OnBeforeURLRequest,
         OnCanAccessFile, OnCanSetCookie, AllowSetCookie, AddEvent, Notify, pages, certs, vars

\* A page behind a broken certificate is shown only after the user let its site pass
\* (AllowCertificateErrorResponse runs the callback it is given the address of).
THEOREM ConsentSafety == Spec => []ConsentIsForThisSite
<1>1. Init => ConsentInv
  BY DEF Init, ConsentInv, ConsentIsForThisSite
<1>2. ConsentInv => ConsentIsForThisSite
  BY DEF ConsentInv
<1>3. QED BY <1>1, <1>2, ConsentStep, InitType, TypeStep, PTL DEF Spec

-----------------------------------------------------------------------------
(* The log *)

\* An event is true of the tab at address a.
TrueAt(e, a) ==
  /\ phase[e.of] = "closed" \/ (Open(e.of) /\ address[e.of] = a)
  /\ e.cookie # NoCookie /\ e.is_blocked => ~CanSetCookie(e.cookie)

LogInv ==
  /\ \A t \in Tabs : \A e \in log_[t] : TrueAt(e, address[t])
  /\ looking # NoCallback => TrueAt(looking.event, looking.address)
  /\ \A c \in written : CanSetCookie(c)

LEMMA LogSafe == TypeInv /\ LogInv => LogIsTrue
<1> SUFFICES ASSUME TypeInv, LogInv, NEW t \in Tabs, NEW e \in log_[t]
             PROVE  /\ e.of = t \/ phase[e.of] = "closed"
                    /\ e.cookie # NoCookie /\ e.is_blocked => e.cookie \notin written
  BY DEF LogIsTrue
<1>1. e.of \in Tabs
  BY DEF TypeInv, TypeOK, Events
<1>2. QED BY <1>1 DEF LogInv, TrueAt, TypeInv, TypeOK

\* What an action does to the tabs keeps what is true of an address: a tab that is
\* open stays where it is until it is closed for good.
TabsStep ==
  \/ UNCHANGED tabs
  \/ \E t \in Tabs, a \in Addresses :
       phase[t] = "unborn" /\ phase' = [phase EXCEPT ![t] = "open"]
         /\ address' = [address EXCEPT ![t] = a]
  \/ \E t \in Tabs :
       Open(t) /\ phase' = [phase EXCEPT ![t] = "closed"]
         /\ address' = [address EXCEPT ![t] = Freed]

LEMMA TrueStays ==
  ASSUME TypeInv, TabsStep, NEW e \in Events, NEW a, TrueAt(e, a)
  PROVE  TrueAt(e, a)'
<1>1. e.of \in Tabs
  BY DEF Events
<1>2. phase'[e.of] = "closed" \/ (phase'[e.of] = "open" /\ address'[e.of] = a)
  <2>1. CASE UNCHANGED tabs
    BY <2>1 DEF TrueAt, Open, tabs
  <2>2. ASSUME NEW t \in Tabs, NEW b \in Addresses, phase[t] = "unborn",
               phase' = [phase EXCEPT ![t] = "open"], address' = [address EXCEPT ![t] = b]
        PROVE  phase'[e.of] = "closed" \/ (phase'[e.of] = "open" /\ address'[e.of] = a)
    BY <1>1, <2>2 DEF TrueAt, Open, TypeInv, TypeOK
  <2>3. ASSUME NEW t \in Tabs, Open(t), phase' = [phase EXCEPT ![t] = "closed"],
               address' = [address EXCEPT ![t] = Freed]
        PROVE  phase'[e.of] = "closed" \/ (phase'[e.of] = "open" /\ address'[e.of] = a)
    BY <1>1, <2>3 DEF TrueAt, Open, TypeInv, TypeOK
  <2>4. QED BY <2>1, <2>2, <2>3 DEF TabsStep
<1>3. QED BY <1>2 DEF TrueAt, Open

\* The three ways the parts of LogInv are carried over a step.
LEMMA LogKept ==
  ASSUME TypeInv, TypeInv', LogInv, TabsStep,
         \A t \in Tabs : \A e \in log_'[t] : e \in log_[t] /\ address'[t] = address[t]
  PROVE  \A t \in Tabs : \A e \in log_'[t] : TrueAt(e, address[t])'
<1> SUFFICES ASSUME NEW t \in Tabs, NEW e \in log_'[t] PROVE TrueAt(e, address[t])'
  OBVIOUS
<1>1. e \in log_[t] /\ e \in Events /\ address'[t] = address[t] /\ TrueAt(e, address[t])
  BY DEF LogInv, TypeInv, TypeOK
<1>2. PICK a : a = address[t]
  OBVIOUS
<1>3. TrueAt(e, a)'
  BY <1>1, <1>2, TrueStays
<1>4. QED BY <1>1, <1>2, <1>3 DEF TrueAt

\* The steps that neither log nor write a cookie: a tab's log is kept or cleared.
LEMMA LogUntouched ==
  ASSUME TypeInv, TypeInv', LogInv, TabsStep, UNCHANGED <<looking, written>>,
         \A t \in Tabs : \A e \in log_'[t] : e \in log_[t] /\ address'[t] = address[t]
  PROVE  LogInv'
<1>1. \A t \in Tabs : \A e \in log_'[t] : TrueAt(e, address[t])'
  BY LogKept
<1>2. ASSUME looking # NoCallback PROVE TrueAt(looking.event, looking.address)'
  <2>1. looking.event \in Events /\ TrueAt(looking.event, looking.address)
    BY <1>2 DEF LogInv, TypeInv, TypeOK, Found
  <2>2. PICK e \in Events, a \in {looking.address} : e = looking.event
    BY <2>1
  <2>3. TrueAt(e, a)'
    BY <2>1, <2>2, TrueStays
  <2>4. QED BY <2>2, <2>3 DEF TrueAt
<1>3. QED BY <1>1, <1>2 DEF LogInv

\* The tabs of the UI thread.
LEMMA LogTabs ==
  ASSUME TypeInv, TypeInv', LogInv, NEW t \in Tabs,
         (\E a \in Addresses : LaunchShell(t, a)) \/ Close(t)
  PROVE  LogInv'
<1>1. ASSUME NEW a \in Addresses, LaunchShell(t, a) PROVE LogInv'
  <2>1. TabsStep
    BY <1>1 DEF LaunchShell, TabsStep
  <2>2. \A s \in Tabs : \A e \in log_'[s] : e \in log_[s] /\ address'[s] = address[s]
    BY <1>1 DEF LaunchShell, logs, TypeInv, TypeOK, UnbornIsNew
  <2>3. QED BY <1>1, <2>1, <2>2, LogUntouched DEF LaunchShell, network
<1>2. CASE Close(t)
  <2>1. TabsStep
    BY <1>2 DEF Close, TabsStep
  <2>2. \A s \in Tabs : \A e \in log_'[s] : e \in log_[s] /\ address'[s] = address[s]
    BY <1>2 DEF Close, TypeInv, TypeOK
  <2>3. QED BY <1>2, <2>1, <2>2, LogUntouched DEF Close, network
<1>3. QED BY <1>1, <1>2

\* The UI thread logs with the tab in hand.
LEMMA LogOnUI ==
  ASSUME TypeInv, TypeInv', LogInv, NEW t \in Tabs, LogEvent(t)
  PROVE  LogInv'
<1>1. UNCHANGED <<phase, address, looking, written>>
      /\ log_' = [log_ EXCEPT ![t] = @ \cup {Event(t, TRUE, NoCookie)}] /\ Open(t)
  BY DEF LogEvent, tabs, network
<1>2. TrueAt(Event(t, TRUE, NoCookie), address[t])
  BY <1>1 DEF TrueAt, Event
<1>3. \A s \in Tabs : \A e \in log_'[s] : TrueAt(e, address[s])
  BY <1>1, <1>2 DEF LogInv, TypeInv, TypeOK
<1>4. QED BY <1>1, <1>3 DEF LogInv, TrueAt, Open

\* The IO thread finds the tab of the event's page.
LEMMA LogFound ==
  ASSUME TypeInv, TypeInv', LogInv, NEW t \in Tabs, NEW event, ForURLRequest(t, event),
         event.of = t,
         event.cookie # NoCookie /\ event.is_blocked => ~CanSetCookie(event.cookie),
         \A c \in written' : CanSetCookie(c)
  PROVE  LogInv'
<1>1. UNCHANGED <<phase, address, log_>> /\ Open(t)
      /\ looking' = [address |-> address[t], event |-> event, stage |-> "found"]
  BY DEF ForURLRequest, tabs
<1>2. TrueAt(event, address[t])
  BY <1>1 DEF TrueAt
<1>3. QED BY <1>1, <1>2 DEF LogInv, TrueAt, Open

\* A cookie is set, or not, and nothing else happens.
LEMMA LogWritten ==
  ASSUME LogInv, NEW c \in Cookies, UNCHANGED <<tabs, log_, looking>>,
         written' = IF CanSetCookie(c) THEN written \cup {c} ELSE written
  PROVE  LogInv'
<1>1. UNCHANGED <<phase, address, log_, looking>> /\ \A d \in written' : CanSetCookie(d)
  BY DEF LogInv, tabs
<1>2. QED BY <1>1 DEF LogInv, TrueAt, Open

LEMMA LogOnIO ==
  ASSUME TypeInv, TypeInv', LogInv, NEW t \in Tabs,
         \/ \E blocked \in BOOLEAN : OnBeforeURLRequest(t, blocked)
         \/ OnCanAccessFile(t)
         \/ \E c \in Cookies : OnCanSetCookie(t, c)
  PROVE  LogInv'
<1>0. \A c \in written : CanSetCookie(c)
  BY DEF LogInv
<1>1. ASSUME NEW blocked \in BOOLEAN, OnBeforeURLRequest(t, blocked) PROVE LogInv'
  BY <1>0, <1>1, LogFound DEF OnBeforeURLRequest, Event
<1>2. ASSUME OnCanAccessFile(t) PROVE LogInv'
  BY <1>0, <1>2, LogFound DEF OnCanAccessFile, Event
<1>3. ASSUME NEW c \in Cookies, OnCanSetCookie(t, c) PROVE LogInv'
  <2> DEFINE event == Event(t, ~CanSetCookie(c), c)
  <2>1. /\ ForURLRequest(t, event) \/ ForURLRequestNull
        /\ written' = IF CanSetCookie(c) THEN written \cup {c} ELSE written
    BY <1>3 DEF OnCanSetCookie
  <2>2. event.of = t /\ event.cookie = c /\ (event.is_blocked <=> ~CanSetCookie(c))
    BY DEF Event
  <2> HIDE DEF event
  <2>3. CASE ForURLRequest(t, event)
    BY <1>0, <2>1, <2>2, <2>3, LogFound
  <2>4. CASE ForURLRequestNull
    BY <2>1, <2>4, LogWritten DEF ForURLRequestNull, logs
  <2>5. QED BY <2>1, <2>3, <2>4
<1>4. QED BY <1>1, <1>2, <1>3

LEMMA LogAddEvent == ASSUME TypeInv, TypeInv', LogInv, AddEvent PROVE LogInv'
<1>1. /\ UNCHANGED <<phase, address, written>> /\ looking # NoCallback
      /\ log_' = [t \in Tabs |-> IF address[t] = looking.address
                                   THEN log_[t] \cup {looking.event} ELSE log_[t]]
      /\ looking'.event = looking.event /\ looking'.address = looking.address
  BY DEF AddEvent, tabs, TypeInv, TypeOK, Found
<1>2. TrueAt(looking.event, looking.address)
  BY <1>1 DEF LogInv
<1>3. \A t \in Tabs : \A e \in log_'[t] : TrueAt(e, address[t])
  BY <1>1, <1>2 DEF LogInv
<1>4. QED BY <1>1, <1>2, <1>3 DEF LogInv, TrueAt, Open

LEMMA LogStep == TypeInv /\ TypeInv' /\ LogInv /\ [Next]_vars => LogInv'
<1> SUFFICES ASSUME TypeInv, TypeInv', LogInv, [Next]_vars PROVE LogInv'
  OBVIOUS
<1>1. ASSUME UNCHANGED <<phase, address, log_, looking, written>> PROVE LogInv'
  BY <1>1 DEF LogInv, TrueAt, Open
<1>2. ASSUME NEW t \in Tabs, DidNavigateMainFrame(t) PROVE LogInv'
  <2>1. TabsStep
    BY <1>2 DEF DidNavigateMainFrame, TabsStep
  <2>2. \A s \in Tabs : \A e \in log_'[s] : e \in log_[s] /\ address'[s] = address[s]
    BY <1>2 DEF DidNavigateMainFrame, tabs, TypeInv, TypeOK
  <2>3. QED BY <1>2, <2>1, <2>2, LogUntouched DEF DidNavigateMainFrame, network
<1>3. ASSUME NEW t \in Tabs, RequestGeolocationPermission(t) \/ SubResourceError(t)
      PROVE  LogInv'
  <2>1. CASE LogEvent(t)
    BY <2>1, LogOnUI
  <2>2. CASE Crash
    BY <2>2 DEF Crash, LogInv
  <2>3. QED BY <1>3, <2>1, <2>2 DEF RequestGeolocationPermission, SubResourceError
<1>4. CASE UNCHANGED vars
  BY <1>1, <1>4 DEF vars
<1>5. CASE \E t \in Tabs : \/ NavigateInPage(t) \/ GetLog(t) \/ GetSSLStatus(t)
                           \/ AllowCertificateError(t)
                           \/ \E as_desktop \in BOOLEAN : Reload(t, as_desktop)
                           \/ \E url \in Urls : Load(t, url) \/ OpenURLFromTab(t, url)
  BY <1>1, <1>5 DEF Reload, Load, OpenURLFromTab, LoadURL, NavigateInPage, GetLog, GetSSLStatus,
                    AllowCertificateError, tabs, logs, network
<1>6. CASE \E cb \in callbacks, allow \in BOOLEAN : AllowCertificateErrorResponse(cb, allow)
  BY <1>1, <1>6 DEF AllowCertificateErrorResponse, tabs, logs, network
<1>7. CASE Notify
  <2>1. UNCHANGED <<phase, address, log_, written>> /\ looking' = NoCallback
    BY <1>7 DEF Notify, tabs
  <2>2. QED BY <2>1 DEF LogInv, TrueAt, Open
<1>8. CASE \E c \in Cookies : AllowSetCookie(c)
  BY <1>8, LogWritten DEF AllowSetCookie, logs
<1>9. QED
  BY <1>2, <1>3, <1>4, <1>5, <1>6, <1>7, <1>8, LogTabs, LogOnIO, LogAddEvent DEF Next, Step

\* What a tab's log says happened did: the event is of a page of this tab or of a tab
\* that is gone (the IO thread's LogEvent races with Shell::Close), and a cookie it
\* reports as refused was stored through neither door.
THEOREM LogSafety == Spec => []LogIsTrue
<1>1. Init => LogInv
  BY DEF Init, LogInv
<1>2. QED BY <1>1, LogSafe, LogStep, InitType, TypeStep, PTL DEF Spec

-----------------------------------------------------------------------------
(* The view *)

\* The IO thread has logged something at t's address and is about to say so.
Unnotified(t) ==
  looking # NoCallback /\ looking.stage = "logged" /\ looking.address = address[t]

\* Java shows the page's address, and the rest unless it is going to ask.
Shows(t) ==
  /\ view[t].url = committed[t]
  /\ "ssl" \notin ask[t] => view[t].insecure = Insecure(committed[t])
  /\ "log" \notin ask[t] /\ ~Unnotified(t) => view[t].log = log_[t]

ViewInv == \A t \in Tabs : phase[t] # "closed" => Shows(t)

LEMMA ViewSafe == TypeInv /\ ViewInv => ViewSettles
<1> SUFFICES ASSUME TypeInv, ViewInv, NEW t \in Tabs, Open(t), ask[t] = {}, ~Unnotified(t)
             PROVE  view[t] = [url |-> committed[t], insecure |-> Insecure(committed[t]),
                               log |-> log_[t]]
  BY DEF ViewSettles, Unnotified
<1>1. view[t] \in Views /\ Shows(t)
  BY DEF TypeInv, TypeOK, ViewInv, Open
<1>2. QED BY <1>1 DEF Shows, Views

\* A step that leaves a tab, what is shown of it and what is true of it alone.
LEMMA ShowsKept ==
  ASSUME NEW t, Shows(t), view'[t] = view[t], ask'[t] = ask[t], committed'[t] = committed[t],
         log_'[t] = log_[t], Unnotified(t) => Unnotified(t)'
  PROVE  Shows(t)'
BY DEF Shows, Insecure

LEMMA ViewTabs ==
  ASSUME TypeInv, TypeInv', ViewInv, NEW t \in Tabs,
         (\E a \in Addresses : LaunchShell(t, a)) \/ Close(t)
  PROVE  ViewInv'
<1> SUFFICES ASSUME NEW s \in Tabs, phase'[s] # "closed" PROVE Shows(s)'
  BY DEF ViewInv
<1>1. ASSUME NEW a \in Addresses, LaunchShell(t, a) PROVE Shows(s)'
  <2>1. /\ phase[t] = "unborn" /\ phase' = [phase EXCEPT ![t] = "open"]
        /\ address' = [address EXCEPT ![t] = a]
        /\ UNCHANGED <<view, ask, committed, log_, looking>>
    BY <1>1 DEF LaunchShell, pages, logs, network
  <2>2. CASE s = t
    <3>1. committed[t] = NoUrl /\ log_[t] = {} /\ view[t] = NewView
      BY <2>1 DEF TypeInv, UnbornIsNew
    <3>2. QED BY <2>1, <2>2, <3>1 DEF Shows, NewView, Insecure
  <2>3. CASE s # t
    <3>1. phase[s] # "closed" /\ address'[s] = address[s]
      BY <2>1, <2>3 DEF TypeInv, TypeOK
    <3>2. QED BY <2>1, <3>1, ShowsKept DEF ViewInv, Unnotified
  <2>4. QED BY <2>2, <2>3
<1>2. CASE Close(t)
  <2>1. /\ phase' = [phase EXCEPT ![t] = "closed"] /\ address' = [address EXCEPT ![t] = Freed]
        /\ log_' = [log_ EXCEPT ![t] = {}] /\ ask' = [ask EXCEPT ![t] = {}]
        /\ UNCHANGED <<view, committed, looking>>
    BY <1>2 DEF Close, network
  <2>2. s # t
    BY <2>1 DEF TypeInv, TypeOK
  <2>3. phase[s] # "closed" /\ address'[s] = address[s] /\ log_'[s] = log_[s]
        /\ ask'[s] = ask[s]
    BY <2>1, <2>2 DEF TypeInv, TypeOK
  <2>4. QED BY <2>1, <2>3, ShowsKept DEF ViewInv, Unnotified
<1>3. QED BY <1>1, <1>2

LEMMA ViewNavigates ==
  ASSUME TypeInv, TypeInv', ViewInv, NEW t \in Tabs,
         DidNavigateMainFrame(t) \/ NavigateInPage(t)
  PROVE  ViewInv'
<1> SUFFICES ASSUME NEW s \in Tabs, phase'[s] # "closed" PROVE Shows(s)'
  BY DEF ViewInv
<1>1. UNCHANGED <<phase, address, looking>>
  BY DEF DidNavigateMainFrame, NavigateInPage, tabs, network
<1>2. Shows(s)
  BY <1>1 DEF ViewInv
<1>3. ask'[t] = {"ssl", "log"}
  BY DEF DidNavigateMainFrame, NavigateInPage, TypeInv, TypeOK
<1>4. CASE s = t
  <2>1. view'[t].url = committed'[t]
    <3>1. CASE DidNavigateMainFrame(t)
      <4>1. view[t] \in Views
        BY DEF TypeInv, TypeOK
      <4>2. view'[t] = [view[t] EXCEPT !.url = loading[t].url]
            /\ committed'[t] = loading[t].url
        BY <3>1 DEF DidNavigateMainFrame, TypeInv, TypeOK
      <4>3. QED BY <4>1, <4>2 DEF Views
    <3>2. CASE NavigateInPage(t)
      BY <1>2, <1>4, <3>2 DEF NavigateInPage, pages, Shows
    <3>3. QED BY <3>1, <3>2
  <2>2. QED BY <1>3, <1>4, <2>1 DEF Shows
<1>5. CASE s # t
  <2>1. view'[s] = view[s] /\ ask'[s] = ask[s] /\ committed'[s] = committed[s]
        /\ log_'[s] = log_[s]
    BY <1>5 DEF DidNavigateMainFrame, NavigateInPage, pages, TypeInv, TypeOK
  <2>2. QED BY <1>1, <1>2, <2>1, ShowsKept DEF Unnotified
<1>6. QED BY <1>4, <1>5

LEMMA ViewAsks ==
  ASSUME TypeInv, TypeInv', ViewInv, NEW t \in Tabs, GetLog(t) \/ GetSSLStatus(t)
  PROVE  ViewInv'
<1> SUFFICES ASSUME NEW s \in Tabs, phase'[s] # "closed" PROVE Shows(s)'
  BY DEF ViewInv
<1>1. UNCHANGED <<phase, address, looking, committed, log_>>
  BY DEF GetLog, GetSSLStatus, tabs, pages, network
<1>2. Shows(s) /\ view[s] \in Views
  BY <1>1 DEF ViewInv, TypeInv, TypeOK
<1>3. CASE s # t
  <2>1. view'[s] = view[s] /\ ask'[s] = ask[s]
    BY <1>3 DEF GetLog, GetSSLStatus, TypeInv, TypeOK
  <2>2. QED BY <1>1, <1>2, <2>1, ShowsKept DEF Unnotified
<1>4. CASE s = t /\ GetLog(t)
  <2>1. view'[t] = [view[t] EXCEPT !.log = log_[t]] /\ ask'[t] = ask[t] \ {"log"}
    BY <1>4 DEF GetLog, TypeInv, TypeOK
  <2>2. view'[t].log = log_[t] /\ view'[t].url = view[t].url
        /\ view'[t].insecure = view[t].insecure
    BY <1>2, <1>4, <2>1 DEF Views
  <2>3. QED BY <1>1, <1>2, <1>4, <2>1, <2>2 DEF Shows, Insecure
<1>5. CASE s = t /\ GetSSLStatus(t)
  <2>1. view'[t] = [view[t] EXCEPT !.insecure = Insecure(committed[t])]
        /\ ask'[t] = ask[t] \ {"ssl"}
    BY <1>5 DEF GetSSLStatus, TypeInv, TypeOK
  <2>2. view'[t].insecure = Insecure(committed[t]) /\ view'[t].url = view[t].url
        /\ view'[t].log = view[t].log
    BY <1>2, <1>5, <2>1 DEF Views
  <2>3. QED BY <1>1, <1>2, <1>5, <2>1, <2>2 DEF Shows, Insecure, Unnotified
<1>6. QED BY <1>3, <1>4, <1>5

LEMMA ViewLogs ==
  ASSUME TypeInv, TypeInv', ViewInv, NEW t \in Tabs, LogEvent(t)
  PROVE  ViewInv'
<1> SUFFICES ASSUME NEW s \in Tabs, phase'[s] # "closed" PROVE Shows(s)'
  BY DEF ViewInv
<1>1. UNCHANGED <<phase, address, looking, committed, view>>
  BY DEF LogEvent, tabs, pages, network
<1>2. Shows(s)
  BY <1>1 DEF ViewInv
<1>3. CASE s = t
  <2>1. ask'[t] = ask[t] \cup {"log"}
    BY DEF LogEvent, TypeInv, TypeOK
  <2>2. QED BY <1>1, <1>2, <1>3, <2>1 DEF Shows, Insecure
<1>4. CASE s # t
  <2>1. ask'[s] = ask[s] /\ log_'[s] = log_[s]
    BY <1>4 DEF LogEvent, TypeInv, TypeOK
  <2>2. QED BY <1>1, <1>2, <2>1, ShowsKept DEF Unnotified
<1>5. QED BY <1>3, <1>4

\* The IO thread writes to the log of whoever is at the address, and then says so.
LEMMA ViewNotified ==
  ASSUME TypeInv, TypeInv', ViewInv, AddEvent \/ Notify
  PROVE  ViewInv'
<1> SUFFICES ASSUME NEW s \in Tabs, phase'[s] # "closed" PROVE Shows(s)'
  BY DEF ViewInv
<1>1. UNCHANGED <<phase, address, committed, view>> /\ looking # NoCallback
  BY DEF AddEvent, Notify, tabs, pages
<1>2. Shows(s)
  BY <1>1 DEF ViewInv
<1>3. CASE AddEvent
  <2>1. /\ looking'.stage = "logged" /\ looking'.address = looking.address
        /\ looking' # NoCallback /\ UNCHANGED ask /\ looking.stage = "found"
        /\ log_'[s] = IF address[s] = looking.address THEN log_[s] \cup {looking.event}
                      ELSE log_[s]
    <3>1. looking \in Found /\ looking' = [looking EXCEPT !.stage = "logged"]
      BY <1>3 DEF AddEvent, TypeInv, TypeOK
    <3>2. looking' # NoCallback
      <4>1. looking' \in Found
        BY <3>1 DEF Found
      <4>2. QED BY <4>1, NoCallbackIsNone
    <3>3. QED BY <1>3, <3>1, <3>2 DEF AddEvent, Found
  <2>2. CASE address[s] = looking.address
    <3>1. Unnotified(s)'
      BY <1>1, <2>1, <2>2 DEF Unnotified
    <3>2. QED BY <1>1, <1>2, <2>1, <3>1 DEF Shows, Insecure
  <2>3. CASE address[s] # looking.address
    BY <1>1, <1>2, <2>1, <2>3, ShowsKept DEF Unnotified
  <2>4. QED BY <2>2, <2>3
<1>4. CASE Notify
  <2>1. /\ looking' = NoCallback /\ UNCHANGED log_
        /\ ask'[s] = IF address[s] = looking.address THEN ask[s] \cup {"log"} ELSE ask[s]
    BY <1>4 DEF Notify
  <2>2. QED BY <1>1, <1>2, <2>1 DEF Shows, Insecure, Unnotified
<1>5. QED BY <1>3, <1>4

LEMMA ViewStep == TypeInv /\ TypeInv' /\ ViewInv /\ [Next]_vars => ViewInv'
<1> SUFFICES ASSUME TypeInv, TypeInv', ViewInv, [Next]_vars PROVE ViewInv'
  OBVIOUS
<1>1. ASSUME UNCHANGED <<phase, address, view, ask, committed, log_>>,
             looking' = looking \/ looking = NoCallback
      PROVE  ViewInv'
  BY <1>1, ShowsKept DEF ViewInv, Unnotified
<1>2. ASSUME NEW t \in Tabs, RequestGeolocationPermission(t) \/ SubResourceError(t)
      PROVE  ViewInv'
  <2>1. CASE LogEvent(t)
    BY <2>1, ViewLogs
  <2>2. CASE Crash
    BY <2>2 DEF Crash, ViewInv
  <2>3. QED BY <1>2, <2>1, <2>2 DEF RequestGeolocationPermission, SubResourceError
<1>3. CASE UNCHANGED vars
  BY <1>1, <1>3 DEF vars
<1>4. CASE \E t \in Tabs : \/ AllowCertificateError(t)
                           \/ \E as_desktop \in BOOLEAN : Reload(t, as_desktop)
                           \/ \E url \in Urls : Load(t, url) \/ OpenURLFromTab(t, url)
  BY <1>1, <1>4 DEF Reload, Load, OpenURLFromTab, LoadURL, AllowCertificateError, tabs, logs,
                    network
<1>5. CASE \E cb \in callbacks, allow \in BOOLEAN : AllowCertificateErrorResponse(cb, allow)
  BY <1>1, <1>5 DEF AllowCertificateErrorResponse, tabs, logs, network
<1>6. CASE \E t \in Tabs : \/ \E blocked \in BOOLEAN : OnBeforeURLRequest(t, blocked)
                           \/ OnCanAccessFile(t)
                           \/ \E c \in Cookies : OnCanSetCookie(t, c)
  BY <1>1, <1>6 DEF OnBeforeURLRequest, OnCanAccessFile, OnCanSetCookie, ForURLRequest,
                    ForURLRequestNull, tabs, pages, logs
<1>a. CASE \E c \in Cookies : AllowSetCookie(c)
  BY <1>1, <1>a DEF AllowSetCookie, tabs, pages, logs
<1>7. QED BY <1>a, <1>2, <1>3, <1>4, <1>5, <1>6, ViewTabs, ViewNavigates, ViewAsks, ViewNotified
          DEF Next, Step

\* Once the questions are asked and answered the user sees the page that is there: no
\* interleaving of navigations, of the network's callbacks and of Java's questions
\* leaves an old address, lock or log on the screen.
THEOREM ViewSafety == Spec => []ViewSettles
<1>1. Init => ViewInv
  <2> SUFFICES ASSUME Init, NEW t \in Tabs PROVE Shows(t)
    BY DEF ViewInv
  <2>1. view[t] = NewView /\ committed[t] = NoUrl /\ log_[t] = {}
    BY DEF Init
  <2>2. Insecure(committed[t]) = FALSE
    BY <2>1 DEF Insecure
  <2>3. view[t].url = committed[t] /\ view[t].insecure = FALSE /\ view[t].log = log_[t]
    BY <2>1 DEF NewView
  <2>4. view[t].insecure = Insecure(committed[t])
    BY <2>2, <2>3
  <2>5. QED BY <2>3, <2>4 DEF Shows
<1>2. QED BY <1>1, ViewSafe, ViewStep, InitType, TypeStep, PTL DEF Spec
=============================================================================
