------------------------------ MODULE TabView ------------------------------
(***************************************************************************)
(* What the user sees of a tab: the address, the lock and the log of what  *)
(* the page tried (shell.cc, shell_network_delegate.cc,                    *)
(* cookie_access_policy.cc, shell_content_browser_client.cc).              *)
(*                                                                         *)
(* The UI thread commits navigations and asks the user about certificates. *)
(* The IO thread runs the network's callbacks: it looks a tab up, writes   *)
(* to its log and notifies Java, and the tab may be closed, or another one *)
(* allocated at its address, between these steps.  Java is told that       *)
(* something changed and comes back later to ask what.                     *)
(***************************************************************************)
EXTENDS Naturals

CONSTANTS
  Tabs,          \* incarnations: each is launched at most once
  Addresses,     \* heap addresses, reused as soon as a tab is freed
  Freed,         \* the address of a tab that is not allocated
  Urls,          \* records [scheme, site, cert, bits, cipher, tls]
  NoUrl,
  Cookies,       \* the cookies servers and scripts try to set, by site and first party
  NoCallback,    \* the IO thread runs no callback of ours
  MaxLoads,      \* bound: navigations begun
  MaxEvents      \* bound: events logged

Sites == {u.site : u \in Urls}

ASSUME TabViewConstants ==
  /\ Freed \notin Addresses
  /\ NoUrl \notin Urls
  /\ \A u \in Urls : u.scheme \in {"http", "https", "krypton"}
                     /\ u.cert \in {"none", "good", "broken"}
                     /\ u.bits \in Nat /\ u.cipher \in BOOLEAN /\ u.tls \in BOOLEAN
  /\ Cookies \subseteq [site : Sites, first : Sites]
  /\ MaxLoads \in Nat /\ MaxEvents \in Nat

VARIABLES
  phase, address,  \* of each tab
  loading,         \* the navigation of its main frame in progress
  committed,       \* the URL of GetLastCommittedEntry
  log_,            \* the log, as a set
  view,            \* what Java shows
  ask,             \* what Java has been told to ask again
  looking,         \* the callback the IO thread is in: tab found, or logged
  callbacks,       \* the AceCb objects Java holds the addresses of
  allowed,         \* the sites whose certificate errors the engine now passes
  consents,        \* history: the sites the user let pass
  written,         \* history: the cookies stored
  crashed,         \* NULL has been dereferenced
  loads, events    \* counters of the bounds

vars == <<phase, address, loading, committed, log_, view, ask, looking, callbacks,
          allowed, consents, written, crashed, loads, events>>

Loads    == [number : 0 .. MaxLoads, url : Urls \cup {NoUrl},
             state : {"idle", "started", "asked"}]
NoCookie == [site |-> "none", first |-> "none"]
\* `of` is the tab whose page did it.  Events without a cookie (requests, files, location,
\* certificates of resources) are not told apart.
Events   == [of : Tabs, is_blocked : BOOLEAN, cookie : Cookies \cup {NoCookie}]
Found    == [address : Addresses, event : Events, stage : {"found", "logged"}]
Views    == [url : Urls \cup {NoUrl}, insecure : BOOLEAN, log : SUBSET Events]
AceCbs   == [tab : Tabs, number : 1 .. MaxLoads, url : Urls]

ASSUME NoCallbackIsNone == NoCallback \notin Found

Idle    == [number |-> 0, url |-> NoUrl, state |-> "idle"]
NewView == [url |-> NoUrl, insecure |-> FALSE, log |-> {}]
Open(t) == phase[t] = "open"

TypeOK ==
  /\ phase \in [Tabs -> {"unborn", "open", "closed"}]
  /\ address \in [Tabs -> Addresses \cup {Freed}]
  /\ \A t \in Tabs : Open(t) <=> address[t] # Freed
  /\ \A s, t \in Tabs : Open(s) /\ address[s] = address[t] => s = t
  /\ loading \in [Tabs -> Loads]
  /\ committed \in [Tabs -> Urls \cup {NoUrl}]
  /\ log_ \in [Tabs -> SUBSET Events]
  /\ view \in [Tabs -> Views]
  /\ ask \in [Tabs -> SUBSET {"ssl", "log"}]
  /\ \A t \in Tabs : ask[t] # {} => Open(t)
  /\ looking \in Found \cup {NoCallback}
  /\ callbacks \subseteq AceCbs
  /\ allowed \subseteq Sites /\ consents \subseteq Sites
  /\ written \subseteq Cookies
  /\ crashed \in BOOLEAN
  /\ loads \in 0 .. MaxLoads /\ events \in 0 .. MaxEvents

Init ==
  /\ phase = [t \in Tabs |-> "unborn"]
  /\ address = [t \in Tabs |-> Freed]
  /\ loading = [t \in Tabs |-> Idle]
  /\ committed = [t \in Tabs |-> NoUrl]
  /\ log_ = [t \in Tabs |-> {}]
  /\ view = [t \in Tabs |-> NewView]
  /\ ask = [t \in Tabs |-> {}]
  /\ looking = NoCallback
  /\ callbacks = {} /\ allowed = {} /\ consents = {} /\ written = {}
  /\ crashed = FALSE
  /\ loads = 0 /\ events = 0

\* The variables an action of one group leaves alone.
network == <<looking, written>>
certs   == <<callbacks, allowed, consents>>
tabs    == <<phase, address>>
pages   == <<loading, committed, loads>>
logs    == <<log_, view, ask, events>>

-----------------------------------------------------------------------------
(* UI thread: tabs and navigations *)

LaunchShell(t, a) ==
  /\ phase[t] = "unborn"
  /\ \A s \in Tabs : address[s] # a
  /\ phase' = [phase EXCEPT ![t] = "open"]
  /\ address' = [address EXCEPT ![t] = a]
  /\ UNCHANGED <<pages, logs, network, certs>>

\* Mutant: Java keeps the questions it was going to ask a tab that is closed.
CloseMutAsks(t) ==
  /\ Open(t)
  /\ phase' = [phase EXCEPT ![t] = "closed"]
  /\ address' = [address EXCEPT ![t] = Freed]
  /\ loading' = [loading EXCEPT ![t] = Idle]
  /\ log_' = [log_ EXCEPT ![t] = {}]
  /\ UNCHANGED <<committed, loads, view, ask, events, network, certs>>

\* Java forgets the tab, it leaves the registry and its memory is freed: one step
\* here, since only the UI thread sees the steps between (module Shell).
Close(t) ==
  /\ Open(t)
  /\ phase' = [phase EXCEPT ![t] = "closed"]
  /\ address' = [address EXCEPT ![t] = Freed]
  /\ loading' = [loading EXCEPT ![t] = Idle]
  /\ log_' = [log_ EXCEPT ![t] = {}]
  /\ ask' = [ask EXCEPT ![t] = {}]
  /\ UNCHANGED <<committed, loads, view, events, network, certs>>

\* Mutant: the log is cleared when the navigation begins.
LoadURLMutClears(t, url) ==
  /\ Open(t) /\ loads < MaxLoads
  /\ loads' = loads + 1
  /\ loading' = [loading EXCEPT ![t] = [number |-> loads', url |-> url, state |-> "started"]]
  /\ log_' = [log_ EXCEPT ![t] = {}]
  /\ UNCHANGED <<tabs, committed, view, ask, events, network, certs>>

\* LOAD_URL, RELOAD and OpenURLFromTab: LoadURLWithParams or Reload of the
\* controller, which abandons what was loading.
LoadURL(t, url) ==
  /\ Open(t) /\ loads < MaxLoads
  /\ loads' = loads + 1
  /\ loading' = [loading EXCEPT ![t] = [number |-> loads', url |-> url, state |-> "started"]]
  /\ UNCHANGED <<tabs, committed, logs, network, certs>>

Load(t, url) == LoadURL(t, url)
OpenURLFromTab(t, url) == LoadURL(t, url)

\* GetActiveEntry: what the tab is loading, else what it shows.
ActiveUrl(t) == IF loading[t] # Idle THEN loading[t].url ELSE committed[t]

\* The entry the controller reloads: what the tab shows, else its first navigation.
CurrentUrl(t) == IF committed[t] # NoUrl THEN committed[t] ELSE loading[t].url

Reload(t, as_desktop) ==
  LET url == IF as_desktop THEN ActiveUrl(t) ELSE CurrentUrl(t)
  IN  url # NoUrl /\ LoadURL(t, url)

\* The certificate is good, or its error is one the engine has been told to pass.
Passes(url) == url.cert # "broken" \/ url.site \in allowed

\* GetSSLStatus: is the page shown as insecure?
Insecure(url) ==
  /\ url # NoUrl
  /\ url.scheme # "krypton"
  /\ ~(url.cert = "good" /\ url.bits >= 128 /\ url.cipher /\ url.tls)

\* The main frame commits, to another page: the log starts afresh, Java is told the URL
\* and asks for the rest.
DidNavigateMainFrame(t) ==
  /\ loading[t].state = "started"
  /\ Passes(loading[t].url)
  /\ committed' = [committed EXCEPT ![t] = loading[t].url]
  /\ loading' = [loading EXCEPT ![t] = Idle]
  /\ log_' = [log_ EXCEPT ![t] = {}]
  /\ view' = [view EXCEPT ![t].url = loading[t].url]
  /\ ask' = [ask EXCEPT ![t] = {"ssl", "log"}]
  /\ UNCHANGED <<tabs, loads, events, network, certs>>

\* A navigation within the page keeps the log.
NavigateInPage(t) ==
  /\ Open(t) /\ committed[t] # NoUrl
  /\ ask' = [ask EXCEPT ![t] = {"ssl", "log"}]
  /\ UNCHANGED <<tabs, pages, log_, view, events, network, certs>>

-----------------------------------------------------------------------------
(* Java's questions *)

GetLog(t) ==
  /\ "log" \in ask[t]
  /\ view' = [view EXCEPT ![t].log = log_[t]]
  /\ ask' = [ask EXCEPT ![t] = @ \ {"log"}]
  /\ UNCHANGED <<tabs, pages, log_, events, network, certs>>

GetSSLStatus(t) ==
  /\ "ssl" \in ask[t]
  /\ view' = [view EXCEPT ![t].insecure = Insecure(committed[t])]
  /\ ask' = [ask EXCEPT ![t] = @ \ {"ssl"}]
  /\ UNCHANGED <<tabs, pages, log_, events, network, certs>>

-----------------------------------------------------------------------------
(* Certificate errors *)

\* A main frame with a certificate error waits for the user.
AllowCertificateError(t) ==
  /\ loading[t].state = "started"
  /\ ~Passes(loading[t].url)
  /\ callbacks' = callbacks \cup
       {[tab |-> t, number |-> loading[t].number, url |-> loading[t].url]}
  /\ loading' = [loading EXCEPT ![t].state = "asked"]
  /\ UNCHANGED <<tabs, committed, loads, logs, network, allowed, consents>>

\* The engine's end of a callback: the site passes from now on, and the navigation,
\* if it is still this one, goes on or ends.
RunAceCb(cb, allow) ==
  LET t == cb.tab
      waits == loading[t].number = cb.number
  IN  /\ allowed' = IF allow THEN allowed \cup {cb.url.site} ELSE allowed
      /\ loading' = IF ~waits THEN loading
                    ELSE [loading EXCEPT ![t] = IF allow THEN [@ EXCEPT !.state = "started"]
                                                ELSE Idle]

\* Mutant: the answer runs the last callback that was created.
AllowCertificateErrorResponseMutLast(cb, allow) ==
  /\ cb \in callbacks
  /\ LET last == CHOOSE c \in callbacks : \A d \in callbacks : d.number <= c.number
     IN  RunAceCb(last, allow) /\ callbacks' = callbacks \ {last}
  /\ consents' = IF allow THEN consents \cup {cb.url.site} ELSE consents
  /\ UNCHANGED <<tabs, committed, loads, logs, network>>

\* CERTIFICATE_ERROR_RESPONSE: the callback whose address Java sends back is run and
\* deleted.  Java answers each once.
AllowCertificateErrorResponse(cb, allow) ==
  /\ cb \in callbacks
  /\ RunAceCb(cb, allow)
  /\ callbacks' = callbacks \ {cb}
  /\ consents' = IF allow THEN consents \cup {cb.url.site} ELSE consents
  /\ UNCHANGED <<tabs, committed, loads, logs, network>>

-----------------------------------------------------------------------------
(* LogEvent on the UI thread: log and notify, nothing in between *)

Event(t, blocked, cookie) == [of |-> t, is_blocked |-> blocked, cookie |-> cookie]

LogEvent(t) ==
  /\ Open(t)
  /\ events < MaxEvents
  /\ events' = events + 1
  /\ log_' = [log_ EXCEPT ![t] = @ \cup {Event(t, TRUE, NoCookie)}]
  /\ ask' = [ask EXCEPT ![t] = @ \cup {"log"}]
  /\ UNCHANGED <<tabs, pages, view, network, certs>>

RequestGeolocationPermission(t) == LogEvent(t)

\* The process ends, and all its tabs with it.
Crash ==
  /\ crashed' = TRUE
  /\ phase' = [t \in Tabs |-> "closed"]
  /\ address' = [t \in Tabs |-> Freed]
  /\ loading' = [t \in Tabs |-> Idle]
  /\ log_' = [t \in Tabs |-> {}]
  /\ view' = [t \in Tabs |-> NewView]
  /\ ask' = [t \in Tabs |-> {}]
  /\ looking' = NoCallback
  /\ callbacks' = {}
  /\ UNCHANGED <<committed, loads, events, written, allowed, consents>>

\* Denied without asking.  If the frame has gone meanwhile, with its tab or alone, there
\* is no Shell for it, and NULL is dereferenced.
SubResourceError(t) ==
  \/ LogEvent(t) /\ UNCHANGED crashed
  \/ phase[t] # "unborn" /\ Crash

-----------------------------------------------------------------------------
(* LogEvent on the IO thread: find the tab, write to its log, notify Java *)

\* Shell::ForURLRequest of a request made for t finds its tab.
ForURLRequest(t, event) ==
  /\ looking = NoCallback
  /\ Open(t)
  /\ events < MaxEvents
  /\ events' = events + 1
  /\ looking' = [address |-> address[t], event |-> event, stage |-> "found"]
  /\ UNCHANGED <<tabs, pages, log_, view, ask, certs>>

\* It finds none, because the tab or the view has gone or the request is of neither:
\* nothing is logged, and what is asked is decided all the same.
ForURLRequestNull ==
  /\ looking = NoCallback
  /\ UNCHANGED <<tabs, pages, logs, looking, certs>>

OnBeforeURLRequest(t, blocked) ==
  ForURLRequest(t, Event(t, blocked, NoCookie)) /\ UNCHANGED written

OnCanAccessFile(t) ==
  ForURLRequest(t, Event(t, TRUE, NoCookie)) /\ UNCHANGED written

\* BLOCK_ALL_THIRD_PARTY_COOKIES.  The first party is that of the request or the script,
\* whatever the tab shows by now.
CanSetCookie(c) == c.site = c.first

\* The network sets the cookie that came with the response to a request.
OnCanSetCookie(t, c) ==
  /\ ForURLRequest(t, Event(t, ~CanSetCookie(c), c)) \/ ForURLRequestNull
  /\ written' = IF CanSetCookie(c) THEN written \cup {c} ELSE written

\* Mutant: scripts may set any cookie.
AllowSetCookieMutAny(c) ==
  /\ looking = NoCallback
  /\ written' = written \cup {c}
  /\ UNCHANGED <<tabs, pages, logs, looking, certs>>

\* The other door: a script sets document.cookie.  Not logged.
AllowSetCookie(c) ==
  /\ looking = NoCallback
  /\ written' = IF CanSetCookie(c) THEN written \cup {c} ELSE written
  /\ UNCHANGED <<tabs, pages, logs, looking, certs>>

\* Whoever lives at the address now gets the event; if nobody does, the model
\* lets the write into freed memory pass without effect.
AddEvent ==
  /\ looking # NoCallback /\ looking.stage = "found"
  /\ log_' = [t \in Tabs |-> IF address[t] = looking.address
                               THEN log_[t] \cup {looking.event} ELSE log_[t]]
  /\ looking' = [looking EXCEPT !.stage = "logged"]
  /\ UNCHANGED <<tabs, pages, view, ask, events, written, certs>>

\* NOTIFY_LOG_EVENT with that address: Java asks the tab it knows by it.
Notify ==
  /\ looking # NoCallback /\ looking.stage = "logged"
  /\ ask' = [t \in Tabs |-> IF address[t] = looking.address
                              THEN ask[t] \cup {"log"} ELSE ask[t]]
  /\ looking' = NoCallback
  /\ UNCHANGED <<tabs, pages, log_, view, events, written, certs>>

Step ==
  \/ \E t \in Tabs, a \in Addresses : LaunchShell(t, a)
  \/ \E t \in Tabs, url \in Urls : Load(t, url) \/ OpenURLFromTab(t, url)
  \/ \E t \in Tabs, as_desktop \in BOOLEAN : Reload(t, as_desktop)
  \/ \E t \in Tabs :
       \/ Close(t)
       \/ DidNavigateMainFrame(t) \/ NavigateInPage(t)
       \/ GetLog(t) \/ GetSSLStatus(t)
       \/ AllowCertificateError(t)
       \/ RequestGeolocationPermission(t)
       \/ OnCanAccessFile(t)
  \/ \E cb \in callbacks, allow \in BOOLEAN : AllowCertificateErrorResponse(cb, allow)
  \/ \E t \in Tabs, blocked \in BOOLEAN : OnBeforeURLRequest(t, blocked)
  \/ \E t \in Tabs, c \in Cookies : OnCanSetCookie(t, c)
  \/ \E c \in Cookies : AllowSetCookie(c)
  \/ AddEvent
  \/ Notify

Next ==
  /\ ~crashed
  /\ (Step /\ UNCHANGED crashed) \/ \E t \in Tabs : SubResourceError(t)

Spec == Init /\ [][Next]_vars

-----------------------------------------------------------------------------
(* Properties *)

\* An event in a tab's log is of a page of that tab, or came late from a tab that is
\* gone and whose address the tab was given; a cookie the log reports as refused was
\* stored through neither door, the network's or the script's.
LogIsTrue ==
  \A t \in Tabs : \A e \in log_[t] :
    /\ e.of = t \/ phase[e.of] = "closed"
    /\ e.cookie # NoCookie /\ e.is_blocked => e.cookie \notin written

\* Once the IO thread has notified what it logged and Java has asked what it was told
\* to ask, the user sees the address, the lock and the log of the page that is there.
ViewSettles ==
  \A t \in Tabs :
    Open(t) /\ ask[t] = {}
      /\ ~(looking # NoCallback /\ looking.stage = "logged" /\ looking.address = address[t])
    => view[t] = [url |-> committed[t], insecure |-> Insecure(committed[t]),
                  log |-> log_[t]]

\* A page behind a broken certificate is shown only after the user let its site pass,
\* whichever tabs and navigations the answers cross.
ConsentIsForThisSite ==
  \A t \in Tabs : committed[t] # NoUrl /\ committed[t].cert = "broken"
                    => committed[t].site \in consents
=============================================================================
