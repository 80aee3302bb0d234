-------------------------- MODULE SplitCookieStore --------------------------
(***************************************************************************)
(* extra/split_cookie_store.cc: the shared cookie store, which keeps the   *)
(* cookies of the user's favourite sites on disk and all others in memory. *)
(*                                                                         *)
(* The two stores behind it are CookieMonsters (outside src/).  Deletions  *)
(* are asynchronous and chained: the transient store first, the persistent *)
(* one from the callback, so cookies can be set in between.                *)
(***************************************************************************)
EXTENDS Naturals, FiniteSets

CONSTANTS
  Domains,             \* host names
  RegisteredDomain,    \* external: the registered domain of each, NoDomain without one
  NoDomain,            \* no host: about:, data:
  SessionDomains,      \* the domains whose cookies are session cookies
  DeleteScopes,        \* the sets of domains deletions cover
  MaxDeletions,        \* bound of the model: how many of each scope may be in progress
  MaxCookies,          \* bound of the model: how many cookies the stores may hold
  Contexts             \* the browser contexts that may set cookies

ASSUME CookieConstants ==
  /\ NoDomain \notin Domains
  /\ RegisteredDomain \in [Domains -> Domains \cup {NoDomain}]
  /\ \A d \in Domains :  \* a registered domain is its own
       RegisteredDomain[d] # NoDomain => RegisteredDomain[RegisteredDomain[d]] = RegisteredDomain[d]
  /\ SessionDomains \subseteq Domains
  /\ DeleteScopes \subseteq SUBSET Domains /\ {Domains, SessionDomains} \subseteq DeleteScopes
  /\ MaxDeletions \in [DeleteScopes -> Nat] /\ MaxCookies \in Nat

VARIABLES
  favorites_,      \* the sites whose cookies are kept
  persistant_,     \* the cookies on disk
  transient_,      \* the cookies in memory
  deleting,        \* per scope: how many are done in transient_ and not in persistant_
  flipped          \* history: sites that have moved in or out of favorites_

cookieVars == <<favorites_, persistant_, transient_, deleting, flipped>>

\* URLs are told apart by their host only.
Urls == Domains \cup {NoDomain}

\* A cookie: its domain attribute, and (history) the context that set it.
Cookies == [domain : Domains, by : Contexts]

CookieTypeOK ==
  /\ favorites_ \subseteq Urls
  /\ persistant_ \subseteq Cookies
  /\ transient_ \subseteq Cookies
  /\ deleting \in [DeleteScopes -> Nat]
  /\ flipped \subseteq Urls

\* Mutant: the host is taken for the site.
GetSiteForURLMutHost(url) == url

\* The registered domain, else the host, else nothing.
GetSiteForURL(url) ==
  IF url = NoDomain THEN NoDomain
  ELSE IF RegisteredDomain[url] # NoDomain THEN RegisteredDomain[url]
  ELSE url

\* The domain attributes a cookie of this URL can have (external).
CookieDomains(url) ==
  IF url = NoDomain THEN {} ELSE {url, RegisteredDomain[url]} \ {NoDomain}

SitesOf(urls) == {GetSiteForURL(u) : u \in urls}

IsPersistant(url) == GetSiteForURL(url) \in favorites_

Symmetric(S, T) == (S \ T) \cup (T \ S)

\* Under lock_: the set is replaced; cookies stay where they are.
UpdateFavorites(urls) ==
  /\ favorites_' = SitesOf(urls)
  /\ flipped' = flipped \cup Symmetric(favorites_, favorites_')
  /\ UNCHANGED <<persistant_, transient_, deleting>>

\* SetCookieWithOptionsAsync: a cookie set again replaces the previous one.
SetCookie(url, domain, by) ==
  LET k == [domain |-> domain, by |-> by]
  IN  /\ Cardinality(persistant_) + Cardinality(transient_) < MaxCookies
      /\ IF IsPersistant(url)
           THEN persistant_' = persistant_ \cup {k} /\ UNCHANGED transient_
           ELSE transient_' = transient_ \cup {k} /\ UNCHANGED persistant_
      /\ UNCHANGED <<favorites_, deleting, flipped>>

Without(store, domains) == {k \in store : k.domain \notin domains}

\* DeleteAllCreatedBetweenAsync over all of time, DeleteSessionCookiesAsync,
\* DeleteAllCreatedBetweenForHostAsync and DeleteCookieAsync differ in what they cover.
\* First half, in the transient store.
DeleteAsync(domains) ==
  /\ deleting[domains] < MaxDeletions[domains]
  /\ transient_' = Without(transient_, domains)
  /\ deleting' = [deleting EXCEPT ![domains] = @ + 1]
  /\ UNCHANGED <<favorites_, persistant_, flipped>>

\* Mutant: the second half is skipped.
PersistantDeleteAsyncMutSkips(domains) ==
  /\ deleting[domains] > 0
  /\ deleting' = [deleting EXCEPT ![domains] = @ - 1]
  /\ UNCHANGED <<favorites_, transient_, persistant_, flipped>>

\* Second half, from the callback of the first.
PersistantDeleteAsync(domains) ==
  /\ deleting[domains] > 0
  /\ persistant_' = Without(persistant_, domains)
  /\ deleting' = [deleting EXCEPT ![domains] = @ - 1]
  /\ UNCHANGED <<favorites_, transient_, flipped>>
=============================================================================
