-------------------------- MODULE RequestContexts --------------------------
(***************************************************************************)
(* shell/browser/shell_url_request_context_getter.cc: which cookie store,  *)
(* cache and HSTS state the network context of each browser context gets,  *)
(* the state all of them share, and CLEAR_DATA.                            *)
(*                                                                         *)
(* A browser context is launched on the UI thread; its network context is  *)
(* made on the IO thread when its first request comes, from the settings   *)
(* of that moment.  Making the shared cookie store asks Java for the       *)
(* favourites, synchronously, while the UI thread keeps running.  The      *)
(* program can be killed at any moment; the disk survives.                 *)
(***************************************************************************)
EXTENDS SplitCookieStore

CONSTANTS
  Main,            \* the context of ShellBrowserContext::Get()
  Fetch,           \* the getter of the autocomplete Fetcher, without a path
  NoContext,
  SettingsValues,  \* the settings Java may send
  FavoriteLists    \* the favourite lists Java may have

Settings == [single_context : BOOLEAN, allow_persistant_cookies : BOOLEAN,
             persist_cache : BOOLEAN]

ASSUME ContextConstants ==
  /\ Main \in Contexts
  /\ Fetch \notin Contexts
  /\ NoContext \notin Contexts \cup {Fetch}
  /\ SettingsValues \subseteq Settings
  /\ FavoriteLists \subseteq SUBSET Urls

VARIABLES
  settings,        \* the options of message State that matter here
  launched,        \* the browser contexts that exist
  making,          \* the network context being made on the IO thread
  cookieStore,     \* per context: "none" before its network context is made
  httpCache,       \* per context: cache and HSTS state, likewise
  cookie_store_,   \* SharedState: does the shared cookie store exist?
  http_cache_,     \* SharedState: do the shared cache and HSTS state exist?
  backend,         \* external: has the shared cache opened its files?
  cached,          \* history: the separate contexts with traces in the cache or HSTS files
  exposed,         \* history: separate contexts over which single_context was switched on
                   \* after their launch and before their first request
  javaFavorites,   \* Java: the user's favourites
  unsent,          \* Java: changed since it last told the program
  doomed,          \* history: one cookie that the shared store held when CLEAR_DATA came
                   \* last, for as long as it is held
  aborted          \* a CHECK has failed

sharedVars == <<cookie_store_, http_cache_, backend, cached>>
javaVars == <<javaFavorites, unsent>>
vars == <<settings, launched, making, cookieStore, httpCache, sharedVars, exposed,
          javaVars, doomed, aborted, cookieVars>>

Getters  == Contexts \cup {Fetch}

NotAsked == {"not asked"}
NoCookie == [domain |-> NoDomain, by |-> NoContext]
NotMaking == [context |-> NoContext]
Making == [context : Getters, settings : SettingsValues, favorites : FavoriteLists \cup {NotAsked}]

TypeOK ==
  /\ settings \in SettingsValues
  /\ launched \subseteq Contexts
  /\ making \in Making \cup {NotMaking}
  /\ cookieStore \in [Getters -> {"none", "shared", "own"}]
  /\ httpCache \in [Getters -> {"none", "shared", "own"}]
  /\ cookie_store_ \in BOOLEAN
  /\ http_cache_ \in BOOLEAN
  /\ backend \in BOOLEAN
  /\ cached \subseteq Contexts
  /\ exposed \subseteq Contexts
  /\ javaFavorites \in FavoriteLists
  /\ unsent \in BOOLEAN
  /\ doomed \in Cookies \cup {NoCookie}
  /\ aborted \in BOOLEAN
  /\ CookieTypeOK

\* Before the store exists favorites_ stands for the set of the previous process.
Init ==
  /\ settings \in SettingsValues
  /\ launched = {}
  /\ making = NotMaking
  /\ cookieStore = [c \in Getters |-> "none"]
  /\ httpCache = [c \in Getters |-> "none"]
  /\ cookie_store_ = FALSE
  /\ http_cache_ = FALSE
  /\ backend = FALSE
  /\ cached = {}
  /\ exposed = {}
  /\ javaFavorites \in FavoriteLists
  /\ unsent = FALSE
  /\ doomed = NoCookie
  /\ aborted = FALSE
  /\ favorites_ = SitesOf(javaFavorites)
  /\ persistant_ = {}
  /\ transient_ = {}
  /\ deleting = [ds \in DeleteScopes |-> 0]
  /\ flipped = {}

Running == ~aborted
IoIdle == making = NotMaking

\* The program is killed, or has aborted, and starts again: the disk and Java's
\* preferences survive, and Java sends the settings it has by then.
Restart ==
  /\ settings' \in SettingsValues
  /\ launched' = {}
  /\ making' = NotMaking
  /\ cookieStore' = [c \in Getters |-> "none"]
  /\ httpCache' = [c \in Getters |-> "none"]
  /\ cookie_store_' = FALSE
  /\ http_cache_' = FALSE
  /\ backend' = FALSE
  /\ unsent' = FALSE
  /\ doomed' = NoCookie
  /\ aborted' = FALSE
  /\ transient_' = {}
  /\ deleting' = [ds \in DeleteScopes |-> 0]
  /\ UNCHANGED <<cached, exposed, javaFavorites, favorites_, persistant_, flipped>>

-----------------------------------------------------------------------------
(* Browser contexts and settings, on the UI thread *)

\* LaunchShell: the shared context under single_context, else a separate one.
Launch(c) ==
  /\ Running
  /\ c \notin launched
  /\ settings.single_context <=> c = Main
  /\ launched' = launched \cup {c}
  /\ UNCHANGED <<settings, making, cookieStore, httpCache, sharedVars, exposed, javaVars,
                 doomed, aborted, cookieVars>>

\* The last tab of a separate context closes.
Destroy(c) ==
  /\ Running
  /\ c \in launched \ {Main}
  /\ IoIdle
  /\ launched' = launched \ {c}
  /\ cookieStore' = [cookieStore EXCEPT ![c] = "none"]
  /\ httpCache' = [httpCache EXCEPT ![c] = "none"]
  /\ UNCHANGED <<settings, making, sharedVars, exposed, javaVars, doomed, aborted,
                 cookieVars>>

\* Separate contexts that exist and have not sent a request.
Untouched == {c \in launched \ {Main} : cookieStore[c] = "none" /\ making.context # c}

\* UPDATE_SETTINGS.
UpdateSettings(new) ==
  /\ Running
  /\ settings' = new
  /\ exposed' = IF new.single_context THEN exposed \cup Untouched ELSE exposed
  /\ UNCHANGED <<launched, making, cookieStore, httpCache, sharedVars, javaVars,
                 doomed, aborted, cookieVars>>

-----------------------------------------------------------------------------
(* GetURLRequestContext, on the IO thread *)

HasPath(c) == c # Fetch

SharesCookies(c, st) ==
  HasPath(c) /\ st.single_context /\ st.allow_persistant_cookies

SharesCache(c, st) == HasPath(c) /\ st.single_context /\ st.persist_cache

\* The first request: one snapshot of the settings is taken for all decisions.
BeginContext(c) ==
  /\ Running
  /\ IoIdle
  /\ c \in launched \cup {Fetch}
  /\ cookieStore[c] = "none"
  /\ making' = [context |-> c, settings |-> settings, favorites |-> NotAsked]
  /\ UNCHANGED <<settings, launched, cookieStore, httpCache, sharedVars, exposed, javaVars,
                 doomed, aborted, cookieVars>>

MakesStore ==
  /\ making # NotMaking
  /\ SharesCookies(making.context, making.settings)
  /\ ~cookie_store_

\* Mutant: Java is asked for the sites and answers with them instead of its URLs.
AskFavoritesMutSites ==
  /\ Running /\ MakesStore
  /\ making.favorites = NotAsked
  /\ making' = [making EXCEPT !.favorites = SitesOf(javaFavorites)]
  /\ UNCHANGED <<settings, launched, cookieStore, httpCache, sharedVars, exposed, javaVars,
                 doomed, aborted, cookieVars>>

\* The constructor of SplitCookieStore asks Java for the favourites.
AskFavorites ==
  /\ Running
  /\ MakesStore
  /\ making.favorites = NotAsked
  /\ making' = [making EXCEPT !.favorites = javaFavorites]
  /\ UNCHANGED <<settings, launched, cookieStore, httpCache, sharedVars, exposed, javaVars,
                 doomed, aborted, cookieVars>>

\* Mutant: the decisions read the settings again, not the snapshot.
FinishContextMutRereads ==
  /\ Running /\ making # NotMaking
  /\ MakesStore => making.favorites # NotAsked
  /\ LET c == making.context
     IN  /\ IF MakesStore THEN UpdateFavorites(making.favorites) ELSE UNCHANGED cookieVars
         /\ cookie_store_' = (cookie_store_ \/ SharesCookies(c, settings))
         /\ http_cache_' = (http_cache_ \/ SharesCache(c, settings))
         /\ cookieStore' = [cookieStore EXCEPT ![c] =
                              IF SharesCookies(c, settings) THEN "shared" ELSE "own"]
         /\ httpCache' = [httpCache EXCEPT ![c] =
                            IF SharesCache(c, settings) THEN "shared" ELSE "own"]
  /\ making' = NotMaking
  /\ UNCHANGED <<settings, launched, backend, cached, exposed, javaVars, doomed,
                 aborted>>

\* Mutant: the answer of Java is not stored.
FinishContextMutIgnores ==
  /\ Running /\ making # NotMaking
  /\ MakesStore => making.favorites # NotAsked
  /\ LET c == making.context
         st == making.settings
     IN  /\ cookie_store_' = (cookie_store_ \/ SharesCookies(c, st))
         /\ http_cache_' = (http_cache_ \/ SharesCache(c, st))
         /\ cookieStore' = [cookieStore EXCEPT ![c] =
                              IF SharesCookies(c, st) THEN "shared" ELSE "own"]
         /\ httpCache' = [httpCache EXCEPT ![c] =
                            IF SharesCache(c, st) THEN "shared" ELSE "own"]
  /\ making' = NotMaking
  /\ UNCHANGED <<settings, launched, backend, cached, exposed, javaVars, doomed,
                 aborted, cookieVars>>

\* The answer is stored, the store published, and the rest of the context made.
FinishContext ==
  /\ Running
  /\ making # NotMaking
  /\ MakesStore => making.favorites # NotAsked
  /\ LET c  == making.context
         st == making.settings
     IN  /\ IF MakesStore THEN UpdateFavorites(making.favorites) ELSE UNCHANGED cookieVars
         /\ cookie_store_' = (cookie_store_ \/ SharesCookies(c, st))
         /\ http_cache_' = (http_cache_ \/ SharesCache(c, st))
         /\ cookieStore' = [cookieStore EXCEPT ![c] =
                              IF SharesCookies(c, st) THEN "shared" ELSE "own"]
         /\ httpCache' = [httpCache EXCEPT ![c] =
                            IF SharesCache(c, st) THEN "shared" ELSE "own"]
  /\ making' = NotMaking
  /\ UNCHANGED <<settings, launched, backend, cached, exposed, javaVars, doomed,
                 aborted>>

-----------------------------------------------------------------------------
(* Use of a finished context *)

\* A server sets a cookie.  What a context keeps in a store of its own in memory dies
\* with it and is not followed.
ReceiveCookie(c, url, domain) ==
  LET k == [domain |-> domain, by |-> c]
  IN  /\ Running
      /\ IoIdle
      /\ cookieStore[c] # "none"
      /\ domain \in CookieDomains(url)
      /\ IF cookieStore[c] = "shared"
           THEN SetCookie(url, domain, c)
           ELSE UNCHANGED cookieVars
      /\ doomed' = IF k = doomed THEN NoCookie ELSE doomed
      /\ UNCHANGED <<settings, launched, making, cookieStore, httpCache, sharedVars, exposed,
                     javaVars, aborted>>

\* A page is loaded: what it leaves in the cache, which it makes open its files, and in
\* the HSTS list.
LoadPage(c) ==
  /\ Running
  /\ IoIdle
  /\ httpCache[c] = "shared"
  /\ backend' = TRUE
  /\ cached' = cached \cup ({c} \ {Main})
  /\ UNCHANGED <<settings, launched, making, cookieStore, httpCache, cookie_store_,
                 http_cache_, exposed, javaVars, doomed, aborted, cookieVars>>

IfHeld(k) == IF k \in persistant_' \cup transient_' THEN k ELSE NoCookie

\* Anybody deletes cookies of the shared store.
DeleteCookies(domains) ==
  /\ Running
  /\ cookie_store_
  /\ DeleteAsync(domains)
  /\ doomed' = IfHeld(doomed)
  /\ UNCHANGED <<settings, launched, making, cookieStore, httpCache, sharedVars, exposed,
                 javaVars, aborted>>

FinishDeletion(domains) ==
  /\ Running
  /\ PersistantDeleteAsync(domains)
  /\ doomed' = IfHeld(doomed)
  /\ UNCHANGED <<settings, launched, making, cookieStore, httpCache, sharedVars, exposed,
                 javaVars, aborted>>

\* CLEAR_DATA: the shared cookies, cache and HSTS state, those that exist; the cache only
\* once it has opened its files.  (The message's only field, everything, is not looked at.)
ClearData ==
  /\ Running
  /\ IF cookie_store_ THEN DeleteAsync(Domains) ELSE UNCHANGED cookieVars
  /\ cached' = IF http_cache_ /\ backend THEN {} ELSE cached
  /\ IF cookie_store_
       THEN \E k \in persistant_ \cup transient_ \cup {NoCookie} : doomed' = IfHeld(k)
       ELSE UNCHANGED doomed
  /\ UNCHANGED <<settings, launched, making, cookieStore, httpCache, cookie_store_,
                 http_cache_, backend, exposed, javaVars, aborted>>

-----------------------------------------------------------------------------
(* Favourites *)

\* The user edits the favourites, in Java.
EditFavorites(list) ==
  /\ Running
  /\ list # javaFavorites
  /\ javaFavorites' = list
  /\ unsent' = TRUE
  /\ UNCHANGED <<settings, launched, making, cookieStore, httpCache, sharedVars, exposed,
                 doomed, aborted, cookieVars>>

\* Java tells the program: UPDATE_FAVORITES_RESPONSE on the UI thread.  Without a store,
\* or while the IO thread is making it, GetCookieStore is called with an empty path and
\* its STDCHECK fails.
SendFavorites ==
  /\ Running
  /\ unsent
  /\ unsent' = FALSE
  /\ IF cookie_store_
       THEN UpdateFavorites(javaFavorites) /\ UNCHANGED aborted
       ELSE aborted' = TRUE /\ UNCHANGED cookieVars
  /\ UNCHANGED <<settings, launched, making, cookieStore, httpCache, sharedVars, exposed,
                 javaFavorites, doomed>>

Next ==
  \/ Restart
  \/ \E c \in Contexts : Launch(c)
  \/ \E c \in Contexts : Destroy(c)
  \/ \E new \in SettingsValues : UpdateSettings(new)
  \/ \E c \in Getters : BeginContext(c)
  \/ AskFavorites
  \/ FinishContext
  \/ \E c \in Contexts, url \in Urls, d \in Domains : ReceiveCookie(c, url, d)
  \/ \E c \in Contexts : LoadPage(c)
  \/ \E ds \in DeleteScopes : DeleteCookies(ds)
  \/ \E ds \in DeleteScopes : FinishDeletion(ds)
  \/ ClearData
  \/ \E list \in FavoriteLists : EditFavorites(list)
  \/ SendFavorites

Spec == Init /\ [][Next]_vars

-----------------------------------------------------------------------------
(* Properties *)

\* Of the separate contexts only those over which single_context was switched on before
\* their first request leave a trace in the shared stores and on disk: not those that
\* had sent one, even one whose context was still being made, and none by what is set
\* later or at a restart.
PrivateStaysPrivate ==
  /\ \A k \in persistant_ \cup transient_ : k.by \in {Main} \cup exposed
  /\ cached \subseteq exposed

\* A cookie domain has cookies on disk and in memory at once only if its site has
\* become a favourite or ceased to be one: a site never loses its session because
\* two of its hosts are sent to different stores.
NoSplitIdentity ==
  \A k \in persistant_, l \in transient_ :
     k.domain = l.domain => GetSiteForURL(k.domain) \in flipped

\* A cookie that goes to disk belongs to a site on the user's current list, and a
\* cookie that is only kept in memory does not, unless Java still has an update to
\* send, whatever it edits while the store is being made.
CookiesFollowTheList ==
  [][~unsent =>
       /\ \A k \in persistant_' \ persistant_ :
             GetSiteForURL(k.domain) \in SitesOf(javaFavorites)
       /\ \A k \in transient_' \ transient_ :
             GetSiteForURL(k.domain) \notin SitesOf(javaFavorites)]_vars

\* When the deletion CLEAR_DATA started is through, no cookie of the shared store
\* that existed before is left, whatever else was deleted or set meanwhile.  (Without a
\* shared store CLEAR_DATA does nothing to the cookies on disk.)
ClearedIsGone ==
  deleting[Domains] = 0 => doomed \notin persistant_ \cup transient_
=============================================================================
