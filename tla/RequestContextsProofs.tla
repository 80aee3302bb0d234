----------------------- MODULE RequestContextsProofs -----------------------
(***************************************************************************)
(* Proofs about RequestContexts, for any contexts, domains, settings and   *)
(* favourites: a separate context leaves no trace in the shared stores,    *)
(* unless single_context was switched on before its first request; a site  *)
(* keeps its cookies in one place, the one Java's list asks for, while its *)
(* status stays; and what CLEAR_DATA reaches is gone.                      *)
(***************************************************************************)
EXTENDS RequestContexts, TLAPS

Known == {Main} \cup exposed

\* A separate context that finds single_context on at its first request is exposed.
UntouchedKnown == settings.single_context => Untouched \subseteq exposed

\* A network context made from settings with single_context is of a known context.
MakingKnown ==
  making # NotMaking /\ making.settings.single_context => making.context \in Known \cup {Fetch}

SharedIsKnown ==
  \A c \in Contexts : cookieStore[c] = "shared" \/ httpCache[c] = "shared" => c \in Known

Types ==
  /\ settings \in SettingsValues
  /\ launched \subseteq Contexts
  /\ making \in Making \cup {NotMaking}
  /\ cookieStore \in [Getters -> {"none", "shared", "own"}]
  /\ httpCache \in [Getters -> {"none", "shared", "own"}]
  /\ javaFavorites \in FavoriteLists

Inv ==
  /\ Types
  /\ UntouchedKnown
  /\ MakingKnown
  /\ SharedIsKnown
  /\ PrivateStaysPrivate

LEMMA NotMakingIsNot == ASSUME NEW m \in Making PROVE m # NotMaking
<1>1. m.context # NoContext
  BY ContextConstants DEF Making, Getters
<1>2. NotMaking.context = NoContext
  BY DEF NotMaking
<1>3. QED BY <1>1, <1>2

LEMMA InitInv == Init => Inv
<1> SUFFICES ASSUME Init PROVE Inv
  OBVIOUS
<1>1. Types
  BY DEF Init, Types
<1>2. UntouchedKnown /\ MakingKnown
  BY DEF Init, UntouchedKnown, Untouched, MakingKnown
<1>3. SharedIsKnown
  BY DEF Init, SharedIsKnown, Getters
<1>4. PrivateStaysPrivate
  BY DEF Init, PrivateStaysPrivate
<1>5. QED BY <1>1, <1>2, <1>3, <1>4 DEF Inv

\* The parts of Inv about contexts and settings are left alone.
LEMMA OthersKeepContexts ==
  ASSUME Inv, UNCHANGED <<settings, launched, making, cookieStore, httpCache, exposed>>,
         javaFavorites' \in FavoriteLists
  PROVE  Types' /\ UntouchedKnown' /\ MakingKnown' /\ SharedIsKnown'
BY DEF Inv, Types, UntouchedKnown, Untouched, MakingKnown, SharedIsKnown, Known

\* The stores lose at most what they hold.
LEMMA OthersKeepStores ==
  ASSUME Inv,
         exposed \subseteq exposed',
         persistant_' \subseteq persistant_,
         transient_' \subseteq transient_,
         cached' \subseteq cached
  PROVE  PrivateStaysPrivate'
BY DEF Inv, PrivateStaysPrivate

\* Contexts come, go and are made; the stores stay as they are.
LEMMA ContextsInv ==
  ASSUME Inv, \/ Restart
              \/ \E c \in Contexts : Launch(c) \/ Destroy(c)
              \/ \E new \in SettingsValues : UpdateSettings(new)
              \/ \E c \in Getters : BeginContext(c)
              \/ AskFavorites
              \/ FinishContext
  PROVE  Inv'
<1> USE ContextConstants
<1>0. Types
  BY DEF Inv
<1>1. ASSUME Restart PROVE Inv'
  <2>1. Types' /\ UntouchedKnown' /\ MakingKnown'
    BY <1>0, <1>1 DEF Restart, Types, UntouchedKnown, Untouched, MakingKnown
  <2>2. SharedIsKnown'
    BY <1>1 DEF Restart, SharedIsKnown, Getters
  <2>3. PrivateStaysPrivate'
    BY <1>1, OthersKeepStores DEF Restart
  <2>4. QED BY <2>1, <2>2, <2>3 DEF Inv
<1>2. ASSUME NEW c \in Contexts, Launch(c) PROVE Inv'
  <2>1. UNCHANGED <<settings, making, cookieStore, httpCache, exposed>>
        /\ launched' = launched \cup {c}
        /\ (settings.single_context <=> c = Main)
    BY <1>2 DEF Launch
  <2>2. Types' /\ MakingKnown' /\ SharedIsKnown'
    BY <1>0, <1>2, <2>1 DEF Inv, Launch, javaVars, Types, MakingKnown, SharedIsKnown, Known
  <2>3. UntouchedKnown'
    BY <2>1 DEF Inv, UntouchedKnown, Untouched
  <2>4. PrivateStaysPrivate'
    BY <1>2, OthersKeepStores DEF Launch, cookieVars, sharedVars
  <2>5. QED BY <2>2, <2>3, <2>4 DEF Inv
<1>3. ASSUME NEW c \in Contexts, Destroy(c) PROVE Inv'
  <2>1. /\ UNCHANGED <<settings, making, exposed>> /\ launched' = launched \ {c}
        /\ cookieStore' = [cookieStore EXCEPT ![c] = "none"]
        /\ httpCache' = [httpCache EXCEPT ![c] = "none"]
    BY <1>3 DEF Destroy
  <2>2. Types' /\ MakingKnown'
    BY <1>0, <1>3, <2>1 DEF Inv, Destroy, javaVars, Types, MakingKnown, Known, Getters
  <2>3. UntouchedKnown'
    BY <1>0, <2>1 DEF Inv, Types, UntouchedKnown, Untouched, Getters
  <2>4. SharedIsKnown'
    BY <1>0, <2>1 DEF Inv, Types, SharedIsKnown, Known, Getters
  <2>5. PrivateStaysPrivate'
    BY <1>3, OthersKeepStores DEF Destroy, cookieVars, sharedVars
  <2>6. QED BY <2>2, <2>3, <2>4, <2>5 DEF Inv
<1>4. ASSUME NEW new \in SettingsValues, UpdateSettings(new) PROVE Inv'
  <2>1. /\ settings' = new /\ UNCHANGED <<launched, making, cookieStore, httpCache>>
        /\ exposed' = IF new.single_context THEN exposed \cup Untouched ELSE exposed
    BY <1>4 DEF UpdateSettings
  <2>2. exposed \subseteq exposed'
    BY <2>1
  <2>3. Types' /\ MakingKnown' /\ SharedIsKnown'
    BY <1>0, <1>4, <2>1, <2>2
       DEF Inv, UpdateSettings, javaVars, Types, MakingKnown, SharedIsKnown, Known
  <2>4. UntouchedKnown'
    BY <2>1 DEF UntouchedKnown, Untouched
  <2>5. PrivateStaysPrivate'
    BY <1>4, <2>2, OthersKeepStores DEF UpdateSettings, cookieVars, sharedVars
  <2>6. QED BY <2>3, <2>4, <2>5 DEF Inv
<1>5. ASSUME NEW c \in Getters, BeginContext(c) PROVE Inv'
  <2>1. /\ making' = [context |-> c, settings |-> settings, favorites |-> NotAsked]
        /\ UNCHANGED <<settings, launched, cookieStore, httpCache, exposed>>
        /\ making = NotMaking /\ c \in launched \cup {Fetch} /\ cookieStore[c] = "none"
    BY <1>5 DEF BeginContext, IoIdle
  <2>2. making' \in Making
    BY <1>0, <2>1 DEF Types, Making
  <2>3. Types' /\ SharedIsKnown'
    BY <1>0, <1>5, <2>1, <2>2 DEF Inv, BeginContext, javaVars, Types, SharedIsKnown, Known
  <2>4. making.context # c
    BY <2>1 DEF NotMaking, Getters
  <2>5. UntouchedKnown'
    BY <2>1, <2>4 DEF Inv, UntouchedKnown, Untouched, NotMaking, Types
  <2>6. settings.single_context => c \in Known \cup {Fetch}
    BY <2>1, <2>4 DEF Inv, UntouchedKnown, Untouched, Known
  <2>7. MakingKnown'
    BY <2>1, <2>6 DEF MakingKnown, Known
  <2>8. PrivateStaysPrivate'
    BY <1>5, OthersKeepStores DEF BeginContext, cookieVars, sharedVars
  <2>9. QED BY <2>3, <2>5, <2>7, <2>8 DEF Inv
<1>6. ASSUME AskFavorites PROVE Inv'
  <2>1. making \in Making
    BY <1>0, <1>6 DEF AskFavorites, MakesStore, Types
  <2>2. making' = [making EXCEPT !.favorites = javaFavorites]
    BY <1>6 DEF AskFavorites
  <2>3. /\ making' \in Making
        /\ making'.context = making.context
        /\ making'.settings = making.settings
    BY <1>0, <2>1, <2>2 DEF Making, Types
  <2>4. Types' /\ UntouchedKnown' /\ SharedIsKnown'
    BY <1>0, <1>6, <2>3
       DEF Inv, AskFavorites, javaVars, Types, UntouchedKnown, Untouched, SharedIsKnown, Known
  <2>5. MakingKnown'
    BY <1>6, <2>1, <2>3, NotMakingIsNot DEF Inv, MakingKnown, Known, AskFavorites
  <2>6. PrivateStaysPrivate'
    BY <1>6, OthersKeepStores DEF AskFavorites, cookieVars, sharedVars
  <2>7. QED BY <2>4, <2>5, <2>6 DEF Inv
<1>7. ASSUME FinishContext PROVE Inv'
  <2> DEFINE c == making.context
             st == making.settings
  <2>1. making \in Making /\ making # NotMaking
    BY <1>0, <1>7 DEF FinishContext, Types
  <2>2. c \in Getters /\ c # NoContext
    BY <2>1 DEF Making, Getters
  <2>3. SharesCookies(c, st) \/ SharesCache(c, st) => c \in Known
    BY <2>1 DEF Inv, MakingKnown, SharesCookies, SharesCache, HasPath
  <2>4. /\ cookieStore' = [cookieStore EXCEPT ![c] =
                             IF SharesCookies(c, st) THEN "shared" ELSE "own"]
        /\ httpCache' = [httpCache EXCEPT ![c] =
                           IF SharesCache(c, st) THEN "shared" ELSE "own"]
        /\ making' = NotMaking
        /\ UNCHANGED <<settings, launched, cached, exposed, javaVars>>
    BY <1>7 DEF FinishContext
  <2>5. Types' /\ MakingKnown'
    BY <1>0, <2>2, <2>4 DEF Inv, javaVars, Types, MakingKnown
  <2>6. Untouched' \subseteq Untouched
    BY <1>0, <2>2, <2>4 DEF Untouched, Types, Getters
  <2>7. UntouchedKnown'
    BY <2>4, <2>6 DEF Inv, UntouchedKnown
  <2>8. SharedIsKnown'
    BY <1>0, <2>2, <2>3, <2>4 DEF Inv, Types, SharedIsKnown, Known, Getters
  <2>9. UNCHANGED <<persistant_, transient_>>
    BY <1>7 DEF FinishContext, UpdateFavorites, cookieVars
  <2>10. PrivateStaysPrivate'
    BY <2>4, <2>9, OthersKeepStores
  <2>11. QED BY <2>5, <2>7, <2>8, <2>10 DEF Inv
<1>8. QED BY <1>1, <1>2, <1>3, <1>4, <1>5, <1>6, <1>7

\* The contexts stay as they are; only a known one adds to the stores.
LEMMA StoresInv ==
  ASSUME Inv, \/ \E c \in Contexts, url \in Urls, d \in Domains : ReceiveCookie(c, url, d)
              \/ \E c \in Contexts : LoadPage(c)
              \/ \E ds \in DeleteScopes : DeleteCookies(ds) \/ FinishDeletion(ds)
              \/ ClearData
              \/ \E list \in FavoriteLists : EditFavorites(list)
              \/ SendFavorites
              \/ UNCHANGED vars
  PROVE  Inv'
<1>0. /\ UNCHANGED <<settings, launched, making, cookieStore, httpCache, exposed>>
      /\ javaFavorites' \in FavoriteLists
  BY DEF Inv, Types, ReceiveCookie, LoadPage, DeleteCookies, FinishDeletion, ClearData,
         EditFavorites, SendFavorites, vars, javaVars
<1>1. Types' /\ UntouchedKnown' /\ MakingKnown' /\ SharedIsKnown'
  BY <1>0, OthersKeepContexts
<1>2. ASSUME NEW c \in Contexts, NEW url \in Urls, NEW d \in Domains, ReceiveCookie(c, url, d)
      PROVE  PrivateStaysPrivate'
  <2> DEFINE k == [domain |-> d, by |-> c]
  <2>1. UNCHANGED cached
    BY <1>2 DEF ReceiveCookie, sharedVars
  <2>2. CASE cookieStore[c] = "shared"
    <3>1. k.by \in Known
      BY <2>2 DEF Inv, SharedIsKnown
    <3>2. /\ persistant_' \subseteq persistant_ \cup {k}
          /\ transient_' \subseteq transient_ \cup {k}
      BY <1>2, <2>2 DEF ReceiveCookie, SetCookie
    <3> HIDE DEF k
    <3>3. QED BY <1>0, <2>1, <3>1, <3>2 DEF Inv, PrivateStaysPrivate, Known
  <2>3. CASE cookieStore[c] # "shared"
    BY <1>0, <1>2, <2>1, <2>3, OthersKeepStores DEF ReceiveCookie, cookieVars
  <2>4. QED BY <2>2, <2>3
<1>3. ASSUME NEW c \in Contexts, LoadPage(c) PROVE PrivateStaysPrivate'
  <2>1. c \in Known
    BY <1>3 DEF Inv, LoadPage, SharedIsKnown
  <2>2. UNCHANGED cookieVars /\ cached' = cached \cup ({c} \ {Main})
    BY <1>3 DEF LoadPage
  <2>3. QED BY <1>0, <2>1, <2>2 DEF Inv, PrivateStaysPrivate, Known, cookieVars
<1>4. ASSUME \/ \E ds \in DeleteScopes : DeleteCookies(ds) \/ FinishDeletion(ds)
             \/ ClearData
             \/ \E list \in FavoriteLists : EditFavorites(list)
             \/ SendFavorites
             \/ UNCHANGED vars
      PROVE  PrivateStaysPrivate'
  <2>1. /\ persistant_' \subseteq persistant_ /\ transient_' \subseteq transient_
        /\ cached' \subseteq cached
    BY <1>4 DEF DeleteCookies, FinishDeletion, DeleteAsync, PersistantDeleteAsync, Without,
                ClearData, EditFavorites, SendFavorites, UpdateFavorites, cookieVars,
                sharedVars, vars
  <2>2. QED BY <1>0, <2>1, OthersKeepStores
<1>5. QED BY <1>1, <1>2, <1>3, <1>4 DEF Inv

LEMMA StepInv == Inv /\ [Next]_vars => Inv'
BY ContextsInv, StoresInv DEF Next

\* What a separate context does reaches the shared cookie stores and the cache and HSTS
\* files only if single_context was switched on between its launch (LaunchShell) and its
\* first request, when SharesCookies and SharesCache read the settings: nothing set while
\* the network context is being made, later or at a restart does it.
THEOREM PrivacySafety == Spec => []PrivateStaysPrivate
<1>1. Inv => PrivateStaysPrivate
  BY DEF Inv
<1>2. QED BY <1>1, StepInv, InitInv, PTL DEF Spec

-----------------------------------------------------------------------------
(* Types *)

LEMMA SitesAreUrls ==
  /\ \A url \in Urls : GetSiteForURL(url) \in Urls
  /\ \A urls \in SUBSET Urls : SitesOf(urls) \subseteq Urls
<1>1. \A url \in Urls : GetSiteForURL(url) \in Urls
  BY CookieConstants DEF GetSiteForURL, Urls
<1>2. QED BY <1>1 DEF SitesOf

\* The site of a cookie's domain is the site of the URL that sets it.
LEMMA SiteOfCookie ==
  ASSUME NEW url \in Urls, NEW d \in CookieDomains(url)
  PROVE  d \in Domains /\ GetSiteForURL(d) = GetSiteForURL(url)
<1>1. url \in Domains /\ url # NoDomain
  BY DEF CookieDomains, Urls
<1>2. d = url \/ (d = RegisteredDomain[url] /\ RegisteredDomain[url] # NoDomain)
  BY <1>1 DEF CookieDomains
<1>3. CASE d = url
  BY <1>1, <1>3
<1>4. CASE d = RegisteredDomain[url] /\ RegisteredDomain[url] # NoDomain
  <2>1. d \in Domains /\ RegisteredDomain[d] = d
    BY <1>1, <1>4, CookieConstants
  <2>2. QED BY <1>1, <1>4, <2>1, CookieConstants DEF GetSiteForURL
<1>5. QED BY <1>2, <1>3, <1>4

LEMMA UpdateTypes ==
  ASSUME CookieTypeOK, NEW urls \in FavoriteLists, UpdateFavorites(urls)
  PROVE  CookieTypeOK'
<1>1. SitesOf(urls) \subseteq Urls
  BY SitesAreUrls, ContextConstants
<1>2. QED BY <1>1 DEF CookieTypeOK, UpdateFavorites, Symmetric

LEMMA SetTypes ==
  ASSUME CookieTypeOK, NEW url \in Urls, NEW d \in Domains, NEW c \in Contexts,
         SetCookie(url, d, c)
  PROVE  CookieTypeOK'
BY DEF CookieTypeOK, SetCookie, Cookies

LEMMA DeleteTypes ==
  ASSUME CookieTypeOK, NEW ds \in DeleteScopes, DeleteAsync(ds) \/ PersistantDeleteAsync(ds)
  PROVE  CookieTypeOK'
BY CookieConstants DEF CookieTypeOK, DeleteAsync, PersistantDeleteAsync, Without

\* The list with which the store is made is one of Java's.
LEMMA MadeWithAList ==
  ASSUME TypeOK, FinishContext, MakesStore
  PROVE  making.favorites \in FavoriteLists
BY DEF TypeOK, FinishContext, MakesStore, Making

LEMMA InitTypeOK == Init => TypeOK
<1> SUFFICES ASSUME Init PROVE TypeOK
  OBVIOUS
<1>1. favorites_ \subseteq Urls
  BY SitesAreUrls, ContextConstants DEF Init
<1>2. CookieTypeOK
  BY <1>1 DEF Init, CookieTypeOK
<1>3. QED BY <1>2 DEF Init, TypeOK

LEMMA MakingTypes ==
  ASSUME TypeOK, \/ \E c \in Getters : BeginContext(c)
                 \/ AskFavorites
                 \/ FinishContext
  PROVE  making' \in Making \cup {NotMaking}
<1>1. ASSUME NEW c \in Getters, BeginContext(c) PROVE making' \in Making
  BY <1>1 DEF BeginContext, TypeOK, Making
<1>2. ASSUME AskFavorites PROVE making' \in Making
  <2>1. making \in Making /\ making' = [making EXCEPT !.favorites = javaFavorites]
    BY <1>2 DEF AskFavorites, MakesStore, TypeOK
  <2>2. QED BY <2>1 DEF Making, TypeOK
<1>3. CASE FinishContext
  BY <1>3 DEF FinishContext
<1>4. QED BY <1>1, <1>2, <1>3

LEMMA FinishTypes == ASSUME TypeOK, FinishContext PROVE TypeOK'
<1>1. making \in Making
  BY DEF FinishContext, TypeOK
<1>2. making.context \in Getters
  BY <1>1 DEF Making
<1>3. cookieStore' \in [Getters -> {"none", "shared", "own"}]
      /\ httpCache' \in [Getters -> {"none", "shared", "own"}]
  BY <1>2 DEF FinishContext, TypeOK
<1>4. making' \in Making \cup {NotMaking}
  BY MakingTypes
<1>5. CookieTypeOK'
  <2>1. CASE MakesStore
    BY <2>1, MadeWithAList, UpdateTypes DEF FinishContext, TypeOK
  <2>2. CASE ~MakesStore
    BY <2>2 DEF FinishContext, TypeOK, CookieTypeOK, cookieVars
  <2>3. QED BY <2>1, <2>2
<1>6. cookie_store_' \in BOOLEAN /\ http_cache_' \in BOOLEAN
  BY DEF FinishContext, TypeOK, SharesCookies, SharesCache
<1>7. UNCHANGED <<settings, launched, backend, cached, exposed, javaFavorites, unsent, doomed,
                 aborted>>
  BY DEF FinishContext, javaVars
<1>8. QED BY <1>3, <1>4, <1>5, <1>6, <1>7 DEF TypeOK

\* An action of the contexts leaves the cookies alone.
LEMMA ContextTypes ==
  ASSUME TypeOK, \/ \E c \in Contexts : Launch(c) \/ Destroy(c) \/ LoadPage(c)
                 \/ \E new \in SettingsValues : UpdateSettings(new)
                 \/ \E c \in Getters : BeginContext(c)
                 \/ AskFavorites
                 \/ \E list \in FavoriteLists : EditFavorites(list)
  PROVE  TypeOK'
<1>0. CookieTypeOK'
  BY DEF Launch, Destroy, LoadPage, UpdateSettings, BeginContext, AskFavorites, EditFavorites,
         TypeOK, CookieTypeOK, cookieVars
<1>1. ASSUME NEW c \in Contexts, Launch(c) \/ Destroy(c) \/ LoadPage(c) PROVE TypeOK'
  BY <1>0, <1>1 DEF Launch, Destroy, LoadPage, TypeOK, sharedVars, javaVars, Getters
<1>2. ASSUME NEW new \in SettingsValues, UpdateSettings(new) PROVE TypeOK'
  BY <1>0, <1>2 DEF UpdateSettings, Untouched, TypeOK, sharedVars, javaVars
<1>3. CASE AskFavorites \/ \E c \in Getters : BeginContext(c)
  <2>1. making' \in Making \cup {NotMaking}
    BY <1>3, MakingTypes
  <2>2. QED BY <1>0, <1>3, <2>1 DEF BeginContext, AskFavorites, TypeOK, sharedVars, javaVars
<1>4. ASSUME NEW list \in FavoriteLists, EditFavorites(list) PROVE TypeOK'
  BY <1>0, <1>4 DEF EditFavorites, TypeOK, sharedVars
<1>5. QED BY <1>1, <1>2, <1>3, <1>4

\* An action of the shared cookie store leaves the contexts alone.
LEMMA StoreTypes ==
  ASSUME TypeOK, \/ \E c \in Contexts, url \in Urls, d \in Domains : ReceiveCookie(c, url, d)
                 \/ \E ds \in DeleteScopes : DeleteCookies(ds) \/ FinishDeletion(ds)
                 \/ ClearData
                 \/ SendFavorites
  PROVE  TypeOK'
<1>1. ASSUME NEW c \in Contexts, NEW url \in Urls, NEW d \in Domains, ReceiveCookie(c, url, d)
      PROVE  TypeOK'
  <2>1. CookieTypeOK'
    <3>1. CASE cookieStore[c] = "shared"
      BY <1>1, <3>1, SetTypes DEF ReceiveCookie, TypeOK
    <3>2. CASE cookieStore[c] # "shared"
      BY <1>1, <3>2 DEF ReceiveCookie, TypeOK, CookieTypeOK, cookieVars
    <3>3. QED BY <3>1, <3>2
  <2>2. QED BY <1>1, <2>1 DEF ReceiveCookie, TypeOK, sharedVars, javaVars
<1>2. ASSUME NEW ds \in DeleteScopes, DeleteCookies(ds) \/ FinishDeletion(ds) PROVE TypeOK'
  <2>1. CookieTypeOK'
    BY <1>2, DeleteTypes DEF DeleteCookies, FinishDeletion, TypeOK
  <2>2. doomed' \in Cookies \cup {NoCookie}
    BY <1>2 DEF DeleteCookies, FinishDeletion, IfHeld, TypeOK
  <2>3. QED BY <1>2, <2>1, <2>2 DEF DeleteCookies, FinishDeletion, TypeOK, sharedVars, javaVars
<1>3. CASE ClearData
  <2>1. CookieTypeOK'
    <3>1. CASE cookie_store_
      BY <1>3, <3>1, DeleteTypes, CookieConstants DEF ClearData, TypeOK
    <3>2. CASE ~cookie_store_
      BY <1>3, <3>2 DEF ClearData, TypeOK, CookieTypeOK, cookieVars
    <3>3. QED BY <3>1, <3>2
  <2>2. doomed' \in Cookies \cup {NoCookie}
    BY <1>3 DEF ClearData, IfHeld, TypeOK, CookieTypeOK
  <2>3. QED BY <1>3, <2>1, <2>2 DEF ClearData, TypeOK, javaVars
<1>4. CASE SendFavorites
  <2>1. CookieTypeOK'
    <3>1. CASE cookie_store_
      BY <1>4, <3>1, UpdateTypes DEF SendFavorites, TypeOK
    <3>2. CASE ~cookie_store_
      BY <1>4, <3>2 DEF SendFavorites, TypeOK, CookieTypeOK, cookieVars
    <3>3. QED BY <3>1, <3>2
  <2>2. QED BY <1>4, <2>1 DEF SendFavorites, TypeOK, sharedVars
<1>5. QED BY <1>1, <1>2, <1>3, <1>4

LEMMA TypeStep == TypeOK /\ [Next]_vars => TypeOK'
<1> SUFFICES ASSUME TypeOK, [Next]_vars PROVE TypeOK'
  OBVIOUS
<1>1. CASE Restart
  BY <1>1 DEF Restart, TypeOK, CookieTypeOK
<1>2. CASE UNCHANGED vars
  BY <1>2 DEF vars, TypeOK, CookieTypeOK, sharedVars, javaVars, cookieVars
<1>3. QED BY <1>1, <1>2, ContextTypes, StoreTypes, FinishTypes DEF Next

\* The state is well typed: what Java answers, the settings of a context being made and
\* every cookie are of the kinds the code knows.
THEOREM RequestContextsTypes == Spec => []TypeOK
<1>1. QED BY InitTypeOK, TypeStep, PTL DEF Spec

-----------------------------------------------------------------------------
(* One place for the cookies of a site *)

\* A cookie is on disk because its site was a favourite, and in memory because it was
\* not; a site for which that is no longer so has moved.
IdentityInv ==
  /\ \A k \in persistant_ : GetSiteForURL(k.domain) \in favorites_ \cup flipped
  /\ \A k \in transient_ : GetSiteForURL(k.domain) \in flipped
                           \/ GetSiteForURL(k.domain) \notin favorites_

LEMMA IdentitySafe == IdentityInv => NoSplitIdentity
BY DEF IdentityInv, NoSplitIdentity

\* Cookies are at most deleted, and the favourites stay.
LEMMA IdentityKept ==
  ASSUME IdentityInv, persistant_' \subseteq persistant_, transient_' \subseteq transient_,
         UNCHANGED <<favorites_, flipped>>
  PROVE  IdentityInv'
BY DEF IdentityInv, GetSiteForURL

LEMMA IdentityUpdated ==
  ASSUME IdentityInv, NEW urls, UpdateFavorites(urls)
  PROVE  IdentityInv'
<1>1. UNCHANGED <<persistant_, transient_>>
      /\ flipped' = flipped \cup Symmetric(favorites_, favorites_')
  BY DEF UpdateFavorites
<1>2. QED BY <1>1 DEF IdentityInv, Symmetric, GetSiteForURL

LEMMA IdentitySet ==
  ASSUME IdentityInv, NEW url \in Urls, NEW d \in CookieDomains(url), NEW c \in Contexts,
         SetCookie(url, d, c)
  PROVE  IdentityInv'
<1> DEFINE k == [domain |-> d, by |-> c]
<1>1. k.domain = d /\ GetSiteForURL(d) = GetSiteForURL(url)
  BY SiteOfCookie
<1>2. UNCHANGED <<favorites_, flipped>>
  BY DEF SetCookie
<1>3. CASE IsPersistant(url)
  <2>1. persistant_' = persistant_ \cup {k} /\ UNCHANGED transient_
    BY <1>3 DEF SetCookie
  <2>2. GetSiteForURL(k.domain) \in favorites_
    BY <1>1, <1>3 DEF IsPersistant
  <2> HIDE DEF k
  <2>3. \A l \in persistant_' : GetSiteForURL(l.domain) \in favorites_ \cup flipped
    BY <2>1, <2>2 DEF IdentityInv
  <2>4. QED BY <1>2, <2>1, <2>3 DEF IdentityInv, GetSiteForURL
<1>4. CASE ~IsPersistant(url)
  <2>1. transient_' = transient_ \cup {k} /\ UNCHANGED persistant_
    BY <1>4 DEF SetCookie
  <2>2. GetSiteForURL(k.domain) \notin favorites_
    BY <1>1, <1>4 DEF IsPersistant
  <2> HIDE DEF k
  <2>3. \A l \in transient_' : GetSiteForURL(l.domain) \in flipped
                               \/ GetSiteForURL(l.domain) \notin favorites_
    BY <2>1, <2>2 DEF IdentityInv
  <2>4. QED BY <1>2, <2>1, <2>3 DEF IdentityInv, GetSiteForURL
<1>5. QED BY <1>3, <1>4

LEMMA IdentityStep == TypeOK /\ IdentityInv /\ [Next]_vars => IdentityInv'
<1> SUFFICES ASSUME TypeOK, IdentityInv, [Next]_vars PROVE IdentityInv'
  OBVIOUS
<1>1. ASSUME NEW c \in Contexts, NEW url \in Urls, NEW d \in Domains, ReceiveCookie(c, url, d)
      PROVE  IdentityInv'
  BY <1>1, IdentitySet, IdentityKept DEF ReceiveCookie, cookieVars
<1>2. CASE FinishContext
  BY <1>2, IdentityUpdated, IdentityKept DEF FinishContext, cookieVars
<1>3. CASE SendFavorites
  BY <1>3, IdentityUpdated, IdentityKept DEF SendFavorites, cookieVars
<1>4. ASSUME NEW ds \in DeleteScopes, DeleteCookies(ds) \/ FinishDeletion(ds) PROVE IdentityInv'
  BY <1>4, IdentityKept
     DEF DeleteCookies, FinishDeletion, DeleteAsync, PersistantDeleteAsync, Without
<1>5. CASE ClearData
  BY <1>5, IdentityKept DEF ClearData, DeleteAsync, Without, cookieVars
<1>6. CASE Restart
  BY <1>6, IdentityKept DEF Restart
<1>7. ASSUME UNCHANGED cookieVars PROVE IdentityInv'
  BY <1>7, IdentityKept DEF cookieVars
<1>8. QED
  BY <1>1, <1>2, <1>3, <1>4, <1>5, <1>6, <1>7
     DEF Next, Launch, Destroy, UpdateSettings, BeginContext, AskFavorites, LoadPage,
         EditFavorites, vars

\* Two hosts of one site never have their cookies in different stores, unless the site
\* became a favourite or ceased to be one (SetCookieWithOptionsAsync decides by the
\* registered domain, UpdateFavorites moves no cookies).
THEOREM OnePlacePerSite == Spec => []NoSplitIdentity
<1>1. Init => IdentityInv
  BY DEF Init, IdentityInv
<1>2. QED BY <1>1, IdentitySafe, IdentityStep, InitTypeOK, TypeStep, PTL DEF Spec

-----------------------------------------------------------------------------
(* What CLEAR_DATA reaches *)

\* The cookie is out of memory at once, and off the disk when the deletion is through.
DoomedInv ==
  doomed \notin transient_ /\ (deleting[Domains] = 0 => doomed \notin persistant_)

LEMMA DoomedSafe == DoomedInv => ClearedIsGone
BY DEF DoomedInv, ClearedIsGone

\* No store holds the cookie that stands for none.
LEMMA NoCookieHeld ==
  ASSUME NEW store \in SUBSET Cookies PROVE NoCookie \notin store
BY CookieConstants DEF NoCookie, Cookies

\* Cookies are at most deleted, and no deletion ends.
LEMMA DoomedKept ==
  ASSUME TypeOK', DoomedInv, doomed' \in {doomed, NoCookie}, persistant_' \subseteq persistant_,
         transient_' \subseteq transient_, deleting'[Domains] = 0 => deleting[Domains] = 0
  PROVE  DoomedInv'
<1>1. NoCookie \notin persistant_' \cup transient_'
  BY NoCookieHeld DEF TypeOK, CookieTypeOK
<1>2. QED BY <1>1 DEF DoomedInv

LEMMA DoomedSet ==
  ASSUME TypeOK, TypeOK', DoomedInv, NEW c \in Contexts, NEW url \in Urls, NEW d \in Domains,
         ReceiveCookie(c, url, d)
  PROVE  DoomedInv'
<1> DEFINE k == [domain |-> d, by |-> c]
<1>1. /\ doomed' = IF k = doomed THEN NoCookie ELSE doomed
      /\ UNCHANGED deleting
      /\ persistant_' \subseteq persistant_ \cup {k} /\ transient_' \subseteq transient_ \cup {k}
  BY DEF ReceiveCookie, SetCookie, cookieVars
<1>2. NoCookie \notin Cookies
  BY CookieConstants DEF NoCookie, Cookies
<1>3. persistant_' \subseteq Cookies /\ transient_' \subseteq Cookies
  BY DEF TypeOK, CookieTypeOK
<1> HIDE DEF k
<1>4. QED BY <1>1, <1>2, <1>3 DEF DoomedInv

LEMMA DoomedStep == TypeOK /\ TypeOK' /\ DoomedInv /\ [Next]_vars => DoomedInv'
<1> SUFFICES ASSUME TypeOK, TypeOK', DoomedInv, [Next]_vars PROVE DoomedInv'
  OBVIOUS
<1>0. \A k \in persistant_ \cup transient_ : k.domain \in Domains
  BY DEF TypeOK, CookieTypeOK, Cookies
<1>1. ASSUME NEW ds \in DeleteScopes, DeleteCookies(ds) PROVE DoomedInv'
  <2>1. deleting' = [deleting EXCEPT ![ds] = @ + 1] /\ deleting \in [DeleteScopes -> Nat]
    BY <1>1 DEF DeleteCookies, DeleteAsync, TypeOK, CookieTypeOK
  <2>2. deleting'[Domains] = 0 => deleting[Domains] = 0
    BY <2>1, CookieConstants
  <2>3. doomed' \in {doomed, NoCookie}
    BY <1>1 DEF DeleteCookies, IfHeld
  <2>4. QED BY <1>1, <2>2, <2>3, DoomedKept DEF DeleteCookies, DeleteAsync, Without
<1>2. ASSUME NEW ds \in DeleteScopes, FinishDeletion(ds) PROVE DoomedInv'
  <2>1. /\ doomed' \in {doomed, NoCookie} /\ UNCHANGED transient_
        /\ deleting \in [DeleteScopes -> Nat]
        /\ persistant_' = Without(persistant_, ds)
        /\ deleting' = [deleting EXCEPT ![ds] = @ - 1]
    BY <1>2 DEF FinishDeletion, PersistantDeleteAsync, IfHeld, TypeOK, CookieTypeOK
  <2>2. CASE ds = Domains
    <3>1. persistant_' = {}
      BY <1>0, <2>1, <2>2 DEF Without
    <3>2. doomed' \notin transient_' /\ doomed' \notin persistant_'
      BY <2>1, <3>1, NoCookieHeld DEF DoomedInv, TypeOK, CookieTypeOK
    <3>. QED BY <3>2 DEF DoomedInv
  <2>3. CASE ds # Domains
    <3>1. deleting'[Domains] = deleting[Domains]
      BY <2>1, <2>3, CookieConstants
    <3>2. persistant_' \subseteq persistant_
      BY <2>1 DEF Without
    <3>. QED BY <2>1, <3>1, <3>2, DoomedKept
  <2>4. QED BY <2>2, <2>3
<1>3. CASE ClearData
  <2>1. CASE cookie_store_
    <3>1. /\ transient_' = Without(transient_, Domains) /\ deleting \in [DeleteScopes -> Nat]
          /\ deleting' = [deleting EXCEPT ![Domains] = @ + 1]
      BY <1>3, <2>1 DEF ClearData, DeleteAsync, TypeOK, CookieTypeOK
    <3>a. deleting'[Domains] # 0
      BY <3>1, CookieConstants
    <3>2. transient_' = {}
      BY <1>0, <3>1 DEF Without
    <3>3. QED BY <3>2, <3>a DEF DoomedInv
  <2>2. CASE ~cookie_store_
    BY <1>3, <2>2, DoomedKept DEF ClearData, cookieVars
  <2>3. QED BY <2>1, <2>2
<1>4. CASE Restart
  <2>1. NoCookie \notin persistant_
    BY <1>0, CookieConstants DEF NoCookie
  <2>2. QED BY <1>4, <2>1 DEF Restart, DoomedInv
<1>5. CASE FinishContext \/ SendFavorites
  BY <1>5, DoomedKept DEF FinishContext, SendFavorites, UpdateFavorites, cookieVars
<1>6. ASSUME UNCHANGED <<cookieVars, doomed>> PROVE DoomedInv'
  BY <1>6, DoomedKept DEF cookieVars
<1>7. QED
  BY <1>1, <1>2, <1>3, <1>4, <1>5, <1>6, DoomedSet
     DEF Next, Launch, Destroy, UpdateSettings, BeginContext, AskFavorites, LoadPage,
         EditFavorites, vars

\* Once the deletion a CLEAR_DATA started is through, no cookie that the shared store
\* held is left, whatever other deletions, cookies and favourites come in between.
THEOREM ClearingClears == Spec => []ClearedIsGone
<1>1. Init => DoomedInv
  BY DEF Init, DoomedInv
<1>2. QED BY <1>1, DoomedSafe, DoomedStep, InitTypeOK, TypeStep, PTL DEF Spec

-----------------------------------------------------------------------------
(* Where a cookie goes *)

\* Unless Java has an update to send: the store's sites are those of its list, and so
\* is the answer with which the store is being made.  Whoever uses the shared store
\* knows that it exists.
FollowInv ==
  /\ Running /\ ~unsent /\ cookie_store_ => favorites_ = SitesOf(javaFavorites)
  /\ Running /\ ~unsent /\ MakesStore /\ making.favorites # NotAsked
       => making.favorites = javaFavorites
  /\ \A c \in Contexts : cookieStore[c] = "shared" => cookie_store_

\* Nothing happens to what the invariant speaks of.
LEMMA FollowKept ==
  ASSUME FollowInv,
         UNCHANGED <<making, cookieStore, cookie_store_, javaVars, aborted, favorites_>>
  PROVE  FollowInv'
BY DEF FollowInv, Running, MakesStore, SharesCookies, HasPath, SitesOf, GetSiteForURL, javaVars

\* The store comes into being with Java's answer, or has been there all the time.
LEMMA FollowFinish ==
  ASSUME TypeOK, FollowInv, FinishContext
  PROVE  FollowInv'
<1> DEFINE c  == making.context
           st == making.settings
<1>1. making \in Making /\ making # NotMaking /\ Running
  BY DEF FinishContext, TypeOK
<1>2. c \in Getters
  BY <1>1 DEF Making
<1>3. /\ cookie_store_' = (cookie_store_ \/ SharesCookies(c, st))
      /\ cookieStore' = [cookieStore EXCEPT ![c] =
                           IF SharesCookies(c, st) THEN "shared" ELSE "own"]
      /\ making' = NotMaking
      /\ UNCHANGED <<javaFavorites, unsent, aborted>>
  BY DEF FinishContext, javaVars
<1>4. ASSUME ~unsent', cookie_store_' PROVE favorites_' = SitesOf(javaFavorites)
  <2>1. CASE MakesStore
    BY <1>1, <1>3, <1>4, <2>1 DEF FinishContext, FollowInv, UpdateFavorites
  <2>2. CASE ~MakesStore
    <3>1. favorites_' = favorites_
      BY <2>2 DEF FinishContext, cookieVars
    <3>2. cookie_store_
      BY <1>1, <1>3, <1>4, <2>2 DEF MakesStore
    <3>3. QED BY <1>1, <1>3, <1>4, <3>1, <3>2 DEF FollowInv
  <2>3. QED BY <2>1, <2>2
<1>5. ~MakesStore'
  BY <1>3 DEF MakesStore
<1>6. ASSUME NEW d \in Contexts, cookieStore'[d] = "shared" PROVE cookie_store_'
  <2>1. d \in Getters /\ cookieStore \in [Getters -> {"none", "shared", "own"}]
    BY DEF TypeOK, Getters
  <2>2. CASE d = c
    BY <1>2, <1>3, <1>6, <2>1, <2>2
  <2>3. CASE d # c
    BY <1>2, <1>3, <1>6, <2>1, <2>3 DEF FollowInv
  <2>4. QED BY <2>2, <2>3
<1>7. SitesOf(javaFavorites)' = SitesOf(javaFavorites)
  BY <1>3 DEF SitesOf, GetSiteForURL
<1>8. QED BY <1>4, <1>5, <1>6, <1>7 DEF FollowInv

\* A context begins to be made, and Java is asked.
LEMMA FollowMaking ==
  ASSUME TypeOK, FollowInv, AskFavorites \/ \E c \in Getters : BeginContext(c)
  PROVE  FollowInv'
<1>1. UNCHANGED <<cookieStore, cookie_store_, javaVars, aborted, favorites_>>
  BY DEF AskFavorites, BeginContext, cookieVars, sharedVars
<1>2. SitesOf(javaFavorites)' = SitesOf(javaFavorites)
  BY <1>1 DEF SitesOf, GetSiteForURL, javaVars
<1>3. CASE AskFavorites
  <2>1. making \in Making /\ making' = [making EXCEPT !.favorites = javaFavorites]
    BY <1>3 DEF AskFavorites, MakesStore, TypeOK
  <2>2. making'.favorites = javaFavorites
    BY <2>1 DEF Making
  <2>3. QED BY <1>1, <1>2, <2>2 DEF FollowInv, Running, javaVars
<1>4. CASE \E c \in Getters : BeginContext(c)
  <2>1. making'.favorites = NotAsked
    BY <1>4 DEF BeginContext
  <2>2. QED BY <1>1, <1>2, <2>1 DEF FollowInv, Running, javaVars
<1>5. QED BY <1>3, <1>4

LEMMA FollowStep == TypeOK /\ FollowInv /\ [Next]_vars => FollowInv'
<1> SUFFICES ASSUME TypeOK, FollowInv, [Next]_vars PROVE FollowInv'
  OBVIOUS
<1>1. CASE Restart
  BY <1>1 DEF Restart, FollowInv, MakesStore, Getters
<1>2. ASSUME NEW c \in Contexts, Destroy(c) PROVE FollowInv'
  <2>1. UNCHANGED <<making, cookie_store_, javaVars, aborted, favorites_>>
    BY <1>2 DEF Destroy, sharedVars, cookieVars
  <2>2. \A d \in Contexts : cookieStore'[d] = "shared" => cookie_store_
    BY <1>2 DEF Destroy, FollowInv, TypeOK, Getters
  <2>3. QED
    BY <2>1, <2>2 DEF FollowInv, Running, MakesStore, SharesCookies, HasPath, SitesOf,
                      GetSiteForURL, javaVars
<1>3. ASSUME NEW list \in FavoriteLists, EditFavorites(list) PROVE FollowInv'
  BY <1>3 DEF EditFavorites, FollowInv, sharedVars
<1>4. CASE SendFavorites
  <2>1. UNCHANGED <<making, cookieStore, cookie_store_, javaFavorites>>
    BY <1>4 DEF SendFavorites, sharedVars
  <2>2. CASE cookie_store_
    BY <1>4, <2>1, <2>2
       DEF SendFavorites, FollowInv, UpdateFavorites, MakesStore, SitesOf, GetSiteForURL
  <2>3. CASE ~cookie_store_
    BY <1>4, <2>1, <2>3 DEF SendFavorites, FollowInv, Running
  <2>4. QED BY <2>2, <2>3
<1>5. ASSUME NEW c \in Contexts, NEW url \in Urls, NEW d \in Domains, ReceiveCookie(c, url, d)
      PROVE  FollowInv'
  BY <1>5, FollowKept DEF ReceiveCookie, SetCookie, sharedVars, cookieVars
<1>6. ASSUME NEW ds \in DeleteScopes, DeleteCookies(ds) \/ FinishDeletion(ds) PROVE FollowInv'
  BY <1>6, FollowKept
     DEF DeleteCookies, FinishDeletion, DeleteAsync, PersistantDeleteAsync, sharedVars
<1>7. CASE ClearData
  BY <1>7, FollowKept DEF ClearData, DeleteAsync, cookieVars
<1>8. ASSUME UNCHANGED <<making, cookieStore, cookie_store_, javaVars, aborted, cookieVars>>
      PROVE  FollowInv'
  BY <1>8, FollowKept DEF cookieVars
<1>9. QED
  BY <1>1, <1>2, <1>3, <1>4, <1>5, <1>6, <1>7, <1>8, FollowFinish, FollowMaking
     DEF Next, Launch, UpdateSettings, LoadPage, vars, sharedVars

\* What a step may add to the stores.
Follows ==
  ~unsent =>
    /\ \A k \in persistant_' \ persistant_ : GetSiteForURL(k.domain) \in SitesOf(javaFavorites)
    /\ \A k \in transient_' \ transient_ : GetSiteForURL(k.domain) \notin SitesOf(javaFavorites)

\* Cookies are only added by SetCookie, and the store by its sites.
LEMMA FollowSet ==
  ASSUME FollowInv, NEW c \in Contexts, NEW url \in Urls, NEW d \in Domains,
         ReceiveCookie(c, url, d)
  PROVE  Follows
<1> DEFINE k == [domain |-> d, by |-> c]
<1>1. CASE cookieStore[c] = "shared"
  <2>1. d \in CookieDomains(url) /\ Running /\ SetCookie(url, d, c) /\ cookie_store_
    BY <1>1 DEF ReceiveCookie, FollowInv
  <2>2. GetSiteForURL(k.domain) = GetSiteForURL(url)
    BY <2>1, SiteOfCookie
  <2>3. ~unsent => (IsPersistant(url) <=> GetSiteForURL(k.domain) \in SitesOf(javaFavorites))
    BY <2>1, <2>2 DEF FollowInv, IsPersistant
  <2>4. \/ IsPersistant(url) /\ persistant_' = persistant_ \cup {k} /\ UNCHANGED transient_
        \/ ~IsPersistant(url) /\ transient_' = transient_ \cup {k} /\ UNCHANGED persistant_
    BY <2>1 DEF SetCookie
  <2> HIDE DEF k
  <2>5. QED BY <2>3, <2>4 DEF Follows
<1>2. CASE cookieStore[c] # "shared"
  BY <1>2 DEF ReceiveCookie, cookieVars, Follows
<1>3. QED BY <1>1, <1>2

LEMMA FollowsStep == FollowInv /\ [Next]_vars => Follows
<1> SUFFICES ASSUME FollowInv, [Next]_vars PROVE Follows
  OBVIOUS
<1>1. ASSUME persistant_' \subseteq persistant_, transient_' \subseteq transient_ PROVE Follows
  BY <1>1 DEF Follows
<1>2. QED
  BY <1>1, FollowSet
     DEF Next, Restart, Launch, Destroy, UpdateSettings, BeginContext, AskFavorites,
         FinishContext, LoadPage, DeleteCookies, FinishDeletion, ClearData, EditFavorites,
         SendFavorites, UpdateFavorites, DeleteAsync, PersistantDeleteAsync, Without,
         cookieVars, vars

\* SetCookieWithOptionsAsync sends a cookie to disk exactly if its site is on the list
\* the user sees in Java, however the making of the store, edits, restarts and updates
\* interleave, but for the time between an edit and the message about it.
THEOREM CookiesFollow == Spec => CookiesFollowTheList
<1>1. Init => FollowInv
  BY DEF Init, FollowInv, MakesStore, Getters
<1>2. FollowInv /\ [Next]_vars
        => [~unsent =>
              /\ \A k \in persistant_' \ persistant_ :
                    GetSiteForURL(k.domain) \in SitesOf(javaFavorites)
              /\ \A k \in transient_' \ transient_ :
                    GetSiteForURL(k.domain) \notin SitesOf(javaFavorites)]_vars
  BY FollowsStep DEF Follows
<1>3. QED
  BY <1>1, <1>2, FollowStep, InitTypeOK, TypeStep, PTL DEF Spec, CookiesFollowTheList
=============================================================================
