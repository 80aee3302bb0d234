-------------------------------- MODULE Page --------------------------------
(***************************************************************************)
(* One tab and its page: the style sheets the render process is asked to   *)
(* put into documents, and the icon of the page.                           *)
(*                                                                         *)
(* The render process and the UI thread of the browser process talk over   *)
(* two FIFO channels.  The message that a document element exists and the  *)
(* order to inject name the frame, not the document, so both may be        *)
(* overtaken by a navigation.  The rules of a render process are those of  *)
(* its launch.                                                             *)
(*                                                                         *)
(* Documents 1, 2, ... are the incarnations of the page in the order of    *)
(* their creation; 0 is no document.  Only the main frame is modelled.     *)
(***************************************************************************)
EXTENDS StyleSheets

CONSTANTS
  MaxDocs,       \* bound of the model: how many documents the tab loads
  Whitelists,    \* the sets of URLs Blocker::IsWhitelisted may answer TRUE for
  RuleLists,     \* the rule files Java may install
  Icons,         \* records [id, type, diff]: diff is the distance of the size from the
                 \* ideal one, or Unsized
  IconLists,     \* the lists of candidates a page may offer
  Unsized,       \* bigger than every distance
  NoIcon,
  MaxMessages    \* bound of the model: messages on the way to the UI thread

Docs == 1 .. MaxDocs

ASSUME PageConstants ==
  /\ MaxDocs \in Nat
  /\ MaxMessages \in Nat
  /\ Whitelists \subseteq SUBSET Urls
  /\ RuleLists \subseteq Seq(SelectorRules)
  /\ Unsized \in Nat
  /\ \A i \in Icons : i.type \in {"favicon", "touch", "invalid"} /\ i.diff \in 0 .. Unsized
  /\ IconLists \subseteq Seq(Icons)
  /\ NoIcon \notin Icons \cup [doc : Docs, icon : Icons]

VARIABLES
  inject_css,          \* the setting filters.inject_css
  whitelist,           \* the URLs Blocker::IsWhitelisted accepts
  file_path_,          \* the rule file installed last
  rules,               \* render process: the rule file it was launched with
  url,                 \* the URL of each document
  loaded,              \* how many documents there have been
  current,             \* render process: the document in the frame
  element,             \* render process: does it have its document element?
  sheets,              \* render process: what was put into each document, order by order
  toBrowser,           \* messages to the UI thread
  toRenderer,          \* orders to inject on their way to the render process
  committed,           \* UI thread: the last committed document
  notifying,           \* UI thread: Java is being told of the new URL
  pending,             \* UI thread: the URL Java asked for, while it is not committed
  favicon_candidate_,  \* UI thread: the icon (and, history, the document that offered it)
  offered,             \* history: the candidates the committed document offered last
  download             \* the favicon being downloaded for Java, and for which site

settingVars == <<inject_css, whitelist, file_path_>>
rendererVars == <<rules, url, loaded, current, element, sheets>>
uiVars == <<committed, notifying, pending, favicon_candidate_, offered, download>>
vars == <<settingVars, rendererVars, toBrowser, toRenderer, uiVars>>

Messages == [type : {"Commit"}, doc : Docs] \cup [type : {"DocumentElement"}]
              \cup [type : {"FaviconURL"}, icons : IconLists]
Candidates == [doc : Docs, icon : Icons]

\* site: the visible URL when Java asked; between (history): was the tab on its way
\* from one page to another?
Downloads == [site : Urls, icon : Candidates, between : BOOLEAN]
NoDownload == [site |-> NoUrl]

TypeOK ==
  /\ inject_css \in BOOLEAN
  /\ whitelist \in Whitelists
  /\ {file_path_, rules} \subseteq RuleLists
  /\ url \in [Docs -> Urls]
  /\ loaded \in 0 .. MaxDocs
  /\ current \in {0, loaded}
  /\ element \in BOOLEAN
  /\ sheets \in [Docs -> Seq(Seq(Seq(Selectors)))]
  /\ toBrowser \in Seq(Messages)
  /\ toRenderer \in 0 .. MaxDocs
  /\ committed \in 0 .. loaded
  /\ notifying \in BOOLEAN
  /\ pending \in Urls \cup {NoUrl}
  /\ favicon_candidate_ \in Candidates \cup {NoIcon}
  /\ offered \in IconLists \cup {<<>>}
  /\ download \in Downloads \cup {NoDownload}

Init ==
  /\ inject_css \in BOOLEAN
  /\ whitelist \in Whitelists
  /\ file_path_ \in RuleLists
  /\ rules = file_path_
  /\ url \in [Docs -> Urls]
  /\ loaded = 0
  /\ current = 0
  /\ element = FALSE
  /\ sheets = [d \in Docs |-> <<>>]
  /\ toBrowser = <<>>
  /\ toRenderer = 0
  /\ committed = 0
  /\ notifying = FALSE
  /\ pending = NoUrl
  /\ favicon_candidate_ = NoIcon
  /\ offered = <<>>
  /\ download = NoDownload

\* What InjectStyleSheets puts into a document, for the compiled rules of each file.
Sheets == [list \in RuleLists |->
             LET b == UpdateRulesForRenderProcess(list)
             IN  [u \in Urls |-> InjectStyleSheets(b, u.host)]]

Send(m) ==
  /\ Len(toBrowser) < MaxMessages
  /\ toBrowser' = Append(toBrowser, m)

-----------------------------------------------------------------------------
(* Render process *)

\* The next document is committed in the frame.
Navigate ==
  /\ loaded < MaxDocs
  /\ loaded' = loaded + 1
  /\ current' = loaded + 1
  /\ element' = FALSE
  /\ Send([type |-> "Commit", doc |-> loaded + 1])
  /\ UNCHANGED <<settingVars, rules, url, sheets, toRenderer, uiVars>>

DidCreateDocumentElement ==
  /\ current # 0
  /\ ~element
  /\ element' = TRUE
  /\ Send([type |-> "DocumentElement"])
  /\ UNCHANGED <<settingVars, rules, url, loaded, current, sheets, toRenderer, uiVars>>

\* The page names its icons, once or several times.
OfferIcons(icons) ==
  /\ current # 0
  /\ element
  /\ Send([type |-> "FaviconURL", icons |-> icons])
  /\ UNCHANGED <<settingVars, rendererVars, toRenderer, uiVars>>

\* Whatever document is in the frame now gets the sheets.
OnInjectCssInFrame ==
  /\ toRenderer > 0
  /\ current # 0
  /\ toRenderer' = toRenderer - 1
  /\ sheets' = [sheets EXCEPT ![current] =
       Append(@, Sheets[rules][url[current]])]
  /\ UNCHANGED <<settingVars, rules, url, loaded, current, element, toBrowser, uiVars>>

\* The render process crashes and, when the UI thread has handled what it had sent, a
\* new one is launched with the rule file of that moment.
Relaunch ==
  /\ current # 0
  /\ toBrowser = <<>>
  /\ ~notifying
  /\ rules' = file_path_
  /\ current' = 0
  /\ element' = FALSE
  /\ toRenderer' = 0
  /\ UNCHANGED <<settingVars, url, loaded, sheets, toBrowser, uiVars>>

-----------------------------------------------------------------------------
(* UI thread *)

Receive(type) ==
  /\ ~notifying
  /\ toBrowser # <<>>
  /\ Head(toBrowser).type = type
  /\ toBrowser' = Tail(toBrowser)

\* DidNavigateMainFrame up to SendCommand(UPDATE_VISIBLE_URL).
DidNavigateMainFrame ==
  /\ Receive("Commit")
  /\ committed' = Head(toBrowser).doc
  /\ pending' = NoUrl
  /\ notifying' = TRUE
  /\ UNCHANGED <<settingVars, rendererVars, toRenderer, favicon_candidate_, offered,
                 download>>

\* Mutant: the icon of the previous page is kept.
ResetFaviconMutKeeps ==
  /\ notifying
  /\ notifying' = FALSE
  /\ offered' = <<>>
  /\ UNCHANGED <<settingVars, rendererVars, toBrowser, toRenderer, committed, pending,
                 favicon_candidate_, download>>

\* Its last statement, after Java has returned.
ResetFavicon ==
  /\ notifying
  /\ notifying' = FALSE
  /\ favicon_candidate_' = NoIcon
  /\ offered' = <<>>
  /\ UNCHANGED <<settingVars, rendererVars, toBrowser, toRenderer, committed, pending,
                 download>>

\* Mutant: the URL Java asked for is looked at, instead of the committed one.
OnNotifyDidCreateDocumentElementMutVisible ==
  /\ Receive("DocumentElement")
  /\ toRenderer' = IF inject_css
                      /\ (IF pending # NoUrl THEN pending ELSE url[committed]) \notin whitelist
                     THEN toRenderer + 1 ELSE toRenderer
  /\ UNCHANGED <<settingVars, rendererVars, uiVars>>

OnNotifyDidCreateDocumentElement ==
  /\ Receive("DocumentElement")
  /\ toRenderer' = IF inject_css /\ url[committed] \notin whitelist
                     THEN toRenderer + 1 ELSE toRenderer
  /\ UNCHANGED <<settingVars, rendererVars, uiVars>>

\* One round of the loop in DidUpdateFaviconURL: a touch icon beats the others, a
\* closer size beats the size remembered (which is not that of the first icon).
Better(c, f) ==
  LET touch == f.type = "touch"
  IN  IF f.type = "invalid" THEN c
      ELSE IF c.best = NoIcon \/ (touch /\ ~c.is_touch)
        THEN [c EXCEPT !.best = f, !.is_touch = touch]
      ELSE IF touch = c.is_touch /\ f.diff < c.size_diff
        THEN [best |-> f, size_diff |-> f.diff, is_touch |-> touch]
      ELSE c

\* Mutant: only the size counts.
BestCandidateMutSize(icons) ==
  FoldLeft(LAMBDA c, f : IF f.type # "invalid" /\ (c = NoIcon \/ f.diff < c.diff) THEN f ELSE c,
           NoIcon, icons)

\* What the loop remembers after each icon.
Considered(icons) ==
  LET c[n \in 0 .. Len(icons)] ==
        IF n = 0 THEN [best |-> NoIcon, size_diff |-> Unsized, is_touch |-> FALSE]
                 ELSE Better(c[n - 1], icons[n])
  IN  c

BestCandidate(icons) == Considered(icons)[Len(icons)].best

\* Mutant: a candidate is remembered even when every icon is invalid.
DidUpdateFaviconURLMutAlways ==
  /\ Receive("FaviconURL")
  /\ offered' = Head(toBrowser).icons
  /\ favicon_candidate_' = [doc |-> committed, icon |-> BestCandidate(offered')]
  /\ UNCHANGED <<settingVars, rendererVars, toRenderer, committed, notifying, pending,
                 download>>

DidUpdateFaviconURL ==
  /\ Receive("FaviconURL")
  /\ LET icons == Head(toBrowser).icons
         best  == BestCandidate(icons)
     IN  /\ offered' = icons
         /\ favicon_candidate_' = IF best = NoIcon THEN favicon_candidate_
                                  ELSE [doc |-> committed, icon |-> best]
  /\ UNCHANGED <<settingVars, rendererVars, toRenderer, committed, notifying, pending,
                 download>>

-----------------------------------------------------------------------------
(* Java: at its message loop or, on the UI thread, inside the notification *)

\* LOAD_URL.
Load(u) ==
  /\ loaded < MaxDocs
  /\ pending' = u
  /\ UNCHANGED <<settingVars, rendererVars, toBrowser, toRenderer, committed, notifying,
                 favicon_candidate_, offered, download>>

\* The load fails or is stopped.
Abandon ==
  /\ ~notifying
  /\ pending # NoUrl
  /\ pending' = NoUrl
  /\ UNCHANGED <<settingVars, rendererVars, toBrowser, toRenderer, committed, notifying,
                 favicon_candidate_, offered, download>>

\* DOWNLOAD_FAVICON: the visible URL and the candidate of this moment.  One download
\* at a time (bound of the model: downloads share nothing).
DownloadFavicon ==
  /\ committed # 0
  /\ favicon_candidate_ # NoIcon
  /\ download = NoDownload
  /\ download' = [site |-> IF pending # NoUrl THEN pending ELSE url[committed],
                  icon |-> favicon_candidate_,
                  between |-> notifying \/ pending # NoUrl]
  /\ UNCHANGED <<settingVars, rendererVars, toBrowser, toRenderer, committed, notifying,
                 pending, favicon_candidate_, offered>>

\* The download ends: Java receives the image, if there is one, with the site.
FaviconDownloaded ==
  /\ ~notifying
  /\ download # NoDownload
  /\ download' = NoDownload
  /\ UNCHANGED <<settingVars, rendererVars, toBrowser, toRenderer, committed, notifying,
                 pending, favicon_candidate_, offered>>

\* UPDATE_SETTINGS, UPDATE_BLOCKING_WHITELIST, UPDATE_BLOCKING_RULES.
UpdateFilters ==
  /\ inject_css' \in BOOLEAN
  /\ whitelist' \in Whitelists
  /\ file_path_' \in RuleLists
  /\ UNCHANGED <<rendererVars, toBrowser, toRenderer, uiVars>>

Next ==
  \/ Navigate
  \/ DidCreateDocumentElement
  \/ \E icons \in IconLists : OfferIcons(icons)
  \/ OnInjectCssInFrame
  \/ Relaunch
  \/ DidNavigateMainFrame
  \/ ResetFavicon
  \/ OnNotifyDidCreateDocumentElement
  \/ DidUpdateFaviconURL
  \/ \E u \in Urls : Load(u)
  \/ Abandon
  \/ DownloadFavicon
  \/ FaviconDownloaded
  \/ UpdateFilters

\* The UI thread and the render process handle their messages, and a notification
\* returns; a parser creates the document element of the page it has.
Fairness ==
  /\ WF_vars(DidNavigateMainFrame \/ OnNotifyDidCreateDocumentElement \/ DidUpdateFaviconURL)
  /\ WF_vars(ResetFavicon)
  /\ WF_vars(OnInjectCssInFrame)

Spec == Init /\ [][Next]_vars /\ Fairness

-----------------------------------------------------------------------------
(* Properties *)

\* The message about the document element of the current document is on its way.
Announced ==
  \E i \in DOMAIN toBrowser :
    /\ toBrowser[i].type = "DocumentElement"
    /\ \A j \in (i + 1) .. Len(toBrowser) : toBrowser[j].type # "Commit"

\* An untrusted page that stays does get its style sheets, unless injection is switched
\* off or the page becomes trusted at some moment meanwhile, although no message names
\* the document it is about.
StylesArrive ==
  \A d \in Docs :
    current = d /\ Announced ~> \/ sheets[d] # <<>>
                                \/ current # d
                                \/ ~inject_css
                                \/ url[d] \in whitelist

\* Each time a document gets style sheets, they hold what the rule list of its render
\* process asks for on its host, split as the engine's limit demands.
SheetsAreRules ==
  current # 0 =>
    \A i \in DOMAIN sheets[current] :
      SheetsFollowRules(sheets[current][i], rules, url[current].host)

\* The icon Java files under a site was offered by a page of that URL, unless Java
\* asked for it while the tab was on its way to another page: the candidate does not
\* outlive the page that offered it.
FaviconOfSite ==
  download # NoDownload => download.between \/ url[download.icon.doc] = download.site

\* The icon chosen is one the page offered last, and a touch icon if there is one.
TouchIconPreferred ==
  LET valid == {i \in DOMAIN offered : offered[i].type # "invalid"}
      touch == {i \in DOMAIN offered : offered[i].type = "touch"}
  IN  valid # {} =>
        /\ favicon_candidate_ # NoIcon
        /\ favicon_candidate_.icon \in {offered[i] : i \in IF touch # {} THEN touch ELSE valid}
=============================================================================
