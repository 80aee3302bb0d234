------------------------------ MODULE Request ------------------------------
(***************************************************************************)
(* The life of a URL request in the network stack, with the handler the    *)
(* program plugs into it (ShellNetworkDelegate::OnBeforeURLRequest), the   *)
(* Blocker and the HttpsRewriter it asks, and the settings it reads.  (The *)
(* tab's log it writes is in TabView.)                                     *)
(*                                                                         *)
(* Two threads: IO runs the handler, one request at a time, in steps       *)
(* between which another thread can change what it reads: the whitelist,   *)
(* the settings, the blacklist once per parent domain, the settings again, *)
(* and the rewriter.  UI runs Java's messages, one at a time, an entry of  *)
(* a list per step.                                                        *)
(*                                                                         *)
(* The network stack (outside src/) restarts a request at new_url when the *)
(* handler sets it, and follows server redirects, at most MaxRedirects of  *)
(* them; every restart runs the handler again.                             *)
(***************************************************************************)
EXTENDS Blocker, HttpsRewriter

CONSTANTS
  Requests,
  Pages,             \* the pages requests belong to, a subset of Urls
  SettingsValues,    \* records [enabled, https_only, blacklist, clear_referrer]
  RuleLists,         \* the blocking rule lists Java may send
  Whitelists,        \* the whitelists Java may send
  HttpsRuleLists,    \* the rewriting rule lists Java may send
  MaxRedirects       \* server redirects per request (a limit of the network stack)

ASSUME RequestConstants ==
  /\ Pages \subseteq Urls
  /\ SettingsValues \subseteq [enabled : BOOLEAN, https_only : BOOLEAN,
                               blacklist : BOOLEAN, clear_referrer : BOOLEAN]
  /\ RuleLists \subseteq Seq(Rule)
  /\ Whitelists \subseteq Seq(WhitelistEntry)
  /\ HttpsRuleLists \subseteq Seq(RuleSets)
  /\ MaxRedirects \in Nat

VARIABLES
  settings,      \* the global settings the handler reads
  phase,         \* per request: where it is
  url,           \* the URL it is at
  firstParty,    \* first_party_for_cookies: the page it belongs to
  autocomplete,  \* did the Fetcher's autocomplete issue it?
  referrer,      \* does it still carry a referrer?
  prev,          \* prev_rewrites_, the user data of the request
  redirects,     \* server redirects followed so far
  walk,          \* the parent domain of its host to be looked up next
  rewritten,     \* history: how often it was rewritten away from each URL (up to 2)
  trusted,       \* history: an entry installed when its page was checked trusts the page
  stable         \* history: nothing the handler reads changed since it was entered

requestVars == <<phase, url, firstParty, autocomplete, referrer, prev, redirects, walk,
                 rewritten, trusted>>
vars == <<settings, requestVars, stable, blockerVars, rewriterVars>>

Phases == {"idle", "starting", "foreign", "walking", "filtered", "cleaned", "sent",
           "blocked", "failed", "done"}

TypeOK ==
  /\ settings \in SettingsValues
  /\ phase \in [Requests -> Phases]
  /\ url \in [Requests -> Urls]
  /\ firstParty \in [Requests -> Pages]
  /\ autocomplete \in [Requests -> BOOLEAN]
  /\ referrer \in [Requests -> BOOLEAN]
  /\ prev \in [Requests -> SUBSET Urls]
  /\ redirects \in [Requests -> 0 .. MaxRedirects]
  /\ walk \in [Requests -> Nat \ {0}]
  /\ rewritten \in [Requests -> [Urls -> 0 .. 2]]
  /\ trusted \in [Requests -> BOOLEAN]
  /\ stable \in [Requests -> BOOLEAN]
  /\ BlockerTypeOK
  /\ RewriterTypeOK

Init ==
  /\ settings \in SettingsValues
  /\ phase = [r \in Requests |-> "idle"]
  /\ url \in [Requests -> Urls]
  /\ firstParty \in [Requests -> Pages]
  /\ autocomplete \in [Requests -> BOOLEAN]
  /\ referrer = [r \in Requests |-> TRUE]
  /\ prev = [r \in Requests |-> {}]
  /\ redirects = [r \in Requests |-> 0]
  /\ walk = [r \in Requests |-> 1]
  /\ rewritten = [r \in Requests |-> [u \in Urls |-> 0]]
  /\ trusted = [r \in Requests |-> FALSE]
  /\ stable = [r \in Requests |-> FALSE]
  /\ BlockerInit
  /\ RewriterInit

InHandler(r) == phase[r] \in {"foreign", "walking", "filtered", "cleaned"}
IoIdle == \A r \in Requests : ~InHandler(r)
UiIdle == BlockerIdle /\ RewriterIdle

ioUnchanged == UNCHANGED <<settings, blockerVars, rewriterVars>>

-----------------------------------------------------------------------------
(* IO thread: ShellNetworkDelegate::OnBeforeURLRequest *)

ThirdParty(r) == ~DomainIs(url[r].host, firstParty[r].host)

\* The first question: a page the user trusts, and a page's own host, are not filtered.
CheckPage(r) ==
  /\ phase[r] = "starting"
  /\ IoIdle
  /\ ~autocomplete[r]
  /\ phase' = [phase EXCEPT ![r] = IF ~IsWhitelisted(firstParty[r]) /\ ThirdParty(r)
                                   THEN "foreign" ELSE "filtered"]
  /\ trusted' = [trusted EXCEPT ![r] = TrustedSoFar(firstParty[r])]
  /\ stable' = [stable EXCEPT ![r] = UiIdle]
  /\ UNCHANGED <<url, firstParty, autocomplete, referrer, prev, redirects, walk, rewritten>>
  /\ ioUnchanged

\* ShouldBlockThirdPartyRequest: is the blacklist in force?
CheckBlacklisting(r) ==
  /\ phase[r] = "foreign"
  /\ phase' = [phase EXCEPT ![r] = IF settings.blacklist THEN "walking" ELSE "filtered"]
  /\ walk' = [walk EXCEPT ![r] = 1]
  /\ UNCHANGED <<url, firstParty, autocomplete, referrer, prev, redirects, rewritten,
                 trusted, stable>>
  /\ ioUnchanged

\* Mutant: the walk stays at the domain it has looked up.
CheckDomainMutStays(r) ==
  LET more == walk[r] \in WalkSteps(url[r].host)
      evil == more /\ IsHostEvilThirdParty(Suffix(url[r].host, walk[r]))
  IN  /\ phase[r] = "walking"
      /\ phase' = [phase EXCEPT ![r] = IF evil THEN "blocked" ELSE IF more THEN @ ELSE "filtered"]
      /\ UNCHANGED <<url, firstParty, autocomplete, referrer, prev, redirects, walk, rewritten,
                     trusted, stable>>
      /\ ioUnchanged

\* ShouldBlockThirdPartyRequest: one parent domain is looked up in the blacklist.
CheckDomain(r) ==
  LET more == walk[r] \in WalkSteps(url[r].host)
      evil == more /\ IsHostEvilThirdParty(Suffix(url[r].host, walk[r]))
  IN  /\ phase[r] = "walking"
      /\ phase' = [phase EXCEPT ![r] = IF evil THEN "blocked" ELSE IF more THEN @ ELSE "filtered"]
      /\ walk' = [walk EXCEPT ![r] = IF more /\ ~evil THEN @ + 1 ELSE 1]
      /\ UNCHANGED <<url, firstParty, autocomplete, referrer, prev, redirects, rewritten,
                     trusted, stable>>
      /\ ioUnchanged

\* An autocomplete fetch passes untouched.
PassAutocomplete(r) ==
  /\ phase[r] = "starting"
  /\ IoIdle
  /\ autocomplete[r]
  /\ phase' = [phase EXCEPT ![r] = "sent"]
  /\ UNCHANGED <<url, firstParty, autocomplete, referrer, prev, redirects, walk, rewritten,
                 trusted, stable>>
  /\ ioUnchanged

\* ShouldClearReferrer and SetReferrer("").
ClearReferrer(r) ==
  /\ phase[r] = "filtered"
  /\ phase' = [phase EXCEPT ![r] = "cleaned"]
  /\ referrer' = [referrer EXCEPT ![r] = @ /\ ~settings.clear_referrer]
  /\ UNCHANGED <<url, firstParty, autocomplete, prev, redirects, walk, rewritten, trusted,
                 stable>>
  /\ ioUnchanged

\* Mutant: the answer is recorded as a rewrite even when there is none.
RewriteMutRecords(r) ==
  LET v == MaybeRewrite(url[r], prev[r], settings)
  IN  /\ phase[r] = "cleaned"
      /\ phase' = [phase EXCEPT ![r] = IF v.new_url # NoUrl THEN "starting"
                                       ELSE IF v.ret = "OK" THEN "sent" ELSE "failed"]
      /\ url' = [url EXCEPT ![r] = IF v.new_url = NoUrl THEN @ ELSE v.new_url]
      /\ prev' = [prev EXCEPT ![r] = @ \cup {v.new_url}]
      /\ UNCHANGED <<firstParty, autocomplete, referrer, redirects, walk, rewritten, trusted,
                     stable>>
      /\ ioUnchanged

\* HttpsRewriter::MaybeRewrite and what the network stack does with its answer.
Rewrite(r) ==
  LET v == MaybeRewrite(url[r], prev[r], settings)
  IN  /\ phase[r] = "cleaned"
      /\ IF v.new_url = NoUrl
           THEN /\ phase' = [phase EXCEPT ![r] = IF v.ret = "OK" THEN "sent" ELSE "failed"]
                /\ UNCHANGED <<url, prev, rewritten>>
           ELSE /\ phase' = [phase EXCEPT ![r] = "starting"]
                /\ url' = [url EXCEPT ![r] = v.new_url]
                /\ prev' = [prev EXCEPT ![r] = @ \cup {url[r]}]
                /\ rewritten' = [rewritten EXCEPT ![r][url[r]] = IF @ < 2 THEN @ + 1 ELSE 2]
      /\ UNCHANGED <<firstParty, autocomplete, referrer, redirects, walk, trusted, stable>>
      /\ ioUnchanged

-----------------------------------------------------------------------------
(* The network stack and the servers *)

Start(r) ==
  /\ phase[r] = "idle"
  /\ phase' = [phase EXCEPT ![r] = "starting"]
  /\ UNCHANGED <<url, firstParty, autocomplete, referrer, prev, redirects, walk, rewritten,
                 trusted, stable>>
  /\ ioUnchanged

Redirect(r, u) ==
  /\ phase[r] = "sent"
  /\ redirects[r] < MaxRedirects
  /\ phase' = [phase EXCEPT ![r] = "starting"]
  /\ url' = [url EXCEPT ![r] = u]
  /\ redirects' = [redirects EXCEPT ![r] = @ + 1]
  /\ UNCHANGED <<firstParty, autocomplete, referrer, prev, walk, rewritten, trusted, stable>>
  /\ ioUnchanged

Complete(r) ==
  /\ phase[r] = "sent"
  /\ phase' = [phase EXCEPT ![r] = "done"]
  /\ UNCHANGED <<url, firstParty, autocomplete, referrer, prev, redirects, walk, rewritten,
                 trusted, stable>>
  /\ ioUnchanged

-----------------------------------------------------------------------------
(* UI thread *)

UiStep == stable' = [r \in Requests |-> FALSE] /\ UNCHANGED requestVars

UpdateSettings ==
  /\ UiIdle
  /\ settings' \in SettingsValues \ {settings}
  /\ UiStep
  /\ UNCHANGED <<blockerVars, rewriterVars>>

UpdateBlocker ==
  /\ UiIdle
  /\ \/ \E list \in RuleLists : UpdateRules(list)
     \/ \E list \in Whitelists : UpdateWhitelist(list)
  /\ UiStep
  /\ UNCHANGED <<settings, rewriterVars>>

ContinueBlocker ==
  /\ InsertRule \/ InsertWhitelist
  /\ UiStep
  /\ UNCHANGED <<settings, rewriterVars>>

UpdateRewriter ==
  /\ UiIdle
  /\ \E list \in HttpsRuleLists : UpdateHttpsRules(list)
  /\ UiStep
  /\ UNCHANGED <<settings, blockerVars>>

ContinueRewriter ==
  /\ ContinueRules
  /\ UiStep
  /\ UNCHANGED <<settings, blockerVars>>

\* An allocation anywhere in the process.
Allocate ==
  /\ \/ ReuseMemory /\ UNCHANGED rewriterVars
     \/ ReuseKey /\ UNCHANGED blockerVars
  /\ UNCHANGED <<settings, requestVars, stable>>

Handle(r) ==
  \/ CheckPage(r)
  \/ CheckBlacklisting(r)
  \/ CheckDomain(r)
  \/ PassAutocomplete(r)
  \/ ClearReferrer(r)
  \/ Rewrite(r)

Step ==
  \/ \E r \in Requests : Start(r)
  \/ \E r \in Requests : Handle(r)
  \/ \E r \in Requests, u \in Urls : Redirect(r, u)
  \/ \E r \in Requests : Complete(r)
  \/ UpdateSettings
  \/ UpdateBlocker
  \/ ContinueBlocker
  \/ UpdateRewriter
  \/ ContinueRewriter
  \/ Allocate

\* A process that has aborted does nothing more.
Next == ~aborted /\ Step

\* The IO thread keeps running the handler it has entered or has been asked to
\* enter; servers, pages and Java owe nothing.
Fairness ==
  \A r \in Requests : WF_vars(~aborted /\ Handle(r))

Spec == Init /\ [][Next]_vars /\ Fairness

-----------------------------------------------------------------------------
(* Properties *)

\* The policy of the settings, stated from the messages Java sent and not from the
\* tables the handler reads: a request that leaves while nothing changed under the
\* handler carries no referrer it should not, is not a third-party request that a
\* domain of the user's list blocks which is listed once, and is not plain http under
\* https_only.
PolicyHolds ==
  \A r \in Requests : phase[r] = "sent" /\ stable[r] /\ ~autocomplete[r] =>
     /\ settings.clear_referrer => ~referrer[r]
     /\ settings.enabled /\ settings.https_only => url[r].scheme # "http"
     /\ settings.blacklist /\ ThirdParty(r) /\ ~AskedToTrust(firstParty[r])
          => ~AskedOnceToBlock(url[r].host)

\* However the lists change under the handler, and whatever part of them is installed:
\* a blocked request goes to a third party that the rule list sent last blocks, from a
\* page that no entry installed when it was checked trusts.  (While a whitelist is being
\* refilled, or where an entry for a whole host was narrowed by another, a page the user
\* does trust is filtered.)
BlockedIsJustified ==
  [][\A r \in Requests : phase[r] # "blocked" /\ phase'[r] = "blocked" =>
        /\ ThirdParty(r)
        /\ ~trusted[r]
        /\ AskedToBlock(url[r].host)]_vars

\* A request that leaves as plain http while nothing changed under the handler, and was
\* not rewritten from this URL before, is one that no rule set rewrites which has a host
\* to itself: the insertion host by host, the keys left behind and the walk over the
\* parent domains lose no other.
RulesAreApplied ==
  \A r \in Requests :
     /\ phase[r] = "sent" /\ stable[r] /\ ~autocomplete[r] /\ settings.enabled
     /\ url[r].scheme = "http" /\ url[r] \notin prev[r]
     => ~AskedOnceToRewrite(url[r])

\* Whatever changes under the handler, no request other than an autocomplete one
\* enters the network as plain http when https_only is in force at the moment the
\* rewriter takes its settings, the last the handler asks for.
HttpsOnlyNeverInClear ==
  [][\A r \in Requests :
        phase[r] # "sent" /\ phase'[r] = "sent" /\ ~autocomplete[r]
        /\ settings.enabled /\ settings.https_only => url'[r].scheme # "http"]_vars

\* Rules and servers can send a request back to a URL it was rewritten from; it is
\* never rewritten from the same URL again.
NoUrlRewrittenTwice ==
  \A r \in Requests, u \in Urls : rewritten[r][u] <= 1

\* "The linked pointer is used to keep the string data in memory, the string piece is a
\* reference to that memory" (block/blocker.h): no key of the blacklist refers to
\* memory that was freed.
KeysInMemory == dangling = {}

\* So the handling of a request comes to an end by itself: the walk over the parent domains
\* of its host, and its rewriting, however the rules chain.
RewritingEnds ==
  \A r \in Requests :
     phase[r] = "starting" ~> phase[r] \in {"sent", "blocked", "failed", "done"} \/ aborted
=============================================================================
