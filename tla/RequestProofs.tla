--------------------------- MODULE RequestProofs ---------------------------
(***************************************************************************)
(* Proofs about Request, for any URLs, rules, settings and interleaving of *)
(* the UI and IO threads: no URL of a request is rewritten twice, nothing  *)
(* enters the network as plain http under https_only, what is sent obeys   *)
(* the policy and what is blocked deserves it.                             *)
(***************************************************************************)
EXTENDS Request, WellFoundedInduction, TLAPS

\* The least element of a set of positions is one of them.
LEMMA MinIsElement ==
  ASSUME NEW S \in SUBSET Nat, S # {}
  PROVE  Min(S) \in S
<1> DEFINE Less == OpToRel(<, Nat)
<1>1. IsWellFoundedOn(Less, Nat)
  BY NatLessThanWellFounded
<1>2. \A x, y \in Nat : x < y => <<x, y>> \in Less
  BY DEF OpToRel
<1> HIDE DEF Less
<1>3. PICK n \in S : \A m \in S : ~ (<<m, n>> \in Less)
  BY <1>1, WFMin
<1>4. \A m \in S : n <= m
  <2> SUFFICES ASSUME NEW m \in S PROVE n <= m
    OBVIOUS
  <2>1. m \in Nat /\ n \in Nat
    OBVIOUS
  <2>2. ~ (m < n)
    <3>1. ~ (<<m, n>> \in Less)
      BY <1>3
    <3>2. m < n => <<m, n>> \in Less
      BY <1>2, <2>1
    <3>3. QED BY <3>1, <3>2
  <2>3. QED BY <2>1, <2>2
<1>5. QED BY <1>4 DEF Min

\* Compiled rules only produce URLs.
LEMMA FirstTargetIsUrl ==
  ASSUME NEW rules \in RuleSeqs, NEW u \in Urls, Matching(rules, u) # {}
  PROVE  FirstTarget(rules, u) \in Urls
<1>1. Matching(rules, u) \subseteq Nat
  BY DEF Matching, RuleSeqs
<1>2. Min(Matching(rules, u)) \in Matching(rules, u)
  BY <1>1, MinIsElement
<1>3. QED BY <1>2 DEF Matching, FirstTarget, RuleSeqs

LEMMA RulesAreSeqs ==
  ASSUME RewriterTypeOK, NEW e \in Entry
  PROVE  Rules(e) \in RuleSeqs
<1>1. CASE e = NoEntry
  BY <1>1 DEF Rules, RuleSeqs
<1>2. CASE e # NoEntry
  <2>1. e.rules \in DOMAIN sentRuleSets
    BY <1>2 DEF Entry, Numbers
  <2>2. sentRuleSets[e.rules] \in RuleSets
    BY <2>1 DEF RewriterTypeOK
  <2>3. QED BY <1>2, <2>2 DEF Rules, RuleSets
<1>3. QED BY <1>1, <1>2

LEMMA RuleTargetIsUrl ==
  ASSUME RewriterTypeOK, NEW u \in Urls
  PROVE  RuleTarget(u) \in Urls \cup {NoUrl}
<1>1. u.host \in HostNames
  BY UrlConstants
<1> DEFINE exact == Rules(exact_host[u.host])
<1>2. exact \in RuleSeqs
  BY <1>1, RulesAreSeqs DEF RewriterTypeOK
<1>3. CASE Matching(exact, u) # {}
  <2>1. FirstTarget(exact, u) \in Urls
    BY <1>2, <1>3, FirstTargetIsUrl
  <2>2. RuleTarget(u) = FirstTarget(exact, u)
    BY <1>3 DEF RuleTarget
  <2>3. QED BY <2>1, <2>2
<1>4. CASE Matching(exact, u) = {} /\ SuperSteps(u) # {}
  <2> DEFINE i     == Min(SuperSteps(u))
             super == Rules(super_host[Suffix(u.host, i)])
  <2>1. u.host \in Seq(STRING)
    BY <1>1, UrlConstants
  <2>2. SuperSteps(u) \subseteq Nat
    BY <2>1 DEF SuperSteps, WalkSteps
  <2>3. i \in SuperSteps(u)
    BY <1>4, <2>2, MinIsElement
  <2>4. i \in WalkSteps(u.host) /\ Matching(super, u) # {}
    BY <2>3 DEF SuperSteps
  <2>5. Suffix(u.host, i) \in HostNames
    BY <1>1, <2>4, UrlConstants
  <2>6. super \in RuleSeqs
    BY <2>5, RulesAreSeqs DEF RewriterTypeOK
  <2>7. FirstTarget(super, u) \in Urls
    BY <2>4, <2>6, FirstTargetIsUrl
  <2>8. RuleTarget(u) = FirstTarget(super, u)
    BY <1>4 DEF RuleTarget
  <2>9. QED BY <2>7, <2>8
<1>5. CASE Matching(exact, u) = {} /\ SuperSteps(u) = {}
  BY <1>5 DEF RuleTarget
<1>6. QED BY <1>3, <1>4, <1>5

\* What the rewriter answers: a URL is only replaced by another one when this
\* request was never rewritten from it, and plain http is never let through under
\* https_only.
LEMMA MaybeRewriteAnswers ==
  ASSUME RewriterTypeOK, NEW u \in Urls, NEW p, NEW st,
         NEW v, v = MaybeRewrite(u, p, st)
  PROVE  /\ v.new_url \in Urls \cup {NoUrl}
         /\ v.new_url # NoUrl => u \notin p
         /\ v.new_url = NoUrl /\ v.ret = "OK" /\ st.enabled /\ st.https_only
              => u.scheme # "http"
<1>1. RuleTarget(u) \in Urls \cup {NoUrl}
  BY RuleTargetIsUrl
<1>2. u.scheme = "http" => ForceHttps(u) \in Urls
  BY UrlConstants
<1>3. NoUrl \notin Urls
  BY UrlConstants
<1> HIDE DEF RewriterTypeOK
<1>4. QED BY <1>1, <1>2, <1>3 DEF MaybeRewrite, Verdict

-----------------------------------------------------------------------------

RequestType ==
  /\ settings \in SettingsValues
  /\ phase \in [Requests -> Phases]
  /\ url \in [Requests -> Urls]
  /\ autocomplete \in [Requests -> BOOLEAN]
  /\ prev \in [Requests -> SUBSET Urls]
  /\ rewritten \in [Requests -> [Urls -> Nat]]

\* prev_rewrites_ is exactly the set of URLs the request was rewritten from.
PrevIsHistory ==
  \A r \in Requests, u \in Urls :
     /\ u \in prev[r] => rewritten[r][u] = 1
     /\ u \notin prev[r] => rewritten[r][u] = 0

RewriteInv == RewriterTypeOK /\ RequestType /\ PrevIsHistory

LEMMA RewriteInvInit == Init => RewriteInv
<1> SUFFICES ASSUME Init PROVE RewriteInv
  OBVIOUS
<1>1. RewriterTypeOK
  <2>1. /\ exact_host = [h \in HostNames |-> NoEntry] /\ super_host = [h \in HostNames |-> NoEntry]
        /\ strays = {} /\ sentRuleSets = <<>> /\ aborted = FALSE
        /\ inserting = [set |-> 1, host |-> 1]
    BY DEF Init, RewriterInit
  <2>2. NoEntry \in Entry
    BY DEF Entry
  <2> HIDE DEF NoEntry
  <2>3. inserting \in [set : Nat \ {0}, host : Nat \ {0}]
    BY <2>1
  <2>4. exact_host \in [HostNames -> Entry] /\ super_host \in [HostNames -> Entry]
    BY <2>1, <2>2
  <2>5. sentRuleSets \in Seq(RuleSets)
    BY <2>1
  <2>6. strays \subseteq Numbers /\ aborted \in BOOLEAN
    BY <2>1
  <2>7. QED BY <2>3, <2>4, <2>5, <2>6 DEF RewriterTypeOK
<1>2. RequestType
  BY UrlConstants, RequestConstants DEF Init, RequestType, Phases
<1>3. PrevIsHistory
  BY DEF Init, PrevIsHistory
<1>4. QED BY <1>1, <1>2, <1>3 DEF RewriteInv

LEMMA AssignedType ==
  ASSUME RewriterTypeOK, ~RewriterIdle, NEW table \in [HostNames -> Entry], NEW h \in HostNames
  PROVE  Assigned(table, h) \in [HostNames -> Entry]
<1>1. table[h] \in Entry /\ inserting.set \in Numbers
  BY DEF RewriterIdle
<1> DEFINE k == IF table[h] = NoEntry THEN inserting.set ELSE table[h].key
<1>2. k \in Numbers
  BY <1>1 DEF Entry
<1> HIDE DEF k
<1>3. [rules |-> inserting.set, key |-> k] \in Entry
  BY <1>1, <1>2 DEF Entry
<1>4. Assigned(table, h) = [table EXCEPT ![h] = [rules |-> inserting.set, key |-> k]]
  BY DEF Assigned, k
<1>5. QED BY <1>3, <1>4

LEMMA ContinueRulesType == RewriterTypeOK /\ ContinueRules => RewriterTypeOK'
<1> SUFFICES ASSUME RewriterTypeOK, ContinueRules PROVE RewriterTypeOK'
  OBVIOUS
<1>1. ~RewriterIdle /\ UNCHANGED <<strays, sentRuleSets>> /\ Entry' = Entry
  BY DEF ContinueRules, Entry, Numbers
<1>2. CASE aborted' = TRUE /\ UNCHANGED <<exact_host, super_host, inserting>>
  BY <1>1, <1>2 DEF RewriterTypeOK, Numbers
<1>3. CASE (InsertHost \/ SkipRuleSet) /\ UNCHANGED aborted
  <2>1. inserting' \in [set : Nat \ {0}, host : Nat \ {0}]
    <3>1. inserting.set + 1 \in Nat \ {0} /\ inserting.host + 1 \in Nat \ {0}
      BY DEF RewriterTypeOK
    <3>2. Advance
      BY <1>3 DEF InsertHost, SkipRuleSet
    <3>3. QED BY <3>1, <3>2 DEF Advance, RewriterTypeOK
  <2>2. ASSUME InsertHost PROVE NextHost.name \in HostNames
    <3>1. Current \in RuleSets
      BY <1>1 DEF RewriterIdle, Numbers, Current, RewriterTypeOK
    <3>2. NextHost \in HostPattern
      BY <2>2, <3>1 DEF InsertHost, HostLeft, NextHost, RuleSets
    <3>3. QED BY <3>2 DEF HostPattern
  <2>3. exact_host' \in [HostNames -> Entry] /\ super_host' \in [HostNames -> Entry]
    <3>1. CASE InsertHost
      <4>1. /\ Assigned(exact_host, NextHost.name) \in [HostNames -> Entry]
            /\ Assigned(super_host, NextHost.name) \in [HostNames -> Entry]
        BY <1>1, <2>2, <3>1, AssignedType DEF RewriterTypeOK
      <4>2. QED BY <3>1, <4>1 DEF InsertHost, RewriterTypeOK
    <3>2. CASE SkipRuleSet
      BY <3>2 DEF SkipRuleSet, RewriterTypeOK
    <3>3. QED BY <1>3, <3>1, <3>2
  <2>4. QED BY <1>1, <1>3, <2>1, <2>3 DEF RewriterTypeOK, Numbers
<1>4. QED BY <1>2, <1>3 DEF ContinueRules

LEMMA ReuseKeyType == RewriterTypeOK /\ ReuseKey => RewriterTypeOK'
<1> SUFFICES ASSUME RewriterTypeOK, ReuseKey PROVE RewriterTypeOK'
  OBVIOUS
<1>1. PICK h \in HostNames :
        \/ /\ exact_host[h] # NoEntry
           /\ strays' = strays \cup {exact_host[h].rules}
           /\ exact_host' = [exact_host EXCEPT ![h] = NoEntry]
           /\ UNCHANGED <<super_host, sentRuleSets, inserting, aborted>>
        \/ /\ super_host[h] # NoEntry
           /\ strays' = strays \cup {super_host[h].rules}
           /\ super_host' = [super_host EXCEPT ![h] = NoEntry]
           /\ UNCHANGED <<exact_host, sentRuleSets, inserting, aborted>>
  BY DEF ReuseKey
<1>2. Entry' = Entry /\ Numbers' = Numbers /\ NoEntry \in Entry
  BY <1>1 DEF Entry, Numbers
<1>3. \A e \in Entry : e # NoEntry => e.rules \in Numbers
  BY DEF Entry
<1>4. exact_host' \in [HostNames -> Entry] /\ super_host' \in [HostNames -> Entry]
  BY <1>1, <1>2 DEF RewriterTypeOK
<1>5. strays' \subseteq Numbers
  <2>1. exact_host[h] \in Entry /\ super_host[h] \in Entry /\ strays \subseteq Numbers
    BY DEF RewriterTypeOK
  <2>2. QED BY <1>1, <1>3, <2>1
<1>6. UNCHANGED <<sentRuleSets, inserting, aborted>>
  BY <1>1
<1>7. QED BY <1>2, <1>4, <1>5, <1>6 DEF RewriterTypeOK

LEMMA RewriterTypeStep == RewriterTypeOK /\ [Next]_vars => RewriterTypeOK'
<1> SUFFICES ASSUME RewriterTypeOK, [Next]_vars PROVE RewriterTypeOK'
  OBVIOUS
<1>1. CASE UNCHANGED rewriterVars
  BY <1>1 DEF rewriterVars, RewriterTypeOK, Entry, Numbers
<1>2. CASE UpdateRewriter
  <2>1. PICK list \in HttpsRuleLists : UpdateHttpsRules(list)
    BY <1>2 DEF UpdateRewriter
  <2>2. list \in Seq(RuleSets) /\ NoEntry \in Entry'
    BY RequestConstants DEF Entry
  <2>3. QED BY <2>1, <2>2 DEF UpdateHttpsRules, RewriterTypeOK
<1>3. CASE ContinueRewriter
  BY <1>3, ContinueRulesType DEF ContinueRewriter
<1>4. CASE Allocate
  BY <1>1, <1>4, ReuseKeyType DEF Allocate
<1>5. ASSUME NEW r \in Requests, Handle(r) PROVE UNCHANGED rewriterVars
  BY <1>5 DEF Handle, CheckPage, CheckBlacklisting, CheckDomain, PassAutocomplete,
              ClearReferrer, Rewrite, ioUnchanged
<1>6. QED
  BY <1>1, <1>2, <1>3, <1>4, <1>5
     DEF Next, Step, vars, Start, Redirect, Complete, UpdateSettings, UpdateBlocker,
         ContinueBlocker, ioUnchanged

\* The one step that adds to prev_rewrites_.
LEMMA RewriteStep ==
  ASSUME RewriteInv, NEW r \in Requests, Rewrite(r)
  PROVE  RequestType' /\ PrevIsHistory'
<1> DEFINE v == MaybeRewrite(url[r], prev[r], settings)
<1>1. url[r] \in Urls
  BY DEF RewriteInv, RequestType
<1>2. v.new_url \in Urls \cup {NoUrl} /\ (v.new_url # NoUrl => url[r] \notin prev[r])
  BY <1>1, MaybeRewriteAnswers DEF RewriteInv
<1>3. CASE v.new_url = NoUrl
  <2>1. /\ phase' \in [Requests -> Phases]
        /\ UNCHANGED <<settings, url, autocomplete, prev, rewritten>>
    BY <1>3 DEF Rewrite, RewriteInv, RequestType, Phases, ioUnchanged
  <2> HIDE DEF v
  <2>2. QED BY <2>1 DEF RewriteInv, RequestType, PrevIsHistory
<1>4. CASE v.new_url # NoUrl
  <2>1. /\ phase' = [phase EXCEPT ![r] = "starting"]
        /\ url' = [url EXCEPT ![r] = v.new_url]
        /\ prev' = [prev EXCEPT ![r] = prev[r] \cup {url[r]}]
        /\ rewritten' = [rewritten EXCEPT ![r][url[r]] =
                            IF rewritten[r][url[r]] < 2 THEN rewritten[r][url[r]] + 1 ELSE 2]
        /\ UNCHANGED <<settings, autocomplete>>
    BY <1>4 DEF Rewrite, ioUnchanged
  <2> HIDE DEF v
  <2>2. rewritten[r][url[r]] = 0
    BY <1>1, <1>2, <1>4 DEF RewriteInv, PrevIsHistory
  <2>3. rewritten' = [rewritten EXCEPT ![r][url[r]] = 1]
    BY <2>1, <2>2
  <2>4. RequestType'
    BY <1>1, <1>2, <1>4, <2>1, <2>3 DEF RewriteInv, RequestType, Phases
  <2>5. PrevIsHistory'
    BY <1>1, <2>1, <2>3 DEF RewriteInv, RequestType, PrevIsHistory
  <2>6. QED BY <2>4, <2>5
<1>5. QED BY <1>3, <1>4

LEMMA RewriteInvStep == RewriteInv /\ [Next]_vars => RewriteInv'
<1> SUFFICES ASSUME RewriteInv, [Next]_vars PROVE RequestType' /\ PrevIsHistory'
  BY RewriterTypeStep DEF RewriteInv
<1>1. CASE UNCHANGED <<url, prev, rewritten, settings, autocomplete>>
           /\ phase' \in [Requests -> Phases]
  BY <1>1 DEF RewriteInv, RequestType, PrevIsHistory
<1>2. ASSUME NEW r \in Requests, Rewrite(r) PROVE RequestType' /\ PrevIsHistory'
  BY <1>2, RewriteStep
<1>3. ASSUME NEW r \in Requests, NEW u \in Urls, Redirect(r, u)
      PROVE  RequestType' /\ PrevIsHistory'
  BY <1>3 DEF Redirect, ioUnchanged, RewriteInv, RequestType, PrevIsHistory, Phases
<1>4. CASE UpdateSettings
  BY <1>4 DEF UpdateSettings, UiStep, requestVars, RewriteInv, RequestType, PrevIsHistory
<1>5. ASSUME NEW r \in Requests,
             \/ Start(r) \/ CheckPage(r) \/ CheckBlacklisting(r) \/ CheckDomain(r)
             \/ PassAutocomplete(r) \/ ClearReferrer(r) \/ Complete(r)
      PROVE  RequestType' /\ PrevIsHistory'
  <2>1. phase' \in [Requests -> Phases]
    BY <1>5 DEF Start, CheckPage, CheckBlacklisting, CheckDomain, PassAutocomplete,
                ClearReferrer, Complete, RewriteInv, RequestType, Phases
  <2>2. UNCHANGED <<url, prev, rewritten, settings, autocomplete>>
    BY <1>5 DEF Start, CheckPage, CheckBlacklisting, CheckDomain, PassAutocomplete,
                ClearReferrer, Complete, ioUnchanged
  <2>3. QED BY <1>1, <2>1, <2>2
<1>6. CASE \/ UpdateBlocker \/ ContinueBlocker \/ UpdateRewriter \/ ContinueRewriter
           \/ Allocate
  BY <1>1, <1>6
     DEF UpdateBlocker, ContinueBlocker, UpdateRewriter, ContinueRewriter, Allocate,
         UiStep, requestVars, RewriteInv, RequestType
<1>7. CASE UNCHANGED vars
  BY <1>1, <1>7 DEF vars, requestVars, RewriteInv, RequestType
<1>8. QED BY <1>2, <1>3, <1>4, <1>5, <1>6, <1>7 DEF Next, Step, Handle

\* prev_rewrites_ does what it is there for: however rules and server redirects
\* chain, a request is rewritten from each URL at most once.
THEOREM RewrittenOnce == Spec => []NoUrlRewrittenTwice
<1>1. RewriteInv => NoUrlRewrittenTwice
  BY DEF RewriteInv, PrevIsHistory, NoUrlRewrittenTwice
<1>2. QED BY <1>1, RewriteInvInit, RewriteInvStep, PTL DEF Spec

\* Under https_only nothing but an autocomplete fetch is sent as plain http,
\* whatever rules and settings change while the request is being handled.
THEOREM HttpsOnlySafety == Spec => HttpsOnlyNeverInClear
<1> DEFINE Safe == \A r \in Requests :
             phase[r] # "sent" /\ phase'[r] = "sent" /\ ~autocomplete[r]
             /\ settings.enabled /\ settings.https_only => url'[r].scheme # "http"
<1>1. ASSUME RewriteInv, [Next]_vars PROVE Safe
  <2> SUFFICES ASSUME NEW r \in Requests, phase[r] # "sent", phase'[r] = "sent",
                      ~autocomplete[r], settings.enabled, settings.https_only
               PROVE  url'[r].scheme # "http"
    OBVIOUS
  <2>1. Rewrite(r)
    BY <1>1 DEF Next, Step, Handle, vars, requestVars, Start, CheckPage, CheckBlacklisting,
           CheckDomain, PassAutocomplete, ClearReferrer, Rewrite, Redirect, Complete,
           UpdateSettings, UpdateBlocker, ContinueBlocker, UpdateRewriter, ContinueRewriter,
           Allocate, UiStep, RewriteInv, RequestType
  <2> DEFINE v == MaybeRewrite(url[r], prev[r], settings)
  <2>2. v.new_url = NoUrl /\ v.ret = "OK" /\ url' = url
    BY <1>1, <2>1 DEF Rewrite, RewriteInv, RequestType
  <2>3. url[r] \in Urls /\ RewriterTypeOK
    BY <1>1 DEF RewriteInv, RequestType
  <2>4. url[r].scheme # "http"
    BY <2>2, <2>3, MaybeRewriteAnswers
  <2>5. QED BY <2>2, <2>4
<1>2. QED
  BY <1>1, RewriteInvInit, RewriteInvStep, PTL DEF Spec, HttpsOnlyNeverInClear

-----------------------------------------------------------------------------
(***************************************************************************)
(* The blocker's tables against Java's messages.  The invariant holds at   *)
(* every step of an update: the entries inserted so far account for what   *)
(* is in the tables, and only a domain listed twice can be lost.           *)
(***************************************************************************)

Inserted == 1 .. (Len(sentRules) - Len(pendingRules))

\* What is pending is the tail of what was sent.
IsRest(pending, sent) ==
  /\ Len(pending) <= Len(sent)
  /\ \A i \in DOMAIN pending : pending[i] = sent[i + (Len(sent) - Len(pending))]

BlockerTypes ==
  /\ sentRules \in Seq(Rule) /\ pendingRules \in Seq(Rule)
  /\ sentWhitelist \in Seq(WhitelistEntry) /\ pendingWhitelist \in Seq(WhitelistEntry)
  /\ IsRest(pendingRules, sentRules)
  /\ IsRest(pendingWhitelist, sentWhitelist)

Blocks(i, d) == sentRules[i].block_third_party /\ sentRules[i].domain = d

BlacklistJustified == \A d \in domain_blacklist : \E i \in Inserted : Blocks(i, d)

BlacklistComplete ==
  \A i \in Inserted : sentRules[i].block_third_party =>
     \/ sentRules[i].domain \in domain_blacklist
     \/ \E j \in Inserted \ {i} : Blocks(j, sentRules[i].domain)

DanglingListedTwice ==
  \A d \in dangling : \E i, j \in Inserted : i # j /\ Blocks(i, d) /\ Blocks(j, d)

RulesInv == BlacklistJustified /\ BlacklistComplete /\ DanglingListedTwice

WhitelistInv ==
  /\ \A i \in InstalledEntries :
        /\ sentWhitelist[i].host \in DOMAIN whitelist
        /\ \A p \in sentWhitelist[i].paths : Lower(p) \in whitelist[sentWhitelist[i].host]
  /\ \A h \in DOMAIN whitelist :
        /\ \E i \in InstalledEntries : sentWhitelist[i].host = h
        /\ \A q \in whitelist[h] :
              \E i \in InstalledEntries :
                 sentWhitelist[i].host = h /\ \E p \in sentWhitelist[i].paths : q = Lower(p)

BlockerInv == BlockerTypes /\ RulesInv /\ WhitelistInv

\* Taking the head of the rest inserts exactly the next entry.
LEMMA RestAdvances ==
  ASSUME NEW S, NEW sent \in Seq(S), NEW pending \in Seq(S), IsRest(pending, sent),
         pending # <<>>
  PROVE  LET k == Len(sent) - Len(pending) IN
         /\ k \in Nat /\ k + 1 \in DOMAIN sent
         /\ Head(pending) = sent[k + 1] /\ Head(pending) \in S
         /\ Tail(pending) \in Seq(S)
         /\ IsRest(Tail(pending), sent)
         /\ Len(sent) - Len(Tail(pending)) = k + 1
<1> DEFINE k == Len(sent) - Len(pending)
<1>1. Len(pending) \in Nat /\ Len(sent) \in Nat /\ Len(pending) > 0 /\ Len(pending) <= Len(sent)
  BY DEF IsRest
<1>2. k \in Nat /\ k + 1 \in DOMAIN sent
  BY <1>1
<1>3. Head(pending) = pending[1] /\ 1 \in DOMAIN pending
  BY <1>1
<1>4. Head(pending) = sent[k + 1] /\ Head(pending) \in S
  BY <1>1, <1>3 DEF IsRest
<1>5. Tail(pending) \in Seq(S) /\ Len(Tail(pending)) = Len(pending) - 1
  BY <1>1
<1>6. \A i \in DOMAIN Tail(pending) : i + 1 \in DOMAIN pending /\ Tail(pending)[i] = pending[i + 1]
  BY <1>1, <1>5
<1>7. IsRest(Tail(pending), sent)
  <2>1. \A i \in DOMAIN Tail(pending) : i \in Nat
    BY <1>5
  <2>2. QED BY <1>1, <1>5, <1>6, <2>1 DEF IsRest
<1>8. QED BY <1>1, <1>2, <1>4, <1>5, <1>7

LEMMA BlockerInvInit == Init => BlockerInv
  BY DEF Init, BlockerInit, BlockerInv, BlockerTypes, IsRest, RulesInv, BlacklistJustified,
         BlacklistComplete, DanglingListedTwice, WhitelistInv, Inserted, InstalledEntries

\* Whatever leaves the whitelist alone.
LEMMA WhitelistKept ==
  ASSUME WhitelistInv, UNCHANGED <<whitelist, pendingWhitelist, sentWhitelist>>
  PROVE  WhitelistInv'
<1>1. whitelist' = whitelist /\ sentWhitelist' = sentWhitelist
  OBVIOUS
<1>2. InstalledEntries' = InstalledEntries
  BY DEF InstalledEntries
<1>3. QED BY <1>1, <1>2 DEF WhitelistInv

LEMMA UpdateRulesInv ==
  ASSUME BlockerInv, NEW list \in RuleLists, UpdateRules(list)
  PROVE  BlockerInv'
<1>1. list \in Seq(Rule)
  BY RequestConstants
<1>2. IsRest(list, list)
  BY <1>1 DEF IsRest
<1>3. Inserted' = {}
  BY <1>1 DEF UpdateRules, Inserted
<1>4. BlockerTypes'
  BY <1>1, <1>2 DEF UpdateRules, BlockerInv, BlockerTypes
<1>5. RulesInv'
  BY <1>3 DEF UpdateRules, RulesInv, BlacklistJustified, BlacklistComplete,
              DanglingListedTwice
<1>6. WhitelistInv'
  BY WhitelistKept DEF UpdateRules, BlockerInv
<1>7. QED BY <1>4, <1>5, <1>6 DEF BlockerInv

LEMMA UpdateWhitelistInv ==
  ASSUME BlockerInv, NEW list \in Whitelists, UpdateWhitelist(list)
  PROVE  BlockerInv'
<1>1. list \in Seq(WhitelistEntry)
  BY RequestConstants
<1>2. IsRest(list, list)
  BY <1>1 DEF IsRest
<1>3. InstalledEntries' = {} /\ DOMAIN whitelist' = {}
  BY <1>1 DEF UpdateWhitelist, InstalledEntries
<1>4. BlockerTypes'
  BY <1>1, <1>2 DEF UpdateWhitelist, BlockerInv, BlockerTypes
<1>5. RulesInv'
  BY DEF UpdateWhitelist, BlockerInv, RulesInv, BlacklistJustified, BlacklistComplete,
         DanglingListedTwice, Inserted, Blocks
<1>6. WhitelistInv'
  BY <1>3 DEF WhitelistInv
<1>7. QED BY <1>4, <1>5, <1>6 DEF BlockerInv

LEMMA InsertRuleInv ==
  ASSUME BlockerInv, InsertRule
  PROVE  BlockerInv'
<1> DEFINE k    == Len(sentRules) - Len(pendingRules)
           rule == Head(pendingRules)
           new  == IF rule.block_third_party THEN {rule.domain} ELSE {}
<1>1. /\ k \in Nat /\ rule = sentRules[k + 1]
      /\ Tail(pendingRules) \in Seq(Rule) /\ IsRest(Tail(pendingRules), sentRules)
      /\ Len(sentRules) - Len(Tail(pendingRules)) = k + 1
  BY RestAdvances DEF BlockerInv, BlockerTypes, InsertRule
<1>2. /\ domain_blacklist' = domain_blacklist \cup new
      /\ dangling' = dangling \cup (domain_blacklist \cap new)
      /\ pendingRules' = Tail(pendingRules)
      /\ UNCHANGED <<whitelist, pendingWhitelist, sentRules, sentWhitelist>>
  BY DEF InsertRule
<1>3. BlockerTypes'
  BY <1>1, <1>2 DEF BlockerInv, BlockerTypes
<1>4. Inserted = 1 .. k /\ Inserted' = 1 .. (k + 1)
  BY <1>1, <1>2 DEF Inserted
<1> HIDE DEF k
<1>5. Inserted' = Inserted \cup {k + 1} /\ k + 1 \notin Inserted
  BY <1>1, <1>4
<1>6. \A d : d \in new <=> Blocks(k + 1, d)
  BY <1>1 DEF Blocks
<1> HIDE DEF new, rule
<1>7. \A i, d : Blocks(i, d)' <=> Blocks(i, d)
  BY <1>2 DEF Blocks
<1>8. BlacklistJustified'
  BY <1>2, <1>5, <1>6, <1>7 DEF BlockerInv, RulesInv, BlacklistJustified
<1>9. BlacklistComplete'
  <2> SUFFICES ASSUME NEW i \in Inserted', sentRules[i].block_third_party
               PROVE  \/ sentRules[i].domain \in domain_blacklist'
                      \/ \E j \in Inserted' \ {i} : Blocks(j, sentRules[i].domain)
    BY <1>2, <1>7 DEF BlacklistComplete
  <2>1. CASE i = k + 1
    BY <1>2, <1>6, <2>1 DEF Blocks
  <2>2. CASE i \in Inserted
    BY <1>2, <1>5, <2>2 DEF BlockerInv, RulesInv, BlacklistComplete
  <2>3. QED BY <1>5, <2>1, <2>2
<1>10. DanglingListedTwice'
  <2> SUFFICES ASSUME NEW d \in dangling'
               PROVE  \E i, j \in Inserted' : i # j /\ Blocks(i, d) /\ Blocks(j, d)
    BY <1>7 DEF DanglingListedTwice
  <2>1. CASE d \in dangling
    BY <1>5, <2>1 DEF BlockerInv, RulesInv, DanglingListedTwice
  <2>2. CASE d \in domain_blacklist \cap new
    <3>1. PICK i \in Inserted : Blocks(i, d)
      BY <2>2 DEF BlockerInv, RulesInv, BlacklistJustified
    <3>2. QED BY <1>5, <1>6, <2>2, <3>1
  <2>3. QED BY <1>2, <2>1, <2>2
<1>11. WhitelistInv'
  BY <1>2, WhitelistKept DEF BlockerInv
<1>12. QED BY <1>3, <1>8, <1>9, <1>10, <1>11 DEF BlockerInv, RulesInv

\* A key that is lost belongs to a domain some other rule lists as well.
LEMMA ReuseMemoryInv ==
  ASSUME BlockerInv, ReuseMemory
  PROVE  BlockerInv'
<1>1. PICK d \in dangling : /\ domain_blacklist' = domain_blacklist \ {d}
                            /\ dangling' = dangling \ {d}
  BY DEF ReuseMemory
<1>2. UNCHANGED <<whitelist, pendingRules, pendingWhitelist, sentRules, sentWhitelist>>
  BY DEF ReuseMemory
<1>3. BlockerTypes'
  BY <1>2 DEF BlockerInv, BlockerTypes
<1>4. Inserted' = Inserted /\ \A i, e : Blocks(i, e)' <=> Blocks(i, e)
  BY <1>2 DEF Inserted, Blocks
<1>5. BlacklistJustified' /\ DanglingListedTwice'
  BY <1>1, <1>4 DEF BlockerInv, RulesInv, BlacklistJustified, DanglingListedTwice
<1>6. PICK a, b \in Inserted : a # b /\ Blocks(a, d) /\ Blocks(b, d)
  BY DEF BlockerInv, RulesInv, DanglingListedTwice
<1>7. BlacklistComplete'
  <2> SUFFICES ASSUME NEW i \in Inserted, sentRules[i].block_third_party
               PROVE  \/ sentRules[i].domain \in domain_blacklist'
                      \/ \E j \in Inserted \ {i} : Blocks(j, sentRules[i].domain)
    BY <1>2, <1>4 DEF BlacklistComplete
  <2>1. CASE sentRules[i].domain = d
    BY <1>6, <2>1
  <2>2. CASE sentRules[i].domain # d
    BY <1>1, <2>2 DEF BlockerInv, RulesInv, BlacklistComplete
  <2>3. QED BY <2>1, <2>2
<1>8. WhitelistInv'
  BY <1>2, WhitelistKept DEF BlockerInv
<1>9. QED BY <1>3, <1>5, <1>7, <1>8 DEF BlockerInv, RulesInv

LEMMA InsertWhitelistInv ==
  ASSUME BlockerInv, InsertWhitelist
  PROVE  BlockerInv'
<1> DEFINE k     == Len(sentWhitelist) - Len(pendingWhitelist)
           e     == Head(pendingWhitelist)
           paths == {Lower(p) : p \in e.paths}
           old   == IF e.host \in DOMAIN whitelist THEN whitelist[e.host] ELSE {}
<1>1. /\ k \in Nat /\ e = sentWhitelist[k + 1]
      /\ Tail(pendingWhitelist) \in Seq(WhitelistEntry)
      /\ IsRest(Tail(pendingWhitelist), sentWhitelist)
      /\ Len(sentWhitelist) - Len(Tail(pendingWhitelist)) = k + 1
  BY RestAdvances DEF BlockerInv, BlockerTypes, InsertWhitelist
<1>2. /\ whitelist' = [h \in DOMAIN whitelist \cup {e.host} |->
                         IF h = e.host THEN old \cup paths ELSE whitelist[h]]
      /\ pendingWhitelist' = Tail(pendingWhitelist)
      /\ UNCHANGED <<domain_blacklist, dangling, pendingRules, sentRules, sentWhitelist>>
  BY DEF InsertWhitelist
<1>3. BlockerTypes'
  BY <1>1, <1>2 DEF BlockerInv, BlockerTypes
<1>4. InstalledEntries = 1 .. k /\ InstalledEntries' = 1 .. (k + 1)
  BY <1>1, <1>2 DEF InstalledEntries
<1> HIDE DEF k
<1>5. InstalledEntries' = InstalledEntries \cup {k + 1}
  BY <1>1, <1>4
<1> HIDE DEF e, old, paths
<1>6. /\ DOMAIN whitelist' = DOMAIN whitelist \cup {e.host}
      /\ whitelist'[e.host] = old \cup paths
      /\ \A h \in DOMAIN whitelist : h # e.host => whitelist'[h] = whitelist[h]
  BY <1>2
<1>7. ASSUME NEW i \in InstalledEntries'
      PROVE  /\ sentWhitelist[i].host \in DOMAIN whitelist'
             /\ \A p \in sentWhitelist[i].paths :
                   Lower(p) \in whitelist'[sentWhitelist[i].host]
  <2>1. CASE i = k + 1
    BY <1>1, <1>6, <2>1 DEF paths
  <2>2. CASE i \in InstalledEntries
    BY <1>6, <2>2 DEF old, BlockerInv, WhitelistInv
  <2>3. QED BY <1>5, <2>1, <2>2
<1>8. ASSUME NEW h \in DOMAIN whitelist'
      PROVE  /\ \E i \in InstalledEntries' : sentWhitelist[i].host = h
             /\ \A q \in whitelist'[h] :
                   \E i \in InstalledEntries' :
                      /\ sentWhitelist[i].host = h
                      /\ \E p \in sentWhitelist[i].paths : q = Lower(p)
  <2>1. CASE h = e.host
    <3>1. \A q \in paths : \E p \in e.paths : q = Lower(p)
      BY DEF paths
    <3>2. \A q \in old : e.host \in DOMAIN whitelist /\ q \in whitelist[e.host]
      BY DEF old
    <3>3. k + 1 \in InstalledEntries' /\ e = sentWhitelist[k + 1]
      BY <1>1, <1>5
    <3>4. \A q \in old : \E i \in InstalledEntries :
             sentWhitelist[i].host = h /\ \E p \in sentWhitelist[i].paths : q = Lower(p)
      BY <2>1, <3>2 DEF BlockerInv, WhitelistInv
    <3>5. QED BY <1>5, <1>6, <2>1, <3>1, <3>3, <3>4
  <2>2. CASE h # e.host
    BY <1>5, <1>6, <2>2 DEF BlockerInv, WhitelistInv
  <2>3. QED BY <2>1, <2>2
<1>9. WhitelistInv'
  <2>1. sentWhitelist' = sentWhitelist
    BY <1>2
  <2>2. QED BY <1>7, <1>8, <2>1 DEF WhitelistInv
<1>10. RulesInv'
  BY <1>2 DEF BlockerInv, RulesInv, BlacklistJustified, BlacklistComplete,
              DanglingListedTwice, Inserted, Blocks
<1>11. QED BY <1>3, <1>9, <1>10 DEF BlockerInv

LEMMA BlockerInvStep == BlockerInv /\ [Next]_vars => BlockerInv'
<1> SUFFICES ASSUME BlockerInv, [Next]_vars PROVE BlockerInv'
  OBVIOUS
<1>1. CASE UNCHANGED blockerVars
  <2>1. BlockerTypes'
    BY <1>1 DEF blockerVars, BlockerInv, BlockerTypes
  <2>2. RulesInv'
    BY <1>1 DEF blockerVars, BlockerInv, RulesInv, BlacklistJustified, BlacklistComplete,
                DanglingListedTwice, Inserted, Blocks
  <2>3. WhitelistInv'
    BY <1>1, WhitelistKept DEF blockerVars, BlockerInv
  <2>4. QED BY <2>1, <2>2, <2>3 DEF BlockerInv
<1>2. CASE UpdateBlocker
  BY <1>2, UpdateRulesInv, UpdateWhitelistInv DEF UpdateBlocker
<1>3. CASE ContinueBlocker
  BY <1>3, InsertRuleInv, InsertWhitelistInv DEF ContinueBlocker
<1>4. CASE Allocate
  BY <1>1, <1>4, ReuseMemoryInv DEF Allocate
<1>5. ASSUME NEW r \in Requests,
             Start(r) \/ Handle(r) \/ Complete(r) \/ \E u \in Urls : Redirect(r, u)
      PROVE  UNCHANGED blockerVars
  BY <1>5 DEF Start, Handle, CheckPage, CheckBlacklisting, CheckDomain, PassAutocomplete,
              ClearReferrer, Rewrite, Complete, Redirect, ioUnchanged
<1>6. CASE UpdateSettings \/ UpdateRewriter \/ ContinueRewriter \/ UNCHANGED vars
  BY <1>1, <1>6 DEF UpdateSettings, UpdateRewriter, ContinueRewriter, vars
<1>7. QED BY <1>1, <1>2, <1>3, <1>4, <1>5, <1>6 DEF Next, Step
-----------------------------------------------------------------------------
(* What the tables answer between two updates is what Java asked for. *)

LEMMA IdleMeansInserted ==
  ASSUME BlockerInv, BlockerIdle
  PROVE  Inserted = DOMAIN sentRules /\ InstalledEntries = DOMAIN sentWhitelist
  BY DEF BlockerInv, BlockerTypes, BlockerIdle, Inserted, InstalledEntries

\* The merged table trusts no page that no entry of Java's list trusts ...
LEMMA WhitelistedIsAsked ==
  ASSUME BlockerInv, NEW u, IsWhitelisted(u)
  PROVE  AskedToTrust(u)
<1>1. InstalledEntries \subseteq DOMAIN sentWhitelist
  BY DEF BlockerInv, BlockerTypes, InstalledEntries
<1>2. CASE u.scheme = "krypton"
  BY <1>2 DEF AskedToTrust
<1>3. CASE u.host \in DOMAIN whitelist /\ whitelist[u.host] = {}
  <2>1. PICK i \in InstalledEntries : sentWhitelist[i].host = u.host
    BY <1>3 DEF BlockerInv, WhitelistInv
  <2>2. \A p \in sentWhitelist[i].paths : Lower(p) \in whitelist[u.host]
    BY <2>1 DEF BlockerInv, WhitelistInv
  <2>3. sentWhitelist[i].paths = {}
    BY <1>3, <2>2
  <2>4. QED BY <1>1, <2>1, <2>3 DEF AskedToTrust, Trusts
<1>4. CASE u.host \in DOMAIN whitelist /\ Lower(u.path) \in whitelist[u.host]
  <2>1. PICK i \in InstalledEntries :
           sentWhitelist[i].host = u.host
           /\ \E p \in sentWhitelist[i].paths : Lower(u.path) = Lower(p)
    BY <1>4 DEF BlockerInv, WhitelistInv
  <2>2. QED BY <1>1, <2>1 DEF AskedToTrust, Trusts
<1>5. QED BY <1>2, <1>3, <1>4 DEF IsWhitelisted

\* ... and every page that an entry inserted so far trusts, but for the whole hosts
\* that were narrowed.
LEMMA TrustedIsWhitelisted ==
  ASSUME BlockerInv, NEW u, TrustedSoFar(u)
  PROVE  IsWhitelisted(u)
<1>1. CASE u.scheme = "krypton"
  BY <1>1 DEF IsWhitelisted
<1>2. ASSUME NEW i \in InstalledEntries, Trusts(sentWhitelist[i], u), ~Narrowed(i)
      PROVE  IsWhitelisted(u)
  <2>1. sentWhitelist[i].host = u.host /\ u.host \in DOMAIN whitelist
    BY <1>2 DEF Trusts, BlockerInv, WhitelistInv
  <2>2. CASE sentWhitelist[i].paths = {}
    <3>1. \A j \in InstalledEntries :
             sentWhitelist[j].host = u.host => sentWhitelist[j].paths = {}
      BY <1>2, <2>1, <2>2 DEF Narrowed
    <3>2. \A q \in whitelist[u.host] : FALSE
      BY <2>1, <3>1 DEF BlockerInv, WhitelistInv
    <3>3. whitelist[u.host] = {}
      BY <3>2
    <3>4. QED BY <2>1, <3>3 DEF IsWhitelisted
  <2>3. CASE sentWhitelist[i].paths # {}
    <3>1. PICK p \in sentWhitelist[i].paths : Lower(p) = Lower(u.path)
      BY <1>2, <2>3 DEF Trusts
    <3>2. Lower(p) \in whitelist[u.host]
      BY <2>1 DEF BlockerInv, WhitelistInv
    <3>3. QED BY <2>1, <3>1, <3>2 DEF IsWhitelisted
  <2>4. QED BY <2>2, <2>3
<1>3. QED BY <1>1, <1>2 DEF TrustedSoFar

LEMMA EvilIsAsked ==
  ASSUME BlockerInv, NEW h \in Seq(STRING), NEW i \in WalkSteps(h),
         IsHostEvilThirdParty(Suffix(h, i))
  PROVE  AskedToBlock(h)
<1>1. PICK k \in Inserted :
         sentRules[k].block_third_party /\ sentRules[k].domain = Suffix(h, i)
  BY DEF IsHostEvilThirdParty, BlockerInv, RulesInv, BlacklistJustified, Blocks
<1>2. k \in DOMAIN sentRules
  BY DEF BlockerInv, BlockerTypes, Inserted
<1>3. Len(h) \in Nat /\ i \in Nat /\ 1 <= i /\ i < Len(h)
  BY DEF WalkSteps
<1>4. Len(Suffix(h, i)) = Len(h) - i + 1
  BY <1>3 DEF Suffix
<1>5. Len(h) - Len(Suffix(h, i)) + 1 = i
  BY <1>3, <1>4
<1>6. IsDomainOf(Suffix(h, i), h)
  BY <1>3, <1>4, <1>5 DEF IsDomainOf, Suffix
<1>7. k \in BlockingRules
  BY <1>1, <1>2, <1>3, <1>4 DEF BlockingRules
<1>8. QED BY <1>1, <1>6, <1>7 DEF AskedToBlock

ListedOnce(d) ==
  \E k \in BlockingRules :
     /\ sentRules[k].domain = d
     /\ \A j \in BlockingRules \ {k} : sentRules[j].domain # sentRules[k].domain

LEMMA ListedOnceIsEvil ==
  ASSUME BlockerInv, BlockerIdle, NEW d, ListedOnce(d)
  PROVE  IsHostEvilThirdParty(d)
<1>1. PICK k \in BlockingRules :
         /\ sentRules[k].domain = d
         /\ \A j \in BlockingRules \ {k} : sentRules[j].domain # d
  BY DEF ListedOnce
<1>2. k \in Inserted /\ sentRules[k].block_third_party /\ Len(d) > 1
  BY <1>1, IdleMeansInserted DEF BlockingRules
<1>3. \A j \in Inserted : j # k => ~ Blocks(j, d)
  BY <1>1, <1>2, IdleMeansInserted DEF Blocks, BlockingRules
<1>4. d \in domain_blacklist
  BY <1>1, <1>2, <1>3 DEF BlockerInv, RulesInv, BlacklistComplete
<1>5. QED BY <1>4 DEF IsHostEvilThirdParty

\* The walk meets the domain of every rule that covers the host.
LEMMA WalkMeetsRule ==
  ASSUME BlockerInv, NEW h \in Seq(STRING), AskedOnceToBlock(h)
  PROVE  \E i \in WalkSteps(h) : ListedOnce(Suffix(h, i))
<1>1. PICK k \in BlockingRules :
         /\ IsDomainOf(sentRules[k].domain, h)
         /\ \A j \in BlockingRules \ {k} : sentRules[j].domain # sentRules[k].domain
  BY DEF AskedOnceToBlock
<1> DEFINE d == sentRules[k].domain
           i == Len(h) - Len(d) + 1
<1>2. Len(d) > 1 /\ sentRules[k] \in Rule
  BY <1>1 DEF BlockingRules, BlockerInv, BlockerTypes
<1>3. d \in Seq(STRING)
  BY <1>2, UrlConstants DEF Rule
<1>4. Len(d) <= Len(h) /\ SubSeq(h, i, Len(h)) = d
  BY <1>1 DEF IsDomainOf
<1>5. ListedOnce(d)
  BY <1>1 DEF ListedOnce
<1> HIDE DEF d
<1>6. i \in WalkSteps(h)
  BY <1>2, <1>3, <1>4 DEF WalkSteps, d
<1>7. QED BY <1>4, <1>5, <1>6 DEF Suffix

-----------------------------------------------------------------------------
(***************************************************************************)
(* The policy.  The invariant follows the handler: what each of its steps  *)
(* has established holds from then on as long as nothing it reads changes. *)
(***************************************************************************)

Filtered(r) ==
  settings.blacklist /\ ThirdParty(r) /\ ~AskedToTrust(firstParty[r])
    => ~AskedOnceToBlock(url[r].host)
Cleaned(r)   == settings.clear_referrer => ~referrer[r]
Encrypted(r) == settings.enabled /\ settings.https_only => url[r].scheme # "http"

Walked(r) ==
  \A j \in 1 .. (walk[r] - 1) : ~ListedOnce(Suffix(url[r].host, j))

HandlerInv ==
  \A r \in Requests : stable[r] /\ ~autocomplete[r] =>
     /\ BlockerIdle
     /\ phase[r] = "walking" => Walked(r)
     /\ phase[r] \in {"filtered", "cleaned", "sent"} => Filtered(r)
     /\ phase[r] \in {"cleaned", "sent"} => Cleaned(r)
     /\ phase[r] = "sent" => Encrypted(r)

PolicyTypes ==
  /\ stable \in [Requests -> BOOLEAN]
  /\ referrer \in [Requests -> BOOLEAN]
  /\ firstParty \in [Requests -> Pages]
  /\ walk \in [Requests -> Nat \ {0}]
  /\ trusted \in [Requests -> BOOLEAN]

PolicyInv == RewriteInv /\ BlockerInv /\ PolicyTypes /\ HandlerInv

LEMMA PolicyInvInit == Init => PolicyInv
<1> SUFFICES ASSUME Init PROVE PolicyTypes /\ HandlerInv
  BY RewriteInvInit, BlockerInvInit DEF PolicyInv
<1>1. PolicyTypes
  BY DEF Init, PolicyTypes
<1>2. HandlerInv
  BY DEF Init, HandlerInv
<1>3. QED BY <1>1, <1>2

\* A step of one request leaves what the others have established.
LEMMA OthersKeepPolicy ==
  ASSUME PolicyInv, NEW r \in Requests, NEW p,
         phase' = [phase EXCEPT ![r] = p],
         \A q \in Requests \ {r} : /\ url'[q] = url[q] /\ referrer'[q] = referrer[q]
                                   /\ stable'[q] = stable[q] /\ walk'[q] = walk[q],
         UNCHANGED <<settings, firstParty, autocomplete, blockerVars>>,
         stable'[r] /\ ~autocomplete[r] =>
            /\ BlockerIdle
            /\ p = "walking" => Walked(r)'
            /\ p \in {"filtered", "cleaned", "sent"} => Filtered(r)'
            /\ p \in {"cleaned", "sent"} => Cleaned(r)'
            /\ p = "sent" => Encrypted(r)'
  PROVE  HandlerInv'
<1>1. UNCHANGED <<sentRules, sentWhitelist>> /\ (BlockerIdle' <=> BlockerIdle)
  BY DEF blockerVars, BlockerIdle
<1> SUFFICES ASSUME NEW q \in Requests, stable'[q], ~autocomplete'[q]
             PROVE  /\ BlockerIdle
                    /\ phase'[q] = "walking" => Walked(q)'
                    /\ phase'[q] \in {"filtered", "cleaned", "sent"} => Filtered(q)'
                    /\ phase'[q] \in {"cleaned", "sent"} => Cleaned(q)'
                    /\ phase'[q] = "sent" => Encrypted(q)'
  BY <1>1 DEF HandlerInv
<1>2. CASE q = r
  BY <1>2 DEF PolicyInv, RewriteInv, RequestType
<1>3. CASE q # r
  <2>1. phase'[q] = phase[q] /\ stable[q] /\ ~autocomplete[q]
    BY <1>3 DEF PolicyInv, RewriteInv, RequestType
  <2>2. (Filtered(q) => Filtered(q)') /\ (Cleaned(q) => Cleaned(q)')
        /\ (Encrypted(q) => Encrypted(q)')
    BY <1>1, <1>3 DEF Filtered, Cleaned, Encrypted, ThirdParty, AskedToTrust, AskedOnceToBlock,
                BlockingRules
  <2>3. Walked(q) => Walked(q)'
    BY <1>1, <1>3 DEF Walked, ListedOnce, BlockingRules
  <2>4. QED BY <2>1, <2>2, <2>3 DEF PolicyInv, HandlerInv
<1>4. QED BY <1>2, <1>3

LEMMA CheckPageKeepsPolicy ==
  ASSUME PolicyInv, NEW r \in Requests, CheckPage(r)
  PROVE  PolicyTypes' /\ HandlerInv'
<1> DEFINE p == IF ~IsWhitelisted(firstParty[r]) /\ ThirdParty(r) THEN "foreign" ELSE "filtered"
<1>1. /\ phase' = [phase EXCEPT ![r] = p]
      /\ trusted' = [trusted EXCEPT ![r] = TrustedSoFar(firstParty[r])]
      /\ stable' = [stable EXCEPT ![r] = UiIdle]
      /\ UNCHANGED <<url, firstParty, autocomplete, referrer, walk, settings, blockerVars>>
  BY DEF CheckPage, ioUnchanged
<1>2. UiIdle \in BOOLEAN /\ TrustedSoFar(firstParty[r]) \in BOOLEAN
  BY DEF UiIdle, BlockerIdle, RewriterIdle, TrustedSoFar
<1>3. PolicyTypes'
  BY <1>1, <1>2 DEF PolicyInv, PolicyTypes
<1>4. stable'[r] = UiIdle /\ \A q \in Requests \ {r} : stable'[q] = stable[q]
  BY <1>1 DEF PolicyInv, PolicyTypes
<1>5. UiIdle => BlockerIdle
  BY DEF UiIdle
<1>6. p = "filtered" => Filtered(r)
  BY WhitelistedIsAsked DEF Filtered, PolicyInv
<1>7. UNCHANGED <<sentRules, sentWhitelist>>
  BY <1>1 DEF blockerVars
<1>8. Filtered(r) => Filtered(r)'
  BY <1>1, <1>7 DEF Filtered, ThirdParty, AskedToTrust, AskedOnceToBlock, BlockingRules
<1>9. p \in {"foreign", "filtered"}
  OBVIOUS
<1> HIDE DEF p
<1>10. HandlerInv'
  BY <1>1, <1>4, <1>5, <1>6, <1>8, <1>9, OthersKeepPolicy
<1>11. QED BY <1>3, <1>10

LEMMA CheckBlacklistingKeepsPolicy ==
  ASSUME PolicyInv, NEW r \in Requests, CheckBlacklisting(r)
  PROVE  PolicyTypes' /\ HandlerInv'
<1> DEFINE p == IF settings.blacklist THEN "walking" ELSE "filtered"
<1>1. /\ phase' = [phase EXCEPT ![r] = p]
      /\ walk' = [walk EXCEPT ![r] = 1]
      /\ UNCHANGED <<url, firstParty, autocomplete, referrer, stable, trusted, settings,
                     blockerVars>>
  BY DEF CheckBlacklisting, ioUnchanged
<1>2. PolicyTypes'
  BY <1>1 DEF PolicyInv, PolicyTypes
<1>3. walk'[r] = 1 /\ \A q \in Requests \ {r} : walk'[q] = walk[q]
  BY <1>1 DEF PolicyInv, PolicyTypes
<1>4. Walked(r)'
  BY <1>3 DEF Walked
<1>5. p = "filtered" => Filtered(r)'
  BY <1>1 DEF Filtered
<1>6. p \in {"walking", "filtered"}
  OBVIOUS
<1> HIDE DEF p
<1>7. stable[r] /\ ~autocomplete[r] => BlockerIdle
  BY DEF PolicyInv, HandlerInv
<1>8. HandlerInv'
  BY <1>1, <1>3, <1>4, <1>5, <1>6, <1>7, OthersKeepPolicy
<1>9. QED BY <1>2, <1>8

\* A lookup that finds nothing shows, while nothing changes, that no rule lists the
\* domain; when the walk is over, that no rule covers the host.
LEMMA CheckDomainKeepsPolicy ==
  ASSUME PolicyInv, NEW r \in Requests, CheckDomain(r)
  PROVE  PolicyTypes' /\ HandlerInv'
<1> DEFINE h    == url[r].host
           more == walk[r] \in WalkSteps(h)
           evil == more /\ IsHostEvilThirdParty(Suffix(h, walk[r]))
           p    == IF evil THEN "blocked" ELSE IF more THEN phase[r] ELSE "filtered"
           w    == IF more /\ ~evil THEN walk[r] + 1 ELSE 1
<1>1. /\ phase[r] = "walking"
      /\ phase' = [phase EXCEPT ![r] = p]
      /\ walk' = [walk EXCEPT ![r] = w]
      /\ UNCHANGED <<url, firstParty, autocomplete, referrer, stable, trusted, settings,
                     blockerVars>>
  BY DEF CheckDomain, ioUnchanged
<1>2. h \in Seq(STRING) /\ walk[r] \in Nat \ {0}
  BY UrlConstants DEF PolicyInv, RewriteInv, RequestType, PolicyTypes
<1>3. w \in Nat \ {0}
  BY <1>2
<1>4. PolicyTypes'
  <2> HIDE DEF p, w
  <2>1. QED BY <1>1, <1>3 DEF PolicyInv, PolicyTypes
<1>5. walk'[r] = w /\ \A q \in Requests \ {r} : walk'[q] = walk[q]
  BY <1>1 DEF PolicyInv, PolicyTypes
<1>6. stable[r] /\ ~autocomplete[r] => BlockerIdle /\ Walked(r)
  BY <1>1 DEF PolicyInv, HandlerInv
<1>7. UNCHANGED <<sentRules, sentWhitelist>>
  BY <1>1 DEF blockerVars
<1>8. p \in {"blocked", "walking", "filtered"} /\ (p = "walking" => more /\ ~evil)
      /\ (p = "filtered" => ~more)
  BY <1>1
<1>9. ASSUME stable[r], ~autocomplete[r], p = "walking" PROVE Walked(r)'
  <2>1. ~ListedOnce(Suffix(h, walk[r]))
    BY <1>6, <1>8, <1>9, ListedOnceIsEvil DEF PolicyInv
  <2>2. \A j \in 1 .. (walk[r] - 1) : ~ListedOnce(Suffix(h, j))
    BY <1>6, <1>9 DEF Walked
  <2>3. w = walk[r] + 1
    BY <1>8, <1>9
  <2>4. \A j \in 1 .. (w - 1) : ~ListedOnce(Suffix(h, j))
    BY <1>2, <2>1, <2>2, <2>3
  <2>5. \A d : ListedOnce(d)' <=> ListedOnce(d)
    BY <1>7 DEF ListedOnce, BlockingRules
  <2>6. walk'[r] = w /\ url' = url
    BY <1>1, <1>5
  <2> HIDE DEF w
  <2>7. QED BY <2>4, <2>5, <2>6 DEF Walked
<1>10. ASSUME stable[r], ~autocomplete[r], p = "filtered" PROVE Filtered(r)'
  <2>1. \A j \in WalkSteps(h) : j \in 1 .. (walk[r] - 1)
    BY <1>2, <1>8, <1>10 DEF WalkSteps
  <2>2. ~AskedOnceToBlock(h)
    BY <1>2, <1>6, <1>10, <2>1, WalkMeetsRule DEF Walked, PolicyInv
  <2>3. AskedOnceToBlock(h)' => AskedOnceToBlock(h)
    BY <1>1, <1>7 DEF AskedOnceToBlock, BlockingRules
  <2>4. QED BY <1>1, <2>2, <2>3 DEF Filtered
<1> HIDE DEF p, w, more, evil
<1>11. HandlerInv'
  BY <1>1, <1>5, <1>6, <1>8, <1>9, <1>10, OthersKeepPolicy
<1>12. QED BY <1>4, <1>11

LEMMA ClearReferrerKeepsPolicy ==
  ASSUME PolicyInv, NEW r \in Requests, ClearReferrer(r)
  PROVE  PolicyTypes' /\ HandlerInv'
<1>1. /\ phase[r] = "filtered"
      /\ phase' = [phase EXCEPT ![r] = "cleaned"]
      /\ referrer' = [referrer EXCEPT ![r] = referrer[r] /\ ~settings.clear_referrer]
      /\ UNCHANGED <<url, firstParty, autocomplete, stable, walk, trusted, settings, blockerVars>>
  BY DEF ClearReferrer, ioUnchanged
<1>2. UNCHANGED <<sentRules, sentWhitelist>>
  BY <1>1 DEF blockerVars
<1> DEFINE keeps == referrer[r] /\ ~settings.clear_referrer
<1>3. keeps \in BOOLEAN /\ (settings.clear_referrer => ~keeps)
  OBVIOUS
<1> HIDE DEF keeps
<1>4. referrer' = [referrer EXCEPT ![r] = keeps]
  BY <1>1 DEF keeps
<1>5. PolicyTypes'
  BY <1>1, <1>3, <1>4 DEF PolicyInv, PolicyTypes
<1>6. referrer'[r] = keeps /\ \A q \in Requests \ {r} : referrer'[q] = referrer[q]
  BY <1>4 DEF PolicyInv, PolicyTypes
<1>7. Cleaned(r)'
  BY <1>1, <1>3, <1>6 DEF Cleaned
<1>8. stable[r] /\ ~autocomplete[r] => BlockerIdle /\ Filtered(r)
  BY <1>1 DEF PolicyInv, HandlerInv
<1>9. Filtered(r) => Filtered(r)'
  BY <1>1, <1>2 DEF Filtered, ThirdParty, AskedToTrust, AskedOnceToBlock, BlockingRules
<1>10. HandlerInv'
  BY <1>1, <1>6, <1>7, <1>8, <1>9, OthersKeepPolicy
<1>11. QED BY <1>5, <1>10

LEMMA RewriteKeepsPolicy ==
  ASSUME PolicyInv, NEW r \in Requests, Rewrite(r)
  PROVE  PolicyTypes' /\ HandlerInv'
<1> DEFINE v == MaybeRewrite(url[r], prev[r], settings)
<1>1. /\ phase[r] = "cleaned"
      /\ UNCHANGED <<firstParty, autocomplete, referrer, stable, walk, trusted, settings,
                     blockerVars>>
  BY DEF Rewrite, ioUnchanged
<1>2. UNCHANGED <<sentRules, sentWhitelist>>
  BY <1>1 DEF blockerVars
<1>3. PolicyTypes' /\ (stable[r] /\ ~autocomplete[r] => BlockerIdle)
  BY <1>1 DEF PolicyInv, PolicyTypes, HandlerInv
<1>4. CASE v.new_url # NoUrl
  <2>1. phase' = [phase EXCEPT ![r] = "starting"] /\ url' = [url EXCEPT ![r] = v.new_url]
    BY <1>4 DEF Rewrite
  <2> HIDE DEF v
  <2>2. \A q \in Requests \ {r} : url'[q] = url[q]
    BY <2>1 DEF PolicyInv, RewriteInv, RequestType
  <2>3. HandlerInv'
    BY <1>1, <1>3, <2>1, <2>2, OthersKeepPolicy
  <2>4. QED BY <1>3, <2>3
<1>5. CASE v.new_url = NoUrl
  <2> DEFINE p == IF v.ret = "OK" THEN "sent" ELSE "failed"
  <2>1. phase' = [phase EXCEPT ![r] = p] /\ url' = url
    BY <1>5 DEF Rewrite
  <2>2. url[r] \in Urls
    BY DEF PolicyInv, RewriteInv, RequestType
  <2>3. v.ret = "OK" => Encrypted(r)
    BY <1>5, <2>2, MaybeRewriteAnswers DEF PolicyInv, RewriteInv, Encrypted
  <2> HIDE DEF v
  <2>4. Encrypted(r) => Encrypted(r)'
    BY <1>1, <2>1 DEF Encrypted
  <2>5. stable[r] /\ ~autocomplete[r] => Filtered(r) /\ Cleaned(r)
    BY <1>1 DEF PolicyInv, HandlerInv
  <2>6. (Filtered(r) => Filtered(r)') /\ (Cleaned(r) => Cleaned(r)')
    BY <1>1, <1>2, <2>1
       DEF Filtered, Cleaned, ThirdParty, AskedToTrust, AskedOnceToBlock, BlockingRules
  <2>7. p \in {"sent", "failed"} /\ (p = "sent" => v.ret = "OK")
    OBVIOUS
  <2> HIDE DEF p
  <2>8. HandlerInv'
    BY <1>1, <1>3, <2>1, <2>3, <2>4, <2>5, <2>6, <2>7, OthersKeepPolicy
  <2>9. QED BY <1>3, <2>8
<1>6. QED BY <1>4, <1>5

\* Start, PassAutocomplete, Redirect and Complete establish nothing.
LEMMA MovesKeepPolicy ==
  ASSUME PolicyInv, NEW r \in Requests,
         \/ Start(r) \/ PassAutocomplete(r) \/ Complete(r) \/ \E u \in Urls : Redirect(r, u)
  PROVE  PolicyTypes' /\ HandlerInv'
<1>1. /\ UNCHANGED <<firstParty, autocomplete, referrer, stable, walk, trusted, settings,
                     blockerVars>>
      /\ \E p : phase' = [phase EXCEPT ![r] = p]
                /\ (p \in {"starting", "done"} \/ autocomplete[r])
      /\ \A q \in Requests \ {r} : url'[q] = url[q]
  <2>1. CASE Start(r)
    BY <2>1 DEF Start, ioUnchanged
  <2>2. CASE PassAutocomplete(r)
    BY <2>2 DEF PassAutocomplete, ioUnchanged
  <2>3. CASE Complete(r)
    BY <2>3 DEF Complete, ioUnchanged
  <2>4. ASSUME NEW u \in Urls, Redirect(r, u)
        PROVE  /\ UNCHANGED <<firstParty, autocomplete, referrer, stable, walk, trusted, settings,
                              blockerVars>>
               /\ phase' = [phase EXCEPT ![r] = "starting"]
               /\ \A q \in Requests \ {r} : url'[q] = url[q]
    BY <2>4 DEF Redirect, ioUnchanged, PolicyInv, RewriteInv, RequestType
  <2>5. QED BY <2>1, <2>2, <2>3, <2>4
<1>2. UNCHANGED <<sentRules, sentWhitelist>>
  BY <1>1 DEF blockerVars
<1>3. PolicyTypes' /\ (stable[r] /\ ~autocomplete[r] => BlockerIdle)
  BY <1>1 DEF PolicyInv, PolicyTypes, HandlerInv
<1>4. PICK p : phase' = [phase EXCEPT ![r] = p] /\ (p \in {"starting", "done"} \/ autocomplete[r])
  BY <1>1
<1>5. HandlerInv'
  BY <1>1, <1>3, <1>4, OthersKeepPolicy
<1>6. QED BY <1>3, <1>5

\* An allocation takes a key's memory away and leaves Java's lists.
LEMMA AllocateKeepsPolicy ==
  ASSUME PolicyInv, Allocate
  PROVE  PolicyTypes' /\ HandlerInv'
<1>1. UNCHANGED <<settings, requestVars, stable, sentRules, sentWhitelist, pendingRules,
                  pendingWhitelist>>
  BY DEF Allocate, ReuseMemory, ReuseKey, blockerVars
<1>2. PolicyTypes'
  BY <1>1 DEF requestVars, PolicyInv, PolicyTypes
<1>3. \A r \in Requests : Filtered(r) => Filtered(r)'
  BY <1>1 DEF requestVars, Filtered, ThirdParty, AskedToTrust, AskedOnceToBlock, BlockingRules
<1>4. \A r \in Requests : Walked(r) => Walked(r)'
  BY <1>1 DEF requestVars, Walked, ListedOnce, BlockingRules
<1>5. \A r \in Requests : (Cleaned(r) => Cleaned(r)') /\ (Encrypted(r) => Encrypted(r)')
  BY <1>1 DEF requestVars, Cleaned, Encrypted
<1>6. BlockerIdle' <=> BlockerIdle
  BY <1>1 DEF BlockerIdle
<1>7. UNCHANGED <<stable, autocomplete, phase>>
  BY <1>1 DEF requestVars
<1>8. HandlerInv'
  BY <1>3, <1>4, <1>5, <1>6, <1>7 DEF PolicyInv, HandlerInv
<1>9. QED BY <1>2, <1>8

LEMMA PolicyInvStep == PolicyInv /\ [Next]_vars => PolicyInv'
<1> SUFFICES ASSUME PolicyInv, [Next]_vars PROVE PolicyTypes' /\ HandlerInv'
  BY RewriteInvStep, BlockerInvStep DEF PolicyInv
<1>1. ASSUME UiStep PROVE PolicyTypes' /\ HandlerInv'
  <2>1. \A r \in Requests : stable'[r] = FALSE
    BY <1>1 DEF UiStep
  <2>2. HandlerInv'
    BY <2>1 DEF HandlerInv
  <2>3. PolicyTypes'
    BY <1>1 DEF UiStep, requestVars, PolicyInv, PolicyTypes
  <2>4. QED BY <2>2, <2>3
<1>2. CASE UNCHANGED vars
  <2>1. PolicyTypes'
    BY <1>2 DEF vars, requestVars, PolicyInv, PolicyTypes
  <2>2. HandlerInv'
    BY <1>2 DEF vars, requestVars, blockerVars, PolicyInv, HandlerInv, BlockerIdle, Walked,
                ListedOnce, Filtered, Cleaned, Encrypted, ThirdParty, AskedToTrust,
                AskedOnceToBlock, BlockingRules
  <2>3. QED BY <2>1, <2>2
<1>3. CASE UpdateSettings \/ UpdateBlocker \/ ContinueBlocker \/ UpdateRewriter \/ ContinueRewriter
  BY <1>1, <1>3 DEF UpdateSettings, UpdateBlocker, ContinueBlocker, UpdateRewriter,
                    ContinueRewriter
<1>4. ASSUME NEW r \in Requests,
             \/ Start(r) \/ PassAutocomplete(r) \/ Complete(r) \/ \E u \in Urls : Redirect(r, u)
      PROVE  PolicyTypes' /\ HandlerInv'
  BY <1>4, MovesKeepPolicy
<1>5. ASSUME NEW r \in Requests,
             \/ CheckPage(r) \/ CheckBlacklisting(r) \/ CheckDomain(r) \/ ClearReferrer(r)
             \/ Rewrite(r)
      PROVE  PolicyTypes' /\ HandlerInv'
  BY <1>5, CheckPageKeepsPolicy, CheckBlacklistingKeepsPolicy, CheckDomainKeepsPolicy,
     ClearReferrerKeepsPolicy, RewriteKeepsPolicy
<1>6. QED BY <1>2, <1>3, <1>4, <1>5, AllocateKeepsPolicy DEF Next, Step, Handle

\* A request that leaves while nothing changed under the handler obeys the settings
\* and the lists Java sent, for every list, page, host and number of requests: the
\* suffix walk, the merged whitelist and the insertion entry by entry lose nothing but
\* a domain that two rules list.
THEOREM PolicySafety == Spec => []PolicyHolds
<1>1. PolicyInv => PolicyHolds
  BY DEF PolicyInv, HandlerInv, PolicyHolds, Filtered, Cleaned, Encrypted
<1>2. QED BY <1>1, PolicyInvInit, PolicyInvStep, PTL DEF Spec

JudgedInv ==
  \A r \in Requests : phase[r] \in {"foreign", "walking"} => ThirdParty(r) /\ ~trusted[r]

LEMMA JudgedInvStep ==
  ASSUME PolicyInv, JudgedInv, [Next]_vars
  PROVE  JudgedInv'
<1>1. CASE UNCHANGED requestVars
  BY <1>1 DEF requestVars, JudgedInv, ThirdParty
<1>2. ASSUME NEW r \in Requests, NEW p,
             phase' = [phase EXCEPT ![r] = p], firstParty' = firstParty,
             \A q \in Requests \ {r} : url'[q] = url[q] /\ trusted'[q] = trusted[q],
             p \in {"foreign", "walking"} => ThirdParty(r)' /\ ~trusted'[r]
      PROVE  JudgedInv'
  BY <1>2 DEF PolicyInv, RewriteInv, RequestType, JudgedInv, ThirdParty
<1>3. ASSUME NEW r \in Requests, CheckPage(r) PROVE JudgedInv'
  <2> DEFINE p == IF ~IsWhitelisted(firstParty[r]) /\ ThirdParty(r) THEN "foreign" ELSE "filtered"
  <2>1. /\ phase' = [phase EXCEPT ![r] = p]
        /\ trusted' = [trusted EXCEPT ![r] = TrustedSoFar(firstParty[r])]
        /\ UNCHANGED <<url, firstParty>>
    BY <1>3 DEF CheckPage
  <2>2. trusted'[r] = TrustedSoFar(firstParty[r])
        /\ \A q \in Requests \ {r} : trusted'[q] = trusted[q]
    BY <2>1 DEF PolicyInv, PolicyTypes
  <2>3. p \in {"foreign", "walking"} => ThirdParty(r) /\ ~TrustedSoFar(firstParty[r])
    BY TrustedIsWhitelisted DEF PolicyInv
  <2>4. ThirdParty(r) => ThirdParty(r)'
    BY <2>1 DEF ThirdParty
  <2> HIDE DEF p
  <2>5. QED BY <1>2, <2>1, <2>2, <2>3, <2>4
<1>4. ASSUME NEW r \in Requests, CheckBlacklisting(r) PROVE JudgedInv'
  <2> DEFINE p == IF settings.blacklist THEN "walking" ELSE "filtered"
  <2>1. /\ phase[r] = "foreign" /\ phase' = [phase EXCEPT ![r] = p]
        /\ UNCHANGED <<url, firstParty, trusted>>
    BY <1>4 DEF CheckBlacklisting
  <2>2. ThirdParty(r)' /\ ~trusted'[r]
    BY <2>1 DEF JudgedInv, ThirdParty
  <2> HIDE DEF p
  <2>3. QED BY <1>2, <2>1, <2>2
<1>5. ASSUME NEW r \in Requests, CheckDomain(r) PROVE JudgedInv'
  <2>1. PICK p : phase' = [phase EXCEPT ![r] = p]
    BY <1>5 DEF CheckDomain
  <2>2. phase[r] = "walking" /\ UNCHANGED <<url, firstParty, trusted>>
    BY <1>5 DEF CheckDomain
  <2>3. ThirdParty(r)' /\ ~trusted'[r]
    BY <2>2 DEF JudgedInv, ThirdParty
  <2>4. QED BY <1>2, <2>1, <2>2, <2>3
<1>6. ASSUME NEW r \in Requests,
             Start(r) \/ PassAutocomplete(r) \/ ClearReferrer(r) \/ Complete(r)
      PROVE  JudgedInv'
  BY <1>2, <1>6 DEF Start, PassAutocomplete, ClearReferrer, Complete
<1>7. ASSUME NEW r \in Requests, NEW u \in Urls, Redirect(r, u) PROVE JudgedInv'
  <2>1. \A q \in Requests \ {r} : url'[q] = url[q]
    BY <1>7 DEF Redirect, PolicyInv, RewriteInv, RequestType
  <2>2. QED BY <1>2, <1>7, <2>1 DEF Redirect
<1>8. ASSUME NEW r \in Requests, Rewrite(r) PROVE JudgedInv'
  <2>1. PICK p \in {"sent", "failed", "starting"} : phase' = [phase EXCEPT ![r] = p]
    BY <1>8 DEF Rewrite
  <2>2. \A q \in Requests \ {r} : url'[q] = url[q]
    BY <1>8 DEF Rewrite, PolicyInv, RewriteInv, RequestType
  <2>3. UNCHANGED <<firstParty, trusted>>
    BY <1>8 DEF Rewrite
  <2>4. QED BY <1>2, <2>1, <2>2, <2>3
<1>9. QED
  BY <1>1, <1>3, <1>4, <1>5, <1>6, <1>7, <1>8
     DEF Next, Step, Handle, vars, UpdateSettings, UpdateBlocker, ContinueBlocker,
         UpdateRewriter, ContinueRewriter, Allocate, UiStep

\* Whatever changes under the handler, nothing is blocked but what goes to a third party
\* the list sent last blocks, from a page that no entry in force trusts.
THEOREM BlockingIsJustified == Spec => BlockedIsJustified
<1> DEFINE Justified ==
      \A r \in Requests : phase[r] # "blocked" /\ phase'[r] = "blocked" =>
        /\ ThirdParty(r)
        /\ ~trusted[r]
        /\ AskedToBlock(url[r].host)
<1>1. ASSUME PolicyInv, JudgedInv, [Next]_vars PROVE Justified
  <2> SUFFICES ASSUME NEW r \in Requests, phase[r] # "blocked", phase'[r] = "blocked"
               PROVE  ThirdParty(r) /\ ~trusted[r] /\ AskedToBlock(url[r].host)
    OBVIOUS
  <2>1. CheckDomain(r)
    BY <1>1 DEF Next, Step, Handle, vars, requestVars, Start, CheckPage, CheckBlacklisting,
           CheckDomain, PassAutocomplete, ClearReferrer, Rewrite, Redirect, Complete,
           UpdateSettings, UpdateBlocker, ContinueBlocker, UpdateRewriter, ContinueRewriter,
           Allocate, UiStep, PolicyInv, RewriteInv, RequestType
  <2>2. phase[r] = "walking"
    BY <2>1 DEF CheckDomain
  <2>3. /\ walk[r] \in WalkSteps(url[r].host)
        /\ IsHostEvilThirdParty(Suffix(url[r].host, walk[r]))
    BY <1>1, <2>1, <2>2 DEF CheckDomain, PolicyInv, RewriteInv, RequestType
  <2>4. url[r].host \in Seq(STRING)
    BY <1>1, UrlConstants DEF PolicyInv, RewriteInv, RequestType
  <2>5. AskedToBlock(url[r].host)
    BY <1>1, <2>3, <2>4, EvilIsAsked DEF PolicyInv
  <2>6. QED BY <1>1, <2>2, <2>5 DEF JudgedInv
<1>2. Init => JudgedInv
  BY DEF Init, JudgedInv
<1>3. QED
  BY <1>1, <1>2, PolicyInvInit, PolicyInvStep, JudgedInvStep, PTL DEF Spec, BlockedIsJustified
-----------------------------------------------------------------------------
(***************************************************************************)
(* Types.  Most of TypeOK follows from the invariants above: what is in    *)
(* the blocker's tables came from well-typed messages, and a URL is        *)
(* rewritten at most once.  OtherTypes is the rest.                        *)
(***************************************************************************)

IsTable(w) == w = [h \in DOMAIN w |-> w[h]]

OtherTypes ==
  /\ redirects \in [Requests -> 0 .. MaxRedirects]
  /\ dangling \subseteq domain_blacklist
  /\ IsTable(whitelist)

TypeInv == PolicyInv /\ OtherTypes

LEMMA TypeInvIsTyped == TypeInv => TypeOK
<1> SUFFICES ASSUME TypeInv PROVE TypeOK
  OBVIOUS
<1> USE DEF TypeInv, PolicyInv
<1>1. domain_blacklist \subseteq HostNames
  <2> SUFFICES ASSUME NEW d \in domain_blacklist PROVE d \in HostNames
    OBVIOUS
  <2>1. PICK i \in Inserted : sentRules[i].domain = d
    BY DEF BlockerInv, RulesInv, BlacklistJustified, Blocks
  <2>2. sentRules[i] \in Rule
    BY DEF BlockerInv, BlockerTypes, Inserted
  <2>3. QED BY <2>1, <2>2 DEF Rule
<1>2. \A i \in InstalledEntries : sentWhitelist[i] \in WhitelistEntry
  BY DEF BlockerInv, BlockerTypes, InstalledEntries
<1>3. ASSUME NEW h \in DOMAIN whitelist
      PROVE  h \in HostNames /\ whitelist[h] \subseteq Paths
  <2>1. h \in HostNames
    BY <1>2 DEF BlockerInv, WhitelistInv, WhitelistEntry
  <2>2. ASSUME NEW q \in whitelist[h] PROVE q \in Paths
    <3>1. PICK i \in InstalledEntries : \E p \in sentWhitelist[i].paths : q = Lower(p)
      BY <2>2 DEF BlockerInv, WhitelistInv
    <3>2. sentWhitelist[i].paths \subseteq Paths
      BY <1>2 DEF WhitelistEntry
    <3>3. QED BY <3>1, <3>2, PathConstants
  <2>3. QED BY <2>1, <2>2
<1>4. whitelist \in [DOMAIN whitelist -> SUBSET Paths] /\ DOMAIN whitelist \subseteq HostNames
  BY <1>3 DEF OtherTypes, IsTable
<1>5. rewritten \in [Requests -> [Urls -> 0 .. 2]]
  <2>1. \A r \in Requests, u \in Urls : rewritten[r][u] \in 0 .. 2
    BY DEF RewriteInv, PrevIsHistory
  <2>2. QED BY <2>1 DEF RewriteInv, RequestType
<1>6. BlockerTypeOK
  BY <1>1, <1>4 DEF BlockerTypeOK, OtherTypes, BlockerInv, BlockerTypes
<1>7. QED
  BY <1>5, <1>6 DEF TypeOK, OtherTypes, RewriteInv, RequestType, PolicyTypes

LEMMA OtherTypesStep == TypeInv /\ [Next]_vars => OtherTypes'
<1> SUFFICES ASSUME TypeInv, [Next]_vars PROVE OtherTypes'
  OBVIOUS
<1> USE DEF TypeInv, OtherTypes
<1>1. redirects' \in [Requests -> 0 .. MaxRedirects]
  <2>1. ASSUME NEW r \in Requests, NEW u \in Urls, Redirect(r, u)
        PROVE  redirects' \in [Requests -> 0 .. MaxRedirects]
    <3>1. redirects[r] + 1 \in 0 .. MaxRedirects
      BY <2>1, RequestConstants DEF Redirect
    <3>2. QED BY <2>1, <3>1 DEF Redirect
  <2>2. CASE UNCHANGED redirects
    BY <2>2
  <2>3. QED
    BY <2>1, <2>2
       DEF Next, Step, Handle, vars, requestVars, Start, CheckPage, CheckBlacklisting,
           CheckDomain, PassAutocomplete, ClearReferrer, Rewrite, Complete, UpdateSettings,
           UpdateBlocker, ContinueBlocker, UpdateRewriter, ContinueRewriter, Allocate, UiStep
<1>3. /\ (dangling \subseteq domain_blacklist)'
      /\ IsTable(whitelist)'
  <2>1. CASE UNCHANGED blockerVars
    BY <2>1 DEF blockerVars
  <2>2. CASE UpdateBlocker
    <3>1. IsTable(<<>>)
      BY DEF IsTable
    <3>2. QED BY <2>2, <3>1 DEF UpdateBlocker, UpdateRules, UpdateWhitelist
  <2>3. CASE InsertRule
    BY <2>3 DEF InsertRule
  <2>4. CASE InsertWhitelist
    <3> DEFINE e     == Head(pendingWhitelist)
               paths == {Lower(p) : p \in e.paths}
               old   == IF e.host \in DOMAIN whitelist THEN whitelist[e.host] ELSE {}
               w     == [h \in DOMAIN whitelist \cup {e.host} |->
                           IF h = e.host THEN old \cup paths ELSE whitelist[h]]
    <3>1. whitelist' = w /\ UNCHANGED <<domain_blacklist, dangling>>
      BY <2>4 DEF InsertWhitelist
    <3> HIDE DEF e, paths, old
    <3>2. IsTable(w)
      BY DEF IsTable
    <3> HIDE DEF w
    <3>3. QED BY <3>1, <3>2
  <2>5. CASE ReuseMemory
    BY <2>5 DEF ReuseMemory
  <2>6. ASSUME NEW r \in Requests,
               Start(r) \/ Handle(r) \/ Complete(r) \/ \E u \in Urls : Redirect(r, u)
        PROVE  UNCHANGED blockerVars
    BY <2>6 DEF Start, Handle, CheckPage, CheckBlacklisting, CheckDomain, PassAutocomplete,
                ClearReferrer, Rewrite, Complete, Redirect, ioUnchanged
  <2>7. CASE UpdateSettings \/ UpdateRewriter \/ ContinueRewriter \/ UNCHANGED vars
    BY <2>1, <2>7 DEF UpdateSettings, UpdateRewriter, ContinueRewriter, vars
  <2>8. QED
    BY <2>1, <2>2, <2>3, <2>4, <2>5, <2>6, <2>7 DEF Next, Step, ContinueBlocker, Allocate
<1>4. QED BY <1>1, <1>3

\* Every reachable state is well typed, whatever Java's messages contain.
THEOREM RequestTypes == Spec => []TypeOK
<1>1. Init => TypeInv
  <2>1. Init => OtherTypes
    BY RequestConstants DEF Init, BlockerInit, OtherTypes, IsTable
  <2>2. QED BY <2>1, PolicyInvInit DEF TypeInv
<1>2. TypeInv /\ [Next]_vars => TypeInv'
  BY PolicyInvStep, OtherTypesStep DEF TypeInv
<1>3. QED BY <1>1, <1>2, TypeInvIsTyped, PTL DEF Spec
=============================================================================
