--------------------------- MODULE HttpsRewriter ---------------------------
(***************************************************************************)
(* extra/https_rewriter.cc: the rule tables and the rewriting of one       *)
(* request's URL.  A compiled rule (a regular expression and a rewrite     *)
(* string) is a function on URLs, NoUrl where the expression does not      *)
(* match.  As in Blocker, the tables are cleared on the UI thread and      *)
(* refilled host by host while the IO thread reads them.                   *)
(*                                                                         *)
(* A key of a table is a reference to a string of the rule set that        *)
(* brought the host.  A second rule set for the host takes the entry over  *)
(* and leaves the key; it then refers to freed memory as soon as no entry  *)
(* holds the first rule set.  Rule sets are named by their number in the   *)
(* list.                                                                   *)
(***************************************************************************)
EXTENDS Hosts, FiniteSetsExt

VARIABLES
  exact_host,        \* exact_host_: the entry per host
  super_host,        \* super_host_: the entry per '*.' host
  strays,            \* the rule sets of the entries that are no longer found
  sentRuleSets,      \* the list Java sent last
  inserting,         \* where its insertion is: the next host, of the next rule set
  aborted            \* did the process meet a STNOTREACHED()?

rewriterVars == <<exact_host, super_host, strays, sentRuleSets, inserting, aborted>>

RuleSeqs == Seq([Urls -> Urls \cup {NoUrl}])

\* A host of a rule set: '*.name', name, or one with a '*' elsewhere.
HostPattern == [kind : {"super", "exact", "bad"}, name : HostNames]
RuleSets    == [rules : RuleSeqs, hosts : Seq(HostPattern)]

Numbers == DOMAIN sentRuleSets
NoEntry == [rules |-> 0, key |-> 0]
Entry   == [rules : Numbers, key : Numbers] \cup {NoEntry}

RewriterTypeOK ==
  /\ exact_host \in [HostNames -> Entry]
  /\ super_host \in [HostNames -> Entry]
  /\ strays \subseteq Numbers
  /\ sentRuleSets \in Seq(RuleSets)
  /\ inserting \in [set : Nat \ {0}, host : Nat \ {0}]
  /\ aborted \in BOOLEAN

RewriterInit ==
  /\ exact_host = [h \in HostNames |-> NoEntry]
  /\ super_host = [h \in HostNames |-> NoEntry]
  /\ strays = {}
  /\ sentRuleSets = <<>>
  /\ inserting = [set |-> 1, host |-> 1]
  /\ aborted = FALSE

RewriterIdle == inserting.set \notin Numbers

-----------------------------------------------------------------------------
(* Updates, on the UI thread *)

\* UPDATE_HTTPS_RULES: both tables are cleared; the insertion follows.
UpdateHttpsRules(list) ==
  /\ RewriterIdle
  /\ exact_host' = [h \in HostNames |-> NoEntry]
  /\ super_host' = [h \in HostNames |-> NoEntry]
  /\ strays' = {}
  /\ sentRuleSets' = list
  /\ inserting' = [set |-> 1, host |-> 1]
  /\ UNCHANGED aborted

Current  == sentRuleSets[inserting.set]
HostLeft == inserting.host \in DOMAIN Current.hosts
NextHost == Current.hosts[inserting.host]

\* STNOTREACHED() is CHECK(FALSE): a rule set without rules, or a host with a '*'
\* inside, ends the process.
Refused ==
  \/ Current.rules = <<>>
  \/ HostLeft /\ NextHost.kind = "bad"

\* table[host] = crs: an entry that is found keeps its key.
Assigned(table, h) ==
  [table EXCEPT ![h] =
     [rules |-> inserting.set, key |-> IF @ = NoEntry THEN inserting.set ELSE @.key]]

\* Mutant: a rule set is left after its first host.
AdvanceMutFirst == inserting' = [set |-> inserting.set + 1, host |-> 1]

\* The next host of the rule set or, after the last, the next rule set.
Advance ==
  inserting' = IF inserting.host + 1 \in DOMAIN Current.hosts
                 THEN [inserting EXCEPT !.host = @ + 1]
                 ELSE [set |-> inserting.set + 1, host |-> 1]

InsertHost ==
  /\ HostLeft
  /\ exact_host' = IF NextHost.kind = "exact" THEN Assigned(exact_host, NextHost.name)
                   ELSE exact_host
  /\ super_host' = IF NextHost.kind = "super" THEN Assigned(super_host, NextHost.name)
                   ELSE super_host
  /\ Advance

\* A rule set without hosts.
SkipRuleSet ==
  /\ ~HostLeft
  /\ Advance
  /\ UNCHANGED <<exact_host, super_host>>

ContinueRules ==
  /\ ~RewriterIdle
  /\ \/ /\ Refused
        /\ aborted' = TRUE
        /\ UNCHANGED <<exact_host, super_host, inserting>>
     \/ /\ ~Refused
        /\ InsertHost \/ SkipRuleSet
        /\ UNCHANGED aborted
  /\ UNCHANGED <<strays, sentRuleSets>>

\* A rule set exists while it is being inserted and while an entry holds it.
Exists(n) ==
  \/ n = inserting.set
  \/ n \in strays
  \/ \E h \in HostNames : n \in {exact_host[h].rules, super_host[h].rules}

\* Somebody is given the memory a key refers to: its entry is no longer found, and
\* keeps the rule set it holds.
ReuseKey ==
  \E h \in HostNames :
    \/ /\ exact_host[h] # NoEntry /\ ~Exists(exact_host[h].key)
       /\ strays' = strays \cup {exact_host[h].rules}
       /\ exact_host' = [exact_host EXCEPT ![h] = NoEntry]
       /\ UNCHANGED <<super_host, sentRuleSets, inserting, aborted>>
    \/ /\ super_host[h] # NoEntry /\ ~Exists(super_host[h].key)
       /\ strays' = strays \cup {super_host[h].rules}
       /\ super_host' = [super_host EXCEPT ![h] = NoEntry]
       /\ UNCHANGED <<exact_host, sentRuleSets, inserting, aborted>>

-----------------------------------------------------------------------------
(* Rewriting one URL, on the IO thread *)

\* The rules an entry holds; a host without an entry has none.
Rules(entry) == IF entry = NoEntry THEN <<>> ELSE sentRuleSets[entry.rules].rules

Matching(rules, url) == {i \in DOMAIN rules : rules[i][url] # NoUrl}

\* CompiledRuleSet::MaybeRewrite: the first rule that matches.
FirstTarget(rules, url) == rules[Min(Matching(rules, url))][url]

\* MaybeRewriteForSuperHost: the walk from the host itself up, taking the first
\* rule set that has a matching rule.
SuperSteps(url) ==
  {i \in WalkSteps(url.host) : Matching(Rules(super_host[Suffix(url.host, i)]), url) # {}}

RuleTarget(url) ==
  IF Matching(Rules(exact_host[url.host]), url) # {}
    THEN FirstTarget(Rules(exact_host[url.host]), url)
  ELSE IF SuperSteps(url) # {}
    THEN FirstTarget(Rules(super_host[Suffix(url.host, Min(SuperSteps(url)))]), url)
  ELSE NoUrl

Verdict(ret, new_url) == [ret |-> ret, new_url |-> new_url]

\* Mutant: the URLs this request was already rewritten from are not consulted.
MaybeRewriteMutForgets(url, prev, st) ==
  IF ~st.enabled \/ url.scheme # "http"
    THEN Verdict("OK", NoUrl)
  ELSE IF RuleTarget(url) = NoUrl /\ st.https_only
    THEN Verdict("OK", ForceHttps(url))
  ELSE Verdict("OK", RuleTarget(url))

\* Mutant: a URL already rewritten goes out as it is, whatever https_only says.
MaybeRewriteMutGivesUp(url, prev, st) ==
  IF ~st.enabled \/ url.scheme # "http" \/ url \in prev
    THEN Verdict("OK", NoUrl)
  ELSE IF RuleTarget(url) = NoUrl /\ st.https_only
    THEN Verdict("OK", ForceHttps(url))
  ELSE Verdict("OK", RuleTarget(url))

\* HttpsRewriter::MaybeRewrite.  prev is the request's prev_rewrites_, which
\* DoRewrite extends with url exactly when new_url is set.
MaybeRewrite(url, prev, st) ==
  IF ~st.enabled \/ url.scheme # "http"
    THEN Verdict("OK", NoUrl)
  ELSE IF url \in prev
    THEN Verdict(IF st.https_only THEN "ERR_UNSAFE_REDIRECT" ELSE "OK", NoUrl)
  ELSE IF RuleTarget(url) = NoUrl /\ st.https_only
    THEN Verdict("OK", ForceHttps(url))
  ELSE Verdict("OK", RuleTarget(url))
-----------------------------------------------------------------------------
(* What the last message from Java asks for, independently of the tables. *)

\* A pattern for the host itself or a parent of it, other than a top-level domain.
Covers(pattern, h) ==
  \/ pattern.kind = "exact" /\ pattern.name = h
  \/ pattern.kind = "super" /\ Len(pattern.name) > 1 /\ IsDomainOf(pattern.name, h)

Listed(n, pattern) == \E k \in DOMAIN sentRuleSets[n].hosts : sentRuleSets[n].hosts[k] = pattern

\* A rule set has a rule for the URL, and a host for it that no other rule set lists.
AskedOnceToRewrite(url) ==
  \E n \in Numbers :
     /\ Matching(sentRuleSets[n].rules, url) # {}
     /\ \E k \in DOMAIN sentRuleSets[n].hosts :
           /\ Covers(sentRuleSets[n].hosts[k], url.host)
           /\ \A m \in Numbers \ {n} : ~Listed(m, sentRuleSets[n].hosts[k])
=============================================================================
