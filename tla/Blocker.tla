------------------------------ MODULE Blocker ------------------------------
(***************************************************************************)
(* The browser-process half of block/blocker.cc: the domain blacklist, the *)
(* whitelist, and the questions the network thread asks of them.           *)
(*                                                                         *)
(* Both tables are replaced by clearing them and inserting the new entries *)
(* one by one on Java's UI thread, with no lock, while the IO thread reads *)
(* them.  An update is therefore one step per entry.  (The hash tables     *)
(* themselves are assumed to survive the race: a reader sees the entries   *)
(* inserted so far.)                                                       *)
(*                                                                         *)
(* A key of the blacklist is a reference to a string its entry owns.  A    *)
(* second rule for a listed domain replaces the string and leaves the old  *)
(* key in place, which then refers to freed memory; the entry is found for *)
(* as long as nobody reuses that memory, and not afterwards.               *)
(***************************************************************************)
EXTENDS Hosts

CONSTANTS
  Paths          \* records [name, upper]: upper is TRUE for a capitalised spelling

VARIABLES
  domain_blacklist,    \* domain_blacklist_: the domains a lookup finds
  dangling,            \* those of them whose key refers to freed memory
  whitelist,           \* whitelist_: the paths per listed host, {} meaning the whole host
  pendingRules,        \* rules of the current update not inserted yet
  pendingWhitelist,    \* whitelist entries of the current update not inserted yet
  sentRules,           \* history: the rule list Java sent last
  sentWhitelist        \* history: the whitelist Java sent last

blockerVars == <<domain_blacklist, dangling, whitelist, pendingRules, pendingWhitelist,
                 sentRules, sentWhitelist>>

\* base::StringToLowerASCII on a path.
Lower(p) == [p EXCEPT !.upper = FALSE]

ASSUME PathConstants == \A p \in Paths : Lower(p) \in Paths

Rule           == [domain : HostNames, block_third_party : BOOLEAN]
WhitelistEntry == [host : HostNames, paths : SUBSET Paths]

BlockerTypeOK ==
  /\ domain_blacklist \subseteq HostNames
  /\ dangling \subseteq domain_blacklist
  /\ DOMAIN whitelist \subseteq HostNames
  /\ whitelist \in [DOMAIN whitelist -> SUBSET Paths]
  /\ pendingRules \in Seq(Rule)
  /\ pendingWhitelist \in Seq(WhitelistEntry)
  /\ sentRules \in Seq(Rule)
  /\ sentWhitelist \in Seq(WhitelistEntry)

BlockerInit ==
  /\ domain_blacklist = {}
  /\ dangling = {}
  /\ whitelist = <<>>
  /\ pendingRules = <<>>
  /\ pendingWhitelist = <<>>
  /\ sentRules = <<>>
  /\ sentWhitelist = <<>>

BlockerIdle == pendingRules = <<>> /\ pendingWhitelist = <<>>

-----------------------------------------------------------------------------
(* Updates, on the UI thread *)

\* UPDATE_BLOCKING_RULES: domain_blacklist_.clear(), then one InsertRule per rule.
UpdateRules(list) ==
  /\ BlockerIdle
  /\ domain_blacklist' = {}
  /\ dangling' = {}
  /\ pendingRules' = list
  /\ sentRules' = list
  /\ UNCHANGED <<whitelist, pendingWhitelist, sentWhitelist>>

InsertRule ==
  /\ pendingRules # <<>>
  /\ LET rule == Head(pendingRules)
         new  == IF rule.block_third_party THEN {rule.domain} ELSE {}
     IN  /\ domain_blacklist' = domain_blacklist \cup new
         /\ dangling' = dangling \cup (domain_blacklist \cap new)
  /\ pendingRules' = Tail(pendingRules)
  /\ UNCHANGED <<whitelist, pendingWhitelist, sentRules, sentWhitelist>>

\* Somebody is given the memory a key refers to: its entry is no longer found.
ReuseMemory ==
  /\ \E d \in dangling :
        /\ domain_blacklist' = domain_blacklist \ {d}
        /\ dangling' = dangling \ {d}
  /\ UNCHANGED <<whitelist, pendingRules, pendingWhitelist, sentRules, sentWhitelist>>

\* UPDATE_BLOCKING_WHITELIST: whitelist_.clear(), then one InsertWhitelist per entry.
UpdateWhitelist(list) ==
  /\ BlockerIdle
  /\ whitelist' = <<>>
  /\ pendingWhitelist' = list
  /\ sentWhitelist' = list
  /\ UNCHANGED <<domain_blacklist, dangling, pendingRules, sentRules>>

\* Mutant: paths are kept in the case they are written in.
InsertWhitelistMutCase ==
  /\ pendingWhitelist # <<>>
  /\ LET e   == Head(pendingWhitelist)
         old == IF e.host \in DOMAIN whitelist THEN whitelist[e.host] ELSE {}
     IN  whitelist' = [h \in DOMAIN whitelist \cup {e.host} |->
                         IF h = e.host THEN old \cup e.paths ELSE whitelist[h]]
  /\ pendingWhitelist' = Tail(pendingWhitelist)
  /\ UNCHANGED <<domain_blacklist, dangling, pendingRules, sentRules, sentWhitelist>>

\* Entries of one host are merged; paths are lowercased.
InsertWhitelist ==
  /\ pendingWhitelist # <<>>
  /\ LET e     == Head(pendingWhitelist)
         paths == {Lower(p) : p \in e.paths}
         old   == IF e.host \in DOMAIN whitelist THEN whitelist[e.host] ELSE {}
     IN  whitelist' = [h \in DOMAIN whitelist \cup {e.host} |->
                         IF h = e.host THEN old \cup paths ELSE whitelist[h]]
  /\ pendingWhitelist' = Tail(pendingWhitelist)
  /\ UNCHANGED <<domain_blacklist, dangling, pendingRules, sentRules, sentWhitelist>>

-----------------------------------------------------------------------------
(* Questions, on the IO thread *)

IsWhitelisted(url) ==
  \/ url.scheme = "krypton"
  \/ /\ url.host \in DOMAIN whitelist
     /\ \/ whitelist[url.host] = {}
        \/ Lower(url.path) \in whitelist[url.host]

IsHostEvilThirdParty(h) == h \in domain_blacklist

-----------------------------------------------------------------------------
(* What the last messages from Java ask for, independently of the tables. *)

Trusts(e, url) ==
  e.host = url.host /\ (e.paths = {} \/ \E p \in e.paths : Lower(p) = Lower(url.path))

\* The user trusts the page: an entry names its whole host or its path.
AskedToTrust(url) ==
  \/ url.scheme = "krypton"
  \/ \E i \in DOMAIN sentWhitelist : Trusts(sentWhitelist[i], url)

InstalledEntries == 1 .. (Len(sentWhitelist) - Len(pendingWhitelist))

\* An entry for a whole host gives way to those that name paths of the host: the two
\* are merged into one list of paths, and only the empty list means the whole host.
Narrowed(i) ==
  /\ sentWhitelist[i].paths = {}
  /\ \E j \in InstalledEntries :
        sentWhitelist[j].host = sentWhitelist[i].host /\ sentWhitelist[j].paths # {}

\* An entry the update has reached trusts the page.
TrustedSoFar(url) ==
  \/ url.scheme = "krypton"
  \/ \E i \in InstalledEntries : Trusts(sentWhitelist[i], url) /\ ~Narrowed(i)

BlockingRules ==
  {i \in DOMAIN sentRules :
     sentRules[i].block_third_party /\ Len(sentRules[i].domain) > 1}

\* The host or a parent domain of it, other than a top-level domain, is listed.
AskedToBlock(h) == \E i \in BlockingRules : IsDomainOf(sentRules[i].domain, h)

\* It is listed, and by one rule only.
AskedOnceToBlock(h) ==
  \E i \in BlockingRules :
     /\ IsDomainOf(sentRules[i].domain, h)
     /\ \A j \in BlockingRules \ {i} : sentRules[j].domain # sentRules[i].domain
=============================================================================
