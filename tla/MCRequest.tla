----------------------------- MODULE MCRequest -----------------------------
(***************************************************************************)
(* A small instance of Request: a site a.com with a subdomain, a tracker   *)
(* below t.net, two http URLs that a pair of rules rewrites into each      *)
(* other, and a whitelist whose entries have to be merged and lowercased.  *)
(***************************************************************************)
EXTENDS Request

Site    == <<"a", "com">>
Sub     == <<"w", "a", "com">>
Network == <<"t", "net">>
Tracker == <<"x", "t", "net">>

MCHostNames == {Site, Sub, Tracker, Network, <<"net">>}

Page  == [name |-> "p", upper |-> FALSE]
Shout == [name |-> "p", upper |-> TRUE]
Other == [name |-> "q", upper |-> FALSE]
MCPaths == {Page, Shout, Other}

Url(scheme, host) == [scheme |-> scheme, host |-> host, path |-> Page]
MCUrls == {Url("http", Site), Url("https", Site), Url("http", Sub), Url("https", Sub),
           Url("https", Tracker)}

Setting(enabled, https_only, blacklist, clear) ==
  [enabled |-> enabled, https_only |-> https_only, blacklist |-> blacklist,
   clear_referrer |-> clear]
MCSettings == {Setting(TRUE, TRUE, TRUE, TRUE), Setting(TRUE, FALSE, TRUE, FALSE),
               Setting(FALSE, TRUE, FALSE, TRUE)}

MCPages == {Url("https", Site), Url("http", Sub)}

Block(d) == [domain |-> d, block_third_party |-> TRUE]
MCRuleLists == {<<[domain |-> Sub, block_third_party |-> FALSE], Block(Network)>>,
                <<Block(Network), Block(<<"net">>), Block(Network)>>}

Trust(h, paths) == [host |-> h, paths |-> paths]
MCWhitelists == {<<Trust(Site, {Other}), Trust(Site, {}), Trust(Sub, {Shout})>>}

\* http://w.a.com and http://a.com are rewritten into each other; a.com is covered
\* by an exact rule, w.a.com by a rule set for *.a.com and by two for itself.
MapTo(from, to) == [u \in MCUrls |-> IF u = from THEN to ELSE NoUrl]
Host(k, h) == [kind |-> k, name |-> h]
Set(rules, hosts) == [rules |-> rules, hosts |-> hosts]

\* The second rule set takes w.a.com over from the first, whose string the key refers to.
Chase == <<Set(<<MapTo(Url("http", Sub), Url("https", Sub))>>, <<Host("exact", Sub)>>),
           Set(<<MapTo(Url("https", Sub), Url("https", Site)),
                 MapTo(Url("http", Sub), Url("http", Site))>>,
               <<Host("exact", Sub), Host("super", Site)>>),
           Set(<<MapTo(Url("http", Site), Url("http", Sub))>>, <<Host("exact", Site)>>)>>
\* A rule set without hosts is passed over; one without rules ends the process.
Empty == <<Set(<<MapTo(Url("http", Sub), Url("http", Site))>>, <<>>), Set(<<>>, <<>>)>>
MCHttpsRuleLists == {Chase, Empty}
=============================================================================
