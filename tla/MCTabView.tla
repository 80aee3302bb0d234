----------------------------- MODULE MCTabView -----------------------------
(***************************************************************************)
(* Two tabs at two addresses; a good site and two with broken              *)
(* certificates, so that an answer can be taken for another site's.        *)
(***************************************************************************)
EXTENDS TabView, TLC

Site(s, scheme, cert) ==
  [scheme |-> scheme, site |-> s, cert |-> cert, bits |-> 128, cipher |-> TRUE, tls |-> TRUE]

MCUrls == {Site("good", "https", "good"), Site("bad", "https", "broken"),
           Site("worse", "https", "broken")}

\* A cookie of the good site on a page of its own, and on a page of another.
MCCookies == {[site |-> "good", first |-> "good"], [site |-> "good", first |-> "bad"]}

Alike == Permutations(Tabs) \cup Permutations(Addresses)
=============================================================================
