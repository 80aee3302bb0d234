------------------------------- MODULE MCPage -------------------------------
(***************************************************************************)
(* A small instance of Page: a site with a subdomain, two pages, rule      *)
(* lists that fill more than one sheet of two selectors, and icons of both *)
(* kinds.                                                                  *)
(***************************************************************************)
EXTENDS Page

Site == <<"a", "com">>
Sub  == <<"w", "a", "com">>
MCHostNames == {Site, Sub, <<"com">>}

Url(host) == [scheme |-> "https", host |-> host]
MCUrls == {Url(Site), Url(Sub)}
MCWhitelists == {{Url(Site)}}

MCSelectors == {"x", "y", "z"}
R(domain, selector) == [domain |-> domain, selector |-> selector]
MCRuleLists ==
  {<<R("none", "x"), R(Site, "y"), R(Sub, NoSelector), R("none", "y"), R("none", "z"),
     R(Sub, "x"), R(Site, "z"), R(<<"com">>, "x")>>,
   <<R("none", "x"), R("none", "z")>>}

Icon(id, type, diff) == [id |-> id, type |-> type, diff |-> diff]
Plain == Icon(1, "favicon", 0)
Touch == Icon(2, "touch", 2)
Broken == Icon(3, "invalid", 0)
MCIcons == {Plain, Touch, Broken}
MCIconLists == {<<Broken>>, <<Broken, Plain, Touch, Plain>>}
=============================================================================
