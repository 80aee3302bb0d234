------------------------- MODULE MCRequestContexts -------------------------
(***************************************************************************)
(* A small instance: a site and its subdomain, the shared context and one  *)
(* separate context, a favourite list with the site and one without.       *)
(***************************************************************************)
EXTENDS RequestContexts

CONSTANTS a, wa, P

MCDomains == {a, wa}
MCRegisteredDomain == [d \in MCDomains |-> a]
MCSessionDomains == {wa}
MCDeleteScopes == {MCDomains, MCSessionDomains}
MCMaxDeletions == [ds \in MCDeleteScopes |-> IF ds = MCDomains THEN 2 ELSE 1]
MCContexts == {Main, P}
MCFavoriteLists == {{wa, NoDomain}, {}}

State(single, cookies, cache) ==
  [single_context |-> single, allow_persistant_cookies |-> cookies, persist_cache |-> cache]
MCSettings == {State(TRUE, TRUE, TRUE), State(FALSE, TRUE, TRUE)}
=============================================================================
