----------------------------- MODULE MCServices -----------------------------
(***************************************************************************)
(* Two fetches, a page of the program and two configurations: one change   *)
(* can overtake the answer to the constructor and another one follow it.   *)
(***************************************************************************)
EXTENDS Services
=============================================================================
