------------------------------ MODULE MCShell ------------------------------
(* Small instances of Shell: three tabs over two addresses. *)
EXTENDS Shell

=============================================================================
