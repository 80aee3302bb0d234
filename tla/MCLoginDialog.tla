--------------------------- MODULE MCLoginDialog ---------------------------
(* Two requests and three challenges: one request can be challenged twice. *)
EXTENDS LoginDialog
=============================================================================
