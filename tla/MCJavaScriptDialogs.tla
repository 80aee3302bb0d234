------------------------ MODULE MCJavaScriptDialogs ------------------------
(* Two tabs and four dialogs, spread over the tabs in any way. *)
EXTENDS JavaScriptDialogs
=============================================================================
