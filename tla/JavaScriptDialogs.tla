------------------------- MODULE JavaScriptDialogs -------------------------
(***************************************************************************)
(* shell/browser/shell_javascript_dialog_manager.cc: alert, confirm,       *)
(* prompt and beforeunload dialogs.  Each tab has one manager, which       *)
(* remembers the callback of the last dialog only.                         *)
(*                                                                         *)
(* All on the UI thread, but three parties act on their own: pages ask for *)
(* dialogs and then wait, the engine cancels them when the page goes away, *)
(* and the user closes what Java shows.  Java's answer names the tab's     *)
(* WebContents, not the dialog, and nothing tells Java of a cancellation.  *)
(***************************************************************************)
EXTENDS FiniteSets

CONSTANTS
  Tabs,           \* tabs, each with its WebContents and its dialog manager
  Dialogs,        \* incarnations: each is asked for at most once (bound of the model)
  NoDialog

ASSUME DialogConstants == NoDialog \notin Dialogs

VARIABLES
  open,            \* the tabs that exist
  tab,             \* the tab each dialog was asked for in
  page,            \* how the page that asked for it fares
  last_callback_,  \* per tab
  java,            \* the dialogs Java shows
  aborted          \* STNOTREACHED was reached

vars == <<open, tab, page, last_callback_, java, aborted>>

PageStates == {"unasked", "waiting", "resumed", "cancelled"}

TypeOK ==
  /\ open \subseteq Tabs
  /\ tab \in [Dialogs -> Tabs]
  /\ page \in [Dialogs -> PageStates]
  /\ last_callback_ \in [Tabs -> Dialogs \cup {NoDialog}]
  /\ java \subseteq Dialogs
  /\ aborted \in BOOLEAN

Init ==
  /\ open = Tabs
  /\ tab \in [Dialogs -> Tabs]
  /\ page = [d \in Dialogs |-> "unasked"]
  /\ last_callback_ = [t \in Tabs |-> NoDialog]
  /\ java = {}
  /\ aborted = FALSE

Running == ~aborted

\* The dialogs of a tab whose page is waiting (at most one: the page is blocked).
Waiting(t) == {d \in Dialogs : tab[d] = t /\ page[d] = "waiting"}

-----------------------------------------------------------------------------
\* Mutant: what Java shows is kept by tab.
RunDialogMutByTab(t, d) ==
  /\ Running /\ t \in open /\ tab[d] = t
  /\ page[d] = "unasked" /\ Waiting(t) = {}
  /\ page' = [page EXCEPT ![d] = "waiting"]
  /\ last_callback_' = [last_callback_ EXCEPT ![t] = d]
  /\ java' = java \cup {t}
  /\ UNCHANGED <<open, tab, aborted>>

\* RunJavaScriptDialog and RunBeforeUnloadDialog: the callback is kept and Java shows
\* the dialog.
RunDialog(t, d) ==
  /\ Running
  /\ t \in open
  /\ tab[d] = t
  /\ page[d] = "unasked"
  /\ Waiting(t) = {}
  /\ page' = [page EXCEPT ![d] = "waiting"]
  /\ last_callback_' = [last_callback_ EXCEPT ![t] = d]
  /\ java' = java \cup {d}
  /\ UNCHANGED <<open, tab, aborted>>

\* Mutant: the callback of the page that is gone is kept.
CancelActiveAndPendingDialogsMutKeeps(t) ==
  /\ Running
  /\ Waiting(t) # {}
  /\ page' = [d \in Dialogs |-> IF d \in Waiting(t) THEN "cancelled" ELSE page[d]]
  /\ UNCHANGED <<open, tab, last_callback_, java, aborted>>

\* The engine cancels when the page crashes or the tab moves to another process.  Java
\* is not told and goes on showing the dialog.
CancelActiveAndPendingDialogs(t) ==
  /\ Running
  /\ Waiting(t) # {}
  /\ page' = [d \in Dialogs |-> IF d \in Waiting(t) THEN "cancelled" ELSE page[d]]
  /\ last_callback_' = [last_callback_ EXCEPT ![t] = NoDialog]
  /\ UNCHANGED <<open, tab, java, aborted>>

\* The tab is deleted.  Java, told by CLEANUP, takes down the dialogs of the tab.
WebContentsDestroyed(t) ==
  /\ Running
  /\ t \in open
  /\ open' = open \ {t}
  /\ page' = [d \in Dialogs |-> IF d \in Waiting(t) THEN "cancelled" ELSE page[d]]
  /\ last_callback_' = [last_callback_ EXCEPT ![t] = NoDialog]
  /\ java' = {d \in java : tab[d] # t}
  /\ UNCHANGED <<tab, aborted>>

\* Mutant: the answer is dropped.
RunCallbackMutDrops(t) ==
  /\ last_callback_' = [last_callback_ EXCEPT ![t] = NoDialog]
  /\ UNCHANGED <<page, aborted>>

\* The page that asked for the last dialog of the tab goes on.  The callback is the
\* engine's: it sends the answer to the page's process, and nothing that concerns dialogs
\* happens on the UI thread before it is reset.
RunCallback(t) ==
  /\ page' = [page EXCEPT ![last_callback_[t]] = "resumed"]
  /\ last_callback_' = [last_callback_ EXCEPT ![t] = NoDialog]
  /\ UNCHANGED aborted

\* The user closes a dialog: JAVASCRIPT_DIALOG_CLOSED for its WebContents.
DialogClosed(d) ==
  LET t == tab[d]
  IN  /\ Running
      /\ d \in java
      /\ java' = java \ {d}
      /\ IF t \in open /\ last_callback_[t] # NoDialog
           THEN RunCallback(t)
           ELSE aborted' = TRUE /\ UNCHANGED <<page, last_callback_>>
      /\ UNCHANGED <<open, tab>>

Next ==
  \/ \E t \in Tabs, d \in Dialogs : RunDialog(t, d)
  \/ \E t \in Tabs : CancelActiveAndPendingDialogs(t)
  \/ \E t \in Tabs : WebContentsDestroyed(t)
  \/ \E d \in Dialogs : DialogClosed(d)

\* The user answers what Java shows; pages and the engine owe nothing.
Fairness == \A d \in Dialogs : WF_vars(DialogClosed(d))

Spec == Init /\ [][Next]_vars /\ Fairness

-----------------------------------------------------------------------------
(* Properties *)

\* The tabs in which the engine has cancelled a dialog.
Disturbed == {t \in open : \E d \in Dialogs : tab[d] = t /\ page[d] = "cancelled"}

\* The callback a tab keeps is that of the page that is waiting in it: it is never run
\* for a page that is gone or has its answer, and a waiting page can be answered.  Java's
\* answers name the tab only; one can reach another page than the one it was given to
\* only in a tab in which the engine has cancelled a dialog.
CallbackOfWaitingPage ==
  /\ \A t \in Tabs :
       Waiting(t) = IF last_callback_[t] = NoDialog THEN {} ELSE {last_callback_[t]}
  /\ \A d \in java : last_callback_[tab[d]] = d \/ tab[d] \in Disturbed

\* A waiting page does not wait forever: it is answered, or it goes away.
PagesGoOn ==
  \A d \in Dialogs : page[d] = "waiting" ~> page[d] # "waiting" \/ aborted

\* STNOTREACHED() << "callback for javascript dialog is null": an answer always finds
\* the callback it is for.
NeverAborts == ~aborted
=============================================================================
