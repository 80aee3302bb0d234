---------------------- MODULE JavaScriptDialogsProofs ----------------------
(***************************************************************************)
(* Proofs about JavaScriptDialogs, for any tabs and dialogs: the callback  *)
(* a tab keeps is always that of its waiting page, a page that waits can   *)
(* be answered, and an answer goes to another page, or finds no callback,  *)
(* only in a tab in which the engine has cancelled a dialog.               *)
(***************************************************************************)
EXTENDS JavaScriptDialogs, TLAPS

\* What Java shows is waited for, but in tabs in which the engine has cancelled a dialog.
ShownIsWaiting ==
  \A d \in java : tab[d] \in open /\ (page[d] = "waiting" \/ tab[d] \in Disturbed)

\* STNOTREACHED is reached only in such tabs.
AbortIsStale == aborted => Disturbed # {}

\* A tab that is gone waits for nothing.
ClosedIsQuiet == \A t \in Tabs \ open : last_callback_[t] = NoDialog

\* Java shows what is waited for, whether or not it also shows what no page waits for.
WaitingIsShown == \A d \in Dialogs : page[d] = "waiting" => d \in java

\* CallbackOfWaitingPage in terms of single dialogs.
WaitingIsKept ==
  \A t \in Tabs, d \in Dialogs :
    (tab[d] = t /\ page[d] = "waiting") <=> (last_callback_[t] = d)

Inv ==
  /\ TypeOK
  /\ WaitingIsKept
  /\ ShownIsWaiting
  /\ WaitingIsShown
  /\ ClosedIsQuiet
  /\ AbortIsStale

LEMMA InitInv == Init => Inv
<1> SUFFICES ASSUME Init PROVE Inv
  OBVIOUS
<1>1. TypeOK
  BY DialogConstants DEF Init, TypeOK, PageStates
<1>2. WaitingIsKept
  BY DialogConstants DEF Init, WaitingIsKept
<1>3. QED
  BY <1>1, <1>2 DEF Inv, Init, ShownIsWaiting, AbortIsStale,
           WaitingIsShown, ClosedIsQuiet

LEMMA Kept == Inv => CallbackOfWaitingPage
<1> SUFFICES ASSUME Inv PROVE CallbackOfWaitingPage
  OBVIOUS
<1>1. ASSUME NEW t \in Tabs
      PROVE  Waiting(t) = IF last_callback_[t] = NoDialog THEN {} ELSE {last_callback_[t]}
  <2>1. last_callback_[t] \in Dialogs \cup {NoDialog}
    BY DEF Inv, TypeOK
  <2>2. \A d \in Dialogs : d \in Waiting(t) <=> (last_callback_[t] = d)
    BY DEF Inv, WaitingIsKept, Waiting
  <2>3. Waiting(t) \subseteq Dialogs
    BY DEF Waiting
  <2>4. QED BY <2>1, <2>2, <2>3, DialogConstants
<1>2. ASSUME NEW d \in java PROVE last_callback_[tab[d]] = d \/ tab[d] \in Disturbed
  BY <1>2 DEF Inv, TypeOK, ShownIsWaiting, WaitingIsKept
<1>3. QED BY <1>1, <1>2 DEF CallbackOfWaitingPage

LEMMA StepInv == Inv /\ [Next]_vars => Inv'
<1> SUFFICES ASSUME Inv, [Next]_vars PROVE Inv'
  OBVIOUS
<1> USE DialogConstants
<1>0. TypeOK
  BY DEF Inv
<1>1. ASSUME NEW t \in Tabs, NEW d \in Dialogs, RunDialog(t, d)
      PROVE  Inv'
  <2>1. TypeOK'
    BY <1>0, <1>1 DEF TypeOK, RunDialog, PageStates
  <2>2. \A e \in Dialogs : tab[e] = t => page[e] # "waiting"
    BY <1>1 DEF RunDialog, Waiting
  <2>3. WaitingIsKept'
    BY <1>0, <1>1, <2>2 DEF Inv, WaitingIsKept, TypeOK, RunDialog
  <2>a. Disturbed \subseteq Disturbed'
    BY <1>0, <1>1 DEF Disturbed, RunDialog, TypeOK
  <2>4. ShownIsWaiting' /\ WaitingIsShown' /\ ClosedIsQuiet'
    BY <1>0, <1>1, <2>a
       DEF Inv, TypeOK, RunDialog, ShownIsWaiting, WaitingIsShown, ClosedIsQuiet
  <2>5. AbortIsStale'
    BY <1>1 DEF RunDialog, Running, AbortIsStale
  <2>6. QED BY <2>1, <2>3, <2>4, <2>5 DEF Inv
<1>2. ASSUME NEW t \in Tabs, CancelActiveAndPendingDialogs(t)
      PROVE  Inv'
  <2>1. TypeOK'
    BY <1>0, <1>2 DEF TypeOK, CancelActiveAndPendingDialogs, PageStates
  <2>2. WaitingIsKept'
    BY <1>0, <1>2 DEF Inv, WaitingIsKept, TypeOK, CancelActiveAndPendingDialogs, Waiting
  <2>3. ASSUME NEW d \in Dialogs
        PROVE  /\ page'[d] = (IF d \in Waiting(t) THEN "cancelled" ELSE page[d])
               /\ page[d] = "waiting" /\ tab[d] = t => d \in Waiting(t)
               /\ d \in Waiting(t) => page[d] = "waiting" /\ tab[d] = t
    BY <1>0, <1>2 DEF CancelActiveAndPendingDialogs, TypeOK, Waiting
  <2>a. Disturbed \subseteq Disturbed'
    BY <1>2, <2>3 DEF Disturbed, CancelActiveAndPendingDialogs
  <2>4. ASSUME NEW d \in java'
        PROVE  tab'[d] \in open' /\ (page'[d] = "waiting" \/ tab'[d] \in Disturbed')
    <3>1. d \in Dialogs /\ tab'[d] = tab[d] /\ tab[d] \in open' /\ d \in java
      BY <1>0, <1>2 DEF Inv, TypeOK, ShownIsWaiting, CancelActiveAndPendingDialogs
    <3>2. CASE d \in Waiting(t)
      BY <2>3, <3>1, <3>2 DEF Disturbed
    <3>3. CASE d \notin Waiting(t)
      BY <2>3, <2>a, <3>1, <3>3 DEF Inv, ShownIsWaiting
    <3>4. QED BY <3>2, <3>3
  <2>5. WaitingIsShown' /\ ClosedIsQuiet'
    BY <1>0, <1>2, <2>3
       DEF Inv, TypeOK, CancelActiveAndPendingDialogs, WaitingIsShown, ClosedIsQuiet
  <2>6. AbortIsStale'
    BY <1>2 DEF CancelActiveAndPendingDialogs, Running, AbortIsStale
  <2>7. QED BY <2>1, <2>2, <2>4, <2>5, <2>6 DEF Inv, ShownIsWaiting
<1>3. ASSUME NEW t \in Tabs, WebContentsDestroyed(t)
      PROVE  Inv'
  <2>1. TypeOK'
    BY <1>0, <1>3 DEF TypeOK, WebContentsDestroyed, PageStates
  <2>2. WaitingIsKept'
    BY <1>0, <1>3 DEF Inv, WaitingIsKept, TypeOK, WebContentsDestroyed, Waiting
  <2>3. ASSUME NEW d \in Dialogs
        PROVE  /\ page'[d] = (IF d \in Waiting(t) THEN "cancelled" ELSE page[d])
               /\ page[d] = "waiting" /\ tab[d] = t => d \in Waiting(t)
               /\ d \in Waiting(t) => page[d] = "waiting" /\ tab[d] = t
    BY <1>0, <1>3 DEF WebContentsDestroyed, TypeOK, Waiting
  <2>a. Disturbed \ {t} \subseteq Disturbed'
    BY <1>3, <2>3 DEF Disturbed, WebContentsDestroyed
  <2>4. ASSUME NEW d \in java'
        PROVE  tab'[d] \in open' /\ (page'[d] = "waiting" \/ tab'[d] \in Disturbed')
    <3>1. d \in Dialogs /\ tab'[d] = tab[d] /\ tab[d] # t /\ tab[d] \in open' /\ d \in java
      BY <1>0, <1>3 DEF Inv, TypeOK, ShownIsWaiting, WebContentsDestroyed
    <3>2. page'[d] = page[d]
      BY <2>3, <3>1
    <3>3. QED BY <2>a, <3>1, <3>2 DEF Inv, ShownIsWaiting
  <2>5. WaitingIsShown' /\ ClosedIsQuiet'
    BY <1>0, <1>3, <2>3
       DEF Inv, TypeOK, WebContentsDestroyed, WaitingIsShown, ClosedIsQuiet
  <2>6. AbortIsStale'
    BY <1>3 DEF WebContentsDestroyed, Running, AbortIsStale
  <2>7. QED BY <2>1, <2>2, <2>4, <2>5, <2>6 DEF Inv, ShownIsWaiting
<1>4. ASSUME NEW d \in Dialogs, DialogClosed(d)
      PROVE  Inv'
  <2> DEFINE t == tab[d]
  <2>0. t \in Tabs
    BY <1>0 DEF TypeOK
  <2>1. CASE t \in open /\ last_callback_[t] # NoDialog
    <3>1. RunCallback(t) /\ java' = java \ {d} /\ UNCHANGED <<open, tab>>
      BY <1>4, <2>1 DEF DialogClosed
    <3>2. TypeOK'
      BY <1>0, <2>0, <3>1 DEF TypeOK, RunCallback, PageStates
    <3>3. WaitingIsKept'
      BY <1>0, <2>0, <2>1, <3>1 DEF Inv, WaitingIsKept, TypeOK, RunCallback
    <3>4. ClosedIsQuiet'
      BY <1>0, <2>0, <2>1, <3>1 DEF Inv, TypeOK, ClosedIsQuiet, RunCallback
    <3>5. d = last_callback_[t] \/ t \in Disturbed
      BY <1>4, <2>0 DEF Inv, WaitingIsKept, ShownIsWaiting, DialogClosed
    <3>6. WaitingIsShown'
      BY <1>0, <1>4, <2>0, <2>1, <3>1
         DEF Inv, TypeOK, WaitingIsKept, WaitingIsShown, RunCallback, DialogClosed
    <3>7. page[last_callback_[t]] = "waiting"
      BY <1>0, <2>0, <2>1 DEF Inv, TypeOK, WaitingIsKept
    <3>8. Disturbed \subseteq Disturbed'
      BY <1>0, <2>0, <3>1, <3>7 DEF Disturbed, RunCallback, TypeOK
    <3>9. ASSUME NEW e \in java'
          PROVE  tab'[e] \in open' /\ (page'[e] = "waiting" \/ tab'[e] \in Disturbed')
      <4>1. e \in java /\ e # d /\ e \in Dialogs
        BY <1>0, <3>1 DEF TypeOK
      <4>2. CASE e = last_callback_[t]
        <5>1. tab[e] = t
          BY <1>0, <2>0, <4>1, <4>2 DEF Inv, WaitingIsKept
        <5>2. QED BY <2>1, <3>1, <3>5, <3>8, <4>1, <4>2, <5>1
      <4>3. CASE e # last_callback_[t]
        BY <1>0, <3>1, <3>8, <4>1, <4>3 DEF Inv, TypeOK, ShownIsWaiting, RunCallback
      <4>4. QED BY <4>2, <4>3
    <3>10. AbortIsStale'
      BY <1>4, <3>1 DEF DialogClosed, Running, RunCallback, AbortIsStale
    <3>11. QED BY <3>2, <3>3, <3>4, <3>6, <3>9, <3>10 DEF Inv, ShownIsWaiting
  <2>2. CASE ~ (t \in open /\ last_callback_[t] # NoDialog)
    <3>1. /\ aborted' = TRUE
          /\ java' = java \ {d}
          /\ UNCHANGED <<open, tab, page, last_callback_>>
      BY <1>4, <2>2 DEF DialogClosed
    <3>2. TypeOK'
      BY <1>0, <3>1 DEF TypeOK
    <3>3. WaitingIsKept'
      BY <3>1 DEF Inv, WaitingIsKept
    <3>4. t \in Disturbed
      BY <1>4, <2>0, <2>2 DEF Inv, WaitingIsKept, ShownIsWaiting, DialogClosed
    <3>5. d \notin java \/ page[d] # "waiting"
      BY <1>4, <2>0, <2>2 DEF Inv, WaitingIsKept, ClosedIsQuiet
    <3>6. Disturbed' = Disturbed
      BY <3>1 DEF Disturbed
    <3>7. ShownIsWaiting' /\ WaitingIsShown' /\ ClosedIsQuiet' /\ AbortIsStale'
      BY <3>1, <3>4, <3>5, <3>6
         DEF Inv, ShownIsWaiting, WaitingIsShown, ClosedIsQuiet, AbortIsStale
    <3>8. QED BY <3>2, <3>3, <3>7 DEF Inv
  <2>3. QED BY <2>1, <2>2
<1>5. ASSUME UNCHANGED vars PROVE Inv'
  <2>1. Disturbed' = Disturbed
    BY <1>5 DEF vars, Disturbed
  <2>2. QED
    BY <1>0, <1>5, <2>1
       DEF Inv, WaitingIsKept, vars, TypeOK, ShownIsWaiting, AbortIsStale, WaitingIsShown,
           ClosedIsQuiet
<1>6. QED BY <1>1, <1>2, <1>3, <1>4, <1>5 DEF Next

LEMMA Invariance == Spec => []Inv
<1>1. QED BY InitInv, StepInv, PTL DEF Spec

\* The callback a tab keeps is that of the page waiting in it, so it never runs for a
\* page that is gone (CancelActiveAndPendingDialogs, WebContentsDestroyed).
THEOREM CallbackSafety == Spec => []CallbackOfWaitingPage
<1>1. QED BY Kept, Invariance, PTL

\* The state is well typed, whatever dialogs are asked for, cancelled and answered.
THEOREM JavaScriptDialogsTypes == Spec => []TypeOK
<1>1. Inv => TypeOK
  BY DEF Inv
<1>2. QED BY <1>1, Invariance, PTL

\* "callback for javascript dialog is null" (DialogClosed) is reached only when the engine
\* has cancelled a dialog in some open tab: neither a closed tab nor any order of dialogs
\* and answers in other tabs leads there.
AbortNeedsCancel == aborted => \E d \in Dialogs : tab[d] \in open /\ page[d] = "cancelled"

THEOREM AnswersFindCallbacks == Spec => []AbortNeedsCancel
<1>1. Inv => AbortNeedsCancel
  BY DEF Inv, AbortIsStale, AbortNeedsCancel, Disturbed
<1>2. QED BY <1>1, Invariance, PTL

\* A page that waits can be answered: its tab is there, Java shows its dialog, and
\* closing that dialog runs its callback; neither a dialog Java has failed to withdraw
\* nor an answer that was meant for another one takes that away (DialogClosed).
AnswerIsPossible ==
  \A d \in Dialogs : page[d] = "waiting" =>
    d \in java /\ tab[d] \in open /\ last_callback_[tab[d]] = d

\* No page waits for an answer that cannot come: the safety core of PagesGoOn, whether
\* or not Java still shows dialogs of pages that are gone.
THEOREM WaitingCanBeAnswered == Spec => []AnswerIsPossible
<1>1. ASSUME Inv, NEW d \in Dialogs, page[d] = "waiting"
      PROVE  d \in java /\ tab[d] \in open /\ last_callback_[tab[d]] = d
  <2>1. tab[d] \in Tabs /\ d # NoDialog
    BY <1>1, DialogConstants DEF Inv, TypeOK
  <2>2. last_callback_[tab[d]] = d
    BY <1>1, <2>1 DEF Inv, WaitingIsKept
  <2>3. QED BY <1>1, <2>1, <2>2 DEF Inv, WaitingIsShown, ClosedIsQuiet
<1>2. Inv => AnswerIsPossible
  BY <1>1 DEF AnswerIsPossible
<1>3. QED BY <1>2, Invariance, PTL
=============================================================================
