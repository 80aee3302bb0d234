---------------------------- MODULE ShellProofs ----------------------------
(***************************************************************************)
(* Proofs about Shell: for any number of tabs and addresses, types are     *)
(* preserved, Java's handles always denote the tab they were issued for,   *)
(* preferences stay within the settings, no private context is left        *)
(* without an owner, no WebContents outlives its browser context but those *)
(* the code has cut off from its owners, and the deletions in progress     *)
(* nest.                                                                   *)
(***************************************************************************)
EXTENDS Shell, TLAPS

LEMMA TypeInit == Init => TypeOK
  BY ShellConstants DEF Init, TypeOK, Settings, Prefs, NoPrefs, Phases

LEMMA CreateShellType ==
  ASSUME TypeOK, NEW s \in Shells, NEW a \in Addresses,
         NEW wcc \in Shells \cup {Global, NoContext},
         NEW owned \in Shells \cup {NoContext},
         CreateShell(s, a, wcc, owned)
  PROVE  /\ all_shells' \subseteq Shells
         /\ phase' \in [Shells -> Phases]
         /\ address' \in [Shells -> Addresses \cup {NoShell}]
         /\ sbc' \in [Shells -> Shells \cup {NoContext}]
         /\ wcContext' \in [Shells -> Shells \cup {Global, NoContext}]
         /\ prefs' \in [Shells -> Prefs]
         /\ java' \in [Addresses -> Shells \cup {NoShell}]
<1>1. FreshPrefs(settings) \in Prefs
  BY DEF TypeOK, Settings, Prefs, FreshPrefs, UpdateWebPreferences
<1>2. QED BY <1>1 DEF CreateShell, TypeOK, Phases

\* The shell ForPtr finds is a registered one at that address, if there is one.
LEMMA ForPtrFinds ==
  ASSUME NEW a
  PROVE  ForPtr(a) # NoShell => ForPtr(a) \in all_shells /\ address[ForPtr(a)] = a
  BY DEF ForPtr

LEMMA CloseType ==
  ASSUME TypeOK, NEW s \in Shells, Close(s)
  PROVE  TypeOK'
  BY DEF Close, TypeOK, Phases

LEMMA TypeStep == TypeOK /\ [Next]_vars => TypeOK'
<1> SUFFICES ASSUME TypeOK, [Next]_vars PROVE TypeOK'
  OBVIOUS
<1>1. ASSUME NEW s \in Shells, NEW a \in Addresses, LaunchShell(s, a)
      PROVE  TypeOK'
  <2>1. CASE settings.single_context
    <3>1. CreateShell(s, a, Global, NoContext)
          /\ UNCHANGED <<contexts, settings, stack, adrift>>
      BY <1>1, <2>1 DEF LaunchShell
    <3>2. QED BY <3>1, CreateShellType DEF TypeOK
  <2>2. CASE ~settings.single_context
    <3>1. CreateShell(s, a, s, s) /\ contexts' = contexts \cup {s}
          /\ UNCHANGED <<settings, stack, adrift>>
      BY <1>1, <2>2 DEF LaunchShell
    <3>2. QED BY <3>1, CreateShellType DEF TypeOK
  <2>3. QED BY <2>1, <2>2
<1>2. ASSUME NEW opener \in Shells, NEW s \in Shells, NEW a \in Addresses,
             AddNewContents(opener, s, a)
      PROVE  TypeOK'
  <2> DEFINE owned == IF settings.single_context THEN NoContext ELSE sbc[opener]
  <2>1. CreateShell(s, a, wcContext[opener], owned)
        /\ UNCHANGED <<settings, contexts>>
        /\ stack' = <<Report>>
        /\ adrift' \subseteq Shells
    BY <1>2 DEF AddNewContents, TypeOK
  <2>2. owned \in Shells \cup {NoContext}
    BY DEF TypeOK
  <2>3. wcContext[opener] \in Shells \cup {Global, NoContext}
    BY DEF TypeOK
  <2> HIDE DEF owned
  <2>4. stack' \in Seq(Shells \cup {Report})
    BY <2>1
  <2>5. contexts' \subseteq Shells /\ settings' \in Settings
    BY <2>1 DEF TypeOK
  <2>6. QED BY <2>1, <2>2, <2>3, <2>4, <2>5, CreateShellType DEF TypeOK
<1>3. ASSUME NEW s \in Shells, CloseContents(s) PROVE TypeOK'
  BY <1>3, CloseType DEF CloseContents
<1>4. ASSUME NEW a \in Addresses, DispatchClose(a) PROVE TypeOK'
  <2>1. ForPtr(a) \in Shells
    BY <1>4, ForPtrFinds DEF DispatchClose, TypeOK
  <2>2. QED BY <1>4, <2>1, CloseType DEF DispatchClose
<1>5. ASSUME NEW s \in Shells, Cleanup(s) PROVE TypeOK'
  BY <1>5 DEF Cleanup, TypeOK, Phases
<1>6. ASSUME NEW s \in Shells, Unregister(s) PROVE TypeOK'
  BY <1>6 DEF Unregister, TypeOK, Phases
<1>7. ASSUME NEW s \in Shells, DestroyContents(s) PROVE TypeOK'
  BY <1>7 DEF DestroyContents, TypeOK, Phases, Prefs, NoPrefs
<1>8. ASSUME NEW s \in Shells, ReleaseContext(s) PROVE TypeOK'
  <2>1. Tail(stack) \in Seq(Shells \cup {Report})
    BY <1>8 DEF ReleaseContext, Deleting, TypeOK
  <2>2. QED BY <1>8, <2>1 DEF ReleaseContext, TypeOK, Phases
<1>9. ASSUME NEW new \in Settings, UpdateSettings(new) PROVE TypeOK'
  <2>1. prefs' \in [Shells -> Prefs]
    BY <1>9 DEF UpdateSettings, TypeOK, Settings, Prefs, UpdateWebPreferences
  <2>2. QED BY <1>9, <2>1 DEF UpdateSettings, TypeOK
<1>10. ASSUME NEW s \in Shells, NewRenderView(s) PROVE TypeOK'
  <2>1. FreshPrefs(settings) \in Prefs
    BY DEF TypeOK, Settings, Prefs, FreshPrefs, UpdateWebPreferences
  <2>2. QED BY <1>10, <2>1 DEF NewRenderView, TypeOK
<1>11. CASE PopupReported
  <2>1. Tail(stack) \in Seq(Shells \cup {Report})
    BY <1>11 DEF PopupReported, TypeOK
  <2>2. QED BY <1>11, <2>1 DEF PopupReported, TypeOK
<1>12. CASE UNCHANGED vars
  BY <1>12 DEF vars, TypeOK
<1>13. QED
  BY <1>1, <1>2, <1>3, <1>4, <1>5, <1>6, <1>7, <1>8, <1>9, <1>10, <1>11, <1>12 DEF Next

\* Every reachable state is well typed.
THEOREM TypeCorrect == Spec => []TypeOK
  BY TypeInit, TypeStep, PTL DEF Spec

-----------------------------------------------------------------------------
(***************************************************************************)
(* Handles.  The invariant adds which phases are registered, that allocated *)
(* shells have distinct addresses, and that Java forgets a handle before    *)
(* the shell leaves the phases in which it is told of it.                   *)
(***************************************************************************)

RegisteredPhases ==
  \A s \in Shells : s \in all_shells <=> phase[s] \in {"open", "hidden", "cleanup"}

AddressesDistinct ==
  \A s, t \in Shells : address[s] = address[t] /\ address[s] # NoShell => s = t

RegisteredHaveAddress == \A s \in all_shells : address[s] # NoShell

JavaKnowsLive ==
  \A a \in Addresses : java[a] # NoShell =>
     address[java[a]] = a /\ phase[java[a]] \in {"open", "hidden"}

HandleInv ==
  TypeOK /\ RegisteredPhases /\ AddressesDistinct /\ RegisteredHaveAddress /\ JavaKnowsLive

LEMMA HandleInvSafe == HandleInv => HandlesAreFresh /\ RegisteredIsUsable
<1> SUFFICES ASSUME HandleInv PROVE HandlesAreFresh /\ RegisteredIsUsable
  OBVIOUS
<1> USE DEF HandleInv
<1>1. RegisteredIsUsable
  BY DEF RegisteredIsUsable, RegisteredPhases, AddressesDistinct, RegisteredHaveAddress,
         HasContents, TypeOK
<1>2. ASSUME NEW a \in Addresses, java[a] # NoShell
      PROVE  java[a] \in all_shells /\ address[java[a]] = a /\ ForPtr(a) = java[a]
  <2>1. java[a] \in all_shells /\ address[java[a]] = a
    BY <1>2 DEF JavaKnowsLive, RegisteredPhases, TypeOK
  <2>2. \A s \in all_shells : address[s] = a => s = java[a]
    BY <2>1, ShellConstants DEF AddressesDistinct, TypeOK
  <2>3. ForPtr(a) = java[a]
    BY <2>1, <2>2 DEF ForPtr
  <2>4. QED BY <2>1, <2>3
<1>3. QED BY <1>1, <1>2 DEF HandlesAreFresh

\* The shell DispatchShellCommand finds is the one Java means, and it is open.
LEMMA DispatchTarget ==
  ASSUME HandleInv, NEW a \in Addresses, DispatchClose(a)
  PROVE  ForPtr(a) \in Shells /\ phase[ForPtr(a)] = "open" /\ Close(ForPtr(a))
<1>1. ForPtr(a) = java[a] /\ java[a] \in Shells
  BY HandleInvSafe DEF DispatchClose, HandlesAreFresh, HandleInv, TypeOK
<1>2. QED BY <1>1 DEF DispatchClose

LEMMA HandleInvInit == Init => HandleInv
  BY TypeInit, ShellConstants
     DEF Init, HandleInv, RegisteredPhases, AddressesDistinct, RegisteredHaveAddress,
         JavaKnowsLive

HandleParts ==
  RegisteredPhases /\ AddressesDistinct /\ RegisteredHaveAddress /\ JavaKnowsLive

LEMMA CreateShellHandles ==
  ASSUME HandleInv, NEW s \in Shells, NEW a \in Addresses, NEW wcc, NEW owned,
         CreateShell(s, a, wcc, owned)
  PROVE  HandleParts'
<1> USE DEF HandleInv
<1>1. \A t \in Shells : address[t] # a
  BY DEF CreateShell, FreeAddresses
<1>2. a # NoShell /\ phase[s] = "unborn" /\ s # NoShell
  BY ShellConstants DEF CreateShell
<1>3. RegisteredPhases'
  BY DEF CreateShell, RegisteredPhases, TypeOK
<1>4. AddressesDistinct'
  BY <1>1 DEF CreateShell, AddressesDistinct, TypeOK
<1>5. RegisteredHaveAddress'
  BY <1>2 DEF CreateShell, RegisteredHaveAddress, TypeOK
<1>6. JavaKnowsLive'
  <2>1. \A b \in Addresses : java[b] # NoShell => java[b] # s /\ java[b] \in Shells
    BY <1>2 DEF JavaKnowsLive, TypeOK
  <2>2. QED BY <1>1, <2>1 DEF CreateShell, JavaKnowsLive, TypeOK
<1>7. QED BY <1>3, <1>4, <1>5, <1>6 DEF HandleParts

LEMMA CloseHandles ==
  ASSUME HandleInv, NEW s \in Shells, phase[s] = "open", Close(s)
  PROVE  HandleParts'
<1> USE DEF HandleInv
<1>1. RegisteredPhases' /\ AddressesDistinct' /\ RegisteredHaveAddress'
  BY DEF Close, RegisteredPhases, AddressesDistinct, RegisteredHaveAddress, TypeOK
<1>2. JavaKnowsLive'
  BY DEF Close, JavaKnowsLive, TypeOK
<1>3. QED BY <1>1, <1>2 DEF HandleParts

LEMMA HandleInvStep == HandleInv /\ [Next]_vars => HandleInv'
<1> SUFFICES ASSUME HandleInv, [Next]_vars PROVE HandleParts'
  BY TypeStep DEF HandleInv, HandleParts
<1>1. ASSUME NEW s \in Shells, NEW a \in Addresses, LaunchShell(s, a)
      PROVE  HandleParts'
  BY <1>1, CreateShellHandles DEF LaunchShell
<1>2. ASSUME NEW opener \in Shells, NEW s \in Shells, NEW a \in Addresses,
             AddNewContents(opener, s, a)
      PROVE  HandleParts'
  BY <1>2, CreateShellHandles DEF AddNewContents
<1>3. ASSUME NEW s \in Shells, CloseContents(s) PROVE HandleParts'
  BY <1>3, CloseHandles DEF CloseContents
<1>4. ASSUME NEW a \in Addresses, DispatchClose(a) PROVE HandleParts'
  BY <1>4, DispatchTarget, CloseHandles
<1>5. ASSUME NEW s \in Shells, Cleanup(s) PROVE HandleParts'
  <2> USE <1>5 DEF HandleInv, Cleanup, Deleting
  <2>1. RegisteredPhases' /\ AddressesDistinct' /\ RegisteredHaveAddress'
    BY DEF RegisteredPhases, AddressesDistinct, RegisteredHaveAddress, TypeOK
  <2>2. s \in all_shells /\ address[s] \in Addresses
    BY DEF RegisteredPhases, RegisteredHaveAddress, TypeOK
  <2>3. \A a \in Addresses : a # address[s] /\ java[a] # NoShell => java[a] # s
    BY DEF JavaKnowsLive
  <2>4. JavaKnowsLive'
    BY <2>2, <2>3 DEF JavaKnowsLive, TypeOK
  <2>5. QED BY <2>1, <2>4 DEF HandleParts
<1>6. ASSUME NEW s \in Shells, Unregister(s) PROVE HandleParts'
  BY <1>6 DEF HandleInv, HandleParts, Unregister, Deleting, RegisteredPhases,
              AddressesDistinct, RegisteredHaveAddress, JavaKnowsLive, TypeOK
<1>7. ASSUME NEW s \in Shells, DestroyContents(s) PROVE HandleParts'
  BY <1>7 DEF HandleInv, HandleParts, DestroyContents, Deleting, RegisteredPhases,
              AddressesDistinct, RegisteredHaveAddress, JavaKnowsLive, TypeOK
<1>8. ASSUME NEW s \in Shells, ReleaseContext(s) PROVE HandleParts'
  <2> USE <1>8 DEF HandleInv, ReleaseContext, Deleting
  <2>1. RegisteredPhases' /\ AddressesDistinct'
    BY DEF RegisteredPhases, AddressesDistinct, TypeOK
  <2>2. s \notin all_shells
    BY DEF RegisteredPhases
  <2>3. RegisteredHaveAddress'
    BY <2>2 DEF RegisteredHaveAddress, TypeOK
  <2>4. JavaKnowsLive'
    BY DEF JavaKnowsLive, TypeOK
  <2>5. QED BY <2>1, <2>3, <2>4 DEF HandleParts
<1>9. ASSUME NEW new \in Settings, UpdateSettings(new) PROVE HandleParts'
  BY <1>9 DEF HandleInv, HandleParts, UpdateSettings, RegisteredPhases,
              AddressesDistinct, RegisteredHaveAddress, JavaKnowsLive
<1>10. ASSUME NEW s \in Shells, NewRenderView(s) PROVE HandleParts'
  BY <1>10 DEF HandleInv, HandleParts, NewRenderView, RegisteredPhases,
               AddressesDistinct, RegisteredHaveAddress, JavaKnowsLive
<1>11. ASSUME UNCHANGED <<all_shells, phase, address, java>> PROVE HandleParts'
  BY <1>11 DEF HandleInv, HandleParts, RegisteredPhases,
               AddressesDistinct, RegisteredHaveAddress, JavaKnowsLive
<1>12. QED
  BY <1>1, <1>2, <1>3, <1>4, <1>5, <1>6, <1>7, <1>8, <1>9, <1>10, <1>11
     DEF Next, PopupReported, vars

\* No command from Java meets the CHECK "no shell for native address" or reaches
\* a tab other than the one its handle was issued for, although addresses are
\* reused.
THEOREM HandleSafety == Spec => []HandlesAreFresh
<1>1. HandleInv => HandlesAreFresh
  BY HandleInvSafe
<1>2. QED BY <1>1, HandleInvInit, HandleInvStep, PTL DEF Spec

\* Every tab UpdateAllWebPreferences and ForWebContents visit has its contents.
THEOREM RegistrySafety == Spec => []RegisteredIsUsable
<1>1. HandleInv => RegisteredIsUsable
  BY HandleInvSafe
<1>2. QED BY <1>1, HandleInvInit, HandleInvStep, PTL DEF Spec
-----------------------------------------------------------------------------
(***************************************************************************)
(* Contexts.  The invariant strengthens ContextOutlivesContents: a tab with *)
(* contents in a private context owns that context itself, unless it was   *)
(* cut off from the owners, and owned contexts exist.                      *)
(***************************************************************************)

OwnersHold == \A s \in Shells : sbc[s] # NoContext => sbc[s] \in contexts

ContentsHeld ==
  \A s \in Shells \ adrift : HasContents(s) =>
     \/ wcContext[s] = Global
     \/ wcContext[s] # NoContext /\ wcContext[s] = sbc[s]

ContextInv == HandleInv /\ OwnersHold /\ ContentsHeld

LEMMA ContextInvInit == Init => ContextInv
  BY HandleInvInit, ShellConstants
     DEF Init, ContextInv, OwnersHold, ContentsHeld, HasContents

LEMMA ContextInvSafe == ContextInv => ContextOutlivesContents
  BY DEF ContextInv, OwnersHold, ContentsHeld, ContextOutlivesContents

\* A new tab keeps the invariant when its context is the global one, or one that
\* exists and is owned by the tab, or when it is cut off.
LEMMA CreateShellContext ==
  ASSUME ContextInv, NEW s \in Shells, NEW a \in Addresses,
         NEW wcc \in Shells \cup {Global, NoContext},
         NEW owned \in Shells \cup {NoContext},
         CreateShell(s, a, wcc, owned), adrift \subseteq adrift',
         contexts \subseteq contexts',
         owned # NoContext => owned \in contexts',
         s \in adrift' \/ wcc = Global \/ (wcc = owned /\ wcc # NoContext)
  PROVE  OwnersHold' /\ ContentsHeld'
<1>1. OwnersHold'
  BY DEF CreateShell, ContextInv, HandleInv, OwnersHold, TypeOK
<1>2. ContentsHeld'
  BY DEF CreateShell, ContextInv, HandleInv, ContentsHeld, HasContents, TypeOK
<1>3. QED BY <1>1, <1>2

LEMMA CloseContext ==
  ASSUME ContextInv, NEW s \in Shells, phase[s] = "open", Close(s)
  PROVE  OwnersHold' /\ ContentsHeld'
  BY DEF Close, ContextInv, HandleInv, OwnersHold, ContentsHeld, HasContents, TypeOK

LEMMA ContextInvStep == ContextInv /\ [Next]_vars => ContextInv'
<1> SUFFICES ASSUME ContextInv, [Next]_vars
             PROVE  OwnersHold' /\ ContentsHeld'
  BY HandleInvStep DEF ContextInv
<1> USE DEF ContextInv, HandleInv
<1>1. ASSUME NEW s \in Shells, NEW a \in Addresses, LaunchShell(s, a)
      PROVE  OwnersHold' /\ ContentsHeld'
  <2>1. CASE settings.single_context
    <3>1. CreateShell(s, a, Global, NoContext) /\ contexts' = contexts
          /\ adrift' = adrift
      BY <1>1, <2>1 DEF LaunchShell
    <3>2. QED BY <3>1, CreateShellContext
  <2>2. CASE ~settings.single_context
    <3>1. CreateShell(s, a, s, s) /\ contexts' = contexts \cup {s}
          /\ adrift' = adrift
      BY <1>1, <2>2 DEF LaunchShell
    <3>2. s # NoContext
      BY ShellConstants
    <3>3. QED BY <3>1, <3>2, CreateShellContext
  <2>3. QED BY <2>1, <2>2
<1>2. ASSUME NEW opener \in Shells, NEW s \in Shells, NEW a \in Addresses,
             AddNewContents(opener, s, a)
      PROVE  OwnersHold' /\ ContentsHeld'
  <2> DEFINE owned == IF settings.single_context THEN NoContext ELSE sbc[opener]
  <2>1. CreateShell(s, a, wcContext[opener], owned)
        /\ contexts' = contexts
        /\ adrift \subseteq adrift' /\ (CutOff(opener) => s \in adrift')
    BY <1>2 DEF AddNewContents
  <2>2. HasContents(opener)
    BY <1>2 DEF AddNewContents, HasContents
  <2>3. \/ CutOff(opener)
        \/ wcContext[opener] = Global
        \/ wcContext[opener] = owned /\ wcContext[opener] # NoContext
    BY <2>2 DEF ContentsHeld, CutOff
  <2>4. owned \in Shells \cup {NoContext} /\ (owned # NoContext => owned \in contexts)
    BY DEF TypeOK, OwnersHold
  <2>5. wcContext[opener] \in Shells \cup {Global, NoContext}
    BY DEF TypeOK
  <2> HIDE DEF owned, ContextInv, HandleInv
  <2>6. QED BY <2>1, <2>3, <2>4, <2>5, CreateShellContext
<1>3. ASSUME NEW s \in Shells, CloseContents(s)
      PROVE  OwnersHold' /\ ContentsHeld'
  BY <1>3, CloseContext DEF CloseContents
<1>4. ASSUME NEW a \in Addresses, DispatchClose(a)
      PROVE  OwnersHold' /\ ContentsHeld'
  <2> HIDE DEF ContextInv
  <2>1. HandleInv
    BY DEF ContextInv
  <2>2. QED BY <1>4, <2>1, DispatchTarget, CloseContext
<1>5. ASSUME NEW s \in Shells, Cleanup(s)
      PROVE  OwnersHold' /\ ContentsHeld'
  BY <1>5 DEF Cleanup, Deleting, OwnersHold, ContentsHeld, HasContents,
              TypeOK
<1>6. ASSUME NEW s \in Shells, Unregister(s)
      PROVE  OwnersHold' /\ ContentsHeld'
  BY <1>6 DEF Unregister, Deleting, OwnersHold, ContentsHeld, HasContents,
              TypeOK
<1>7. ASSUME NEW s \in Shells, DestroyContents(s)
      PROVE  OwnersHold' /\ ContentsHeld'
  BY <1>7 DEF DestroyContents, Deleting, OwnersHold, ContentsHeld,
              HasContents, TypeOK
<1>8. ASSUME NEW s \in Shells, ReleaseContext(s)
      PROVE  OwnersHold' /\ ContentsHeld'
  <2>1. OwnersHold'
    BY <1>8 DEF ReleaseContext, OwnersHold, TypeOK
  <2>2. ContentsHeld'
    BY <1>8 DEF ReleaseContext, Deleting, ContentsHeld, HasContents, TypeOK
  <2>3. QED BY <2>1, <2>2
<1>9. ASSUME NEW new \in Settings, UpdateSettings(new)
      PROVE  OwnersHold' /\ ContentsHeld'
  BY <1>9 DEF UpdateSettings, OwnersHold, ContentsHeld, HasContents
<1>10. ASSUME NEW s \in Shells, NewRenderView(s)
       PROVE  OwnersHold' /\ ContentsHeld'
  BY <1>10 DEF NewRenderView, OwnersHold, ContentsHeld, HasContents
<1>11. ASSUME UNCHANGED <<phase, sbc, wcContext, contexts, adrift>>
       PROVE  OwnersHold' /\ ContentsHeld'
  BY <1>11 DEF OwnersHold, ContentsHeld, HasContents
<1>12. QED
  BY <1>1, <1>2, <1>3, <1>4, <1>5, <1>6, <1>7, <1>8, <1>9, <1>10, <1>11
     DEF Next, PopupReported, vars

\* Whatever is opened, closed, nested and set, no WebContents is left in a destroyed
\* browser context, but those of popups opened in a private family after
\* single_context had been switched on.
THEOREM ContextSafety == Spec => []ContextOutlivesContents
<1>1. Init => ContextInv
  BY ContextInvInit
<1>2. ContextInv /\ [Next]_vars => ContextInv'
  BY ContextInvStep
<1>3. ContextInv => ContextOutlivesContents
  BY ContextInvSafe
<1>4. QED BY <1>1, <1>2, <1>3, PTL DEF Spec
-----------------------------------------------------------------------------
(***************************************************************************)
(* Preferences.  Every step that gives a registered tab preferences, or    *)
(* changes the settings, recomputes them: AND_SETTING may lose a           *)
(* permission for good but never adds one.                                 *)
(***************************************************************************)

LEMMA CreateShellPrefs ==
  ASSUME HandleInv, PrefsWithinSettings, NEW s \in Shells, NEW a, NEW wcc, NEW owned,
         CreateShell(s, a, wcc, owned), settings' = settings
  PROVE  PrefsWithinSettings'
<1>1. all_shells' = all_shells \cup {s}
      /\ prefs' = [prefs EXCEPT ![s] = FreshPrefs(settings)]
  BY DEF CreateShell
<1>2. prefs'[s] = FreshPrefs(settings)
  BY <1>1 DEF HandleInv, TypeOK
<1>3. FreshPrefs(settings).javascript = settings.javascript
      /\ FreshPrefs(settings).webgl = settings.webgl
  BY DEF FreshPrefs, UpdateWebPreferences, HandleInv, TypeOK, Settings
<1>4. \A t \in all_shells : t # s => prefs'[t] = prefs[t]
  BY <1>1 DEF HandleInv, TypeOK
<1>5. QED BY <1>1, <1>2, <1>3, <1>4 DEF PrefsWithinSettings

LEMMA PrefsStep ==
  HandleInv /\ PrefsWithinSettings /\ [Next]_vars => PrefsWithinSettings'
<1> SUFFICES ASSUME HandleInv, PrefsWithinSettings, [Next]_vars
             PROVE  PrefsWithinSettings'
  OBVIOUS
<1>1. ASSUME NEW s \in Shells, NEW a \in Addresses, LaunchShell(s, a)
      PROVE  PrefsWithinSettings'
  BY <1>1, CreateShellPrefs DEF LaunchShell
<1>2. ASSUME NEW opener \in Shells, NEW s \in Shells, NEW a \in Addresses,
             AddNewContents(opener, s, a)
      PROVE  PrefsWithinSettings'
  BY <1>2, CreateShellPrefs DEF AddNewContents
<1>3. ASSUME NEW s \in Shells, CloseContents(s) PROVE PrefsWithinSettings'
  BY <1>3 DEF CloseContents, Close, PrefsWithinSettings
<1>4. ASSUME NEW a \in Addresses, DispatchClose(a) PROVE PrefsWithinSettings'
  BY <1>4 DEF DispatchClose, Close, PrefsWithinSettings
<1>5. ASSUME NEW s \in Shells, Cleanup(s) PROVE PrefsWithinSettings'
  BY <1>5 DEF Cleanup, PrefsWithinSettings
<1>6. ASSUME NEW s \in Shells, Unregister(s) PROVE PrefsWithinSettings'
  BY <1>6 DEF Unregister, PrefsWithinSettings
<1>7. ASSUME NEW s \in Shells, DestroyContents(s) PROVE PrefsWithinSettings'
  <2>1. s \notin all_shells
    BY <1>7 DEF DestroyContents, Deleting, HandleInv, RegisteredPhases
  <2>2. QED BY <1>7, <2>1 DEF DestroyContents, PrefsWithinSettings, HandleInv, TypeOK
<1>8. ASSUME NEW s \in Shells, ReleaseContext(s) PROVE PrefsWithinSettings'
  BY <1>8 DEF ReleaseContext, PrefsWithinSettings
<1>9. ASSUME NEW new \in Settings, UpdateSettings(new) PROVE PrefsWithinSettings'
  <2>1. \A t \in all_shells : prefs'[t] = UpdateWebPreferences(prefs[t], new)
    BY <1>9 DEF UpdateSettings, HandleInv, TypeOK
  <2>2. all_shells' = all_shells /\ settings' = new
    BY <1>9 DEF UpdateSettings
  <2>3. ASSUME NEW t \in all_shells
        PROVE  prefs'[t].javascript = new.javascript /\ (prefs'[t].webgl => new.webgl)
    <3> DEFINE both == prefs[t].webgl /\ new.webgl
    <3>1. prefs'[t] = [javascript |-> new.javascript, webgl |-> both]
      BY <2>1, Zenon DEF UpdateWebPreferences
    <3>2. both => new.webgl
      OBVIOUS
    <3> HIDE DEF both
    <3>3. prefs'[t].javascript = new.javascript /\ prefs'[t].webgl = both
      BY <3>1
    <3>4. QED BY <3>2, <3>3, Zenon
  <2>4. QED BY <2>2, <2>3 DEF PrefsWithinSettings
<1>10. ASSUME NEW s \in Shells, NewRenderView(s) PROVE PrefsWithinSettings'
  <2>1. FreshPrefs(settings).javascript = settings.javascript
        /\ FreshPrefs(settings).webgl = settings.webgl
    BY DEF FreshPrefs, UpdateWebPreferences, HandleInv, TypeOK, Settings
  <2>2. \A t \in all_shells : prefs'[t] = IF t = s THEN FreshPrefs(settings) ELSE prefs[t]
    BY <1>10 DEF NewRenderView, HandleInv, TypeOK
  <2>3. QED BY <1>10, <2>1, <2>2 DEF NewRenderView, PrefsWithinSettings
<1>11. ASSUME UNCHANGED <<settings, all_shells, prefs>> PROVE PrefsWithinSettings'
  BY <1>11 DEF PrefsWithinSettings
<1>12. QED
  BY <1>1, <1>2, <1>3, <1>4, <1>5, <1>6, <1>7, <1>8, <1>9, <1>10, <1>11
     DEF Next, PopupReported, vars

\* Whenever Java changes the settings, even from inside a tab's closing
\* notification, no tab it can still address runs with preferences they forbid.
THEOREM PrefsSafety == Spec => []PrefsWithinSettings
<1>1. Init => PrefsWithinSettings
  BY DEF Init, PrefsWithinSettings
<1>2. QED BY <1>1, HandleInvInit, HandleInvStep, PrefsStep, PTL DEF Spec

-----------------------------------------------------------------------------
(***************************************************************************)
(* Orphans.  A linked_ptr is held by shells that exist only, so a context  *)
(* some shell holds is held by one that will still release it.             *)
(***************************************************************************)

HoldersExist == \A s \in Shells : sbc[s] # NoContext => Exists(s)

OrphanInv == TypeOK /\ HoldersExist /\ NoOrphanContext

LEMMA CreateShellHolders ==
  ASSUME OrphanInv, NEW s \in Shells, NEW a, NEW wcc, NEW owned,
         CreateShell(s, a, wcc, owned)
  PROVE  /\ HoldersExist'
         /\ \A c \in contexts : \E t \in Shells : (Exists(t) /\ sbc[t] = c)'
         /\ Exists(s)' /\ sbc'[s] = owned
<1>1. /\ phase[s] = "unborn"
      /\ phase' = [phase EXCEPT ![s] = "open"]
      /\ sbc' = [sbc EXCEPT ![s] = owned]
  BY DEF CreateShell
<1>2. HoldersExist' /\ Exists(s)' /\ sbc'[s] = owned
  BY <1>1 DEF OrphanInv, HoldersExist, Exists, TypeOK
<1>3. ASSUME NEW c \in contexts
      PROVE  \E t \in Shells : (Exists(t) /\ sbc[t] = c)'
  <2>1. PICK t \in Shells : Exists(t) /\ sbc[t] = c
    BY DEF OrphanInv, NoOrphanContext
  <2>2. t # s
    BY <1>1, <2>1 DEF Exists
  <2>3. QED BY <1>1, <2>1, <2>2 DEF Exists, OrphanInv, TypeOK
<1>4. QED BY <1>2, <1>3

\* A step that only moves an existing shell along its life keeps every holder.
LEMMA LivingKeepHolding ==
  ASSUME OrphanInv, NEW s \in Shells, NEW p \in Phases, p \notin {"unborn", "deleted"},
         phase' = [phase EXCEPT ![s] = p], UNCHANGED <<sbc, contexts>>
  PROVE  HoldersExist' /\ NoOrphanContext'
<1>1. \A t \in Shells : Exists(t) => Exists(t)'
  BY DEF Exists, OrphanInv, TypeOK
<1>2. HoldersExist'
  BY <1>1 DEF OrphanInv, HoldersExist
<1>3. NoOrphanContext'
  BY <1>1 DEF OrphanInv, NoOrphanContext
<1>4. QED BY <1>2, <1>3

LEMMA OrphanStep == OrphanInv /\ [Next]_vars => OrphanInv'
<1> SUFFICES ASSUME OrphanInv, [Next]_vars
             PROVE  HoldersExist' /\ NoOrphanContext'
  BY TypeStep DEF OrphanInv
<1>1. ASSUME NEW s \in Shells, NEW a \in Addresses, LaunchShell(s, a)
      PROVE  HoldersExist' /\ NoOrphanContext'
  <2>1. CASE settings.single_context
    <3>1. CreateShell(s, a, Global, NoContext) /\ contexts' = contexts
      BY <1>1, <2>1 DEF LaunchShell
    <3>2. QED BY <3>1, CreateShellHolders DEF NoOrphanContext
  <2>2. CASE ~settings.single_context
    <3>1. CreateShell(s, a, s, s) /\ contexts' = contexts \cup {s}
      BY <1>1, <2>2 DEF LaunchShell
    <3>2. QED BY <3>1, CreateShellHolders DEF NoOrphanContext
  <2>3. QED BY <2>1, <2>2
<1>2. ASSUME NEW opener \in Shells, NEW s \in Shells, NEW a \in Addresses,
             AddNewContents(opener, s, a)
      PROVE  HoldersExist' /\ NoOrphanContext'
  <2>1. PICK owned : CreateShell(s, a, wcContext[opener], owned) /\ contexts' = contexts
    BY <1>2 DEF AddNewContents
  <2>2. QED BY <2>1, CreateShellHolders DEF NoOrphanContext
<1>3. ASSUME NEW s \in Shells, CloseContents(s)
      PROVE  HoldersExist' /\ NoOrphanContext'
  BY <1>3, LivingKeepHolding DEF CloseContents, Close, Phases
<1>4. ASSUME NEW a \in Addresses, DispatchClose(a)
      PROVE  HoldersExist' /\ NoOrphanContext'
  <2>1. ForPtr(a) \in Shells
    BY <1>4, ForPtrFinds DEF DispatchClose, OrphanInv, TypeOK
  <2>2. QED BY <1>4, <2>1, LivingKeepHolding DEF DispatchClose, Close, Phases
<1>5. ASSUME NEW s \in Shells, Cleanup(s)
      PROVE  HoldersExist' /\ NoOrphanContext'
  BY <1>5, LivingKeepHolding DEF Cleanup, Phases
<1>6. ASSUME NEW s \in Shells, Unregister(s)
      PROVE  HoldersExist' /\ NoOrphanContext'
  BY <1>6, LivingKeepHolding DEF Unregister, Phases
<1>7. ASSUME NEW s \in Shells, DestroyContents(s)
      PROVE  HoldersExist' /\ NoOrphanContext'
  BY <1>7, LivingKeepHolding DEF DestroyContents, Phases
<1>8. ASSUME NEW s \in Shells, ReleaseContext(s)
      PROVE  HoldersExist' /\ NoOrphanContext'
  <2>1. /\ phase' = [phase EXCEPT ![s] = "deleted"]
        /\ sbc' = [sbc EXCEPT ![s] = NoContext]
        /\ contexts' = IF \E t \in Shells \ {s} : sbc[t] = sbc[s]
                         THEN contexts
                         ELSE contexts \ {sbc[s]}
    BY <1>8 DEF ReleaseContext
  <2>2. HoldersExist'
    BY <2>1 DEF OrphanInv, HoldersExist, Exists, TypeOK
  <2>3. ASSUME NEW c \in contexts'
        PROVE  \E t \in Shells : (Exists(t) /\ sbc[t] = c)'
    <3>1. c \in contexts /\ c \in Shells /\ c # NoContext
      BY <2>1, ShellConstants DEF OrphanInv, TypeOK
    <3>2. PICK t \in Shells \ {s} : sbc[t] = c
      BY <2>1, <2>3, <3>1 DEF OrphanInv, NoOrphanContext
    <3>3. Exists(t)
      BY <3>1, <3>2 DEF OrphanInv, HoldersExist
    <3>4. QED BY <2>1, <3>2, <3>3 DEF OrphanInv, Exists, TypeOK
  <2>4. QED BY <2>2, <2>3 DEF NoOrphanContext
<1>9. ASSUME NEW new \in Settings, UpdateSettings(new)
      PROVE  HoldersExist' /\ NoOrphanContext'
  BY <1>9 DEF UpdateSettings, OrphanInv, HoldersExist, NoOrphanContext, Exists
<1>10. ASSUME NEW s \in Shells, NewRenderView(s)
       PROVE  HoldersExist' /\ NoOrphanContext'
  BY <1>10 DEF NewRenderView, OrphanInv, HoldersExist, NoOrphanContext, Exists
<1>11. ASSUME UNCHANGED <<phase, sbc, contexts>> PROVE HoldersExist' /\ NoOrphanContext'
  BY <1>11 DEF OrphanInv, HoldersExist, NoOrphanContext, Exists
<1>12. QED
  BY <1>1, <1>2, <1>3, <1>4, <1>5, <1>6, <1>7, <1>8, <1>9, <1>10, <1>11
     DEF Next, PopupReported, vars

\* However tabs of a popup family are closed, nested or interleaved, a private
\* context is destroyed no later than the last tab that holds it.
THEOREM OrphanSafety == Spec => []NoOrphanContext
<1>1. Init => OrphanInv
  BY TypeInit DEF Init, OrphanInv, HoldersExist, NoOrphanContext, Exists
<1>2. OrphanInv => NoOrphanContext
  BY DEF OrphanInv
<1>3. QED BY <1>1, <1>2, OrphanStep, PTL DEF Spec

-----------------------------------------------------------------------------
(***************************************************************************)
(* Nested deletions.  What ClosingCompletes rests on: the deletions in     *)
(* progress are the tabs of the stack, each once, and all but the          *)
(* innermost wait inside a notification to Java.                           *)
(***************************************************************************)

Closing(s) == phase[s] \in {"hidden", "cleanup", "erased", "nocontents"}

ClosingIsStacked == \A s \in Shells : Closing(s) <=> \E i \in DOMAIN stack : stack[i] = s

StackedOnce == \A i, j \in DOMAIN stack : stack[i] = stack[j] => i = j

OuterInJava == \A i \in DOMAIN stack : i > 1 => stack[i] \in Notifying \cup {Report}

DeletionsNest == ClosingIsStacked /\ StackedOnce /\ OuterInJava

NestInv == HandleInv /\ DeletionsNest

LEMMA PushIndex ==
  ASSUME NEW S, NEW q \in Seq(S), NEW e \in S
  PROVE  /\ DOMAIN (<<e>> \o q) = 1 .. Len(q) + 1
         /\ DOMAIN q = 1 .. Len(q)
         /\ Len(q) \in Nat
         /\ (<<e>> \o q)[1] = e
         /\ \A i \in 2 .. Len(q) + 1 : (<<e>> \o q)[i] = q[i - 1]
OBVIOUS

LEMMA PopIndex ==
  ASSUME NEW S, NEW q \in Seq(S), q # <<>>
  PROVE  /\ Head(q) = q[1]
         /\ Len(q) \in Nat \ {0}
         /\ DOMAIN Tail(q) = 1 .. Len(q) - 1
         /\ DOMAIN q = 1 .. Len(q)
         /\ \A i \in 1 .. Len(q) - 1 : Tail(q)[i] = q[i + 1]
OBVIOUS

\* A deletion begins, from the message loop or from inside the notification of another.
LEMMA CloseNests ==
  ASSUME NestInv, JavaRuns, NEW s \in Shells, phase[s] = "open", Close(s)
  PROVE  DeletionsNest'
<1> DEFINE q == <<s>> \o stack
           n == Len(stack)
<1>1. /\ DOMAIN q = 1 .. n + 1 /\ DOMAIN stack = 1 .. n /\ n \in Nat
      /\ q[1] = s
      /\ \A i \in 2 .. n + 1 : q[i] = stack[i - 1]
  BY PushIndex DEF NestInv, HandleInv, TypeOK
<1>2. stack' = q /\ phase' = [phase EXCEPT ![s] = "hidden"] /\ phase \in [Shells -> Phases]
  BY DEF Close, NestInv, HandleInv, TypeOK
<1>3. ~Closing(s) /\ \A i \in 1 .. n : stack[i] # s
  BY <1>1 DEF Closing, NestInv, DeletionsNest, ClosingIsStacked
<1>4. Notifying \subseteq Notifying'
  BY <1>2 DEF Notifying
<1>5. \A i \in 1 .. n : stack[i] \in Notifying \cup {Report}
  <2>1. stack # <<>> => Head(stack) = stack[1]
    BY PopIndex DEF NestInv, HandleInv, TypeOK
  <2>2. n # 0 => stack # <<>>
    OBVIOUS
  <2>3. n # 0 => stack[1] \in Notifying \cup {Report}
    BY <2>1, <2>2 DEF JavaRuns
  <2>4. QED BY <1>1, <2>3 DEF NestInv, DeletionsNest, OuterInJava
<1> HIDE DEF q, n
<1>6. \A i \in 2 .. n + 1 : i - 1 \in 1 .. n
  BY <1>1
<1>7. ClosingIsStacked'
  <2>1. ASSUME NEW t \in Shells, t # s
        PROVE  (\E i \in DOMAIN q : q[i] = t) <=> (\E i \in DOMAIN stack : stack[i] = t)
    <3>1. ASSUME NEW i \in DOMAIN q, q[i] = t PROVE i - 1 \in 1 .. n /\ stack[i - 1] = t
      BY <1>1, <1>6, <2>1, <3>1
    <3>2. ASSUME NEW i \in 1 .. n, stack[i] = t PROVE i + 1 \in 2 .. n + 1 /\ q[i + 1] = t
      BY <1>1, <3>2
    <3>3. QED BY <1>1, <3>1, <3>2
  <2>2. \E i \in DOMAIN q : q[i] = s
    BY <1>1
  <2>3. ASSUME NEW t \in Shells PROVE Closing(t)' <=> t = s \/ Closing(t)
    BY <1>2 DEF Closing
  <2>4. QED BY <1>2, <1>3, <2>1, <2>2, <2>3
            DEF ClosingIsStacked, NestInv, DeletionsNest
<1>8. StackedOnce'
  <2>1. \A i \in 2 .. n + 1 : q[i] # s
    BY <1>1, <1>3, <1>6
  <2>2. \A i, j \in 2 .. n + 1 : q[i] = q[j] => i - 1 = j - 1
    BY <1>1, <1>6 DEF NestInv, DeletionsNest, StackedOnce
  <2>3. QED BY <1>1, <1>2, <2>1, <2>2 DEF StackedOnce
<1>9. OuterInJava'
  BY <1>1, <1>2, <1>3, <1>4, <1>5, <1>6 DEF OuterInJava
<1>10. QED BY <1>7, <1>8, <1>9 DEF DeletionsNest

\* The innermost deletion moves on to another stage.
LEMMA StageNests ==
  ASSUME NestInv, NEW s \in Shells, stack # <<>>, Head(stack) = s,
         NEW new \in {"cleanup", "erased", "nocontents"},
         phase' = [phase EXCEPT ![s] = new], UNCHANGED stack
  PROVE  DeletionsNest'
<1>1. DOMAIN stack = 1 .. Len(stack) /\ Len(stack) \in Nat \ {0} /\ stack[1] = s
  BY PopIndex DEF NestInv, HandleInv, TypeOK
<1>2. phase \in [Shells -> Phases]
  BY DEF NestInv, HandleInv, TypeOK
<1>3. Closing(s)
  BY <1>1 DEF NestInv, DeletionsNest, ClosingIsStacked
<1>4. ClosingIsStacked'
  BY <1>2, <1>3 DEF NestInv, DeletionsNest, ClosingIsStacked, Closing
<1>5. StackedOnce'
  BY DEF NestInv, DeletionsNest, StackedOnce
<1>6. \A i \in DOMAIN stack : i > 1 => stack[i] # s
  BY <1>1 DEF NestInv, DeletionsNest, StackedOnce
<1>7. OuterInJava'
  <2>1. Notifying \ {s} \subseteq Notifying'
    BY <1>2 DEF Notifying
  <2>2. QED BY <1>6, <2>1 DEF NestInv, DeletionsNest, OuterInJava
<1>8. QED BY <1>4, <1>5, <1>7 DEF DeletionsNest

\* The innermost deletion is complete.
LEMMA EndNests ==
  ASSUME NestInv, NEW s \in Shells, ReleaseContext(s)
  PROVE  DeletionsNest'
<1> DEFINE q == Tail(stack)
           n == Len(stack)
<1>1. /\ stack # <<>> /\ Head(stack) = s
      /\ stack' = q /\ phase' = [phase EXCEPT ![s] = "deleted"]
      /\ phase \in [Shells -> Phases] /\ stack \in Seq(Shells \cup {Report})
  BY DEF ReleaseContext, Deleting, NestInv, HandleInv, TypeOK
<1>2. /\ stack[1] = s
      /\ n \in Nat \ {0} /\ DOMAIN q = 1 .. n - 1 /\ DOMAIN stack = 1 .. n
      /\ \A i \in 1 .. n - 1 : q[i] = stack[i + 1]
  BY <1>1, PopIndex
<1>3. Notifying \ {s} \subseteq Notifying'
  BY <1>1 DEF Notifying
<1> HIDE DEF q, n
<1>4. \A i \in 1 .. n - 1 : i + 1 \in 2 .. n /\ i + 1 > 1
  BY <1>2
<1>5. \A i \in 2 .. n : stack[i] # s
  BY <1>2 DEF NestInv, DeletionsNest, StackedOnce
<1>6. ClosingIsStacked'
  <2>1. ASSUME NEW t \in Shells, t # s
        PROVE  (\E i \in DOMAIN q : q[i] = t) <=> (\E i \in DOMAIN stack : stack[i] = t)
    <3>1. ASSUME NEW i \in DOMAIN stack, stack[i] = t
          PROVE  i - 1 \in 1 .. n - 1 /\ q[i - 1] = t
      BY <1>2, <2>1, <3>1
    <3>2. ASSUME NEW i \in 1 .. n - 1, q[i] = t PROVE i + 1 \in 1 .. n /\ stack[i + 1] = t
      BY <1>2, <3>2
    <3>3. QED BY <1>2, <3>1, <3>2
  <2>2. \A i \in DOMAIN q : q[i] # s
    BY <1>2, <1>4, <1>5
  <2>3. ASSUME NEW t \in Shells PROVE Closing(t)' <=> t # s /\ Closing(t)
    BY <1>1 DEF Closing
  <2>4. QED BY <1>1, <2>1, <2>2, <2>3 DEF ClosingIsStacked, NestInv, DeletionsNest
<1>7. StackedOnce'
  <2>1. ASSUME NEW i \in 1 .. n - 1, NEW j \in 1 .. n - 1, q[i] = q[j] PROVE i = j
    <3>1. /\ stack[i + 1] = stack[j + 1]
          /\ i + 1 \in DOMAIN stack /\ j + 1 \in DOMAIN stack
      BY <1>2, <1>4, <2>1
    <3>2. i + 1 = j + 1
      BY <3>1 DEF NestInv, DeletionsNest, StackedOnce
    <3>3. QED BY <3>2
  <2>2. QED BY <1>1, <1>2, <2>1 DEF StackedOnce
<1>8. OuterInJava'
  <2>1. ASSUME NEW i \in 1 .. n - 1 PROVE q[i] \in Notifying' \cup {Report}
    <3>1. stack[i + 1] \in Notifying \cup {Report}
      BY <1>2, <1>4 DEF NestInv, DeletionsNest, OuterInJava
    <3>2. stack[i + 1] # s
      BY <1>2, <1>4, <1>5
    <3>3. QED BY <1>2, <1>3, <3>1, <3>2
  <2>2. QED BY <1>1, <1>2, <2>1 DEF OuterInJava
<1>9. QED BY <1>6, <1>7, <1>8 DEF DeletionsNest

\* Java has heard of the popup: every deletion it began meanwhile is complete.
LEMMA ReportEnds ==
  ASSUME NestInv, PopupReported
  PROVE  DeletionsNest'
<1> DEFINE q == Tail(stack)
           n == Len(stack)
<1>1. /\ stack # <<>> /\ Head(stack) = Report
      /\ stack' = q /\ phase' = phase /\ stack \in Seq(Shells \cup {Report})
  BY DEF PopupReported, NestInv, HandleInv, TypeOK
<1>2. /\ stack[1] = Report
      /\ n \in Nat \ {0} /\ DOMAIN q = 1 .. n - 1 /\ DOMAIN stack = 1 .. n
      /\ \A i \in 1 .. n - 1 : q[i] = stack[i + 1]
  BY <1>1, PopIndex
<1> HIDE DEF q, n
<1>3. \A i \in 1 .. n - 1 : i + 1 \in 1 .. n /\ i + 1 > 1
  BY <1>2
<1>4. ASSUME NEW t \in Shells
      PROVE  (\E i \in DOMAIN q : q[i] = t) <=> (\E i \in DOMAIN stack : stack[i] = t)
  <2>1. ASSUME NEW i \in DOMAIN stack, stack[i] = t
        PROVE  i - 1 \in 1 .. n - 1 /\ q[i - 1] = t
    <3>1. i # 1
      BY <1>2, <2>1, ShellConstants
    <3>2. QED BY <1>2, <2>1, <3>1
  <2>2. QED BY <1>2, <1>3, <2>1
<1>5. ClosingIsStacked'
  BY <1>1, <1>4 DEF ClosingIsStacked, NestInv, DeletionsNest, Closing
<1>6. StackedOnce'
  <2>1. ASSUME NEW i \in 1 .. n - 1, NEW j \in 1 .. n - 1, q[i] = q[j] PROVE i = j
    <3>1. i + 1 = j + 1
      BY <1>2, <1>3, <2>1 DEF NestInv, DeletionsNest, StackedOnce
    <3>2. QED BY <3>1
  <2>2. QED BY <1>1, <1>2, <2>1 DEF StackedOnce
<1>7. OuterInJava'
  BY <1>1, <1>2, <1>3 DEF NestInv, DeletionsNest, OuterInJava, Notifying
<1>8. QED BY <1>5, <1>6, <1>7 DEF DeletionsNest

LEMMA NestStep == NestInv /\ [Next]_vars => NestInv'
<1> SUFFICES ASSUME NestInv, [Next]_vars PROVE DeletionsNest'
  BY HandleInvStep DEF NestInv
<1>1. ASSUME NEW s \in Shells, NEW a, NEW wcc, NEW owned,
             CreateShell(s, a, wcc, owned)
      PROVE  (\A t \in Shells : Closing(t)' <=> Closing(t)) /\ Notifying' = Notifying
  <2>1. phase[s] = "unborn" /\ phase' = [phase EXCEPT ![s] = "open"]
    BY <1>1 DEF CreateShell
  <2>2. QED BY <2>1 DEF Closing, Notifying, NestInv, HandleInv, TypeOK
<1>2. ASSUME NEW s \in Shells, NEW a \in Addresses, LaunchShell(s, a) PROVE DeletionsNest'
  BY <1>1, <1>2
     DEF LaunchShell, NestInv, DeletionsNest, ClosingIsStacked, StackedOnce, OuterInJava
<1>3. ASSUME NEW opener \in Shells, NEW s \in Shells, NEW a \in Addresses,
             AddNewContents(opener, s, a)
      PROVE  DeletionsNest'
  <2>1. stack = <<>> /\ stack' = <<Report>>
    BY <1>3 DEF AddNewContents, AtMessageLoop
  <2>2. DOMAIN stack = {} /\ DOMAIN stack' = {1} /\ stack'[1] = Report
    BY <2>1
  <2>3. \A t \in Shells : Closing(t)' <=> Closing(t)
    BY <1>1, <1>3 DEF AddNewContents
  <2>4. \A t \in Shells : t # Report
    BY ShellConstants
  <2>5. QED
    BY <2>2, <2>3, <2>4
       DEF NestInv, DeletionsNest, ClosingIsStacked, StackedOnce, OuterInJava
<1>4. ASSUME NEW s \in Shells, CloseContents(s) PROVE DeletionsNest'
  BY <1>4, CloseNests DEF CloseContents, AtMessageLoop, JavaRuns
<1>5. ASSUME NEW a \in Addresses, DispatchClose(a) PROVE DeletionsNest'
  <2>1. ForPtr(a) \in Shells /\ phase[ForPtr(a)] = "open" /\ Close(ForPtr(a))
    BY <1>5, DispatchTarget DEF NestInv
  <2>2. JavaRuns
    BY <1>5 DEF DispatchClose
  <2>3. QED BY <2>1, <2>2, CloseNests
<1>6. ASSUME NEW s \in Shells, Cleanup(s) PROVE DeletionsNest'
  BY <1>6, StageNests DEF Cleanup, Deleting
<1>7. ASSUME NEW s \in Shells, Unregister(s) PROVE DeletionsNest'
  BY <1>7, StageNests DEF Unregister, Deleting
<1>8. ASSUME NEW s \in Shells, DestroyContents(s) PROVE DeletionsNest'
  BY <1>8, StageNests DEF DestroyContents, Deleting
<1>9. ASSUME NEW s \in Shells, ReleaseContext(s) PROVE DeletionsNest'
  BY <1>9, EndNests
<1>10. ASSUME UNCHANGED <<phase, stack>> PROVE DeletionsNest'
  BY <1>10 DEF NestInv, DeletionsNest, ClosingIsStacked, StackedOnce, OuterInJava, Closing,
               Notifying
<1>11. ASSUME PopupReported PROVE DeletionsNest'
  BY <1>11, ReportEnds
<1>12. QED
  BY <1>2, <1>3, <1>4, <1>5, <1>6, <1>7, <1>8, <1>9, <1>10, <1>11
     DEF Next, UpdateSettings, NewRenderView, vars

\* However deletions nest, no tab is deleted twice and no deletion is forgotten: a tab
\* is between HIDE and the end of its destructor exactly while it is one of the deletions
\* in progress, and all but the innermost of these are inside a notification to Java, so
\* that the innermost one can always proceed.
THEOREM DeletionsAreNested == Spec => []DeletionsNest
<1>1. Init => NestInv
  <2>1. ASSUME Init PROVE stack = <<>> /\ \A s \in Shells : phase[s] = "unborn"
    BY <2>1 DEF Init
  <2>2. ASSUME Init PROVE DeletionsNest
    BY <2>1, <2>2 DEF DeletionsNest, ClosingIsStacked, StackedOnce, OuterInJava, Closing
  <2>3. QED BY <2>2, HandleInvInit DEF NestInv
<1>2. NestInv => DeletionsNest
  BY DEF NestInv
<1>3. QED BY <1>1, <1>2, NestStep, PTL DEF Spec
=============================================================================
