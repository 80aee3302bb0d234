------------------------------- MODULE Shell -------------------------------
(***************************************************************************)
(* The tabs of the browser: class Shell, the registry all_shells_, the     *)
(* browser contexts the tabs keep alive, and the handles (raw addresses)   *)
(* the Java side holds (shell/browser/shell.cc, extra/settings.cc).        *)
(*                                                                         *)
(* All of it runs on the UI thread.  What makes it hard is re-entrancy:    *)
(* SendCommand calls Java synchronously and Java may call back before it   *)
(* returns, so a deletion is a sequence of steps with Java code between    *)
(* them, and deletions nest.  `stack` holds the calls of this code that    *)
(* are waiting for Java, the innermost first: deletions in progress, and   *)
(* at the bottom perhaps the report of a popup.  Only the innermost        *)
(* proceeds.                                                               *)
(*                                                                         *)
(* Each element of Shells is one incarnation of a Shell object; Addresses  *)
(* are the heap addresses, reused as soon as an object is freed.           *)
(***************************************************************************)
EXTENDS Naturals, Sequences

CONSTANTS
  Shells,        \* incarnations: each is launched at most once (bound of the model)
  Addresses,     \* heap addresses; fewer addresses than shells forces reuse
  NoShell,       \* NULL
  Global,        \* the context of ShellBrowserContext::Get(), never destroyed
  NoContext,     \* an empty linked_ptr
  Report         \* the stack frame of AddNewContents while Java hears of the popup

ASSUME ShellConstants ==
  /\ NoShell \notin Shells \cup Addresses
  /\ Global \notin Shells
  /\ NoContext \notin Shells \cup {Global}
  /\ Report \notin Shells

VARIABLES
  settings,      \* the global settings: single_context and two page preferences
  all_shells,    \* Shell::all_shells_ (lookups are by identity: order is immaterial)
  phase,         \* how far each shell is in its life
  address,       \* where it was allocated
  sbc,           \* sbc_: the owned context, named after the shell launched with it
  wcContext,     \* the context its WebContents was created in
  contexts,      \* the owned contexts that exist
  prefs,         \* the WebPreferences in force in its render view
  java,          \* Java's handle table: which shell an address stands for
  stack,         \* calls that wait for Java, innermost first
  adrift         \* history: tabs whose private context nobody made them an owner of

vars == <<settings, all_shells, phase, address, sbc, wcContext, contexts,
          prefs, java, stack, adrift>>

Phases == {"unborn", "open", "hidden", "cleanup", "erased", "nocontents", "deleted"}

Settings == [single_context : BOOLEAN, javascript : BOOLEAN, webgl : BOOLEAN]
Prefs    == [javascript : BOOLEAN, webgl : BOOLEAN]
NoPrefs  == [javascript |-> FALSE, webgl |-> FALSE]     \* no render view

HasContents(s) == phase[s] \in {"open", "hidden", "cleanup", "erased"}
Exists(s)      == phase[s] \notin {"unborn", "deleted"}

\* The UI thread is in Java code: at the message loop, inside the HIDE or the
\* CLEANUP notification of the innermost deletion, or inside the report of a popup.
Notifying == {s \in Shells : phase[s] \in {"hidden", "cleanup"}}

JavaRuns == stack # <<>> => Head(stack) \in Notifying \cup {Report}

AtMessageLoop == stack = <<>>

TypeOK ==
  /\ settings \in Settings
  /\ all_shells \subseteq Shells
  /\ phase \in [Shells -> Phases]
  /\ address \in [Shells -> Addresses \cup {NoShell}]
  /\ sbc \in [Shells -> Shells \cup {NoContext}]
  /\ wcContext \in [Shells -> Shells \cup {Global, NoContext}]
  /\ contexts \subseteq Shells
  /\ prefs \in [Shells -> Prefs]
  /\ java \in [Addresses -> Shells \cup {NoShell}]
  /\ stack \in Seq(Shells \cup {Report})
  /\ adrift \subseteq Shells

Init ==
  /\ settings \in Settings
  /\ all_shells = {}
  /\ phase = [s \in Shells |-> "unborn"]
  /\ address = [s \in Shells |-> NoShell]
  /\ sbc = [s \in Shells |-> NoContext]
  /\ wcContext = [s \in Shells |-> NoContext]
  /\ contexts = {}
  /\ prefs = [s \in Shells |-> NoPrefs]
  /\ java = [a \in Addresses |-> NoShell]
  /\ stack = <<>>
  /\ adrift = {}

-----------------------------------------------------------------------------
(* Preferences: COPY_SETTING overwrites, AND_SETTING can only restrict. *)

UpdateWebPreferences(p, st) ==
  [javascript |-> st.javascript, webgl |-> p.webgl /\ st.webgl]

\* The engine's defaults (everything allowed) after OverrideWebkitPrefs.
FreshPrefs(st) == UpdateWebPreferences([javascript |-> TRUE, webgl |-> TRUE], st)

FreeAddresses == {a \in Addresses : \A s \in Shells : address[s] # a}

\* The constructor registers the object, CreateShell hands it the context and
\* reports its address to Java.
CreateShell(s, a, wcc, owned) ==
  /\ phase[s] = "unborn"
  /\ a \in FreeAddresses
  /\ phase' = [phase EXCEPT ![s] = "open"]
  /\ address' = [address EXCEPT ![s] = a]
  /\ all_shells' = all_shells \cup {s}
  /\ sbc' = [sbc EXCEPT ![s] = owned]
  /\ wcContext' = [wcContext EXCEPT ![s] = wcc]
  /\ prefs' = [prefs EXCEPT ![s] = FreshPrefs(settings)]
  /\ java' = [java EXCEPT ![a] = s]

\* Mutant: the tab takes ownership of the shared context.
LaunchShellMutShared(s, a) ==
  /\ JavaRuns
  /\ IF settings.single_context
       THEN /\ CreateShell(s, a, Global, Global)
            /\ UNCHANGED contexts
       ELSE /\ CreateShell(s, a, s, s)
            /\ contexts' = contexts \cup {s}
  /\ UNCHANGED <<settings, stack, adrift>>

\* LAUNCH_SHELL from Java: the shared context, or a new one owned by the tab.
LaunchShell(s, a) ==
  /\ JavaRuns
  /\ IF settings.single_context
       THEN /\ CreateShell(s, a, Global, NoContext)
            /\ UNCHANGED contexts
       ELSE /\ CreateShell(s, a, s, s)
            /\ contexts' = contexts \cup {s}
  /\ UNCHANGED <<settings, stack, adrift>>

\* A popup is cut off from the owners of its context when single_context has been
\* switched on since its opener was launched, or when the opener itself is.
CutOff(opener) ==
  opener \in adrift \/ (settings.single_context /\ wcContext[opener] # Global)

\* Mutant: the popup never joins its opener's linked_ptr.
AddNewContentsMutNoOwner(opener, s, a) ==
  /\ AtMessageLoop /\ phase[opener] = "open"
  /\ CreateShell(s, a, wcContext[opener], NoContext)
  /\ adrift' = IF CutOff(opener) THEN adrift \cup {s} ELSE adrift
  /\ stack' = <<Report>>
  /\ UNCHANGED <<settings, contexts>>

\* A page of `opener` opens a popup.  The engine has created the popup's
\* WebContents in the opener's context; the popup shares the opener's
\* linked_ptr unless single_context is set now.  jni::Invoke then tells Java,
\* which may do anything before it returns, close the opener included.
AddNewContents(opener, s, a) ==
  /\ AtMessageLoop
  /\ phase[opener] = "open"
  /\ LET owned == IF settings.single_context THEN NoContext ELSE sbc[opener]
     IN  CreateShell(s, a, wcContext[opener], owned)
  /\ adrift' = IF CutOff(opener) THEN adrift \cup {s} ELSE adrift
  /\ stack' = <<Report>>
  /\ UNCHANGED <<settings, contexts>>

\* Java returns.  SendCommand(NOTIFY_POPUP_OPENED) sends the opener's address, which
\* it takes from `this` without looking at the object: it may be gone by now.
PopupReported ==
  /\ stack # <<>> /\ Head(stack) = Report
  /\ stack' = Tail(stack)
  /\ UNCHANGED <<settings, all_shells, phase, address, sbc, wcContext, contexts, prefs,
                 java, adrift>>

\* The address Java sends, looked up in the registry (Shell::ForPtr).
ForPtr(a) == IF \E s \in all_shells : address[s] = a
               THEN CHOOSE s \in all_shells : address[s] = a
               ELSE NoShell

\* Close: SendCommand(HIDE), which runs Java, then delete this.
Close(s) ==
  /\ phase' = [phase EXCEPT ![s] = "hidden"]
  /\ stack' = <<s>> \o stack
  /\ UNCHANGED <<settings, all_shells, address, sbc, wcContext, contexts, prefs, java,
                 adrift>>

\* The page closes its window.
CloseContents(s) ==
  /\ AtMessageLoop
  /\ phase[s] = "open"
  /\ Close(s)

\* SHELL_COMMAND CLOSE from Java for a handle it holds.  Java (outside src/) is
\* assumed to send no CLOSE for a tab it has been told to hide.
DispatchClose(a) ==
  /\ JavaRuns
  /\ java[a] # NoShell
  /\ phase[java[a]] = "open"
  /\ ForPtr(a) # NoShell
  /\ Close(ForPtr(a))

-----------------------------------------------------------------------------
(* ~Shell, one step per statement that other code can observe. *)

Deleting(s, at) == stack # <<>> /\ Head(stack) = s /\ phase[s] = at

\* Mutant: the destructor does not notify Java.
CleanupMutSilent(s) ==
  /\ Deleting(s, "hidden")
  /\ phase' = [phase EXCEPT ![s] = "cleanup"]
  /\ UNCHANGED <<settings, all_shells, address, sbc, wcContext, contexts, prefs,
                 java, stack, adrift>>

\* SendCommand(CLEANUP): Java forgets the handle.
Cleanup(s) ==
  /\ Deleting(s, "hidden")
  /\ phase' = [phase EXCEPT ![s] = "cleanup"]
  /\ java' = [java EXCEPT ![address[s]] = NoShell]
  /\ UNCHANGED <<settings, all_shells, address, sbc, wcContext, contexts, prefs, stack,
                 adrift>>

\* Mutant: the tab stays in the registry.
UnregisterMutForgets(s) ==
  /\ Deleting(s, "cleanup")
  /\ phase' = [phase EXCEPT ![s] = "erased"]
  /\ UNCHANGED <<settings, all_shells, address, sbc, wcContext, contexts, prefs,
                 java, stack, adrift>>

\* all_shells_.erase.
Unregister(s) ==
  /\ Deleting(s, "cleanup")
  /\ phase' = [phase EXCEPT ![s] = "erased"]
  /\ all_shells' = all_shells \ {s}
  /\ UNCHANGED <<settings, address, sbc, wcContext, contexts, prefs, java, stack,
                 adrift>>

\* Members go in reverse order of declaration: si_, wc_ (the WebContents), jdm_.
DestroyContents(s) ==
  /\ Deleting(s, "erased")
  /\ phase' = [phase EXCEPT ![s] = "nocontents"]
  /\ wcContext' = [wcContext EXCEPT ![s] = NoContext]
  /\ prefs' = [prefs EXCEPT ![s] = NoPrefs]
  /\ UNCHANGED <<settings, all_shells, address, sbc, contexts, java, stack, adrift>>

\* Mutant: the last owner leaves without deleting the context.
ReleaseContextMutLeak(s) ==
  /\ Deleting(s, "nocontents")
  /\ phase' = [phase EXCEPT ![s] = "deleted"]
  /\ address' = [address EXCEPT ![s] = NoShell]
  /\ sbc' = [sbc EXCEPT ![s] = NoContext]
  /\ stack' = Tail(stack)
  /\ UNCHANGED <<settings, all_shells, wcContext, contexts, prefs, java, adrift>>

\* Mutant: a tab whose context is still shared is never freed.
ReleaseContextMutWaits(s) ==
  /\ Deleting(s, "nocontents")
  /\ \A t \in Shells \ {s} : sbc[t] = sbc[s] => sbc[t] = NoContext
  /\ phase' = [phase EXCEPT ![s] = "deleted"]
  /\ address' = [address EXCEPT ![s] = NoShell]
  /\ sbc' = [sbc EXCEPT ![s] = NoContext]
  /\ contexts' = contexts \ {sbc[s]}
  /\ stack' = Tail(stack)
  /\ UNCHANGED <<settings, all_shells, wcContext, prefs, java, adrift>>

\* sbc_ is destroyed last: the last owner in the linked_ptr ring deletes the
\* context.  The memory of the shell is freed.
ReleaseContext(s) ==
  /\ Deleting(s, "nocontents")
  /\ phase' = [phase EXCEPT ![s] = "deleted"]
  /\ address' = [address EXCEPT ![s] = NoShell]
  /\ sbc' = [sbc EXCEPT ![s] = NoContext]
  /\ contexts' = IF \E t \in Shells \ {s} : sbc[t] = sbc[s]
                   THEN contexts
                   ELSE contexts \ {sbc[s]}
  /\ stack' = Tail(stack)
  /\ UNCHANGED <<settings, all_shells, wcContext, prefs, java, adrift>>

-----------------------------------------------------------------------------
(* Settings. *)

\* Mutant: the tabs that are being closed are skipped, although Java still
\* addresses them.
UpdateSettingsMutOpenOnly(new) ==
  /\ JavaRuns
  /\ settings' = new
  /\ prefs' = [s \in Shells |-> IF phase[s] = "open"
                                  THEN UpdateWebPreferences(prefs[s], new)
                                  ELSE prefs[s]]
  /\ UNCHANGED <<all_shells, phase, address, sbc, wcContext, contexts, java, stack,
                 adrift>>

\* UPDATE_SETTINGS from Java: the settings object is replaced and every
\* registered tab recomputes its preferences from the new one.
UpdateSettings(new) ==
  /\ JavaRuns
  /\ settings' = new
  /\ prefs' = [s \in Shells |-> IF s \in all_shells
                                  THEN UpdateWebPreferences(prefs[s], new)
                                  ELSE prefs[s]]
  /\ UNCHANGED <<all_shells, phase, address, sbc, wcContext, contexts, java, stack,
                 adrift>>

\* A navigation moves the tab to a new render view: OverrideWebkitPrefs.
NewRenderView(s) ==
  /\ AtMessageLoop
  /\ phase[s] = "open"
  /\ prefs' = [prefs EXCEPT ![s] = FreshPrefs(settings)]
  /\ UNCHANGED <<settings, all_shells, phase, address, sbc, wcContext, contexts,
                 java, stack, adrift>>

Delete(s) == Cleanup(s) \/ Unregister(s) \/ DestroyContents(s) \/ ReleaseContext(s)

Next ==
  \/ \E s \in Shells, a \in Addresses : LaunchShell(s, a)
  \/ \E opener, s \in Shells, a \in Addresses : AddNewContents(opener, s, a)
  \/ PopupReported
  \/ \E s \in Shells : CloseContents(s)
  \/ \E a \in Addresses : DispatchClose(a)
  \/ \E s \in Shells : Cleanup(s)
  \/ \E s \in Shells : Unregister(s)
  \/ \E s \in Shells : DestroyContents(s)
  \/ \E s \in Shells : ReleaseContext(s)
  \/ \E new \in Settings : UpdateSettings(new)
  \/ \E s \in Shells : NewRenderView(s)

\* A C++ destructor and a Java notification handler run to their end; nothing
\* forces Java or a page to open, close or change anything.
Fairness == (\A s \in Shells : WF_vars(Delete(s))) /\ WF_vars(PopupReported)

Spec == Init /\ [][Next]_vars /\ Fairness

-----------------------------------------------------------------------------
(* Properties *)

\* No WebContents is left in a destroyed browser context: "webcontents must get
\* destroyed before this" (shell.h), for every tab of a popup family, whatever the
\* settings become, but for the popups that opened, in a private family, after
\* single_context had been switched on: for these the code does not keep its word.
ContextOutlivesContents ==
  \A s \in Shells \ adrift : HasContents(s) => wcContext[s] \in contexts \cup {Global}

\* An address Java still holds is the address of the registered tab it was
\* issued for: DispatchShellCommand's CHECK ("no shell for native address")
\* cannot fail, and no command reaches another tab allocated at the same address.
HandlesAreFresh ==
  \A a \in Addresses : java[a] # NoShell =>
     /\ java[a] \in all_shells
     /\ address[java[a]] = a
     /\ ForPtr(a) = java[a]

\* Every tab UpdateAllWebPreferences or ForWebContents visits still has its
\* WebContents, whatever Java does while a tab is being closed, and two
\* registered tabs never share an address.
RegisteredIsUsable ==
  /\ \A s \in all_shells : HasContents(s)
  /\ \A s, t \in all_shells : address[s] = address[t] => s = t

\* A page that Java can still address runs with the current JavaScript setting,
\* and never with WebGL when the settings deny it.
PrefsWithinSettings ==
  \A s \in all_shells :
     /\ prefs[s].javascript = settings.javascript
     /\ prefs[s].webgl => settings.webgl

\* A private context dies with the last tab of its family: cookies and cache of
\* a separate context do not outlive its tabs.
NoOrphanContext ==
  \A c \in contexts : \E s \in Shells : Exists(s) /\ sbc[s] = c

\* Once a tab starts closing it is deleted, even when Java closes other tabs
\* from inside the notifications.
ClosingCompletes ==
  \A s \in Shells : phase[s] = "hidden" ~> phase[s] = "deleted"
=============================================================================
