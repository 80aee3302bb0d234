---------------------------- MODULE StyleSheets ----------------------------
(***************************************************************************)
(* The render-process half of block/blocker.cc: the style sheets that hide *)
(* advertisements, compiled from the rule list and put into documents.  A  *)
(* sheet is the sequence of its selectors.  Pure operators, with the       *)
(* declarative definition of what a document should get at the end.        *)
(***************************************************************************)
EXTENDS Hosts, SequencesExt

CONSTANTS
  Selectors,
  NoSelector,                  \* a rule that only blocks
  NoHost,                      \* the domain of a global rule
  MaxSelectorsPerStylesheet    \* kMaxSelectorsPerStylesheet (4096 in the code)

ASSUME StyleSheetConstants ==
  /\ NoSelector \notin Selectors
  /\ NoHost \notin HostNames
  /\ MaxSelectorsPerStylesheet \in Nat \ {0}

SelectorRules == [domain : HostNames \cup {NoHost}, selector : Selectors \cup {NoSelector}]

-----------------------------------------------------------------------------
(* Compiling a rule list: one pass, as the code makes it. *)

NoSheets == [global |-> <<>>, stylesheet |-> <<>>, num |-> 0,
             domain |-> [h \in HostNames |-> <<>>]]

\* A global selector goes to the sheet being filled, which is closed when it is full.
AddGlobal(c, selector) ==
  LET sheet == Append(c.stylesheet, selector)
      full  == (c.num + 1) % MaxSelectorsPerStylesheet = 0
  IN  [c EXCEPT !.num = @ + 1,
                !.global = IF full THEN Append(@, sheet) ELSE @,
                !.stylesheet = IF full THEN <<>> ELSE sheet]

AddRule(c, rule) ==
  IF rule.selector = NoSelector THEN c
  ELSE IF rule.domain = NoHost THEN AddGlobal(c, rule.selector)
  ELSE [c EXCEPT !.domain[rule.domain] = Append(@, rule.selector)]

\* What has been compiled after each line of the list.
Compiled(list) ==
  LET c[n \in 0 .. Len(list)] == IF n = 0 THEN NoSheets ELSE AddRule(c[n - 1], list[n])
  IN  c

\* Mutant: the sheet that is not full is forgotten.
UpdateRulesForRenderProcessMutNoRest(list) ==
  LET c == Compiled(list)[Len(list)]
  IN  [global_stylesheets |-> c.global, domain_stylesheets |-> c.domain]

\* The last sheet need not be full.
UpdateRulesForRenderProcess(list) ==
  LET c == Compiled(list)[Len(list)]
  IN  [global_stylesheets |-> IF c.stylesheet = <<>> THEN c.global
                                                     ELSE Append(c.global, c.stylesheet),
       domain_stylesheets |-> c.domain]

-----------------------------------------------------------------------------
(* What InjectStyleSheets adds to a document of host h: the global sheets and one
   sheet for the host and its parent domains, the host's own selectors first. *)

DomainSheet(domain_stylesheets, h) ==
  FlattenSeq([i \in WalkSteps(h) |-> domain_stylesheets[Suffix(h, i)]])

InjectStyleSheets(b, h) ==
  LET sheet == DomainSheet(b.domain_stylesheets, h)
  IN  IF sheet = <<>> THEN b.global_stylesheets ELSE Append(b.global_stylesheets, sheet)

-----------------------------------------------------------------------------
(* What a document of host h should get, rule by rule and in any order. *)

RulesFor(list, h) ==
  {i \in DOMAIN list : /\ list[i].selector # NoSelector
                       /\ \/ list[i].domain = NoHost
                          \/ Len(list[i].domain) > 1 /\ IsDomainOf(list[i].domain, h)}

\* Every selector occurs once for each rule that asks for it, in sheets that respect
\* the engine's limit, but for the one of the domains.
SheetsFollowRules(sheets, list, h) ==
  /\ LET injected == FlattenSeq(sheets)
         asked    == RulesFor(list, h)
     IN  \A s \in Selectors :
           Cardinality({i \in DOMAIN injected : injected[i] = s})
             = Cardinality({i \in asked : list[i].selector = s})
  /\ \A i \in 1 .. (Len(sheets) - 1) : Len(sheets[i]) \in 1 .. MaxSelectorsPerStylesheet
=============================================================================
