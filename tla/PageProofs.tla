----------------------------- MODULE PageProofs -----------------------------
(***************************************************************************)
(* Proofs about Page and StyleSheets, for any rule list, host, limit of    *)
(* the engine, list of icons and number of documents.                      *)
(***************************************************************************)
EXTENDS Page, FiniteSetTheorems, WellFoundedInduction, TLAPS

-----------------------------------------------------------------------------
(* Induction.  The principles are stated for sets, of which the provers can
   find the instances, and follow from the well-foundedness of <. *)

LEMMA Induction ==
  ASSUME NEW G, 0 \in G, \A n \in Nat : n \in G => n + 1 \in G
  PROVE  Nat \subseteq G
<1> DEFINE Less == OpToRel(<, Nat)
           B == Nat \ G
<1>1. IsWellFoundedOn(Less, Nat)
  BY NatLessThanWellFounded
<1>2. \A x, y \in Nat : x < y => <<x, y>> \in Less
  BY DEF OpToRel
<1> SUFFICES ASSUME B # {} PROVE FALSE
  OBVIOUS
<1> HIDE DEF Less
<1>3. B \subseteq Nat
  OBVIOUS
<1>4. PICK n \in B : \A m \in B : ~ (<<m, n>> \in Less)
  BY <1>1, <1>3, WFMin
<1>5. n \in Nat /\ n # 0
  BY <1>3
<1>6. n - 1 \in Nat /\ n - 1 < n /\ (n - 1) + 1 = n
  BY <1>5
<1>7. n - 1 \notin B
  BY <1>2, <1>4, <1>5, <1>6
<1>8. QED BY <1>5, <1>6, <1>7

LEMMA PrefixInduction ==
  ASSUME NEW N \in Nat, NEW G, 0 \in G, \A n \in 0 .. N : n \in G /\ n < N => n + 1 \in G
  PROVE  0 .. N \subseteq G
<1> DEFINE H == {n \in Nat : n <= N => n \in G}
<1>1. 0 \in H
  OBVIOUS
<1>2. \A n \in Nat : n \in H => n + 1 \in H
  OBVIOUS
<1> HIDE DEF H
<1>3. Nat \subseteq H
  BY <1>1, <1>2, Induction
<1>4. QED BY <1>3 DEF H

\* What a loop over a sequence has computed after each element.
IsLoop(f, b, q, step) ==
  f[0] = b /\ \A n \in 1 .. Len(q) : f[n] = step[<<f[n - 1], q[n]>>]

LEMMA LoopExists ==
  ASSUME NEW S, NEW T, NEW b \in S, NEW q \in Seq(T), NEW step \in [S \X T -> S]
  PROVE  \E f \in [0 .. Len(q) -> S] : IsLoop(f, b, q, step)
<1> DEFINE N == Len(q)
           Upto(n, f) == f[0] = b /\ \A i \in 1 .. n : f[i] = step[<<f[i - 1], q[i]>>]
           G == {n \in 0 .. N : \E f \in [0 .. n -> S] : Upto(n, f)}
<1>1. N \in Nat /\ \A n \in 1 .. N : q[n] \in T
  OBVIOUS
<1>2. 0 \in G
  <2>1. [i \in 0 .. 0 |-> b] \in [0 .. 0 -> S]
    OBVIOUS
  <2>2. Upto(0, [i \in 0 .. 0 |-> b])
    OBVIOUS
  <2> HIDE DEF Upto
  <2>3. \E f \in [0 .. 0 -> S] : Upto(0, f)
    BY <2>1, <2>2
  <2>4. QED BY <1>1, <2>3
<1>3. ASSUME NEW n \in 0 .. N, n \in G, n < N PROVE n + 1 \in G
  <2>1. PICK f \in [0 .. n -> S] : Upto(n, f)
    BY <1>3
  <2> DEFINE g == [i \in 0 .. n + 1 |-> IF i = n + 1 THEN step[<<f[n], q[n + 1]>>] ELSE f[i]]
  <2>2. n \in Nat /\ n + 1 \in 1 .. N /\ n \in 0 .. n
    BY <1>1, <1>3
  <2>3. step[<<f[n], q[n + 1]>>] \in S
    BY <1>1, <2>1, <2>2
  <2>4. g \in [0 .. n + 1 -> S]
    BY <2>1, <2>2, <2>3
  <2>5. Upto(n + 1, g)
    <3>1. g[0] = b
      BY <2>1, <2>2
    <3>2. ASSUME NEW i \in 1 .. n + 1 PROVE g[i] = step[<<g[i - 1], q[i]>>]
      <4>1. CASE i = n + 1
        <5>1. n + 1 \in 0 .. n + 1 /\ n \in 0 .. n + 1 /\ n # n + 1 /\ i - 1 = n
          BY <2>2, <4>1
        <5>2. g[n + 1] = step[<<f[n], q[n + 1]>>] /\ g[n] = f[n]
          BY <5>1
        <5>3. QED BY <4>1, <5>1, <5>2
      <4>2. CASE i # n + 1
        <5>1. i \in 1 .. n /\ i - 1 \in 0 .. n
          BY <2>2, <4>2
        <5>2. g[i] = f[i] /\ g[i - 1] = f[i - 1]
          BY <2>2, <4>2, <5>1
        <5>3. QED BY <2>1, <5>1, <5>2
      <4>3. QED BY <4>1, <4>2
    <3>3. QED BY <3>1, <3>2
  <2> HIDE DEF g, Upto
  <2>6. n + 1 \in 0 .. N
    BY <1>1, <2>2
  <2>7. QED BY <2>4, <2>5, <2>6
<1> HIDE DEF G
<1>4. 0 .. N \subseteq G
  BY <1>1, <1>2, <1>3, PrefixInduction
<1>5. N \in G
  BY <1>1, <1>4
<1>6. QED BY <1>5 DEF G, IsLoop

-----------------------------------------------------------------------------
(* The loop over the icons *)

\* What the loop remembers.
IconChoices == [best : Icons \cup {NoIcon}, size_diff : 0 .. Unsized, is_touch : BOOLEAN]
FirstChoice == [best |-> NoIcon, size_diff |-> Unsized, is_touch |-> FALSE]

LEMMA FirstChoiceType == FirstChoice \in IconChoices
BY PageConstants DEF IconChoices, FirstChoice

LEMMA BetterType ==
  ASSUME NEW c \in IconChoices, NEW f \in Icons
  PROVE  Better(c, f) \in IconChoices
<1>1. (f.type = "touch") \in BOOLEAN /\ f.diff \in 0 .. Unsized
  BY PageConstants
<1>2. [c EXCEPT !.best = f, !.is_touch = (f.type = "touch")] \in IconChoices
  BY DEF IconChoices
<1>3. [best |-> f, size_diff |-> f.diff, is_touch |-> (f.type = "touch")] \in IconChoices
  BY <1>1 DEF IconChoices
<1>4. QED BY <1>2, <1>3 DEF Better

LEMMA ConsideredSteps ==
  ASSUME NEW icons \in Seq(Icons)
  PROVE  LET c == Considered(icons)
         IN  /\ c \in [0 .. Len(icons) -> IconChoices]
             /\ c[0] = FirstChoice
             /\ \A n \in 1 .. Len(icons) : c[n] = Better(c[n - 1], icons[n])
<1> DEFINE N == Len(icons)
           Loop(c) == c = [n \in 0 .. N |-> IF n = 0 THEN FirstChoice
                                            ELSE Better(c[n - 1], icons[n])]
           step == [x \in IconChoices \X Icons |-> Better(x[1], x[2])]
           c == Considered(icons)
<1>1. N \in Nat /\ \A n \in 1 .. N : icons[n] \in Icons /\ n - 1 \in 0 .. N
  OBVIOUS
<1>2. step \in [IconChoices \X Icons -> IconChoices]
  BY BetterType
<1>3. \A x \in IconChoices, i \in Icons : step[<<x, i>>] = Better(x, i)
  OBVIOUS
<1> HIDE DEF step
<1>4. PICK f \in [0 .. N -> IconChoices] : IsLoop(f, FirstChoice, icons, step)
  BY <1>2, FirstChoiceType, LoopExists
<1>5. ASSUME NEW n \in 0 .. N PROVE f[n] = IF n = 0 THEN FirstChoice ELSE Better(f[n - 1], icons[n])
  <2>1. CASE n = 0
    BY <1>4, <2>1 DEF IsLoop
  <2>2. CASE n # 0
    <3>1. n \in 1 .. N
      BY <1>1, <2>2
    <3>2. f[n - 1] \in IconChoices /\ icons[n] \in Icons
      BY <1>1, <1>4, <3>1
    <3>3. QED BY <1>3, <1>4, <2>2, <3>1, <3>2 DEF IsLoop
  <2>3. QED BY <2>1, <2>2
<1>6. Loop(f)
  BY <1>4, <1>5
<1>7. c = CHOOSE x : Loop(x)
  BY DEF Considered, FirstChoice
<1>8. Loop(c)
  BY <1>6, <1>7
<1> HIDE DEF c
<1>9. /\ c[0] = FirstChoice
      /\ \A n \in 1 .. N : c[n] = Better(c[n - 1], icons[n])
  BY <1>1, <1>8
<1> DEFINE G == {n \in 0 .. N : c[n] \in IconChoices}
<1>10. 0 \in G
  BY <1>1, <1>9, FirstChoiceType
<1>11. ASSUME NEW n \in 0 .. N, n \in G, n < N PROVE n + 1 \in G
  <2>1. n + 1 \in 1 .. N /\ (n + 1) - 1 = n
    BY <1>1, <1>11
  <2>2. c[n + 1] = Better(c[n], icons[n + 1])
    BY <1>9, <2>1
  <2>3. QED BY <1>1, <1>11, <2>1, <2>2, BetterType
<1>12. 0 .. N \subseteq G
  <2> HIDE DEF G
  <2>1. QED BY <1>1, <1>10, <1>11, PrefixInduction
<1>13. c \in [0 .. N -> IconChoices]
  <2>1. c = [n \in 0 .. N |-> c[n]]
    BY <1>8
  <2>2. \A n \in 0 .. N : c[n] \in IconChoices
    BY <1>12
  <2>3. QED BY <2>1, <2>2
<1>14. QED BY <1>9, <1>13 DEF c

Valid(icons, n) == {i \in 1 .. n : icons[i].type # "invalid"}
Touch(icons, n) == {i \in 1 .. n : icons[i].type = "touch"}

\* x is the right choice among the first n icons.
RightChoice(x, icons, n) ==
  /\ x.best = NoIcon <=> Valid(icons, n) = {}
  /\ x.is_touch <=> Touch(icons, n) # {}
  /\ x.is_touch => \E i \in Touch(icons, n) : x.best = icons[i]
  /\ x.best # NoIcon => \E i \in Valid(icons, n) : x.best = icons[i]

LEMMA ChoiceStaysRight ==
  ASSUME NEW icons \in Seq(Icons), NEW n \in 0 .. Len(icons), n < Len(icons),
         NEW x \in IconChoices, RightChoice(x, icons, n)
  PROVE  RightChoice(Better(x, icons[n + 1]), icons, n + 1)
<1> DEFINE f == icons[n + 1]
           y == Better(x, f)
<1>1. n + 1 \in 1 .. Len(icons) /\ n \in Nat /\ f \in Icons /\ f # NoIcon
  BY PageConstants
<1>2. /\ Valid(icons, n + 1) = Valid(icons, n) \cup {i \in {n + 1} : f.type # "invalid"}
      /\ Touch(icons, n + 1) = Touch(icons, n) \cup {i \in {n + 1} : f.type = "touch"}
  BY <1>1 DEF Valid, Touch
<1>3. Touch(icons, n) \subseteq Valid(icons, n)
  BY DEF Valid, Touch
<1>4. CASE f.type = "invalid"
  <2>1. y = x
    BY <1>4 DEF Better
  <2>2. Valid(icons, n + 1) = Valid(icons, n) /\ Touch(icons, n + 1) = Touch(icons, n)
    BY <1>2, <1>4
  <2>3. QED BY <2>1, <2>2 DEF RightChoice
<1>5. CASE f.type # "invalid" /\ y.best = f /\ y.is_touch = (f.type = "touch")
           /\ (f.type = "touch" \/ ~x.is_touch)
  <2>1. n + 1 \in Valid(icons, n + 1) /\ (f.type = "touch" => n + 1 \in Touch(icons, n + 1))
    BY <1>2, <1>5
  <2>2. f.type # "touch" => Touch(icons, n + 1) = {}
    BY <1>2, <1>5 DEF RightChoice
  <2>3. QED BY <1>1, <1>5, <2>1, <2>2 DEF RightChoice
<1>6. CASE f.type # "invalid" /\ y = x /\ x.best # NoIcon /\ (f.type = "touch" => x.is_touch)
  BY <1>2, <1>3, <1>6 DEF RightChoice
<1>7. \/ f.type = "invalid"
      \/ /\ f.type # "invalid" /\ y.best = f /\ y.is_touch = (f.type = "touch")
         /\ f.type = "touch" \/ ~x.is_touch
      \/ f.type # "invalid" /\ y = x /\ x.best # NoIcon /\ (f.type = "touch" => x.is_touch)
  <2>1. x.is_touch => x.best # NoIcon
    BY <1>3 DEF RightChoice
  <2>2. x.is_touch \in BOOLEAN
    BY DEF IconChoices
  <2>3. CASE x.best = NoIcon \/ (f.type = "touch" /\ ~x.is_touch)
    BY <2>1, <2>3 DEF Better, IconChoices
  <2>4. CASE x.best # NoIcon /\ ~(f.type = "touch" /\ ~x.is_touch)
    BY <2>2, <2>4 DEF Better
  <2>5. QED BY <2>3, <2>4
<1>8. QED BY <1>4, <1>5, <1>6, <1>7

\* The icon chosen is a valid one of the list, and a touch icon if there is one.
LEMMA BestCandidateIsBest ==
  ASSUME NEW icons \in Seq(Icons)
  PROVE  LET best  == BestCandidate(icons)
             valid == {i \in DOMAIN icons : icons[i].type # "invalid"}
             touch == {i \in DOMAIN icons : icons[i].type = "touch"}
         IN  /\ best \in Icons \cup {NoIcon}
             /\ best = NoIcon <=> valid = {}
             /\ valid # {} => best \in {icons[i] : i \in IF touch # {} THEN touch ELSE valid}
<1> DEFINE N == Len(icons)
           c == Considered(icons)
           G == {n \in 0 .. N : RightChoice(c[n], icons, n)}
<1>1. /\ c \in [0 .. N -> IconChoices]
      /\ c[0] = FirstChoice
      /\ \A n \in 1 .. N : c[n] = Better(c[n - 1], icons[n])
  BY ConsideredSteps
<1>2. N \in Nat /\ DOMAIN icons = 1 .. N
  OBVIOUS
<1> HIDE DEF c
<1>3. 0 \in G
  <2>1. Valid(icons, 0) = {} /\ Touch(icons, 0) = {}
    BY DEF Valid, Touch
  <2>2. RightChoice(c[0], icons, 0)
    BY <1>1, <2>1 DEF RightChoice, FirstChoice
  <2>3. QED BY <1>2, <2>2
<1>4. ASSUME NEW n \in 0 .. N, n \in G, n < N PROVE n + 1 \in G
  <2>1. n + 1 \in 1 .. N /\ (n + 1) - 1 = n
    BY <1>2, <1>4
  <2>2. c[n + 1] = Better(c[n], icons[n + 1]) /\ c[n] \in IconChoices
    BY <1>1, <2>1
  <2>3. RightChoice(Better(c[n], icons[n + 1]), icons, n + 1)
    BY <1>4, <2>2, ChoiceStaysRight
  <2>4. QED BY <1>2, <2>1, <2>2, <2>3
<1>5. 0 .. N \subseteq G
  <2> HIDE DEF G
  <2>1. QED BY <1>2, <1>3, <1>4, PrefixInduction
<1>6. RightChoice(c[N], icons, N) /\ c[N] \in IconChoices
  BY <1>1, <1>2, <1>5
<1>7. BestCandidate(icons) = c[N].best
  BY DEF BestCandidate, c
<1>8. QED
  BY <1>2, <1>6, <1>7 DEF RightChoice, Valid, Touch, IconChoices

-----------------------------------------------------------------------------
(* How often an element occurs in a sequence *)

LEMMA AppendIndex ==
  ASSUME NEW S, NEW q \in Seq(S), NEW e \in S
  PROVE  /\ Append(q, e) \in Seq(S)
         /\ Len(q) \in Nat
         /\ Len(Append(q, e)) = Len(q) + 1
         /\ DOMAIN Append(q, e) = 1 .. Len(q) + 1
         /\ DOMAIN q = 1 .. Len(q)
         /\ \A i \in 1 .. Len(q) : Append(q, e)[i] = q[i]
         /\ Append(q, e)[Len(q) + 1] = e
OBVIOUS

Places(q, s) == {i \in DOMAIN q : q[i] = s}
Occurrences(q, s) == Cardinality(Places(q, s))

LEMMA OccurrencesType ==
  ASSUME NEW T, NEW q \in Seq(T), NEW s
  PROVE  IsFiniteSet(Places(q, s)) /\ Occurrences(q, s) \in Nat
<1>1. IsFiniteSet(1 .. Len(q))
  BY FS_Interval
<1>2. Places(q, s) \in SUBSET (1 .. Len(q))
  BY DEF Places
<1>3. IsFiniteSet(Places(q, s))
  BY <1>1, <1>2, FS_Subset
<1>4. QED BY <1>3, FS_CardinalityType DEF Occurrences

LEMMA OccurrencesEmpty == \A s : Occurrences(<<>>, s) = 0
<1>1. \A s : Places(<<>>, s) = {}
  BY DEF Places
<1>2. QED BY <1>1, FS_EmptySet DEF Occurrences

LEMMA OccurrencesAppend ==
  ASSUME NEW T, NEW q \in Seq(T), NEW e \in T, NEW s
  PROVE  Occurrences(Append(q, e), s) = Occurrences(q, s) + (IF e = s THEN 1 ELSE 0)
<1> DEFINE n == Len(q)
<1>1. n \in Nat /\ DOMAIN q = 1 .. n /\ DOMAIN Append(q, e) = 1 .. n + 1
      /\ (\A i \in 1 .. n : Append(q, e)[i] = q[i]) /\ Append(q, e)[n + 1] = e
  OBVIOUS
<1>2. n + 1 \notin Places(q, s)
  BY <1>1 DEF Places
<1>3. IsFiniteSet(Places(q, s)) /\ Occurrences(q, s) \in Nat
  BY OccurrencesType
<1> HIDE DEF n
<1>4. CASE e = s
  <2>1. Places(Append(q, e), s) = Places(q, s) \cup {n + 1}
    BY <1>1, <1>4 DEF Places
  <2>2. Cardinality(Places(q, s) \cup {n + 1}) = Cardinality(Places(q, s)) + 1
    BY <1>2, <1>3, FS_AddElement
  <2>3. QED BY <1>4, <2>1, <2>2 DEF Occurrences
<1>5. CASE e # s
  <2>1. Places(Append(q, e), s) = Places(q, s)
    BY <1>1, <1>5 DEF Places
  <2>2. QED BY <1>3, <1>5, <2>1 DEF Occurrences
<1>6. QED BY <1>4, <1>5

LEMMA OccurrencesConcat ==
  ASSUME NEW T, NEW q \in Seq(T), NEW r \in Seq(T), NEW s
  PROVE  Occurrences(q \o r, s) = Occurrences(q, s) + Occurrences(r, s)
<1> DEFINE n == Len(q)
           m == Len(r)
           P == Places(q, s)
           R == Places(r, s)
           Moved == {j \in n + 1 .. n + m : j - n \in R}
           move == [i \in R |-> n + i]
<1>1. /\ n \in Nat /\ m \in Nat /\ DOMAIN q = 1 .. n /\ DOMAIN r = 1 .. m
      /\ DOMAIN (q \o r) = 1 .. n + m
      /\ \A i \in 1 .. n : (q \o r)[i] = q[i]
      /\ \A i \in n + 1 .. n + m : (q \o r)[i] = r[i - n]
  OBVIOUS
<1>2. IsFiniteSet(P) /\ IsFiniteSet(R)
      /\ Cardinality(P) \in Nat /\ Cardinality(R) \in Nat
  BY OccurrencesType DEF Occurrences
<1> HIDE DEF n, m
<1>3. Places(q \o r, s) = P \cup Moved
  BY <1>1 DEF Places
<1>4. P \cap Moved = {}
  BY <1>1 DEF Places
<1>5. R \subseteq 1 .. m
  BY <1>1 DEF Places
<1>6. move \in Bijection(R, Moved)
  <2>1. move \in [R -> Moved]
    BY <1>1, <1>5
  <2>2. \A i, j \in R : move[i] = move[j] => i = j
    BY <1>1, <1>5
  <2>3. \A j \in Moved : \E i \in R : move[i] = j
    <3>1. SUFFICES ASSUME NEW j \in Moved PROVE j - n \in R /\ move[j - n] = j
      OBVIOUS
    <3>2. QED BY <1>1
  <2> HIDE DEF move, Moved
  <2>4. QED BY <2>1, <2>2, <2>3 DEF Bijection, Injection, Surjection, IsInjective
<1> HIDE DEF P, R, Moved, move
<1>7. IsFiniteSet(Moved) /\ Cardinality(Moved) = Cardinality(R)
  BY <1>2, <1>6, FS_Bijection DEF ExistsBijection
<1>8. Cardinality(P \cup Moved) = Cardinality(P) + Cardinality(Moved) - Cardinality({})
  BY <1>2, <1>4, <1>7, FS_Union
<1>9. QED BY <1>2, <1>3, <1>7, <1>8, FS_EmptySet DEF P, R, Occurrences

-----------------------------------------------------------------------------
(* Concatenation of a sequence of sequences *)

Concat(T) == [x \in Seq(T) \X Seq(T) |-> x[1] \o x[2]]

\* FlattenSeq is what any loop of concatenations ends with.
LEMMA FlattenIsLoop ==
  ASSUME NEW T, NEW ss \in Seq(Seq(T)), NEW f \in [0 .. Len(ss) -> Seq(T)],
         IsLoop(f, <<>>, ss, Concat(T))
  PROVE  FlattenSeq(ss) = f[Len(ss)]
<1> DEFINE N == Len(ss)
<1>1. N \in Nat /\ DOMAIN ss = 1 .. N /\ \A n \in 1 .. N : ss[n] \in Seq(T) /\ n - 1 \in 0 .. N
  OBVIOUS
<1>2. f[0] = <<>> /\ \A n \in 1 .. N : f[n] = f[n - 1] \o ss[n]
  BY <1>1 DEF IsLoop, Concat
<1>3. CASE N = 0
  <2>1. ss = <<>>
    BY <1>3
  <2>2. QED BY <1>2, <1>3, <2>1 DEF FlattenSeq
<1>4. CASE N # 0
  <2> DEFINE Flat(h) == h = [i \in 1 .. N |-> IF i = 1 THEN ss[i] ELSE h[i - 1] \o ss[i]]
             g == [i \in 1 .. N |-> f[i]]
             h == CHOOSE x : Flat(x)
             G == {n \in 0 .. N : n = 0 \/ h[n] = f[n]}
  <2>1. FlattenSeq(ss) = h[N]
    BY <1>4 DEF FlattenSeq
  <2>2. f[1] = ss[1]
    <3>1. 1 \in 1 .. N /\ ss[1] \in Seq(T)
      BY <1>1, <1>4
    <3>2. <<>> \o ss[1] = ss[1]
      BY <3>1
    <3>3. ASSUME NEW n \in 1 .. N, n = 1 PROVE f[n] = <<>> \o ss[n]
      <4>1. n - 1 = 0
        BY <3>3
      <4>2. f[n] = f[n - 1] \o ss[n]
        BY <1>2
      <4>3. QED BY <1>2, <4>1, <4>2
    <3>4. QED BY <3>1, <3>2, <3>3
  <2>3. ASSUME NEW i \in 1 .. N PROVE g[i] = IF i = 1 THEN ss[i] ELSE g[i - 1] \o ss[i]
    <3>1. CASE i = 1
      BY <2>2, <3>1
    <3>2. CASE i # 1
      <4>1. i - 1 \in 1 .. N
        BY <1>1, <3>2
      <4>2. QED BY <1>2, <3>2, <4>1
    <3>3. QED BY <3>1, <3>2
  <2>4. Flat(g)
    BY <2>3
  <2>5. Flat(h)
    BY <2>4
  <2> HIDE DEF h
  <2>6. 0 \in G
    BY <1>1
  <2>7. ASSUME NEW n \in 0 .. N, n \in G, n < N PROVE n + 1 \in G
    <3>1. n + 1 \in 1 .. N /\ (n + 1) - 1 = n
      BY <1>1, <2>7
    <3>2. h[n + 1] = f[n + 1]
      <4>1. h[n + 1] = IF n + 1 = 1 THEN ss[n + 1] ELSE h[(n + 1) - 1] \o ss[n + 1]
        BY <2>5, <3>1
      <4>2. CASE n = 0
        <5>1. n + 1 = 1
          BY <4>2
        <5>2. QED BY <2>2, <4>1, <5>1
      <4>3. CASE n # 0
        <5>1. n + 1 # 1
          BY <1>1, <4>3
        <5>2. f[n + 1] = f[(n + 1) - 1] \o ss[n + 1]
          BY <1>2, <3>1
        <5>3. h[(n + 1) - 1] = f[(n + 1) - 1]
          BY <2>7, <3>1, <4>3
        <5>4. QED BY <4>1, <5>1, <5>2, <5>3
      <4>4. QED BY <4>2, <4>3
    <3>3. QED BY <1>1, <3>1, <3>2
  <2>8. 0 .. N \subseteq G
    <3> HIDE DEF G
    <3>1. QED BY <1>1, <2>6, <2>7, PrefixInduction
  <2>9. N \in G
    <3> HIDE DEF G
    <3>1. N \in 0 .. N
      BY <1>1
    <3>2. QED BY <2>8, <3>1
  <2> HIDE DEF N
  <2>10. h[N] = f[N]
    BY <1>4, <2>9
  <2>11. QED BY <2>1, <2>10
<1>5. QED BY <1>3, <1>4

LEMMA ConcatType == ASSUME NEW T PROVE Concat(T) \in [Seq(T) \X Seq(T) -> Seq(T)]
BY DEF Concat

LEMMA FlattenType ==
  ASSUME NEW T, NEW ss \in Seq(Seq(T))
  PROVE  FlattenSeq(ss) \in Seq(T)
<1>1. <<>> \in Seq(T)
  OBVIOUS
<1>2. PICK f \in [0 .. Len(ss) -> Seq(T)] : IsLoop(f, <<>>, ss, Concat(T))
  BY <1>1, ConcatType, LoopExists
<1>3. Len(ss) \in 0 .. Len(ss)
  OBVIOUS
<1>4. QED BY <1>2, <1>3, FlattenIsLoop

LEMMA FlattenEmpty == FlattenSeq(<<>>) = <<>>
BY DEF FlattenSeq

LEMMA FlattenAppend ==
  ASSUME NEW T, NEW ss \in Seq(Seq(T)), NEW t \in Seq(T)
  PROVE  FlattenSeq(Append(ss, t)) = FlattenSeq(ss) \o t
<1> DEFINE N == Len(ss)
           a == Append(ss, t)
<1>1. /\ N \in Nat /\ a \in Seq(Seq(T)) /\ Len(a) = N + 1 /\ a[N + 1] = t
      /\ \A i \in 1 .. N : a[i] = ss[i]
      /\ <<>> \in Seq(T)
  OBVIOUS
<1> HIDE DEF a
<1>2. PICK f \in [0 .. Len(a) -> Seq(T)] : IsLoop(f, <<>>, a, Concat(T))
  BY <1>1, ConcatType, LoopExists
<1> DEFINE g == [i \in 0 .. N |-> f[i]]
<1>3. g \in [0 .. N -> Seq(T)]
  BY <1>1, <1>2
<1>4. IsLoop(g, <<>>, ss, Concat(T))
  <2>1. ASSUME NEW i \in 1 .. N PROVE g[i] = Concat(T)[<<g[i - 1], ss[i]>>]
    <3>1. i \in 1 .. Len(a) /\ i \in 0 .. N /\ i - 1 \in 0 .. N
      BY <1>1
    <3>2. g[i] = f[i] /\ g[i - 1] = f[i - 1] /\ a[i] = ss[i]
      BY <1>1, <3>1
    <3>3. f[i] = Concat(T)[<<f[i - 1], a[i]>>]
      BY <1>2, <3>1 DEF IsLoop
    <3>4. QED BY <3>2, <3>3
  <2>2. g[0] = <<>>
    BY <1>1, <1>2 DEF IsLoop
  <2>3. QED BY <2>1, <2>2 DEF IsLoop
<1>5. g[N] = f[N] /\ f[N] \in Seq(T)
  BY <1>1, <1>2
<1>6. FlattenSeq(ss) = f[N]
  BY <1>3, <1>4, <1>5, FlattenIsLoop
<1>7. FlattenSeq(a) = f[N + 1]
  BY <1>1, <1>2, FlattenIsLoop
<1>8. f[N + 1] = f[N] \o t
  <2>1. N + 1 \in 1 .. Len(a) /\ (N + 1) - 1 = N
    BY <1>1
  <2>2. f[N + 1] = Concat(T)[<<f[N], a[N + 1]>>]
    BY <1>2, <2>1 DEF IsLoop
  <2>3. QED BY <1>1, <1>5, <2>2 DEF Concat
<1>9. QED BY <1>6, <1>7, <1>8 DEF a

LEMMA NextRemainder ==
  ASSUME NEW m \in Nat \ {0}, NEW n \in Nat
  PROVE  /\ n % m \in 0 .. m - 1
         /\ (n + 1) % m = IF (n % m) + 1 = m THEN 0 ELSE (n % m) + 1
<1> DEFINE q == n \div m
           r == n % m
           q1 == (n + 1) \div m
           r1 == (n + 1) % m
<1>1. q \in Int /\ r \in 0 .. m - 1 /\ n = m * q + r
  OBVIOUS
<1>2. q1 \in Int /\ r1 \in 0 .. m - 1 /\ n + 1 = m * q1 + r1
  OBVIOUS
<1> HIDE DEF q, r, q1, r1
<1> DEFINE d == q1 - q
<1>3. d \in Int /\ m * d = r + 1 - r1
  BY <1>1, <1>2
<1>4. d >= 2 => m * d >= 2 * m
  BY <1>3
<1>5. d <= -1 => m * d <= -m
  BY <1>3
<1>6. d \in {0, 1}
  <2> HIDE DEF d
  <2>1. QED BY <1>1, <1>2, <1>3, <1>4, <1>5
<1>7. r1 = IF r + 1 = m THEN 0 ELSE r + 1
  <2> HIDE DEF d
  <2>1. CASE d = 0
    BY <1>1, <1>2, <1>3, <2>1
  <2>2. CASE d = 1
    BY <1>1, <1>2, <1>3, <2>2
  <2>3. QED BY <1>6, <2>1, <2>2
<1>8. QED BY <1>1, <1>7 DEF r, r1

-----------------------------------------------------------------------------
(* Compiling a rule list *)

CompileStates == [global : Seq(Seq(Selectors)), stylesheet : Seq(Selectors), num : Nat,
                  domain : [HostNames -> Seq(Selectors)]]

LEMMA NoSheetsType == NoSheets \in CompileStates
BY DEF NoSheets, CompileStates

LEMMA AddGlobalType ==
  ASSUME NEW c \in CompileStates, NEW s \in Selectors
  PROVE  AddGlobal(c, s) \in CompileStates
<1> DEFINE sheet == Append(c.stylesheet, s)
           full  == (c.num + 1) % MaxSelectorsPerStylesheet = 0
<1>1. /\ sheet \in Seq(Selectors) /\ Append(c.global, sheet) \in Seq(Seq(Selectors))
      /\ c.num + 1 \in Nat /\ <<>> \in Seq(Selectors)
  BY DEF CompileStates
<1>2. AddGlobal(c, s) = [c EXCEPT !.num = c.num + 1,
                                  !.global = IF full THEN Append(c.global, sheet) ELSE c.global,
                                  !.stylesheet = IF full THEN <<>> ELSE sheet]
  BY DEF AddGlobal, CompileStates
<1> HIDE DEF sheet, full
<1>3. QED BY <1>1, <1>2 DEF CompileStates

LEMMA AddRuleType ==
  ASSUME NEW c \in CompileStates, NEW rule \in SelectorRules
  PROVE  AddRule(c, rule) \in CompileStates
<1>1. CASE rule.selector = NoSelector
  BY <1>1 DEF AddRule
<1>2. CASE rule.selector # NoSelector /\ rule.domain = NoHost
  <2>1. rule.selector \in Selectors
    BY <1>2 DEF SelectorRules
  <2>2. QED BY <1>2, <2>1, AddGlobalType DEF AddRule
<1>3. CASE rule.selector # NoSelector /\ rule.domain # NoHost
  <2>1. rule.selector \in Selectors /\ rule.domain \in HostNames
    BY <1>3 DEF SelectorRules
  <2>2. Append(c.domain[rule.domain], rule.selector) \in Seq(Selectors)
    BY <2>1 DEF CompileStates
  <2>3. QED BY <1>3, <2>1, <2>2 DEF AddRule, CompileStates
<1>4. QED BY <1>1, <1>2, <1>3

LEMMA CompiledSteps ==
  ASSUME NEW list \in Seq(SelectorRules)
  PROVE  LET c == Compiled(list)
         IN  /\ c \in [0 .. Len(list) -> CompileStates]
             /\ c[0] = NoSheets
             /\ \A n \in 1 .. Len(list) : c[n] = AddRule(c[n - 1], list[n])
<1> DEFINE N == Len(list)
           Loop(c) == c = [n \in 0 .. N |-> IF n = 0 THEN NoSheets
                                            ELSE AddRule(c[n - 1], list[n])]
           step == [x \in CompileStates \X SelectorRules |-> AddRule(x[1], x[2])]
           c == Compiled(list)
<1>1. N \in Nat /\ \A n \in 1 .. N : list[n] \in SelectorRules /\ n - 1 \in 0 .. N
  OBVIOUS
<1>2. step \in [CompileStates \X SelectorRules -> CompileStates]
  BY AddRuleType
<1>3. \A x \in CompileStates, i \in SelectorRules : step[<<x, i>>] = AddRule(x, i)
  OBVIOUS
<1> HIDE DEF step
<1>4. PICK f \in [0 .. N -> CompileStates] : IsLoop(f, NoSheets, list, step)
  BY <1>2, NoSheetsType, LoopExists
<1>5. ASSUME NEW n \in 0 .. N PROVE f[n] = IF n = 0 THEN NoSheets ELSE AddRule(f[n - 1], list[n])
  <2>1. CASE n = 0
    BY <1>4, <2>1 DEF IsLoop
  <2>2. CASE n # 0
    <3>1. n \in 1 .. N
      BY <1>1, <2>2
    <3>2. f[n - 1] \in CompileStates /\ list[n] \in SelectorRules
      BY <1>1, <1>4, <3>1
    <3>3. QED BY <1>3, <1>4, <2>2, <3>1, <3>2 DEF IsLoop
  <2>3. QED BY <2>1, <2>2
<1>6. Loop(f)
  BY <1>4, <1>5
<1>7. c = CHOOSE x : Loop(x)
  BY DEF Compiled
<1>8. Loop(c)
  BY <1>6, <1>7
<1> HIDE DEF c
<1>9. /\ c[0] = NoSheets
      /\ \A n \in 1 .. N : c[n] = AddRule(c[n - 1], list[n])
  BY <1>1, <1>8
<1> DEFINE G == {n \in 0 .. N : c[n] \in CompileStates}
<1>10. 0 \in G
  BY <1>1, <1>9, NoSheetsType
<1>11. ASSUME NEW n \in 0 .. N, n \in G, n < N PROVE n + 1 \in G
  <2>1. n + 1 \in 1 .. N /\ (n + 1) - 1 = n
    BY <1>1, <1>11
  <2>2. c[n + 1] = AddRule(c[n], list[n + 1])
    BY <1>9, <2>1
  <2>3. QED BY <1>1, <1>11, <2>1, <2>2, AddRuleType
<1>12. 0 .. N \subseteq G
  <2> HIDE DEF G
  <2>1. QED BY <1>1, <1>10, <1>11, PrefixInduction
<1>13. c \in [0 .. N -> CompileStates]
  <2>1. c = [n \in 0 .. N |-> c[n]]
    BY <1>8
  <2>2. \A n \in 0 .. N : c[n] \in CompileStates
    BY <1>12
  <2>3. QED BY <2>1, <2>2
<1>14. QED BY <1>9, <1>13 DEF c

\* The rules among the first n lines that ask for selector s on domain d.
RulesOf(list, n, d, s) == {i \in 1 .. n : list[i].selector = s /\ list[i].domain = d}
Asked(list, n, d, s) == Cardinality(RulesOf(list, n, d, s))

LEMMA AskedType ==
  ASSUME NEW n \in Nat, NEW list, NEW d, NEW s
  PROVE  IsFiniteSet(RulesOf(list, n, d, s)) /\ Asked(list, n, d, s) \in Nat
<1>1. IsFiniteSet(1 .. n)
  BY FS_Interval
<1>2. RulesOf(list, n, d, s) \in SUBSET (1 .. n)
  BY DEF RulesOf
<1>3. IsFiniteSet(RulesOf(list, n, d, s))
  BY <1>1, <1>2, FS_Subset
<1>4. QED BY <1>3, FS_CardinalityType DEF Asked

LEMMA AskedNone == \A list, d, s : Asked(list, 0, d, s) = 0
<1>1. \A list, d, s : RulesOf(list, 0, d, s) = {}
  BY DEF RulesOf
<1>2. QED BY <1>1, FS_EmptySet DEF Asked

LEMMA AskedNext ==
  ASSUME NEW n \in Nat, NEW list, NEW d, NEW s
  PROVE  Asked(list, n + 1, d, s)
           = Asked(list, n, d, s)
               + (IF list[n + 1].selector = s /\ list[n + 1].domain = d THEN 1 ELSE 0)
<1>1. IsFiniteSet(RulesOf(list, n, d, s)) /\ Asked(list, n, d, s) \in Nat
  BY AskedType
<1>2. n + 1 \notin RulesOf(list, n, d, s)
  BY DEF RulesOf
<1>3. CASE list[n + 1].selector = s /\ list[n + 1].domain = d
  <2>1. RulesOf(list, n + 1, d, s) = RulesOf(list, n, d, s) \cup {n + 1}
    BY <1>3 DEF RulesOf
  <2>2. QED BY <1>1, <1>2, <1>3, <2>1, FS_AddElement DEF Asked
<1>4. CASE ~(list[n + 1].selector = s /\ list[n + 1].domain = d)
  <2>1. RulesOf(list, n + 1, d, s) = RulesOf(list, n, d, s)
    BY <1>4 DEF RulesOf
  <2>2. QED BY <1>1, <1>4, <2>1 DEF Asked
<1>5. QED BY <1>3, <1>4

\* What has been compiled is what the first n lines ask for.
GlobalRight(c, list, n) ==
  \A s \in Selectors :
    Occurrences(FlattenSeq(c.global), s) + Occurrences(c.stylesheet, s)
      = Asked(list, n, NoHost, s)
DomainRight(c, list, n) ==
  \A h \in HostNames, s \in Selectors :
    Occurrences(c.domain[h], s) = Asked(list, n, h, s)
SheetsFull(c) ==
  /\ Len(c.stylesheet) = c.num % MaxSelectorsPerStylesheet
  /\ \A i \in DOMAIN c.global : Len(c.global[i]) = MaxSelectorsPerStylesheet

CompiledRight(c, list, n) ==
  GlobalRight(c, list, n) /\ DomainRight(c, list, n) /\ SheetsFull(c)

LEMMA NoSheetsRight == ASSUME NEW list PROVE CompiledRight(NoSheets, list, 0)
<1>1. NoSheets.global = <<>> /\ NoSheets.stylesheet = <<>> /\ NoSheets.num = 0
      /\ NoSheets.domain = [h \in HostNames |-> <<>>]
  BY DEF NoSheets
<1>2. 0 % MaxSelectorsPerStylesheet = 0
  BY StyleSheetConstants
<1>3. GlobalRight(NoSheets, list, 0)
  BY <1>1, AskedNone, FlattenEmpty, OccurrencesEmpty DEF GlobalRight
<1>4. DomainRight(NoSheets, list, 0)
  BY <1>1, AskedNone, OccurrencesEmpty DEF DomainRight
<1>5. SheetsFull(NoSheets)
  BY <1>1, <1>2 DEF SheetsFull
<1>6. QED BY <1>3, <1>4, <1>5 DEF CompiledRight

LEMMA AddGlobalRight ==
  ASSUME NEW c \in CompileStates, NEW t \in Selectors, SheetsFull(c)
  PROVE  LET a == AddGlobal(c, t)
         IN  /\ SheetsFull(a)
             /\ a.domain = c.domain
             /\ \A s \in Selectors :
                  Occurrences(FlattenSeq(a.global), s) + Occurrences(a.stylesheet, s)
                    = Occurrences(FlattenSeq(c.global), s) + Occurrences(c.stylesheet, s)
                        + (IF t = s THEN 1 ELSE 0)
<1> DEFINE m == MaxSelectorsPerStylesheet
           sheet == Append(c.stylesheet, t)
           full  == (c.num + 1) % m = 0
           a == AddGlobal(c, t)
<1>1. /\ c.global \in Seq(Seq(Selectors)) /\ c.stylesheet \in Seq(Selectors)
      /\ c.num \in Nat /\ m \in Nat \ {0}
  BY StyleSheetConstants DEF CompileStates
<1>2. /\ a.num = c.num + 1
      /\ a.global = IF full THEN Append(c.global, sheet) ELSE c.global
      /\ a.stylesheet = IF full THEN <<>> ELSE sheet
      /\ a.domain = c.domain
  BY DEF AddGlobal, CompileStates
<1>3. sheet \in Seq(Selectors) /\ Len(sheet) = Len(c.stylesheet) + 1
  BY <1>1
<1>4. /\ c.num % m \in 0 .. m - 1
      /\ (c.num + 1) % m = IF (c.num % m) + 1 = m THEN 0 ELSE (c.num % m) + 1
  BY <1>1, NextRemainder
<1>5. Len(c.stylesheet) = c.num % m /\ \A i \in DOMAIN c.global : Len(c.global[i]) = m
  BY DEF SheetsFull
<1>6. SheetsFull(a)
  <2>1. CASE full
    <3>1. Len(sheet) = m
      BY <1>1, <1>3, <1>4, <1>5, <2>1
    <3>2. \A i \in DOMAIN Append(c.global, sheet) : Len(Append(c.global, sheet)[i]) = m
      BY <1>1, <1>3, <1>5, <3>1
    <3>3. QED BY <1>2, <2>1, <3>2 DEF SheetsFull
  <2>2. CASE ~full
    <3>1. Len(sheet) = (c.num + 1) % m
      BY <1>1, <1>3, <1>4, <1>5, <2>2
    <3>2. QED BY <1>2, <1>5, <2>2, <3>1 DEF SheetsFull
  <2>3. QED BY <2>1, <2>2
<1>7. ASSUME NEW s \in Selectors
      PROVE  Occurrences(FlattenSeq(a.global), s) + Occurrences(a.stylesheet, s)
               = Occurrences(FlattenSeq(c.global), s) + Occurrences(c.stylesheet, s)
                   + (IF t = s THEN 1 ELSE 0)
  <2>1. Occurrences(sheet, s) = Occurrences(c.stylesheet, s) + (IF t = s THEN 1 ELSE 0)
    BY <1>1, OccurrencesAppend
  <2>2. FlattenSeq(c.global) \in Seq(Selectors)
    BY <1>1, FlattenType
  <2>3. /\ Occurrences(FlattenSeq(c.global), s) \in Nat
        /\ Occurrences(c.stylesheet, s) \in Nat
        /\ Occurrences(sheet, s) \in Nat
    BY <1>1, <1>3, <2>2, OccurrencesType
  <2>4. CASE full
    <3>1. FlattenSeq(a.global) = FlattenSeq(c.global) \o sheet
      BY <1>1, <1>2, <1>3, <2>4, FlattenAppend
    <3>2. Occurrences(FlattenSeq(c.global) \o sheet, s)
            = Occurrences(FlattenSeq(c.global), s) + Occurrences(sheet, s)
      BY <1>3, <2>2, OccurrencesConcat
    <3>3. Occurrences(a.stylesheet, s) = 0
      BY <1>2, <2>4, OccurrencesEmpty
    <3> HIDE DEF sheet, a
    <3>4. QED BY <2>1, <2>3, <3>1, <3>2, <3>3
  <2>5. CASE ~full
    <3>1. a.global = c.global /\ a.stylesheet = sheet
      BY <1>2, <2>5
    <3> HIDE DEF sheet, a
    <3>2. QED BY <2>1, <2>3, <3>1
  <2>6. QED BY <2>4, <2>5
<1>8. QED BY <1>2, <1>6, <1>7

LEMMA CompiledStaysRight ==
  ASSUME NEW list \in Seq(SelectorRules), NEW n \in 0 .. Len(list), n < Len(list),
         NEW c \in CompileStates, CompiledRight(c, list, n)
  PROVE  CompiledRight(AddRule(c, list[n + 1]), list, n + 1)
<1> DEFINE rule == list[n + 1]
           a == AddRule(c, rule)
<1>1. n \in Nat /\ rule \in SelectorRules
  OBVIOUS
<1>2. \A d, s : Asked(list, n + 1, d, s)
                  = Asked(list, n, d, s)
                      + (IF rule.selector = s /\ rule.domain = d THEN 1 ELSE 0)
  BY <1>1, AskedNext
<1>3. \A d, s : Asked(list, n, d, s) \in Nat
  BY <1>1, AskedType
<1> HIDE DEF rule
<1>4. CASE rule.selector = NoSelector
  <2>1. a = c
    BY <1>4 DEF AddRule
  <2>2. \A d, s : s \in Selectors => Asked(list, n + 1, d, s) = Asked(list, n, d, s)
    BY <1>2, <1>3, <1>4, StyleSheetConstants
  <2>3. QED
    BY <2>1, <2>2 DEF CompiledRight, GlobalRight, DomainRight, rule
<1>5. CASE rule.selector # NoSelector /\ rule.domain = NoHost
  <2> DEFINE t == rule.selector
  <2>1. t \in Selectors
    BY <1>1, <1>5 DEF SelectorRules
  <2>2. a = AddGlobal(c, t)
    BY <1>5 DEF AddRule
  <2>3. /\ SheetsFull(a)
        /\ a.domain = c.domain
        /\ \A s \in Selectors :
             Occurrences(FlattenSeq(a.global), s) + Occurrences(a.stylesheet, s)
               = Occurrences(FlattenSeq(c.global), s) + Occurrences(c.stylesheet, s)
                   + (IF t = s THEN 1 ELSE 0)
    BY <2>1, <2>2, AddGlobalRight DEF CompiledRight
  <2> HIDE DEF a
  <2>4. GlobalRight(a, list, n + 1)
    BY <1>2, <1>5, <2>3 DEF CompiledRight, GlobalRight
  <2>5. \A h \in HostNames : \A s : Asked(list, n + 1, h, s) = Asked(list, n, h, s)
    BY <1>2, <1>3, <1>5, StyleSheetConstants
  <2>6. DomainRight(a, list, n + 1)
    BY <2>3, <2>5 DEF CompiledRight, DomainRight
  <2>7. QED BY <2>3, <2>4, <2>6 DEF CompiledRight, a, rule
<1>6. CASE rule.selector # NoSelector /\ rule.domain # NoHost
  <2> DEFINE d == rule.domain
             t == rule.selector
             sheet == Append(c.domain[d], t)
  <2>1. t \in Selectors /\ d \in HostNames
    BY <1>1, <1>6 DEF SelectorRules
  <2>2. c.domain[d] \in Seq(Selectors)
    BY <2>1 DEF CompileStates
  <2>3. /\ a.global = c.global /\ a.stylesheet = c.stylesheet /\ a.num = c.num
        /\ a.domain = [c.domain EXCEPT ![d] = sheet]
    BY <1>6 DEF AddRule, CompileStates
  <2>4. \A h \in HostNames : a.domain[h] = IF h = d THEN sheet ELSE c.domain[h]
    BY <2>1, <2>3 DEF CompileStates
  <2>5. SheetsFull(a)
    BY <2>3 DEF CompiledRight, SheetsFull
  <2>6. \A s : Asked(list, n + 1, NoHost, s) = Asked(list, n, NoHost, s)
    BY <1>2, <1>3, <1>6
  <2>7. GlobalRight(a, list, n + 1)
    BY <2>3, <2>6 DEF CompiledRight, GlobalRight
  <2>8. \A s : Occurrences(sheet, s) = Occurrences(c.domain[d], s) + (IF t = s THEN 1 ELSE 0)
    BY <2>1, <2>2, OccurrencesAppend
  <2> HIDE DEF a, sheet, d, t
  <2>9. ASSUME NEW h \in HostNames, NEW s \in Selectors
        PROVE  Occurrences(a.domain[h], s) = Asked(list, n + 1, h, s)
    <3>1. Occurrences(c.domain[h], s) = Asked(list, n, h, s)
      BY DEF CompiledRight, DomainRight
    <3>2. CASE h = d
      BY <1>2, <2>1, <2>4, <2>8, <3>1, <3>2 DEF d, t
    <3>3. CASE h # d
      <4>1. Asked(list, n + 1, h, s) = Asked(list, n, h, s)
        BY <1>2, <1>3, <3>3 DEF d
      <4>2. QED BY <2>4, <3>1, <3>3, <4>1
    <3>4. QED BY <3>2, <3>3
  <2>10. DomainRight(a, list, n + 1)
    BY <2>9 DEF DomainRight
  <2>11. QED BY <2>5, <2>7, <2>10 DEF CompiledRight, a, rule
<1>7. QED BY <1>4, <1>5, <1>6

LEMMA CompiledIsRight ==
  ASSUME NEW list \in Seq(SelectorRules)
  PROVE  LET c == Compiled(list)[Len(list)]
         IN  c \in CompileStates /\ CompiledRight(c, list, Len(list))
<1> DEFINE N == Len(list)
           c == Compiled(list)
           G == {n \in 0 .. N : CompiledRight(c[n], list, n)}
<1>1. /\ c \in [0 .. N -> CompileStates]
      /\ c[0] = NoSheets
      /\ \A n \in 1 .. N : c[n] = AddRule(c[n - 1], list[n])
  BY CompiledSteps
<1>2. N \in Nat
  OBVIOUS
<1> HIDE DEF c
<1>3. 0 \in G
  BY <1>1, <1>2, NoSheetsRight
<1>4. ASSUME NEW n \in 0 .. N, n \in G, n < N PROVE n + 1 \in G
  <2>1. n + 1 \in 1 .. N /\ (n + 1) - 1 = n
    BY <1>2, <1>4
  <2>2. c[n + 1] = AddRule(c[n], list[n + 1]) /\ c[n] \in CompileStates
    BY <1>1, <2>1
  <2>3. CompiledRight(AddRule(c[n], list[n + 1]), list, n + 1)
    BY <1>4, <2>2, CompiledStaysRight
  <2>4. QED BY <1>2, <2>1, <2>2, <2>3
<1>5. 0 .. N \subseteq G
  <2> HIDE DEF G
  <2>1. QED BY <1>2, <1>3, <1>4, PrefixInduction
<1>6. QED BY <1>1, <1>2, <1>5 DEF c

-----------------------------------------------------------------------------
(* The sheet of a host and its parent domains *)

\* The sheets of the first n steps of the walk, and the rules for them.
Walked(blocks, h, n) == [i \in 1 .. n |-> blocks[Suffix(h, i)]]
RulesWalked(list, h, n, s) ==
  {j \in DOMAIN list : list[j].selector = s /\ \E i \in 1 .. n : list[j].domain = Suffix(h, i)}

LEMMA SuffixesDiffer ==
  ASSUME NEW h \in HostNames
  PROVE  \A i, j \in WalkSteps(h) : Suffix(h, i) = Suffix(h, j) => i = j
<1>1. h \in Seq(STRING)
  BY UrlConstants
<1>2. ASSUME NEW i \in WalkSteps(h) PROVE Len(Suffix(h, i)) = Len(h) - i + 1 /\ i \in Int
  BY <1>1 DEF Suffix, WalkSteps
<1>3. Len(h) \in Nat
  BY <1>1
<1>4. QED BY <1>2, <1>3

LEMMA WalkedOccurrences ==
  ASSUME NEW list \in Seq(SelectorRules), NEW h \in HostNames, NEW s \in Selectors,
         NEW blocks \in [HostNames -> Seq(Selectors)],
         \A d \in HostNames : Occurrences(blocks[d], s) = Asked(list, Len(list), d, s),
         NEW N \in Nat, 1 .. N \subseteq WalkSteps(h)
  PROVE  /\ Walked(blocks, h, N) \in Seq(Seq(Selectors))
         /\ IsFiniteSet(RulesWalked(list, h, N, s))
         /\ Occurrences(FlattenSeq(Walked(blocks, h, N)), s)
              = Cardinality(RulesWalked(list, h, N, s))
<1> DEFINE M == Len(list)
           W(n) == Walked(blocks, h, n)
           R(n) == RulesWalked(list, h, n, s)
           Right(n) == /\ W(n) \in Seq(Seq(Selectors))
                       /\ IsFiniteSet(R(n))
                       /\ Occurrences(FlattenSeq(W(n)), s) = Cardinality(R(n))
           G == {n \in 0 .. N : Right(n)}
<1>1. M \in Nat /\ DOMAIN list = 1 .. M
  OBVIOUS
<1>2. \A i \in 1 .. N : Suffix(h, i) \in HostNames /\ blocks[Suffix(h, i)] \in Seq(Selectors)
  BY UrlConstants
<1>3. 0 \in G
  <2>1. W(0) = <<>>
    BY DEF Walked
  <2>2. R(0) = {}
    BY DEF RulesWalked
  <2>3. <<>> \in Seq(Seq(Selectors))
    OBVIOUS
  <2>4. Right(0)
    BY <2>1, <2>2, <2>3, FlattenEmpty, OccurrencesEmpty, FS_EmptySet
  <2> HIDE DEF Right
  <2>5. QED BY <2>4
<1>4. ASSUME NEW n \in 0 .. N, n \in G, n < N PROVE n + 1 \in G
  <2> DEFINE d == Suffix(h, n + 1)
             A == RulesOf(list, M, d, s)
  <2>1. n \in Nat /\ n + 1 \in 1 .. N /\ Right(n)
    BY <1>4
  <2>2. d \in HostNames /\ blocks[d] \in Seq(Selectors)
    BY <1>2, <2>1
  <2>3. W(n + 1) = Append(W(n), blocks[d])
    <3>1. Len(W(n)) = n /\ DOMAIN W(n) = 1 .. n /\ W(n) \in Seq(Seq(Selectors))
      BY <2>1 DEF Walked
    <3>2. \A i \in 1 .. n : W(n)[i] = blocks[Suffix(h, i)]
      BY DEF Walked
    <3> DEFINE w == W(n)
               v == W(n + 1)
               e == blocks[d]
    <3>3. v = [i \in 1 .. n + 1 |-> IF i = n + 1 THEN e ELSE w[i]]
      <4>1. ASSUME NEW i \in 1 .. n + 1
            PROVE  blocks[Suffix(h, i)] = IF i = n + 1 THEN e ELSE w[i]
        <5>1. i # n + 1 => i \in 1 .. n
          BY <2>1
        <5>2. QED BY <3>2, <5>1
      <4> HIDE DEF w, e
      <4>2. QED BY <4>1 DEF Walked
    <3>4. Append(w, e) = [i \in 1 .. n + 1 |-> IF i = n + 1 THEN e ELSE w[i]]
      <4> HIDE DEF w, e
      <4>1. QED BY <2>1, <2>2, <3>1 DEF w, e
    <3>5. QED BY <3>3, <3>4
  <2>4. R(n + 1) = R(n) \cup A
    BY <1>1, <2>1 DEF RulesWalked, RulesOf
  <2>5. R(n) \cap A = {}
    <3>1. \A i \in 1 .. n : Suffix(h, i) # d
      <4>1. \A i \in 1 .. n : i \in WalkSteps(h) /\ i # n + 1
        BY <2>1
      <4>2. n + 1 \in WalkSteps(h)
        BY <2>1
      <4>3. QED BY <4>1, <4>2, SuffixesDiffer
    <3> HIDE DEF d
    <3>2. QED BY <3>1 DEF RulesWalked, RulesOf
  <2>6. IsFiniteSet(A) /\ Cardinality(A) \in Nat /\ Occurrences(blocks[d], s) = Cardinality(A)
    BY <1>1, <2>2, AskedType DEF Asked
  <2>7. IsFiniteSet(R(n + 1)) /\ Cardinality(R(n + 1)) = Cardinality(R(n)) + Cardinality(A)
    <3> DEFINE r == R(n)
    <3>1. IsFiniteSet(r) /\ Cardinality(r) \in Nat
      BY <2>1, FS_CardinalityType
    <3> HIDE DEF r, A
    <3>2. /\ IsFiniteSet(r \cup A)
          /\ Cardinality(r \cup A) = Cardinality(r) + Cardinality(A) - Cardinality({})
      BY <2>5, <2>6, <3>1, FS_Union DEF r
    <3>3. Cardinality({}) = 0 /\ R(n + 1) = r \cup A
      BY <2>4, FS_EmptySet DEF r
    <3> DEFINE c == Cardinality({})
    <3>4. c = 0
      BY <3>3
    <3> HIDE DEF c
    <3>5. Cardinality(r \cup A) = Cardinality(r) + Cardinality(A) - c
      BY <3>2 DEF c
    <3>6. Cardinality(r \cup A) = Cardinality(r) + Cardinality(A)
      BY <2>6, <3>1, <3>4, <3>5
    <3> HIDE DEF R
    <3>7. QED BY <3>2, <3>3, <3>6 DEF r
  <2>8. W(n + 1) \in Seq(Seq(Selectors))
    <3>1. W(n) \in Seq(Seq(Selectors))
      BY <2>1
    <3>2. \A w \in Seq(Seq(Selectors)), e \in Seq(Selectors) :
             Append(w, e) \in Seq(Seq(Selectors))
      OBVIOUS
    <3> HIDE DEF W, d
    <3>3. QED BY <2>2, <2>3, <3>1, <3>2
  <2>9. FlattenSeq(W(n + 1)) = FlattenSeq(W(n)) \o blocks[d]
    BY <2>1, <2>2, <2>3, FlattenAppend
  <2>10. Occurrences(FlattenSeq(W(n)) \o blocks[d], s)
           = Occurrences(FlattenSeq(W(n)), s) + Occurrences(blocks[d], s)
    <3>1. FlattenSeq(W(n)) \in Seq(Selectors)
      BY <2>1, FlattenType
    <3>2. QED BY <2>2, <3>1, OccurrencesConcat
  <2>11. Right(n + 1)
    <3> HIDE DEF W, R, d, A
    <3>1. QED BY <2>1, <2>6, <2>7, <2>8, <2>9, <2>10
  <2> HIDE DEF Right
  <2>12. QED BY <2>1, <2>11
<1>5. 0 .. N \subseteq G
  <2> HIDE DEF G
  <2>1. QED BY <1>3, <1>4, PrefixInduction
<1>6. Right(N)
  <2> HIDE DEF Right
  <2>1. QED BY <1>5
<1>7. QED BY <1>6

\* A document gets the sheet of a domain of two labels or more exactly when it is its
\* host or a parent domain of it.
LEMMA WalkIsParents ==
  ASSUME NEW h \in HostNames, NEW d \in HostNames
  PROVE  Len(d) > 1 /\ IsDomainOf(d, h) <=> \E i \in WalkSteps(h) : d = Suffix(h, i)
<1>1. h \in Seq(STRING) /\ d \in Seq(STRING) /\ Len(h) \in Nat /\ Len(d) \in Nat
  BY UrlConstants
<1>2. ASSUME Len(d) > 1, IsDomainOf(d, h) PROVE \E i \in WalkSteps(h) : d = Suffix(h, i)
  <2> DEFINE i == Len(h) - Len(d) + 1
  <2>1. Len(d) <= Len(h) /\ Suffix(h, i) = d
    BY <1>2 DEF IsDomainOf, Suffix
  <2>2. i \in WalkSteps(h)
    BY <1>1, <1>2, <2>1 DEF WalkSteps
  <2>3. QED BY <2>1, <2>2
<1>3. ASSUME NEW i \in WalkSteps(h), d = Suffix(h, i) PROVE Len(d) > 1 /\ IsDomainOf(d, h)
  <2>1. i \in Nat /\ 1 <= i /\ i < Len(h)
    BY <1>1 DEF WalkSteps
  <2>2. Len(d) = Len(h) - i + 1
    BY <1>1, <1>3, <2>1 DEF Suffix
  <2>3. Len(h) - Len(d) + 1 = i
    BY <1>1, <2>1, <2>2
  <2>4. QED BY <1>1, <1>3, <2>1, <2>2, <2>3 DEF IsDomainOf, Suffix
<1>4. QED BY <1>2, <1>3

LEMMA DomainSheetOccurrences ==
  ASSUME NEW list \in Seq(SelectorRules), NEW h \in HostNames,
         NEW blocks \in [HostNames -> Seq(Selectors)],
         \A d \in HostNames, s \in Selectors :
           Occurrences(blocks[d], s) = Asked(list, Len(list), d, s)
  PROVE  /\ DomainSheet(blocks, h) \in Seq(Selectors)
         /\ \A s \in Selectors :
              LET rules_ == {j \in DOMAIN list :
                               /\ list[j].selector = s
                               /\ list[j].domain # NoHost
                               /\ Len(list[j].domain) > 1 /\ IsDomainOf(list[j].domain, h)}
              IN  /\ IsFiniteSet(rules_)
                  /\ Occurrences(DomainSheet(blocks, h), s) = Cardinality(rules_)
<1>1. PICK N \in Nat : WalkSteps(h) = 1 .. N
  <2>1. Len(h) \in Nat
    BY UrlConstants
  <2>2. CASE Len(h) = 0
    <3>1. WalkSteps(h) = 1 .. 0
      BY <2>2 DEF WalkSteps
    <3>2. QED BY <3>1
  <2>3. CASE Len(h) # 0
    <3>1. Len(h) - 1 \in Nat
      BY <2>1, <2>3
    <3>2. QED BY <3>1 DEF WalkSteps
  <2>4. QED BY <2>2, <2>3
<1>2. DomainSheet(blocks, h) = FlattenSeq(Walked(blocks, h, N))
  BY <1>1 DEF DomainSheet, Walked
<1>3. ASSUME NEW s \in Selectors
      PROVE  /\ Walked(blocks, h, N) \in Seq(Seq(Selectors))
             /\ IsFiniteSet(RulesWalked(list, h, N, s))
             /\ Occurrences(FlattenSeq(Walked(blocks, h, N)), s)
                  = Cardinality(RulesWalked(list, h, N, s))
  BY <1>1, WalkedOccurrences
<1>4. Walked(blocks, h, N) \in Seq(Seq(Selectors))
  <2>1. \A i \in 1 .. N : Suffix(h, i) \in HostNames
    BY <1>1, UrlConstants
  <2>2. QED BY <2>1 DEF Walked
<1>5. ASSUME NEW s \in Selectors
      PROVE  RulesWalked(list, h, N, s) = {j \in DOMAIN list :
               /\ list[j].selector = s
               /\ list[j].domain # NoHost
               /\ Len(list[j].domain) > 1 /\ IsDomainOf(list[j].domain, h)}
  <2>1. \A j \in DOMAIN list : list[j].domain \in HostNames \cup {NoHost}
    <3>1. \A j \in DOMAIN list : list[j] \in SelectorRules
      OBVIOUS
    <3>2. QED BY <3>1 DEF SelectorRules
  <2>2. \A d \in HostNames : Len(d) > 1 /\ IsDomainOf(d, h) <=> \E i \in 1 .. N : d = Suffix(h, i)
    BY <1>1, WalkIsParents
  <2>3. \A i \in 1 .. N : Suffix(h, i) # NoHost
    BY <1>1, UrlConstants, StyleSheetConstants
  <2>4. QED BY <2>1, <2>2, <2>3 DEF RulesWalked
<1>6. DomainSheet(blocks, h) \in Seq(Selectors)
  BY <1>2, <1>4, FlattenType
<1>7. QED BY <1>2, <1>3, <1>5, <1>6

\* The blocks closed by the end of the list, for every document.
LEMMA GlobalSheets ==
  ASSUME NEW list \in Seq(SelectorRules)
  PROVE  LET blocks == UpdateRulesForRenderProcess(list).global_stylesheets
         IN  /\ blocks \in Seq(Seq(Selectors))
             /\ \A i \in DOMAIN blocks : Len(blocks[i]) \in 1 .. MaxSelectorsPerStylesheet
             /\ \A s \in Selectors :
                  Occurrences(FlattenSeq(blocks), s) = Asked(list, Len(list), NoHost, s)
<1> DEFINE N == Len(list)
           m == MaxSelectorsPerStylesheet
           c == Compiled(list)[N]
           blocks == UpdateRulesForRenderProcess(list).global_stylesheets
<1>1. c \in CompileStates /\ CompiledRight(c, list, N)
  BY CompiledIsRight
<1>2. blocks = IF c.stylesheet = <<>> THEN c.global ELSE Append(c.global, c.stylesheet)
  BY DEF UpdateRulesForRenderProcess
<1> HIDE DEF c, blocks
<1>3. /\ c.global \in Seq(Seq(Selectors)) /\ c.stylesheet \in Seq(Selectors)
      /\ c.num \in Nat /\ m \in Nat \ {0}
  BY <1>1, StyleSheetConstants DEF CompileStates
<1>4. Len(c.stylesheet) = c.num % m /\ \A i \in DOMAIN c.global : Len(c.global[i]) = m
  BY <1>1 DEF CompiledRight, SheetsFull
<1>5. c.num % m \in 0 .. m - 1
  BY <1>3, NextRemainder
<1>6. \A s \in Selectors :
        Occurrences(FlattenSeq(c.global), s) + Occurrences(c.stylesheet, s)
          = Asked(list, N, NoHost, s)
  BY <1>1 DEF CompiledRight, GlobalRight
<1>7. FlattenSeq(c.global) \in Seq(Selectors)
  BY <1>3, FlattenType
<1>8. \A s : Occurrences(FlattenSeq(c.global), s) \in Nat /\ Occurrences(c.stylesheet, s) \in Nat
  BY <1>3, <1>7, OccurrencesType
<1>9. CASE c.stylesheet = <<>>
  <2>1. blocks = c.global
    BY <1>2, <1>9
  <2>2. \A s : Occurrences(c.stylesheet, s) = 0
    BY <1>9, OccurrencesEmpty
  <2>3. ASSUME NEW s \in Selectors
        PROVE  Occurrences(FlattenSeq(c.global), s) = Asked(list, N, NoHost, s)
    <3>1. Occurrences(FlattenSeq(c.global), s) + 0 = Asked(list, N, NoHost, s)
      BY <1>6, <2>2
    <3>2. QED BY <1>8, <3>1
  <2>4. m \in 1 .. m
    BY <1>3
  <2>5. QED BY <1>3, <1>4, <2>1, <2>3, <2>4 DEF blocks
<1>10. CASE c.stylesheet # <<>>
  <2>1. blocks = Append(c.global, c.stylesheet)
    BY <1>2, <1>10
  <2>2. FlattenSeq(blocks) = FlattenSeq(c.global) \o c.stylesheet
    BY <1>3, <2>1, FlattenAppend
  <2>3. ASSUME NEW s \in Selectors
        PROVE  Occurrences(FlattenSeq(blocks), s) = Asked(list, N, NoHost, s)
    <3>1. Occurrences(FlattenSeq(c.global) \o c.stylesheet, s)
            = Occurrences(FlattenSeq(c.global), s) + Occurrences(c.stylesheet, s)
      BY <1>3, <1>7, OccurrencesConcat
    <3>2. QED BY <1>6, <2>2, <3>1
  <2>4. Len(c.stylesheet) \in 1 .. m /\ m \in 1 .. m
    BY <1>3, <1>4, <1>5, <1>10
  <2>5. ASSUME NEW i \in DOMAIN blocks PROVE Len(blocks[i]) \in 1 .. m
    <3> DEFINE n == Len(c.global)
    <3>1. /\ n \in Nat /\ DOMAIN c.global = 1 .. n /\ DOMAIN blocks = 1 .. n + 1
          /\ \A j \in 1 .. n : blocks[j] = c.global[j]
          /\ blocks[n + 1] = c.stylesheet
      BY <1>3, <2>1, AppendIndex
    <3> HIDE DEF n, m
    <3>2. i \in 1 .. n \/ i = n + 1
      BY <3>1
    <3>3. QED BY <1>4, <2>4, <3>1, <3>2
  <2>6. QED BY <1>3, <2>1, <2>3, <2>5 DEF blocks
<1>11. QED BY <1>9, <1>10

LEMMA DomainSheets ==
  ASSUME NEW list \in Seq(SelectorRules)
  PROVE  LET blocks == UpdateRulesForRenderProcess(list).domain_stylesheets
         IN  /\ blocks \in [HostNames -> Seq(Selectors)]
             /\ \A d \in HostNames, s \in Selectors :
                  Occurrences(blocks[d], s) = Asked(list, Len(list), d, s)
<1> DEFINE c == Compiled(list)[Len(list)]
<1>1. c \in CompileStates /\ CompiledRight(c, list, Len(list))
  BY CompiledIsRight
<1>2. UpdateRulesForRenderProcess(list).domain_stylesheets = c.domain
  BY DEF UpdateRulesForRenderProcess
<1> HIDE DEF c
<1>3. QED BY <1>1, <1>2 DEF CompiledRight, DomainRight, CompileStates

\* What InjectStyleSheets adds to a document, for any rule list and any host: every
\* selector exactly once for each rule that asks for it, global or of the host and its
\* parent domains, whatever the order of the rules, and no sheet but the last one, that
\* of the domains, beyond the engine's limit.
THEOREM InjectionFollowsRules ==
  ASSUME NEW list \in Seq(SelectorRules), NEW h \in HostNames
  PROVE  LET blocks == InjectStyleSheets(UpdateRulesForRenderProcess(list), h)
         IN  blocks \in Seq(Seq(Selectors)) /\ SheetsFollowRules(blocks, list, h)
<1> DEFINE b == UpdateRulesForRenderProcess(list)
           g == b.global_stylesheets
           d == DomainSheet(b.domain_stylesheets, h)
           blocks == InjectStyleSheets(b, h)
           Global(s) == RulesOf(list, Len(list), NoHost, s)
           Domain(s) == {j \in DOMAIN list :
                           /\ list[j].selector = s
                           /\ list[j].domain # NoHost
                           /\ Len(list[j].domain) > 1 /\ IsDomainOf(list[j].domain, h)}
<1>1. /\ g \in Seq(Seq(Selectors))
      /\ \A i \in DOMAIN g : Len(g[i]) \in 1 .. MaxSelectorsPerStylesheet
      /\ \A s \in Selectors : Occurrences(FlattenSeq(g), s) = Cardinality(Global(s))
  BY GlobalSheets DEF Asked
<1>2. /\ d \in Seq(Selectors)
      /\ \A s \in Selectors :
           IsFiniteSet(Domain(s)) /\ Occurrences(d, s) = Cardinality(Domain(s))
  BY DomainSheets, DomainSheetOccurrences
<1>3. blocks = IF d = <<>> THEN g ELSE Append(g, d)
  BY DEF InjectStyleSheets
<1>4. \A s : IsFiniteSet(Global(s))
  <2>1. Len(list) \in Nat
    OBVIOUS
  <2>2. QED BY <2>1, AskedType
<1>5. ASSUME NEW s \in Selectors
      PROVE  {i \in RulesFor(list, h) : list[i].selector = s} = Global(s) \cup Domain(s)
  <2>1. s # NoSelector
    BY StyleSheetConstants
  <2>2. DOMAIN list = 1 .. Len(list)
    OBVIOUS
  <2>3. QED BY <2>1, <2>2 DEF RulesFor, RulesOf
<1>6. \A s : Global(s) \cap Domain(s) = {}
  BY DEF RulesOf
<1> HIDE DEF b, g, d, blocks, Global, Domain
<1>7. blocks \in Seq(Seq(Selectors))
  BY <1>1, <1>2, <1>3
<1>8. ASSUME NEW s \in Selectors
      PROVE  Occurrences(FlattenSeq(blocks), s)
               = Cardinality({i \in RulesFor(list, h) : list[i].selector = s})
  <2> DEFINE G == Global(s)
             D == Domain(s)
             f == FlattenSeq(g)
  <2>1. IsFiniteSet(G) /\ IsFiniteSet(D) /\ G \cap D = {}
    BY <1>2, <1>4, <1>6
  <2>2. Occurrences(f, s) = Cardinality(G) /\ Occurrences(d, s) = Cardinality(D)
    BY <1>1, <1>2
  <2>3. f \in Seq(Selectors)
    BY <1>1, FlattenType
  <2> HIDE DEF G, D, f
  <2>4. Cardinality(G) \in Nat /\ Cardinality(D) \in Nat
    BY <2>1, FS_CardinalityType
  <2>5. Cardinality(G \cup D) = Cardinality(G) + Cardinality(D)
    <3>1. Cardinality(G \cup D) = Cardinality(G) + Cardinality(D) - Cardinality(G \cap D)
      BY <2>1, FS_Union
    <3>2. Cardinality(G \cap D) = 0
      BY <2>1, FS_EmptySet
    <3>3. QED BY <2>4, <3>1, <3>2
  <2>6. Occurrences(FlattenSeq(blocks), s) = Occurrences(f, s) + Occurrences(d, s)
    <3>1. CASE d = <<>>
      <4>1. Occurrences(d, s) = 0
        BY <3>1, OccurrencesEmpty
      <4>2. FlattenSeq(blocks) = f
        BY <1>3, <3>1 DEF f
      <4>3. QED BY <2>2, <2>4, <4>1, <4>2
    <3>2. CASE d # <<>>
      <4>1. FlattenSeq(blocks) = f \o d
        BY <1>1, <1>2, <1>3, <3>2, FlattenAppend DEF f
      <4>2. QED BY <1>2, <2>3, <4>1, OccurrencesConcat
    <3>3. QED BY <3>1, <3>2
  <2>7. {i \in RulesFor(list, h) : list[i].selector = s} = G \cup D
    BY <1>5 DEF G, D
  <2>8. QED BY <2>2, <2>5, <2>6, <2>7
<1>9. \A i \in 1 .. (Len(blocks) - 1) : Len(blocks[i]) \in 1 .. MaxSelectorsPerStylesheet
  <2>1. CASE d = <<>>
    BY <1>1, <1>3, <2>1
  <2>2. CASE d # <<>>
    <3>1. Len(blocks) - 1 = Len(g) /\ \A i \in 1 .. Len(g) : blocks[i] = g[i]
      BY <1>1, <1>2, <1>3, <2>2
    <3>2. DOMAIN g = 1 .. Len(g)
      BY <1>1
    <3>3. \A i \in 1 .. Len(g) : Len(blocks[i]) \in 1 .. MaxSelectorsPerStylesheet
      BY <1>1, <3>1, <3>2
    <3>4. QED BY <3>1, <3>3
  <2>3. QED BY <2>1, <2>2
<1>10. SheetsFollowRules(blocks, list, h)
  BY <1>8, <1>9 DEF SheetsFollowRules, Occurrences, Places
<1>11. QED BY <1>7, <1>10 DEF blocks, b

-----------------------------------------------------------------------------
(***************************************************************************)
(* The tab.  Every order to inject answers the message of one document's   *)
(* element; the UI thread hears of a commit before anything of a document; *)
(* and the icon remembered is the committed document's, but while Java is  *)
(* being told of a new one.                                                *)
(***************************************************************************)

DocumentElement == [type |-> "DocumentElement"]

OrdersBounded ==
  toRenderer + Occurrences(toBrowser, DocumentElement)
    <= loaded - (IF current # 0 /\ ~element THEN 1 ELSE 0)

CommitsLoaded ==
  \A i \in DOMAIN toBrowser : toBrowser[i].type = "Commit" => toBrowser[i].doc <= loaded

CommitFirst ==
  committed = 0 => \/ toBrowser = <<>> /\ current = 0
                   \/ toBrowser # <<>> /\ Head(toBrowser).type = "Commit"

NothingInjectedAhead == \A d \in Docs : d > loaded => sheets[d] = <<>>

CandidateOfCommitted ==
  favicon_candidate_ # NoIcon /\ ~notifying => favicon_candidate_.doc = committed

PageInv ==
  /\ TypeOK
  /\ OrdersBounded
  /\ CommitsLoaded
  /\ CommitFirst
  /\ NothingInjectedAhead
  /\ SheetsAreRules
  /\ CandidateOfCommitted
  /\ FaviconOfSite
  /\ TouchIconPreferred

LEMMA MessageTypes ==
  ASSUME NEW m \in Messages
  PROVE  /\ m.type = "Commit" => m.doc \in Docs
         /\ m.type = "DocumentElement" => m = DocumentElement
         /\ m.type = "FaviconURL" => m.icons \in IconLists
BY DEF Messages, DocumentElement

LEMMA MessagesSent ==
  /\ \A d \in Docs : [type |-> "Commit", doc |-> d] \in Messages
  /\ DocumentElement \in Messages
  /\ \A icons \in IconLists : [type |-> "FaviconURL", icons |-> icons] \in Messages
BY DEF Messages, DocumentElement

LEMMA DocsFacts ==
  MaxDocs \in Nat /\ \A d \in Docs : d \in Nat /\ d # 0
BY PageConstants DEF Docs

\* A message goes to the end of the channel...
LEMMA SentMessage ==
  ASSUME PageInv, NEW m \in Messages, toBrowser' = Append(toBrowser, m)
  PROVE  /\ toBrowser' \in Seq(Messages)
         /\ toBrowser' # <<>>
         /\ toBrowser # <<>> => Head(toBrowser') = Head(toBrowser)
         /\ toBrowser = <<>> => Head(toBrowser') = m
         /\ Occurrences(toBrowser, DocumentElement) \in Nat
         /\ Occurrences(toBrowser', DocumentElement)
              = Occurrences(toBrowser, DocumentElement) + (IF m = DocumentElement THEN 1 ELSE 0)
         /\ \A n \in Int : n >= loaded /\ (m.type = "Commit" => m.doc <= n) =>
              \A i \in DOMAIN toBrowser' : toBrowser'[i].type = "Commit" => toBrowser'[i].doc <= n
<1>1. toBrowser \in Seq(Messages) /\ loaded \in Nat
  BY PageConstants DEF PageInv, TypeOK
<1>2. /\ Append(toBrowser, m) \in Seq(Messages)
      /\ Len(toBrowser) \in Nat
      /\ DOMAIN Append(toBrowser, m) = 1 .. Len(toBrowser) + 1
      /\ DOMAIN toBrowser = 1 .. Len(toBrowser)
      /\ \A i \in 1 .. Len(toBrowser) : Append(toBrowser, m)[i] = toBrowser[i]
      /\ Append(toBrowser, m)[Len(toBrowser) + 1] = m
  BY <1>1, AppendIndex
<1>3. Occurrences(toBrowser, DocumentElement) \in Nat
  BY <1>1, OccurrencesType
<1>4. Occurrences(toBrowser', DocumentElement)
        = Occurrences(toBrowser, DocumentElement) + (IF m = DocumentElement THEN 1 ELSE 0)
  BY <1>1, OccurrencesAppend
<1>5. ASSUME NEW n \in Int, n >= loaded, m.type = "Commit" => m.doc <= n,
             NEW i \in DOMAIN toBrowser', toBrowser'[i].type = "Commit"
      PROVE  toBrowser'[i].doc <= n
  <2>1. CASE i = Len(toBrowser) + 1
    BY <1>2, <1>5, <2>1
  <2>2. CASE i # Len(toBrowser) + 1
    <3>1. i \in DOMAIN toBrowser /\ toBrowser'[i] = toBrowser[i]
      BY <1>2, <2>2
    <3>2. toBrowser[i] \in Messages
      BY <1>1, <3>1
    <3>3. toBrowser[i].doc \in Nat /\ toBrowser[i].doc <= loaded
      BY <1>5, <3>1, <3>2, MessageTypes, DocsFacts DEF PageInv, CommitsLoaded
    <3>4. QED BY <1>1, <1>5, <3>1, <3>3
  <2>3. QED BY <2>1, <2>2
<1>6. /\ toBrowser' # <<>>
      /\ toBrowser # <<>> => Head(toBrowser') = Head(toBrowser)
      /\ toBrowser = <<>> => Head(toBrowser') = m
  BY <1>1
<1>7. QED BY <1>2, <1>3, <1>4, <1>5, <1>6

\* ... and leaves it at the front.
LEMMA ReceivedMessage ==
  ASSUME PageInv, NEW type, Receive(type)
  PROVE  LET m == Head(toBrowser)
         IN  /\ m \in Messages /\ m.type = type
             /\ type = "Commit" => m.doc \in Docs /\ m.doc <= loaded
             /\ toBrowser' \in Seq(Messages)
             /\ Occurrences(toBrowser', DocumentElement) \in Nat
             /\ Occurrences(toBrowser, DocumentElement)
                  = Occurrences(toBrowser', DocumentElement)
                      + (IF m = DocumentElement THEN 1 ELSE 0)
             /\ \A i \in DOMAIN toBrowser' :
                  toBrowser'[i].type = "Commit" => toBrowser'[i].doc <= loaded
<1> DEFINE m == Head(toBrowser)
           t == Tail(toBrowser)
<1>1. toBrowser \in Seq(Messages) /\ toBrowser # <<>> /\ toBrowser' = t /\ m.type = type
  BY DEF PageInv, TypeOK, Receive
<1>2. /\ m \in Messages /\ m = toBrowser[1] /\ 1 \in DOMAIN toBrowser
      /\ t \in Seq(Messages) /\ <<m>> \in Seq(Messages)
      /\ DOMAIN t = 1 .. Len(toBrowser) - 1 /\ DOMAIN toBrowser = 1 .. Len(toBrowser)
      /\ Len(toBrowser) \in Nat
      /\ \A i \in 1 .. Len(toBrowser) - 1 : t[i] = toBrowser[i + 1]
      /\ toBrowser = <<m>> \o t
  BY <1>1
<1> HIDE DEF m, t
<1>3. type = "Commit" => m.doc \in Docs /\ m.doc <= loaded
  BY <1>1, <1>2, MessageTypes DEF PageInv, CommitsLoaded
<1>4. Occurrences(t, DocumentElement) \in Nat
  BY <1>2, OccurrencesType
<1>5. Occurrences(toBrowser, DocumentElement)
        = Occurrences(t, DocumentElement) + (IF m = DocumentElement THEN 1 ELSE 0)
  <2>1. Occurrences(<<m>> \o t, DocumentElement)
          = Occurrences(<<m>>, DocumentElement) + Occurrences(t, DocumentElement)
    BY <1>2, OccurrencesConcat
  <2>2. Places(<<m>>, DocumentElement) = IF m = DocumentElement THEN {1} ELSE {}
    BY DEF Places
  <2>3. Occurrences(<<m>>, DocumentElement) = IF m = DocumentElement THEN 1 ELSE 0
    BY <2>2, FS_EmptySet, FS_Singleton DEF Occurrences
  <2>4. QED BY <1>2, <1>4, <2>1, <2>3
<1>6. ASSUME NEW i \in DOMAIN t, t[i].type = "Commit" PROVE t[i].doc <= loaded
  <2>1. i + 1 \in DOMAIN toBrowser /\ t[i] = toBrowser[i + 1]
    BY <1>2
  <2>2. QED BY <1>6, <2>1 DEF PageInv, CommitsLoaded
<1>7. QED BY <1>1, <1>2, <1>3, <1>4, <1>5, <1>6 DEF m

-----------------------------------------------------------------------------
(* The sheets of a rule file and a page are those its rules ask for. *)

LEMMA SheetsRight ==
  ASSUME NEW list \in RuleLists, NEW u \in Urls
  PROVE  /\ Sheets[list][u] \in Seq(Seq(Selectors))
         /\ SheetsFollowRules(Sheets[list][u], list, u.host)
<1>1. list \in Seq(SelectorRules) /\ u.host \in HostNames
  BY PageConstants, UrlConstants
<1>2. Sheets[list][u] = InjectStyleSheets(UpdateRulesForRenderProcess(list), u.host)
  BY DEF Sheets
<1>3. QED BY <1>1, <1>2, InjectionFollowsRules

\* What every step that leaves the documents alone preserves.
LEMMA SheetsUndisturbed ==
  ASSUME PageInv, UNCHANGED <<rules, url, loaded, current, sheets>>
  PROVE  SheetsAreRules' /\ NothingInjectedAhead'
BY DEF PageInv, SheetsAreRules, NothingInjectedAhead

\* What every step that leaves the icons alone preserves.
LEMMA IconsUndisturbed ==
  ASSUME PageInv, UNCHANGED <<url, uiVars>>
  PROVE  CandidateOfCommitted' /\ FaviconOfSite' /\ TouchIconPreferred'
BY DEF PageInv, CandidateOfCommitted, FaviconOfSite, TouchIconPreferred, uiVars

LEMMA PageInvInit == Init => PageInv
<1> SUFFICES ASSUME Init PROVE PageInv
  OBVIOUS
<1>1. MaxDocs \in Nat
  BY PageConstants
<1>2. TypeOK
  <2>1. sheets \in [Docs -> Seq(Seq(Seq(Selectors)))]
    BY DEF Init
  <2>2. 0 \in 0 .. MaxDocs /\ toBrowser \in Seq(Messages)
    BY <1>1 DEF Init
  <2>3. /\ inject_css \in BOOLEAN /\ whitelist \in Whitelists
        /\ {file_path_, rules} \subseteq RuleLists /\ url \in [Docs -> Urls]
    BY DEF Init
  <2>4. /\ loaded \in 0 .. MaxDocs /\ current \in {0, loaded}
        /\ toRenderer \in 0 .. MaxDocs /\ committed \in 0 .. loaded
    BY <1>1 DEF Init
  <2>5. /\ element \in BOOLEAN /\ notifying \in BOOLEAN /\ pending \in Urls \cup {NoUrl}
        /\ favicon_candidate_ \in Candidates \cup {NoIcon}
        /\ offered \in IconLists \cup {<<>>} /\ download \in Downloads \cup {NoDownload}
    BY DEF Init
  <2>6. QED BY <2>1, <2>2, <2>3, <2>4, <2>5 DEF TypeOK
<1>3. OrdersBounded
  BY OccurrencesEmpty DEF Init, OrdersBounded
<1>4. CommitsLoaded /\ CommitFirst
  BY DEF Init, CommitsLoaded, CommitFirst
<1>5. NothingInjectedAhead /\ SheetsAreRules
  BY DEF Init, NothingInjectedAhead, SheetsAreRules
<1>6. CandidateOfCommitted /\ FaviconOfSite /\ TouchIconPreferred
  BY DEF Init, CandidateOfCommitted, FaviconOfSite, TouchIconPreferred
<1>7. QED BY <1>2, <1>3, <1>4, <1>5, <1>6 DEF PageInv

-----------------------------------------------------------------------------
(* One lemma per action: the render process *)

LEMMA NavigateKeeps == ASSUME PageInv, Navigate PROVE PageInv'
<1> DEFINE m == [type |-> "Commit", doc |-> loaded + 1]
<1>1. TypeOK /\ loaded \in Nat /\ loaded < MaxDocs /\ MaxDocs \in Nat
  BY PageConstants DEF PageInv, TypeOK, Navigate
<1>2. /\ loaded' = loaded + 1 /\ current' = loaded + 1 /\ ~element'
      /\ toBrowser' = Append(toBrowser, m)
      /\ UNCHANGED <<settingVars, rules, url, sheets, toRenderer, uiVars>>
  BY DEF Navigate, Send
<1>3. loaded + 1 \in Docs /\ m \in Messages /\ m.type = "Commit" /\ m.doc = loaded + 1
      /\ m # DocumentElement
  BY <1>1, MessagesSent DEF Docs, DocumentElement
<1> HIDE DEF m
<1>4. /\ toBrowser' \in Seq(Messages)
      /\ toBrowser' # <<>>
      /\ toBrowser # <<>> => Head(toBrowser') = Head(toBrowser)
      /\ toBrowser = <<>> => Head(toBrowser') = m
      /\ Occurrences(toBrowser, DocumentElement) \in Nat
      /\ Occurrences(toBrowser', DocumentElement) = Occurrences(toBrowser, DocumentElement)
      /\ \A i \in DOMAIN toBrowser' :
           toBrowser'[i].type = "Commit" => toBrowser'[i].doc <= loaded + 1
  <2>1. loaded + 1 \in Int /\ loaded + 1 >= loaded /\ m.doc <= loaded + 1
    BY <1>1, <1>3
  <2>2. \A n \in Int : n >= loaded /\ (m.type = "Commit" => m.doc <= n) =>
          \A i \in DOMAIN toBrowser' : toBrowser'[i].type = "Commit" => toBrowser'[i].doc <= n
    BY <1>2, <1>3, SentMessage
  <2>3. /\ Occurrences(toBrowser, DocumentElement) \in Nat
        /\ Occurrences(toBrowser', DocumentElement)
             = Occurrences(toBrowser, DocumentElement) + (IF m = DocumentElement THEN 1 ELSE 0)
    BY <1>2, <1>3, SentMessage
  <2>4. Occurrences(toBrowser', DocumentElement) = Occurrences(toBrowser, DocumentElement)
    BY <1>3, <2>3
  <2>5. QED BY <1>2, <1>3, <2>1, <2>2, <2>3, <2>4, SentMessage
<1>5. TypeOK'
  <2>1. loaded' \in 0 .. MaxDocs /\ current' \in {0, loaded'} /\ committed' \in 0 .. loaded'
    BY <1>1, <1>2 DEF TypeOK, uiVars
  <2>2. element' \in BOOLEAN
    BY DEF Navigate
  <2>3. QED BY <1>1, <1>2, <1>4, <2>1, <2>2 DEF TypeOK, settingVars, uiVars
<1>6. OrdersBounded'
  <2>1. toRenderer \in Nat /\ toRenderer + Occurrences(toBrowser, DocumentElement) <= loaded
    BY <1>1, <1>4 DEF PageInv, OrdersBounded, TypeOK
  <2>2. QED BY <1>1, <1>2, <1>4, <2>1 DEF OrdersBounded
<1>7. CommitsLoaded'
  BY <1>2, <1>4 DEF CommitsLoaded
<1>8. CommitFirst'
  BY <1>2, <1>3, <1>4 DEF PageInv, CommitFirst, uiVars
<1>9. NothingInjectedAhead' /\ SheetsAreRules'
  <2>1. loaded + 1 > loaded /\ \A d \in Docs : d > loaded + 1 => d > loaded
    BY <1>1 DEF Docs
  <2>2. sheets[loaded + 1] = <<>>
    BY <1>3, <2>1 DEF PageInv, NothingInjectedAhead
  <2>3. QED BY <1>2, <2>1, <2>2 DEF PageInv, NothingInjectedAhead, SheetsAreRules
<1>10. CandidateOfCommitted' /\ FaviconOfSite' /\ TouchIconPreferred'
  BY <1>2, IconsUndisturbed
<1>11. QED BY <1>5, <1>6, <1>7, <1>8, <1>9, <1>10 DEF PageInv

LEMMA DidCreateDocumentElementKeeps ==
  ASSUME PageInv, DidCreateDocumentElement PROVE PageInv'
<1>1. TypeOK /\ loaded \in Nat /\ toRenderer \in Nat
  BY PageConstants DEF PageInv, TypeOK
<1>2. /\ toBrowser' = Append(toBrowser, DocumentElement)
      /\ current # 0 /\ ~element /\ element'
      /\ UNCHANGED <<settingVars, rules, url, loaded, current, sheets, toRenderer, uiVars>>
  BY DEF DidCreateDocumentElement, Send, DocumentElement
<1>3. DocumentElement \in Messages /\ DocumentElement.type # "Commit"
  BY MessagesSent DEF DocumentElement
<1>4. /\ toBrowser' \in Seq(Messages)
      /\ toBrowser' # <<>>
      /\ toBrowser # <<>> => Head(toBrowser') = Head(toBrowser)
      /\ Occurrences(toBrowser, DocumentElement) \in Nat
      /\ Occurrences(toBrowser', DocumentElement) = Occurrences(toBrowser, DocumentElement) + 1
      /\ \A i \in DOMAIN toBrowser' :
           toBrowser'[i].type = "Commit" => toBrowser'[i].doc <= loaded
  <2>1. \A n \in Int : n >= loaded => \A i \in DOMAIN toBrowser' :
          toBrowser'[i].type = "Commit" => toBrowser'[i].doc <= n
    BY <1>2, <1>3, SentMessage
  <2>2. loaded \in Int /\ loaded >= loaded
    BY <1>1
  <2>3. QED BY <1>2, <1>3, <2>1, <2>2, SentMessage
<1>5. TypeOK'
  <2>1. element' \in BOOLEAN
    BY DEF DidCreateDocumentElement
  <2>2. QED BY <1>1, <1>2, <1>4, <2>1 DEF TypeOK, settingVars, uiVars
<1>6. OrdersBounded'
  BY <1>1, <1>2, <1>4 DEF PageInv, OrdersBounded
<1>7. CommitsLoaded'
  BY <1>2, <1>4 DEF CommitsLoaded
<1>8. CommitFirst'
  BY <1>2, <1>4 DEF PageInv, CommitFirst, uiVars
<1>9. NothingInjectedAhead' /\ SheetsAreRules'
  BY <1>2, SheetsUndisturbed
<1>10. CandidateOfCommitted' /\ FaviconOfSite' /\ TouchIconPreferred'
  BY <1>2, IconsUndisturbed
<1>11. QED BY <1>5, <1>6, <1>7, <1>8, <1>9, <1>10 DEF PageInv

LEMMA OfferIconsKeeps ==
  ASSUME PageInv, NEW icons \in IconLists, OfferIcons(icons) PROVE PageInv'
<1> DEFINE m == [type |-> "FaviconURL", icons |-> icons]
<1>1. TypeOK /\ loaded \in Nat
  BY PageConstants DEF PageInv, TypeOK
<1>2. /\ toBrowser' = Append(toBrowser, m) /\ current # 0
      /\ UNCHANGED <<settingVars, rendererVars, toRenderer, uiVars>>
  BY DEF OfferIcons, Send
<1>3. m \in Messages /\ m.type # "Commit" /\ m # DocumentElement
  BY MessagesSent DEF DocumentElement
<1> HIDE DEF m
<1>4. /\ toBrowser' \in Seq(Messages)
      /\ toBrowser' # <<>>
      /\ toBrowser # <<>> => Head(toBrowser') = Head(toBrowser)
      /\ Occurrences(toBrowser', DocumentElement) = Occurrences(toBrowser, DocumentElement)
      /\ \A i \in DOMAIN toBrowser' :
           toBrowser'[i].type = "Commit" => toBrowser'[i].doc <= loaded
  <2>1. \A n \in Int : n >= loaded => \A i \in DOMAIN toBrowser' :
          toBrowser'[i].type = "Commit" => toBrowser'[i].doc <= n
    BY <1>2, <1>3, SentMessage
  <2>2. loaded \in Int /\ loaded >= loaded
    BY <1>1
  <2>3. /\ Occurrences(toBrowser, DocumentElement) \in Nat
        /\ Occurrences(toBrowser', DocumentElement)
             = Occurrences(toBrowser, DocumentElement) + (IF m = DocumentElement THEN 1 ELSE 0)
    BY <1>2, <1>3, SentMessage
  <2>4. Occurrences(toBrowser', DocumentElement) = Occurrences(toBrowser, DocumentElement)
    BY <1>3, <2>3
  <2>5. QED BY <1>2, <1>3, <2>1, <2>2, <2>4, SentMessage
<1>5. TypeOK'
  BY <1>1, <1>2, <1>4 DEF TypeOK, settingVars, rendererVars, uiVars
<1>6. OrdersBounded'
  BY <1>2, <1>4 DEF PageInv, OrdersBounded, rendererVars
<1>7. CommitsLoaded'
  BY <1>2, <1>4 DEF CommitsLoaded, rendererVars
<1>8. CommitFirst'
  BY <1>2, <1>4 DEF PageInv, CommitFirst, rendererVars, uiVars
<1>9. NothingInjectedAhead' /\ SheetsAreRules'
  BY <1>2, SheetsUndisturbed DEF rendererVars
<1>10. CandidateOfCommitted' /\ FaviconOfSite' /\ TouchIconPreferred'
  BY <1>2, IconsUndisturbed DEF rendererVars
<1>11. QED BY <1>5, <1>6, <1>7, <1>8, <1>9, <1>10 DEF PageInv

LEMMA OnInjectCssInFrameKeeps ==
  ASSUME PageInv, OnInjectCssInFrame PROVE PageInv'
<1> DEFINE s == Sheets[rules][url[current]]
           new == Append(sheets[current], s)
<1>1. TypeOK /\ loaded \in Nat /\ toRenderer \in Nat /\ MaxDocs \in Nat
  BY PageConstants DEF PageInv, TypeOK
<1>2. /\ toRenderer > 0 /\ toRenderer' = toRenderer - 1
      /\ current # 0
      /\ sheets' = [sheets EXCEPT ![current] = new]
      /\ UNCHANGED <<settingVars, rules, url, loaded, current, element, toBrowser, uiVars>>
  BY DEF OnInjectCssInFrame
<1>3. current = loaded /\ current \in Docs /\ url[current] \in Urls /\ rules \in RuleLists
      /\ sheets[current] \in Seq(Seq(Seq(Selectors)))
  BY <1>1, <1>2 DEF TypeOK, Docs
<1>4. s \in Seq(Seq(Selectors)) /\ SheetsFollowRules(s, rules, url[current].host)
  BY <1>3, SheetsRight
<1> HIDE DEF s
<1>5. /\ new \in Seq(Seq(Seq(Selectors)))
      /\ Len(sheets[current]) \in Nat
      /\ DOMAIN new = 1 .. Len(sheets[current]) + 1
      /\ DOMAIN sheets[current] = 1 .. Len(sheets[current])
      /\ \A i \in 1 .. Len(sheets[current]) : new[i] = sheets[current][i]
      /\ new[Len(sheets[current]) + 1] = s
  BY <1>3, <1>4, AppendIndex
<1> HIDE DEF new
<1>6. sheets'[current] = new /\ \A d \in Docs : d # current => sheets'[d] = sheets[d]
  BY <1>1, <1>2, <1>3 DEF TypeOK
<1>7. TypeOK'
  <2>1. sheets' \in [Docs -> Seq(Seq(Seq(Selectors)))]
    BY <1>1, <1>2, <1>3, <1>5 DEF TypeOK
  <2>2. toRenderer' \in 0 .. MaxDocs
    BY <1>1, <1>2 DEF TypeOK
  <2>3. QED BY <1>1, <1>2, <2>1, <2>2 DEF TypeOK, settingVars, uiVars
<1>8. OrdersBounded'
  <2>1. Occurrences(toBrowser, DocumentElement) \in Nat
    BY <1>1, OccurrencesType DEF TypeOK
  <2>2. QED BY <1>1, <1>2, <2>1 DEF PageInv, OrdersBounded
<1>9. CommitsLoaded' /\ CommitFirst'
  BY <1>2 DEF PageInv, CommitsLoaded, CommitFirst, uiVars
<1>10. NothingInjectedAhead'
  <2>1. \A d \in Docs : d > loaded => d # current
    BY <1>1, <1>3
  <2>2. QED BY <1>2, <1>6, <2>1 DEF PageInv, NothingInjectedAhead
<1>11. SheetsAreRules'
  <2>1. ASSUME NEW i \in DOMAIN new PROVE SheetsFollowRules(new[i], rules, url[current].host)
    <3> DEFINE old == sheets[current]
               n == Len(old)
    <3>1. CASE i = n + 1
      BY <1>4, <1>5, <3>1
    <3>2. CASE i # n + 1
      <4>1. i \in DOMAIN old /\ new[i] = old[i]
        <5>1. /\ n \in Nat /\ DOMAIN new = 1 .. n + 1 /\ DOMAIN old = 1 .. n
              /\ \A j \in 1 .. n : new[j] = old[j]
          BY <1>5
        <5> HIDE DEF old, n
        <5>2. QED BY <3>2, <5>1
      <4>2. QED BY <1>2, <4>1 DEF PageInv, SheetsAreRules
    <3>3. QED BY <3>1, <3>2
  <2>2. QED BY <1>2, <1>6, <2>1 DEF SheetsAreRules
<1>12. CandidateOfCommitted' /\ FaviconOfSite' /\ TouchIconPreferred'
  BY <1>2, IconsUndisturbed
<1>13. QED BY <1>7, <1>8, <1>9, <1>10, <1>11, <1>12 DEF PageInv

LEMMA RelaunchKeeps == ASSUME PageInv, Relaunch PROVE PageInv'
<1>1. TypeOK /\ loaded \in Nat /\ toRenderer \in Nat /\ MaxDocs \in Nat
  BY PageConstants DEF PageInv, TypeOK
<1>2. /\ current # 0 /\ toBrowser = <<>> /\ toBrowser' = <<>>
      /\ rules' = file_path_ /\ current' = 0 /\ toRenderer' = 0
      /\ UNCHANGED <<settingVars, url, loaded, sheets, uiVars>>
  BY DEF Relaunch
<1>3. TypeOK'
  <2>1. element' \in BOOLEAN
    BY DEF Relaunch
  <2>2. 0 \in 0 .. MaxDocs /\ toBrowser' \in Seq(Messages)
    BY <1>1, <1>2
  <2>3. QED BY <1>1, <1>2, <2>1, <2>2 DEF TypeOK, settingVars, uiVars
<1>4. OrdersBounded'
  BY <1>1, <1>2, OccurrencesEmpty DEF OrdersBounded
<1>5. CommitsLoaded' /\ CommitFirst'
  BY <1>2 DEF PageInv, CommitsLoaded, CommitFirst, uiVars
<1>6. NothingInjectedAhead' /\ SheetsAreRules'
  BY <1>2 DEF PageInv, NothingInjectedAhead, SheetsAreRules
<1>7. CandidateOfCommitted' /\ FaviconOfSite' /\ TouchIconPreferred'
  BY <1>2, IconsUndisturbed
<1>8. QED BY <1>3, <1>4, <1>5, <1>6, <1>7 DEF PageInv

-----------------------------------------------------------------------------
(* One lemma per action: the UI thread *)

\* The first message can be anything but a commit only once a page is committed.
LEMMA CommittedBefore ==
  ASSUME PageInv, NEW type, Receive(type), type # "Commit"
  PROVE  committed \in Docs
<1>1. committed # 0
  BY DEF PageInv, CommitFirst, Receive
<1>2. committed \in 0 .. loaded /\ loaded \in 0 .. MaxDocs /\ MaxDocs \in Nat
  BY PageConstants DEF PageInv, TypeOK
<1>3. QED BY <1>1, <1>2 DEF Docs

LEMMA DidNavigateMainFrameKeeps ==
  ASSUME PageInv, DidNavigateMainFrame PROVE PageInv'
<1> DEFINE m == Head(toBrowser)
<1>1. TypeOK /\ loaded \in Nat /\ toRenderer \in Nat
  BY PageConstants DEF PageInv, TypeOK
<1>2. /\ Receive("Commit") /\ committed' = m.doc /\ pending' = NoUrl /\ notifying'
      /\ UNCHANGED <<settingVars, rendererVars, toRenderer, favicon_candidate_, offered,
                     download>>
  BY DEF DidNavigateMainFrame
<1>3. /\ m.doc \in Docs /\ m.doc <= loaded
      /\ toBrowser' \in Seq(Messages)
      /\ Occurrences(toBrowser', DocumentElement) \in Nat
      /\ Occurrences(toBrowser, DocumentElement)
           = Occurrences(toBrowser', DocumentElement) + (IF m = DocumentElement THEN 1 ELSE 0)
      /\ \A i \in DOMAIN toBrowser' :
           toBrowser'[i].type = "Commit" => toBrowser'[i].doc <= loaded
  BY <1>2, ReceivedMessage
<1> HIDE DEF m
<1>4. TypeOK'
  <2>1. notifying' \in BOOLEAN
    BY DEF DidNavigateMainFrame
  <2>2. committed' \in 0 .. loaded /\ loaded' = loaded
    BY <1>1, <1>2, <1>3, DocsFacts DEF rendererVars
  <2>3. QED BY <1>1, <1>2, <1>3, <2>1, <2>2 DEF TypeOK, settingVars, rendererVars
<1>5. OrdersBounded'
  <2>1. Occurrences(toBrowser', DocumentElement) <= Occurrences(toBrowser, DocumentElement)
    BY <1>3
  <2>2. QED BY <1>1, <1>2, <1>3, <2>1 DEF PageInv, OrdersBounded, rendererVars
<1>6. CommitsLoaded' /\ CommitFirst'
  BY <1>2, <1>3, DocsFacts DEF CommitsLoaded, CommitFirst, rendererVars
<1>7. NothingInjectedAhead' /\ SheetsAreRules'
  BY <1>2, SheetsUndisturbed DEF rendererVars
<1>8. CandidateOfCommitted' /\ FaviconOfSite' /\ TouchIconPreferred'
  BY <1>2 DEF PageInv, CandidateOfCommitted, FaviconOfSite, TouchIconPreferred, rendererVars
<1>9. QED BY <1>4, <1>5, <1>6, <1>7, <1>8 DEF PageInv

LEMMA ResetFaviconKeeps == ASSUME PageInv, ResetFavicon PROVE PageInv'
<1>1. TypeOK
  BY DEF PageInv
<1>2. /\ ~notifying' /\ favicon_candidate_' = NoIcon /\ offered' = <<>>
      /\ UNCHANGED <<settingVars, rendererVars, toBrowser, toRenderer, committed, pending,
                     download>>
  BY DEF ResetFavicon
<1>3. TypeOK'
  <2>1. notifying' \in BOOLEAN
    BY DEF ResetFavicon
  <2>2. QED BY <1>1, <1>2, <2>1 DEF TypeOK, settingVars, rendererVars
<1>4. OrdersBounded' /\ CommitsLoaded' /\ CommitFirst'
  BY <1>2 DEF PageInv, OrdersBounded, CommitsLoaded, CommitFirst, rendererVars
<1>5. NothingInjectedAhead' /\ SheetsAreRules'
  BY <1>2, SheetsUndisturbed DEF rendererVars
<1>6. CandidateOfCommitted' /\ FaviconOfSite' /\ TouchIconPreferred'
  <2>1. DOMAIN offered' = {}
    BY <1>2
  <2>2. QED BY <1>2, <2>1 DEF PageInv, CandidateOfCommitted, FaviconOfSite, TouchIconPreferred,
                              rendererVars
<1>7. QED BY <1>3, <1>4, <1>5, <1>6 DEF PageInv

LEMMA OnNotifyDidCreateDocumentElementKeeps ==
  ASSUME PageInv, OnNotifyDidCreateDocumentElement PROVE PageInv'
<1> DEFINE m == Head(toBrowser)
<1>1. TypeOK /\ loaded \in Nat /\ toRenderer \in Nat /\ MaxDocs \in Nat /\ loaded <= MaxDocs
  BY PageConstants DEF PageInv, TypeOK
<1>2. /\ Receive("DocumentElement")
      /\ toRenderer' = toRenderer \/ toRenderer' = toRenderer + 1
      /\ UNCHANGED <<settingVars, rendererVars, uiVars>>
  BY DEF OnNotifyDidCreateDocumentElement
<1>3. /\ m = DocumentElement
      /\ toBrowser' \in Seq(Messages)
      /\ Occurrences(toBrowser', DocumentElement) \in Nat
      /\ Occurrences(toBrowser, DocumentElement) = Occurrences(toBrowser', DocumentElement) + 1
      /\ \A i \in DOMAIN toBrowser' :
           toBrowser'[i].type = "Commit" => toBrowser'[i].doc <= loaded
  <2>1. m \in Messages /\ m.type = "DocumentElement"
    BY <1>2, ReceivedMessage
  <2>2. m = DocumentElement
    BY <2>1, MessageTypes
  <2>3. QED BY <1>2, <2>2, ReceivedMessage
<1>4. OrdersBounded'
  BY <1>1, <1>2, <1>3 DEF PageInv, OrdersBounded, rendererVars
<1>5. TypeOK'
  <2>1. toRenderer' \in Nat /\ toRenderer' <= loaded
    BY <1>1, <1>2, <1>3 DEF PageInv, OrdersBounded
  <2>2. toRenderer' \in 0 .. MaxDocs
    BY <1>1, <2>1
  <2>3. QED BY <1>1, <1>2, <1>3, <2>2 DEF TypeOK, settingVars, rendererVars, uiVars
<1>6. CommitsLoaded' /\ CommitFirst'
  <2>1. committed' # 0
    BY <1>2, CommittedBefore, DocsFacts DEF uiVars
  <2>2. QED BY <1>2, <1>3, <2>1 DEF CommitsLoaded, CommitFirst, rendererVars
<1>7. NothingInjectedAhead' /\ SheetsAreRules'
  BY <1>2, SheetsUndisturbed DEF rendererVars
<1>8. CandidateOfCommitted' /\ FaviconOfSite' /\ TouchIconPreferred'
  BY <1>2, IconsUndisturbed DEF rendererVars
<1>9. QED BY <1>4, <1>5, <1>6, <1>7, <1>8 DEF PageInv

LEMMA DidUpdateFaviconURLKeeps ==
  ASSUME PageInv, DidUpdateFaviconURL PROVE PageInv'
<1> DEFINE m == Head(toBrowser)
           icons == m.icons
           best == BestCandidate(icons)
           valid == {i \in DOMAIN icons : icons[i].type # "invalid"}
           touch == {i \in DOMAIN icons : icons[i].type = "touch"}
<1>1. TypeOK /\ loaded \in Nat /\ toRenderer \in Nat
  BY PageConstants DEF PageInv, TypeOK
<1>2. /\ Receive("FaviconURL") /\ offered' = icons
      /\ favicon_candidate_' = IF best = NoIcon THEN favicon_candidate_
                               ELSE [doc |-> committed, icon |-> best]
      /\ UNCHANGED <<settingVars, rendererVars, toRenderer, committed, notifying, pending,
                     download>>
  BY DEF DidUpdateFaviconURL
<1>3. /\ m \in Messages /\ m.type = "FaviconURL"
      /\ toBrowser' \in Seq(Messages)
      /\ Occurrences(toBrowser', DocumentElement) \in Nat
      /\ Occurrences(toBrowser, DocumentElement)
           = Occurrences(toBrowser', DocumentElement) + (IF m = DocumentElement THEN 1 ELSE 0)
      /\ \A i \in DOMAIN toBrowser' :
           toBrowser'[i].type = "Commit" => toBrowser'[i].doc <= loaded
  BY <1>2, ReceivedMessage
<1>4. icons \in IconLists
  BY <1>3, MessageTypes
<1>5. /\ best \in Icons \cup {NoIcon}
      /\ best = NoIcon <=> valid = {}
      /\ valid # {} => best \in {icons[i] : i \in IF touch # {} THEN touch ELSE valid}
  <2>1. icons \in Seq(Icons)
    BY <1>4, PageConstants
  <2> HIDE DEF icons
  <2>2. QED BY <2>1, BestCandidateIsBest
<1>6. committed \in Docs
  BY <1>2, CommittedBefore
<1> HIDE DEF m, icons, best
<1>7. best # NoIcon => [doc |-> committed, icon |-> best] \in Candidates
                       /\ [doc |-> committed, icon |-> best] # NoIcon
  BY <1>5, <1>6, PageConstants DEF Candidates
<1>8. TypeOK'
  <2>1. favicon_candidate_' \in Candidates \cup {NoIcon}
    BY <1>1, <1>2, <1>7 DEF TypeOK
  <2>2. QED BY <1>1, <1>2, <1>3, <1>4, <2>1 DEF TypeOK, settingVars, rendererVars
<1>9. OrdersBounded'
  <2>1. Occurrences(toBrowser', DocumentElement) <= Occurrences(toBrowser, DocumentElement)
    BY <1>3
  <2>2. QED BY <1>1, <1>2, <1>3, <2>1 DEF PageInv, OrdersBounded, rendererVars
<1>10. CommitsLoaded' /\ CommitFirst'
  BY <1>2, <1>3, <1>6, DocsFacts DEF CommitsLoaded, CommitFirst, rendererVars
<1>11. NothingInjectedAhead' /\ SheetsAreRules'
  BY <1>2, SheetsUndisturbed DEF rendererVars
<1>12. CandidateOfCommitted'
  BY <1>2, <1>7 DEF PageInv, CandidateOfCommitted
<1>13. FaviconOfSite'
  BY <1>2 DEF PageInv, FaviconOfSite, rendererVars
<1>14. TouchIconPreferred'
  <2>1. ASSUME valid # {}
        PROVE  /\ favicon_candidate_' # NoIcon
               /\ favicon_candidate_'.icon
                    \in {icons[i] : i \in IF touch # {} THEN touch ELSE valid}
    <3>1. favicon_candidate_' = [doc |-> committed, icon |-> best] /\ best # NoIcon
      BY <1>2, <1>5, <2>1
    <3>2. favicon_candidate_'.icon = best
      BY <3>1
    <3>3. QED BY <1>5, <1>7, <2>1, <3>1, <3>2
  <2>2. QED BY <1>2, <2>1 DEF TouchIconPreferred
<1>15. QED BY <1>8, <1>9, <1>10, <1>11, <1>12, <1>13, <1>14 DEF PageInv

-----------------------------------------------------------------------------
(* One lemma per action: Java *)

\* The messages and the documents are left alone.
LEMMA MessagesUndisturbed ==
  ASSUME PageInv,
         UNCHANGED <<rules, url, loaded, current, element, sheets, toBrowser, toRenderer,
                     committed>>
  PROVE  /\ OrdersBounded' /\ CommitsLoaded' /\ CommitFirst'
         /\ NothingInjectedAhead' /\ SheetsAreRules'
<1>1. OrdersBounded' /\ CommitsLoaded' /\ CommitFirst'
  BY DEF PageInv, OrdersBounded, CommitsLoaded, CommitFirst
<1>2. QED BY <1>1, SheetsUndisturbed

LEMMA PendingKeeps ==
  ASSUME PageInv, pending' \in Urls \cup {NoUrl},
         UNCHANGED <<settingVars, rendererVars, toBrowser, toRenderer, committed, notifying,
                     favicon_candidate_, offered, download>>
  PROVE  PageInv'
<1>1. TypeOK'
  BY DEF PageInv, TypeOK, settingVars, rendererVars
<1>2. CandidateOfCommitted' /\ FaviconOfSite' /\ TouchIconPreferred'
  BY DEF PageInv, CandidateOfCommitted, FaviconOfSite, TouchIconPreferred, rendererVars
<1>3. QED BY <1>1, <1>2, MessagesUndisturbed DEF PageInv, rendererVars

LEMMA DownloadFaviconKeeps == ASSUME PageInv, DownloadFavicon PROVE PageInv'
<1> DEFINE site == IF pending # NoUrl THEN pending ELSE url[committed]
<1>1. TypeOK /\ loaded \in Nat /\ MaxDocs \in Nat /\ loaded <= MaxDocs
  BY PageConstants DEF PageInv, TypeOK
<1>2. /\ committed # 0 /\ favicon_candidate_ # NoIcon
      /\ download' = [site |-> site, icon |-> favicon_candidate_,
                      between |-> notifying \/ pending # NoUrl]
      /\ UNCHANGED <<settingVars, rendererVars, toBrowser, toRenderer, committed, notifying,
                     pending, favicon_candidate_, offered>>
  BY DEF DownloadFavicon
<1>3. committed \in Docs
  BY <1>1, <1>2 DEF TypeOK, Docs
<1>4. site \in Urls /\ favicon_candidate_ \in Candidates
      /\ (notifying \/ pending # NoUrl) \in BOOLEAN
  BY <1>1, <1>2, <1>3 DEF TypeOK
<1>5. TypeOK'
  <2>1. download' \in Downloads
    BY <1>2, <1>4 DEF Downloads
  <2>2. QED BY <1>1, <1>2, <2>1 DEF TypeOK, settingVars, rendererVars
<1>6. FaviconOfSite'
  <2>1. ASSUME ~notifying, pending = NoUrl
        PROVE  url[favicon_candidate_.doc] = site
    BY <1>2, <2>1 DEF PageInv, CandidateOfCommitted
  <2>2. /\ download'.site = site /\ download'.icon = favicon_candidate_ /\ url' = url
        /\ download'.between <=> notifying \/ pending # NoUrl
    BY <1>2 DEF rendererVars
  <2>3. QED BY <2>1, <2>2 DEF FaviconOfSite
<1>7. CandidateOfCommitted' /\ TouchIconPreferred'
  BY <1>2 DEF PageInv, CandidateOfCommitted, TouchIconPreferred
<1>8. QED BY <1>2, <1>5, <1>6, <1>7, MessagesUndisturbed DEF PageInv, rendererVars

LEMMA FaviconDownloadedKeeps == ASSUME PageInv, FaviconDownloaded PROVE PageInv'
<1>1. /\ download' = NoDownload
      /\ UNCHANGED <<settingVars, rendererVars, toBrowser, toRenderer, committed, notifying,
                     pending, favicon_candidate_, offered>>
  BY DEF FaviconDownloaded
<1>2. TypeOK'
  BY <1>1 DEF PageInv, TypeOK, settingVars, rendererVars
<1>3. CandidateOfCommitted' /\ FaviconOfSite' /\ TouchIconPreferred'
  BY <1>1 DEF PageInv, CandidateOfCommitted, FaviconOfSite, TouchIconPreferred
<1>4. QED BY <1>1, <1>2, <1>3, MessagesUndisturbed DEF PageInv, rendererVars

LEMMA UpdateFiltersKeeps == ASSUME PageInv, UpdateFilters PROVE PageInv'
<1>1. UNCHANGED <<rendererVars, toBrowser, toRenderer, uiVars>>
  BY DEF UpdateFilters
<1>2. TypeOK'
  <2>1. inject_css' \in BOOLEAN /\ whitelist' \in Whitelists
        /\ {file_path_', rules'} \subseteq RuleLists
    BY <1>1 DEF PageInv, TypeOK, UpdateFilters, rendererVars
  <2>2. QED BY <1>1, <2>1 DEF PageInv, TypeOK, rendererVars, uiVars
<1>3. CandidateOfCommitted' /\ FaviconOfSite' /\ TouchIconPreferred'
  BY <1>1, IconsUndisturbed DEF rendererVars
<1>4. QED BY <1>1, <1>2, <1>3, MessagesUndisturbed DEF PageInv, rendererVars, uiVars

-----------------------------------------------------------------------------

LEMMA PageInvNext == PageInv /\ [Next]_vars => PageInv'
<1> SUFFICES ASSUME PageInv, [Next]_vars PROVE PageInv'
  OBVIOUS
<1>1. CASE Navigate
  BY <1>1, NavigateKeeps
<1>2. CASE DidCreateDocumentElement
  BY <1>2, DidCreateDocumentElementKeeps
<1>3. ASSUME NEW icons \in IconLists, OfferIcons(icons) PROVE PageInv'
  BY <1>3, OfferIconsKeeps
<1>4. CASE OnInjectCssInFrame
  BY <1>4, OnInjectCssInFrameKeeps
<1>5. CASE Relaunch
  BY <1>5, RelaunchKeeps
<1>6. CASE DidNavigateMainFrame
  BY <1>6, DidNavigateMainFrameKeeps
<1>7. CASE ResetFavicon
  BY <1>7, ResetFaviconKeeps
<1>8. CASE OnNotifyDidCreateDocumentElement
  BY <1>8, OnNotifyDidCreateDocumentElementKeeps
<1>9. CASE DidUpdateFaviconURL
  BY <1>9, DidUpdateFaviconURLKeeps
<1>10. ASSUME NEW u \in Urls, Load(u) PROVE PageInv'
  <2>1. pending' \in Urls \cup {NoUrl}
    BY <1>10 DEF Load
  <2>2. QED BY <1>10, <2>1, PendingKeeps DEF Load
<1>11. CASE Abandon
  <2>1. pending' \in Urls \cup {NoUrl}
    BY <1>11 DEF Abandon
  <2>2. QED BY <1>11, <2>1, PendingKeeps DEF Abandon
<1>12. CASE DownloadFavicon
  BY <1>12, DownloadFaviconKeeps
<1>13. CASE FaviconDownloaded
  BY <1>13, FaviconDownloadedKeeps
<1>14. CASE UpdateFilters
  BY <1>14, UpdateFiltersKeeps
<1>15. CASE UNCHANGED vars
  <2>1. pending' \in Urls \cup {NoUrl}
    BY <1>15 DEF PageInv, TypeOK, vars, uiVars
  <2>2. QED BY <1>15, <2>1, PendingKeeps DEF vars, uiVars
<1>16. QED
  BY <1>1, <1>2, <1>3, <1>4, <1>5, <1>6, <1>7, <1>8, <1>9, <1>10, <1>11, <1>12, <1>13, <1>14,
     <1>15 DEF Next

LEMMA PageInvHolds == Spec => []PageInv
<1>1. Init => PageInv
  BY PageInvInit
<1>2. PageInv /\ [Next]_vars => PageInv'
  BY PageInvNext
<1>3. QED BY <1>1, <1>2, PTL DEF Spec

\* Type correctness of the tab and its page, for any number of documents: no more orders
\* to inject are under way than documents have been loaded.
THEOREM PageTypeOK == Spec => []TypeOK
<1>1. PageInv => TypeOK
  BY DEF PageInv
<1>2. QED BY <1>1, PageInvHolds, PTL

\* Each time a document gets style sheets they are those the rules of its render process
\* ask for on its host, whichever document the order was meant for.
THEOREM InjectedSheetsAreRules == Spec => []SheetsAreRules
<1>1. PageInv => SheetsAreRules
  BY DEF PageInv
<1>2. QED BY <1>1, PageInvHolds, PTL

\* The icon Java files under a site was offered by a page of that URL, unless Java asked
\* for it while the tab was between two pages.
THEOREM FaviconIsOfSite == Spec => []FaviconOfSite
<1>1. PageInv => FaviconOfSite
  BY DEF PageInv
<1>2. QED BY <1>1, PageInvHolds, PTL

\* The icon remembered is a valid one of those the page offered last, and a touch icon
\* if there is one, for any list of icons and sizes.
THEOREM TouchIconIsPreferred == Spec => []TouchIconPreferred
<1>1. PageInv => TouchIconPreferred
  BY DEF PageInv
<1>2. QED BY <1>1, PageInvHolds, PTL

-----------------------------------------------------------------------------
(***************************************************************************)
(* Whose announcement it is.  What StylesArrive rests on: the last commit  *)
(* on its way is that of the newest document, so that when none is on its  *)
(* way, the UI thread and the render process speak of the same document.   *)
(***************************************************************************)

IsCommit(m) == m.type = "Commit"

\* The last commit in the channel, if there is one, is of document n.
LastCommitIs(channel, n) ==
  \A i \in DOMAIN channel :
    /\ IsCommit(channel[i])
    /\ \A j \in DOMAIN channel : j > i => ~IsCommit(channel[j])
    => channel[i].doc = n

NoCommit(channel) == \A i \in DOMAIN channel : ~IsCommit(channel[i])

ChannelInv ==
  /\ PageInv
  /\ LastCommitIs(toBrowser, loaded)
  /\ NoCommit(toBrowser) => committed = loaded

\* A message goes to the end...
LEMMA SentLast ==
  ASSUME NEW S, NEW q \in Seq(S), NEW m \in S, NEW n
  PROVE  /\ IsCommit(m) => LastCommitIs(Append(q, m), m.doc) /\ ~NoCommit(Append(q, m))
         /\ ~IsCommit(m) /\ LastCommitIs(q, n) => LastCommitIs(Append(q, m), n)
         /\ ~IsCommit(m) => (NoCommit(Append(q, m)) <=> NoCommit(q))
<1> DEFINE a == Append(q, m)
           k == Len(q)
<1>1. /\ DOMAIN a = 1 .. k + 1 /\ DOMAIN q = 1 .. k /\ k \in Nat
      /\ \A i \in 1 .. k : a[i] = q[i]
      /\ a[k + 1] = m
  BY AppendIndex
<1> HIDE DEF a, k
<1>2. ASSUME IsCommit(m) PROVE LastCommitIs(a, m.doc) /\ ~NoCommit(a)
  <2>1. k + 1 \in DOMAIN a /\ \A i \in DOMAIN a : i # k + 1 => k + 1 > i
    BY <1>1
  <2>2. QED BY <1>1, <1>2, <2>1 DEF LastCommitIs, NoCommit
<1>3. ASSUME ~IsCommit(m), LastCommitIs(q, n) PROVE LastCommitIs(a, n)
  <2>1. \A i \in DOMAIN a : IsCommit(a[i]) => i \in DOMAIN q /\ a[i] = q[i]
    BY <1>1, <1>3
  <2>2. \A i \in DOMAIN q : i \in DOMAIN a /\ a[i] = q[i]
    BY <1>1
  <2>3. QED BY <1>3, <2>1, <2>2 DEF LastCommitIs
<1>4. ~IsCommit(m) => (NoCommit(a) <=> NoCommit(q))
  BY <1>1 DEF NoCommit
<1>5. QED BY <1>2, <1>3, <1>4 DEF a

\* ... and leaves the channel at the front.
LEMMA ReceivedFirst ==
  ASSUME NEW S, NEW q \in Seq(S), q # <<>>, NEW n, LastCommitIs(q, n)
  PROVE  /\ LastCommitIs(Tail(q), n)
         /\ NoCommit(Tail(q)) =>
              IF IsCommit(Head(q)) THEN Head(q).doc = n ELSE NoCommit(q)
<1> DEFINE t == Tail(q)
           k == Len(q)
           h == Head(q)
<1>1. /\ DOMAIN t = 1 .. k - 1 /\ DOMAIN q = 1 .. k /\ k \in Nat \ {0}
      /\ \A i \in 1 .. k - 1 : t[i] = q[i + 1]
      /\ h = q[1]
  OBVIOUS
<1> HIDE DEF t, k, h
<1>2. \A i \in 2 .. k : i - 1 \in DOMAIN t /\ t[i - 1] = q[i]
  BY <1>1
<1>3. ASSUME NEW i \in DOMAIN t, IsCommit(t[i]),
             \A j \in DOMAIN t : j > i => ~IsCommit(t[j])
      PROVE  t[i].doc = n
  <2>1. i + 1 \in DOMAIN q /\ q[i + 1] = t[i]
    BY <1>1
  <2>2. ASSUME NEW j \in DOMAIN q, j > i + 1 PROVE ~IsCommit(q[j])
    <3>1. j - 1 \in DOMAIN t /\ j - 1 > i /\ t[j - 1] = q[j]
      BY <1>1, <1>2, <2>2
    <3>2. QED BY <1>3, <3>1
  <2>3. QED BY <1>3, <2>1, <2>2 DEF LastCommitIs
<1>4. ASSUME NoCommit(t) PROVE \A j \in DOMAIN q : j > 1 => ~IsCommit(q[j])
  <2>1. \A j \in DOMAIN q : j > 1 => j \in 2 .. k
    BY <1>1
  <2>2. QED BY <1>2, <1>4, <2>1 DEF NoCommit
<1>5. ASSUME NoCommit(t) PROVE IF IsCommit(h) THEN h.doc = n ELSE NoCommit(q)
  <2>1. 1 \in DOMAIN q /\ \A j \in DOMAIN q : j = 1 \/ j > 1
    BY <1>1
  <2>2. IsCommit(h) => h.doc = n
    BY <1>1, <1>4, <1>5, <2>1 DEF LastCommitIs
  <2>3. ~IsCommit(h) => NoCommit(q)
    BY <1>1, <1>4, <1>5, <2>1 DEF NoCommit
  <2>4. QED BY <2>2, <2>3
<1>6. QED BY <1>3, <1>5 DEF LastCommitIs, t, h

LEMMA ChannelInit == Init => ChannelInv
BY PageInvInit DEF Init, ChannelInv, LastCommitIs, NoCommit

LEMMA ChannelStep == ChannelInv /\ [Next]_vars => ChannelInv'
<1> SUFFICES ASSUME ChannelInv, [Next]_vars PROVE ChannelInv'
  OBVIOUS
<1>0. PageInv' /\ toBrowser \in Seq(Messages) /\ loaded \in Nat
  BY PageInvNext, PageConstants DEF ChannelInv, PageInv, TypeOK
<1> DEFINE Rest == /\ LastCommitIs(toBrowser', loaded')
                   /\ NoCommit(toBrowser') => committed' = loaded'
<1>1. CASE Navigate
  <2> DEFINE m == [type |-> "Commit", doc |-> loaded + 1]
  <2>1. toBrowser' = Append(toBrowser, m) /\ loaded' = loaded + 1 /\ loaded < MaxDocs
    BY <1>1 DEF Navigate, Send
  <2>2. m \in Messages /\ IsCommit(m) /\ m.doc = loaded + 1
    BY <1>0, <2>1, MessagesSent, PageConstants DEF Docs, IsCommit
  <2> HIDE DEF m
  <2>3. Rest
    BY <1>0, <2>1, <2>2, SentLast
  <2>4. QED BY <1>0, <2>3 DEF ChannelInv
<1>2. ASSUME NEW m \in Messages, ~IsCommit(m), Send(m), UNCHANGED <<loaded, committed>>
      PROVE  Rest
  BY <1>0, <1>2, SentLast DEF Send, ChannelInv
<1>3. CASE DidCreateDocumentElement
  <2>1. DocumentElement \in Messages /\ ~IsCommit(DocumentElement) /\ Send(DocumentElement)
        /\ UNCHANGED <<loaded, committed>>
    BY <1>3, MessagesSent DEF DidCreateDocumentElement, DocumentElement, IsCommit, uiVars
  <2>2. QED BY <1>0, <1>2, <2>1 DEF ChannelInv
<1>4. ASSUME NEW icons \in IconLists, OfferIcons(icons) PROVE ChannelInv'
  <2> DEFINE m == [type |-> "FaviconURL", icons |-> icons]
  <2>1. m \in Messages /\ ~IsCommit(m) /\ Send(m) /\ UNCHANGED <<loaded, committed>>
    BY <1>4, MessagesSent DEF OfferIcons, IsCommit, rendererVars, uiVars
  <2>2. QED BY <1>0, <1>2, <2>1 DEF ChannelInv
<1>5. ASSUME NEW type, Receive(type), loaded' = loaded,
             committed' = IF type = "Commit" THEN Head(toBrowser).doc ELSE committed
      PROVE  ChannelInv'
  <2>1. /\ toBrowser # <<>> /\ toBrowser' = Tail(toBrowser)
        /\ IsCommit(Head(toBrowser)) <=> type = "Commit"
    BY <1>5 DEF Receive, IsCommit
  <2>2. Rest
    BY <1>0, <1>5, <2>1, ReceivedFirst DEF ChannelInv
  <2>3. QED BY <1>0, <2>2 DEF ChannelInv
<1>6. CASE DidNavigateMainFrame
  BY <1>5, <1>6 DEF DidNavigateMainFrame, rendererVars
<1>7. CASE OnNotifyDidCreateDocumentElement \/ DidUpdateFaviconURL
  BY <1>5, <1>7 DEF OnNotifyDidCreateDocumentElement, DidUpdateFaviconURL, rendererVars, uiVars
<1>8. ASSUME UNCHANGED <<toBrowser, loaded, committed>> PROVE ChannelInv'
  BY <1>0, <1>8 DEF ChannelInv
<1>9. Relaunch => UNCHANGED <<toBrowser, loaded, committed>>
  BY DEF Relaunch, uiVars
<1>10. QED
  BY <1>1, <1>3, <1>4, <1>6, <1>7, <1>8, <1>9
     DEF Next, OnInjectCssInFrame, ResetFavicon, Load, Abandon, DownloadFavicon,
         FaviconDownloaded, UpdateFilters, rendererVars, uiVars, vars

\* The announcement of a document's element does not say which document it means; if no
\* newer commit is on its way behind it, it is judged by the URL of the very document
\* that is in the frame, and an order to inject is sent exactly if that page is not
\* trusted and injection is on (OnNotifyDidCreateDocumentElement).
OwnUrlDecides ==
  [][OnNotifyDidCreateDocumentElement /\ current # 0 /\ NoCommit(toBrowser) =>
       toRenderer' = IF inject_css /\ url[current] \notin whitelist
                     THEN toRenderer + 1 ELSE toRenderer]_vars

\* Nobody is given the styles of another page's trust, unless a navigation is under way:
\* the safety core of StylesArrive.
THEOREM AnnouncementsAreOwn == Spec => OwnUrlDecides
<1>1. ChannelInv /\ [Next]_vars =>
        [OnNotifyDidCreateDocumentElement /\ current # 0 /\ NoCommit(toBrowser) =>
           toRenderer' = IF inject_css /\ url[current] \notin whitelist
                         THEN toRenderer + 1 ELSE toRenderer]_vars
  <2> SUFFICES ASSUME ChannelInv, OnNotifyDidCreateDocumentElement, current # 0,
                      NoCommit(toBrowser)
               PROVE  toRenderer' = IF inject_css /\ url[current] \notin whitelist
                                    THEN toRenderer + 1 ELSE toRenderer
    OBVIOUS
  <2>1. committed = current
    BY DEF ChannelInv, PageInv, TypeOK
  <2>2. QED BY <2>1 DEF OnNotifyDidCreateDocumentElement
<1>2. QED BY <1>1, ChannelInit, ChannelStep, PTL DEF Spec, OwnUrlDecides
=============================================================================
