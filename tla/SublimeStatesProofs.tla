------------------------ MODULE SublimeStatesProofs ------------------------
(***************************************************************************)
(* What is proved of the emission of editor states, for every machine: a   *)
(* round of the refinement only splits parts, and only where it has a      *)
(* reason; when the loop ends, the states of a part have the same rules    *)
(* and lead to the same parts; and the contexts that are left at the end   *)
(* have the rules of their states and inherit the scopes they would.  And, *)
(* for every machine that is built of a state graph: what the grammar can  *)
(* reach has a context in the file, and a rule that consumes a token is    *)
(* tried before one that recovers at it.                                   *)
(***************************************************************************)
EXTENDS EditorStates, FiniteSetTheorems, SequenceTheorems, TLAPS

(* States with one full signature are in one part already: the partition is *)
(* no finer than what the next round would make of it.                      *)
Told(p) ==
  \A l, k \in labels : FullSignature(l, p) = FullSignature(k, p) => p[l] = p[k]

Merging ==
  /\ machine \in Machines
  /\ parts \in [labels -> labels]
  /\ Told(parts)
  /\ pc # "refine" => Refined(parts) = parts

-----------------------------------------------------------------------------
(* A set of numbers that is not empty has a least one: the intervals up to *)
(* its members are finite sets, and strict inclusion of these is well      *)
(* founded.                                                                *)
LEMMA LeastOf ==
  ASSUME NEW T \in SUBSET Nat, T # {}
  PROVE  \E x \in T : \A y \in T : x <= y
<1> DEFINE R == StrictSubsetOrdering(Nat)
<1> DEFINE U == {0..x : x \in T}
<1>1. \A x \in T : IsFiniteSet(0..x) /\ 0..x \in SUBSET Nat
  BY FS_Interval
<1>2. U \subseteq FiniteSubsetsOf(Nat) /\ U # {}
  BY <1>1 DEF FiniteSubsetsOf
<1>3. IsWellFoundedOn(R, FiniteSubsetsOf(Nat))
  BY FS_StrictSubsetOrderingWellFounded
<1>4. PICK u \in U : \A v \in U : ~(<<v, u>> \in R)
  <2> HIDE DEF R, U
  <2> QED
    BY <1>2, <1>3, WFMin
<1>5. PICK x \in T : u = 0..x
  OBVIOUS
<1>6. ASSUME NEW y \in T, y < x PROVE FALSE
  <2>1. 0..y \subseteq 0..x /\ x \in 0..x /\ x \notin 0..y
    BY <1>6
  <2>2. <<0..y, 0..x>> \in R
    BY <2>1, <1>1 DEF StrictSubsetOrdering
  <2>3. 0..y \in U
    OBVIOUS
  <2> QED
    BY <2>2, <2>3, <1>4, <1>5
<1>7. \A y \in T : x <= y
  BY <1>6
<1> QED
  BY <1>7

LEMMA PositionType ==
  ASSUME NEW l \in Names
  PROVE  Position(l) \in Nat
<1>1. Order \in Seq(Names)
  BY SublimeStatesAssumption
<1>2. \E i \in 1..Len(Order) : Order[i] = l
  BY <1>1 DEF Names, Range
<1>3. Position(l) \in 1..Len(Order)
  BY <1>2 DEF Position
<1> QED
  BY <1>1, <1>3

(* A set of names that is not empty has a first one. *)
LEMMA FirstIn ==
  ASSUME NEW ls \in SUBSET Names, ls # {}
  PROVE  First(ls) \in ls
<1> DEFINE T == {Position(l) : l \in ls}
<1>1. T \in SUBSET Nat /\ T # {}
  BY PositionType
<1>2. PICK x \in T : \A y \in T : x <= y
  <2> HIDE DEF T
  <2> QED
    BY <1>1, LeastOf
<1>3. PICK l \in ls : x = Position(l)
  OBVIOUS
<1>4. \A k \in ls : Position(l) <= Position(k)
  BY <1>2, <1>3
<1> QED
  BY <1>4 DEF First

(* The parts by a signature tell apart exactly what the signature does. *)
LEMMA PartsTell ==
  ASSUME labels \subseteq Names, NEW sig, NEW l \in labels, NEW k \in labels
  PROVE  /\ PartsBy(sig)[l] \in labels
         /\ PartsBy(sig)[l] = PartsBy(sig)[k] <=> sig[l] = sig[k]
<1> DEFINE Same(x) == {y \in labels : sig[y] = sig[x]}
<1>1. PartsBy(sig)[l] = First(Same(l)) /\ PartsBy(sig)[k] = First(Same(k))
  BY DEF PartsBy
<1>2. First(Same(l)) \in Same(l) /\ First(Same(k)) \in Same(k)
  BY FirstIn
<1>3. sig[l] = sig[k] => Same(l) = Same(k)
  OBVIOUS
<1> QED
  BY <1>1, <1>2, <1>3

LEMMA RefinedTells ==
  ASSUME labels \subseteq Names, NEW p, NEW l \in labels, NEW k \in labels
  PROVE  /\ Refined(p)[l] \in labels
         /\ Refined(p)[l] = Refined(p)[k] <=> FullSignature(l, p) = FullSignature(k, p)
<1> DEFINE sig == [x \in labels |-> FullSignature(x, p)]
<1>1. sig[l] = FullSignature(l, p) /\ sig[k] = FullSignature(k, p)
  OBVIOUS
<1>2. Refined(p) = PartsBy(sig)
  BY DEF Refined
<1> HIDE DEF sig
<1> QED
  BY <1>1, <1>2, PartsTell

LEMMA PartsType ==
  ASSUME labels \subseteq Names, NEW sig
  PROVE  PartsBy(sig) \in [labels -> labels]
BY PartsTell DEF PartsBy

(* What is known of the labels of a machine. *)
LEMMA MachineLabels ==
  ASSUME machine \in Machines
  PROVE  /\ labels \subseteq Names
         /\ labels # {}
         /\ NoState \notin labels
BY SublimeStatesAssumption DEF LanguageMachine, labels, states, Labels

-----------------------------------------------------------------------------
(* If q splits parts of p, states with one signature by q have one by p. *)
LEMMA PartOfCoarser ==
  ASSUME machine \in Machines,
         NEW p \in [labels -> labels], NEW q \in [labels -> labels],
         \A x, y \in labels : q[x] = q[y] => p[x] = p[y],
         NEW a, NEW b, PartOf(q, a) = PartOf(q, b)
  PROVE  PartOf(p, a) = PartOf(p, b)
<1>1. First(labels) \in labels
  BY MachineLabels, FirstIn
<1> QED
  BY <1>1 DEF PartOf

LEMMA SignatureCoarser ==
  ASSUME machine \in Machines,
         NEW p \in [labels -> labels], NEW q \in [labels -> labels],
         \A x, y \in labels : q[x] = q[y] => p[x] = p[y],
         NEW l \in labels, NEW k \in labels,
         FullSignature(l, q) = FullSignature(k, q)
  PROVE  FullSignature(l, p) = FullSignature(k, p)
<1>1. /\ LocalSignature(l) = LocalSignature(k)
      /\ ImmediatePart(l, q) = ImmediatePart(k, q)
      /\ TargetParts(l, q) = TargetParts(k, q)
  BY DEF FullSignature
<1>2. ImmediatePart(l, p) = ImmediatePart(k, p)
  <2>1. \A x : PartOf(q, x) # NoState
    <3>1. First(labels) \in labels /\ NoState \notin labels
      BY MachineLabels, FirstIn
    <3> QED
      BY <3>1 DEF PartOf
  <2>2. \A x, y : PartOf(q, x) = PartOf(q, y) => PartOf(p, x) = PartOf(p, y)
    BY PartOfCoarser
  <2> QED
    BY <1>1, <2>1, <2>2 DEF ImmediatePart
<1>3. TargetParts(l, p) = TargetParts(k, p)
  <2> DEFINE D(x) == DOMAIN states[x].rules
             E(x, i) == DOMAIN states[x].rules[i].targets
             A(x, i, n) == states[x].rules[i].targets[n]
  <2>1. \A r : /\ TargetParts(l, r) = [i \in D(l) |-> [n \in E(l, i) |-> PartOf(r, A(l, i, n))]]
               /\ TargetParts(k, r) = [i \in D(k) |-> [n \in E(k, i) |-> PartOf(r, A(k, i, n))]]
    BY DEF TargetParts
  <2> HIDE DEF D, E, A
  <2>2. D(l) = D(k)
    BY <1>1, <2>1
  <2>3. \A i \in D(l) :
          [n \in E(l, i) |-> PartOf(q, A(l, i, n))] = [n \in E(k, i) |-> PartOf(q, A(k, i, n))]
    BY <1>1, <2>1, <2>2
  <2>4. \A i \in D(l) : E(l, i) = E(k, i)
    BY <2>3
  <2>5. \A i \in D(l) : \A n \in E(l, i) : PartOf(q, A(l, i, n)) = PartOf(q, A(k, i, n))
    BY <2>3, <2>4
  <2>6. \A i \in D(l) : \A n \in E(l, i) : PartOf(p, A(l, i, n)) = PartOf(p, A(k, i, n))
    BY <2>5, PartOfCoarser
  <2>7. \A i \in D(l) :
          [n \in E(l, i) |-> PartOf(p, A(l, i, n))] = [n \in E(k, i) |-> PartOf(p, A(k, i, n))]
    BY <2>4, <2>6
  <2> QED
    BY <2>1, <2>2, <2>7
<1> QED
  BY <1>1, <1>2, <1>3 DEF FullSignature

(* A round splits: what it puts together was together. *)
LEMMA RoundSplits ==
  ASSUME Merging, NEW l \in labels, NEW k \in labels, Refined(parts)[l] = Refined(parts)[k]
  PROVE  parts[l] = parts[k]
BY RefinedTells, MachineLabels DEF Merging, Told

LEMMA RoundKeepsTold ==
  ASSUME Merging
  PROVE  Refined(parts) \in [labels -> labels] /\ Told(Refined(parts))
<1>1. labels \subseteq Names /\ machine \in Machines /\ parts \in [labels -> labels]
  BY MachineLabels DEF Merging
<1>2. Refined(parts) \in [labels -> labels]
  BY <1>1, PartsType DEF Refined
<1>3. ASSUME NEW l \in labels, NEW k \in labels,
             FullSignature(l, Refined(parts)) = FullSignature(k, Refined(parts))
      PROVE  Refined(parts)[l] = Refined(parts)[k]
  <2>1. \A x, y \in labels : Refined(parts)[x] = Refined(parts)[y] => parts[x] = parts[y]
    BY RoundSplits
  <2>2. FullSignature(l, parts) = FullSignature(k, parts)
    BY <1>1, <1>2, <1>3, <2>1, SignatureCoarser
  <2> QED
    BY <1>1, <2>2, RefinedTells
<1> QED
  BY <1>2, <1>3 DEF Told

-----------------------------------------------------------------------------
LEMMA MergingInit == Init => Merging
<1> SUFFICES ASSUME Init PROVE Merging
  OBVIOUS
<1> DEFINE sig == [l \in labels |-> LocalSignature(l)]
<1>1. machine \in Machines /\ parts = PartsBy(sig) /\ pc = "refine"
  BY DEF Init
<1>2. labels \subseteq Names
  BY <1>1, MachineLabels
<1>3. \A l \in labels : sig[l] = LocalSignature(l)
  OBVIOUS
<1> HIDE DEF sig
<1>4. parts \in [labels -> labels]
  BY <1>1, <1>2, PartsType
<1>5. Told(parts)
  <2> SUFFICES ASSUME NEW l \in labels, NEW k \in labels,
                      FullSignature(l, parts) = FullSignature(k, parts)
               PROVE  parts[l] = parts[k]
    BY DEF Told
  <2>1. sig[l] = sig[k]
    BY <1>3 DEF FullSignature
  <2> QED
    BY <1>1, <1>2, <2>1, PartsTell
<1> QED
  BY <1>1, <1>4, <1>5 DEF Merging

(* A step that leaves machine and partition alone, and does not settle. *)
LEMMA MergingStands ==
  ASSUME Merging, UNCHANGED <<machine, parts>>,
         pc = "refine" /\ pc' # "refine" => Refined(parts) = parts
  PROVE  Merging'
<1>1. labels' = labels
  BY DEF labels, states
<1>2. \A l : FullSignature(l, parts)' = FullSignature(l, parts)
  BY <1>1 DEF FullSignature, LocalSignature, ImmediatePart, TargetParts, PartOf, LocalRule,
              labels, states
<1>3. Told(parts)' = Told(parts)
  BY <1>1, <1>2 DEF Told
<1>4. Refined(parts)' = Refined(parts)
  <2>1. [l \in labels |-> FullSignature(l, parts)]' = [l \in labels |-> FullSignature(l, parts)]
    BY <1>1, <1>2
  <2>2. \A sig : PartsBy(sig)' = PartsBy(sig)
    BY <1>1 DEF PartsBy
  <2> QED
    BY <2>1, <2>2 DEF Refined
<1> QED
  BY <1>1, <1>3, <1>4 DEF Merging

LEMMA MergingStep == Merging /\ [Next]_vars => Merging'
<1> SUFFICES ASSUME Merging, [Next]_vars PROVE Merging'
  OBVIOUS
<1>1. CASE Refine
  <2>1. machine' = machine /\ pc = "refine" /\ pc' = "refine" /\ parts' = Refined(parts)
    BY <1>1 DEF Refine
  <2>2. labels' = labels /\ Told(parts)' = Told(Refined(parts))
    BY <2>1 DEF Told, FullSignature, LocalSignature, ImmediatePart, TargetParts,
                PartOf, LocalRule, labels, states
  <2> QED
    BY <2>1, <2>2, RoundKeepsTold DEF Merging
<1>2. CASE Settle
  BY <1>2, MergingStands DEF Settle
<1>3. CASE BuildEntries
  BY <1>3, MergingStands DEF BuildEntries
<1>4. CASE Emit
  BY <1>4, MergingStands DEF Emit
<1>5. ASSUME NEW n \in queue, Visit(n) PROVE Merging'
  BY <1>5, MergingStands DEF Visit
<1>6. CASE Prune
  BY <1>6, MergingStands DEF Prune
<1>7. CASE Validate
  BY <1>7, MergingStands DEF Validate
<1>8. CASE Ended \/ UNCHANGED vars
  BY <1>8, MergingStands DEF Ended, vars
<1> QED
  BY <1>1, <1>2, <1>3, <1>4, <1>5, <1>6, <1>7, <1>8 DEF Next

LEMMA MergingAlways == Spec => []Merging
BY MergingInit, MergingStep, PTL DEF Spec

LEMMA PartsAlike == Merging => MergedBehaveAlike
<1> SUFFICES ASSUME Merging, pc # "refine",
                    NEW l \in labels, NEW k \in labels, parts[l] = parts[k]
             PROVE  /\ LocalSignature(l) = LocalSignature(k)
                    /\ ImmediatePart(l, parts) = ImmediatePart(k, parts)
                    /\ TargetParts(l, parts) = TargetParts(k, parts)
  BY DEF MergedBehaveAlike
<1>1. Refined(parts)[l] = Refined(parts)[k]
  BY DEF Merging
<1>2. FullSignature(l, parts) = FullSignature(k, parts)
  BY <1>1, RefinedTells, MachineLabels DEF Merging
<1> QED
  BY <1>2 DEF FullSignature

(* The states of an emitted part have the same rules, and their rules lead *)
(* to the same parts (the result of minimizeStatesForEmission).            *)
THEOREM MergedAreAlike == Spec => []MergedBehaveAlike
BY PartsAlike, MergingAlways, PTL

(* No step puts together what was told apart, although every round of      *)
(* minimizeStatesForEmission numbers all partitions anew.                  *)
THEOREM RoundsOnlySplit == Spec => OnlySplits
<1>1. Merging /\ [Next]_vars =>
        [\A l, k \in labels : parts'[l] = parts'[k] => parts[l] = parts[k]]_vars
  <2> SUFFICES ASSUME Merging, Next, NEW l \in labels, NEW k \in labels, parts'[l] = parts'[k]
               PROVE  parts[l] = parts[k]
    OBVIOUS
  <2>1. CASE parts' = Refined(parts)
    BY <2>1, RoundSplits
  <2>2. CASE parts' = parts
    BY <2>2
  <2>3. parts' = Refined(parts) \/ parts' = parts
    BY DEF Next, Refine, Settle, BuildEntries, Emit, Visit, Prune, Validate, Ended, vars
  <2> QED
    BY <2>1, <2>2, <2>3
<1> QED
  BY <1>1, MergingAlways, PTL DEF Spec, OnlySplits

-----------------------------------------------------------------------------
(* Why states are told apart.  The pairs of Apart, round by round:          *)
Everyone == labels \cup {NoState} \cup {Follow(l, m) : l \in labels, m \in Moves}
Begun == {p \in Everyone \X Everyone : Distinct(p[1], p[2])}
Found(S) ==
  S \cup {p \in Everyone \X Everyone : \E m \in Moves : <<Follow(p[1], m), Follow(p[2], m)>> \in S}
IsRounds(c, R) == R = [n \in 0..c |-> IF n = 0 THEN Begun ELSE Found(R[n - 1])]

(* A part is named by its first label; there are as many parts as labels    *)
(* that name theirs.                                                        *)
Named(p) ==
  \A l \in labels :
    /\ p[p[l]] = p[l]
    /\ \A k \in labels : p[k] = p[l] => Position(p[l]) <= Position(k)
Namers(p) == {l \in labels : p[l] = l}

(* What n rounds tell apart is apart after n rounds, and a round more needs *)
(* a part more.                                                             *)
Reasoned(p, n) ==
  /\ n + 1 <= Cardinality(Namers(p))
  /\ \A R : IsRounds(Cardinality(labels), R) =>
       \A l, k \in labels : p[l] # p[k] => <<l, k>> \in R[n]

Reasons == Named(parts) /\ \E n \in Nat : Reasoned(parts, n)

LEMMA CountUp ==
  ASSUME NEW T, 0 \in T, \A n \in Nat : n \in T => n + 1 \in T
  PROVE  Nat \subseteq T
<1> SUFFICES ASSUME NEW c \in Nat \ T PROVE FALSE
  OBVIOUS
<1> DEFINE Gaps == Nat \ T
<1>1. Gaps \in SUBSET Nat /\ Gaps # {}
  OBVIOUS
<1>2. PICK n \in Gaps : \A y \in Gaps : n <= y
  <2> HIDE DEF Gaps
  <2> QED
    BY <1>1, LeastOf
<1>3. n \in Nat /\ n # 0 /\ n - 1 \in Nat /\ (n - 1) + 1 = n /\ ~(n <= n - 1)
  OBVIOUS
<1>4. n - 1 \in T
  BY <1>2, <1>3
<1>5. (n - 1) + 1 \in T
  BY <1>3, <1>4
<1> QED
  BY <1>3, <1>5

LEMMA RoundsExist ==
  ASSUME NEW c \in Nat
  PROVE  \E R : IsRounds(c, R)
<1> DEFINE T == {n \in Nat : \E R : IsRounds(n, R)}
<1>1. 0 \in T
  <2> DEFINE R == [n \in 0..0 |-> Begun]
  <2>1. IsRounds(0, R)
    BY DEF IsRounds
  <2> QED
    BY <2>1
<1>2. ASSUME NEW n \in Nat, n \in T PROVE n + 1 \in T
  <2>1. PICK R : IsRounds(n, R)
    BY <1>2
  <2> DEFINE Q == [k \in 0..(n + 1) |-> IF k = n + 1 THEN Found(R[n]) ELSE R[k]]
  <2>2. \A k \in 0..n : R[k] = IF k = 0 THEN Begun ELSE Found(R[k - 1])
    BY <2>1 DEF IsRounds
  <2>3. \A k \in 0..n : k \in 0..(n + 1) /\ k # n + 1
    OBVIOUS
  <2>4. Q[n + 1] = Found(R[n]) /\ \A k \in 0..n : Q[k] = R[k]
    BY <2>3
  <2>5. ASSUME NEW k \in 0..(n + 1)
        PROVE  Q[k] = IF k = 0 THEN Begun ELSE Found(Q[k - 1])
    <3> HIDE DEF Q
    <3>1. CASE k = n + 1
      <4>1. k - 1 = n /\ n \in 0..n /\ k # 0
        BY <3>1
      <4> QED
        BY <3>1, <4>1, <2>4
    <3>2. CASE k \in 0..n /\ k = 0
      BY <3>2, <2>2, <2>4
    <3>3. CASE k \in 0..n /\ k # 0
      <4>1. k - 1 \in 0..n
        BY <3>3
      <4> QED
        BY <3>3, <4>1, <2>2, <2>4
    <3> QED
      BY <3>1, <3>2, <3>3
  <2>6. Q = [k \in 0..(n + 1) |-> Q[k]]
    OBVIOUS
  <2> HIDE DEF Q
  <2>7. IsRounds(n + 1, Q)
    BY <2>5, <2>6 DEF IsRounds
  <2> QED
    BY <2>7
<1> HIDE DEF T
<1>3. c \in T
  BY <1>1, <1>2, CountUp
<1> QED
  BY <1>3 DEF T

LEMMA ApartIsRound ==
  ASSUME Cardinality(labels) \in Nat
  PROVE  \E R : IsRounds(Cardinality(labels), R) /\ Apart = R[Cardinality(labels)]
<1> DEFINE TheRounds == CHOOSE R : IsRounds(Cardinality(labels), R)
<1>1. IsRounds(Cardinality(labels), TheRounds)
  BY RoundsExist
<1>2. Apart = TheRounds[Cardinality(labels)]
  BY DEF Apart, IsRounds, Found, Begun, Everyone
<1> QED
  BY <1>1, <1>2

(* A round forgets no pair.                                                 *)
LEMMA RoundsGrow ==
  ASSUME NEW c \in Nat, NEW R, IsRounds(c, R)
  PROVE  /\ R[0] = Begun
         /\ \A n \in Nat : n < c => R[n + 1] = Found(R[n])
         /\ \A n \in Nat : n <= c => Begun \subseteq R[n]
         /\ \A n \in Nat : n <= c => R[n] \subseteq R[c]
<1>1. \A n \in 0..c : R[n] = IF n = 0 THEN Begun ELSE Found(R[n - 1])
  BY DEF IsRounds
<1>2. R[0] = Begun
  <2>1. 0 \in 0..c
    OBVIOUS
  <2> QED
    BY <1>1, <2>1
<1>3. ASSUME NEW n \in Nat, n < c PROVE R[n + 1] = Found(R[n])
  <2>1. n + 1 \in 0..c /\ n + 1 # 0 /\ (n + 1) - 1 = n
    BY <1>3
  <2> QED
    BY <1>1, <2>1
<1>4. ASSUME NEW n \in Nat, n < c PROVE R[n] \subseteq R[n + 1]
  BY <1>3, <1>4 DEF Found
<1>5. \A n \in Nat : n <= c => Begun \subseteq R[n]
  <2> DEFINE T == {n \in Nat : n <= c => Begun \subseteq R[n]}
  <2>1. 0 \in T
    BY <1>2
  <2>2. ASSUME NEW n \in Nat, n \in T PROVE n + 1 \in T
    <3>1. n + 1 <= c => n < c /\ n <= c
      OBVIOUS
    <3> QED
      BY <1>4, <2>2, <3>1
  <2> HIDE DEF T
  <2>3. Nat \subseteq T
    BY <2>1, <2>2, CountUp
  <2> QED
    BY <2>3 DEF T
<1>6. \A n \in Nat : n <= c => R[n] \subseteq R[c]
  <2> DEFINE T == {d \in Nat : d <= c => R[c - d] \subseteq R[c]}
  <2>1. 0 \in T
    OBVIOUS
  <2>2. ASSUME NEW d \in Nat, d \in T PROVE d + 1 \in T
    <3> SUFFICES ASSUME d + 1 <= c PROVE R[c - (d + 1)] \subseteq R[c]
      OBVIOUS
    <3>1. c - (d + 1) \in Nat /\ c - (d + 1) < c /\ (c - (d + 1)) + 1 = c - d /\ d <= c
      OBVIOUS
    <3>2. R[c - (d + 1)] \subseteq R[c - d]
      BY <1>4, <3>1
    <3> QED
      BY <2>2, <3>1, <3>2
  <2> HIDE DEF T
  <2>3. Nat \subseteq T
    BY <2>1, <2>2, CountUp
  <2>4. ASSUME NEW n \in Nat, n <= c PROVE R[n] \subseteq R[c]
    <3>1. c - n \in Nat /\ c - n <= c /\ c - (c - n) = n
      BY <2>4
    <3> QED
      BY <2>3, <3>1 DEF T
  <2> QED
    BY <2>4
<1> QED
  BY <1>2, <1>3, <1>5, <1>6

-----------------------------------------------------------------------------
LEMMA FirstLeast ==
  ASSUME NEW ls \in SUBSET Names, NEW k \in ls
  PROVE  First(ls) \in ls /\ Position(First(ls)) <= Position(k)
<1> DEFINE T == {Position(l) : l \in ls}
<1>1. T \in SUBSET Nat /\ T # {}
  BY PositionType
<1>2. PICK x \in T : \A y \in T : x <= y
  <2> HIDE DEF T
  <2> QED
    BY <1>1, LeastOf
<1>3. PICK l \in ls : x = Position(l)
  OBVIOUS
<1>4. \A y \in ls : Position(l) <= Position(y)
  BY <1>2, <1>3
<1> QED
  BY <1>4 DEF First

LEMMA PositionOf ==
  ASSUME NEW l \in Names
  PROVE  Order[Position(l)] = l
<1>1. \E i \in 1..Len(Order) : Order[i] = l
  BY SublimeStatesAssumption DEF Names, Range
<1> QED
  BY <1>1 DEF Position

LEMMA LabelsFinite ==
  ASSUME machine \in Machines
  PROVE  IsFiniteSet(labels) /\ Cardinality(labels) \in Nat
<1>1. Order \in Seq(Names)
  BY SublimeStatesAssumption
<1>2. DOMAIN Order = 1..Len(Order) /\ IsFiniteSet(1..Len(Order))
  BY <1>1, FS_Interval
<1>3. Order \in Surjection(DOMAIN Order, Names)
  BY <1>1, <1>2 DEF Surjection, Names, Range
<1>4. IsFiniteSet(Names)
  BY <1>2, <1>3, FS_Surjection
<1> QED
  BY <1>4, MachineLabels, FS_Subset, FS_CardinalityType

(* Parts by a signature are named by their first label.                     *)
LEMMA PartsNamed ==
  ASSUME labels \subseteq Names, NEW sig
  PROVE  Named(PartsBy(sig))
<1> DEFINE Same(x) == {y \in labels : sig[y] = sig[x]}
           p == PartsBy(sig)
<1>1. \A l \in labels : p[l] = First(Same(l)) /\ Same(l) \in SUBSET Names /\ l \in Same(l)
  BY DEF PartsBy
<1> HIDE DEF p
<1>2. \A l \in labels : p[l] \in Same(l)
  BY <1>1, FirstLeast
<1>3. ASSUME NEW l \in labels PROVE p[p[l]] = p[l]
  <2>1. p[l] \in labels /\ Same(p[l]) = Same(l)
    BY <1>2
  <2> QED
    BY <2>1, <1>1
<1>4. ASSUME NEW l \in labels, NEW k \in labels, p[k] = p[l] PROVE Position(p[l]) <= Position(k)
  BY <1>1, <1>4, FirstLeast
<1> QED
  BY <1>3, <1>4 DEF Named, p

(* A round that splits a part has a label more that names its part.         *)
LEMMA SplitsCount ==
  ASSUME machine \in Machines, NEW p \in [labels -> labels], NEW q \in [labels -> labels],
         Named(p), Named(q), p # q,
         \A x, y \in labels : q[x] = q[y] => p[x] = p[y]
  PROVE  /\ Cardinality(Namers(p)) \in Nat /\ Cardinality(Namers(q)) \in Nat
         /\ Cardinality(Namers(p)) + 1 <= Cardinality(Namers(q))
<1>1. labels \subseteq Names /\ IsFiniteSet(labels)
  BY MachineLabels, LabelsFinite
<1>2. ASSUME NEW l \in Namers(p) PROVE l \in Namers(q)
  <2>1. l \in labels /\ p[l] = l /\ q[l] \in labels
    BY DEF Namers
  <2>2. q[q[l]] = q[l] /\ Position(q[l]) <= Position(l)
    BY <2>1 DEF Named
  <2>3. p[q[l]] = p[l]
    BY <2>1, <2>2
  <2>4. Position(p[l]) <= Position(q[l])
    BY <2>1, <2>3 DEF Named
  <2>5. Position(q[l]) \in Nat /\ Position(l) \in Nat
    BY <1>1, <2>1, PositionType
  <2>6. Position(q[l]) = Position(l)
    BY <2>1, <2>2, <2>4, <2>5
  <2>7. q[l] = l
    BY <1>1, <2>1, <2>6, PositionOf
  <2> QED
    BY <2>1, <2>7 DEF Namers
<1>3. PICK l \in labels : q[l] # p[l]
  OBVIOUS
<1>4. q[l] \in Namers(q) /\ q[l] \notin Namers(p)
  <2>1. q[l] \in labels /\ q[q[l]] = q[l]
    BY DEF Named
  <2>2. p[q[l]] = p[l]
    BY <2>1
  <2> QED
    BY <2>1, <2>2, <1>3 DEF Namers
<1>5. Namers(q) \in SUBSET labels /\ Namers(p) \in SUBSET Namers(q) /\ Namers(p) # Namers(q)
  BY <1>2, <1>4 DEF Namers
<1>6. IsFiniteSet(Namers(q)) /\ IsFiniteSet(Namers(p))
  BY <1>1, <1>5, FS_Subset
<1>7. /\ Cardinality(Namers(p)) \in Nat /\ Cardinality(Namers(q)) \in Nat
      /\ Cardinality(Namers(p)) <= Cardinality(Namers(q))
      /\ Cardinality(Namers(p)) # Cardinality(Namers(q))
  BY <1>5, <1>6, FS_Subset, FS_CardinalityType
<1> QED
  BY <1>7

(* A part more can be told apart only by a reason: two states with one       *)
(* local signature and different full ones have references, at one place,   *)
(* to labels of different parts, or to a label and to nothing.              *)
LEMMA RoundHasReason ==
  ASSUME machine \in Machines, NEW p \in [labels -> labels],
         NEW l \in labels, NEW k \in labels, FullSignature(l, p) # FullSignature(k, p)
  PROVE  \/ Distinct(l, k)
         \/ \E m \in Moves :
              \/ Distinct(Follow(l, m), Follow(k, m))
              \/ /\ Follow(l, m) \in labels /\ Follow(k, m) \in labels
                 /\ p[Follow(l, m)] # p[Follow(k, m)]
<1> SUFFICES ASSUME LocalSignature(l) = LocalSignature(k)
             PROVE  \E m \in Moves :
                      \/ Distinct(Follow(l, m), Follow(k, m))
                      \/ /\ Follow(l, m) \in labels /\ Follow(k, m) \in labels
                         /\ p[Follow(l, m)] # p[Follow(k, m)]
  BY DEF Distinct
<1> DEFINE Led(x, y) == Distinct(x, y) \/ (x \in labels /\ y \in labels /\ p[x] # p[y])
<1>1. /\ NoState \notin labels /\ First(labels) \in labels /\ NoState \notin Labels
      /\ states \in [labels -> EditorState]
  BY MachineLabels, FirstIn, SublimeStatesAssumption DEF LanguageMachine, labels, states
<1>2. \A x, y : PartOf(p, x) # PartOf(p, y) => Led(x, y)
  BY DEF PartOf, Distinct
<1>3. \A x : x \in Labels => Led(x, NoState) /\ Led(NoState, x)
  BY <1>1 DEF Distinct
<1> HIDE DEF Led
<1>4. SUFFICES \E m \in Moves : Led(Follow(l, m), Follow(k, m))
  BY DEF Led
<1>5. CASE ImmediatePart(l, p) # ImmediatePart(k, p)
  <2>1. (states[l].imm # NoState) = (states[k].imm # NoState)
    BY DEF LocalSignature
  <2>2. PartOf(p, states[l].imm) # PartOf(p, states[k].imm)
    BY <1>5, <2>1 DEF ImmediatePart
  <2>3. Follow(l, <<0, 0>>) = states[l].imm /\ Follow(k, <<0, 0>>) = states[k].imm
    BY DEF Follow
  <2>4. <<0, 0>> \in Moves
    BY DEF Moves
  <2> QED
    BY <2>2, <2>3, <2>4, <1>2
<1>6. CASE TargetParts(l, p) # TargetParts(k, p)
  <2> DEFINE D(x) == DOMAIN states[x].rules
             E(x, i) == DOMAIN states[x].rules[i].targets
             A(x, i, n) == states[x].rules[i].targets[n]
  <2>1. /\ TargetParts(l, p) = [i \in D(l) |-> [n \in E(l, i) |-> PartOf(p, A(l, i, n))]]
        /\ TargetParts(k, p) = [i \in D(k) |-> [n \in E(k, i) |-> PartOf(p, A(k, i, n))]]
    BY DEF TargetParts
  <2>2. D(l) = D(k)
    <3>1. LocalSignature(l).rules = LocalSignature(k).rules
      OBVIOUS
    <3>2. DOMAIN LocalSignature(l).rules = D(l) /\ DOMAIN LocalSignature(k).rules = D(k)
      BY DEF LocalSignature
    <3> QED
      BY <3>1, <3>2
  <2>3. \A x \in labels : \A i \in D(x) : i # 0 /\ \A n \in E(x, i) : A(x, i, n) \in Labels
    <3> SUFFICES ASSUME NEW x \in labels, NEW i \in D(x)
                 PROVE  i # 0 /\ \A n \in E(x, i) : A(x, i, n) \in Labels
      OBVIOUS
    <3>1. states[x].rules \in Seq(Transition)
      BY <1>1 DEF EditorState
    <3>2. i # 0 /\ states[x].rules[i] \in Transition
      BY <3>1
    <3>3. states[x].rules[i].targets \in Seq(Labels)
      BY <3>2 DEF Transition
    <3> QED
      BY <3>2, <3>3
  <2>4. \A x \in labels : \A i \in D(x) : \A n \in E(x, i) : <<i, n>> \in Moves
    BY DEF Moves
  <2>5. \A x \in labels : \A i, n : i # 0 =>
          Follow(x, <<i, n>>) = IF i \in D(x) /\ n \in E(x, i) THEN A(x, i, n) ELSE NoState
    BY DEF Follow
  <2> HIDE DEF D, E, A
  <2>6. PICK i \in D(l) :
          [n \in E(l, i) |-> PartOf(p, A(l, i, n))] # [n \in E(k, i) |-> PartOf(p, A(k, i, n))]
    BY <1>6, <2>1, <2>2
  <2>7. CASE E(l, i) = E(k, i)
    <3>1. PICK n \in E(l, i) : PartOf(p, A(l, i, n)) # PartOf(p, A(k, i, n))
      BY <2>6, <2>7
    <3>2. Follow(l, <<i, n>>) = A(l, i, n) /\ Follow(k, <<i, n>>) = A(k, i, n)
      BY <2>2, <2>3, <2>5, <2>7
    <3>3. <<i, n>> \in Moves
      BY <2>4
    <3> QED
      BY <3>1, <3>2, <3>3, <1>2
  <2>8. ASSUME NEW n \in E(l, i), n \notin E(k, i)
        PROVE  \E m \in Moves : Led(Follow(l, m), Follow(k, m))
    <3>1. Follow(l, <<i, n>>) \in Labels /\ Follow(k, <<i, n>>) = NoState
      BY <2>3, <2>5, <2>8
    <3>2. <<i, n>> \in Moves
      BY <2>4
    <3> QED
      BY <3>1, <3>2, <1>3
  <2>9. ASSUME NEW n \in E(k, i), n \notin E(l, i)
        PROVE  \E m \in Moves : Led(Follow(l, m), Follow(k, m))
    <3>1. Follow(k, <<i, n>>) \in Labels /\ Follow(l, <<i, n>>) = NoState
      BY <2>2, <2>3, <2>5, <2>9
    <3>2. <<i, n>> \in Moves
      BY <2>2, <2>4
    <3> QED
      BY <3>1, <3>2, <1>3
  <2> QED
    BY <2>7, <2>8, <2>9
<1> QED
  BY <1>5, <1>6 DEF FullSignature

LEMMA ReasonsInit ==
  ASSUME Init
  PROVE  Reasons
<1> DEFINE sig == [l \in labels |-> LocalSignature(l)]
           c == Cardinality(labels)
<1>1. machine \in Machines /\ parts = PartsBy(sig)
  BY DEF Init
<1>2. labels \subseteq Names /\ labels # {} /\ c \in Nat /\ IsFiniteSet(labels)
  BY <1>1, MachineLabels, LabelsFinite
<1>3. \A l \in labels : sig[l] = LocalSignature(l)
  OBVIOUS
<1> HIDE DEF sig, c
<1>4. Named(parts) /\ parts \in [labels -> labels]
  BY <1>1, <1>2, PartsNamed, PartsType
<1>5. 0 + 1 <= Cardinality(Namers(parts))
  <2>1. PICK l \in labels : TRUE
    BY <1>2
  <2>2. parts[l] \in Namers(parts) /\ Namers(parts) \in SUBSET labels
    BY <1>4 DEF Named, Namers
  <2>3. IsFiniteSet(Namers(parts))
    BY <1>2, <2>2, FS_Subset
  <2> QED
    BY <2>2, <2>3, FS_EmptySet, FS_CardinalityType
<1>6. ASSUME NEW R, IsRounds(c, R), NEW l \in labels, NEW k \in labels, parts[l] # parts[k]
      PROVE  <<l, k>> \in R[0]
  <2>1. sig[l] # sig[k]
    BY <1>1, <1>2, <1>6, PartsTell
  <2>2. Distinct(l, k)
    BY <2>1, <1>3 DEF Distinct
  <2>3. <<l, k>> \in Begun
    BY <2>2 DEF Begun, Everyone
  <2> QED
    BY <2>3, <1>2, <1>6, RoundsGrow
<1>7. Reasoned(parts, 0)
  BY <1>5, <1>6 DEF Reasoned, c
<1> QED
  BY <1>4, <1>7 DEF Reasons

(* A round gives the parts it makes a reason one step further away.         *)
LEMMA RoundReasoned ==
  ASSUME Merging, Reasons, Refined(parts) # parts
  PROVE  Named(Refined(parts)) /\ \E n \in Nat : Reasoned(Refined(parts), n)
<1> DEFINE c == Cardinality(labels)
           q == Refined(parts)
<1>1. machine \in Machines /\ parts \in [labels -> labels] /\ Named(parts)
  BY DEF Merging, Reasons
<1>2. labels \subseteq Names /\ c \in Nat /\ IsFiniteSet(labels)
  BY <1>1, MachineLabels, LabelsFinite
<1>3. q \in [labels -> labels] /\ Named(q)
  BY <1>2, RoundKeepsTold, PartsNamed DEF Refined
<1>4. \A x, y \in labels : q[x] = q[y] => parts[x] = parts[y]
  BY RoundSplits
<1>5. \A x, y \in labels : q[x] # q[y] => FullSignature(x, parts) # FullSignature(y, parts)
  BY <1>2, RefinedTells
<1>6. parts # q
  OBVIOUS
<1> HIDE DEF c, q
<1>7. PICK n \in Nat : Reasoned(parts, n)
  BY DEF Reasons
<1>8. /\ Cardinality(Namers(parts)) \in Nat /\ Cardinality(Namers(q)) \in Nat
      /\ Cardinality(Namers(parts)) + 1 <= Cardinality(Namers(q))
  BY <1>1, <1>3, <1>4, <1>6, SplitsCount
<1>9. (n + 1) + 1 <= Cardinality(Namers(q))
  BY <1>7, <1>8 DEF Reasoned
<1>10. Cardinality(Namers(q)) <= c
  <2>1. Namers(q) \in SUBSET labels
    BY DEF Namers
  <2> QED
    BY <2>1, <1>2, FS_Subset DEF c
<1>11. n < c /\ n + 1 <= c /\ n <= c
  BY <1>2, <1>8, <1>9, <1>10
<1>12. ASSUME NEW R, IsRounds(c, R), NEW l \in labels, NEW k \in labels, q[l] # q[k]
       PROVE  <<l, k>> \in R[n + 1]
  <2>1. /\ R[n + 1] = Found(R[n]) /\ Begun \subseteq R[n] /\ Begun \subseteq R[n + 1]
        /\ \A x, y \in labels : parts[x] # parts[y] => <<x, y>> \in R[n]
    BY <1>2, <1>7, <1>11, <1>12, RoundsGrow DEF Reasoned, c
  <2>2. <<l, k>> \in Everyone \X Everyone
    BY DEF Everyone
  <2>3. \A m \in Moves : Follow(l, m) \in Everyone /\ Follow(k, m) \in Everyone
    BY DEF Everyone
  <2>4. CASE Distinct(l, k)
    <3>1. <<l, k>> \in Begun
      BY <2>2, <2>4 DEF Begun
    <3> QED
      BY <2>1, <3>1
  <2>5. CASE ~Distinct(l, k)
    <3>1. PICK m \in Moves :
            \/ Distinct(Follow(l, m), Follow(k, m))
            \/ /\ Follow(l, m) \in labels /\ Follow(k, m) \in labels
               /\ parts[Follow(l, m)] # parts[Follow(k, m)]
      BY <1>1, <1>5, <1>12, <2>5, RoundHasReason
    <3>2. Distinct(Follow(l, m), Follow(k, m)) => <<Follow(l, m), Follow(k, m)>> \in Begun
      BY <2>3 DEF Begun
    <3>3. <<Follow(l, m), Follow(k, m)>> \in R[n]
      BY <2>1, <3>1, <3>2
    <3> QED
      BY <2>1, <2>2, <3>3 DEF Found
  <2> QED
    BY <2>4, <2>5
<1>13. Reasoned(q, n + 1)
  BY <1>9, <1>12 DEF Reasoned, c
<1> QED
  BY <1>3, <1>13 DEF q

LEMMA ReasonsStep == Merging /\ Reasons /\ [Next]_vars => Reasons'
<1> SUFFICES ASSUME Merging, Reasons, [Next]_vars PROVE Reasons'
  OBVIOUS
<1>1. machine' = machine
  BY DEF Next, Refine, Settle, BuildEntries, Emit, Visit, Prune, Validate, Ended, vars
<1>2. (parts' = Refined(parts) /\ Refined(parts) # parts) \/ parts' = parts
  BY DEF Next, Refine, Settle, BuildEntries, Emit, Visit, Prune, Validate, Ended, vars
<1>3. Named(parts') /\ \E n \in Nat : Reasoned(parts', n)
  BY <1>2, RoundReasoned DEF Reasons
<1>4. labels' = labels /\ Namers(parts)' = Namers(parts') /\ Named(parts)' = Named(parts')
  BY <1>1 DEF labels, states, Namers, Named
<1>5. \A l, m : Follow(l, m)' = Follow(l, m)
  BY <1>1 DEF Follow, labels, states
<1>6. Moves' = Moves
  BY <1>1 DEF Moves, labels, states
<1>7. \A l, k : Distinct(l, k)' = Distinct(l, k)
  BY <1>1 DEF Distinct, LocalSignature, LocalRule, labels, states
<1>8. Everyone' = Everyone
  BY <1>4, <1>5, <1>6 DEF Everyone
<1>9. Begun' = Begun /\ \A S : Found(S)' = Found(S)
  BY <1>5, <1>6, <1>7, <1>8 DEF Begun, Found
<1>10. \A c, R : IsRounds(c, R)' = IsRounds(c, R)
  BY <1>9 DEF IsRounds
<1>11. \A n \in Nat : Reasoned(parts, n)' = Reasoned(parts', n)
  BY <1>4, <1>10 DEF Reasoned
<1> QED
  BY <1>3, <1>4, <1>11 DEF Reasons

(* States are told apart only where the same references lead from them to   *)
(* states that are emitted differently: minimizeStatesForEmission leaves    *)
(* no two states that behave alike.                                         *)
THEOREM NothingIsLeftToMerge == Spec => []NothingLeftToMerge
<1>1. Merging /\ Reasons => NothingLeftToMerge
  <2> SUFFICES ASSUME Merging, Reasons, NEW l \in labels, NEW k \in labels, parts[l] # parts[k]
               PROVE  <<l, k>> \in Apart
    BY DEF NothingLeftToMerge
  <2> DEFINE c == Cardinality(labels)
  <2>1. IsFiniteSet(labels) /\ c \in Nat
    BY LabelsFinite DEF Merging
  <2>2. PICK R : IsRounds(c, R) /\ Apart = R[c]
    BY <2>1, ApartIsRound
  <2>3. PICK n \in Nat : Reasoned(parts, n)
    BY DEF Reasons
  <2>4. Namers(parts) \in SUBSET labels
    BY DEF Namers
  <2>5. Cardinality(Namers(parts)) <= c /\ Cardinality(Namers(parts)) \in Nat
    BY <2>1, <2>4, FS_Subset, FS_CardinalityType
  <2>6. n <= c
    BY <2>1, <2>3, <2>5 DEF Reasoned
  <2>7. <<l, k>> \in R[n]
    BY <2>2, <2>3 DEF Reasoned
  <2> QED
    BY <2>1, <2>2, <2>6, <2>7, RoundsGrow
<1> QED
  BY <1>1, ReasonsInit, ReasonsStep, MergingAlways, PTL DEF Spec

-----------------------------------------------------------------------------
(* FlattenSeq counts through prefixes.                                      *)
IsFlat(ss, n, R) == R = [i \in 1..n |-> IF i = 1 THEN ss[i] ELSE R[i - 1] \o ss[i]]

LEMMA FlatExists ==
  ASSUME NEW ss, NEW c \in Nat
  PROVE  \E R : IsFlat(ss, c, R)
<1> DEFINE T == {n \in Nat : \E R : IsFlat(ss, n, R)}
<1>1. 0 \in T
  <2> DEFINE R == [i \in 1..0 |-> ss[i]]
  <2>1. \A i : i \notin 1..0
    OBVIOUS
  <2>2. IsFlat(ss, 0, R)
    BY <2>1 DEF IsFlat
  <2> QED
    BY <2>2
<1>2. ASSUME NEW n \in Nat, n \in T PROVE n + 1 \in T
  <2>1. PICK R : IsFlat(ss, n, R)
    BY <1>2
  <2> DEFINE Q == [k \in 1..(n + 1) |-> IF k = 1 THEN ss[k] ELSE IF k = n + 1 THEN R[n] \o ss[k] ELSE R[k]]
  <2>2. \A k \in 1..n : R[k] = IF k = 1 THEN ss[k] ELSE R[k - 1] \o ss[k]
    BY <2>1 DEF IsFlat
  <2>3. \A k \in 1..n : k \in 1..(n + 1) /\ k # n + 1
    OBVIOUS
  <2>4. /\ n = 0 => Q[n + 1] = ss[n + 1]
        /\ n # 0 => Q[n + 1] = R[n] \o ss[n + 1]
        /\ \A k \in 1..n : Q[k] = R[k]
    <3>1. n + 1 \in 1..(n + 1) /\ (n = 0 <=> n + 1 = 1)
      OBVIOUS
    <3>2. Q[n + 1] = IF n + 1 = 1 THEN ss[n + 1] ELSE R[n] \o ss[n + 1]
      BY <3>1
    <3>3. \A k \in 1..n : Q[k] = R[k]
      <4>1. \A k \in 1..n : Q[k] = IF k = 1 THEN ss[k] ELSE R[k]
        BY <2>3
      <4> HIDE DEF Q
      <4> QED
        BY <2>2, <4>1
    <3> HIDE DEF Q
    <3> QED
      BY <3>1, <3>2, <3>3
  <2>5. ASSUME NEW k \in 1..(n + 1)
        PROVE  Q[k] = IF k = 1 THEN ss[k] ELSE Q[k - 1] \o ss[k]
    <3> HIDE DEF Q
    <3>1. CASE k = n + 1 /\ k = 1
      BY <3>1, <2>4
    <3>2. CASE k = n + 1 /\ k # 1
      <4>1. k - 1 = n /\ n \in 1..n /\ n # 0
        BY <3>2
      <4> QED
        BY <3>2, <4>1, <2>4
    <3>3. CASE k \in 1..n /\ k = 1
      BY <3>3, <2>2, <2>4
    <3>4. CASE k \in 1..n /\ k # 1
      <4>1. k - 1 \in 1..n
        BY <3>4
      <4> QED
        BY <3>4, <4>1, <2>2, <2>4
    <3> QED
      BY <3>1, <3>2, <3>3, <3>4
  <2>6. Q = [k \in 1..(n + 1) |-> Q[k]]
    OBVIOUS
  <2> HIDE DEF Q
  <2>7. IsFlat(ss, n + 1, Q)
    BY <2>5, <2>6 DEF IsFlat
  <2> QED
    BY <2>7
<1> HIDE DEF T
<1>3. c \in T
  BY <1>1, <1>2, CountUp
<1> QED
  BY <1>3 DEF T

LEMMA FlattenIsFlat ==
  ASSUME NEW ss, Len(ss) \in Nat
  PROVE  /\ Len(ss) = 0 => FlattenSeq(ss) = ss
         /\ Len(ss) # 0 => \E R : IsFlat(ss, Len(ss), R) /\ FlattenSeq(ss) = R[Len(ss)]
<1> DEFINE TheFlat == CHOOSE R : IsFlat(ss, Len(ss), R)
<1>1. IsFlat(ss, Len(ss), TheFlat)
  BY FlatExists
<1>2. Len(ss) # 0 => FlattenSeq(ss) = TheFlat[Len(ss)]
  BY DEF FlattenSeq, IsFlat
<1>3. Len(ss) = 0 => FlattenSeq(ss) = ss
  BY DEF FlattenSeq
<1> QED
  BY <1>1, <1>2, <1>3

LEMMA FlatPrefix ==
  ASSUME NEW X, NEW ss \in Seq(Seq(X)), NEW tt, NEW c \in Nat, NEW R, NEW Q,
         IsFlat(ss, Len(ss), R), IsFlat(tt, c, Q), Len(ss) <= c,
         \A i \in 1..Len(ss) : tt[i] = ss[i]
  PROVE  \A i \in 1..Len(ss) : R[i] \in Seq(X) /\ Q[i] = R[i]
<1>1. \A i \in 1..Len(ss) : R[i] = IF i = 1 THEN ss[i] ELSE R[i - 1] \o ss[i]
  BY DEF IsFlat
<1>2. \A i \in 1..c : Q[i] = IF i = 1 THEN tt[i] ELSE Q[i - 1] \o tt[i]
  BY DEF IsFlat
<1> DEFINE T == {n \in Nat : n \in 1..Len(ss) => R[n] \in Seq(X) /\ Q[n] = R[n]}
<1>3. 0 \in T
  OBVIOUS
<1>4. ASSUME NEW n \in Nat, n \in T PROVE n + 1 \in T
  <2> SUFFICES ASSUME n + 1 \in 1..Len(ss) PROVE R[n + 1] \in Seq(X) /\ Q[n + 1] = R[n + 1]
    OBVIOUS
  <2>1. n + 1 \in 1..c /\ ss[n + 1] \in Seq(X) /\ tt[n + 1] = ss[n + 1]
    OBVIOUS
  <2>2. CASE n = 0
    <3>1. R[n + 1] = ss[n + 1] /\ Q[n + 1] = tt[n + 1]
      BY <2>1, <2>2, <1>1, <1>2
    <3> QED
      BY <2>1, <3>1
  <2>3. CASE n # 0
    <3>1. n \in 1..Len(ss) /\ (n + 1) - 1 = n /\ n + 1 # 1
      BY <2>3
    <3>2. R[n + 1] = R[n] \o ss[n + 1] /\ Q[n + 1] = Q[n] \o tt[n + 1]
      BY <2>1, <3>1, <1>1, <1>2
    <3>3. R[n] \in Seq(X) /\ Q[n] = R[n]
      BY <1>4, <3>1
    <3> QED
      BY <2>1, <3>2, <3>3
  <2> QED
    BY <2>2, <2>3
<1> HIDE DEF T
<1>5. Nat \subseteq T
  BY <1>3, <1>4, CountUp
<1> QED
  BY <1>5 DEF T

LEMMA FlattenAppend ==
  ASSUME NEW X, NEW ss \in Seq(Seq(X)), NEW s \in Seq(X)
  PROVE  FlattenSeq(ss) \in Seq(X) /\ FlattenSeq(Append(ss, s)) = FlattenSeq(ss) \o s
<1> DEFINE tt == Append(ss, s)
<1>1. /\ Len(ss) \in Nat /\ Len(tt) = Len(ss) + 1 /\ tt[Len(ss) + 1] = s
      /\ \A i \in 1..Len(ss) : tt[i] = ss[i]
  OBVIOUS
<1> HIDE DEF tt
<1>2. PICK Q : IsFlat(tt, Len(tt), Q) /\ FlattenSeq(tt) = Q[Len(tt)]
  BY <1>1, FlattenIsFlat
<1>3. CASE Len(ss) = 0
  <2>1. ss = <<>> /\ FlattenSeq(ss) = ss
    BY <1>3, FlattenIsFlat
  <2>2. 1 \in 1..Len(tt) /\ Len(tt) = 1
    BY <1>1, <1>3
  <2>3. Q[1] = tt[1] /\ tt[1] = s
    BY <1>1, <1>2, <1>3, <2>2 DEF IsFlat
  <2>4. FlattenSeq(ss) = <<>> /\ FlattenSeq(tt) = s
    BY <1>2, <2>1, <2>2, <2>3
  <2>5. <<>> \o s = s /\ <<>> \in Seq(X)
    OBVIOUS
  <2> QED
    BY <2>4, <2>5 DEF tt
<1>4. CASE Len(ss) # 0
  <2>1. PICK R : IsFlat(ss, Len(ss), R) /\ FlattenSeq(ss) = R[Len(ss)]
    BY <1>1, <1>4, FlattenIsFlat
  <2>2. Len(ss) \in 1..Len(ss) /\ Len(ss) + 1 \in 1..Len(tt) /\ Len(ss) + 1 # 1 /\ Len(ss) <= Len(tt)
        /\ (Len(ss) + 1) - 1 = Len(ss) /\ Len(tt) \in Nat
    BY <1>1, <1>4
  <2>3. R[Len(ss)] \in Seq(X) /\ Q[Len(ss)] = R[Len(ss)]
    BY <1>1, <1>2, <2>1, <2>2, FlatPrefix
  <2>4. Q[Len(ss) + 1] = Q[Len(ss)] \o tt[Len(ss) + 1]
    BY <1>2, <2>2 DEF IsFlat
  <2> QED
    BY <1>1, <1>2, <2>1, <2>3, <2>4 DEF tt
<1> QED
  BY <1>3, <1>4

-----------------------------------------------------------------------------
(* Sequences are equal that have one length and the same members.           *)
LEMMA SameSequence ==
  ASSUME NEW E, NEW a \in Seq(E), NEW F, NEW b \in Seq(F), Len(a) = Len(b),
         \A i \in 1..Len(a) : a[i] = b[i]
  PROVE  a = b
<1>1. a = [i \in 1..Len(a) |-> a[i]]
  OBVIOUS
<1>2. b = [i \in 1..Len(b) |-> b[i]]
  OBVIOUS
<1> QED
  BY <1>1, <1>2

LEMMA LastApart ==
  ASSUME NEW E, NEW a \in Seq(E), NEW n \in Nat, Len(a) = n + 1
  PROVE  \E b \in Seq(E) : \E e \in E :
           a = Append(b, e) /\ Len(b) = n /\ e = a[n + 1] /\ \A i \in 1..n : b[i] = a[i]
<1>1. a # <<>>
  OBVIOUS
<1>2. PICK b \in Seq(E) : \E e \in E : a = Append(b, e)
  BY <1>1, SequenceEmptyOrAppend
<1>3. PICK e \in E : a = Append(b, e)
  BY <1>2
<1>4. /\ Len(a) = Len(b) + 1 /\ a[Len(b) + 1] = e
      /\ \A i \in 1..Len(b) : a[i] = b[i]
  BY <1>3, AppendProperties
<1>5. Len(b) = n
  <2>1. Len(b) \in Nat
    OBVIOUS
  <2> QED
    BY <2>1, <1>4
<1> QED
  BY <1>3, <1>4, <1>5

(* What a function makes of each member, one after another.                 *)
FlatMap(O, a) == FlattenSeq([i \in DOMAIN a |-> O[a[i]]])
Lists(O, E, X) == O \in [E -> Seq(X)]

LEMMA FlatMapAppend ==
  ASSUME NEW X, NEW E, NEW O, Lists(O, E, X), NEW a \in Seq(E), NEW e \in E
  PROVE  FlatMap(O, a) \in Seq(X) /\ FlatMap(O, Append(a, e)) = FlatMap(O, a) \o O[e]
<1> DEFINE f == [i \in DOMAIN a |-> O[a[i]]]
           g == [i \in DOMAIN Append(a, e) |-> O[Append(a, e)[i]]]
<1>1. DOMAIN a = 1..Len(a) /\ Len(a) \in Nat /\ \A i \in 1..Len(a) : O[a[i]] \in Seq(X)
  BY DEF Lists
<1>2. f \in Seq(Seq(X)) /\ Len(f) = Len(a) /\ \A i \in 1..Len(a) : f[i] = O[a[i]]
  BY <1>1
<1>3. /\ Append(a, e) \in Seq(E) /\ Len(Append(a, e)) = Len(a) + 1
      /\ Append(a, e)[Len(a) + 1] = e /\ \A i \in 1..Len(a) : Append(a, e)[i] = a[i]
  OBVIOUS
<1>4. DOMAIN Append(a, e) = 1..(Len(a) + 1)
  BY <1>3
<1>5. \A i \in 1..(Len(a) + 1) : Append(a, e)[i] \in E
  BY <1>3
<1>6. g \in Seq(Seq(X)) /\ Len(g) = Len(a) + 1 /\ \A i \in 1..(Len(a) + 1) : g[i] = O[Append(a, e)[i]]
  BY <1>1, <1>4, <1>5 DEF Lists
<1>7. O[e] \in Seq(X)
  BY DEF Lists
<1> HIDE DEF f, g
<1>8. g = Append(f, O[e])
  <2>1. /\ Append(f, O[e]) \in Seq(Seq(X)) /\ Len(Append(f, O[e])) = Len(a) + 1
        /\ Append(f, O[e])[Len(a) + 1] = O[e] /\ \A i \in 1..Len(a) : Append(f, O[e])[i] = f[i]
    <3> DEFINE Y == Seq(X)
    <3>1. f \in Seq(Y) /\ O[e] \in Y
      BY <1>2, <1>7
    <3> HIDE DEF Y
    <3>2. /\ Append(f, O[e]) \in Seq(Y) /\ Len(Append(f, O[e])) = Len(f) + 1
          /\ Append(f, O[e])[Len(f) + 1] = O[e] /\ \A i \in 1..Len(f) : Append(f, O[e])[i] = f[i]
      BY <3>1, AppendProperties
    <3> QED
      BY <3>2, <1>2 DEF Y
  <2>2. ASSUME NEW i \in 1..(Len(a) + 1) PROVE g[i] = Append(f, O[e])[i]
    <3>1. CASE i = Len(a) + 1
      BY <3>1, <2>1, <1>3, <1>6
    <3>2. CASE i \in 1..Len(a)
      BY <3>2, <2>1, <1>2, <1>3, <1>6
    <3>3. i = Len(a) + 1 \/ i \in 1..Len(a)
      BY <1>1
    <3> QED
      BY <3>1, <3>2, <3>3
  <2>3. Len(g) = Len(Append(f, O[e])) /\ \A i \in 1..Len(g) : g[i] = Append(f, O[e])[i]
    BY <2>1, <2>2, <1>6
  <2>4. g \in Seq(Seq(X)) /\ Append(f, O[e]) \in Seq(Seq(X))
    BY <1>6, <2>1
  <2> QED
    BY <2>3, <2>4, SeqEqual
<1> QED
  BY <1>2, <1>7, <1>8, FlattenAppend DEF FlatMap, f, g

LEMMA FlatMapEmpty ==
  ASSUME NEW O
  PROVE  FlatMap(O, <<>>) = <<>>
<1> DEFINE f == [i \in DOMAIN <<>> |-> O[<<>>[i]]]
<1>1. DOMAIN <<>> = 1..0
  OBVIOUS
<1>2. f = <<>> /\ Len(<<>>) = 0
  BY <1>1
<1> HIDE DEF f
<1> QED
  BY <1>2, FlattenIsFlat DEF FlatMap, f

LEMMA FlatMapOne ==
  ASSUME NEW X, NEW E, NEW O, Lists(O, E, X), NEW e \in E
  PROVE  FlatMap(O, <<e>>) = O[e]
<1>1. <<>> \in Seq(E) /\ Append(<<>>, e) = <<e>> /\ O[e] \in Seq(X)
  BY DEF Lists
<1>2. FlatMap(O, Append(<<>>, e)) = FlatMap(O, <<>>) \o O[e]
  <2>1. \A a \in Seq(E) : FlatMap(O, Append(a, e)) = FlatMap(O, a) \o O[e]
    BY FlatMapAppend
  <2> QED
    BY <2>1, <1>1
<1>3. <<>> \o O[e] = O[e]
  BY <1>1, ConcatEmptySeq
<1> QED
  BY <1>1, <1>2, <1>3, FlatMapEmpty

LEMMA FlatMapConcat ==
  ASSUME NEW X, NEW E, NEW O, Lists(O, E, X), NEW a \in Seq(E), NEW b \in Seq(E)
  PROVE  FlatMap(O, a \o b) = FlatMap(O, a) \o FlatMap(O, b)
<1> DEFINE T == {n \in Nat : \A c \in Seq(E) : Len(c) = n =>
                   FlatMap(O, c) \in Seq(X) /\ FlatMap(O, a \o c) = FlatMap(O, a) \o FlatMap(O, c)}
<1>1. \A c \in Seq(E) : FlatMap(O, c) \in Seq(X)
  <2> SUFFICES ASSUME NEW c \in Seq(E), E # {} PROVE FlatMap(O, c) \in Seq(X)
    <3>1. ASSUME NEW c \in Seq(E), E = {} PROVE c = <<>>
      BY <3>1
    <3> QED
      BY <3>1, FlatMapEmpty
  <2> QED
    BY FlatMapAppend
<1>2. 0 \in T
  <2> SUFFICES ASSUME NEW c \in Seq(E), Len(c) = 0
               PROVE  FlatMap(O, a \o c) = FlatMap(O, a) \o FlatMap(O, c)
    BY <1>1
  <2>1. c = <<>> /\ a \o <<>> = a
    BY ConcatEmptySeq
  <2>2. FlatMap(O, a) \o <<>> = FlatMap(O, a)
    BY <1>1, ConcatEmptySeq
  <2> QED
    BY <2>1, <2>2, FlatMapEmpty
<1>3. ASSUME NEW n \in Nat, n \in T PROVE n + 1 \in T
  <2> SUFFICES ASSUME NEW c \in Seq(E), Len(c) = n + 1
               PROVE  FlatMap(O, a \o c) = FlatMap(O, a) \o FlatMap(O, c)
    BY <1>1
  <2> HIDE DEF T
  <2>1. PICK d \in Seq(E) : \E e \in E :
          c = Append(d, e) /\ Len(d) = n /\ e = c[n + 1] /\ \A i \in 1..n : d[i] = c[i]
    BY LastApart
  <2>2. PICK e \in E : c = Append(d, e) /\ Len(d) = n
    BY <2>1
  <2>3. a \o c = Append(a \o d, e) /\ a \o d \in Seq(E)
    <3>1. /\ a \o d \in Seq(E) /\ <<e>> \in Seq(E)
      BY ConcatProperties
    <3>2. c = d \o <<e>> /\ Append(a \o d, e) = (a \o d) \o <<e>>
      BY <2>2, <3>1, AppendIsConcat
    <3> QED
      BY <3>1, <3>2, ConcatAssociative
  <2>4. FlatMap(O, a \o d) = FlatMap(O, a) \o FlatMap(O, d)
    BY <1>3, <2>2 DEF T
  <2>5. /\ FlatMap(O, a \o c) = FlatMap(O, a \o d) \o O[e]
        /\ FlatMap(O, c) = FlatMap(O, d) \o O[e]
    <3>1. \A u \in Seq(E) : FlatMap(O, Append(u, e)) = FlatMap(O, u) \o O[e]
      BY FlatMapAppend
    <3> QED
      BY <2>2, <2>3, <3>1
  <2>6. FlatMap(O, a) \in Seq(X) /\ FlatMap(O, d) \in Seq(X) /\ O[e] \in Seq(X)
    BY <1>1 DEF Lists
  <2>7. (FlatMap(O, a) \o FlatMap(O, d)) \o O[e] = FlatMap(O, a) \o (FlatMap(O, d) \o O[e])
    <3> DEFINE u == FlatMap(O, a)
               v == FlatMap(O, d)
               w == O[e]
    <3>1. u \in Seq(X) /\ v \in Seq(X) /\ w \in Seq(X)
      BY <2>6
    <3> HIDE DEF u, v, w
    <3>2. (u \o v) \o w = u \o (v \o w)
      BY <3>1, ConcatAssociative, Z3T(30)
    <3> QED
      BY <3>2 DEF u, v, w
  <2> QED
    BY <2>4, <2>5, <2>7, Zenon
<1> HIDE DEF T
<1>4. Nat \subseteq T
  BY <1>2, <1>3, CountUp
<1>5. Len(b) \in T
  BY <1>4
<1> QED
  BY <1>5 DEF T

(* Where the function makes one thing of each member, the lengths agree.    *)
Mapped(f, E, X) == f \in [E -> X]
Makes(O, f, a) == \A i \in 1..Len(a) : O[a[i]] = <<f[a[i]]>>

LEMMA FlatMapSingles ==
  ASSUME NEW X, NEW E, NEW O, Lists(O, E, X), NEW f, Mapped(f, E, X),
         NEW a \in Seq(E), Makes(O, f, a)
  PROVE  FlatMap(O, a) \in Seq(X) /\ Len(FlatMap(O, a)) = Len(a)
         /\ \A i \in 1..Len(a) : FlatMap(O, a)[i] = f[a[i]]
<1> USE DEF Mapped
<1> DEFINE Single(c) == \A i \in 1..Len(c) : O[c[i]] = <<f[c[i]]>>
           Right(c) == /\ FlatMap(O, c) \in Seq(X) /\ Len(FlatMap(O, c)) = Len(c)
                       /\ \A i \in 1..Len(c) : FlatMap(O, c)[i] = f[c[i]]
           T == {n \in Nat : \A c \in Seq(E) : Len(c) = n /\ Single(c) => Right(c)}
<1>1. 0 \in T
  <2> SUFFICES ASSUME NEW c \in Seq(E), Len(c) = 0 PROVE Right(c)
    OBVIOUS
  <2>1. c = <<>> /\ <<>> \in Seq(X) /\ Len(<<>>) = 0 /\ \A i : i \notin 1..0
    OBVIOUS
  <2>2. FlatMap(O, c) = <<>>
    BY <2>1, FlatMapEmpty
  <2> QED
    BY <2>1, <2>2
<1>2. ASSUME NEW n \in Nat, n \in T PROVE n + 1 \in T
  <2> HIDE DEF Single, Right
  <2> SUFFICES ASSUME NEW c \in Seq(E), Len(c) = n + 1, Single(c)
               PROVE  Right(c)
    OBVIOUS
  <2> HIDE DEF T
  <2> USE DEF Single, Right
  <2>1. PICK d \in Seq(E) : \E e \in E :
          c = Append(d, e) /\ Len(d) = n /\ e = c[n + 1] /\ \A i \in 1..n : d[i] = c[i]
    BY LastApart
  <2>2. PICK e \in E : c = Append(d, e) /\ Len(d) = n /\ e = c[n + 1] /\ \A i \in 1..n : d[i] = c[i]
    BY <2>1
  <2>3. \A i \in 1..n : i \in 1..Len(c)
    OBVIOUS
  <2>4. \A i \in 1..Len(d) : O[d[i]] = <<f[d[i]]>>
    BY <2>2, <2>3
  <2>5. /\ FlatMap(O, d) \in Seq(X) /\ Len(FlatMap(O, d)) = n
        /\ \A i \in 1..n : FlatMap(O, d)[i] = f[d[i]]
    BY <1>2, <2>2, <2>4 DEF T
  <2>6. O[e] = <<f[e]>> /\ f[e] \in X
    <3>1. n + 1 \in 1..Len(c)
      OBVIOUS
    <3> QED
      BY <3>1, <2>2
  <2>7. FlatMap(O, c) = Append(FlatMap(O, d), f[e])
    <3>1. \A u \in Seq(E) : FlatMap(O, Append(u, e)) = FlatMap(O, u) \o O[e]
      BY FlatMapAppend
    <3>2. FlatMap(O, c) = FlatMap(O, d) \o O[e]
      BY <2>2, <3>1
    <3>3. Append(FlatMap(O, d), f[e]) = FlatMap(O, d) \o <<f[e]>>
      BY <2>5, <2>6, AppendIsConcat
    <3> QED
      BY <3>2, <3>3, <2>6, Zenon
  <2>8. /\ FlatMap(O, c) \in Seq(X) /\ Len(FlatMap(O, c)) = n + 1
        /\ FlatMap(O, c)[n + 1] = f[e] /\ \A i \in 1..n : FlatMap(O, c)[i] = FlatMap(O, d)[i]
    BY <2>5, <2>6, <2>7, AppendProperties
  <2>9. ASSUME NEW i \in 1..Len(c) PROVE FlatMap(O, c)[i] = f[c[i]]
    <3>1. i = n + 1 \/ i \in 1..n
      OBVIOUS
    <3> QED
      BY <3>1, <2>2, <2>5, <2>8
  <2> QED
    BY <2>8, <2>9
<1> HIDE DEF T
<1>3. Nat \subseteq T
  BY <1>1, <1>2, CountUp
<1>4. Len(a) \in T
  BY <1>3
<1> QED
  BY <1>4 DEF T, Makes

-----------------------------------------------------------------------------
(* The runs of a list.  Every entry is in a run, which ends.                *)
LEMMA RunEnds ==
  ASSUME NEW es, Len(es) \in Nat, NEW i \in 1..Len(es)
  PROVE  /\ LastOfRun(es, i) \in i..Len(es)
         /\ LastOfRun(es, i) = Len(es) \/ StartsRun(es, LastOfRun(es, i) + 1)
         /\ \A k \in (i + 1)..LastOfRun(es, i) : ~StartsRun(es, k)
<1> DEFINE Ends(j) == j = Len(es) \/ StartsRun(es, j + 1)
           T == {j \in i..Len(es) : Ends(j)}
<1>1. T \in SUBSET Nat /\ T # {}
  <2>1. Len(es) \in T
    OBVIOUS
  <2> QED
    BY <2>1
<1>2. PICK j \in T : \A k \in T : j <= k
  <2> HIDE DEF T
  <2> QED
    BY <1>1, LeastOf
<1>3. ASSUME NEW k \in (i + 1)..j PROVE ~StartsRun(es, k)
  <2>1. k - 1 \in i..Len(es) /\ k - 1 < j /\ (k - 1) + 1 = k
    BY <1>2
  <2>2. k - 1 \notin T
    <3>1. k - 1 \in Int /\ j \in Int /\ ~(j <= k - 1)
      BY <1>2, <2>1
    <3> HIDE DEF T
    <3> QED
      BY <1>2, <3>1
  <2> QED
    BY <2>1, <2>2
<1>4. \E x \in i..Len(es) :
        /\ x = Len(es) \/ StartsRun(es, x + 1)
        /\ \A k \in (i + 1)..x : ~StartsRun(es, k)
  BY <1>2, <1>3
<1> QED
  BY <1>4 DEF LastOfRun

LEMMA RunEndsOnce ==
  ASSUME NEW es, Len(es) \in Nat, NEW i \in 1..Len(es), NEW j \in i..Len(es),
         j = Len(es) \/ StartsRun(es, j + 1),
         \A k \in (i + 1)..j : ~StartsRun(es, k)
  PROVE  LastOfRun(es, i) = j
<1> DEFINE x == LastOfRun(es, i)
<1>1. /\ x \in i..Len(es)
      /\ x = Len(es) \/ StartsRun(es, x + 1)
      /\ \A k \in (i + 1)..x : ~StartsRun(es, k)
  BY RunEnds
<1> HIDE DEF x
<1>2. ~(x < j)
  <2> SUFFICES ASSUME x < j PROVE FALSE
    OBVIOUS
  <2>1. x + 1 \in (i + 1)..j /\ x # Len(es)
    BY <1>1
  <2> QED
    BY <1>1, <2>1
<1>3. ~(j < x)
  <2> SUFFICES ASSUME j < x PROVE FALSE
    OBVIOUS
  <2>1. j + 1 \in (i + 1)..x /\ j # Len(es)
    BY <1>1
  <2> QED
    BY <1>1, <2>1
<1> QED
  BY <1>1, <1>2, <1>3 DEF x

LEMMA RunIs ==
  ASSUME NEW E, NEW es \in Seq(E), NEW i \in 1..Len(es)
  PROVE  /\ Run(es, i) \in Seq(E)
         /\ Len(Run(es, i)) = LastOfRun(es, i) - i + 1
         /\ \A k \in 1..Len(Run(es, i)) : i + k - 1 \in 1..Len(es) /\ Run(es, i)[k] = es[i + k - 1]
<1> DEFINE x == LastOfRun(es, i)
<1>1. x \in i..Len(es) /\ Len(es) \in Nat
  BY RunEnds
<1>2. \A k \in i..x : es[k] \in E
  BY <1>1
<1>3. Run(es, i) = SubSeq(es, i, x)
  BY DEF Run
<1> HIDE DEF x
<1>4. /\ SubSeq(es, i, x) \in Seq(E)
      /\ Len(SubSeq(es, i, x)) = x - i + 1
      /\ \A k \in 1..(x - i + 1) : SubSeq(es, i, x)[k] = es[i + k - 1]
  BY <1>1, <1>2, SubSeqProperties
<1> QED
  BY <1>1, <1>3, <1>4 DEF x

-----------------------------------------------------------------------------
(* Merging keeps what a list offers: what becomes of each place of a list   *)
(* is appended in turn, and whatever has been appended offers the list up   *)
(* to the end of a run.                                                     *)
Piece(es, l, i) ==
  CASE i \in Branches(es) -> <<BranchPoint(es, l, i)>>
    [] StartsRun(es, i) /\ i \notin Branches(es) -> Run(es, i)
    [] OTHER -> <<>>
Pieces(es, l) == [i \in 1..Len(es) |-> Piece(es, l, i)]
Bits(es, l) == {es[i] : i \in 1..Len(es)} \cup {BranchPoint(es, l, i) : i \in Branches(es)}
Offers(es) == {Offer(es[i]) : i \in 1..Len(es)}
OffersOf(es, l) == [e \in Bits(es, l) |-> OfferedBy(e)]
Counted(m) == [i \in 1..m |-> i]

Matches(es) == \A i \in 1..Len(es) : es[i].kind = "match"
ArmsHold(es, l) ==
  \A i \in Branches(es) : \A k \in 1..Len(Run(es, i)) : contexts[Arm(l, i, k)] = <<Run(es, i)[k]>>

LEMMA PiecesType ==
  ASSUME NEW E, NEW es \in Seq(E), NEW l
  PROVE  /\ Lists(Pieces(es, l), 1..Len(es), Bits(es, l))
         /\ \A i \in 1..Len(es) : Run(es, i) \in Seq({es[j] : j \in 1..Len(es)})
<1> DEFINE F == {es[j] : j \in 1..Len(es)}
<1>1. es \in Seq(F)
  OBVIOUS
<1> HIDE DEF F
<1>2. \A i \in 1..Len(es) : Run(es, i) \in Seq(F)
  BY <1>1, RunIs
<1>3. F \subseteq Bits(es, l)
  BY DEF F, Bits
<1>4. \A i \in 1..Len(es) : Run(es, i) \in Seq(Bits(es, l))
  <2> SUFFICES ASSUME NEW i \in 1..Len(es) PROVE Run(es, i) \in Seq(Bits(es, l))
    OBVIOUS
  <2> DEFINE r == Run(es, i)
  <2>1. r \in Seq(F)
    BY <1>2
  <2> HIDE DEF r
  <2>2. \A k \in 1..Len(r) : r[k] \in Bits(es, l)
    BY <2>1, <1>3
  <2> QED
    BY <2>1, <2>2 DEF r
<1>5. ASSUME NEW i \in 1..Len(es) PROVE Piece(es, l, i) \in Seq(Bits(es, l))
  <2>1. CASE i \in Branches(es)
    <3>1. BranchPoint(es, l, i) \in Bits(es, l)
      BY <2>1 DEF Bits
    <3>2. Piece(es, l, i) = <<BranchPoint(es, l, i)>>
      BY <2>1 DEF Piece
    <3> QED
      BY <3>1, <3>2
  <2>2. CASE i \notin Branches(es) /\ StartsRun(es, i)
    <3>1. Piece(es, l, i) = Run(es, i)
      BY <2>2 DEF Piece
    <3> QED
      BY <3>1, <1>4
  <2>3. CASE i \notin Branches(es) /\ ~StartsRun(es, i)
    <3>1. Piece(es, l, i) = <<>>
      BY <2>3 DEF Piece
    <3> QED
      BY <3>1
  <2> QED
    BY <2>1, <2>2, <2>3
<1> QED
  BY <1>2, <1>5 DEF F, Lists, Pieces

LEMMA ArmOffers ==
  ASSUME NEW E, NEW es \in Seq(E), NEW l, ArmsHold(es, l), NEW i \in Branches(es)
  PROVE  /\ OfferedBy(BranchPoint(es, l, i)) \in Seq(Offers(es))
         /\ Len(OfferedBy(BranchPoint(es, l, i))) = Len(Run(es, i))
         /\ \A k \in 1..Len(Run(es, i)) : OfferedBy(BranchPoint(es, l, i))[k] = Offer(Run(es, i)[k])
<1> DEFINE r == Run(es, i)
           b == BranchPoint(es, l, i)
<1>1. i \in 1..Len(es)
  BY DEF Branches
<1>2. /\ r \in Seq(E) /\ Len(r) \in Nat /\ DOMAIN r = 1..Len(r)
      /\ \A k \in 1..Len(r) : i + k - 1 \in 1..Len(es) /\ r[k] = es[i + k - 1]
  BY <1>1, RunIs
<1>3. \A k \in 1..Len(r) : contexts[Arm(l, i, k)] = <<r[k]>>
  BY DEF ArmsHold
<1> HIDE DEF r
<1>4. b.kind = "branch" /\ b.arms = [k \in 1..Len(r) |-> Arm(l, i, k)]
  BY <1>2 DEF BranchPoint, r
<1> HIDE DEF b
<1>5. OfferedBy(b) = [k \in DOMAIN b.arms |-> Offer(contexts[b.arms[k]][1])]
  BY <1>4 DEF OfferedBy
<1>6. OfferedBy(b) = [k \in 1..Len(r) |-> Offer(r[k])]
  BY <1>3, <1>4, <1>5
<1>7. \A k \in 1..Len(r) : Offer(r[k]) \in Offers(es)
  BY <1>2 DEF Offers
<1> QED
  BY <1>2, <1>6, <1>7 DEF r, b

LEMMA OffersType ==
  ASSUME NEW E, NEW es \in Seq(E), NEW l, Matches(es), ArmsHold(es, l)
  PROVE  /\ Lists(OffersOf(es, l), Bits(es, l), Offers(es))
         /\ \A i \in 1..Len(es) : OffersOf(es, l)[es[i]] = <<Offer(es[i])>>
         /\ \A i \in Branches(es) : OffersOf(es, l)[BranchPoint(es, l, i)] = OfferedBy(BranchPoint(es, l, i))
<1>1. \A i \in 1..Len(es) : OfferedBy(es[i]) = <<Offer(es[i])>> /\ es[i] \in Bits(es, l)
  BY DEF OfferedBy, Matches, Bits
<1>2. \A i \in 1..Len(es) : <<Offer(es[i])>> \in Seq(Offers(es))
  <2>1. \A i \in 1..Len(es) : Offer(es[i]) \in Offers(es)
    BY DEF Offers
  <2> HIDE DEF Offer
  <2> QED
    BY <2>1
<1>3. \A i \in Branches(es) : BranchPoint(es, l, i) \in Bits(es, l)
  BY DEF Bits
<1>4. \A i \in Branches(es) : OfferedBy(BranchPoint(es, l, i)) \in Seq(Offers(es))
  BY ArmOffers
<1>5. \A e \in Bits(es, l) : OfferedBy(e) \in Seq(Offers(es))
  BY <1>1, <1>2, <1>4 DEF Bits
<1> QED
  BY <1>1, <1>3, <1>5 DEF Lists, OffersOf

(* The piece at the start of a run offers the run.                          *)
LEMMA PieceOffers ==
  ASSUME NEW E, NEW es \in Seq(E), NEW l, Matches(es), ArmsHold(es, l),
         NEW i \in 1..Len(es), StartsRun(es, i)
  PROVE  LET q == FlatMap(OffersOf(es, l), Piece(es, l, i)) IN
         /\ q \in Seq(Offers(es)) /\ Len(q) = Len(Run(es, i))
         /\ \A k \in 1..Len(Run(es, i)) : q[k] = Offer(Run(es, i)[k])
<1> DEFINE O == OffersOf(es, l)
           r == Run(es, i)
<1>1. /\ Lists(O, Bits(es, l), Offers(es))
      /\ \A j \in 1..Len(es) : O[es[j]] = <<Offer(es[j])>> /\ es[j] \in Bits(es, l)
      /\ \A j \in Branches(es) : /\ O[BranchPoint(es, l, j)] = OfferedBy(BranchPoint(es, l, j))
                                 /\ BranchPoint(es, l, j) \in Bits(es, l)
  BY OffersType DEF Bits
<1>2. /\ r \in Seq(E) /\ Len(r) \in Nat
      /\ \A k \in 1..Len(r) : i + k - 1 \in 1..Len(es) /\ r[k] = es[i + k - 1]
  BY RunIs
<1> HIDE DEF O, r
<1>3. CASE i \in Branches(es)
  <2>1. FlatMap(O, <<BranchPoint(es, l, i)>>) = O[BranchPoint(es, l, i)]
    BY <1>1, <1>3, FlatMapOne
  <2>2. Piece(es, l, i) = <<BranchPoint(es, l, i)>>
    BY <1>3 DEF Piece
  <2>3. FlatMap(O, Piece(es, l, i)) = OfferedBy(BranchPoint(es, l, i))
    BY <2>1, <2>2, <1>1, <1>3
  <2> QED
    BY <2>3, <1>3, ArmOffers DEF O, r
<1>4. CASE i \notin Branches(es)
  <2> DEFINE X == Offers(es)
             B == Bits(es, l)
             f == [e \in B |-> IF \E j \in 1..Len(es) : e = es[j] THEN Offer(e) ELSE CHOOSE x \in X : TRUE]
  <2>1. X # {}
    BY DEF Offers
  <2>2. f \in [B -> X]
    BY <2>1 DEF Offers
  <2>3. \A j \in 1..Len(es) : f[es[j]] = Offer(es[j])
    BY <1>1
  <2> HIDE DEF X, B, f
  <2>4. Piece(es, l, i) = r
    BY <1>4 DEF Piece, r
  <2>5. r \in Seq(B)
    <3>1. \A k \in 1..Len(r) : r[k] \in B
      BY <1>1, <1>2 DEF B
    <3>2. r = [k \in 1..Len(r) |-> r[k]]
      BY <1>2
    <3>3. r \in [1..Len(r) -> B]
      BY <3>1, <3>2
    <3>4. [1..Len(r) -> B] \subseteq UNION {[1..n -> B] : n \in Nat}
      BY <1>2
    <3> QED
      BY <3>3, <3>4, SeqDef
  <2>6. \A k \in 1..Len(r) : O[r[k]] = <<f[r[k]]>> /\ f[r[k]] = Offer(r[k])
    <3> SUFFICES ASSUME NEW k \in 1..Len(r)
                 PROVE  O[r[k]] = <<f[r[k]]>> /\ f[r[k]] = Offer(r[k])
      OBVIOUS
    <3>1. PICK j \in 1..Len(es) : r[k] = es[j]
      BY <1>2
    <3>2. O[es[j]] = <<Offer(es[j])>> /\ f[es[j]] = Offer(es[j])
      BY <1>1, <2>3
    <3> QED
      BY <3>1, <3>2
  <2>7. Lists(O, B, X)
    BY <1>1 DEF B, X
  <2>8. Mapped(f, B, X) /\ Makes(O, f, r)
    BY <2>2, <2>6 DEF Mapped, Makes
  <2>9. /\ FlatMap(O, r) \in Seq(X) /\ Len(FlatMap(O, r)) = Len(r)
        /\ \A k \in 1..Len(r) : FlatMap(O, r)[k] = f[r[k]]
    BY <2>5, <2>7, <2>8, FlatMapSingles
  <2> QED
    BY <2>4, <2>6, <2>9 DEF O, r, X
<1> QED
  BY <1>3, <1>4

LEMMA CountedMore ==
  ASSUME NEW n \in Nat, NEW m \in Nat, m <= n
  PROVE  /\ Counted(m) \in Seq(1..n)
         /\ m < n => Counted(m + 1) = Append(Counted(m), m + 1)
<1>1. \A k \in Nat : k <= n => Counted(k) \in Seq(1..n) /\ Len(Counted(k)) = k /\ \A i \in 1..k : Counted(k)[i] = i
  BY DEF Counted
<1>2. ASSUME m < n PROVE Counted(m + 1) = Append(Counted(m), m + 1)
  <2> DEFINE a == Counted(m)
             b == Counted(m + 1)
             c == Append(a, m + 1)
  <2>1. a \in Seq(1..n) /\ Len(a) = m /\ \A i \in 1..m : a[i] = i
    BY <1>1
  <2>2. b \in Seq(1..n) /\ Len(b) = m + 1 /\ \A i \in 1..(m + 1) : b[i] = i
    BY <1>1, <1>2
  <2> HIDE DEF a, b
  <2>3. m + 1 \in 1..n
    BY <1>2
  <2>4. c \in Seq(1..n) /\ Len(c) = m + 1 /\ c[m + 1] = m + 1 /\ \A i \in 1..m : c[i] = i
    BY <2>1, <2>3
  <2> HIDE DEF c
  <2>5. \A i \in 1..(m + 1) : b[i] = c[i]
    <3>1. \A i \in 1..(m + 1) : i \in 1..m \/ i = m + 1
      OBVIOUS
    <3> QED
      BY <2>2, <2>4, <3>1
  <2>6. b = c
    BY <2>2, <2>4, <2>5, SameSequence
  <2> QED
    BY <2>6 DEF a, b, c
<1> QED
  BY <1>1, <1>2

(* What the list offers is what was merged into it, in its order.           *)
LEMMA MergedOffers ==
  ASSUME NEW E, NEW es \in Seq(E), NEW l, Matches(es), ArmsHold(es, l)
  PROVE  /\ Merged(es, l) \in Seq(Bits(es, l))
         /\ FlatMap(OffersOf(es, l), Merged(es, l)) = [i \in 1..Len(es) |-> Offer(es[i])]
<1> DEFINE O == OffersOf(es, l)
           P == Pieces(es, l)
           B == Bits(es, l)
           X == Offers(es)
           n == Len(es)
           End(m) == IF m = 0 THEN 0 ELSE LastOfRun(es, m)
           Got(m) == FlatMap(P, Counted(m))
           Right(m) == /\ FlatMap(O, Got(m)) \in Seq(X) /\ Len(FlatMap(O, Got(m))) = End(m)
                       /\ \A j \in 1..End(m) : FlatMap(O, Got(m))[j] = Offer(es[j])
           T == {m \in Nat : m <= n => Got(m) \in Seq(B) /\ Right(m)}
<1>1. n \in Nat /\ Lists(O, B, X) /\ Lists(P, 1..n, B)
  BY OffersType, PiecesType
<1>2. \A i \in 1..n : P[i] = Piece(es, l, i) /\ P[i] \in Seq(B)
  <2>1. \A i \in 1..n : P[i] \in Seq(B)
    BY <1>1 DEF Lists
  <2> QED
    BY <2>1 DEF Pieces
<1> HIDE DEF O, P, B, X, n
<1>3. 0 \in T
  <2>1. Counted(0) = <<>>
    BY CountedMore DEF Counted
  <2>2. Got(0) = <<>> /\ FlatMap(O, <<>>) = <<>>
    BY <2>1, FlatMapEmpty
  <2>3. <<>> \in Seq(B) /\ <<>> \in Seq(X) /\ Len(<<>>) = 0 /\ \A j : j \notin 1..0
    OBVIOUS
  <2>4. End(0) = 0
    OBVIOUS
  <2> HIDE DEF Got, End
  <2>5. Got(0) \in Seq(B) /\ Right(0)
    BY <2>2, <2>3, <2>4
  <2> QED
    BY <2>5
<1>4. ASSUME NEW m \in Nat, m \in T PROVE m + 1 \in T
  <2> SUFFICES ASSUME m + 1 <= n PROVE Got(m + 1) \in Seq(B) /\ Right(m + 1)
    OBVIOUS
  <2>1. /\ m <= n /\ m < n /\ m + 1 \in 1..n /\ Counted(m) \in Seq(1..n)
        /\ Counted(m + 1) = Append(Counted(m), m + 1)
    <3>1. m <= n /\ m < n /\ m + 1 \in 1..n
      BY <1>1
    <3> HIDE DEF T, End
    <3> QED
      BY <1>1, <3>1, CountedMore
  <2>2. Got(m) \in Seq(B) /\ Right(m)
    BY <1>4, <2>1
  <2> HIDE DEF T
  <2>3. Got(m + 1) = Got(m) \o P[m + 1]
    <3>1. \A u \in Seq(1..n) : FlatMap(P, Append(u, m + 1)) = FlatMap(P, u) \o P[m + 1]
      BY <1>1, <2>1, FlatMapAppend
    <3> QED
      BY <2>1, <3>1
  <2>4. Got(m + 1) \in Seq(B)
    BY <1>2, <2>1, <2>2, <2>3, ConcatProperties
  <2> DEFINE q == FlatMap(O, Got(m))
             r == FlatMap(O, P[m + 1])
             s == FlatMap(O, Got(m + 1))
  <2>5. s = q \o r
    <3> HIDE DEF Got
    <3>1. FlatMap(O, Got(m) \o P[m + 1]) = q \o r
      BY <1>1, <1>2, <2>1, <2>2, FlatMapConcat
    <3> QED
      BY <3>1, <2>3
  <2>6. q \in Seq(X) /\ Len(q) = End(m) /\ \A j \in 1..End(m) : q[j] = Offer(es[j])
    BY <2>2
  <2> HIDE DEF q, r, s, Got
  <2>7. CASE ~StartsRun(es, m + 1)
    <3>1. m # 0
      BY <2>7 DEF StartsRun
    <3>2. m \in 1..Len(es) /\ Len(es) \in Nat
      BY <2>1, <3>1 DEF n
    <3>3. /\ LastOfRun(es, m) \in m..Len(es)
          /\ LastOfRun(es, m) = Len(es) \/ StartsRun(es, LastOfRun(es, m) + 1)
          /\ \A k \in (m + 1)..LastOfRun(es, m) : ~StartsRun(es, k)
      BY <3>2, RunEnds
    <3>4. LastOfRun(es, m) \in (m + 1)..Len(es)
      BY <2>1, <2>7, <3>3 DEF n
    <3>5. \A k \in ((m + 1) + 1)..LastOfRun(es, m) : ~StartsRun(es, k)
      BY <3>3, <3>4
    <3>6. LastOfRun(es, m + 1) = LastOfRun(es, m)
      BY <2>1, <3>2, <3>3, <3>4, <3>5, RunEndsOnce DEF n
    <3>7. End(m + 1) = End(m)
      BY <3>1, <3>6
    <3>8. P[m + 1] = <<>>
      BY <1>2, <2>1, <2>7 DEF Piece, Branches
    <3>9. r = <<>>
      BY <3>8, FlatMapEmpty DEF r
    <3>10. s = q
      BY <2>5, <2>6, <3>9, ConcatEmptySeq
    <3> QED
      BY <2>4, <2>6, <3>7, <3>10 DEF s
  <2>8. CASE StartsRun(es, m + 1)
    <3>1. End(m) = m
      <4>1. CASE m = 0
        BY <4>1
      <4>2. CASE m # 0
        <5>1. m \in 1..Len(es) /\ Len(es) \in Nat /\ m \in m..Len(es) /\ \A k : k \notin (m + 1)..m
          BY <2>1, <4>2 DEF n
        <5>2. LastOfRun(es, m) = m
          BY <2>8, <5>1, RunEndsOnce
        <5> QED
          BY <4>2, <5>2
      <4> QED
        BY <4>1, <4>2
    <3>2. /\ r \in Seq(X) /\ Len(r) = Len(Run(es, m + 1))
          /\ \A k \in 1..Len(Run(es, m + 1)) : r[k] = Offer(Run(es, m + 1)[k])
      BY <1>2, <2>1, <2>8, PieceOffers DEF r, O, X, n
    <3>3. /\ Len(Run(es, m + 1)) = LastOfRun(es, m + 1) - (m + 1) + 1
          /\ \A k \in 1..Len(Run(es, m + 1)) : Run(es, m + 1)[k] = es[(m + 1) + k - 1]
      BY <2>1, RunIs DEF n
    <3>4. LastOfRun(es, m + 1) \in (m + 1)..n /\ End(m + 1) = LastOfRun(es, m + 1)
      BY <1>1, <2>1, RunEnds DEF n
    <3>5. /\ s \in Seq(X) /\ Len(s) = Len(q) + Len(r)
          /\ \A j \in 1..(Len(q) + Len(r)) : s[j] = IF j <= Len(q) THEN q[j] ELSE r[j - Len(q)]
      BY <2>5, <2>6, <3>2, ConcatProperties
    <3>6. Len(q) = m /\ Len(r) = End(m + 1) - m
      BY <1>1, <2>6, <3>1, <3>2, <3>3, <3>4
    <3>7. Len(s) = End(m + 1)
      BY <1>1, <3>4, <3>5, <3>6
    <3>8. ASSUME NEW j \in 1..End(m + 1) PROVE s[j] = Offer(es[j])
      <4>1. s[j] = IF j <= m THEN q[j] ELSE r[j - m]
        BY <1>1, <3>4, <3>5, <3>6, <3>8
      <4>2. CASE j <= m
        BY <4>1, <4>2, <2>6, <3>1, <3>4
      <4>3. CASE ~(j <= m)
        <5>1. j - m \in 1..Len(Run(es, m + 1)) /\ (m + 1) + (j - m) - 1 = j
          BY <1>1, <4>3, <3>2, <3>4, <3>6
        <5>2. Run(es, m + 1)[j - m] = es[j]
          BY <5>1, <3>3
        <5>3. r[j - m] = Offer(Run(es, m + 1)[j - m])
          BY <5>1, <3>2
        <5> QED
          BY <4>1, <4>3, <5>2, <5>3
      <4> QED
        BY <4>2, <4>3
    <3> QED
      BY <2>4, <3>5, <3>7, <3>8 DEF s
  <2> QED
    BY <2>7, <2>8
<1> HIDE DEF T
<1>5. n \in T
  BY <1>1, <1>3, <1>4, CountUp
<1>6. Got(n) \in Seq(B) /\ Right(n)
  BY <1>1, <1>5 DEF T
<1>7. End(n) = n
  <2>1. CASE n = 0
    BY <2>1
  <2>2. CASE n # 0
    <3>1. n \in 1..n
      BY <1>1, <2>2
    <3>2. LastOfRun(es, n) \in n..n
      BY <3>1, <1>1, RunEnds DEF n
    <3> QED
      BY <2>2, <3>2, <1>1
  <2> QED
    BY <2>1, <2>2
<1>8. Merged(es, l) = Got(n)
  <2>1. DOMAIN es = 1..n /\ DOMAIN Counted(n) = 1..n /\ \A i \in 1..n : Counted(n)[i] = i
    BY DEF n, Counted
  <2>2. [i \in DOMAIN es |->
          CASE i \in Branches(es) -> <<BranchPoint(es, l, i)>>
            [] StartsRun(es, i) /\ i \notin Branches(es) -> Run(es, i)
            [] OTHER -> <<>>] = [i \in DOMAIN Counted(n) |-> P[Counted(n)[i]]]
    BY <2>1 DEF P, Pieces, Piece, n
  <2> QED
    BY <2>2 DEF Merged, FlatMap
<1>9. FlatMap(O, Got(n)) = [i \in 1..n |-> Offer(es[i])]
  <2> DEFINE q == FlatMap(O, Got(n))
  <2>1. q \in Seq(X) /\ Len(q) = n /\ \A j \in 1..n : q[j] = Offer(es[j])
    BY <1>6, <1>7
  <2> HIDE DEF q
  <2>2. q = [i \in 1..n |-> q[i]]
    BY <2>1
  <2> QED
    BY <2>1, <2>2 DEF q
<1> QED
  BY <1>6, <1>8, <1>9 DEF O, B, n

(* Every member of what is appended is a member of the whole.               *)
LEMMA FlatMapHas ==
  ASSUME NEW X, NEW E, NEW O, Lists(O, E, X), NEW a \in Seq(E),
         NEW i \in 1..Len(a), NEW k \in 1..Len(O[a[i]])
  PROVE  \E j \in 1..Len(FlatMap(O, a)) : FlatMap(O, a)[j] = O[a[i]][k]
<1> DEFINE Has(c, x) == \E j \in 1..Len(FlatMap(O, c)) : FlatMap(O, c)[j] = x
           T == {n \in Nat : \A c \in Seq(E) : Len(c) = n =>
                   \A x \in 1..n : \A y \in 1..Len(O[c[x]]) : Has(c, O[c[x]][y])}
<1>0. \A u \in Seq(E) : \A v \in E : FlatMap(O, Append(u, v)) = FlatMap(O, u) \o O[v]
  BY FlatMapAppend
<1>1. 0 \in T
  OBVIOUS
<1>2. ASSUME NEW n \in Nat, n \in T PROVE n + 1 \in T
  <2>0. n + 1 \in Nat
    OBVIOUS
  <2> SUFFICES ASSUME NEW c \in Seq(E), Len(c) = n + 1, NEW x \in 1..(n + 1),
                      NEW y \in 1..Len(O[c[x]])
               PROVE  Has(c, O[c[x]][y])
    <3> HIDE DEF Has
    <3> QED
      BY <2>0, Zenon
  <2>1. PICK d \in Seq(E) : \E e \in E :
          c = Append(d, e) /\ Len(d) = n /\ e = c[n + 1] /\ \A j \in 1..n : d[j] = c[j]
    <3> HIDE DEF T
    <3> QED
      BY LastApart
  <2>2. PICK e \in E : c = Append(d, e) /\ Len(d) = n /\ e = c[n + 1] /\ \A j \in 1..n : d[j] = c[j]
    BY <2>1
  <2>3. x \in 1..n => Has(d, O[d[x]][y])
    <3> HIDE DEF Has
    <3>1. \A z \in 1..n : \A v \in 1..Len(O[d[z]]) : Has(d, O[d[z]][v])
      BY <1>2, <2>2
    <3>2. x \in 1..n => d[x] = c[x]
      BY <2>2
    <3> QED
      BY <3>1, <3>2
  <2> HIDE DEF T
  <2> DEFINE q == FlatMap(O, d)
             w == O[e]
             s == FlatMap(O, c)
  <2>4. s = q \o w /\ q \in Seq(X)
    <3>1. FlatMap(O, d) \in Seq(X)
      BY FlatMapAppend
    <3> QED
      BY <1>0, <2>2, <3>1
  <2>5. w \in Seq(X)
    BY DEF Lists
  <2> USE DEF Has
  <2>6. x \in 1..n => \E j \in 1..Len(q) : q[j] = O[c[x]][y]
    BY <2>2, <2>3
  <2>7. x = n + 1 => y \in 1..Len(w) /\ w[y] = O[c[x]][y]
    BY <2>2
  <2> DEFINE z == O[c[x]][y]
  <2> HIDE DEF q, w, s, z, Has
  <2>8. /\ Len(s) = Len(q) + Len(w) /\ Len(q) \in Nat /\ Len(w) \in Nat
        /\ \A j \in 1..Len(q) : s[j] = q[j]
        /\ \A j \in 1..Len(w) : s[Len(q) + j] = w[j]
    <3>1. s \in Seq(X) /\ Len(s) = Len(q) + Len(w)
          /\ \A j \in 1..(Len(q) + Len(w)) : s[j] = IF j <= Len(q) THEN q[j] ELSE w[j - Len(q)]
      BY <2>4, <2>5, ConcatProperties
    <3>2. Len(q) \in Nat /\ Len(w) \in Nat
      BY <2>4, <2>5
    <3>3. \A j \in 1..Len(q) : j \in 1..(Len(q) + Len(w)) /\ j <= Len(q)
      BY <3>2
    <3>4. \A j \in 1..Len(w) : /\ Len(q) + j \in 1..(Len(q) + Len(w)) /\ ~(Len(q) + j <= Len(q))
                               /\ (Len(q) + j) - Len(q) = j
      BY <3>2
    <3> QED
      BY <3>1, <3>2, <3>3, <3>4
  <2>9. \E j \in 1..Len(s) : s[j] = z
    <3>1. CASE x \in 1..n
      <4>1. PICK j \in 1..Len(q) : q[j] = z
        BY <2>6, <3>1 DEF z
      <4>2. j \in 1..Len(s)
        BY <2>8
      <4> QED
        BY <4>1, <4>2, <2>8
    <3>2. CASE x = n + 1
      <4>1. y \in 1..Len(w) /\ w[y] = z
        BY <2>7, <3>2 DEF z
      <4>2. Len(q) + y \in 1..Len(s)
        BY <4>1, <2>8
      <4> QED
        BY <4>1, <4>2, <2>8
    <3> QED
      BY <3>1, <3>2
  <2> QED
    BY <2>9 DEF s, z, Has
<1> HIDE DEF T
<1>3. Len(a) \in T
  BY <1>1, <1>2, CountUp
<1>4. Has(a, O[a[i]][k])
  BY <1>3 DEF T
<1> QED
  BY <1>4

(* A merged list has every branch point that it should have.                *)
LEMMA MergedPoints ==
  ASSUME NEW E, NEW es \in Seq(E), NEW l
  PROVE  /\ Merged(es, l) \in Seq(Bits(es, l))
         /\ \A i \in Branches(es) :
              \E j \in 1..Len(Merged(es, l)) : Merged(es, l)[j] = BranchPoint(es, l, i)
<1> DEFINE P == Pieces(es, l)
           B == Bits(es, l)
           n == Len(es)
           c == Counted(n)
<1>1. n \in Nat /\ Lists(P, 1..n, B)
  BY PiecesType
<1>2. c \in Seq(1..n) /\ DOMAIN c = 1..n /\ Len(c) = n /\ \A i \in 1..n : c[i] = i
  <2>1. c \in Seq(1..n)
    BY <1>1, CountedMore
  <2> QED
    BY <1>1, <2>1 DEF Counted
<1>3. Merged(es, l) = FlatMap(P, c)
  <2>1. DOMAIN es = 1..n
    OBVIOUS
  <2>2. [i \in DOMAIN es |->
          CASE i \in Branches(es) -> <<BranchPoint(es, l, i)>>
            [] StartsRun(es, i) /\ i \notin Branches(es) -> Run(es, i)
            [] OTHER -> <<>>] = [i \in DOMAIN c |-> P[c[i]]]
    BY <1>2, <2>1 DEF Pieces, Piece
  <2> QED
    BY <2>2 DEF Merged, FlatMap
<1>4. FlatMap(P, c) \in Seq(B)
  <2> HIDE DEF P, B, c
  <2>1. CASE n = 0
    <3>1. c = <<>>
      BY <1>2, <2>1
    <3>2. <<>> \in Seq(B)
      OBVIOUS
    <3> QED
      BY <3>1, <3>2, FlatMapEmpty
  <2>2. CASE n # 0
    <3>1. 1 \in 1..n
      BY <1>1, <2>2
    <3> HIDE DEF n
    <3> QED
      BY <1>1, <1>2, <3>1, FlatMapAppend
  <2> QED
    BY <2>1, <2>2
<1>5. ASSUME NEW i \in Branches(es)
      PROVE  \E j \in 1..Len(FlatMap(P, c)) : FlatMap(P, c)[j] = BranchPoint(es, l, i)
  <2>1. i \in 1..n
    BY DEF Branches
  <2>2. P[c[i]] = <<BranchPoint(es, l, i)>>
    BY <1>2, <2>1, <1>5 DEF Pieces, Piece
  <2> DEFINE b == BranchPoint(es, l, i)
  <2> HIDE DEF P, B, c, b
  <2>3. Len(P[c[i]]) = 1 /\ 1 \in 1..Len(P[c[i]]) /\ P[c[i]][1] = b
    BY <2>2 DEF b
  <2>4. i \in 1..Len(c)
    BY <1>2, <2>1
  <2> HIDE DEF n
  <2>5. \E j \in 1..Len(FlatMap(P, c)) : FlatMap(P, c)[j] = P[c[i]][1]
    BY <1>1, <1>2, <2>3, <2>4, FlatMapHas
  <2> QED
    BY <2>3, <2>5 DEF b
<1> QED
  BY <1>3, <1>4, <1>5

-----------------------------------------------------------------------------
(* A part has a representative, and one only.                               *)
LEMMA RepresentativeIs ==
  ASSUME machine \in Machines, NEW p, NEW l \in labels
  PROVE  Representative(p, l) \in labels /\ p[Representative(p, l)] = p[l]
<1> DEFINE S == {k \in labels : p[k] = p[l]}
<1>0. \A k \in labels : k \in Names /\ Length[k] \in Nat /\ Position(k) \in Nat
  BY SublimeStatesAssumption, MachineLabels, PositionType
<1>1. \E r \in S : \A k \in S : Preferred(r, k)
  <2>1. CASE Main \in S
    <3>1. \A k \in S : Preferred(Main, k)
      BY DEF Preferred
    <3> QED
      BY <2>1, <3>1
  <2>2. CASE Main \notin S
    <3> DEFINE T == {Length[k] : k \in S}
    <3>1. T \in SUBSET Nat /\ T # {}
      BY <1>0
    <3>2. PICK x \in T : \A y \in T : x <= y
      <4> HIDE DEF T
      <4> QED
        BY <3>1, LeastOf
    <3> DEFINE U == {Position(k) : k \in {j \in S : Length[j] = x}}
    <3>3. U \in SUBSET Nat /\ U # {}
      BY <1>0, <3>2
    <3>4. PICK z \in U : \A y \in U : z <= y
      <4> HIDE DEF U
      <4> QED
        BY <3>3, LeastOf
    <3>5. PICK r \in S : Length[r] = x /\ Position(r) = z
      OBVIOUS
    <3>6. ASSUME NEW k \in S PROVE Preferred(r, k)
      <4>1. k # Main /\ x <= Length[k] /\ Length[k] \in Nat /\ x \in Nat
        BY <1>0, <2>2, <3>2, <3>1
      <4>2. Length[k] = x => z <= Position(k)
        BY <3>4
      <4>3. CASE Length[k] = x
        BY <4>1, <4>2, <4>3, <3>5 DEF Preferred
      <4>4. CASE Length[k] # x
        <5>1. Length[r] < Length[k]
          BY <4>1, <4>4, <3>5
        <5> QED
          BY <4>1, <5>1 DEF Preferred
      <4> QED
        BY <4>3, <4>4
    <3> QED
      BY <3>6
  <2> QED
    BY <2>1, <2>2
<1>2. \E r \in S : \A k \in labels : p[k] = p[l] => Preferred(r, k)
  BY <1>1
<1> QED
  BY <1>2 DEF Representative

LEMMA RepresentativesAgree ==
  ASSUME NEW p, NEW l, NEW k, p[l] = p[k]
  PROVE  Representative(p, l) = Representative(p, k)
BY DEF Representative

-----------------------------------------------------------------------------
(* What the steps of the emission leave behind, each for the next.          *)
Chosen == pc # "refine" => rep = [l \in labels |-> Representative(parts, l)]
Listed ==
  pc \notin {"refine", "merged"} => base = [l \in representatives |-> Merged(BaseEntries(l), l)]
Filled ==
  pc \in {"prune", "validate", "done", "panic"} =>
    /\ reached \subseteq DOMAIN contexts
    /\ \A n \in DOMAIN contexts : contexts[n] = EntriesOf(n)
Complete == pc = "done" => \A n \in DOMAIN contexts : ReferencedBy(n) \subseteq DOMAIN contexts

Emission == Chosen /\ Listed /\ Filled /\ Complete

LEMMA EmissionInit == Init => Emission
BY DEF Init, Emission, Chosen, Listed, Filled, Complete

(* The lists of contexts depend on nothing that a later step changes.       *)
LEMMA ListsStand ==
  ASSUME UNCHANGED <<machine, rep>>
  PROVE  /\ labels' = labels /\ states' = states /\ representatives' = representatives
         /\ \A l : BaseEntries(l)' = BaseEntries(l)
         /\ \A l : SourceEntries(l)' = SourceEntries(l)
<1>1. labels' = labels /\ states' = states /\ representatives' = representatives
  BY DEF labels, states, representatives
<1>2. \A l : Renamed(l)' = Renamed(l)
  BY <1>1 DEF Renamed
<1>3. \A t, r : Targets(t, r)' = Targets(t, r)
  BY <1>2 DEF Targets
<1>4. \A t, l, r : ParserIdle(t, l, r)' = ParserIdle(t, l, r)
  BY <1>3 DEF ParserIdle
<1>5. \A t, l, r : EffectOf(t, l, r)' = EffectOf(t, l, r)
  BY <1>3, <1>4 DEF EffectOf
<1>6. \A t, l, r : Entry(t, l, r)' = Entry(t, l, r)
  BY <1>5 DEF Entry
<1>7. \A ts, l, r : Entries(ts, l, r)' = Entries(ts, l, r)
  BY <1>6 DEF Entries
<1>8. \A l : BaseEntries(l)' = BaseEntries(l)
  BY <1>1, <1>7 DEF BaseEntries
<1>9. \A l : SourceEntries(l)' = SourceEntries(l)
  BY <1>7, <1>8 DEF SourceEntries
<1> QED
  BY <1>1, <1>8, <1>9

LEMMA ContextsStand ==
  ASSUME UNCHANGED <<machine, rep, base>>
  PROVE  /\ ContextsMap' = ContextsMap
         /\ \A n : EntriesOf(n)' = EntriesOf(n)
<1>1. /\ labels' = labels /\ states' = states /\ representatives' = representatives
      /\ \A l : SourceEntries(l)' = SourceEntries(l)
  BY ListsStand
<1>2. \A l : Sharing(l)' = Sharing(l)
  BY <1>1 DEF Sharing
<1>3. \A l : IsShared(l)' = IsShared(l)
  BY <1>2 DEF IsShared
<1>4. \A l : Body(l)' = Body(l)
  BY <1>2, <1>3 DEF Body
<1>5. \A t : Targets(t, TRUE)' = Targets(t, TRUE)
  <2>1. \A l : Renamed(l)' = Renamed(l)
    BY <1>1 DEF Renamed
  <2> QED
    BY <2>1 DEF Targets
<1>6. \A l : Incoming(representatives, l)' = Incoming(representatives, l)
  <2> DEFINE Into(l, k) == {u \in Range(states[k].rules) : l \in Range(Targets(u, TRUE))}
             Edges(l, k) == {[op |-> t.op, meta |-> states[k].meta] : t \in Into(l, k)}
  <2>1. ASSUME NEW l, NEW k PROVE Into(l, k)' = Into(l, k)
    <3>1. \A u : Range(Targets(u, TRUE))' = Range(Targets(u, TRUE))
      BY <1>5
    <3>2. Range(states[k].rules)' = Range(states[k].rules)
      BY <1>1
    <3>3. \A u : u \in Into(l, k)' <=> u \in Range(states[k].rules)' /\ l \in Range(Targets(u, TRUE))'
      OBVIOUS
    <3>4. \A u : u \in Into(l, k) <=> u \in Range(states[k].rules) /\ l \in Range(Targets(u, TRUE))
      OBVIOUS
    <3>5. \A u : u \in Into(l, k)' <=> u \in Into(l, k)
      BY <3>1, <3>2, <3>3, <3>4
    <3> QED
      BY <3>5
  <2> HIDE DEF Into
  <2>2. \A l, k : Edges(l, k)' = Edges(l, k)
    BY <1>1, <2>1
  <2>3. \A l : Incoming(representatives, l) = UNION {Edges(l, k) : k \in representatives}
    BY DEF Incoming, Into
  <2>4. \A l : Incoming(representatives, l)' = UNION {Edges(l, k)' : k \in representatives'}
    BY DEF Incoming, Into
  <2> HIDE DEF Edges
  <2> QED
    BY <1>1, <2>2, <2>3, <2>4
<1>7. \A l : MetaScope(representatives, l)' = MetaScope(representatives, l)
  BY <1>1, <1>6 DEF MetaScope
<1>8. \A s : Immediate(s)' = Immediate(s)
  BY <1>1 DEF Immediate, Renamed
<1>9. \A l : Context(l)' = Context(l)
  BY <1>1, <1>4, <1>7, <1>8 DEF Context
<1>10. \A n : EntriesOf(n)' = EntriesOf(n)
  BY <1>1, <1>9 DEF EntriesOf
<1>11. Sources' = Sources
  BY <1>1 DEF Sources
<1>12. ContextNames' = ContextNames
  BY <1>1, <1>2, <1>3, <1>11 DEF ContextNames
<1> QED
  BY <1>10, <1>12 DEF ContextsMap

LEMMA EmissionStep == Emission /\ [Next]_vars => Emission'
<1> SUFFICES ASSUME Emission, [Next]_vars PROVE Emission'
  OBVIOUS
<1>1. CASE Refine
  BY <1>1 DEF Refine, Emission, Chosen, Listed, Filled, Complete
<1>2. CASE Settle
  <2>1. labels' = labels /\ parts' = parts /\ \A p, l : Representative(p, l)' = Representative(p, l)
    BY <1>2 DEF Settle, labels, states, Representative
  <2>2. Chosen'
    BY <1>2, <2>1 DEF Settle, Chosen
  <2> QED
    BY <1>2, <2>2 DEF Settle, Emission, Listed, Filled, Complete
<1> DEFINE Kept == UNCHANGED <<machine, parts, rep>> /\ pc # "refine" /\ pc' # "refine"
<1>3. ASSUME Kept PROVE Chosen'
  <2>1. labels' = labels /\ \A p, l : Representative(p, l)' = Representative(p, l)
    BY <1>3 DEF labels, states, Representative
  <2> QED
    BY <1>3, <2>1 DEF Emission, Chosen
<1>4. ASSUME Kept, base' = base, pc \notin {"refine", "merged"} PROVE Listed'
  <2>1. representatives' = representatives /\ \A l : BaseEntries(l)' = BaseEntries(l)
    BY <1>4, ListsStand
  <2>2. \A l : Merged(BaseEntries(l), l)' = Merged(BaseEntries(l), l)
    BY <2>1
  <2> QED
    BY <1>4, <2>1, <2>2 DEF Emission, Listed
<1>5. CASE BuildEntries
  <2>1. Kept /\ UNCHANGED <<machine, rep>>
    BY <1>5 DEF BuildEntries
  <2>2. representatives' = representatives /\ \A l : BaseEntries(l)' = BaseEntries(l)
    BY <2>1, ListsStand
  <2>3. \A l : Merged(BaseEntries(l), l)' = Merged(BaseEntries(l), l)
    BY <2>2
  <2>4. Listed'
    BY <1>5, <2>2, <2>3 DEF BuildEntries, Listed
  <2> QED
    BY <1>3, <1>5, <2>1, <2>4 DEF BuildEntries, Emission, Filled, Complete
<1>6. CASE Emit
  <2>1. Kept /\ UNCHANGED <<machine, rep, base>> /\ pc \notin {"refine", "merged"}
    BY <1>6 DEF Emit
  <2>2. contexts' = ContextsMap /\ \A n : EntriesOf(n)' = EntriesOf(n)
    BY <1>6, <2>1, ContextsStand DEF Emit
  <2>3. \A n \in DOMAIN contexts' : contexts'[n] = EntriesOf(n)
    BY <2>2 DEF ContextsMap
  <2>4. Filled'
    BY <1>6, <2>2, <2>3 DEF Emit, Filled
  <2>5. pc' # "done"
    BY <1>6 DEF Emit
  <2> QED
    BY <1>3, <1>4, <2>1, <2>4, <2>5 DEF Emission, Complete
<1>7. ASSUME Kept, UNCHANGED <<machine, rep, base>>, pc \in {"prune", "validate", "done", "panic"},
             DOMAIN contexts' \subseteq DOMAIN contexts, \A n \in DOMAIN contexts' : contexts'[n] = contexts[n],
             reached' \subseteq DOMAIN contexts'
      PROVE  Chosen' /\ Listed' /\ Filled'
  <2>1. \A n : EntriesOf(n)' = EntriesOf(n)
    BY <1>7, ContextsStand
  <2>2. \A n \in DOMAIN contexts' : contexts'[n] = EntriesOf(n)'
    BY <1>7, <2>1 DEF Emission, Filled
  <2>3. Filled'
    BY <1>7, <2>2 DEF Filled
  <2> QED
    BY <1>3, <1>4, <1>7, <2>3
<1>8. ASSUME NEW n \in queue, Visit(n) PROVE Emission'
  <2>1. Chosen' /\ Listed' /\ Filled'
    BY <1>7, <1>8 DEF Visit, Emission, Filled
  <2> QED
    BY <1>8, <2>1 DEF Visit, Emission, Complete
<1>9. CASE Prune
  <2>1. Chosen' /\ Listed' /\ Filled'
    BY <1>7, <1>9 DEF Prune, Emission, Filled
  <2> QED
    BY <1>9, <2>1 DEF Prune, Emission, Complete
<1>10. CASE Validate
  <2>1. Chosen' /\ Listed' /\ Filled'
    BY <1>7, <1>10 DEF Validate, Emission, Filled
  <2>2. Complete'
    BY <1>10 DEF Validate, Complete, ReferencedBy
  <2> QED
    BY <2>1, <2>2 DEF Emission
<1>11. CASE UNCHANGED vars
  <2>1. CASE pc = "refine"
    BY <1>11, <2>1 DEF vars, Emission, Chosen, Listed, Filled, Complete
  <2>2. CASE pc = "merged"
    BY <1>3, <1>11, <2>2 DEF vars, Emission, Listed, Filled, Complete
  <2>3. CASE pc \notin {"refine", "merged"}
    <3>1. Chosen' /\ Listed'
      BY <1>3, <1>4, <1>11, <2>3 DEF vars
    <3>2. pc \in {"prune", "validate", "done", "panic"} => Filled'
      BY <1>7, <1>11, <2>3 DEF vars, Emission, Filled
    <3>3. pc \notin {"prune", "validate", "done", "panic"} => Filled'
      BY <1>11 DEF vars, Filled
    <3>4. Complete'
      BY <1>11 DEF vars, Emission, Complete, ReferencedBy
    <3> QED
      BY <3>1, <3>2, <3>3, <3>4 DEF Emission
  <2> QED
    BY <2>1, <2>2, <2>3
<1> QED
  BY <1>1, <1>2, <1>5, <1>6, <1>8, <1>9, <1>10, <1>11 DEF Next, Ended

LEMMA EmissionAlways == Spec => [](Merging /\ Emission)
<1>1. Init => Emission
  BY EmissionInit
<1>2. Emission /\ [Next]_vars => Emission'
  BY EmissionStep
<1>3. Spec => []Emission
  BY <1>1, <1>2, PTL DEF Spec
<1> QED
  BY <1>3, MergingAlways, PTL

-----------------------------------------------------------------------------
(* The scope that a context inherits.                                       *)
LEMMA StateTyped ==
  ASSUME machine \in Machines, NEW l \in labels
  PROVE  states[l] \in EditorState /\ states[l].rules \in Seq(Transition)
<1>1. LanguageMachine(machine)
  BY SublimeStatesAssumption
<1>2. states[l] \in EditorState
  BY <1>1 DEF LanguageMachine, labels, states
<1> QED
  BY <1>2 DEF EditorState

LEMMA RepresentativesAre ==
  ASSUME Merging, Emission, pc # "refine"
  PROVE  /\ representatives \subseteq labels
         /\ \A l \in labels : rep[l] \in representatives /\ rep[l] \in labels /\ parts[rep[l]] = parts[l]
         /\ \A l, k \in labels : parts[l] = parts[k] => rep[l] = rep[k]
<1>1. DOMAIN rep = labels /\ \A l \in labels : rep[l] = Representative(parts, l)
  BY DEF Emission, Chosen
<1>2. \A l \in labels : rep[l] \in labels /\ parts[rep[l]] = parts[l]
  BY <1>1, RepresentativeIs DEF Merging
<1>3. \A l, k \in labels : parts[l] = parts[k] => rep[l] = rep[k]
  BY <1>1, RepresentativesAgree
<1>4. representatives = {rep[l] : l \in labels}
  BY <1>1 DEF representatives, Range
<1> QED
  BY <1>2, <1>3, <1>4

(* A target that is in the machine stands in a rule of one state where an    *)
(* alike target stands in the rule of another.                              *)
LEMMA AlikeRules ==
  ASSUME Merging, pc # "refine", NEW l \in labels, NEW k \in labels, parts[l] = parts[k],
         NEW i \in 1..Len(states[l].rules)
  PROVE  /\ Len(states[k].rules) = Len(states[l].rules)
         /\ states[k].meta = states[l].meta
         /\ states[k].rules[i].op = states[l].rules[i].op
         /\ DOMAIN states[k].rules[i].targets = DOMAIN states[l].rules[i].targets
         /\ \A n \in DOMAIN states[l].rules[i].targets :
              PartOf(parts, states[k].rules[i].targets[n]) = PartOf(parts, states[l].rules[i].targets[n])
<1> DEFINE r == states[l].rules
           s == states[k].rules
<1>1. r \in Seq(Transition) /\ s \in Seq(Transition)
  BY StateTyped DEF Merging
<1>2. LocalSignature(l) = LocalSignature(k) /\ TargetParts(l, parts) = TargetParts(k, parts)
  BY PartsAlike DEF MergedBehaveAlike
<1>3. /\ LocalSignature(l).meta = states[l].meta /\ LocalSignature(k).meta = states[k].meta
      /\ LocalSignature(l).rules = [x \in DOMAIN r |-> LocalRule(r[x])]
      /\ LocalSignature(k).rules = [x \in DOMAIN s |-> LocalRule(s[x])]
  BY DEF LocalSignature
<1>4. /\ TargetParts(l, parts) = [x \in DOMAIN r |-> [n \in DOMAIN r[x].targets |-> PartOf(parts, r[x].targets[n])]]
      /\ TargetParts(k, parts) = [x \in DOMAIN s |-> [n \in DOMAIN s[x].targets |-> PartOf(parts, s[x].targets[n])]]
  BY DEF TargetParts
<1> HIDE DEF r, s
<1>5. states[l].meta = states[k].meta
  BY <1>2, <1>3
<1>6. [x \in DOMAIN r |-> LocalRule(r[x])] = [x \in DOMAIN s |-> LocalRule(s[x])]
  BY <1>2, <1>3
<1>7. DOMAIN r = DOMAIN s
  BY <1>6
<1>8. Len(s) = Len(r)
  BY <1>1, <1>7
<1>9. i \in DOMAIN r /\ i \in DOMAIN s
  BY <1>1, <1>7 DEF r
<1>10. LocalRule(r[i]) = LocalRule(s[i])
  BY <1>6, <1>9
<1>11. r[i].op = s[i].op
  BY <1>10 DEF LocalRule
<1>12. [n \in DOMAIN r[i].targets |-> PartOf(parts, r[i].targets[n])]
         = [n \in DOMAIN s[i].targets |-> PartOf(parts, s[i].targets[n])]
  <2> DEFINE R(x) == [n \in DOMAIN r[x].targets |-> PartOf(parts, r[x].targets[n])]
             S(x) == [n \in DOMAIN s[x].targets |-> PartOf(parts, s[x].targets[n])]
  <2>1. TargetParts(l, parts) = [x \in DOMAIN r |-> R(x)] /\ TargetParts(k, parts) = [x \in DOMAIN s |-> S(x)]
    BY <1>4
  <2> HIDE DEF R, S
  <2>2. [x \in DOMAIN r |-> R(x)] = [x \in DOMAIN s |-> S(x)]
    BY <1>2, <2>1
  <2>3. R(i) = S(i)
    BY <1>9, <2>2
  <2> QED
    BY <2>3 DEF R, S
<1>13. DOMAIN r[i].targets = DOMAIN s[i].targets
  BY <1>12
<1>14. \A n \in DOMAIN r[i].targets : PartOf(parts, s[i].targets[n]) = PartOf(parts, r[i].targets[n])
  BY <1>12, <1>13
<1> QED
  BY <1>5, <1>8, <1>11, <1>13, <1>14 DEF r, s

LEMMA AlikeTargets ==
  ASSUME Merging, Emission, pc # "refine", Missing = {},
         NEW l \in labels, NEW k \in labels, parts[l] = parts[k],
         NEW i \in 1..Len(states[l].rules)
  PROVE  Targets(states[k].rules[i], TRUE) = Targets(states[l].rules[i], TRUE)
<1> DEFINE r == states[l].rules
           s == states[k].rules
<1>1. /\ Len(s) = Len(r)
      /\ DOMAIN s[i].targets = DOMAIN r[i].targets
      /\ \A n \in DOMAIN r[i].targets :
           PartOf(parts, s[i].targets[n]) = PartOf(parts, r[i].targets[n])
  BY AlikeRules
<1>2. ASSUME NEW x \in labels, i \in 1..Len(states[x].rules), NEW n \in DOMAIN states[x].rules[i].targets
      PROVE  states[x].rules[i].targets[n] \in labels
  <2> DEFINE t == states[x].rules[i]
             rules == (UNION {Range(states[y].rules) : y \in labels}) \cup Range(machine.ambient)
                        \cup (UNION {Range(machine.modes[m]) : m \in DOMAIN machine.modes})
  <2>1. states[x].rules \in Seq(Transition)
    BY StateTyped DEF Merging
  <2>2. t \in Range(states[x].rules)
    BY <1>2, <2>1 DEF Range
  <2>3. t \in rules
    BY <2>2
  <2>4. t.targets[n] \in Range(t.targets)
    BY <1>2 DEF Range
  <2> HIDE DEF rules, t
  <2>5. (Range(t.targets) \ labels) \subseteq Missing
    BY <2>3 DEF Missing, rules
  <2> QED
    BY <2>4, <2>5 DEF t
<1>3. i \in 1..Len(states[k].rules)
  BY <1>1
<1>4. \A n \in DOMAIN r[i].targets : r[i].targets[n] \in labels /\ s[i].targets[n] \in labels
  BY <1>1, <1>2, <1>3
<1> HIDE DEF r, s
<1>5. \A n \in DOMAIN r[i].targets : parts[s[i].targets[n]] = parts[r[i].targets[n]]
  BY <1>1, <1>4 DEF PartOf
<1>6. \A n \in DOMAIN r[i].targets : Renamed(s[i].targets[n]) = Renamed(r[i].targets[n])
  BY <1>4, <1>5, RepresentativesAre DEF Renamed
<1>7. Targets(s[i], TRUE) = Targets(r[i], TRUE)
  BY <1>1, <1>6 DEF Targets
<1> QED
  BY <1>7 DEF r, s

LEMMA InheritedStands == Merging /\ Emission => InheritedScopeSurvives
<1> SUFFICES ASSUME Merging, Emission, pc = "merged", Missing = {}, NEW l \in representatives
             PROVE  MetaScope(representatives, l) = MetaScope(labels, l)
  BY DEF InheritedScopeSurvives
<1> DEFINE Into(k) == {u \in Range(states[k].rules) : l \in Range(Targets(u, TRUE))}
           Edges(k) == {[op |-> t.op, meta |-> states[k].meta] : t \in Into(k)}
<1>1. representatives \subseteq labels
  BY RepresentativesAre
<1>2. ASSUME NEW k \in labels PROVE Edges(k) \subseteq Edges(rep[k])
  <2> DEFINE x == rep[k]
             r == states[k].rules
             s == states[x].rules
  <2>1. x \in labels /\ parts[k] = parts[x]
    BY RepresentativesAre
  <2>2. r \in Seq(Transition) /\ s \in Seq(Transition)
    BY <2>1, StateTyped DEF Merging
  <2> SUFFICES ASSUME NEW t \in Into(k)
               PROVE  \E u \in Into(x) : [op |-> t.op, meta |-> states[k].meta] = [op |-> u.op, meta |-> states[x].meta]
    OBVIOUS
  <2>3. PICK i \in 1..Len(r) : t = r[i]
    BY <2>2 DEF Range
  <2>4. Len(s) = Len(r) /\ states[x].meta = states[k].meta /\ s[i].op = r[i].op
    BY <2>1, AlikeRules
  <2>5. Targets(s[i], TRUE) = Targets(r[i], TRUE)
    BY <2>1, AlikeTargets
  <2>6. s[i] \in Range(s)
    BY <2>2, <2>4 DEF Range
  <2>7. s[i] \in Into(x)
    BY <2>3, <2>5, <2>6
  <2> QED
    BY <2>3, <2>4, <2>7
<1>3. \A k \in labels : rep[k] \in representatives
  BY RepresentativesAre
<1> HIDE DEF Edges
<1>4. UNION {Edges(k) : k \in labels} = UNION {Edges(k) : k \in representatives}
  BY <1>1, <1>2, <1>3
<1>5. Incoming(labels, l) = Incoming(representatives, l)
  BY <1>4 DEF Incoming, Edges
<1> QED
  BY <1>5 DEF MetaScope

-----------------------------------------------------------------------------
(* The rules of a context.                                                  *)
Tried(e) ==
  IF e.kind = "include"
    THEN FlattenSeq([k \in DOMAIN contexts[e.name] |-> OfferedBy(contexts[e.name][k])])
    ELSE OfferedBy(e)
ListOffers(a) == FlattenSeq([k \in DOMAIN a |-> OfferedBy(a[k])])

PlainEntry(e) ==
  /\ e.kind = "match"
  /\ e.effect = Effect(e.effect.op, e.effect.names, e.effect.amount, e.effect.foreign)
  /\ e.effect.foreign \in Foreigns \cup {NoForeign}

Trying(E, X) == \A e \in E : Tried(e) \in Seq(X)

LEMMA OfferedConcat ==
  ASSUME NEW X, NEW E, Trying(E, X), NEW a \in Seq(E), NEW b \in Seq(E)
  PROVE  Offered(a \o b) = Offered(a) \o Offered(b)
<1> DEFINE O == [e \in E |-> Tried(e)]
<1>1. Lists(O, E, X)
  BY DEF Lists, Trying
<1>2. ASSUME NEW c \in Seq(E) PROVE Offered(c) = FlatMap(O, c)
  <2>1. \A i \in DOMAIN c : O[c[i]] = Tried(c[i])
    OBVIOUS
  <2>2. [i \in DOMAIN c |-> O[c[i]]] = [i \in DOMAIN c |-> Tried(c[i])]
    BY <2>1
  <2>3. Offered(c) = FlattenSeq([i \in DOMAIN c |-> Tried(c[i])])
    BY DEF Offered, Tried
  <2> QED
    BY <2>2, <2>3 DEF FlatMap
<1>3. a \o b \in Seq(E)
  BY ConcatProperties
<1> HIDE DEF O
<1>4. FlatMap(O, a \o b) = FlatMap(O, a) \o FlatMap(O, b)
  BY <1>1, FlatMapConcat
<1> QED
  BY <1>2, <1>3, <1>4

LEMMA OfferedOne ==
  ASSUME NEW e, NEW X, Tried(e) \in Seq(X)
  PROVE  Offered(<<e>>) = Tried(e)
<1> DEFINE O == [d \in {e} |-> Tried(d)]
<1>1. Lists(O, {e}, X)
  BY DEF Lists
<1>2. O[e] = Tried(e)
  OBVIOUS
<1>3. FlatMap(O, <<e>>) = O[e]
  <2> HIDE DEF O
  <2> QED
    BY <1>1, FlatMapOne
<1>4. [i \in DOMAIN <<e>> |-> O[<<e>>[i]]] = [i \in DOMAIN <<e>> |-> Tried(<<e>>[i])]
  OBVIOUS
<1>5. Offered(<<e>>) = FlattenSeq([i \in DOMAIN <<e>> |-> Tried(<<e>>[i])])
  BY DEF Offered, Tried
<1> QED
  BY <1>2, <1>3, <1>4, <1>5 DEF FlatMap

LEMMA BaseEntriesAre ==
  ASSUME machine \in Machines, NEW l \in labels
  PROVE  /\ BaseEntries(l) \in Seq({Entry(t, l, TRUE) : t \in Transition})
         /\ Matches(BaseEntries(l))
         /\ \A i \in 1..Len(BaseEntries(l)) : PlainEntry(BaseEntries(l)[i])
<1> DEFINE r == states[l].rules
           es == BaseEntries(l)
<1>1. r \in Seq(Transition) /\ DOMAIN r = 1..Len(r) /\ Len(r) \in Nat
  BY StateTyped
<1>2. es = [i \in 1..Len(r) |-> Entry(r[i], l, TRUE)]
  BY <1>1 DEF BaseEntries, Entries
<1> HIDE DEF es, r
<1>3. \A i \in 1..Len(r) : r[i] \in Transition
  BY <1>1
<1>4. es \in Seq({Entry(t, l, TRUE) : t \in Transition}) /\ Len(es) = Len(r)
  <2> DEFINE S == {Entry(t, l, TRUE) : t \in Transition}
  <2>1. \A i \in 1..Len(r) : es[i] \in S
    BY <1>2, <1>3
  <2>2. es = [i \in 1..Len(r) |-> es[i]]
    BY <1>2
  <2> HIDE DEF S
  <2>3. es \in Seq(S) /\ Len(es) = Len(r)
    BY <1>1, <2>1, <2>2
  <2> QED
    BY <2>3 DEF S
<1>5. ASSUME NEW t \in Transition PROVE PlainEntry(Entry(t, l, TRUE))
  <2> DEFINE e == Entry(t, l, TRUE)
  <2>1. e.kind = "match" /\ e.effect = EffectOf(t, l, TRUE)
    BY DEF Entry
  <2>2. t.foreign \in Foreigns \cup {NoForeign}
    BY <1>5 DEF Transition
  <2> HIDE DEF e
  <2>3. \E o, n, a : \E f \in Foreigns \cup {NoForeign} : e.effect = Effect(o, n, a, f)
    <3>1. CASE ParserIdle(t, l, TRUE)
      BY <2>1, <3>1 DEF EffectOf
    <3>2. CASE ~ParserIdle(t, l, TRUE)
      BY <2>1, <2>2, <3>2 DEF EffectOf
    <3> QED
      BY <3>1, <3>2
  <2>4. PICK o, n, a : \E f \in Foreigns \cup {NoForeign} : e.effect = Effect(o, n, a, f)
    BY <2>3
  <2>5. PICK f \in Foreigns \cup {NoForeign} : e.effect = Effect(o, n, a, f)
    BY <2>4
  <2>6. e.effect.op = o /\ e.effect.names = n /\ e.effect.amount = a /\ e.effect.foreign = f
    BY <2>5 DEF Effect
  <2>7. PlainEntry(e)
    BY <2>1, <2>5, <2>6 DEF PlainEntry
  <2> QED
    BY <2>7 DEF e
<1>6. \A i \in 1..Len(es) : PlainEntry(es[i])
  BY <1>2, <1>3, <1>4, <1>5
<1>7. Matches(es)
  BY <1>6 DEF Matches, PlainEntry
<1> QED
  BY <1>4, <1>6, <1>7 DEF es

(* What the signature says of a match without embedded scopes is all of it. *)
LEMMA SignatureTells ==
  ASSUME NEW d, NEW e, PlainEntry(d), PlainEntry(e),
         d.effect.foreign.dress = NoForeign.dress, e.effect.foreign.dress = NoForeign.dress,
         EntrySignature(d) = EntrySignature(e)
  PROVE  Offer(d) = Offer(e)
<1>1. /\ EntrySignature(d) = <<"match", d.lexeme, StackKey(d)>>
      /\ EntrySignature(e) = <<"match", e.lexeme, StackKey(e)>>
  BY DEF EntrySignature, PlainEntry
<1> DEFINE u == StackKey(d)
           v == StackKey(e)
<1> HIDE DEF u, v
<1>2. d.lexeme = e.lexeme /\ u = v
  <2>1. <<"match", d.lexeme, u>> = <<"match", e.lexeme, v>>
    BY <1>1 DEF u, v
  <2> QED
    BY <2>1
<1>3. /\ d.effect.op = e.effect.op /\ d.effect.names = e.effect.names
      /\ d.effect.amount = e.effect.amount /\ d.effect.foreign.id = e.effect.foreign.id
  BY <1>2 DEF u, v, StackKey
<1>4. \A f \in Foreigns \cup {NoForeign} : f = [id |-> f.id, dress |-> f.dress]
  BY SublimeStatesAssumption
<1>5. d.effect.foreign = e.effect.foreign
  BY <1>3, <1>4 DEF PlainEntry
<1>6. d.effect = e.effect
  BY <1>3, <1>5 DEF PlainEntry
<1> QED
  BY <1>2, <1>6 DEF Offer

LEMMA EntriesOfCases ==
  ASSUME machine \in Machines, NEW l \in labels
  PROVE  /\ EntriesOf(Own(l)) = Context(l)
         /\ EntriesOf(SharedBy(l)) = base[l]
         /\ \A i \in Nat, k \in Nat : i > 0 => EntriesOf(Arm(l, i, k)) = <<Run(BaseEntries(l), i)[k]>>
<1>1. l # Prototype /\ l \notin Modes
  <2>1. l \in Labels
    BY SublimeStatesAssumption DEF LanguageMachine, labels, states
  <2> QED
    BY <2>1, SublimeStatesAssumption DEF Labels
<1>2. SourceEntries(l) = BaseEntries(l)
  BY <1>1 DEF SourceEntries
<1>3. EntriesOf(Own(l)) = Context(l)
  <2> DEFINE n == Own(l)
  <2>1. n[1] = l /\ ~(n[2] > 0) /\ n # SharedBy(n[1]) /\ n = Own(n[1])
    BY DEF Own, SharedBy
  <2> HIDE DEF n
  <2>2. EntriesOf(n) = Context(n[1])
    BY <2>1 DEF EntriesOf
  <2> QED
    BY <2>1, <2>2 DEF n
<1>4. EntriesOf(SharedBy(l)) = base[l]
  <2> DEFINE n == SharedBy(l)
  <2>1. n[1] = l /\ ~(n[2] > 0) /\ n = SharedBy(n[1]) /\ n # Own(n[1])
    BY DEF Own, SharedBy
  <2> HIDE DEF n
  <2>2. EntriesOf(n) = base[n[1]]
    BY <2>1 DEF EntriesOf
  <2> QED
    BY <2>1, <2>2 DEF n
<1>5. ASSUME NEW i \in Nat, NEW k \in Nat, i > 0
      PROVE  EntriesOf(Arm(l, i, k)) = <<Run(BaseEntries(l), i)[k]>>
  <2> DEFINE n == Arm(l, i, k)
  <2>1. n[1] = l /\ n[2] = i /\ n[3] = k /\ n[2] > 0 /\ n # SharedBy(n[1]) /\ n # Own(n[1])
    BY <1>5 DEF Own, SharedBy, Arm
  <2> HIDE DEF n
  <2>2. EntriesOf(n) = <<Run(SourceEntries(n[1]), n[2])[n[3]]>>
    BY <2>1 DEF EntriesOf
  <2> QED
    BY <1>2, <2>1, <2>2 DEF n
<1> QED
  BY <1>3, <1>4, <1>5

(* A context that has a list and is emitted has the arms of the list beside it. *)
LEMMA ArmsAreThere ==
  ASSUME Merging, Emission, pc = "done", NEW l \in labels, NEW n \in DOMAIN contexts,
         \A j \in 1..Len(Merged(BaseEntries(l), l)) : Merged(BaseEntries(l), l)[j] \in Range(contexts[n])
  PROVE  ArmsHold(BaseEntries(l), l)
<1> DEFINE es == BaseEntries(l)
<1>1. es \in Seq({Entry(t, l, TRUE) : t \in Transition})
  BY BaseEntriesAre DEF Merging
<1> SUFFICES ASSUME NEW i \in Branches(es), NEW k \in 1..Len(Run(es, i))
             PROVE  contexts[Arm(l, i, k)] = <<Run(es, i)[k]>>
  BY DEF ArmsHold
<1> DEFINE b == BranchPoint(es, l, i)
<1>2. i \in 1..Len(es) /\ i \in Nat /\ i > 0 /\ Len(Run(es, i)) \in Nat /\ k \in Nat
      /\ DOMAIN Run(es, i) = 1..Len(Run(es, i))
  <2>1. i \in 1..Len(es) /\ Len(es) \in Nat
    BY <1>1 DEF Branches
  <2>2. Run(es, i) \in Seq({Entry(t, l, TRUE) : t \in Transition})
    BY <1>1, <2>1, RunIs
  <2> HIDE DEF es
  <2> QED
    BY <2>1, <2>2
<1>3. b \in Range(contexts[n])
  <2> HIDE DEF b, es
  <2>1. \E j \in 1..Len(Merged(es, l)) : Merged(es, l)[j] = b
    BY <1>1, MergedPoints DEF b
  <2> QED
    BY <2>1 DEF es
<1>4. b.kind = "branch" /\ b.arms = [x \in 1..Len(Run(es, i)) |-> Arm(l, i, x)]
  BY <1>2 DEF BranchPoint
<1>5. Arm(l, i, k) \in Range(b.arms)
  <2> HIDE DEF b
  <2> QED
    BY <1>4 DEF Range
<1> HIDE DEF b, es
<1>6. References(b) = Range(b.arms)
  BY <1>4 DEF References
<1>7. Arm(l, i, k) \in DOMAIN contexts
  <2>1. References(b) \subseteq ReferencedBy(n)
    BY <1>3 DEF ReferencedBy
  <2> QED
    BY <1>5, <1>6, <2>1 DEF Emission, Complete
<1>8. contexts[Arm(l, i, k)] = EntriesOf(Arm(l, i, k))
  BY <1>7 DEF Emission, Filled
<1> QED
  BY <1>2, <1>8, EntriesOfCases DEF es, Merging

(* What a merged list offers is the rules of its state.                     *)
LEMMA ListOffersRules ==
  ASSUME machine \in Machines, NEW l \in labels, ArmsHold(BaseEntries(l), l)
  PROVE  /\ ListOffers(Merged(BaseEntries(l), l)) = RulesOf(l)
         /\ RulesOf(l) \in Seq(Offers(BaseEntries(l)))
         /\ \A e \in Bits(BaseEntries(l), l) : /\ OfferedBy(e) \in Seq(Offers(BaseEntries(l)))
                                               /\ e.kind \in {"match", "branch"}
<1> DEFINE es == BaseEntries(l)
           a == Merged(es, l)
           O == OffersOf(es, l)
           B == Bits(es, l)
           X == Offers(es)
<1>1. es \in Seq({Entry(t, l, TRUE) : t \in Transition}) /\ Matches(es)
  BY BaseEntriesAre
<1>2. a \in Seq(B) /\ FlatMap(O, a) = [i \in 1..Len(es) |-> Offer(es[i])]
  <2> HIDE DEF es
  <2>1. ArmsHold(es, l)
    BY DEF es
  <2> QED
    BY <1>1, <2>1, MergedOffers
<1>3. Lists(O, B, X)
  <2> HIDE DEF es
  <2>1. ArmsHold(es, l)
    BY DEF es
  <2> QED
    BY <1>1, <2>1, OffersType
<1>4. \A e \in B : O[e] = OfferedBy(e)
  BY DEF OffersOf
<1>5. \A e \in B : OfferedBy(e) \in Seq(X)
  BY <1>3, <1>4 DEF Lists
<1>6. \A e \in B : e.kind \in {"match", "branch"}
  <2> HIDE DEF es
  <2>1. \A i \in 1..Len(es) : es[i].kind = "match"
    BY <1>1 DEF Matches
  <2>2. \A i : BranchPoint(es, l, i).kind = "branch"
    BY DEF BranchPoint
  <2> HIDE DEF B
  <2>3. ASSUME NEW e \in B PROVE e.kind \in {"match", "branch"}
    BY <2>1, <2>2 DEF B, Bits
  <2> QED
    BY <2>3
<1> HIDE DEF O, B, X, a
<1>7. ListOffers(a) = FlatMap(O, a)
  <2>1. \A k \in DOMAIN a : a[k] \in B
    BY <1>2
  <2>2. [k \in DOMAIN a |-> OfferedBy(a[k])] = [k \in DOMAIN a |-> O[a[k]]]
    BY <1>4, <2>1
  <2> QED
    BY <2>2 DEF ListOffers, FlatMap
<1>8. RulesOf(l) = [i \in 1..Len(es) |-> Offer(es[i])]
  <2>1. DOMAIN es = 1..Len(es)
    <3> HIDE DEF es
    <3> QED
      BY <1>1
  <2> QED
    BY <2>1 DEF RulesOf
<1>9. RulesOf(l) \in Seq(X)
  <2>1. \A i \in 1..Len(es) : Offer(es[i]) \in X
    BY DEF X, Offers
  <2>2. Len(es) \in Nat
    <3> HIDE DEF es
    <3> QED
      BY <1>1
  <2> HIDE DEF Offer, es
  <2> QED
    BY <1>8, <2>1, <2>2
<1> QED
  BY <1>2, <1>5, <1>6, <1>7, <1>8, <1>9 DEF a, B, X

(* A list that hides nothing has no branch points: it is the rules.         *)
LEMMA NothingHidden ==
  ASSUME Merging, Emission, pc = "done", NEW l \in representatives, ~Hidden(l)
  PROVE  /\ base[l] \in Seq(Bits(BaseEntries(l), l))
         /\ \A j \in 1..Len(base[l]) : /\ PlainEntry(base[l][j])
                                       /\ base[l][j].effect.foreign.dress = NoForeign.dress
         /\ RulesOf(l) \in Seq(Offers(BaseEntries(l)))
         /\ Len(RulesOf(l)) = Len(base[l])
         /\ \A j \in 1..Len(base[l]) : RulesOf(l)[j] = Offer(base[l][j])
<1> DEFINE es == BaseEntries(l)
           a == Merged(es, l)
           B == Bits(es, l)
           X == Offers(es)
           O == OffersOf(es, l)
<1>1. l \in labels /\ base[l] = a
  <2>1. base = [k \in representatives |-> Merged(BaseEntries(k), k)]
    BY DEF Emission, Listed
  <2> QED
    BY <2>1, RepresentativesAre
<1>2. /\ es \in Seq({Entry(t, l, TRUE) : t \in Transition}) /\ Matches(es)
      /\ \A i \in 1..Len(es) : PlainEntry(es[i])
  BY <1>1, BaseEntriesAre DEF Merging
<1> HIDE DEF es
<1>3. a \in Seq(B) /\ \A i \in Branches(es) : \E j \in 1..Len(a) : a[j] = BranchPoint(es, l, i)
  BY <1>2, MergedPoints
<1> HIDE DEF a, B, X, O
<1>4. \A j \in 1..Len(a) : a[j].kind # "branch" /\ a[j].effect.foreign.dress = NoForeign.dress
  <2>1. \A j \in 1..Len(a) : a[j] \in Range(a)
    BY <1>3 DEF Range
  <2> QED
    BY <1>1, <2>1 DEF Hidden
<1>5. Branches(es) = {}
  <2> SUFFICES ASSUME NEW i \in Branches(es) PROVE FALSE
    OBVIOUS
  <2>1. PICK j \in 1..Len(a) : a[j] = BranchPoint(es, l, i)
    BY <1>3
  <2>2. BranchPoint(es, l, i).kind = "branch"
    BY DEF BranchPoint
  <2> QED
    BY <1>4, <2>1, <2>2
<1>6. ArmsHold(es, l)
  BY <1>5 DEF ArmsHold
<1>7. B = {es[i] : i \in 1..Len(es)}
  BY <1>5 DEF B, Bits
<1>8. FlatMap(O, a) = [i \in 1..Len(es) |-> Offer(es[i])]
  BY <1>2, <1>6, MergedOffers DEF O, a
<1>9. Lists(O, B, X) /\ \A i \in 1..Len(es) : O[es[i]] = <<Offer(es[i])>>
  BY <1>2, <1>6, OffersType DEF O, B, X
<1> DEFINE f == [e \in B |-> Offer(e)]
<1>10. f \in [B -> X]
  <2>1. \A e \in B : Offer(e) \in X
    BY <1>7 DEF X, Offers
  <2> QED
    BY <2>1
<1>11. \A j \in 1..Len(a) : a[j] \in B /\ PlainEntry(a[j]) /\ O[a[j]] = <<Offer(a[j])>>
  <2> SUFFICES ASSUME NEW j \in 1..Len(a)
               PROVE  a[j] \in B /\ PlainEntry(a[j]) /\ O[a[j]] = <<Offer(a[j])>>
    OBVIOUS
  <2>1. a[j] \in B
    BY <1>3
  <2>2. PICK i \in 1..Len(es) : a[j] = es[i]
    BY <1>7, <2>1
  <2> QED
    BY <1>2, <1>9, <2>1, <2>2
<1>12. \A j \in 1..Len(a) : O[a[j]] = <<f[a[j]]>> /\ f[a[j]] = Offer(a[j])
  BY <1>11
<1> HIDE DEF f
<1>13. /\ FlatMap(O, a) \in Seq(X) /\ Len(FlatMap(O, a)) = Len(a)
       /\ \A j \in 1..Len(a) : FlatMap(O, a)[j] = f[a[j]]
  <2>1. Mapped(f, B, X) /\ Makes(O, f, a)
    BY <1>10, <1>12 DEF Mapped, Makes
  <2>2. a \in Seq(B) /\ Lists(O, B, X)
    BY <1>3, <1>9
  <2> QED
    BY <2>1, <2>2, FlatMapSingles
<1>14. RulesOf(l) = FlatMap(O, a)
  <2>1. DOMAIN es = 1..Len(es)
    BY <1>2
  <2>2. RulesOf(l) = [i \in DOMAIN es |-> Offer(es[i])]
    BY DEF RulesOf, es
  <2> QED
    BY <1>8, <2>1, <2>2
<1>15. \A j \in 1..Len(a) : FlatMap(O, a)[j] = Offer(a[j])
  BY <1>12, <1>13
<1> QED
  BY <1>1, <1>3, <1>4, <1>11, <1>13, <1>14, <1>15 DEF es, B, X

(* States that share a list that hides nothing have the same rules.         *)
LEMMA SharedAlike ==
  ASSUME Merging, Emission, pc = "done",
         NEW l \in representatives, NEW k \in representatives, ~Hidden(l), ~Hidden(k),
         EntriesSignature(base[k]) = EntriesSignature(base[l])
  PROVE  RulesOf(k) = RulesOf(l)
<1> DEFINE a == base[l]
           b == base[k]
<1>1. /\ a \in Seq(Bits(BaseEntries(l), l)) /\ b \in Seq(Bits(BaseEntries(k), k))
      /\ \A j \in 1..Len(a) : PlainEntry(a[j]) /\ a[j].effect.foreign.dress = NoForeign.dress
      /\ \A j \in 1..Len(b) : PlainEntry(b[j]) /\ b[j].effect.foreign.dress = NoForeign.dress
  BY NothingHidden
<1>2. /\ RulesOf(l) \in Seq(Offers(BaseEntries(l))) /\ RulesOf(k) \in Seq(Offers(BaseEntries(k)))
      /\ Len(RulesOf(l)) = Len(a) /\ Len(RulesOf(k)) = Len(b)
      /\ \A j \in 1..Len(a) : RulesOf(l)[j] = Offer(a[j])
      /\ \A j \in 1..Len(b) : RulesOf(k)[j] = Offer(b[j])
  BY NothingHidden
<1>3. [i \in DOMAIN b |-> EntrySignature(b[i])] = [i \in DOMAIN a |-> EntrySignature(a[i])]
  BY DEF EntriesSignature
<1> HIDE DEF a, b
<1>4. DOMAIN a = DOMAIN b
  BY <1>3
<1>5. DOMAIN a = 1..Len(a) /\ DOMAIN b = 1..Len(b) /\ Len(a) \in Nat /\ Len(b) \in Nat
  BY <1>1
<1>6. Len(a) = Len(b)
  <2>1. \A m, n \in Nat : 1..m = 1..n => m = n
    OBVIOUS
  <2> QED
    BY <1>4, <1>5, <2>1
<1>7. \A j \in 1..Len(b) : EntrySignature(b[j]) = EntrySignature(a[j])
  BY <1>3, <1>4, <1>5
<1>8. ASSUME NEW j \in 1..Len(b) PROVE RulesOf(k)[j] = RulesOf(l)[j]
  <2>1. j \in 1..Len(a)
    BY <1>6
  <2>2. Offer(b[j]) = Offer(a[j])
    BY <1>1, <1>7, <2>1, SignatureTells
  <2> QED
    BY <1>2, <2>1, <2>2
<1> QED
  BY <1>2, <1>6, <1>8, SameSequence

(* A context starts with its scopes, then has its list, then the rest.      *)
Opening(l) == [kind |-> "meta", scope |-> MetaScope(representatives, l)]
Including(k) == [kind |-> "include", name |-> SharedBy(k)]
Closing(l) == Immediate(states[l]) \o <<[kind |-> "frame", frame |-> states[l].frame]>>

LEMMA ContextHas ==
  ASSUME NEW l, NEW E, Opening(l) \in E, Body(l) \in Seq(E), Closing(l) \in Seq(E)
  PROVE  /\ Context(l) = (<<Opening(l)>> \o Body(l)) \o Closing(l)
         /\ \A j \in 1..Len(Body(l)) : Body(l)[j] \in Range(Context(l))
<1> DEFINE a == <<Opening(l)>>
           b == Body(l)
           i == Immediate(states[l])
           f == <<[kind |-> "frame", frame |-> states[l].frame]>>
           c == Closing(l)
<1>1. Context(l) = ((a \o b) \o i) \o f /\ c = i \o f
  BY DEF Context, Opening, Closing
<1>2. \E X : i \in Seq(X) /\ f \in Seq(X) /\ a \o b \in Seq(X)
  <2> DEFINE m == [kind |-> "immediate", name |-> Own(Renamed(states[l].imm))]
             n == [kind |-> "frame", frame |-> states[l].frame]
             X == E \cup {m, n}
  <2>0. (i = <<>> \/ i = <<m>>) /\ f = <<n>>
    BY DEF Immediate
  <2> HIDE DEF m, n, i, f
  <2>1. f \in Seq(X)
    BY <2>0
  <2>2. i \in Seq(X)
    <3>1. <<>> \in Seq(X) /\ <<m>> \in Seq(X)
      OBVIOUS
    <3> HIDE DEF X
    <3> QED
      BY <2>0, <3>1
  <2>3. a \in Seq(X) /\ b \in Seq(X)
    <3>1. a \in Seq(E) /\ b \in Seq(E) /\ E \subseteq X
      OBVIOUS
    <3> HIDE DEF a, b, X
    <3>2. (\A k \in 1..Len(a) : a[k] \in X) /\ (\A k \in 1..Len(b) : b[k] \in X)
      BY <3>1
    <3> QED
      BY <3>1, <3>2
  <2> HIDE DEF a, b, i, f, X
  <2> QED
    BY <2>1, <2>2, <2>3, ConcatProperties
<1>3. a \in Seq(E) /\ b \in Seq(E) /\ c \in Seq(E) /\ Len(a) = 1
  OBVIOUS
<1> HIDE DEF a, b, i, f, c
<1>4. Context(l) = (a \o b) \o c
  <2>1. PICK X : i \in Seq(X) /\ f \in Seq(X) /\ a \o b \in Seq(X)
    BY <1>2
  <2> DEFINE d == a \o b
  <2>2. d \in Seq(X)
    BY <2>1
  <2> HIDE DEF d
  <2>3. (d \o i) \o f = d \o (i \o f)
    BY <2>1, <2>2, ConcatAssociative, Z3T(30)
  <2> QED
    BY <1>1, <2>3 DEF d
<1>5. ASSUME NEW j \in 1..Len(b) PROVE b[j] \in Range((a \o b) \o c)
  <2> DEFINE d == a \o b
             s == d \o c
  <2>1. /\ d \in Seq(E) /\ Len(d) = 1 + Len(b) /\ Len(b) \in Nat /\ Len(c) \in Nat
        /\ \A x \in 1..(1 + Len(b)) : d[x] = IF x <= 1 THEN a[x] ELSE b[x - 1]
    <3>1. /\ d \in Seq(E) /\ Len(d) = Len(a) + Len(b)
          /\ \A x \in 1..(Len(a) + Len(b)) : d[x] = IF x <= Len(a) THEN a[x] ELSE b[x - Len(a)]
      <4>1. a \in Seq(E) /\ b \in Seq(E)
        BY <1>3
      <4> QED
        BY <4>1, ConcatProperties
    <3>2. Len(b) \in Nat /\ Len(c) \in Nat
      BY <1>3
    <3> HIDE DEF d
    <3> QED
      BY <1>3, <3>1, <3>2
  <2>2. j + 1 \in 1..Len(d) /\ d[j + 1] = b[j]
    BY <2>1
  <2> HIDE DEF d
  <2>3. /\ s \in Seq(E) /\ Len(s) = Len(d) + Len(c)
        /\ \A x \in 1..(Len(d) + Len(c)) : s[x] = IF x <= Len(d) THEN d[x] ELSE c[x - Len(d)]
    BY <1>3, <2>1, ConcatProperties
  <2> HIDE DEF s
  <2>4. j + 1 \in 1..Len(s) /\ s[j + 1] = b[j] /\ DOMAIN s = 1..Len(s)
    BY <2>1, <2>2, <2>3
  <2>5. b[j] \in Range(s)
    BY <2>4 DEF Range
  <2> QED
    BY <2>5 DEF s, d
<1> QED
  BY <1>4, <1>5 DEF a, b, c

(* Only the list of a context offers anything.                              *)
LEMMA ContextOffers ==
  ASSUME NEW l, NEW E, NEW X, Body(l) \in Seq(E),
         Trying(E, X)
  PROVE  Offered(Context(l)) = Offered(Body(l))
<1> DEFINE o == Opening(l)
           m == [kind |-> "immediate", name |-> Own(Renamed(states[l].imm))]
           f == [kind |-> "frame", frame |-> states[l].frame]
           F == E \cup {o, m, f}
           i == Immediate(states[l])
           b == Body(l)
<1>1. Tried(o) = <<>> /\ Tried(m) = <<>> /\ Tried(f) = <<>> /\ <<>> \in Seq(X)
  BY DEF Tried, OfferedBy, Opening
<1>2. Trying(F, X)
  <2> HIDE DEF o, m, f
  <2> QED
    BY <1>1 DEF Trying
<1>3. i = <<>> \/ i = <<m>>
  BY DEF Immediate
<1> HIDE DEF o, m, f
<1>4. b \in Seq(F) /\ <<o>> \in Seq(F) /\ <<f>> \in Seq(F) /\ <<m>> \in Seq(F) /\ <<>> \in Seq(F)
      /\ o \in F /\ m \in F /\ f \in F
  OBVIOUS
<1>5. Offered(<<o>>) = <<>> /\ Offered(<<f>>) = <<>> /\ Offered(<<m>>) = <<>>
  BY <1>1, OfferedOne
<1>6. Offered(<<>>) = <<>>
  <2>1. Offered(<<>>) = FlatMap([e \in {} |-> e], <<>>)
    BY DEF Offered, FlatMap
  <2> QED
    BY <2>1, FlatMapEmpty
<1>7. i \in Seq(F) /\ Offered(i) = <<>>
  BY <1>3, <1>4, <1>5, <1>6
<1> HIDE DEF F, i, b
<1>8. \A u, v \in Seq(F) : u \o v \in Seq(F) /\ Offered(u \o v) = Offered(u) \o Offered(v)
  <2>1. \A u, v \in Seq(F) : u \o v \in Seq(F)
    BY ConcatProperties
  <2>2. \A u, v \in Seq(F) : Offered(u \o v) = Offered(u) \o Offered(v)
    BY <1>2, OfferedConcat
  <2> QED
    BY <2>1, <2>2
<1>9. Closing(l) = i \o <<f>> /\ Closing(l) \in Seq(F)
  <2>1. Closing(l) = i \o <<f>>
    BY DEF Closing, i, f
  <2> QED
    BY <1>4, <1>7, <1>8, <2>1
<1>10. Offered(Closing(l)) = <<>>
  <2>1. Offered(i \o <<f>>) = Offered(i) \o Offered(<<f>>)
    BY <1>4, <1>7, <1>8
  <2> QED
    BY <1>5, <1>7, <1>9, <2>1, ConcatEmptySeq
<1>11. Context(l) = (<<o>> \o b) \o Closing(l)
  <2>1. Opening(l) \in F /\ Body(l) \in Seq(F)
    BY <1>4 DEF o, b
  <2>2. Context(l) = (<<Opening(l)>> \o Body(l)) \o Closing(l)
    BY <1>9, <2>1, ContextHas
  <2> QED
    BY <2>2 DEF o, b
<1>12. Offered((<<o>> \o b) \o Closing(l)) = (Offered(<<o>>) \o Offered(b)) \o Offered(Closing(l))
  <2>1. <<o>> \o b \in Seq(F) /\ Offered(<<o>> \o b) = Offered(<<o>>) \o Offered(b)
    BY <1>4, <1>8
  <2> DEFINE d == <<o>> \o b
             c == Closing(l)
  <2>2. d \in Seq(F) /\ c \in Seq(F)
    BY <1>9, <2>1
  <2> HIDE DEF d, c
  <2>3. Offered(d \o c) = Offered(d) \o Offered(c)
    BY <1>8, <2>2
  <2> QED
    BY <2>1, <2>3 DEF d, c
<1>13. Offered(b) \in Seq(X)
  <2> DEFINE O == [e \in F |-> Tried(e)]
  <2>1. Lists(O, F, X)
    BY <1>2 DEF Lists, Trying
  <2>2. \A k \in DOMAIN b : O[b[k]] = Tried(b[k])
    BY <1>4
  <2>3. [k \in DOMAIN b |-> O[b[k]]] = [k \in DOMAIN b |-> Tried(b[k])]
    BY <2>2
  <2>4. Offered(b) = FlattenSeq([k \in DOMAIN b |-> Tried(b[k])])
    BY DEF Offered, Tried
  <2>5. Offered(b) = FlatMap(O, b)
    BY <2>3, <2>4 DEF FlatMap
  <2> HIDE DEF O
  <2>6. FlatMap(O, b) \in Seq(X)
    BY <1>4, <2>1, FlatMapAppend
  <2> QED
    BY <2>5, <2>6
<1>14. (<<>> \o Offered(b)) \o <<>> = Offered(b)
  BY <1>13, ConcatEmptySeq
<1> QED
  BY <1>5, <1>10, <1>11, <1>12, <1>14 DEF b

LEMMA BodyShown ==
  ASSUME NEW l, NEW E, Body(l) \in Seq(E), NEW j \in 1..Len(Body(l))
  PROVE  Body(l)[j] \in Range(Context(l))
<1> DEFINE o == Opening(l)
           m == [kind |-> "immediate", name |-> Own(Renamed(states[l].imm))]
           f == [kind |-> "frame", frame |-> states[l].frame]
           i == Immediate(states[l])
           F == E \cup {o, m, f}
<1>1. Closing(l) = i \o <<f>> /\ (i = <<>> \/ i = <<m>>)
  BY DEF Closing, Immediate
<1> HIDE DEF o, m, f, i
<1>2. Body(l) \in Seq(F) /\ o \in F /\ <<f>> \in Seq(F) /\ <<m>> \in Seq(F) /\ <<>> \in Seq(F)
  OBVIOUS
<1> HIDE DEF F
<1>3. i \in Seq(F)
  BY <1>1, <1>2
<1>4. Closing(l) \in Seq(F)
  BY <1>1, <1>2, <1>3, ConcatProperties
<1>5. Opening(l) \in F
  BY <1>2 DEF o
<1> QED
  BY <1>2, <1>4, <1>5, ContextHas

LEMMA RulesStand == Merging /\ Emission => RulesSurvive
<1> SUFFICES ASSUME Merging, Emission, pc = "done", NEW l \in representatives, Emitting(l),
                    IsShared(l) /\ l # First(Sharing(l)) => ~Hidden(l) /\ ~Hidden(First(Sharing(l)))
             PROVE  Offered(contexts[Own(l)]) = RulesOf(l)
  BY DEF RulesSurvive, Borrows
<1> DEFINE own == contexts[Own(l)]
<1>1. machine \in Machines /\ representatives \subseteq labels /\ l \in labels
  BY RepresentativesAre DEF Merging
<1>2. own = Context(l)
  BY <1>1, EntriesOfCases DEF Emission, Filled, Emitting
<1>3. \A e \in Range(own) : References(e) \subseteq DOMAIN contexts
  BY DEF Emission, Complete, Emitting, ReferencedBy
<1>4. \A k \in representatives : base[k] = Merged(BaseEntries(k), k)
  BY DEF Emission, Listed
<1>5. \A k \in labels : Merged(BaseEntries(k), k) \in Seq(Bits(BaseEntries(k), k))
  <2> SUFFICES ASSUME NEW k \in labels PROVE Merged(BaseEntries(k), k) \in Seq(Bits(BaseEntries(k), k))
    OBVIOUS
  <2> QED
    BY <1>1, BaseEntriesAre, MergedPoints
<1> HIDE DEF own
<1>6. CASE ~IsShared(l)
  <2> DEFINE es == BaseEntries(l)
             a == Merged(es, l)
             B == Bits(es, l)
             X == Offers(es)
  <2>1. Body(l) = a /\ a \in Seq(B)
    BY <1>1, <1>4, <1>5, <1>6 DEF Body
  <2>2. \A j \in 1..Len(a) : a[j] \in Range(own)
    BY <1>2, <2>1, BodyShown
  <2>3. ArmsHold(es, l)
    BY <1>1, <2>2, ArmsAreThere DEF Emitting, own
  <2>4. /\ ListOffers(a) = RulesOf(l)
        /\ \A e \in B : OfferedBy(e) \in Seq(X) /\ e.kind \in {"match", "branch"}
    BY <1>1, <2>3, ListOffersRules
  <2> HIDE DEF es, a, B, X
  <2>5. \A e \in B : Tried(e) = OfferedBy(e)
    BY <2>4 DEF Tried
  <2>6. Trying(B, X)
    BY <2>4, <2>5 DEF Trying
  <2>7. Offered(own) = Offered(a)
    BY <1>2, <2>1, <2>6, ContextOffers
  <2>8. Offered(a) = ListOffers(a)
    <3>1. \A j \in DOMAIN a : Tried(a[j]) = OfferedBy(a[j])
      BY <2>1, <2>5
    <3>2. [j \in DOMAIN a |-> Tried(a[j])] = [j \in DOMAIN a |-> OfferedBy(a[j])]
      BY <3>1
    <3>3. Offered(a) = FlattenSeq([j \in DOMAIN a |-> Tried(a[j])])
      BY DEF Offered, Tried
    <3> QED
      BY <3>2, <3>3 DEF ListOffers
  <2> QED
    BY <2>4, <2>7, <2>8 DEF own
<1>7. CASE IsShared(l)
  <2> DEFINE f == First(Sharing(l))
             n == SharedBy(f)
             inc == Including(f)
             a == base[f]
             X == Offers(BaseEntries(f))
  <2>1. f \in Sharing(l)
    <3>1. l \in Sharing(l) /\ Sharing(l) \subseteq Names
      BY <1>1, MachineLabels DEF Sharing
    <3> QED
      BY <3>1, FirstIn
  <2>2. f \in representatives /\ EntriesSignature(base[f]) = EntriesSignature(base[l])
    BY <2>1 DEF Sharing
  <2> HIDE DEF f
  <2>3. Body(l) = <<inc>>
    BY <1>7 DEF Body, Including, f
  <2>4. inc.kind = "include" /\ inc.name = n
    BY DEF Including
  <2> HIDE DEF inc
  <2>5. inc \in Range(own)
    <3>1. Body(l) \in Seq({inc}) /\ 1 \in 1..Len(Body(l)) /\ Body(l)[1] = inc
      BY <2>3
    <3> QED
      BY <1>2, <3>1, BodyShown
  <2>6. n \in DOMAIN contexts
    <3>1. References(inc) = {inc.name}
      BY <2>4 DEF References
    <3> QED
      BY <1>3, <2>4, <2>5, <3>1
  <2>7. contexts[n] = a
    <3>1. contexts[n] = EntriesOf(n)
      BY <2>6 DEF Emission, Filled
    <3>2. f \in labels
      BY <1>1, <2>2
    <3> QED
      BY <1>1, <3>1, <3>2, EntriesOfCases
  <2>8. a = Merged(BaseEntries(f), f) /\ f \in labels /\ a \in Seq(Bits(BaseEntries(f), f))
    BY <1>1, <1>4, <1>5, <2>2
  <2>9. \A j \in 1..Len(a) : a[j] \in Range(contexts[n])
    <3> HIDE DEF a, n
    <3> QED
      BY <2>7, <2>8 DEF Range
  <2>10. ArmsHold(BaseEntries(f), f)
    <3> HIDE DEF a, n
    <3> QED
      BY <2>6, <2>8, <2>9, ArmsAreThere
  <2>11. ListOffers(a) = RulesOf(f) /\ RulesOf(f) \in Seq(X)
    BY <1>1, <2>8, <2>10, ListOffersRules
  <2>12. Tried(inc) = ListOffers(contexts[n])
    BY <2>4 DEF Tried, ListOffers
  <2> HIDE DEF a, n, X
  <2>13. Tried(inc) = RulesOf(f) /\ Tried(inc) \in Seq(X)
    BY <2>7, <2>11, <2>12
  <2>14. Offered(own) = Offered(<<inc>>)
    <3>1. Trying({inc}, X)
      BY <2>13 DEF Trying
    <3>2. Body(l) \in Seq({inc})
      BY <2>3
    <3>3. Offered(Context(l)) = Offered(Body(l))
      BY <3>1, <3>2, ContextOffers
    <3> QED
      BY <1>2, <2>3, <3>3
  <2>15. Offered(<<inc>>) = Tried(inc)
    BY <2>13, OfferedOne
  <2>16. RulesOf(f) = RulesOf(l)
    <3>1. CASE l = f
      BY <3>1
    <3>2. CASE l # f
      <4>1. ~Hidden(l) /\ ~Hidden(f)
        BY <1>7, <3>2 DEF f
      <4> QED
        BY <2>2, <4>1, SharedAlike
    <3> QED
      BY <3>1, <3>2
  <2> QED
    BY <2>13, <2>14, <2>15, <2>16 DEF own
<1> QED
  BY <1>6, <1>7

(* What the state says, the context that is emitted for it says: its rules, *)
(* through branch points (mergeIdenticalMatchesToBranchPoints), shared      *)
(* lists and pruning, and the scope that it inherits, although              *)
(* buildIncomingMetaEdges sees representatives only.                        *)
THEOREM ContextsSayTheirStates == Spec => []ContextsSurvive
<1>1. Merging /\ Emission => ContextsSurvive
  BY InheritedStands, RulesStand DEF ContextsSurvive
<1> QED
  BY <1>1, EmissionAlways, PTL


-----------------------------------------------------------------------------
(* Where references lead.                                                   *)
AllRules ==
  (UNION {Range(states[l].rules) : l \in labels}) \cup Range(machine.ambient)
    \cup (UNION {Range(machine.modes[m]) : m \in DOMAIN machine.modes})

(* A reference leads to a context, or to what the machine lacks.            *)
Known(ref) == ref \in ContextNames \/ \E x \in Missing : ref = Own(x)

LEMMA MissingIs ==
         /\ \A t \in AllRules : Range(t.targets) \ labels \subseteq Missing
         /\ \A t \in AllRules : Range(t.lexModes) \ DOMAIN machine.modes \subseteq Missing
         /\ \A l \in labels : {states[l].imm} \ (labels \cup {NoState}) \subseteq Missing
         /\ \A x \in Missing :
              \/ \E t \in AllRules : x \in Range(t.targets) \ labels \/ x \in Range(t.lexModes) \ DOMAIN machine.modes
              \/ \E l \in labels : x = states[l].imm /\ x \notin labels \cup {NoState}
<1>1. Missing = UNION ({Range(t.targets) \ labels : t \in AllRules}
                       \cup {Range(t.lexModes) \ DOMAIN machine.modes : t \in AllRules}
                       \cup {{states[l].imm} \ (labels \cup {NoState}) : l \in labels})
  BY DEF Missing, AllRules
<1> QED
  BY <1>1

LEMMA SourceRule ==
  ASSUME machine \in Machines, NEW l \in Sources, representatives \subseteq labels,
         NEW e \in Range(SourceEntries(l))
  PROVE  \E t \in AllRules \cap Transition, remap \in BOOLEAN :
           e = Entry(t, l, remap) /\ (remap \/ t.op = "none")
<1>1. /\ machine.ambient \in Seq(Transition)
      /\ machine.modes \in [DOMAIN machine.modes -> Seq(Transition)]
      /\ \A m \in DOMAIN machine.modes : \A t \in Range(machine.modes[m]) : t.op = "none"
      /\ DOMAIN machine.modes \subseteq Modes
      /\ labels \cap Modes = {} /\ Prototype \notin Modes /\ Prototype \notin labels
  BY SublimeStatesAssumption DEF LanguageMachine, labels, states, Labels
<1>2. ASSUME NEW ts \in Seq(Transition), NEW remap \in BOOLEAN, Range(ts) \subseteq AllRules,
             \A t \in Range(ts) : remap \/ t.op = "none", e \in Range(Entries(ts, l, remap))
      PROVE  \E t \in AllRules \cap Transition, r \in BOOLEAN : e = Entry(t, l, r) /\ (r \/ t.op = "none")
  <2>1. PICK i \in DOMAIN ts : e = Entry(ts[i], l, remap)
    BY <1>2 DEF Range, Entries
  <2>2. ts[i] \in Transition /\ ts[i] \in Range(ts)
    BY DEF Range
  <2> QED
    BY <1>2, <2>1, <2>2
<1>3. CASE l = Prototype
  <2>1. SourceEntries(l) = Entries(machine.ambient, l, TRUE)
    BY <1>1, <1>3 DEF SourceEntries
  <2>2. Range(machine.ambient) \subseteq AllRules
    BY DEF AllRules
  <2> QED
    BY <1>1, <1>2, <2>1, <2>2
<1>4. CASE l \in Modes
  <2>1. SourceEntries(l) = Entries(machine.modes[l], l, FALSE) /\ l \in DOMAIN machine.modes
    BY <1>1, <1>4 DEF SourceEntries, Sources
  <2>2. Range(machine.modes[l]) \subseteq AllRules /\ machine.modes[l] \in Seq(Transition)
    BY <1>1, <2>1 DEF AllRules
  <2> QED
    BY <1>1, <1>2, <2>1, <2>2
<1>5. CASE l # Prototype /\ l \notin Modes
  <2>1. l \in labels
    BY <1>1, <1>5 DEF Sources
  <2>2. SourceEntries(l) = Entries(states[l].rules, l, TRUE)
    BY <1>5 DEF SourceEntries, BaseEntries
  <2>3. states[l].rules \in Seq(Transition) /\ Range(states[l].rules) \subseteq AllRules
    BY <2>1, StateTyped DEF AllRules
  <2> QED
    BY <1>2, <2>2, <2>3
<1> QED
  BY <1>3, <1>4, <1>5

LEMMA RuleLeads ==
  ASSUME Merging, Emission, pc # "refine", NEW l \in Sources,
         NEW e \in Range(SourceEntries(l)), NEW ref \in References(e)
  PROVE  Known(ref)
<1>1. machine \in Machines /\ representatives \subseteq labels /\ \A k \in labels : rep[k] \in representatives
  BY RepresentativesAre DEF Merging
<1>2. PICK t \in AllRules \cap Transition, remap \in BOOLEAN :
        e = Entry(t, l, remap) /\ (remap \/ t.op = "none")
  BY <1>1, SourceRule
<1>3. ref \in Range(EffectOf(t, l, remap).names)
  BY <1>2 DEF Entry, References
<1>4. t.targets \in Seq(Labels) /\ t.lexModes \in Seq(Modes)
  BY DEF Transition
<1>5. CASE ParserIdle(t, l, remap)
  <2>1. EffectOf(t, l, remap).names = Owned(t.lexModes)
    BY <1>5 DEF EffectOf, Effect
  <2>2. PICK k \in DOMAIN t.lexModes : ref = Own(t.lexModes[k])
    BY <1>3, <2>1 DEF Owned, Range
  <2>3. t.lexModes[k] \in Range(t.lexModes)
    BY DEF Range
  <2>4. CASE t.lexModes[k] \in DOMAIN machine.modes
    BY <2>2, <2>4 DEF Known, ContextNames, Sources
  <2>5. CASE t.lexModes[k] \notin DOMAIN machine.modes
    BY <2>2, <2>3, <2>5, MissingIs DEF Known
  <2> QED
    BY <2>4, <2>5
<1>6. CASE ~ParserIdle(t, l, remap)
  <2>1. remap = TRUE /\ EffectOf(t, l, remap).names = Owned(Targets(t, TRUE))
    BY <1>2, <1>6 DEF EffectOf, Effect, ParserIdle
  <2>2. PICK k \in DOMAIN t.targets : ref = Own(Renamed(t.targets[k]))
    BY <1>3, <2>1 DEF Owned, Range, Targets
  <2>3. t.targets[k] \in Range(t.targets)
    BY DEF Range
  <2>4. CASE t.targets[k] \in labels
    BY <1>1, <2>2, <2>4 DEF Known, ContextNames, Sources, Renamed
  <2>5. CASE t.targets[k] \notin labels
    BY <2>2, <2>3, <2>5, MissingIs DEF Known, Renamed
  <2> QED
    BY <2>4, <2>5
<1> QED
  BY <1>5, <1>6

-----------------------------------------------------------------------------
(* Every entry of every context leads to a context, or to what lacks.       *)
LEMMA SourceList ==
  ASSUME machine \in Machines, NEW l \in Sources, representatives \subseteq labels
  PROVE  LET es == SourceEntries(l) IN
         /\ es \in Seq({es[i] : i \in 1..Len(es)})
         /\ l \in labels => es = BaseEntries(l)
<1>1. /\ machine.ambient \in Seq(Transition)
      /\ machine.modes \in [DOMAIN machine.modes -> Seq(Transition)]
      /\ DOMAIN machine.modes \subseteq Modes
      /\ labels \cap Modes = {} /\ Prototype \notin Modes /\ Prototype \notin labels
  BY SublimeStatesAssumption DEF LanguageMachine, labels, states, Labels
<1>2. ASSUME NEW ts \in Seq(Transition), NEW r, SourceEntries(l) = Entries(ts, l, r)
      PROVE  LET es == SourceEntries(l) IN es \in Seq({es[i] : i \in 1..Len(es)})
  <2> DEFINE es == SourceEntries(l)
             S == {es[i] : i \in 1..Len(es)}
  <2>1. es = [i \in 1..Len(ts) |-> Entry(ts[i], l, r)] /\ Len(ts) \in Nat
    BY <1>2 DEF Entries
  <2> HIDE DEF es
  <2>2. Len(es) = Len(ts) /\ es = [i \in 1..Len(ts) |-> es[i]]
    BY <2>1
  <2>3. \A i \in 1..Len(ts) : es[i] \in S
    BY <2>2
  <2> HIDE DEF S
  <2>4. es \in Seq(S)
    BY <2>1, <2>2, <2>3
  <2> QED
    BY <2>4 DEF S, es
<1>3. CASE l = Prototype
  BY <1>1, <1>2, <1>3 DEF SourceEntries
<1>4. CASE l \in Modes
  <2>1. SourceEntries(l) = Entries(machine.modes[l], l, FALSE) /\ l \in DOMAIN machine.modes
    BY <1>1, <1>4 DEF SourceEntries, Sources
  <2> QED
    BY <1>1, <1>2, <1>4, <2>1
<1>5. CASE l # Prototype /\ l \notin Modes
  <2>1. l \in labels /\ SourceEntries(l) = BaseEntries(l)
    BY <1>1, <1>5 DEF Sources, SourceEntries
  <2>2. SourceEntries(l) = Entries(states[l].rules, l, TRUE) /\ states[l].rules \in Seq(Transition)
    BY <2>1, StateTyped DEF BaseEntries
  <2> QED
    BY <1>2, <2>1, <2>2
<1> QED
  BY <1>3, <1>4, <1>5

LEMMA MergedLeads ==
  ASSUME Merging, Emission, pc # "refine", NEW l \in Sources,
         NEW e \in Range(Merged(SourceEntries(l), l)), NEW ref \in References(e)
  PROVE  Known(ref)
<1> DEFINE es == SourceEntries(l)
           S == {es[i] : i \in 1..Len(es)}
<1>1. machine \in Machines /\ representatives \subseteq labels
  BY RepresentativesAre DEF Merging
<1>2. es \in Seq(S)
  BY <1>1, SourceList
<1>3. Merged(es, l) \in Seq(Bits(es, l))
  <2> HIDE DEF es, S
  <2> QED
    BY <1>2, MergedPoints
<1>4. e \in Bits(es, l)
  <2> HIDE DEF S
  <2>1. \A s, B : s \in Seq(B) => Range(s) \subseteq B
    BY DEF Range
  <2> QED
    BY <1>3, <2>1
<1>5. CASE e \in S
  <2>1. e \in Range(es)
    <3> HIDE DEF es
    <3>1. DOMAIN es = 1..Len(es)
      BY <1>2
    <3> QED
      BY <1>5, <3>1 DEF Range
  <2> QED
    BY <2>1, RuleLeads
<1>6. CASE \E i \in Branches(es) : e = BranchPoint(es, l, i)
  <2>1. PICK i \in Branches(es) : e = BranchPoint(es, l, i)
    BY <1>6
  <2>2. References(e) = {Arm(l, i, k) : k \in DOMAIN Run(es, i)}
    <3>1. e.kind = "branch" /\ e.arms = [k \in DOMAIN Run(es, i) |-> Arm(l, i, k)]
      BY <2>1 DEF BranchPoint
    <3>2. References(e) = Range(e.arms)
      BY <3>1 DEF References
    <3> QED
      BY <3>1, <3>2 DEF Range
  <2>3. ref \in ArmNames(es, l)
    BY <2>2 DEF ArmNames
  <2> QED
    BY <2>3 DEF Known, ContextNames
<1> QED
  BY <1>4, <1>5, <1>6 DEF Bits

LEMMA ContextConsists ==
  ASSUME NEW l, NEW E, Body(l) \in Seq(E), NEW e \in Range(Context(l))
  PROVE  \/ e = Opening(l)
         \/ e \in Range(Body(l))
         \/ states[l].imm # NoState /\ e = [kind |-> "immediate", name |-> Own(Renamed(states[l].imm))]
         \/ e = [kind |-> "frame", frame |-> states[l].frame]
<1> DEFINE o == Opening(l)
           m == [kind |-> "immediate", name |-> Own(Renamed(states[l].imm))]
           f == [kind |-> "frame", frame |-> states[l].frame]
           i == Immediate(states[l])
           b == Body(l)
           S == {o, f} \cup Range(b) \cup (IF states[l].imm = NoState THEN {} ELSE {m})
<1>1. Context(l) = ((<<o>> \o b) \o i) \o <<f>>
  BY DEF Context, Opening
<1>2. i = IF states[l].imm = NoState THEN <<>> ELSE <<m>>
  BY DEF Immediate
<1> HIDE DEF o, m, f, i, b
<1>3. b \in Seq(S)
  <2>1. b \in Seq(E)
    BY DEF b
  <2>2. \A j \in 1..Len(b) : b[j] \in S
    BY <2>1 DEF Range
  <2> HIDE DEF S
  <2> QED
    BY <2>1, <2>2
<1>4. <<o>> \in Seq(S) /\ <<f>> \in Seq(S) /\ i \in Seq(S)
  <2>1. o \in S /\ f \in S /\ (i # <<>> => m \in S /\ i = <<m>>)
    BY <1>2
  <2> HIDE DEF S
  <2>2. <<>> \in Seq(S) /\ \A x \in S : <<x>> \in Seq(S)
    OBVIOUS
  <2> QED
    BY <2>1, <2>2, Zenon
<1> HIDE DEF S
<1>5. Context(l) \in Seq(S)
  <2>1. <<o>> \o b \in Seq(S)
    BY <1>3, <1>4, ConcatProperties
  <2>2. (<<o>> \o b) \o i \in Seq(S)
    BY <2>1, <1>4, ConcatProperties
  <2> QED
    BY <1>1, <1>4, <2>2, ConcatProperties
<1>6. \A s \in Seq(S) : Range(s) \subseteq S
  BY DEF Range
<1>7. e \in S
  BY <1>5, <1>6
<1> QED
  BY <1>7 DEF S, o, m, f, b

LEMMA ListLeads ==
  ASSUME Merging, Emission, pc \notin {"refine", "merged"}, NEW l \in representatives
  PROVE  /\ l \in labels /\ l \in Sources /\ base[l] = Merged(SourceEntries(l), l)
         /\ base[l] \in Seq(Bits(BaseEntries(l), l))
<1>1. machine \in Machines /\ representatives \subseteq labels
  BY RepresentativesAre DEF Merging
<1>2. l \in Sources /\ l \in labels
  BY <1>1 DEF Sources
<1>3. base[l] = Merged(BaseEntries(l), l)
  BY DEF Emission, Listed
<1>4. SourceEntries(l) = BaseEntries(l)
  BY <1>1, <1>2, SourceList
<1>5. Merged(BaseEntries(l), l) \in Seq(Bits(BaseEntries(l), l))
  BY <1>1, <1>2, BaseEntriesAre, MergedPoints
<1> QED
  BY <1>2, <1>3, <1>4, <1>5

LEMMA ContextLeads ==
  ASSUME Merging, Emission, pc \notin {"refine", "merged"}, NEW l \in representatives,
         NEW e \in Range(Context(l)), NEW ref \in References(e)
  PROVE  Known(ref)
<1>1. machine \in Machines /\ representatives \subseteq labels /\ \A k \in labels : rep[k] \in representatives
  BY RepresentativesAre DEF Merging
<1> DEFINE inc == [kind |-> "include", name |-> SharedBy(First(Sharing(l)))]
           E == Bits(BaseEntries(l), l) \cup {inc}
<1>2. Body(l) \in Seq(E) /\ (IsShared(l) => Range(Body(l)) = {inc}) /\ (~IsShared(l) => Body(l) = base[l])
  <2>1. base[l] \in Seq(Bits(BaseEntries(l), l))
    BY ListLeads
  <2>2. Body(l) = IF IsShared(l) THEN <<inc>> ELSE base[l]
    BY DEF Body
  <2> HIDE DEF inc
  <2>3. base[l] \in Seq(E) /\ <<inc>> \in Seq(E)
    BY <2>1
  <2>4. Range(<<inc>>) = {inc}
    BY DEF Range
  <2> QED
    BY <2>2, <2>3, <2>4
<1> HIDE DEF E
<1>3. CASE e = Opening(l)
  BY <1>3 DEF Opening, References
<1>4. CASE e = [kind |-> "frame", frame |-> states[l].frame]
  BY <1>4 DEF References
<1>5. CASE states[l].imm # NoState /\ e = [kind |-> "immediate", name |-> Own(Renamed(states[l].imm))]
  <2>1. ref = Own(Renamed(states[l].imm))
    BY <1>5 DEF References
  <2>2. CASE states[l].imm \in labels
    BY <1>1, <2>1, <2>2 DEF Known, ContextNames, Sources, Renamed
  <2>3. CASE states[l].imm \notin labels
    <3>1. states[l].imm \in Missing
      BY <1>1, <1>5, <2>3, MissingIs
    <3> QED
      BY <2>1, <2>3, <3>1 DEF Known, Renamed
  <2> QED
    BY <2>2, <2>3
<1>6. CASE e \in Range(Body(l))
  <2>1. CASE IsShared(l)
    <3>1. e = inc
      BY <1>2, <1>6, <2>1
    <3>2. ref = SharedBy(First(Sharing(l)))
      BY <3>1 DEF References
    <3> QED
      BY <2>1, <3>2 DEF Known, ContextNames
  <2>2. CASE ~IsShared(l)
    BY <1>2, <1>6, <2>2, ListLeads, MergedLeads
  <2> QED
    BY <2>1, <2>2
<1> QED
  BY <1>2, <1>3, <1>4, <1>5, <1>6, ContextConsists

LEMMA EntriesLead ==
  ASSUME Merging, Emission, pc \notin {"refine", "merged"}, NEW n \in ContextNames,
         NEW e \in Range(EntriesOf(n)), NEW ref \in References(e)
  PROVE  Known(ref)
<1>1. machine \in Machines /\ representatives \subseteq labels
  BY RepresentativesAre DEF Merging
<1>2. /\ DOMAIN machine.modes \subseteq Modes
      /\ labels \cap Modes = {} /\ Prototype \notin Modes /\ Prototype \notin labels
      /\ labels \subseteq Names
  BY <1>1, SublimeStatesAssumption DEF LanguageMachine, labels, states, Labels
<1>3. ASSUME NEW l \in Sources, n = Own(l) PROVE Known(ref)
  <2>1. n[1] = l /\ ~(n[2] > 0) /\ n # SharedBy(n[1]) /\ n = Own(n[1])
    BY <1>3 DEF Own, SharedBy
  <2>2. CASE l \in labels
    <3>1. EntriesOf(n) = Context(l) /\ l \in representatives
      BY <1>1, <1>2, <1>3, <2>2, EntriesOfCases DEF Sources
    <3> QED
      BY <3>1, ContextLeads
  <2>3. CASE l \notin labels
    <3>1. EntriesOf(n) = Merged(SourceEntries(l), l)
      BY <2>1, <2>3 DEF EntriesOf
    <3> QED
      BY <3>1, MergedLeads
  <2> QED
    BY <2>2, <2>3
<1>4. ASSUME NEW l \in representatives, IsShared(l), n = SharedBy(First(Sharing(l))) PROVE Known(ref)
  <2> DEFINE k == First(Sharing(l))
  <2>1. k \in Sharing(l)
    <3>1. l \in Sharing(l) /\ Sharing(l) \subseteq Names
      BY <1>1, <1>2 DEF Sharing
    <3> QED
      BY <3>1, FirstIn
  <2>2. k \in representatives
    BY <2>1 DEF Sharing
  <2> HIDE DEF k
  <2>3. EntriesOf(n) = base[k]
    BY <1>1, <1>4, <2>2, EntriesOfCases DEF k
  <2>4. k \in Sources /\ base[k] = Merged(SourceEntries(k), k)
    BY <2>2, ListLeads
  <2> QED
    BY <2>3, <2>4, MergedLeads
<1>5. ASSUME NEW l \in Sources, n \in ArmNames(SourceEntries(l), l) PROVE Known(ref)
  <2> DEFINE es == SourceEntries(l)
             S == {es[x] : x \in 1..Len(es)}
  <2>1. es \in Seq(S)
    BY <1>1, SourceList
  <2>2. PICK i \in Branches(es) : \E k \in DOMAIN Run(es, i) : n = Arm(l, i, k)
    BY <1>5 DEF ArmNames
  <2>3. PICK k \in DOMAIN Run(es, i) : n = Arm(l, i, k)
    BY <2>2
  <2> HIDE DEF es, S
  <2>4. i \in 1..Len(es) /\ i \in Nat /\ i > 0
    BY <2>1 DEF Branches
  <2>5. Run(es, i) \in Seq(S)
    BY <2>1, <2>4, RunIs
  <2>6. Run(es, i)[k] \in S
    BY <2>5
  <2>7. Run(es, i)[k] \in Range(es)
    <3>1. DOMAIN es = 1..Len(es)
      BY <2>1
    <3> QED
      BY <2>6, <3>1 DEF Range, S
  <2>8. EntriesOf(n) = <<Run(es, i)[k]>>
    <3>1. n[1] = l /\ n[2] = i /\ n[3] = k /\ n[2] > 0
      BY <2>3, <2>4 DEF Arm
    <3>2. n # SharedBy(n[1]) /\ n # Own(n[1])
      BY <3>1 DEF SharedBy, Own
    <3>3. EntriesOf(n) = <<Run(SourceEntries(n[1]), n[2])[n[3]]>>
      BY <3>1, <3>2 DEF EntriesOf
    <3> QED
      BY <3>1, <3>3 DEF es
  <2>9. e = Run(es, i)[k]
    BY <2>8 DEF Range
  <2>10. e \in Range(SourceEntries(l))
    BY <2>7, <2>9 DEF es
  <2> QED
    BY <2>10, RuleLeads
<1> QED
  BY <1>3, <1>4, <1>5 DEF ContextNames

-----------------------------------------------------------------------------
(* What main leads to is kept, and nothing that is kept leads out of it.    *)
LEMMA RootStands ==
  ASSUME Merging, Emission, pc # "refine"
  PROVE  rep[Main] = Main /\ Main \in representatives /\ Own(Main) \in ContextNames
<1>1. Main \in labels /\ rep[Main] = Representative(parts, Main) /\ rep[Main] \in representatives
      /\ \A l \in labels : l \in Names /\ Length[l] \in Nat
  BY RepresentativesAre, SublimeStatesAssumption, MachineLabels
     DEF Merging, Emission, Chosen, LanguageMachine, labels, states
<1>2. Representative(parts, Main) = Main
  <2> DEFINE S == {k \in labels : parts[k] = parts[Main]}
             Best(r) == \A k \in labels : parts[k] = parts[Main] => Preferred(r, k)
  <2>1. Main \in S /\ Best(Main)
    BY <1>1 DEF Preferred
  <2>2. \A r \in S : Best(r) => r = Main
    BY <1>1 DEF Preferred
  <2>3. Representative(parts, Main) = CHOOSE r \in S : Best(r)
    BY DEF Representative
  <2> HIDE DEF S, Best
  <2> QED
    BY <2>1, <2>2, <2>3
<1>3. Main \in representatives /\ rep[Main] = Main
  BY <1>1, <1>2
<1>4. Main \in Sources
  BY <1>3 DEF Sources
<1>5. Own(Main) \in ContextNames
  BY <1>4 DEF ContextNames
<1> QED
  BY <1>3, <1>5

Walking ==
  pc = "prune" =>
    /\ DOMAIN contexts = ContextNames
    /\ Own(Main) \in reached /\ queue \subseteq reached
    /\ \A n \in reached \ queue : ReferencedBy(n) \cap DOMAIN contexts \subseteq reached
Walked ==
  pc \in {"validate", "done", "panic"} =>
    /\ DOMAIN contexts \subseteq ContextNames /\ Own(Main) \in DOMAIN contexts
    /\ \A n \in DOMAIN contexts : ReferencedBy(n) \cap ContextNames \subseteq DOMAIN contexts
Panicked ==
  pc = "panic" => \E n \in DOMAIN contexts : ~(ReferencedBy(n) \subseteq DOMAIN contexts)
Pruning == Walking /\ Walked /\ Panicked

LEMMA PruningInit == Init => Pruning
BY DEF Init, Pruning, Walking, Walked, Panicked

LEMMA PruningStep == Merging /\ Emission /\ Pruning /\ [Next]_vars => Pruning'
<1> SUFFICES ASSUME Merging, Emission, Pruning, [Next]_vars PROVE Pruning'
  OBVIOUS
<1>1. CASE Refine \/ Settle \/ BuildEntries
  BY <1>1 DEF Refine, Settle, BuildEntries, Pruning, Walking, Walked, Panicked
<1>2. CASE Emit
  <2>1. UNCHANGED <<machine, rep, base>> /\ pc' = "prune" /\ pc = "emit"
    BY <1>2 DEF Emit
  <2>2. ContextsMap' = ContextsMap
    BY <2>1, ContextsStand
  <2>3. ContextNames' = ContextNames
    <3>1. DOMAIN ContextsMap = ContextNames
      BY DEF ContextsMap
    <3>2. (DOMAIN ContextsMap)' = ContextNames'
      BY DEF ContextsMap
    <3> QED
      BY <2>2, <3>1, <3>2
  <2>4. DOMAIN contexts' = ContextNames
    BY <1>2 DEF Emit, ContextsMap
  <2>5. Own(Main) \in ContextNames
    BY <2>1, RootStands
  <2>6. Own(Main) \in reached' /\ queue' = reached'
    BY <1>2, <2>4, <2>5 DEF Emit
  <2>7. Walking'
    BY <2>3, <2>4, <2>6 DEF Walking
  <2> QED
    BY <2>1, <2>7 DEF Pruning, Walked, Panicked
<1>3. ASSUME UNCHANGED <<machine, rep, base>> PROVE ContextNames' = ContextNames
  <2>1. DOMAIN ContextsMap = ContextNames
    BY DEF ContextsMap
  <2>2. (DOMAIN ContextsMap)' = ContextNames'
    BY DEF ContextsMap
  <2> QED
    BY <1>3, <2>1, <2>2, ContextsStand
<1>4. ASSUME NEW n \in queue, Visit(n) PROVE Pruning'
  <2>1. UNCHANGED <<machine, rep, base, contexts>> /\ pc' = "prune" /\ pc = "prune"
    BY <1>4 DEF Visit
  <2>2. ContextNames' = ContextNames /\ \A k : ReferencedBy(k)' = ReferencedBy(k)
    BY <1>3, <2>1 DEF ReferencedBy
  <2> DEFINE new == (ReferencedBy(n) \cap DOMAIN contexts) \ reached
  <2>3. queue' = (queue \ {n}) \cup new /\ reached' = reached \cup new
    BY <1>4 DEF Visit
  <2> HIDE DEF new
  <2>4. ASSUME NEW k \in reached' \ queue' PROVE ReferencedBy(k) \cap DOMAIN contexts \subseteq reached'
    <3>1. k \in reached /\ (k \notin queue \/ k = n)
      BY <2>3
    <3>2. CASE k \notin queue
      BY <2>1, <2>3, <3>1, <3>2 DEF Pruning, Walking
    <3>3. CASE k = n
      BY <2>3, <3>3 DEF new
    <3> QED
      BY <3>1, <3>2, <3>3
  <2>5. Own(Main) \in reached' /\ queue' \subseteq reached'
    BY <2>1, <2>3 DEF Pruning, Walking
  <2>6. Walking'
    BY <2>1, <2>2, <2>4, <2>5 DEF Pruning, Walking
  <2> QED
    BY <2>1, <2>6 DEF Pruning, Walked, Panicked
<1>5. CASE Prune
  <2>1. UNCHANGED <<machine, rep, base>> /\ pc' = "validate" /\ pc = "prune" /\ queue = {}
        /\ contexts' = [n \in reached |-> contexts[n]] /\ reached \subseteq DOMAIN contexts
    BY <1>5 DEF Prune, Emission, Filled
  <2>2. ContextNames' = ContextNames /\ DOMAIN contexts = ContextNames
    BY <1>3, <2>1 DEF Pruning, Walking
  <2>3. DOMAIN contexts' = reached
    BY <2>1
  <2>4. \A n \in reached : ReferencedBy(n)' = ReferencedBy(n)
    BY <2>1 DEF ReferencedBy
  <2>5. \A n \in reached : ReferencedBy(n) \cap ContextNames \subseteq reached
    BY <2>1, <2>2 DEF Pruning, Walking
  <2>6. Walked'
    BY <2>1, <2>2, <2>3, <2>4, <2>5 DEF Walked, Pruning, Walking
  <2> QED
    BY <2>1, <2>6 DEF Pruning, Walking, Panicked
<1>6. ASSUME UNCHANGED <<machine, rep, base, contexts, reached, queue>>,
             pc \in {"validate", "done", "panic"}, pc' \in {"validate", "done", "panic"}
      PROVE  Walked'
  <2>1. ContextNames' = ContextNames /\ \A n : ReferencedBy(n)' = ReferencedBy(n)
    BY <1>3, <1>6 DEF ReferencedBy
  <2> QED
    BY <1>6, <2>1 DEF Pruning, Walked
<1>7. CASE Validate
  <2>1. Walked'
    BY <1>6, <1>7 DEF Validate
  <2>2. Panicked'
    BY <1>7 DEF Validate, Panicked, ReferencedBy
  <2> QED
    BY <1>7, <2>1, <2>2 DEF Validate, Pruning, Walking
<1>8. CASE UNCHANGED vars
  <2>1. UNCHANGED <<machine, pc, rep, base, contexts, reached, queue>>
    BY <1>8 DEF vars
  <2>2. pc \in {"validate", "done", "panic"} => Walked'
    BY <1>6, <2>1
  <2>3. pc \notin {"validate", "done", "panic"} => Walked'
    BY <2>1 DEF Walked
  <2>4. ContextNames' = ContextNames /\ \A n : ReferencedBy(n)' = ReferencedBy(n)
    BY <1>3, <2>1 DEF ReferencedBy
  <2>5. Walking' /\ Panicked'
    BY <2>1, <2>4 DEF Pruning, Walking, Panicked
  <2> QED
    BY <2>2, <2>3, <2>5 DEF Pruning
<1> QED
  BY <1>1, <1>2, <1>4, <1>5, <1>7, <1>8 DEF Next, Ended

LEMMA PanicsForMissing ==
  ASSUME Merging, Emission, Pruning, pc = "panic"
  PROVE  Missing # {}
<1>1. PICK n \in DOMAIN contexts : ~(ReferencedBy(n) \subseteq DOMAIN contexts)
  BY DEF Pruning, Panicked
<1>2. PICK ref \in ReferencedBy(n) : ref \notin DOMAIN contexts
  BY <1>1
<1>3. PICK e \in Range(contexts[n]) : ref \in References(e)
  BY <1>2 DEF ReferencedBy
<1>4. n \in ContextNames /\ contexts[n] = EntriesOf(n)
  BY DEF Pruning, Walked, Emission, Filled
<1>5. Known(ref)
  BY <1>3, <1>4, EntriesLead
<1>6. ref \notin ContextNames
  BY <1>1, <1>2 DEF Pruning, Walked
<1> QED
  BY <1>5, <1>6 DEF Known

-----------------------------------------------------------------------------
(* The sequences that an editor machine is made of.                         *)
LEMMA FlatMembers ==
  ASSUME NEW X, NEW n \in Nat, NEW ss \in [1..n -> Seq(X)]
  PROVE  /\ FlattenSeq(ss) \in Seq(X)
         /\ Range(FlattenSeq(ss)) = UNION {Range(ss[i]) : i \in 1..n}
<1> DEFINE Y == UNION {Range(ss[i]) : i \in 1..n}
           a == Counted(n)
           w == FlattenSeq(ss)
<1>1. \A i \in 1..n : ss[i] \in Seq(Y)
  <2> SUFFICES ASSUME NEW i \in 1..n PROVE ss[i] \in Seq(Y)
    OBVIOUS
  <2> DEFINE s == ss[i]
  <2>1. s \in Seq(X) /\ Range(s) \subseteq Y
    OBVIOUS
  <2> HIDE DEF s, Y
  <2>2. \A j \in 1..Len(s) : s[j] \in Y
    BY <2>1 DEF Range
  <2>3. s \in Seq(Y)
    BY <2>1, <2>2
  <2> QED
    BY <2>3 DEF s
<1>2. Lists(ss, 1..n, Y)
  <2> HIDE DEF Y
  <2> QED
    BY <1>1 DEF Lists
<1>3. a \in Seq(1..n) /\ Len(a) = n /\ \A i \in 1..n : a[i] = i
  BY DEF Counted
<1>4. FlatMap(ss, a) = w
  <2>1. [i \in DOMAIN a |-> ss[a[i]]] = [i \in 1..n |-> ss[i]]
    BY DEF Counted
  <2> QED
    BY <2>1 DEF FlatMap
<1> HIDE DEF Y, a, w
<1>5. w \in Seq(Y)
  <2>1. CASE n = 0
    <3>1. a = <<>>
      BY <1>3, <2>1
    <3>2. FlatMap(ss, <<>>) = <<>>
      BY FlatMapEmpty
    <3>3. w = <<>>
      BY <1>4, <3>1, <3>2
    <3> QED
      BY <3>3
  <2>2. CASE n # 0
    <3>1. 1 \in 1..n
      BY <2>2
    <3> QED
      BY <1>2, <1>3, <1>4, <3>1, FlatMapAppend
  <2> QED
    BY <2>1, <2>2
<1>6. \A i \in 1..n : Range(ss[i]) \subseteq X
  BY DEF Range
<1>7. Y \subseteq X
  BY <1>6 DEF Y
<1>8. w \in Seq(X)
  BY <1>5, <1>7
<1>9. Range(w) \subseteq Y
  BY <1>5 DEF Range
<1>10. Y \subseteq Range(w)
  <2> SUFFICES ASSUME NEW i \in 1..n, NEW x \in Range(ss[i]) PROVE x \in Range(w)
    BY DEF Y
  <2>1. PICK k \in 1..Len(ss[i]) : x = ss[i][k]
    <3>1. DOMAIN ss[i] = 1..Len(ss[i])
      BY <1>1
    <3> QED
      BY <3>1 DEF Range
  <2>2. i \in 1..Len(a) /\ a[i] = i
    BY <1>3
  <2>3. k \in 1..Len(ss[a[i]]) /\ ss[a[i]][k] = x
    BY <2>1, <2>2
  <2>4. \E j \in 1..Len(FlatMap(ss, a)) : FlatMap(ss, a)[j] = ss[a[i]][k]
    <3> DEFINE E == 1..n
               y == ss[a[i]][k]
    <3>1. Lists(ss, E, Y) /\ a \in Seq(E) /\ i \in 1..Len(a) /\ k \in 1..Len(ss[a[i]])
      BY <1>2, <1>3, <2>2, <2>3
    <3> HIDE DEF E
    <3>2. \E j \in 1..Len(FlatMap(ss, a)) : FlatMap(ss, a)[j] = ss[a[i]][k]
      BY <3>1, FlatMapHas
    <3> QED
      BY <3>2
  <2>5. \E j \in 1..Len(w) : w[j] = x
    BY <1>4, <2>3, <2>4
  <2>6. DOMAIN w = 1..Len(w)
    BY <1>5
  <2> QED
    BY <2>5, <2>6 DEF Range
<1> QED
  BY <1>8, <1>9, <1>10 DEF Y, w

LEMMA FlatBegins ==
  ASSUME NEW X, NEW n \in Nat, NEW ss \in [1..n -> Seq(X)],
         NEW p \in 1..n, NEW tt \in [1..p -> Seq(X)], \A i \in 1..p : tt[i] = ss[i]
  PROVE  \E rest \in Seq(X) : FlattenSeq(ss) = FlattenSeq(tt) \o rest
<1> DEFINE a == Counted(p)
           b == [i \in 1..(n - p) |-> p + i]
<1>1. Lists(ss, 1..n, X)
  BY DEF Lists
<1>2. a \in Seq(1..n) /\ b \in Seq(1..n) /\ Len(a) = p /\ Len(b) = n - p
  <2>1. a \in Seq(1..n) /\ Len(a) = p
    BY DEF Counted
  <2>2. n - p \in Nat /\ \A i \in 1..(n - p) : p + i \in 1..n
    OBVIOUS
  <2> DEFINE E == 1..n
             d == n - p
  <2>3. b = [i \in 1..d |-> p + i] /\ d \in Nat /\ \A i \in 1..d : p + i \in E
    BY <2>2
  <2> HIDE DEF E, b, d
  <2>4. b \in Seq(E) /\ Len(b) = d
    BY <2>3
  <2> QED
    BY <2>1, <2>4 DEF E, d
<1>3. a \o b = Counted(n)
  <2>1. /\ a \o b \in Seq(1..n) /\ Len(a \o b) = p + (n - p)
        /\ \A i \in 1..(p + (n - p)) : (a \o b)[i] = IF i <= p THEN a[i] ELSE b[i - p]
    <3> DEFINE E == 1..n
    <3>1. a \in Seq(E) /\ b \in Seq(E)
      BY <1>2
    <3> HIDE DEF a, b, E
    <3>2. /\ a \o b \in Seq(E) /\ Len(a \o b) = Len(a) + Len(b)
          /\ \A i \in 1..(Len(a) + Len(b)) : (a \o b)[i] = IF i <= Len(a) THEN a[i] ELSE b[i - Len(a)]
      BY <3>1, ConcatProperties
    <3> QED
      BY <1>2, <3>2 DEF E
  <2>2. \A i \in 1..n : i <= p => i \in 1..p /\ a[i] = i
    BY DEF Counted
  <2>3. \A i \in 1..n : ~(i <= p) => i - p \in 1..(n - p) /\ p + (i - p) = i
    OBVIOUS
  <2>4. \A i \in 1..n : ~(i <= p) => b[i - p] = i
    BY <2>3
  <2>5. p + (n - p) = n
    OBVIOUS
  <2> DEFINE c == a \o b
  <2> HIDE DEF a, b, c
  <2>6. c \in Seq(1..n) /\ Len(c) = n /\ \A i \in 1..n : c[i] = i
    BY <2>1, <2>2, <2>4, <2>5 DEF c
  <2>7. c = [i \in 1..n |-> i]
    BY <2>6
  <2> QED
    BY <2>7 DEF c, Counted
<1>4. FlatMap(ss, Counted(n)) = FlattenSeq(ss)
  <2>1. [i \in DOMAIN Counted(n) |-> ss[Counted(n)[i]]] = [i \in 1..n |-> ss[i]]
    BY DEF Counted
  <2> QED
    BY <2>1 DEF FlatMap
<1>5. FlatMap(ss, a) = FlattenSeq(tt)
  <2>1. [i \in DOMAIN a |-> ss[a[i]]] = tt
    BY DEF Counted
  <2> QED
    BY <2>1 DEF FlatMap
<1> HIDE DEF a, b
<1> DEFINE E == 1..n
<1>6. Lists(ss, E, X) /\ a \in Seq(E) /\ b \in Seq(E) /\ p \in E
  BY <1>1, <1>2
<1> HIDE DEF E
<1>7. FlatMap(ss, a \o b) = FlatMap(ss, a) \o FlatMap(ss, b)
  BY <1>6, FlatMapConcat
<1>8. FlatMap(ss, b) \in Seq(X)
  BY <1>6, FlatMapAppend
<1> QED
  BY <1>3, <1>4, <1>5, <1>7, <1>8

LEMMA KeepIs ==
  ASSUME NEW X, NEW s \in Seq(X), NEW S
  PROVE  Keep(s, S) \in Seq(X) /\ Range(Keep(s, S)) = Range(s) \cap S
<1> DEFINE n == Len(s)
           ss == [i \in 1..n |-> IF s[i] \in S THEN <<s[i]>> ELSE <<>>]
<1>1. Keep(s, S) = FlattenSeq(ss) /\ n \in Nat /\ DOMAIN s = 1..n
  BY DEF Keep
<1>2. \A i \in 1..n : ss[i] = IF s[i] \in S THEN <<s[i]>> ELSE <<>>
  OBVIOUS
<1>3. \A i \in 1..n : s[i] \in X
  OBVIOUS
<1>4. DOMAIN ss = 1..n /\ ss = [i \in 1..n |-> ss[i]]
  OBVIOUS
<1> HIDE DEF ss, n
<1>5. \A i \in 1..n : ss[i] \in Seq(X) /\ Range(ss[i]) = {s[i]} \cap S
  <2> SUFFICES ASSUME NEW i \in 1..n PROVE ss[i] \in Seq(X) /\ Range(ss[i]) = {s[i]} \cap S
    OBVIOUS
  <2>1. CASE s[i] \in S
    <3>1. ss[i] = <<s[i]>> /\ s[i] \in X
      BY <1>2, <1>3, <2>1
    <3> QED
      BY <2>1, <3>1 DEF Range
  <2>2. CASE s[i] \notin S
    <3>1. ss[i] = <<>>
      BY <1>2, <2>2
    <3> QED
      BY <2>2, <3>1 DEF Range
  <2> QED
    BY <2>1, <2>2
<1>6. FlattenSeq(ss) \in Seq(X) /\ Range(FlattenSeq(ss)) = UNION {Range(ss[i]) : i \in 1..n}
  <2>1. ss \in [1..n -> Seq(X)]
    BY <1>4, <1>5
  <2> QED
    BY <1>1, <2>1, FlatMembers
<1>7. UNION {Range(ss[i]) : i \in 1..n} = Range(s) \cap S
  BY <1>1, <1>5 DEF Range
<1> QED
  BY <1>1, <1>6, <1>7

LEMMA GreatestOf ==
  ASSUME NEW n \in Nat, NEW S \in SUBSET (0..n), S # {}
  PROVE  Max(S) \in S /\ \A y \in S : y <= Max(S)
<1> DEFINE T == {n - x : x \in S}
<1>1. T \in SUBSET Nat /\ T # {}
  <2>1. \A x \in S : n - x \in Nat
    OBVIOUS
  <2> QED
    BY <2>1
<1>2. PICK z \in T : \A y \in T : z <= y
  <2> HIDE DEF T
  <2> QED
    BY <1>1, LeastOf
<1>3. PICK x \in S : z = n - x
  BY <1>2
<1>4. ASSUME NEW y \in S PROVE x >= y
  <2>1. n - x <= n - y
    BY <1>2, <1>3
  <2> QED
    BY <2>1
<1>5. \E m \in S : \A y \in S : m >= y
  BY <1>4
<1>6. Max(S) \in S /\ \A y \in S : Max(S) >= y
  BY <1>5 DEF Max
<1> QED
  BY <1>6

(* q is s with e inserted behind the first p members.                       *)
IsInserted(q, X, s, e, p) ==
  /\ q \in Seq(X) /\ Len(q) = Len(s) + 1
  /\ \A k \in 1..p : q[k] = s[k]
  /\ q[p + 1] = e
  /\ \A k \in (p + 1)..Len(s) : q[k + 1] = s[k]

LEMMA InsertIs ==
  ASSUME NEW X, NEW s \in Seq(X), NEW e \in X, NEW p \in 0..Len(s), NEW j, j = p + 1
  PROVE  IsInserted(InsertAt(s, j, e), X, s, e, p)
<1> DEFINE n == Len(s)
           a == SubSeq(s, 1, p)
           b == SubSeq(s, p + 1, n)
           m == a \o <<e>>
           q == m \o b
<1>1. n \in Nat /\ p \in Nat /\ p <= n /\ \A i \in 1..n : s[i] \in X
  OBVIOUS
<1>2. InsertAt(s, p + 1, e) = q
  <2>1. (p + 1) - 1 = p
    BY <1>1
  <2> QED
    BY <2>1 DEF InsertAt
<1>3. a \in Seq(X) /\ Len(a) = p /\ \A i \in 1..p : a[i] = s[i]
  <2>1. \A i \in 1..p : s[i] \in X
    BY <1>1
  <2>2. /\ a \in Seq(X) /\ Len(a) = IF 1 <= p THEN p - 1 + 1 ELSE 0
        /\ \A i \in 1..(p - 1 + 1) : a[i] = s[1 + i - 1]
    BY <1>1, <2>1, SubSeqProperties
  <2> HIDE DEF a
  <2> QED
    BY <1>1, <2>2
<1>4. b \in Seq(X) /\ Len(b) = n - p /\ \A i \in 1..(n - p) : b[i] = s[p + i]
  <2>1. \A i \in (p + 1)..n : s[i] \in X
    BY <1>1
  <2>2. /\ b \in Seq(X) /\ Len(b) = IF p + 1 <= n THEN n - (p + 1) + 1 ELSE 0
        /\ \A i \in 1..(n - (p + 1) + 1) : b[i] = s[(p + 1) + i - 1]
    BY <1>1, <2>1, SubSeqProperties
  <2> HIDE DEF b, n
  <2>3. n - (p + 1) + 1 = n - p /\ \A i \in 1..(n - p) : (p + 1) + i - 1 = p + i
    BY <1>1
  <2> QED
    BY <1>1, <2>2, <2>3
<1> HIDE DEF a, b, n
<1>5. <<e>> \in Seq(X) /\ Len(<<e>>) = 1 /\ <<e>>[1] = e
  OBVIOUS
<1>6. /\ m \in Seq(X) /\ Len(m) = p + 1
      /\ \A i \in 1..(p + 1) : m[i] = IF i <= p THEN a[i] ELSE <<e>>[i - p]
  BY <1>3, <1>5, ConcatProperties
<1>7. /\ (\A i \in 1..p : m[i] = s[i]) /\ m[p + 1] = e
  <2>1. \A i \in 1..p : i \in 1..(p + 1) /\ i <= p
    BY <1>1
  <2>2. p + 1 \in 1..(p + 1) /\ ~(p + 1 <= p) /\ (p + 1) - p = 1
    BY <1>1
  <2> HIDE DEF m
  <2> QED
    BY <1>3, <1>5, <1>6, <2>1, <2>2
<1> HIDE DEF m
<1>8. /\ q \in Seq(X) /\ Len(q) = (p + 1) + (n - p)
      /\ \A i \in 1..((p + 1) + (n - p)) : q[i] = IF i <= p + 1 THEN m[i] ELSE b[i - (p + 1)]
  <2>1. /\ q \in Seq(X) /\ Len(q) = Len(m) + Len(b)
        /\ \A i \in 1..(Len(m) + Len(b)) : q[i] = IF i <= Len(m) THEN m[i] ELSE b[i - Len(m)]
    BY <1>4, <1>6, ConcatProperties
  <2> QED
    BY <1>4, <1>6, <2>1
<1> HIDE DEF q
<1>9. (p + 1) + (n - p) = n + 1
  BY <1>1
<1>10. \A i \in 1..(p + 1) : q[i] = m[i]
  BY <1>1, <1>8, <1>9
<1>11. ASSUME NEW k \in (p + 1)..n PROVE q[k + 1] = s[k]
  <2>1. k + 1 \in 1..(n + 1) /\ ~(k + 1 <= p + 1) /\ (k + 1) - (p + 1) = k - p /\ k - p \in 1..(n - p) /\ p + (k - p) = k
    BY <1>1
  <2>2. q[k + 1] = b[k - p]
    BY <1>8, <1>9, <2>1
  <2>3. b[k - p] = s[p + (k - p)]
    BY <1>4, <2>1
  <2> QED
    BY <2>1, <2>2, <2>3
<1> QED
  BY <1>1, <1>2, <1>7, <1>8, <1>9, <1>10, <1>11 DEF n, IsInserted

-----------------------------------------------------------------------------
(* Sorting by insertion.                                                    *)
Place(s, before, earlier, n) ==
  Max({0} \cup {k \in DOMAIN earlier : <<s[n], earlier[k]>> \notin before})
Inserted(s, before, earlier, n) == InsertAt(earlier, Place(s, before, earlier, n) + 1, s[n])
IsSorting(s, before, c, R) ==
  R = [n \in 0..c |-> IF n = 0 THEN <<>> ELSE Inserted(s, before, R[n - 1], n)]

LEMMA SortingExists ==
  ASSUME NEW s, NEW before, NEW c \in Nat
  PROVE  \E R : IsSorting(s, before, c, R)
<1> DEFINE T == {n \in Nat : \E R : IsSorting(s, before, n, R)}
<1>1. 0 \in T
  <2> DEFINE R == [n \in 0..0 |-> <<>>]
  <2>1. IsSorting(s, before, 0, R)
    BY DEF IsSorting
  <2> QED
    BY <2>1
<1>2. ASSUME NEW n \in Nat, n \in T PROVE n + 1 \in T
  <2>1. PICK R : IsSorting(s, before, n, R)
    BY <1>2
  <2> DEFINE Q == [k \in 0..(n + 1) |-> IF k = n + 1 THEN Inserted(s, before, R[n], n + 1) ELSE R[k]]
  <2>2. \A k \in 0..n : R[k] = IF k = 0 THEN <<>> ELSE Inserted(s, before, R[k - 1], k)
    BY <2>1 DEF IsSorting
  <2>3. \A k \in 0..n : k \in 0..(n + 1) /\ k # n + 1
    OBVIOUS
  <2>4. Q[n + 1] = Inserted(s, before, R[n], n + 1) /\ \A k \in 0..n : Q[k] = R[k]
    BY <2>3
  <2>5. ASSUME NEW k \in 0..(n + 1)
        PROVE  Q[k] = IF k = 0 THEN <<>> ELSE Inserted(s, before, Q[k - 1], k)
    <3> HIDE DEF Q
    <3>1. CASE k = n + 1
      <4>1. k - 1 = n /\ n \in 0..n /\ k # 0
        BY <3>1
      <4> QED
        BY <3>1, <4>1, <2>4
    <3>2. CASE k \in 0..n /\ k = 0
      BY <3>2, <2>2, <2>4
    <3>3. CASE k \in 0..n /\ k # 0
      <4>1. k - 1 \in 0..n
        BY <3>3
      <4> QED
        BY <3>3, <4>1, <2>2, <2>4
    <3> QED
      BY <3>1, <3>2, <3>3
  <2>6. Q = [k \in 0..(n + 1) |-> Q[k]]
    OBVIOUS
  <2> HIDE DEF Q
  <2>7. IsSorting(s, before, n + 1, Q)
    BY <2>5, <2>6 DEF IsSorting
  <2> QED
    BY <2>7
<1> HIDE DEF T
<1>3. c \in T
  BY <1>1, <1>2, CountUp
<1> QED
  BY <1>3 DEF T

LEMMA SortIs ==
  ASSUME NEW s, Len(s) \in Nat, NEW before
  PROVE  \E R : IsSorting(s, before, Len(s), R) /\ StableSort(s, before) = R[Len(s)]
<1> DEFINE TheSorting == CHOOSE R : IsSorting(s, before, Len(s), R)
<1>1. IsSorting(s, before, Len(s), TheSorting)
  BY SortingExists
<1>2. StableSort(s, before) = TheSorting[Len(s)]
  BY DEF StableSort, IsSorting, Inserted, Place
<1> QED
  BY <1>1, <1>2

LEMMA PlaceIs ==
  ASSUME NEW X, NEW s, NEW before, NEW a \in Seq(X), NEW n
  PROVE  /\ Place(s, before, a, n) \in 0..Len(a)
         /\ \A k \in 1..Len(a) : k > Place(s, before, a, n) => <<s[n], a[k]>> \in before
         /\ Place(s, before, a, n) # 0 => <<s[n], a[Place(s, before, a, n)]>> \notin before
<1> DEFINE S == {0} \cup {k \in DOMAIN a : <<s[n], a[k]>> \notin before}
           p == Place(s, before, a, n)
<1>1. Len(a) \in Nat /\ DOMAIN a = 1..Len(a) /\ p = Max(S)
  BY DEF Place
<1>2. S \in SUBSET (0..Len(a)) /\ S # {}
  BY <1>1
<1> HIDE DEF p
<1>3. p \in S /\ \A y \in S : y <= p
  <2> HIDE DEF S
  <2> QED
    BY <1>1, <1>2, GreatestOf
<1>4. ASSUME NEW k \in 1..Len(a), k > p PROVE <<s[n], a[k]>> \in before
  <2> HIDE DEF S
  <2>1. p \in 0..Len(a)
    BY <1>2, <1>3
  <2>2. k \in S => k <= p
    BY <1>3
  <2>3. k \notin S
    BY <1>1, <1>4, <2>1, <2>2
  <2> QED
    BY <1>1, <2>3 DEF S
<1>5. p # 0 => <<s[n], a[p]>> \notin before
  BY <1>3
<1> QED
  BY <1>2, <1>3, <1>4, <1>5 DEF p

(* What is sorted is what it was sorted of.                                 *)
LEMMA SortKeeps ==
  ASSUME NEW X, NEW s \in Seq(X), NEW before
  PROVE  StableSort(s, before) \in Seq(X) /\ Range(StableSort(s, before)) = Range(s)
<1>0. Len(s) \in Nat /\ DOMAIN s = 1..Len(s) /\ \A i \in 1..Len(s) : s[i] \in X
  OBVIOUS
<1>1. PICK R : IsSorting(s, before, Len(s), R) /\ StableSort(s, before) = R[Len(s)]
  BY <1>0, SortIs
<1>2. \A n \in 0..Len(s) : R[n] = IF n = 0 THEN <<>> ELSE Inserted(s, before, R[n - 1], n)
  BY <1>1 DEF IsSorting
<1> DEFINE T == {n \in Nat : n <= Len(s) => R[n] \in Seq(X) /\ Range(R[n]) = {s[i] : i \in 1..n}}
<1>3. 0 \in T
  <2>1. R[0] = <<>>
    BY <1>0, <1>2
  <2>2. <<>> \in Seq(X) /\ Range(<<>>) = {} /\ {s[i] : i \in 1..0} = {}
    BY DEF Range
  <2> QED
    BY <2>1, <2>2
<1>4. ASSUME NEW n \in Nat, n \in T PROVE n + 1 \in T
  <2> SUFFICES ASSUME n + 1 <= Len(s)
               PROVE  R[n + 1] \in Seq(X) /\ Range(R[n + 1]) = {s[i] : i \in 1..(n + 1)}
    OBVIOUS
  <2>1. n <= Len(s) /\ n + 1 \in 0..Len(s) /\ n + 1 # 0 /\ (n + 1) - 1 = n /\ n + 1 \in 1..Len(s)
    BY <1>0
  <2> DEFINE a == R[n]
             p == Place(s, before, a, n + 1)
             q == InsertAt(a, p + 1, s[n + 1])
  <2>2. R[n + 1] = q
    BY <1>2, <2>1 DEF Inserted
  <2>3. a \in Seq(X) /\ Range(a) = {s[i] : i \in 1..n} /\ s[n + 1] \in X
    BY <1>0, <1>4, <2>1
  <2> HIDE DEF a, T
  <2>4. p \in 0..Len(a)
    BY <2>3, PlaceIs
  <2> HIDE DEF p
  <2>5. /\ q \in Seq(X) /\ Len(q) = Len(a) + 1
        /\ \A k \in 1..p : q[k] = a[k]
        /\ q[p + 1] = s[n + 1]
        /\ \A k \in (p + 1)..Len(a) : q[k + 1] = a[k]
    <3> DEFINE e == s[n + 1]
               j == p + 1
    <3>1. a \in Seq(X) /\ e \in X /\ p \in 0..Len(a) /\ j = p + 1
      BY <2>3, <2>4
    <3> HIDE DEF e, j
    <3>2. IsInserted(InsertAt(a, j, e), X, a, e, p)
      BY <3>1, InsertIs
    <3> QED
      BY <3>2 DEF e, j, IsInserted
  <2> HIDE DEF q
  <2>6. Range(q) = Range(a) \cup {s[n + 1]}
    <3>1. Len(a) \in Nat /\ DOMAIN a = 1..Len(a) /\ DOMAIN q = 1..(Len(a) + 1)
      BY <2>3, <2>5
    <3>2. ASSUME NEW k \in 1..(Len(a) + 1) PROVE q[k] \in Range(a) \cup {s[n + 1]}
      <4>1. CASE k <= p
        BY <2>4, <2>5, <3>1, <4>1 DEF Range
      <4>2. CASE k = p + 1
        BY <2>5, <4>2
      <4>3. CASE k > p + 1
        <5>1. k - 1 \in (p + 1)..Len(a) /\ (k - 1) + 1 = k /\ k - 1 \in DOMAIN a
          BY <2>4, <3>1, <4>3
        <5>2. q[(k - 1) + 1] = a[k - 1]
          BY <2>5, <5>1
        <5> QED
          BY <5>1, <5>2 DEF Range
      <4> QED
        BY <2>4, <3>1, <4>1, <4>2, <4>3
    <3>3. ASSUME NEW k \in 1..Len(a) PROVE a[k] \in Range(q)
      <4>1. CASE k <= p
        <5>1. q[k] = a[k] /\ k \in DOMAIN q
          BY <2>4, <2>5, <3>1, <4>1
        <5> QED
          BY <5>1 DEF Range
      <4>2. CASE k > p
        <5>1. q[k + 1] = a[k] /\ k + 1 \in DOMAIN q
          BY <2>4, <2>5, <3>1, <4>2
        <5> QED
          BY <5>1 DEF Range
      <4> QED
        BY <2>4, <3>1, <4>1, <4>2
    <3>4. s[n + 1] \in Range(q)
      <4>1. p + 1 \in DOMAIN q
        BY <2>4, <3>1
      <4> QED
        BY <2>5, <4>1 DEF Range
    <3>5. Range(q) \subseteq Range(a) \cup {s[n + 1]}
      BY <3>1, <3>2 DEF Range
    <3>6. Range(a) \subseteq Range(q)
      BY <3>1, <3>3 DEF Range
    <3> QED
      BY <3>4, <3>5, <3>6
  <2>7. {s[i] : i \in 1..(n + 1)} = {s[i] : i \in 1..n} \cup {s[n + 1]}
    <3>1. 1..(n + 1) = 1..n \cup {n + 1}
      OBVIOUS
    <3> QED
      BY <3>1
  <2> QED
    BY <2>2, <2>3, <2>5, <2>6, <2>7
<1> HIDE DEF T
<1>5. Len(s) \in T
  BY <1>0, <1>3, <1>4, CountUp
<1>6. R[Len(s)] \in Seq(X) /\ Range(R[Len(s)]) = {s[i] : i \in 1..Len(s)}
  BY <1>0, <1>5 DEF T
<1> QED
  BY <1>0, <1>1, <1>6 DEF Range

-----------------------------------------------------------------------------
(* What a machine is built of.                                              *)
LEMMA OverridesAre ==
  ASSUME NEW g \in Graphs, NEW t
  PROVE  /\ Overrides(g, t) \in Seq(Range(Overrides(g, t)))
         /\ \A o \in Range(Overrides(g, t)) : o.kind \in {"plain", "foreign", "delimited"}
<1> DEFINE os == IF t.token \in DOMAIN g.overrides THEN g.overrides[t.token] ELSE <<PlainOverride>>
           S == {o \in Range(os) : o.pattern # NoPattern \/ t.rule # 0}
           w == Overrides(g, t)
<1>1. os \in Seq(Range(os)) /\ \A o \in Range(os) : o.kind \in {"plain", "foreign", "delimited"}
  <2>1. CASE t.token \in DOMAIN g.overrides
    BY <2>1, EditorStatesAssumption DEF StateGraph
  <2>2. CASE t.token \notin DOMAIN g.overrides
    <3>1. os = <<PlainOverride>> /\ Range(os) = {PlainOverride}
      BY <2>2 DEF Range
    <3>2. PlainOverride.kind = "plain"
      BY DEF PlainOverride
    <3> HIDE DEF os
    <3>3. <<PlainOverride>> \in Seq({PlainOverride})
      OBVIOUS
    <3> QED
      BY <3>1, <3>2, <3>3
  <2> QED
    BY <2>1, <2>2
<1>2. w = Keep(os, S)
  BY DEF Overrides
<1> HIDE DEF os, S, w
<1>3. w \in Seq(Range(os)) /\ Range(w) = Range(os) \cap S
  BY <1>1, <1>2, KeepIs
<1>4. w \in Seq(Range(w))
  <2>1. \A i \in 1..Len(w) : w[i] \in Range(w)
    BY <1>3 DEF Range
  <2> DEFINE R == Range(w)
  <2>2. \A i \in 1..Len(w) : w[i] \in R
    BY <2>1
  <2> HIDE DEF R
  <2>3. w \in Seq(R)
    BY <1>3, <2>2
  <2> QED
    BY <2>3 DEF R
<1> QED
  BY <1>1, <1>3, <1>4 DEF w

RulesMadeOf(g, ts) == UNION {{EditorRule(g, t, o) : o \in Range(Overrides(g, t))} : t \in Range(ts)}
RulesOfOne(g, t) == [k \in DOMAIN Overrides(g, t) |-> EditorRule(g, t, Overrides(g, t)[k])]

LEMMA RulesOfOneAre ==
  ASSUME NEW g \in Graphs, NEW t
  PROVE  /\ RulesOfOne(g, t) \in Seq({EditorRule(g, t, o) : o \in Range(Overrides(g, t))})
         /\ Range(RulesOfOne(g, t)) = {EditorRule(g, t, o) : o \in Range(Overrides(g, t))}
<1> DEFINE os == Overrides(g, t)
           S == {EditorRule(g, t, o) : o \in Range(os)}
<1>1. os \in Seq(Range(os))
  BY OverridesAre
<1> HIDE DEF os
<1>2. Len(os) \in Nat /\ DOMAIN os = 1..Len(os) /\ \A k \in DOMAIN os : os[k] \in Range(os)
  BY <1>1
<1> DEFINE w == [k \in 1..Len(os) |-> EditorRule(g, t, os[k])]
<1>3. RulesOfOne(g, t) = w
  BY <1>2 DEF RulesOfOne, os
<1>4. \A k \in 1..Len(os) : EditorRule(g, t, os[k]) \in S
  BY <1>2
<1>5. w \in Seq(S)
  <2> HIDE DEF S
  <2> QED
    BY <1>2, <1>4
<1>6. Range(w) = S
  BY <1>2 DEF Range
<1> QED
  BY <1>3, <1>5, <1>6 DEF os

LEMMA EditorRulesAre ==
  ASSUME NEW g \in Graphs, NEW ts, Len(ts) \in Nat, DOMAIN ts = 1..Len(ts)
  PROVE  /\ EditorRules(g, ts) \in Seq(RulesMadeOf(g, ts))
         /\ Range(EditorRules(g, ts)) = RulesMadeOf(g, ts)
         /\ EditorRules(g, ts) = FlattenSeq([i \in 1..Len(ts) |-> RulesOfOne(g, ts[i])])
         /\ [i \in 1..Len(ts) |-> RulesOfOne(g, ts[i])] \in [1..Len(ts) -> Seq(RulesMadeOf(g, ts))]
<1> DEFINE n == Len(ts)
           ss == [i \in 1..n |-> RulesOfOne(g, ts[i])]
           X == RulesMadeOf(g, ts)
<1>1. EditorRules(g, ts) = FlattenSeq(ss)
  BY DEF EditorRules, RulesOfOne
<1>2. ASSUME NEW i \in 1..n PROVE RulesOfOne(g, ts[i]) \in Seq(X)
  <2> DEFINE S == {EditorRule(g, ts[i], o) : o \in Range(Overrides(g, ts[i]))}
             w == RulesOfOne(g, ts[i])
  <2>1. ts[i] \in Range(ts)
    BY DEF Range
  <2>2. S \subseteq X
    BY <2>1 DEF RulesMadeOf
  <2>3. w \in Seq(S)
    BY RulesOfOneAre
  <2> HIDE DEF S, w, X
  <2>4. \A k \in 1..Len(w) : w[k] \in X
    BY <2>2, <2>3
  <2>5. w \in Seq(X)
    BY <2>3, <2>4
  <2> QED
    BY <2>5 DEF w
<1>3. ss \in [1..n -> Seq(X)]
  BY <1>2
<1>4. \A i \in 1..n : Range(ss[i]) = {EditorRule(g, ts[i], o) : o \in Range(Overrides(g, ts[i]))}
  BY RulesOfOneAre
<1>5. UNION {Range(ss[i]) : i \in 1..n} = X
  <2> DEFINE Of(t) == {EditorRule(g, t, o) : o \in Range(Overrides(g, t))}
  <2>1. X = UNION {Of(t) : t \in Range(ts)}
    BY DEF RulesMadeOf
  <2>2. \A i \in 1..n : Range(ss[i]) = Of(ts[i])
    BY <1>4
  <2>3. Range(ts) = {ts[i] : i \in 1..n}
    BY DEF Range
  <2> HIDE DEF X, ss, Of
  <2> QED
    BY <2>1, <2>2, <2>3
<1> HIDE DEF ss, X
<1>6. FlattenSeq(ss) \in Seq(X) /\ Range(FlattenSeq(ss)) = UNION {Range(ss[i]) : i \in 1..n}
  BY <1>3, FlatMembers
<1> QED
  BY <1>1, <1>3, <1>5, <1>6 DEF ss, X

LEMMA DiscoveredIs ==
  ASSUME NEW g \in Graphs, NEW c
  PROVE  Discovered(g, c) \in Seq(GraphTransition(g))
<1>1. CASE c \in DOMAIN g.transitions
  BY <1>1, EditorStatesAssumption DEF Discovered, StateGraph
<1>2. CASE c \notin DOMAIN g.transitions
  <2>1. \A X : <<>> \in Seq(X)
    OBVIOUS
  <2> QED
    BY <1>2, <2>1 DEF Discovered
<1> QED
  BY <1>1, <1>2

Sorted(g, c) == StableSort([i \in DOMAIN Discovered(g, c) |-> i], Before(g, Discovered(g, c)))

LEMMA InOrderIs ==
  ASSUME NEW g \in Graphs, NEW c
  PROVE  /\ Sorted(g, c) \in Seq(1..Len(Discovered(g, c)))
         /\ Range(Sorted(g, c)) = 1..Len(Discovered(g, c))
         /\ InOrder(g, c) = [k \in 1..Len(Sorted(g, c)) |-> Discovered(g, c)[Sorted(g, c)[k]]]
         /\ InOrder(g, c) \in Seq(GraphTransition(g))
         /\ Range(InOrder(g, c)) = Range(Discovered(g, c))
<1> DEFINE ts == Discovered(g, c)
           X == 1..Len(ts)
           s == [i \in X |-> i]
           T == GraphTransition(g)
           w == Sorted(g, c)
<1>1. ts \in Seq(T) /\ Len(ts) \in Nat /\ DOMAIN ts = X
  <2> HIDE DEF T
  <2>1. ts \in Seq(T)
    BY DiscoveredIs DEF T
  <2> QED
    BY <2>1
<1>2. s \in Seq(X) /\ Range(s) = X
  <2>1. Len(ts) \in Nat
    BY <1>1
  <2>2. s \in [1..Len(ts) -> X]
    OBVIOUS
  <2> HIDE DEF X
  <2>3. s \in Seq(X)
    BY <2>1, <2>2, SeqDef
  <2> QED
    BY <2>3 DEF Range
<1>3. w = StableSort(s, Before(g, ts))
  BY <1>1 DEF Sorted
<1> HIDE DEF ts, s, T, w, X
<1>4. w \in Seq(X) /\ Range(w) = X
  BY <1>2, <1>3, SortKeeps
<1>5. Len(w) \in Nat /\ DOMAIN w = 1..Len(w) /\ \A k \in 1..Len(w) : w[k] \in X
  BY <1>4
<1>6. InOrder(g, c) = [k \in 1..Len(w) |-> ts[w[k]]]
  <2>1. InOrder(g, c) = [k \in DOMAIN w |-> ts[w[k]]]
    BY DEF InOrder, w, Sorted, ts
  <2> QED
    BY <1>5, <2>1
<1> DEFINE q == InOrder(g, c)
<1> HIDE DEF q
<1>7. q = [k \in 1..Len(w) |-> ts[w[k]]]
  BY <1>6 DEF q
<1>8. \A x \in X : ts[x] \in T
  BY <1>1 DEF X
<1>9. q \in Seq(T)
  BY <1>5, <1>7, <1>8
<1>10. Range(q) = {ts[w[k]] : k \in 1..Len(w)}
  BY <1>7 DEF Range
<1>11. X = {w[k] : k \in 1..Len(w)}
  BY <1>4, <1>5 DEF Range
<1>12. Range(ts) = {ts[x] : x \in X}
  BY <1>1 DEF Range
<1>13. Range(q) = Range(ts)
  BY <1>10, <1>11, <1>12
<1> QED
  BY <1>4, <1>7, <1>9, <1>13 DEF q, w, T, X, ts

(* The rules of the lexer that become matches.                              *)
LEMMA IndicesAre ==
  ASSUME NEW g \in Graphs
  PROVE  Indices(g) \in Seq(DOMAIN g.rules) /\ Range(Indices(g)) = DOMAIN g.rules
<1> DEFINE n == Len(g.rules)
<1>1. n \in Nat /\ DOMAIN g.rules = 1..n
  BY EditorStatesAssumption DEF StateGraph
<1> HIDE DEF n
<1>2. Indices(g) = [i \in 1..n |-> i]
  BY <1>1 DEF Indices
<1> DEFINE X == 1..n
<1>3. [i \in 1..n |-> i] \in [1..n -> X]
  OBVIOUS
<1> HIDE DEF X
<1>4. [i \in 1..n |-> i] \in Seq(X)
  BY <1>1, <1>3, SeqDef
<1> QED
  BY <1>1, <1>2, <1>4 DEF X, Range

LEMMA SortedRules ==
  ASSUME NEW g \in Graphs, NEW S \in SUBSET DOMAIN g.rules, NEW before
  PROVE  LET sorted == StableSort(Keep(Indices(g), S), before) IN
         sorted \in Seq(DOMAIN g.rules) /\ Range(sorted) = S
<1> DEFINE X == DOMAIN g.rules
           kept == Keep(Indices(g), S)
<1>1. Indices(g) \in Seq(X) /\ Range(Indices(g)) = X
  BY IndicesAre
<1> HIDE DEF X
<1>2. kept \in Seq(X) /\ Range(kept) = X \cap S
  BY <1>1, KeepIs
<1> HIDE DEF kept
<1>3. StableSort(kept, before) \in Seq(X) /\ Range(StableSort(kept, before)) = Range(kept)
  BY <1>2, SortKeeps
<1> QED
  BY <1>2, <1>3 DEF X, kept

Matched(g) == {Match(g, i) : i \in DOMAIN g.rules}

LEMMA AmbientAre ==
  ASSUME NEW g \in Graphs
  PROVE  AmbientMatches(g) \in Seq(Matched(g))
<1> DEFINE before == {p \in Pairs(g) :
                   LET r == g.rules[p[1]] s == g.rules[p[2]] IN
                   \/ r.priority > s.priority
                   \/ r.priority = s.priority /\ RuleIndex(g, r.token) < RuleIndex(g, s.token)}
           w == StableSort(Keep(Indices(g), Ambient(g)), before)
<1>1. AmbientMatches(g) = [k \in DOMAIN w |-> Match(g, w[k])]
  BY DEF AmbientMatches
<1> HIDE DEF before
<1>2. w \in Seq(DOMAIN g.rules)
  <2>1. Ambient(g) \in SUBSET DOMAIN g.rules
    BY DEF Ambient
  <2> QED
    BY <2>1, SortedRules
<1> HIDE DEF w
<1>3. Len(w) \in Nat /\ DOMAIN w = 1..Len(w) /\ \A k \in 1..Len(w) : Match(g, w[k]) \in Matched(g)
  BY <1>2 DEF Matched
<1> QED
  BY <1>1, <1>3

LEMMA ModeRulesAre ==
  ASSUME NEW g \in Graphs, NEW mode
  PROVE  /\ Range(ModeRules(g, mode)) \subseteq {EditorRule(g, t, PlainOverride) : t \in Matched(g)}
<1> DEFINE before == {p \in Pairs(g) :
                   LET r == g.rules[p[1]] s == g.rules[p[2]] IN
                   \/ r.priority > s.priority
                   \/ r.priority = s.priority /\ r.token < s.token}
           S == {i \in DOMAIN g.rules : g.rules[i].mode = mode}
           w == StableSort(Keep(Indices(g), S), before)
<1>1. ModeRules(g, mode) = [k \in DOMAIN w |-> EditorRule(g, Match(g, w[k]), PlainOverride)]
  BY DEF ModeRules
<1> HIDE DEF before
<1>2. w \in Seq(DOMAIN g.rules)
  <2>1. S \in SUBSET DOMAIN g.rules
    OBVIOUS
  <2> HIDE DEF S
  <2> QED
    BY <2>1, SortedRules
<1> HIDE DEF w
<1>3. \A k \in DOMAIN w : Match(g, w[k]) \in Matched(g)
  BY <1>2 DEF Matched
<1> QED
  BY <1>1, <1>3 DEF Range

(* Every transition that can be met is met by the search for regions.       *)
LEMMA MetAre ==
  ASSUME NEW g \in Graphs
  PROVE  /\ Len(Met(g)) \in Nat /\ DOMAIN Met(g) = 1..Len(Met(g))
         /\ \A c \in g.contexts : Range(InOrder(g, c)) \subseteq Range(Met(g))
         /\ Range(AmbientMatches(g)) \subseteq Range(Met(g))
<1> DEFINE n == Len(Order)
           ss == [k \in 1..n |-> IF Order[k] \in g.contexts THEN InOrder(g, Order[k]) ELSE <<>>]
           X == GraphTransition(g)
           a == FlattenSeq(ss)
           b == AmbientMatches(g)
<1>1. n \in Nat /\ DOMAIN Order = 1..n
  BY SublimeStatesAssumption
<1>2. Met(g) = a \o b
  <2>1. ss = [k \in DOMAIN Order |-> IF Order[k] \in g.contexts THEN InOrder(g, Order[k]) ELSE <<>>]
    BY <1>1
  <2> QED
    BY <2>1 DEF Met
<1>3. ss \in [1..n -> Seq(X)]
  <2> HIDE DEF X
  <2>1. \A c : InOrder(g, c) \in Seq(X)
    BY InOrderIs DEF X
  <2>2. <<>> \in Seq(X)
    OBVIOUS
  <2> QED
    BY <2>1, <2>2
<1>4. \A k \in 1..n : Order[k] \in g.contexts => ss[k] = InOrder(g, Order[k])
  OBVIOUS
<1> HIDE DEF X, ss, n
<1>5. a \in Seq(X) /\ Range(a) = UNION {Range(ss[i]) : i \in 1..n}
  BY <1>1, <1>3, FlatMembers
<1>6. b \in Seq(Matched(g))
  BY AmbientAre
<1> HIDE DEF a, b
<1> DEFINE Y == X \cup Matched(g)
<1>7. a \in Seq(Y) /\ b \in Seq(Y)
  <2>1. (\A i \in 1..Len(a) : a[i] \in Y) /\ (\A i \in 1..Len(b) : b[i] \in Y)
    BY <1>5, <1>6
  <2> HIDE DEF Y
  <2> QED
    BY <1>5, <1>6, <2>1
<1> HIDE DEF Y
<1>8. /\ a \o b \in Seq(Y) /\ Len(a \o b) = Len(a) + Len(b)
      /\ \A i \in 1..(Len(a) + Len(b)) : (a \o b)[i] = IF i <= Len(a) THEN a[i] ELSE b[i - Len(a)]
  BY <1>7, ConcatProperties
<1> DEFINE m == a \o b
<1> HIDE DEF m
<1>9. /\ m \in Seq(Y) /\ Len(m) = Len(a) + Len(b) /\ Len(a) \in Nat /\ Len(b) \in Nat
      /\ DOMAIN a = 1..Len(a) /\ DOMAIN b = 1..Len(b) /\ DOMAIN m = 1..(Len(a) + Len(b))
      /\ \A i \in 1..(Len(a) + Len(b)) : m[i] = IF i <= Len(a) THEN a[i] ELSE b[i - Len(a)]
  BY <1>7, <1>8 DEF m
<1>10. Range(a) \subseteq Range(m)
  <2>1. \A i \in 1..Len(a) : i \in 1..(Len(a) + Len(b)) /\ m[i] = a[i]
    BY <1>9
  <2> QED
    BY <1>9, <2>1 DEF Range
<1>11. Range(b) \subseteq Range(m)
  <2>1. \A i \in 1..Len(b) : Len(a) + i \in 1..(Len(a) + Len(b)) /\ m[Len(a) + i] = b[i]
    BY <1>9
  <2> QED
    BY <1>9, <2>1 DEF Range
<1>12. ASSUME NEW c \in g.contexts PROVE Range(InOrder(g, c)) \subseteq Range(a)
  <2>1. c \in Names
    BY EditorStatesAssumption DEF StateGraph, Labels
  <2>2. PICK k \in 1..n : Order[k] = c
    BY <1>1, <2>1 DEF Names, Range
  <2>3. ss[k] = InOrder(g, c)
    BY <1>4, <1>12, <2>2
  <2> QED
    BY <1>5, <2>3
<1> QED
  BY <1>2, <1>9, <1>10, <1>11, <1>12 DEF m, b

LEMMA RegionsAre ==
  ASSUME NEW g \in Graphs, NEW t \in Range(Met(g)), NEW o \in Range(Overrides(g, t)),
         o.kind = "delimited"
  PROVE  o.label \in DOMAIN Regions(g)
<1> DEFINE met == Met(g)
           n == Len(met)
           ss == [k \in 1..n |-> Overrides(g, met[k])]
           os == FlattenSeq(ss)
           X == UNION {Range(Overrides(g, met[k])) : k \in 1..n}
           D == {x \in Range(os) : x.kind = "delimited"}
<1>1. n \in Nat /\ DOMAIN met = 1..n
  BY MetAre
<1>2. Openings(g) = Keep(os, D)
  <2>1. ss = [k \in DOMAIN met |-> Overrides(g, met[k])]
    BY <1>1
  <2> QED
    BY <2>1 DEF Openings
<1>3. ss \in [1..n -> Seq(X)]
  <2> SUFFICES ASSUME NEW k \in 1..n PROVE Overrides(g, met[k]) \in Seq(X)
    OBVIOUS
  <2> DEFINE w == Overrides(g, met[k])
  <2>1. w \in Seq(Range(w)) /\ Range(w) \subseteq X
    BY OverridesAre
  <2> HIDE DEF w, X
  <2>2. \A i \in 1..Len(w) : w[i] \in X
    BY <2>1
  <2>3. w \in Seq(X)
    BY <2>1, <2>2
  <2> QED
    BY <2>3 DEF w
<1>4. PICK k \in 1..n : t = met[k]
  BY <1>1 DEF Range
<1>5. ss[k] = Overrides(g, t)
  BY <1>4
<1> HIDE DEF ss, X, n, met
<1>6. os \in Seq(X) /\ Range(os) = UNION {Range(ss[i]) : i \in 1..n}
  BY <1>1, <1>3, FlatMembers
<1>7. o \in Range(os)
  BY <1>5, <1>6
<1>8. o \in D
  BY <1>7
<1> HIDE DEF os, D
<1>9. Range(Openings(g)) = Range(os) \cap D
  BY <1>2, <1>6, KeepIs
<1>10. o \in Range(Openings(g))
  BY <1>7, <1>8, <1>9
<1> QED
  BY <1>10 DEF Regions

-----------------------------------------------------------------------------
(* What a machine lacks sorts behind the root.                              *)
IsBuilt(g) ==
  /\ labels = UpToTheRoot(g) \cup DOMAIN Regions(g)
  /\ \A l \in labels : states[l] = IF l \in g.contexts THEN BuiltState(g, l) ELSE Regions(g)[l]
  /\ machine.ambient = EditorRules(g, AmbientMatches(g))
  /\ DOMAIN machine.modes = {g.rules[i].mode : i \in DOMAIN g.rules}
  /\ \A m \in DOMAIN machine.modes : machine.modes[m] = ModeRules(g, m)

LEMMA BuiltOf ==
  ASSUME machine \in Machines, Built
  PROVE  machine.graph \in Graphs /\ IsBuilt(machine.graph)
<1>1. PICK g \in Graphs : g = machine.graph /\ machine = EditorIR(g)
  BY BuiltAssumption DEF Built
<1>2. /\ states = [l \in UpToTheRoot(g) \cup DOMAIN Regions(g) |->
                     IF l \in g.contexts THEN BuiltState(g, l) ELSE Regions(g)[l]]
      /\ machine.ambient = EditorRules(g, AmbientMatches(g))
      /\ machine.modes = [m \in {g.rules[i].mode : i \in DOMAIN g.rules} |-> ModeRules(g, m)]
  <2>1. machine = EditorIR(g)
    BY <1>1
  <2> QED
    BY ONLY <2>1 DEF EditorIR, states
<1>3. IsBuilt(g)
  BY <1>2 DEF IsBuilt, labels
<1> QED
  BY <1>1, <1>3

Transitions(g) == GraphTransition(g) \cup Matched(g)

LEMMA RuleRefers ==
  ASSUME NEW g \in Graphs, NEW t \in Transitions(g), NEW o,
         o.kind \in {"plain", "foreign", "delimited"}
  PROVE  /\ \A x \in Range(EditorRule(g, t, o).targets) :
              x \in g.contexts \/ (x = o.label /\ o.kind = "delimited")
         /\ Range(EditorRule(g, t, o).lexModes) \subseteq {g.rules[j].mode : j \in DOMAIN g.rules}
<1> DEFINE r == EditorRule(g, t, o)
<1>1. StateGraph(g)
  BY EditorStatesAssumption
<1>2. Range(t.targets) \subseteq g.contexts /\ t.rule \in {0} \cup DOMAIN g.rules
  <2>1. CASE t \in GraphTransition(g)
    <3>1. t.targets \in Seq(g.contexts) /\ t.rule \in 0..Len(g.rules)
      BY <2>1 DEF GraphTransition
    <3>2. Len(g.rules) \in Nat /\ DOMAIN g.rules = 1..Len(g.rules)
      BY <1>1 DEF StateGraph
    <3>3. Range(t.targets) \subseteq g.contexts
      BY <3>1 DEF Range
    <3> QED
      BY <3>1, <3>2, <3>3
  <2>2. CASE t \in Matched(g)
    <3>1. PICK i \in DOMAIN g.rules : t = Match(g, i)
      BY <2>2 DEF Matched
    <3>2. t.targets = <<>> /\ t.rule = i
      BY <3>1 DEF Match
    <3>3. Range(t.targets) = {}
      BY <3>2 DEF Range
    <3> QED
      BY <3>2, <3>3
  <2> QED
    BY <2>1, <2>2 DEF Transitions
<1>3. /\ r.targets = CASE o.kind = "foreign" -> <<>> [] o.kind = "delimited" -> <<o.label>>
                       [] o.kind = "plain" -> t.targets
      /\ r.lexModes = LexModes(g, t)
  BY DEF EditorRule
<1> HIDE DEF r
<1>4. ASSUME NEW x \in Range(r.targets) PROVE x \in g.contexts \/ (x = o.label /\ o.kind = "delimited")
  <2>1. CASE o.kind = "foreign"
    <3>1. r.targets = <<>>
      BY <1>3, <2>1
    <3> QED
      BY <3>1 DEF Range
  <2>2. CASE o.kind = "delimited"
    <3>1. r.targets = <<o.label>>
      BY <1>3, <2>2
    <3> QED
      BY <2>2, <3>1 DEF Range
  <2>3. CASE o.kind = "plain"
    <3>1. r.targets = t.targets
      BY <1>3, <2>3
    <3> QED
      BY <1>2, <3>1
  <2> QED
    BY <2>1, <2>2, <2>3
<1>5. Range(r.lexModes) \subseteq {g.rules[j].mode : j \in DOMAIN g.rules}
  <2>1. CASE LexOp(g, t) \in {"push", "set"}
    <3>1. r.lexModes = g.rules[t.rule].lexModes
      BY <1>3, <2>1 DEF LexModes
    <3>2. t.rule \in DOMAIN g.rules
      BY <1>2, <2>1 DEF LexOp
    <3> QED
      BY <1>1, <3>1, <3>2 DEF StateGraph
  <2>2. CASE LexOp(g, t) \notin {"push", "set"}
    <3>1. r.lexModes = <<>>
      BY <1>3, <2>2 DEF LexModes
    <3> QED
      BY <3>1 DEF Range
  <2> QED
    BY <2>1, <2>2
<1> QED
  BY <1>4, <1>5 DEF r

(* The rules of a machine: those of its transitions, and those of regions.  *)
LEMMA BuiltRules ==
  ASSUME NEW g \in Graphs, IsBuilt(g), NEW r \in AllRules
  PROVE  \/ \E t \in Transitions(g) : \E o :
              /\ r = EditorRule(g, t, o) /\ o.kind \in {"plain", "foreign", "delimited"}
              /\ o.kind = "delimited" => o.label \in DOMAIN Regions(g)
         \/ r.targets = <<>> /\ r.lexModes = <<>>
<1> DEFINE Good == \E t \in Transitions(g) : \E o :
                     /\ r = EditorRule(g, t, o) /\ o.kind \in {"plain", "foreign", "delimited"}
                     /\ o.kind = "delimited" => o.label \in DOMAIN Regions(g)
<1>1. ASSUME NEW ts, NEW X, X \subseteq Transitions(g), ts \in Seq(X), Range(ts) \subseteq Range(Met(g)),
             r \in Range(EditorRules(g, ts))
      PROVE  Good
  <2>1. Len(ts) \in Nat /\ DOMAIN ts = 1..Len(ts) /\ Range(ts) \subseteq Transitions(g)
    BY <1>1 DEF Range
  <2>2. r \in RulesMadeOf(g, ts)
    BY <1>1, <2>1, EditorRulesAre
  <2>3. PICK t \in Range(ts) : \E o \in Range(Overrides(g, t)) : r = EditorRule(g, t, o)
    BY <2>2 DEF RulesMadeOf
  <2>4. PICK o \in Range(Overrides(g, t)) : r = EditorRule(g, t, o)
    BY <2>3
  <2>5. o.kind \in {"plain", "foreign", "delimited"}
    BY OverridesAre
  <2>6. o.kind = "delimited" => o.label \in DOMAIN Regions(g)
    BY <1>1, RegionsAre
  <2> QED
    BY <2>1, <2>4, <2>5, <2>6
<1>2. ASSUME NEW l \in labels, l \in g.contexts, r \in Range(states[l].rules) PROVE Good
  <2>1. states[l].rules = EditorRules(g, InOrder(g, l))
    <3>1. states[l] = BuiltState(g, l)
      BY <1>2 DEF IsBuilt
    <3> QED
      BY <3>1 DEF BuiltState
  <2>2. Range(InOrder(g, l)) \subseteq Range(Met(g)) /\ InOrder(g, l) \in Seq(GraphTransition(g))
    BY <1>2, MetAre, InOrderIs
  <2>3. GraphTransition(g) \subseteq Transitions(g)
    BY DEF Transitions
  <2> QED
    BY <1>1, <1>2, <2>1, <2>2, <2>3
<1>3. ASSUME NEW l \in labels, l \notin g.contexts, r \in Range(states[l].rules)
      PROVE  r.targets = <<>> /\ r.lexModes = <<>>
  <2>1. states[l] = Regions(g)[l] /\ l \in DOMAIN Regions(g)
    BY <1>3 DEF IsBuilt, UpToTheRoot
  <2>2. \E o : states[l] = Region(o)
    BY <2>1 DEF Regions
  <2>3. PICK o : states[l] = Region(o)
    BY <2>2
  <2>4. states[l].rules = <<[lexeme |-> Seen(o.close, "match", NoPeek), op |-> "pop", targets |-> <<>>, amount |-> 1,
                foreign |-> NoForeign, lexOp |-> "none", lexModes |-> <<>>, lexAmount |-> 0]>>
    BY <2>3 DEF Region
  <2> QED
    BY <1>3, <2>4 DEF Range
<1>4. ASSUME r \in Range(machine.ambient) PROVE Good
  <2>1. AmbientMatches(g) \in Seq(Matched(g)) /\ Range(AmbientMatches(g)) \subseteq Range(Met(g))
    BY AmbientAre, MetAre
  <2>2. Matched(g) \subseteq Transitions(g)
    BY DEF Transitions
  <2> QED
    BY <1>1, <1>4, <2>1, <2>2 DEF IsBuilt
<1>5. ASSUME NEW m \in DOMAIN machine.modes, r \in Range(machine.modes[m]) PROVE Good
  <2>1. r \in {EditorRule(g, t, PlainOverride) : t \in Matched(g)}
    BY <1>5, ModeRulesAre DEF IsBuilt
  <2>2. PICK t \in Matched(g) : r = EditorRule(g, t, PlainOverride)
    BY <2>1
  <2>3. PlainOverride.kind = "plain"
    BY DEF PlainOverride
  <2> QED
    BY <2>2, <2>3 DEF Transitions
<1> HIDE DEF Good
<1>6. \/ \E l \in labels : r \in Range(states[l].rules)
      \/ r \in Range(machine.ambient)
      \/ \E m \in DOMAIN machine.modes : r \in Range(machine.modes[m])
  BY DEF AllRules
<1>7. Good \/ (r.targets = <<>> /\ r.lexModes = <<>>)
  BY <1>2, <1>3, <1>4, <1>5, <1>6
<1> QED
  BY <1>7 DEF Good

LEMMA MissingBehind ==
  ASSUME NEW g \in Graphs, IsBuilt(g), NEW x \in Missing
  PROVE  x \in g.contexts /\ Position(x) > Position(Main)
<1>1. StateGraph(g) /\ Main \in Names /\ g.contexts \subseteq Names
  BY EditorStatesAssumption DEF StateGraph, Labels
<1>2. ASSUME x \in g.contexts, x \notin labels PROVE Position(x) > Position(Main)
  <2>1. ~(Position(x) <= Position(Main))
    BY <1>2 DEF IsBuilt, UpToTheRoot
  <2>2. Position(x) \in Nat /\ Position(Main) \in Nat
    BY <1>1, <1>2, PositionType
  <2> QED
    BY <2>1, <2>2
<1>3. ASSUME NEW r \in AllRules, x \in Range(r.targets) \ labels PROVE x \in g.contexts
  <2>1. r.targets # <<>>
    BY <1>3 DEF Range
  <2>2. PICK t \in Transitions(g) : \E o :
              /\ r = EditorRule(g, t, o) /\ o.kind \in {"plain", "foreign", "delimited"}
              /\ o.kind = "delimited" => o.label \in DOMAIN Regions(g)
    BY <2>1, BuiltRules
  <2>3. PICK o :
              /\ r = EditorRule(g, t, o) /\ o.kind \in {"plain", "foreign", "delimited"}
              /\ o.kind = "delimited" => o.label \in DOMAIN Regions(g)
    BY <2>2
  <2>4. x \in g.contexts \/ (x = o.label /\ o.kind = "delimited")
    BY <1>3, <2>3, RuleRefers
  <2> QED
    BY <1>3, <2>3, <2>4 DEF IsBuilt
<1>4. ASSUME NEW r \in AllRules, x \in Range(r.lexModes) \ DOMAIN machine.modes PROVE FALSE
  <2>1. r.lexModes # <<>>
    BY <1>4 DEF Range
  <2>2. PICK t \in Transitions(g) : \E o :
              r = EditorRule(g, t, o) /\ o.kind \in {"plain", "foreign", "delimited"}
    BY <2>1, BuiltRules
  <2>3. PICK o : r = EditorRule(g, t, o) /\ o.kind \in {"plain", "foreign", "delimited"}
    BY <2>2
  <2>4. Range(r.lexModes) \subseteq {g.rules[j].mode : j \in DOMAIN g.rules}
    BY <2>3, RuleRefers
  <2> QED
    BY <1>4, <2>4 DEF IsBuilt
<1>5. ASSUME NEW l \in labels, x = states[l].imm, x \notin labels \cup {NoState} PROVE x \in g.contexts
  <2>1. CASE l \in g.contexts
    <3>1. states[l] = BuiltState(g, l)
      BY <2>1 DEF IsBuilt
    <3>2. states[l].imm = g.body[l]
      BY <3>1 DEF BuiltState
    <3> QED
      BY <1>1, <1>5, <2>1, <3>2 DEF StateGraph
  <2>2. CASE l \notin g.contexts
    <3>1. states[l] = Regions(g)[l] /\ l \in DOMAIN Regions(g)
      BY <2>2 DEF IsBuilt, UpToTheRoot
    <3>2. \E o : states[l] = Region(o)
      BY <3>1 DEF Regions
    <3>3. states[l].imm = NoState
      BY <3>2 DEF Region
    <3> QED
      BY <1>5, <3>3
  <2> QED
    BY <2>1, <2>2
<1> QED
  BY <1>2, <1>3, <1>4, <1>5, MissingIs

-----------------------------------------------------------------------------
(* What a rule of a state leads to when the file is written.                *)
Presented(x) == \E m \in DOMAIN contexts : \E e \in Range(contexts[m]) : e.kind = "match" /\ Offer(e) = x

LEMMA ListPresents ==
  ASSUME Merging, Emission, pc = "done", NEW l \in labels, NEW n \in DOMAIN contexts,
         \A j \in 1..Len(Merged(BaseEntries(l), l)) : Merged(BaseEntries(l), l)[j] \in Range(contexts[n]),
         NEW i \in 1..Len(BaseEntries(l))
  PROVE  Presented(RulesOf(l)[i])
<1> DEFINE es == BaseEntries(l)
           a == Merged(es, l)
           B == Bits(es, l)
           X == Offers(es)
           x == RulesOf(l)[i]
           m == Len(a)
           ss == [j \in 1..m |-> OfferedBy(a[j])]
<1>1. machine \in Machines
  BY DEF Merging
<1>2. es \in Seq({Entry(t, l, TRUE) : t \in Transition}) /\ Matches(es)
  BY <1>1, BaseEntriesAre
<1>3. ArmsHold(es, l)
  BY ArmsAreThere
<1>4. a \in Seq(B)
  <2> HIDE DEF es
  <2> QED
    BY <1>2, MergedPoints
<1>5. /\ ListOffers(a) = RulesOf(l)
      /\ \A e \in B : OfferedBy(e) \in Seq(X) /\ e.kind \in {"match", "branch"}
  BY <1>1, <1>3, ListOffersRules
<1>6. m \in Nat /\ DOMAIN a = 1..m /\ \A j \in 1..m : a[j] \in B
  <2> HIDE DEF B, a
  <2> QED
    BY <1>4
<1>7. ListOffers(a) = FlattenSeq(ss)
  BY <1>6 DEF ListOffers
<1>8. DOMAIN RulesOf(l) = 1..Len(es)
  BY <1>2 DEF RulesOf
<1>9. x \in Range(RulesOf(l))
  BY <1>8 DEF Range
<1> HIDE DEF x, B, X, m
<1>10. ss \in [1..m -> Seq(X)] /\ \A j \in 1..m : ss[j] = OfferedBy(a[j])
  <2> HIDE DEF a
  <2> QED
    BY <1>5, <1>6
<1> HIDE DEF ss
<1>11. Range(FlattenSeq(ss)) = UNION {Range(ss[j]) : j \in 1..m}
  BY <1>6, <1>10, FlatMembers
<1>12. PICK j \in 1..m : x \in Range(OfferedBy(a[j]))
  <2> HIDE DEF a
  <2> QED
    BY <1>5, <1>7, <1>9, <1>10, <1>11
<1>13. a[j] \in Range(contexts[n]) /\ a[j] \in B
  BY <1>6, <1>12 DEF m
<1>14. CASE a[j] \in {es[k] : k \in 1..Len(es)}
  <2>1. a[j].kind = "match"
    BY <1>2, <1>14 DEF Matches
  <2>2. OfferedBy(a[j]) = <<Offer(a[j])>>
    BY <2>1 DEF OfferedBy
  <2>3. x = Offer(a[j])
    BY <1>12, <2>2 DEF Range
  <2> QED
    BY <1>13, <2>1, <2>3 DEF Presented, x
<1>15. CASE \E k \in Branches(es) : a[j] = BranchPoint(es, l, k)
  <2>1. PICK k \in Branches(es) : a[j] = BranchPoint(es, l, k)
    BY <1>15
  <2> DEFINE e == a[j]
             run == Run(es, k)
             S == {Entry(t, l, TRUE) : t \in Transition}
             F == {es[q] : q \in 1..Len(es)}
  <2>2. e.kind = "branch" /\ e.arms = [y \in DOMAIN run |-> Arm(l, k, y)]
    BY <2>1 DEF BranchPoint
  <2>3. run \in Seq(F) /\ Len(run) \in Nat /\ DOMAIN run = 1..Len(run)
    <3>1. k \in 1..Len(es)
      BY <1>2 DEF Branches
    <3> HIDE DEF es
    <3>2. run \in Seq(F)
      BY <1>2, <3>1, PiecesType
    <3> HIDE DEF run
    <3> QED
      BY <3>2
  <2>4. \A q \in 1..Len(es) : es[q].kind = "match"
    BY <1>2 DEF Matches
  <2> HIDE DEF e, run
  <2>5. OfferedBy(e) = [y \in DOMAIN run |-> Offer(contexts[e.arms[y]][1])]
    BY <2>2 DEF OfferedBy
  <2>6. PICK y \in 1..Len(run) : x = Offer(contexts[Arm(l, k, y)][1])
    BY <1>12, <2>2, <2>3, <2>5 DEF Range, e
  <2>7. contexts[Arm(l, k, y)] = <<run[y]>>
    BY <1>3, <2>6 DEF ArmsHold, run
  <2>8. Arm(l, k, y) \in DOMAIN contexts
    <3>1. References(e) = Range(e.arms)
      BY <2>2 DEF References
    <3>2. Arm(l, k, y) \in Range(e.arms)
      BY <2>2, <2>3, <2>6 DEF Range
    <3>3. References(e) \subseteq ReferencedBy(n)
      BY <1>13 DEF ReferencedBy, e
    <3> QED
      BY <3>1, <3>2, <3>3 DEF Emission, Complete
  <2>9. run[y] \in F
    BY <2>3, <2>6
  <2>10. run[y].kind = "match" /\ x = Offer(run[y])
    BY <2>4, <2>6, <2>7, <2>9
  <2>11. run[y] \in Range(contexts[Arm(l, k, y)])
    BY <2>7 DEF Range
  <2> QED
    BY <2>8, <2>10, <2>11 DEF Presented, x
<1> QED
  BY <1>13, <1>14, <1>15 DEF B, Bits

LEMMA RulesPresented ==
  ASSUME Merging, Emission, pc = "done", NEW l \in representatives, Emitting(l), ~Borrows(l),
         NEW i \in 1..Len(BaseEntries(l))
  PROVE  Presented(RulesOf(l)[i])
<1> DEFINE own == contexts[Own(l)]
<1>1. machine \in Machines /\ representatives \subseteq labels /\ l \in labels
  BY RepresentativesAre DEF Merging
<1>2. own = Context(l)
  BY <1>1, EntriesOfCases DEF Emission, Filled, Emitting
<1>3. \A e \in Range(own) : References(e) \subseteq DOMAIN contexts
  BY DEF Emission, Complete, Emitting, ReferencedBy
<1>4. \A k \in representatives : base[k] = Merged(BaseEntries(k), k)
  BY DEF Emission, Listed
<1>5. \A k \in labels : Merged(BaseEntries(k), k) \in Seq(Bits(BaseEntries(k), k))
  <2> SUFFICES ASSUME NEW k \in labels PROVE Merged(BaseEntries(k), k) \in Seq(Bits(BaseEntries(k), k))
    OBVIOUS
  <2> QED
    BY <1>1, BaseEntriesAre, MergedPoints
<1> HIDE DEF own
<1>6. CASE ~IsShared(l)
  <2>1. Body(l) = Merged(BaseEntries(l), l)
    BY <1>4, <1>6 DEF Body
  <2>2. \A j \in 1..Len(Merged(BaseEntries(l), l)) : Merged(BaseEntries(l), l)[j] \in Range(own)
    BY <1>1, <1>2, <1>5, <2>1, BodyShown
  <2> QED
    BY <1>1, <2>2, ListPresents DEF own, Emitting
<1>7. CASE IsShared(l)
  <2> DEFINE f == First(Sharing(l))
             n == SharedBy(f)
             inc == Including(f)
  <2>1. f \in Sharing(l)
    <3>1. l \in Sharing(l) /\ Sharing(l) \subseteq Names
      BY <1>1, MachineLabels DEF Sharing
    <3> QED
      BY <3>1, FirstIn
  <2>2. f \in representatives /\ f \in labels /\ EntriesSignature(base[f]) = EntriesSignature(base[l])
    BY <1>1, <2>1 DEF Sharing
  <2> HIDE DEF f
  <2>3. Body(l) = <<inc>> /\ inc.kind = "include" /\ inc.name = n
    BY <1>7 DEF Body, Including, f
  <2> HIDE DEF inc
  <2>4. inc \in Range(own)
    <3>1. Body(l) \in Seq({inc}) /\ 1 \in 1..Len(Body(l)) /\ Body(l)[1] = inc
      BY <2>3
    <3> QED
      BY <1>2, <3>1, BodyShown
  <2>5. n \in DOMAIN contexts
    <3>1. References(inc) = {inc.name}
      BY <2>3 DEF References
    <3> QED
      BY <1>3, <2>3, <2>4, <3>1
  <2>6. contexts[n] = Merged(BaseEntries(f), f)
    BY <1>1, <1>4, <2>2, <2>5, EntriesOfCases DEF Emission, Filled
  <2>7. \A j \in 1..Len(Merged(BaseEntries(f), f)) : Merged(BaseEntries(f), f)[j] \in Range(contexts[n])
    <3> DEFINE a == Merged(BaseEntries(f), f)
               B == Bits(BaseEntries(f), f)
    <3>1. a \in Seq(B) /\ contexts[n] = a
      BY <1>5, <2>2, <2>6
    <3> HIDE DEF a, B, n
    <3>2. \A j \in 1..Len(a) : a[j] \in Range(contexts[n])
      BY <3>1 DEF Range
    <3> QED
      BY <3>2 DEF a
  <2>8. RulesOf(f) = RulesOf(l)
    <3>1. CASE l = f
      BY <3>1
    <3>2. CASE l # f
      <4>1. ~Hidden(l) /\ ~Hidden(f)
        BY <1>7, <3>2 DEF f, Borrows
      <4> QED
        BY <2>2, <4>1, SharedAlike
    <3> QED
      BY <3>1, <3>2
  <2>9. Len(BaseEntries(f)) = Len(BaseEntries(l))
    <3>1. \A k \in labels : Len(BaseEntries(k)) \in Nat /\ DOMAIN RulesOf(k) = 1..Len(BaseEntries(k))
      <4> SUFFICES ASSUME NEW k \in labels
                   PROVE  Len(BaseEntries(k)) \in Nat /\ DOMAIN RulesOf(k) = 1..Len(BaseEntries(k))
        OBVIOUS
      <4>1. BaseEntries(k) \in Seq({Entry(t, k, TRUE) : t \in Transition})
        BY <1>1, BaseEntriesAre
      <4> QED
        BY <4>1 DEF RulesOf
    <3>2. 1..Len(BaseEntries(f)) = 1..Len(BaseEntries(l))
      BY <1>1, <2>2, <2>8, <3>1
    <3> QED
      BY <1>1, <2>2, <3>1, <3>2
  <2>10. Presented(RulesOf(f)[i])
    BY <2>2, <2>5, <2>7, <2>9, ListPresents
  <2> QED
    BY <2>8, <2>10
<1> QED
  BY <1>6, <1>7

LEMMA ImmediateShown ==
  ASSUME NEW l, NEW E, Body(l) \in Seq(E), states[l].imm # NoState
  PROVE  [kind |-> "immediate", name |-> Own(Renamed(states[l].imm))] \in Range(Context(l))
<1> DEFINE o == Opening(l)
           m == [kind |-> "immediate", name |-> Own(Renamed(states[l].imm))]
           f == [kind |-> "frame", frame |-> states[l].frame]
           b == Body(l)
           F == E \cup {o, m, f}
<1>1. Context(l) = ((<<o>> \o b) \o <<m>>) \o <<f>>
  BY DEF Context, Opening, Immediate
<1> HIDE DEF o, m, f, b
<1>2. b \in Seq(F) /\ <<o>> \in Seq(F) /\ <<m>> \in Seq(F) /\ <<f>> \in Seq(F)
  BY DEF b
<1> HIDE DEF F
<1> DEFINE u == <<o>> \o b
           v == u \o <<m>>
           w == v \o <<f>>
<1>3. u \in Seq(F)
  BY <1>2, ConcatProperties
<1> HIDE DEF u
<1>4. Len(<<m>>) = 1 /\ <<m>>[1] = m /\ Len(<<f>>) = 1 /\ Len(u) \in Nat
  BY <1>3
<1>5. /\ v \in Seq(F) /\ Len(v) = Len(u) + 1
      /\ v[Len(u) + 1] = m
  <2>1. /\ v \in Seq(F) /\ Len(v) = Len(u) + Len(<<m>>)
        /\ \A i \in 1..(Len(u) + Len(<<m>>)) : v[i] = IF i <= Len(u) THEN u[i] ELSE <<m>>[i - Len(u)]
    BY <1>2, <1>3, ConcatProperties
  <2>2. Len(u) + 1 \in 1..(Len(u) + 1) /\ ~(Len(u) + 1 <= Len(u)) /\ (Len(u) + 1) - Len(u) = 1
    BY <1>4
  <2> HIDE DEF v
  <2> QED
    BY <1>4, <2>1, <2>2
<1> HIDE DEF v
<1>6. /\ w \in Seq(F) /\ Len(w) = Len(v) + 1
      /\ \A i \in 1..(Len(v) + 1) : w[i] = IF i <= Len(v) THEN v[i] ELSE <<f>>[i - Len(v)]
  <2>1. /\ w \in Seq(F) /\ Len(w) = Len(v) + Len(<<f>>)
        /\ \A i \in 1..(Len(v) + Len(<<f>>)) : w[i] = IF i <= Len(v) THEN v[i] ELSE <<f>>[i - Len(v)]
    BY <1>2, <1>5, ConcatProperties
  <2> QED
    BY <1>4, <2>1
<1> HIDE DEF w
<1>7. Len(u) + 1 \in 1..Len(w) /\ w[Len(u) + 1] = m /\ DOMAIN w = 1..Len(w)
  BY <1>4, <1>5, <1>6
<1>8. m \in Range(w)
  BY <1>7 DEF Range
<1> QED
  BY <1>1, <1>8 DEF m, w, v, u

-----------------------------------------------------------------------------
(* A reference of a state leads to a state.                                 *)
LEMMA OwnSources ==
  ASSUME machine \in Machines, representatives \subseteq labels, NEW x, Own(x) \in ContextNames
  PROVE  x \in Sources
<1> DEFINE n == Own(x)
<1>1. n[1] = x /\ n[2] = 0 /\ n[3] = 0
  BY DEF Own
<1>2. ASSUME NEW l, n = Own(l) PROVE l = x
  <2>1. Own(l)[1] = l
    BY DEF Own
  <2> QED
    BY <1>1, <1>2, <2>1
<1>3. ASSUME NEW l, n = SharedBy(l) PROVE FALSE
  <2>1. SharedBy(l)[3] = 1
    BY DEF SharedBy
  <2> QED
    BY <1>1, <1>3, <2>1
<1>4. ASSUME NEW l \in Sources, n \in ArmNames(SourceEntries(l), l) PROVE FALSE
  <2> DEFINE es == SourceEntries(l)
             S == {es[i] : i \in 1..Len(es)}
  <2>1. es \in Seq(S)
    BY SourceList
  <2>2. PICK i \in Branches(es) : \E k \in DOMAIN Run(es, i) : n = Arm(l, i, k)
    BY <1>4 DEF ArmNames
  <2>3. PICK k \in DOMAIN Run(es, i) : n = Arm(l, i, k)
    BY <2>2
  <2>4. n[2] = i
    BY <2>3 DEF Arm
  <2> HIDE DEF es, S
  <2>5. i \in 1..Len(es) /\ Len(es) \in Nat
    BY <2>1 DEF Branches
  <2> HIDE DEF n
  <2> QED
    BY <1>1, <2>4, <2>5
<1> HIDE DEF n
<1>5. \/ \E l \in Sources : n = Own(l)
      \/ \E l : n = SharedBy(l)
      \/ \E l \in Sources : n \in ArmNames(SourceEntries(l), l)
  BY DEF ContextNames, n
<1> QED
  BY <1>2, <1>3, <1>4, <1>5

Arrived(c) == c \in labels /\ Own(rep[c]) \in DOMAIN contexts

LEMMA TargetArrives ==
  ASSUME Merging, Emission, Pruning, pc = "done", NEW x \in Labels, Own(Renamed(x)) \in DOMAIN contexts
  PROVE  Arrived(x)
<1>1. machine \in Machines /\ representatives \subseteq labels
  BY RepresentativesAre DEF Merging
<1>2. CASE x \in labels
  BY <1>2 DEF Renamed, Arrived
<1>3. CASE x \notin labels
  <2>1. Own(x) \in ContextNames
    BY <1>3 DEF Renamed, Pruning, Walked
  <2>2. x \in Sources
    BY <1>1, <2>1, OwnSources
  <2>3. x \notin DOMAIN machine.modes /\ x # Prototype
    BY <1>1, SublimeStatesAssumption DEF LanguageMachine, Labels
  <2>4. x \in representatives
    BY <2>2, <2>3 DEF Sources
  <2> QED
    BY <1>1, <1>3, <2>4
<1> QED
  BY <1>2, <1>3

(* A representative is its own.                                             *)
LEMMA OwnRepresentative ==
  ASSUME Merging, Emission, pc # "refine", NEW c \in representatives
  PROVE  rep[c] = c
<1>1. representatives = {rep[l] : l \in labels}
  BY DEF Emission, Chosen, representatives, Range
<1>2. PICK l \in labels : c = rep[l]
  BY <1>1
<1> QED
  BY <1>2, RepresentativesAre

(* What a state that stands for c leads to, c leads to.                     *)
LEMMA AlikeArrives ==
  ASSUME Merging, Emission, Pruning, pc = "done",
         NEW c \in labels, NEW d, NEW x, Arrived(x), PartOf(parts, x) = PartOf(parts, d),
         c \notin representatives => d \in labels,
         c = rep[c] => x = d
  PROVE  Arrived(d)
<1>1. CASE c \in representatives
  <2>1. c = rep[c]
    BY <1>1, OwnRepresentative
  <2> QED
    BY <2>1
<1>2. CASE c \notin representatives
  <2>1. d \in labels /\ x \in labels
    BY <1>2 DEF Arrived
  <2>2. parts[x] = parts[d]
    BY <2>1 DEF PartOf
  <2>3. rep[x] = rep[d]
    BY <2>1, <2>2, RepresentativesAre
  <2> QED
    BY <2>1, <2>3 DEF Arrived
<1> QED
  BY <1>1, <1>2

LEMMA ImmediateArrives ==
  ASSUME Merging, Emission, Pruning, pc = "done",
         NEW c, Arrived(c), states[c].imm # NoState,
         c \notin representatives => states[c].imm \in labels
  PROVE  Arrived(states[c].imm)
<1> DEFINE r == rep[c]
           d == states[c].imm
           x == states[r].imm
<1>1. /\ machine \in Machines /\ c \in labels /\ r \in representatives /\ r \in labels
      /\ parts[r] = parts[c] /\ Own(r) \in DOMAIN contexts
  BY RepresentativesAre DEF Merging, Arrived
<1>2. LocalSignature(r) = LocalSignature(c) /\ ImmediatePart(r, parts) = ImmediatePart(c, parts)
  BY <1>1, PartsAlike DEF MergedBehaveAlike
<1>3. (states[r].imm # NoState) = (states[c].imm # NoState)
  <2>1. LocalSignature(r).imm = (states[r].imm # NoState) /\ LocalSignature(c).imm = (states[c].imm # NoState)
    BY DEF LocalSignature
  <2> QED
    BY <1>2, <2>1
<1>4. x # NoState /\ PartOf(parts, x) = PartOf(parts, d)
  BY <1>2, <1>3 DEF ImmediatePart
<1>5. x \in Labels
  <2>1. states[r] \in EditorState
    BY <1>1, StateTyped
  <2> QED
    BY <1>4, <2>1 DEF EditorState
<1>6. contexts[Own(r)] = Context(r)
  BY <1>1, EntriesOfCases DEF Emission, Filled
<1> DEFINE e == [kind |-> "immediate", name |-> Own(Renamed(x))]
<1>7. e \in Range(Context(r))
  <2>1. Body(r) \in Seq(Bits(BaseEntries(r), r) \cup {[kind |-> "include", name |-> SharedBy(First(Sharing(r)))]})
    <3> DEFINE inc == [kind |-> "include", name |-> SharedBy(First(Sharing(r)))]
               B == Bits(BaseEntries(r), r)
    <3>1. base[r] \in Seq(B)
      BY <1>1, ListLeads
    <3>2. Body(r) = IF IsShared(r) THEN <<inc>> ELSE base[r]
      BY DEF Body
    <3> HIDE DEF inc, B
    <3>3. base[r] \in Seq(B \cup {inc}) /\ <<inc>> \in Seq(B \cup {inc})
      BY <3>1
    <3> QED
      BY <3>2, <3>3 DEF inc, B
  <2> QED
    BY <1>4, <2>1, ImmediateShown
<1>8. References(e) = {Own(Renamed(x))}
  BY DEF References
<1>9. Own(Renamed(x)) \in DOMAIN contexts
  <2> HIDE DEF e, x, r
  <2>1. References(e) \subseteq ReferencedBy(Own(r))
    BY <1>6, <1>7 DEF ReferencedBy
  <2> QED
    BY <1>1, <1>8, <2>1 DEF Emission, Complete
<1>10. Arrived(x)
  BY <1>5, <1>9, TargetArrives
<1>11. c = rep[c] => x = d
  OBVIOUS
<1> HIDE DEF x, d, r
<1>12. c \notin representatives => d \in labels
  BY DEF d
<1>13. Arrived(d)
  BY <1>1, <1>4, <1>10, <1>11, <1>12, AlikeArrives
<1> QED
  BY <1>13 DEF d

LEMMA RuleArrives ==
  ASSUME Merging, Emission, Pruning, pc = "done",
         NEW c, Arrived(c), ~Borrows(rep[c]),
         NEW i \in 1..Len(states[c].rules), states[c].rules[i].op \in {"push", "set"},
         NEW n \in DOMAIN states[c].rules[i].targets,
         c \notin representatives => states[c].rules[i].targets[n] \in labels
  PROVE  Arrived(states[c].rules[i].targets[n])
<1> DEFINE r == rep[c]
           t == states[r].rules[i]
           x == t.targets[n]
           d == states[c].rules[i].targets[n]
<1>1. /\ machine \in Machines /\ c \in labels /\ r \in representatives /\ r \in labels
      /\ parts[r] = parts[c] /\ Own(r) \in DOMAIN contexts
  BY RepresentativesAre DEF Merging, Arrived
<1>2. /\ Len(states[r].rules) = Len(states[c].rules)
      /\ t.op \in {"push", "set"} /\ n \in DOMAIN t.targets
      /\ PartOf(parts, x) = PartOf(parts, d)
  BY <1>1, AlikeRules
<1>3. /\ states[r].rules \in Seq(Transition) /\ t \in Transition
      /\ DOMAIN states[r].rules = 1..Len(states[r].rules)
  <2> DEFINE rules == states[r].rules
  <2>1. rules \in Seq(Transition) /\ i \in 1..Len(rules)
    BY <1>1, <1>2, StateTyped
  <2> HIDE DEF rules
  <2>2. rules[i] \in Transition /\ DOMAIN rules = 1..Len(rules)
    BY <2>1
  <2> QED
    BY <2>1, <2>2 DEF rules
<1>4. t.targets \in Seq(Labels) /\ x \in Labels
  <2>1. t.targets \in Seq(Labels)
    BY <1>3 DEF Transition
  <2> HIDE DEF t
  <2> QED
    BY <1>2, <2>1
<1>5. /\ Targets(t, TRUE)[n] = Renamed(x) /\ n \in DOMAIN Targets(t, TRUE)
      /\ ParserIdle(t, r, TRUE) => Renamed(x) = r
  <2>1. Targets(t, TRUE)[n] = Renamed(x) /\ n \in DOMAIN Targets(t, TRUE)
    BY <1>2 DEF Targets
  <2>2. t.op # "none"
    BY <1>2
  <2> HIDE DEF t, r, x
  <2>3. ASSUME ParserIdle(t, r, TRUE) PROVE Renamed(x) = r
    <3> DEFINE T == Targets(t, TRUE)
               y == Renamed(x)
    <3>1. T = <<r>>
      BY <2>2, <2>3 DEF ParserIdle
    <3>2. T[n] = y /\ n \in DOMAIN T
      BY <2>1
    <3> HIDE DEF T, y
    <3>3. n = 1
      BY <3>1, <3>2
    <3> QED
      BY <3>1, <3>2, <3>3 DEF y
  <2> QED
    BY <2>1, <2>3
<1> DEFINE es == BaseEntries(r)
           entry == Entry(t, r, TRUE)
<1>6. i \in 1..Len(es) /\ RulesOf(r)[i] = Offer(entry)
  <2>1. es = [k \in 1..Len(states[r].rules) |-> Entry(states[r].rules[k], r, TRUE)]
    BY <1>3 DEF BaseEntries, Entries
  <2>2. Len(states[r].rules) \in Nat
    BY <1>3
  <2>3. i \in 1..Len(states[r].rules)
    BY <1>2
  <2>4. RulesOf(r) = [k \in DOMAIN es |-> Offer(es[k])]
    BY DEF RulesOf
  <2> DEFINE rules == states[r].rules
             m == Len(rules)
  <2>5. es = [k \in 1..m |-> Entry(rules[k], r, TRUE)] /\ m \in Nat /\ i \in 1..m
    BY <2>1, <2>2, <2>3
  <2> HIDE DEF es, rules, r, m
  <2>6. es[i] = Entry(rules[i], r, TRUE) /\ i \in DOMAIN es /\ i \in 1..Len(es)
    BY <2>5
  <2>7. entry = es[i]
    BY <2>6 DEF rules
  <2> QED
    BY <2>4, <2>6, <2>7
<1>7. ASSUME ~ParserIdle(t, r, TRUE)
      PROVE  Arrived(x)
  <2> HIDE DEF t, x, r, d, es, entry
  <2>1. t.op \in {"push", "set"}
    BY <1>2
  <2>2. Presented(RulesOf(r)[i])
    BY <1>1, <1>6, RulesPresented DEF Emitting, r, es
  <2>3. PICK m \in DOMAIN contexts : \E e \in Range(contexts[m]) : e.kind = "match" /\ Offer(e) = Offer(entry)
    BY <1>6, <2>2 DEF Presented
  <2>4. PICK e \in Range(contexts[m]) : e.kind = "match" /\ Offer(e) = Offer(entry)
    BY <2>3
  <2>5. e.effect = EffectOf(t, r, TRUE)
    BY <2>4 DEF Offer, Entry, entry
  <2>6. e.effect.op = t.op /\ e.effect.names = Owned(Targets(t, TRUE))
    BY <1>7, <2>5 DEF EffectOf, Effect
  <2>7. References(e) = Range(Owned(Targets(t, TRUE)))
    BY <2>1, <2>4, <2>6 DEF References
  <2>8. Own(Renamed(x)) \in References(e)
    BY <1>5, <2>7 DEF Owned, Range
  <2>9. References(e) \subseteq ReferencedBy(m)
    BY <2>4 DEF ReferencedBy
  <2>10. Own(Renamed(x)) \in DOMAIN contexts
    BY <2>3, <2>8, <2>9 DEF Emission, Complete
  <2> QED
    BY <1>4, <2>10, TargetArrives
<1> HIDE DEF t, x, r, d, es, entry
<1>8. Arrived(x)
  <2>1. CASE ParserIdle(t, r, TRUE)
    <3>1. Renamed(x) = r
      BY <1>5, <2>1
    <3>2. Own(Renamed(x)) \in DOMAIN contexts
      BY <1>1, <3>1
    <3> QED
      BY <1>4, <3>2, TargetArrives
  <2> QED
    BY <1>7, <2>1
<1>9. c = rep[c] => x = d
  BY DEF x, d, t, r
<1>10. c \notin representatives => d \in labels
  BY DEF d
<1>11. Arrived(d)
  BY <1>1, <1>2, <1>8, <1>9, <1>10, AlikeArrives
<1> QED
  BY <1>11 DEF d

(* One step of what the grammar can reach.                                  *)
LEMMA LeadArrives ==
  ASSUME Merging, Emission, Pruning, pc = "done", NEW g \in Graphs, IsBuilt(g),
         NEW c \in g.contexts, Arrived(c), ~Misled(g, c), NEW d \in Leads(g, c)
  PROVE  Arrived(d) /\ d \in g.contexts
<1>1. c \in labels /\ states[c] = BuiltState(g, c)
  BY DEF Arrived, IsBuilt
<1>2. states[c].imm = g.body[c] /\ states[c].rules = EditorRules(g, InOrder(g, c))
  BY <1>1 DEF BuiltState
<1>3. ~Borrows(rep[c]) /\ (c \notin representatives => d \in labels)
  BY DEF Misled
<1>4. StateGraph(g)
  BY EditorStatesAssumption
<1>5. CASE d \in {g.body[c]} \ {NoState}
  <2>1. d = states[c].imm /\ d # NoState
    BY <1>2, <1>5
  <2>2. Arrived(states[c].imm)
    BY <1>3, <2>1, ImmediateArrives
  <2> QED
    BY <1>2, <1>4, <2>1, <2>2 DEF StateGraph
<1> DEFINE Led == {u \in Range(InOrder(g, c)) :
                  u.op \in {"push", "set"} /\ \E o \in Range(Overrides(g, u)) : o.kind = "plain"}
<1>6. CASE d \in UNION {Range(t.targets) : t \in Led}
  <2>1. PICK u \in Led : d \in Range(u.targets)
    BY <1>6
  <2>2. u \in Range(InOrder(g, c)) /\ u.op \in {"push", "set"}
    BY <2>1
  <2>3. PICK o \in Range(Overrides(g, u)) : o.kind = "plain"
    BY <2>1
  <2> HIDE DEF Led
  <2> DEFINE w == EditorRule(g, u, o)
             q == InOrder(g, c)
             rules == EditorRules(g, q)
  <2>4. q \in Seq(GraphTransition(g)) /\ Len(q) \in Nat /\ DOMAIN q = 1..Len(q) /\ u \in GraphTransition(g)
    <3>1. q \in Seq(GraphTransition(g))
      BY InOrderIs
    <3> HIDE DEF q
    <3>2. Len(q) \in Nat /\ DOMAIN q = 1..Len(q) /\ Range(q) \subseteq GraphTransition(g)
      BY <3>1 DEF Range
    <3> QED
      BY <2>2, <3>1, <3>2 DEF q
  <2>5. w \in RulesMadeOf(g, q)
    BY <2>2, <2>3 DEF RulesMadeOf
  <2>6. rules \in Seq(RulesMadeOf(g, q)) /\ Range(rules) = RulesMadeOf(g, q)
    <3> HIDE DEF q
    <3> QED
      BY <2>4, EditorRulesAre
  <2>7. w.op = u.op /\ w.targets = u.targets
    BY <2>2, <2>3 DEF EditorRule, StackOperation
  <2> HIDE DEF w, q
  <2>8. PICK i \in 1..Len(rules) : w = rules[i]
    <3>1. w \in Range(rules) /\ DOMAIN rules = 1..Len(rules)
      BY <2>5, <2>6
    <3> QED
      BY <3>1 DEF Range
  <2>9. rules = states[c].rules
    BY <1>2 DEF q
  <2>10. PICK n \in DOMAIN u.targets : d = u.targets[n]
    BY <2>1 DEF Range
  <2> HIDE DEF rules
  <2>11. i \in 1..Len(states[c].rules) /\ states[c].rules[i] = w
    BY <2>8, <2>9
  <2>12. states[c].rules[i].op \in {"push", "set"} /\ n \in DOMAIN states[c].rules[i].targets
         /\ states[c].rules[i].targets[n] = d
    BY <2>2, <2>7, <2>10, <2>11
  <2>13. Arrived(states[c].rules[i].targets[n])
    BY <1>3, <2>11, <2>12, RuleArrives
  <2>14. d \in g.contexts
    <3>1. u.targets \in Seq(g.contexts)
      BY <2>4 DEF GraphTransition
    <3> QED
      BY <2>10, <3>1
  <2> QED
    BY <2>12, <2>13, <2>14
<1> QED
  BY <1>5, <1>6 DEF Leads

-----------------------------------------------------------------------------
(* All that the grammar can reach.                                          *)
Further(g, S) == S \cup UNION {Leads(g, c) : c \in S}
IsReach(g, m, R) == R = [n \in 0..m |-> IF n = 0 THEN {Main} ELSE Further(g, R[n - 1])]

LEMMA ReachExists ==
  ASSUME NEW g, NEW m \in Nat
  PROVE  \E R : IsReach(g, m, R)
<1> DEFINE T == {n \in Nat : \E R : IsReach(g, n, R)}
<1>1. 0 \in T
  <2> DEFINE R == [n \in 0..0 |-> {Main}]
  <2>1. IsReach(g, 0, R)
    BY DEF IsReach
  <2> QED
    BY <2>1
<1>2. ASSUME NEW n \in Nat, n \in T PROVE n + 1 \in T
  <2>1. PICK R : IsReach(g, n, R)
    BY <1>2
  <2> DEFINE Q == [k \in 0..(n + 1) |-> IF k = n + 1 THEN Further(g, R[n]) ELSE R[k]]
  <2>2. \A k \in 0..n : R[k] = IF k = 0 THEN {Main} ELSE Further(g, R[k - 1])
    BY <2>1 DEF IsReach
  <2>3. \A k \in 0..n : k \in 0..(n + 1) /\ k # n + 1
    OBVIOUS
  <2>4. Q[n + 1] = Further(g, R[n]) /\ \A k \in 0..n : Q[k] = R[k]
    BY <2>3
  <2>5. ASSUME NEW k \in 0..(n + 1)
        PROVE  Q[k] = IF k = 0 THEN {Main} ELSE Further(g, Q[k - 1])
    <3> HIDE DEF Q
    <3>1. CASE k = n + 1
      <4>1. k - 1 = n /\ n \in 0..n /\ k # 0
        BY <3>1
      <4> QED
        BY <3>1, <4>1, <2>4
    <3>2. CASE k \in 0..n /\ k = 0
      BY <3>2, <2>2, <2>4
    <3>3. CASE k \in 0..n /\ k # 0
      <4>1. k - 1 \in 0..n
        BY <3>3
      <4> QED
        BY <3>3, <4>1, <2>2, <2>4
    <3> QED
      BY <3>1, <3>2, <3>3
  <2>6. Q = [k \in 0..(n + 1) |-> Q[k]]
    OBVIOUS
  <2> HIDE DEF Q
  <2>7. IsReach(g, n + 1, Q)
    BY <2>5, <2>6 DEF IsReach
  <2> QED
    BY <2>7
<1> HIDE DEF T
<1>3. m \in T
  BY <1>1, <1>2, CountUp
<1> QED
  BY <1>3 DEF T

LEMMA ReachableIs ==
  ASSUME NEW g, Cardinality(g.contexts) \in Nat
  PROVE  \E R : IsReach(g, Cardinality(g.contexts), R) /\ Reachable(g) = R[Cardinality(g.contexts)]
<1> DEFINE TheReach == CHOOSE R : IsReach(g, Cardinality(g.contexts), R)
<1>1. IsReach(g, Cardinality(g.contexts), TheReach)
  BY ReachExists
<1>2. Reachable(g) = TheReach[Cardinality(g.contexts)]
  BY DEF Reachable, IsReach, Further
<1> QED
  BY <1>1, <1>2

LEMMA ContextsFinite ==
  ASSUME NEW g \in Graphs
  PROVE  Cardinality(g.contexts) \in Nat
<1>1. Order \in Seq(Names)
  BY SublimeStatesAssumption
<1>2. DOMAIN Order = 1..Len(Order) /\ IsFiniteSet(1..Len(Order))
  BY <1>1, FS_Interval
<1>3. Order \in Surjection(DOMAIN Order, Names)
  BY <1>1, <1>2 DEF Surjection, Names, Range
<1>4. IsFiniteSet(Names)
  BY <1>2, <1>3, FS_Surjection
<1>5. g.contexts \subseteq Names
  BY EditorStatesAssumption DEF StateGraph, Labels
<1> QED
  BY <1>4, <1>5, FS_Subset, FS_CardinalityType

LEMMA AllArrive ==
  ASSUME Merging, Emission, Pruning, pc = "done", NEW g \in Graphs, IsBuilt(g),
         \A c \in Reachable(g) \cap labels : ~Misled(g, c)
  PROVE  \A c \in Reachable(g) : Arrived(c)
<1> DEFINE z == Cardinality(g.contexts)
<1>1. z \in Nat
  BY ContextsFinite
<1>2. PICK R : IsReach(g, z, R) /\ Reachable(g) = R[z]
  BY <1>1, ReachableIs
<1> HIDE DEF z
<1>3. \A n \in 0..z : R[n] = IF n = 0 THEN {Main} ELSE Further(g, R[n - 1])
  BY <1>2 DEF IsReach
<1> DEFINE Good(n) == \A c \in R[n] : c \in g.contexts /\ (R[n] \subseteq Reachable(g) => Arrived(c))
           T == {n \in Nat : n <= z => Good(n)}
           U == {k \in Nat : k <= z => R[z - k] \subseteq Reachable(g)}
<1>4. z - 0 \in 0..z /\ 0 \in U
  BY <1>1, <1>2
<1>5. ASSUME NEW k \in Nat, k \in U PROVE k + 1 \in U
  <2> SUFFICES ASSUME k + 1 <= z PROVE R[z - (k + 1)] \subseteq Reachable(g)
    OBVIOUS
  <2>1. z - k \in 0..z /\ z - k # 0 /\ (z - k) - 1 = z - (k + 1) /\ k <= z
    BY <1>1
  <2>2. R[z - k] = Further(g, R[z - (k + 1)])
    BY <1>3, <2>1
  <2>3. R[z - k] \subseteq Reachable(g)
    BY <1>5, <2>1
  <2> QED
    BY <2>2, <2>3 DEF Further
<1>6. \A n \in 0..z : R[n] \subseteq Reachable(g)
  <2>1. Nat \subseteq U
    <3> HIDE DEF U
    <3>1. 0 \in U
      BY <1>4
    <3> QED
      BY <1>5, <3>1, CountUp
  <2> SUFFICES ASSUME NEW n \in 0..z PROVE R[n] \subseteq Reachable(g)
    OBVIOUS
  <2>2. z - n \in Nat /\ z - n <= z /\ z - (z - n) = n
    BY <1>1
  <2> QED
    BY <2>1, <2>2
<1>7. 0 \in T
  <2>1. R[0] = {Main}
    BY <1>1, <1>3
  <2>2. Main \in g.contexts
    BY EditorStatesAssumption DEF StateGraph
  <2>3. Arrived(Main)
    <3>1. rep[Main] = Main /\ Own(Main) \in DOMAIN contexts
      BY RootStands DEF Pruning, Walked
    <3>2. Main \in labels
      BY RootStands, RepresentativesAre
    <3> QED
      BY <3>1, <3>2 DEF Arrived
  <2> QED
    BY <2>1, <2>2, <2>3
<1>8. ASSUME NEW n \in Nat, n \in T PROVE n + 1 \in T
  <2> SUFFICES ASSUME n + 1 <= z PROVE Good(n + 1)
    OBVIOUS
  <2>1. n \in 0..z /\ n + 1 \in 0..z /\ (n + 1) - 1 = n /\ n + 1 # 0 /\ n <= z
    BY <1>1
  <2>2. R[n + 1] = Further(g, R[n])
    BY <1>3, <2>1
  <2>3. \A c \in R[n] : c \in g.contexts /\ Arrived(c)
    BY <1>6, <1>8, <2>1
  <2>4. \A c \in R[n] : ~Misled(g, c)
    BY <1>6, <2>1, <2>3 DEF Arrived
  <2>5. ASSUME NEW c \in R[n], NEW d \in Leads(g, c) PROVE Arrived(d) /\ d \in g.contexts
    BY <2>3, <2>4, LeadArrives
  <2> QED
    BY <2>2, <2>3, <2>5 DEF Further
<1>9. z \in T
  <2> HIDE DEF T
  <2> QED
    BY <1>1, <1>7, <1>8, CountUp
<1>10. Good(z)
  BY <1>1, <1>9
<1> QED
  BY <1>2, <1>10

LEMMA PruningAlways == Spec => [](Merging /\ Emission /\ Pruning)
<1>1. Init => Pruning
  BY PruningInit
<1>2. Merging /\ Emission /\ Pruning /\ [Next]_vars => Pruning'
  BY PruningStep
<1> QED
  BY <1>1, <1>2, EmissionAlways, PTL DEF Spec

(* From the grammar to the file no context is lost in silence               *)
(* (validateContextReferences), for every machine, and for every state      *)
(* graph that EditorIRFromStateGraph makes one of: if the file is written   *)
(* all that the grammar can reach has a context in it, as long as no state  *)
(* on the way is misled, and the call panics only over a context whose id   *)
(* sorts behind the root's.                                                 *)
THEOREM ContextsArrive == Spec => []EveryContextArrives
<1>1. ASSUME Merging, Emission, Pruning PROVE EveryContextArrives
  <2>1. machine \in Machines
    BY <1>1 DEF Merging
  <2>2. PanicOnlyIfMissing
    BY <1>1, PanicsForMissing DEF PanicOnlyIfMissing
  <2>3. ASSUME Built, pc = "panic"
        PROVE  \E c \in Missing \cap machine.graph.contexts : Position(c) > Position(Main)
    <3>1. PICK x \in Missing : TRUE
      BY <1>1, <2>3, PanicsForMissing
    <3>2. machine.graph \in Graphs /\ IsBuilt(machine.graph)
      BY <2>1, <2>3, BuiltOf
    <3> QED
      BY <3>1, <3>2, MissingBehind
  <2>4. ASSUME Built, pc = "done", \A c \in Reachable(machine.graph) \cap labels : ~Misled(machine.graph, c)
        PROVE  \A c \in Reachable(machine.graph) : c \in labels /\ Own(rep[c]) \in DOMAIN contexts
    <3>1. machine.graph \in Graphs /\ IsBuilt(machine.graph)
      BY <2>1, <2>4, BuiltOf
    <3> QED
      BY <1>1, <2>4, <3>1, AllArrive DEF Arrived
  <2> QED
    BY <2>2, <2>3, <2>4 DEF EveryContextArrives
<1>2. Merging /\ Emission /\ Pruning => EveryContextArrives
  BY <1>1
<1> QED
  BY <1>2, PruningAlways, PTL

-----------------------------------------------------------------------------
(* The order in which a context tries its transitions.                      *)
LEMMA PriorityIs ==
  ASSUME NEW g \in Graphs, NEW token
  PROVE  Priority(g, token) \in Nat
<1> DEFINE n == Len(g.rules)
           S == {0} \cup {g.rules[i].priority : i \in RulesFor(g, token)}
           T == {k \in Nat : k <= n => \E m \in Nat : \A i \in 1..k : g.rules[i].priority <= m}
<1>1. n \in Nat /\ DOMAIN g.rules = 1..n /\ \A i \in 1..n : g.rules[i].priority \in Nat
  BY EditorStatesAssumption DEF StateGraph
<1> HIDE DEF n
<1>2. 0 \in T
  OBVIOUS
<1>3. ASSUME NEW k \in Nat, k \in T PROVE k + 1 \in T
  <2> SUFFICES ASSUME k + 1 <= n PROVE \E m \in Nat : \A i \in 1..(k + 1) : g.rules[i].priority <= m
    OBVIOUS
  <2> DEFINE z == g.rules[k + 1].priority
  <2>1. k <= n /\ k + 1 \in 1..n
    BY <1>1
  <2>2. z \in Nat
    BY <1>1, <2>1
  <2>3. PICK m \in Nat : \A i \in 1..k : g.rules[i].priority <= m
    BY <1>3, <2>1
  <2>4. ASSUME NEW i \in 1..(k + 1) PROVE g.rules[i].priority <= m + z
    <3>1. g.rules[i].priority \in Nat
      BY <1>1, <2>1
    <3>2. CASE i \in 1..k
      <4>1. g.rules[i].priority <= m
        BY <2>3, <3>2
      <4> HIDE DEF z
      <4> QED
        BY <2>2, <3>1, <4>1
    <3>3. CASE i = k + 1
      <4>1. g.rules[i].priority = z
        BY <3>3
      <4> HIDE DEF z
      <4> QED
        BY <2>2, <4>1
    <3> QED
      BY <3>2, <3>3
  <2>5. m + z \in Nat
    <3> HIDE DEF z
    <3> QED
      BY <2>2
  <2> QED
    BY <2>4, <2>5
<1> HIDE DEF T
<1>4. n \in T
  BY <1>1, <1>2, <1>3, CountUp
<1>5. PICK m \in Nat : \A i \in 1..n : g.rules[i].priority <= m
  BY <1>1, <1>4 DEF T
<1>6. RulesFor(g, token) \subseteq 1..n
  BY <1>1 DEF RulesFor
<1>7. S \in SUBSET (0..m) /\ S # {}
  BY <1>1, <1>5, <1>6
<1> HIDE DEF S
<1>8. Max(S) \in S
  BY <1>5, <1>7, GreatestOf
<1>9. Max(S) \in Nat
  <2>1. S \subseteq Nat
    <3>1. 0..m \subseteq Nat
      BY <1>5
    <3> QED
      BY <1>7, <3>1
  <2> QED
    BY <1>8, <2>1
<1> QED
  BY <1>9 DEF S, Priority

(* Whether a transition comes before one that was discovered earlier.       *)
LEMMA BeforeIs ==
  ASSUME NEW g \in Graphs, NEW ts \in Seq(GraphTransition(g)),
         NEW e \in 1..Len(ts), NEW k \in 1..Len(ts), k < e
  PROVE  LET P(i) == Priority(g, ts[i].token) IN
         /\ <<e, k>> \in Before(g, ts) => P(e) >= P(k)
         /\ <<e, k>> \notin Before(g, ts) => P(k) >= P(e)
         /\ ts[e].token = ts[k].token /\ ~ts[e].recovery /\ ts[k].recovery => <<e, k>> \in Before(g, ts)
         /\ ts[e].token = ts[k].token /\ ts[e].recovery /\ ~ts[k].recovery => <<e, k>> \notin Before(g, ts)
<1> DEFINE a == ts[e]
           b == ts[k]
           x == Priority(g, a.token)
           y == Priority(g, b.token)
<1>1. <<e, k>> \in Before(g, ts) <=> Precedes(g, a, b, FALSE)
  <2>1. DOMAIN ts = 1..Len(ts) /\ Len(ts) \in Nat
    OBVIOUS
  <2>2. <<e, k>> \in (DOMAIN ts) \X (DOMAIN ts) /\ <<e, k>>[1] = e /\ <<e, k>>[2] = k
    BY <2>1
  <2>3. (e < k) = FALSE
    BY <2>1
  <2> QED
    BY <2>2, <2>3 DEF Before
<1>2. a.recovery \in BOOLEAN /\ b.recovery \in BOOLEAN
  <2>1. a \in GraphTransition(g) /\ b \in GraphTransition(g)
    OBVIOUS
  <2> HIDE DEF a, b
  <2> QED
    BY <2>1 DEF GraphTransition
<1>3. x \in Nat /\ y \in Nat
  BY PriorityIs
<1> HIDE DEF a, b
<1>4. a.token = b.token => x = y
  OBVIOUS
<1>5. Precedes(g, a, b, FALSE) => x >= y
  <2> HIDE DEF x, y
  <2>1. Precedes(g, a, b, FALSE) => (x # y => x > y)
    BY DEF Precedes, x, y
  <2> QED
    BY <1>3, <2>1
<1>6. ~Precedes(g, a, b, FALSE) => y >= x
  <2> HIDE DEF x, y
  <2>1. ~Precedes(g, a, b, FALSE) => (x # y => ~(x > y))
    BY DEF Precedes, x, y
  <2> QED
    BY <1>3, <2>1
<1>7. a.token = b.token /\ ~a.recovery /\ b.recovery => Precedes(g, a, b, FALSE)
  BY <1>2, <1>4 DEF Precedes
<1>8. a.token = b.token /\ a.recovery /\ ~b.recovery => ~Precedes(g, a, b, FALSE)
  BY <1>2, <1>4 DEF Precedes
<1> QED
  BY <1>1, <1>5, <1>6, <1>7, <1>8 DEF a, b

(* The one that consumes a token, and the one that recovers at it, when no  *)
(* other token of that priority was discovered before the first.            *)
Rivals(g, ts, i, j) ==
  /\ ts[i].token = ts[j].token /\ ts[j].recovery /\ ~ts[i].recovery
  /\ \A k \in 1..(i - 1) :
       Priority(g, ts[k].token) = Priority(g, ts[i].token) => ts[k].token = ts[i].token

IsOrdered(g, ts, a) ==
  /\ \A x, y \in 1..Len(a) : x < y => Priority(g, ts[a[x]].token) >= Priority(g, ts[a[y]].token)
  /\ \A x, y \in 1..Len(a) : Rivals(g, ts, a[x], a[y]) => x < y

(* One more transition keeps the order.                                     *)
LEMMA OneMoreOrdered ==
  ASSUME NEW g \in Graphs, NEW ts \in Seq(GraphTransition(g)), NEW e \in 1..Len(ts),
         NEW a \in Seq(1..(e - 1)), Range(a) = 1..(e - 1), IsOrdered(g, ts, a),
         NEW p \in 0..Len(a),
         \A k \in 1..Len(a) : k > p => <<e, a[k]>> \in Before(g, ts),
         p # 0 => <<e, a[p]>> \notin Before(g, ts),
         NEW q, NEW X, IsInserted(q, X, a, e, p)
  PROVE  IsOrdered(g, ts, q)
<1> DEFINE P(i) == Priority(g, ts[i].token)
           n == Len(a)
           B == Before(g, ts)
<1>1. /\ n \in Nat /\ \A k \in 1..n : a[k] \in 1..Len(ts) /\ a[k] < e /\ a[k] \in Nat
      /\ e \in Nat
  OBVIOUS
<1>2. \A i : P(i) \in Nat
  BY PriorityIs
<1>3. ASSUME NEW k \in 1..n
      PROVE  /\ <<e, a[k]>> \in B => P(e) >= P(a[k])
             /\ <<e, a[k]>> \notin B => P(a[k]) >= P(e)
             /\ ts[e].token = ts[a[k]].token /\ ~ts[e].recovery /\ ts[a[k]].recovery => <<e, a[k]>> \in B
             /\ ts[e].token = ts[a[k]].token /\ ts[e].recovery /\ ~ts[a[k]].recovery => <<e, a[k]>> \notin B
  <2> DEFINE d == a[k]
  <2>1. d \in 1..Len(ts) /\ d < e
    BY <1>1
  <2> HIDE DEF d
  <2>2. /\ <<e, d>> \in B => P(e) >= P(d)
        /\ <<e, d>> \notin B => P(d) >= P(e)
        /\ ts[e].token = ts[d].token /\ ~ts[e].recovery /\ ts[d].recovery => <<e, d>> \in B
        /\ ts[e].token = ts[d].token /\ ts[e].recovery /\ ~ts[d].recovery => <<e, d>> \notin B
    BY <2>1, BeforeIs
  <2> QED
    BY <2>2 DEF d
<1>4. \A x, y \in 1..n : x < y => P(a[x]) >= P(a[y])
  BY DEF IsOrdered
<1>5. \A x, y \in 1..n : Rivals(g, ts, a[x], a[y]) => x < y
  BY DEF IsOrdered
<1> DEFINE old(x) == IF x <= p THEN x ELSE x - 1
<1>6. /\ Len(q) = n + 1 /\ q[p + 1] = e
      /\ \A x \in 1..(n + 1) : x # p + 1 => q[x] = a[old(x)] /\ old(x) \in 1..n
  <2>1. ASSUME NEW x \in 1..(n + 1), x # p + 1 PROVE q[x] = a[old(x)] /\ old(x) \in 1..n
    <3>1. CASE x <= p
      BY <1>1, <2>1, <3>1 DEF IsInserted
    <3>2. CASE x > p
      <4>1. x - 1 \in (p + 1)..n /\ (x - 1) + 1 = x /\ old(x) = x - 1 /\ x - 1 \in 1..n
        BY <1>1, <2>1, <3>2
      <4>2. q[(x - 1) + 1] = a[x - 1]
        BY <4>1 DEF IsInserted
      <4> QED
        BY <4>1, <4>2
    <3> QED
      BY <1>1, <3>1, <3>2
  <2> QED
    BY <2>1 DEF IsInserted
<1>7. \A k \in 1..n : k > p => <<e, a[k]>> \in B
  OBVIOUS
<1>8. p # 0 => p \in 1..n /\ <<e, a[p]>> \notin B
  BY <1>1
<1>9. \A k \in 1..n : k <= p => P(a[k]) >= P(e)
  <2> SUFFICES ASSUME NEW k \in 1..n, k <= p PROVE P(a[k]) >= P(e)
    OBVIOUS
  <2>1. p \in 1..n /\ P(a[p]) >= P(e)
    BY <1>3, <1>8
  <2>2. k < p => P(a[k]) >= P(a[p])
    BY <1>4, <2>1
  <2> DEFINE u == P(a[k])
             v == P(a[p])
             w == P(e)
  <2>3. u \in Nat /\ v \in Nat /\ w \in Nat /\ (k < p => u >= v) /\ v >= w /\ (k = p => u = v)
    BY <1>2, <2>1, <2>2
  <2> HIDE DEF u, v, w
  <2>4. u >= w
    BY <1>1, <2>3
  <2> QED
    BY <2>4 DEF u, w
<1> HIDE DEF B, P, n
<1>10. ASSUME NEW x \in 1..(n + 1), NEW y \in 1..(n + 1), x < y PROVE P(q[x]) >= P(q[y])
  <2>1. CASE x # p + 1 /\ y # p + 1
    <3>1. old(x) < old(y)
      BY <1>1, <1>10, <2>1
    <3> HIDE DEF old
    <3> QED
      BY <1>4, <1>6, <2>1, <3>1
  <2>2. CASE x = p + 1
    <3>1. y # p + 1 /\ old(y) > p
      BY <1>1, <1>10, <2>2
    <3> HIDE DEF old
    <3> QED
      BY <1>3, <1>6, <1>7, <2>2, <3>1
  <2>3. CASE x # p + 1 /\ y = p + 1
    <3>1. old(x) <= p
      BY <1>1, <1>10, <2>3
    <3> HIDE DEF old
    <3> QED
      BY <1>6, <1>9, <2>3, <3>1
  <2> QED
    BY <2>1, <2>2, <2>3
<1>11. ASSUME NEW y \in 1..n, Rivals(g, ts, e, a[y]) PROVE y > p
  <2> SUFFICES ASSUME y <= p PROVE FALSE
    BY <1>1
  <2> DEFINE j == a[y]
             m == a[p]
  <2>1. p \in 1..n /\ <<e, m>> \notin B /\ m \in Nat /\ m < e /\ m >= 1 /\ j \in 1..Len(ts)
    BY <1>1, <1>8
  <2>2. P(e) = P(j)
    BY <1>11 DEF Rivals, P
  <2>3. P(m) >= P(e) /\ (y < p => P(j) >= P(m)) /\ (y = p => j = m)
    BY <1>4, <1>9, <2>1
  <2>4. P(m) = P(e)
    <3> DEFINE u == P(m)
               v == P(e)
               w == P(j)
    <3>1. u \in Nat /\ v \in Nat /\ w \in Nat /\ v = w /\ u >= v /\ (y < p => w >= u) /\ (y = p => w = u)
      BY <1>2, <2>2, <2>3
    <3> HIDE DEF u, v, w
    <3>2. u = v
      BY <1>1, <2>1, <3>1
    <3> QED
      BY <3>2 DEF u, v
  <2>5. m \in 1..(e - 1)
    BY <1>1, <2>1
  <2>6. ts[m].token = ts[e].token
    BY <1>11, <2>4, <2>5 DEF Rivals, P
  <2>7. ~ts[e].recovery /\ ts[j].recovery /\ ts[e].token = ts[j].token
    BY <1>11 DEF Rivals
  <2>8. ~ts[m].recovery
    BY <1>3, <2>1, <2>6, <2>7
  <2>9. \A k \in 1..(m - 1) : P(k) = P(m) => ts[k].token = ts[m].token
    <3>1. \A k \in 1..(m - 1) : k \in 1..(e - 1)
      BY <1>1, <2>1
    <3> QED
      BY <1>11, <2>4, <2>6, <3>1 DEF Rivals, P
  <2>10. Rivals(g, ts, m, j)
    BY <2>6, <2>7, <2>8, <2>9 DEF Rivals, P
  <2>11. p < y
    BY <1>5, <2>1, <2>10
  <2> QED
    BY <1>1, <2>1, <2>11
<1>12. ASSUME NEW x \in 1..n, Rivals(g, ts, a[x], e) PROVE x <= p
  <2> SUFFICES ASSUME x > p PROVE FALSE
    BY <1>1
  <2>1. <<e, a[x]>> \in B
    BY <1>7
  <2>2. <<e, a[x]>> \notin B
    BY <1>3, <1>12 DEF Rivals
  <2> QED
    BY <2>1, <2>2
<1>13. ASSUME NEW x \in 1..(n + 1), NEW y \in 1..(n + 1), Rivals(g, ts, q[x], q[y]) PROVE x < y
  <2>1. CASE x # p + 1 /\ y # p + 1
    <3>1. old(x) < old(y)
      <4> HIDE DEF old
      <4> QED
        BY <1>5, <1>6, <1>13, <2>1
    <3> QED
      BY <1>1, <2>1, <3>1
  <2>2. CASE x = p + 1 /\ y # p + 1
    <3>1. old(y) > p
      <4> HIDE DEF old
      <4> QED
        BY <1>6, <1>11, <1>13, <2>2
    <3> QED
      BY <1>1, <2>2, <3>1
  <2>3. CASE x # p + 1 /\ y = p + 1
    <3>1. old(x) <= p
      <4> HIDE DEF old
      <4> QED
        BY <1>6, <1>12, <1>13, <2>3
    <3> QED
      BY <1>1, <2>3, <3>1
  <2>4. CASE x = p + 1 /\ y = p + 1
    <3>1. Rivals(g, ts, e, e)
      BY <1>6, <1>13, <2>4
    <3> QED
      BY <3>1 DEF Rivals
  <2> QED
    BY <2>1, <2>2, <2>3, <2>4
<1> QED
  BY <1>6, <1>10, <1>13 DEF IsOrdered, P

LEMMA SortOrders ==
  ASSUME NEW g \in Graphs, NEW c
  PROVE  IsOrdered(g, Discovered(g, c), Sorted(g, c))
<1> DEFINE ts == Discovered(g, c)
           before == Before(g, ts)
           n == Len(ts)
           X == 1..n
           s == [i \in X |-> i]
<1>1. ts \in Seq(GraphTransition(g)) /\ n \in Nat /\ DOMAIN ts = X
  <2> DEFINE T == GraphTransition(g)
  <2>1. ts \in Seq(T)
    BY DiscoveredIs
  <2> HIDE DEF T
  <2>2. n \in Nat /\ DOMAIN ts = X
    BY <2>1
  <2> QED
    BY <2>1, <2>2 DEF T
<1>2. Sorted(g, c) = StableSort(s, before)
  BY <1>1 DEF Sorted
<1>3. Len(s) = n /\ \A i \in 1..n : s[i] = i
  BY <1>1
<1> HIDE DEF ts, before, n, s
<1>4. PICK R : IsSorting(s, before, n, R) /\ StableSort(s, before) = R[n]
  BY <1>1, <1>3, SortIs
<1>5. \A k \in 0..n : R[k] = IF k = 0 THEN <<>> ELSE Inserted(s, before, R[k - 1], k)
  BY <1>4 DEF IsSorting
<1> DEFINE Good(k) == R[k] \in Seq(1..k) /\ Range(R[k]) = 1..k /\ IsOrdered(g, ts, R[k])
           T == {k \in Nat : k <= n => Good(k)}
<1>6. 0 \in T
  <2>1. R[0] = <<>>
    BY <1>1, <1>5
  <2>2. <<>> \in Seq(1..0) /\ Range(<<>>) = 1..0 /\ IsOrdered(g, ts, <<>>)
    BY DEF Range, IsOrdered
  <2> QED
    BY <2>1, <2>2
<1>7. ASSUME NEW k \in Nat, k \in T PROVE k + 1 \in T
  <2> SUFFICES ASSUME k + 1 <= n PROVE Good(k + 1)
    OBVIOUS
  <2> DEFINE e == k + 1
             a == R[k]
             p == Place(s, before, a, e)
             E == 1..e
             q == R[e]
  <2>1. k <= n /\ e \in 0..n /\ e # 0 /\ e - 1 = k /\ e \in 1..n /\ s[e] = e /\ e \in E
    BY <1>1, <1>3
  <2>2. a \in Seq(1..k) /\ Range(a) = 1..k /\ IsOrdered(g, ts, a)
    BY <1>7, <2>1
  <2>3. a \in Seq(E)
    <3>1. \A i \in 1..Len(a) : a[i] \in 1..k
      BY <2>2
    <3>2. 1..k \subseteq E
      OBVIOUS
    <3> HIDE DEF E, a
    <3> QED
      BY <2>2, <3>1, <3>2
  <2>4. q = InsertAt(a, p + 1, e)
    BY <1>5, <2>1 DEF Inserted
  <2> HIDE DEF a, E, q, e
  <2>5. /\ p \in 0..Len(a)
        /\ \A i \in 1..Len(a) : i > p => <<e, a[i]>> \in before
        /\ p # 0 => <<e, a[p]>> \notin before
    BY <2>1, <2>3, PlaceIs
  <2> HIDE DEF p
  <2>6. IsInserted(q, E, a, e, p)
    <3> DEFINE j == p + 1
    <3>1. a \in Seq(E) /\ e \in E /\ p \in 0..Len(a) /\ j = p + 1
      BY <2>1, <2>3, <2>5
    <3> HIDE DEF j
    <3>2. IsInserted(InsertAt(a, j, e), E, a, e, p)
      BY <3>1, InsertIs
    <3> QED
      BY <2>4, <3>2 DEF j
  <2>7. IsOrdered(g, ts, q)
    <3>1. /\ e \in 1..Len(ts) /\ a \in Seq(1..(e - 1)) /\ Range(a) = 1..(e - 1)
      BY <2>1, <2>2 DEF n
    <3> QED
      BY <1>1, <2>2, <2>5, <2>6, <3>1, OneMoreOrdered DEF before
  <2>8. q \in Seq(E)
    BY <2>6 DEF IsInserted
  <2>9. Range(q) = E
    <3>1. /\ Len(a) \in Nat /\ DOMAIN a = 1..Len(a) /\ DOMAIN q = 1..(Len(a) + 1)
          /\ q[p + 1] = e
          /\ \A i \in 1..p : q[i] = a[i]
          /\ \A i \in (p + 1)..Len(a) : q[i + 1] = a[i]
      BY <2>3, <2>6, <2>8 DEF IsInserted
    <3>2. Range(q) \subseteq E
      BY <2>8 DEF Range
    <3>3. e \in Range(q)
      <4>1. p + 1 \in DOMAIN q
        BY <2>5, <3>1
      <4> QED
        BY <3>1, <4>1 DEF Range
    <3>4. ASSUME NEW x \in 1..k PROVE x \in Range(q)
      <4>1. PICK i \in 1..Len(a) : a[i] = x
        BY <2>2, <3>1 DEF Range
      <4>2. CASE i <= p
        <5>1. i \in DOMAIN q /\ q[i] = x
          BY <2>5, <3>1, <4>1, <4>2
        <5> QED
          BY <5>1 DEF Range
      <4>3. CASE i > p
        <5>1. i + 1 \in DOMAIN q /\ q[i + 1] = x
          BY <2>5, <3>1, <4>1, <4>3
        <5> QED
          BY <5>1 DEF Range
      <4> QED
        BY <2>5, <3>1, <4>2, <4>3
    <3>5. E = 1..k \cup {e}
      BY DEF E, e
    <3> QED
      BY <3>2, <3>3, <3>4, <3>5
  <2> QED
    BY <2>7, <2>8, <2>9 DEF E, e, q
<1> HIDE DEF T
<1>8. n \in T
  BY <1>1, <1>6, <1>7, CountUp
<1>9. IsOrdered(g, ts, R[n])
  BY <1>1, <1>8 DEF T
<1> QED
  BY <1>2, <1>4, <1>9 DEF ts

-----------------------------------------------------------------------------
(* In a file, what the first transitions of a state became comes first.     *)
OpensWith(g, ws, p, m, rules) ==
  /\ m \in Nat /\ m <= Len(rules)
  /\ \A x \in 1..m : \E k \in 1..p : \E o \in Range(Overrides(g, ws[k])) : rules[x] = EditorRule(g, ws[k], o)
  /\ \A o \in Range(Overrides(g, ws[p])) : \E x \in 1..m : rules[x] = EditorRule(g, ws[p], o)

LEMMA RulesInOrder ==
  ASSUME NEW g \in Graphs, NEW c, NEW p \in 1..Len(InOrder(g, c))
  PROVE  \E m : OpensWith(g, InOrder(g, c), p, m, EditorRules(g, InOrder(g, c)))
<1> DEFINE ws == InOrder(g, c)
           n == Len(ws)
           ss == [i \in 1..n |-> RulesOfOne(g, ws[i])]
           tt == [i \in 1..p |-> ss[i]]
           rules == EditorRules(g, ws)
           X == RulesMadeOf(g, ws)
<1>1. n \in Nat /\ DOMAIN ws = 1..n
  <2> DEFINE T == GraphTransition(g)
  <2>1. ws \in Seq(T)
    BY InOrderIs
  <2> HIDE DEF T, ws
  <2> QED
    BY <2>1
<1>2. rules = FlattenSeq(ss) /\ ss \in [1..n -> Seq(X)]
  BY <1>1, EditorRulesAre
<1>0. p \in 1..n
  OBVIOUS
<1>3. \A i \in 1..n : Range(ss[i]) = {EditorRule(g, ws[i], o) : o \in Range(Overrides(g, ws[i]))}
  BY RulesOfOneAre
<1> HIDE DEF ws, n, ss, X, rules
<1>4. p \in 1..n /\ p \in Nat
  BY <1>0, <1>1
<1>5. PICK rest \in Seq(X) : rules = FlattenSeq(tt) \o rest
  <2>1. ss \in [1..n -> Seq(X)]
    BY <1>2
  <2>2. tt \in [1..p -> Seq(X)] /\ \A i \in 1..p : tt[i] = ss[i]
    <3>1. \A i \in 1..p : i \in 1..n
      BY <1>1, <1>4
    <3> QED
      BY <2>1, <3>1
  <2> HIDE DEF tt
  <2>3. \E rest \in Seq(X) : FlattenSeq(ss) = FlattenSeq(tt) \o rest
    BY <1>1, <1>4, <2>1, <2>2, FlatBegins
  <2> QED
    BY <1>2, <2>3
<1> DEFINE u == FlattenSeq(tt)
<1>6. u \in Seq(X) /\ Range(u) = UNION {Range(tt[i]) : i \in 1..p}
  <2>1. \A i \in 1..p : i \in 1..n
    BY <1>1, <1>4
  <2>2. tt \in [1..p -> Seq(X)]
    BY <1>2, <2>1
  <2> HIDE DEF tt
  <2> QED
    BY <1>4, <2>2, FlatMembers
<1>7. \A i \in 1..p : Range(tt[i]) = {EditorRule(g, ws[i], o) : o \in Range(Overrides(g, ws[i]))}
  BY <1>1, <1>3, <1>4
<1> HIDE DEF u, tt
<1>8. /\ Len(u) \in Nat /\ DOMAIN u = 1..Len(u) /\ Len(u) <= Len(rules)
      /\ \A x \in 1..Len(u) : rules[x] = u[x]
  <2>1. rest \in Seq(X) /\ rules = u \o rest
    BY <1>5 DEF u
  <2>2. /\ u \o rest \in Seq(X) /\ Len(u \o rest) = Len(u) + Len(rest)
        /\ \A i \in 1..(Len(u) + Len(rest)) : (u \o rest)[i] = IF i <= Len(u) THEN u[i] ELSE rest[i - Len(u)]
    BY <1>6, <2>1, ConcatProperties
  <2>3. Len(u) \in Nat /\ Len(rest) \in Nat /\ DOMAIN u = 1..Len(u)
    BY <1>6, <2>1
  <2> QED
    BY <2>1, <2>2, <2>3
<1>9. ASSUME NEW x \in 1..Len(u)
      PROVE  \E k \in 1..p : \E o \in Range(Overrides(g, ws[k])) : rules[x] = EditorRule(g, ws[k], o)
  <2>1. rules[x] \in Range(u)
    BY <1>8 DEF Range
  <2>2. PICK k \in 1..p : rules[x] \in Range(tt[k])
    BY <1>6, <2>1
  <2> QED
    BY <1>7, <2>2
<1>10. ASSUME NEW o \in Range(Overrides(g, ws[p]))
       PROVE  \E x \in 1..Len(u) : rules[x] = EditorRule(g, ws[p], o)
  <2>1. p \in 1..p
    BY <1>4
  <2>2. EditorRule(g, ws[p], o) \in Range(u)
    BY <1>6, <1>7, <2>1
  <2>3. PICK x \in 1..Len(u) : u[x] = EditorRule(g, ws[p], o)
    BY <1>8, <2>2 DEF Range
  <2> QED
    BY <1>8, <2>3
<1> QED
  BY <1>8, <1>9, <1>10 DEF rules, ws, OpensWith

LEMMA MinIs ==
  ASSUME NEW S \in SUBSET Nat, S # {}
  PROVE  Min(S) \in S /\ \A y \in S : Min(S) <= y
<1>1. \E x \in S : \A y \in S : x <= y
  BY LeastOf
<1> QED
  BY <1>1 DEF Min

LEMMA ConsumesFirst ==
  ASSUME Merging, Emission, Built, pc = "done",
         NEW c \in machine.graph.contexts \cap representatives, Emitting(c), ~Borrows(c),
         NEW i \in DOMAIN Discovered(machine.graph, c), NEW j \in DOMAIN Discovered(machine.graph, c),
         LET ts == Discovered(machine.graph, c) IN
         /\ Bound(ts[i]) /\ Bound(ts[j]) /\ Rivals(machine.graph, ts, i, j)
         /\ Unmistakable(ts[j], ts, c)
  PROVE  LET ts == Discovered(machine.graph, c) IN OfferAt(c, ts[i]) < OfferAt(c, ts[j])
<1> DEFINE g == machine.graph
           ts == Discovered(g, c)
           ws == InOrder(g, c)
           w == Sorted(g, c)
           rules == EditorRules(g, ws)
           offers == Offered(contexts[Own(c)])
           z(r) == Offer(Entry(r, c, TRUE))
<1>1. g \in Graphs /\ IsBuilt(g) /\ c \in labels /\ machine \in Machines
  <2>1. machine \in Machines
    BY DEF Merging
  <2> QED
    BY <2>1, BuiltOf, RepresentativesAre
<1>2. states[c].rules = rules
  <2>1. states[c] = BuiltState(g, c)
    BY <1>1 DEF IsBuilt
  <2> QED
    BY <2>1 DEF BuiltState
<1>3. Len(rules) \in Nat /\ DOMAIN rules = 1..Len(rules)
  <2>1. states[c].rules \in Seq(Transition)
    BY <1>1, StateTyped
  <2> DEFINE rs == states[c].rules
  <2> HIDE DEF rs, rules
  <2>2. rs \in Seq(Transition) /\ rs = rules
    BY <1>2, <2>1 DEF rs
  <2> QED
    BY <2>2
<1>4. offers = [k \in 1..Len(rules) |-> z(rules[k])]
  <2>1. offers = RulesOf(c)
    BY RulesStand DEF RulesSurvive
  <2>2. BaseEntries(c) = [k \in 1..Len(rules) |-> Entry(rules[k], c, TRUE)]
    BY <1>2, <1>3 DEF BaseEntries, Entries
  <2> HIDE DEF offers, rules
  <2> QED
    BY <1>3, <2>1, <2>2 DEF RulesOf
<1>5. /\ w \in Seq(1..Len(ts)) /\ Range(w) = 1..Len(ts)
      /\ ws = [k \in 1..Len(w) |-> ts[w[k]]]
      /\ Len(w) \in Nat /\ DOMAIN w = 1..Len(w) /\ Len(ws) = Len(w)
      /\ i \in 1..Len(ts) /\ j \in 1..Len(ts)
  <2> DEFINE T == GraphTransition(g)
  <2>1. ts \in Seq(T)
    BY <1>1, DiscoveredIs
  <2>2. w \in Seq(1..Len(ts)) /\ Range(w) = 1..Len(ts) /\ ws = [k \in 1..Len(w) |-> ts[w[k]]]
    BY <1>1, InOrderIs
  <2> HIDE DEF T, w, ws
  <2>3. DOMAIN ts = 1..Len(ts)
    BY <2>1
  <2>4. Len(w) \in Nat /\ DOMAIN w = 1..Len(w)
    BY <2>2
  <2>5. Len(ws) = Len(w)
    BY <2>2, <2>4
  <2> QED
    BY <2>2, <2>3, <2>4, <2>5
<1>6. IsOrdered(g, ts, w)
  BY <1>1, SortOrders
<1>7. /\ Bound(ts[i]) /\ Bound(ts[j]) /\ Rivals(g, ts, i, j)
      /\ Unmistakable(ts[j], ts, c)
  OBVIOUS
<1>8. ASSUME NEW t, Bound(t) PROVE Range(Overrides(g, t)) = {PlainOverride}
  <2> DEFINE S == {o \in Range(<<PlainOverride>>) : o.pattern # NoPattern \/ t.rule # 0}
             P == {PlainOverride}
  <2>1. Overrides(g, t) = Keep(<<PlainOverride>>, S)
    BY <1>8 DEF Overrides, Bound
  <2>2. Range(<<PlainOverride>>) = P
    BY DEF Range
  <2>3. S = P
    BY <1>8, <2>2 DEF Bound
  <2>4. <<PlainOverride>> \in Seq(P)
    OBVIOUS
  <2> HIDE DEF S, P
  <2>5. Range(Keep(<<PlainOverride>>, S)) = Range(<<PlainOverride>>) \cap S
    BY <2>4, KeepIs
  <2> QED
    BY <2>1, <2>2, <2>3, <2>5 DEF P
<1>9. \A t, o : Became(t, o, c) = z(EditorRule(g, t, o))
  BY DEF Became
<1> DEFINE At(t) == {k \in 1..Len(rules) : z(rules[k]) = Became(t, PlainOverride, c)}
<1>10. \A t : OfferAt(c, t) = Min(At(t))
  <2>1. DOMAIN offers = 1..Len(rules) /\ \A k \in 1..Len(rules) : offers[k] = z(rules[k])
    BY <1>4
  <2> SUFFICES ASSUME NEW t PROVE OfferAt(c, t) = Min(At(t))
    OBVIOUS
  <2>2. OfferAt(c, t) = Min({k \in DOMAIN offers : offers[k] = Became(t, PlainOverride, c)})
    BY DEF OfferAt
  <2> HIDE DEF offers, rules, z
  <2>3. {k \in DOMAIN offers : offers[k] = Became(t, PlainOverride, c)} = At(t)
    BY <2>1
  <2> QED
    BY <2>2, <2>3
<1> HIDE DEF g, ts, ws, w, rules, offers, z, At
<1>11. PICK p \in 1..Len(w) : w[p] = i
  BY <1>5 DEF Range
<1>12. PICK q \in 1..Len(w) : w[q] = j
  BY <1>5 DEF Range
<1>13. PICK m : OpensWith(g, ws, p, m, rules)
  <2>1. p \in 1..Len(ws)
    BY <1>5, <1>11
  <2> QED
    BY <1>1, <2>1, RulesInOrder DEF rules, ws
<1>14. m \in Nat /\ m <= Len(rules)
  BY <1>13 DEF OpensWith
<1>15. PICK y \in 1..m : rules[y] = EditorRule(g, ts[i], PlainOverride)
  <2>1. ws[p] = ts[i]
    BY <1>5, <1>11
  <2> QED
    BY <1>7, <1>8, <1>13, <2>1 DEF OpensWith
<1>16. y \in At(ts[i])
  <2>1. y \in 1..Len(rules)
    BY <1>3, <1>14
  <2> QED
    BY <1>9, <1>15, <2>1 DEF At
<1>17. At(ts[j]) # {}
  <2>1. q \in 1..Len(ws) /\ ws[q] = ts[j]
    BY <1>5, <1>12
  <2>2. PICK l : OpensWith(g, ws, q, l, rules)
    BY <1>1, <2>1, RulesInOrder DEF rules, ws
  <2>3. PICK x \in 1..l : rules[x] = EditorRule(g, ts[j], PlainOverride)
    BY <1>7, <1>8, <2>1, <2>2 DEF OpensWith
  <2>4. x \in 1..Len(rules)
    BY <1>3, <2>2 DEF OpensWith
  <2> QED
    BY <1>9, <2>3, <2>4 DEF At
<1>18. ASSUME NEW x \in At(ts[j]) PROVE x > m
  <2> SUFFICES ASSUME x <= m PROVE FALSE
    BY <1>3, <1>14 DEF At
  <2>1. x \in 1..m /\ z(rules[x]) = Became(ts[j], PlainOverride, c)
    BY <1>3, <1>14 DEF At
  <2>0. PICK k \in 1..p : \E o \in Range(Overrides(g, ws[k])) : rules[x] = EditorRule(g, ws[k], o)
    BY <1>13, <2>1 DEF OpensWith
  <2>2. PICK o \in Range(Overrides(g, ws[k])) : rules[x] = EditorRule(g, ws[k], o)
    BY <2>0
  <2> DEFINE t == ts[w[k]]
  <2>3. k \in 1..Len(w) /\ ws[k] = t /\ w[k] \in 1..Len(ts) /\ t \in Range(ts)
    <3>1. k \in 1..Len(w)
      BY <1>5, <1>11
    <3>2. ws[k] = t /\ w[k] \in 1..Len(ts)
      BY <1>5, <3>1
    <3>3. DOMAIN ts = 1..Len(ts)
      <4> DEFINE T == GraphTransition(g)
      <4>1. ts \in Seq(T)
        BY <1>1, DiscoveredIs DEF ts
      <4> HIDE DEF T
      <4> QED
        BY <4>1
    <3> QED
      BY <3>1, <3>2, <3>3 DEF Range
  <2>4. Became(ts[j], PlainOverride, c) = Became(t, o, c)
    BY <1>9, <2>1, <2>2, <2>3
  <2>5. t.token = ts[j].token /\ t.recovery
    <3>1. o \in Range(Overrides(g, t))
      BY <2>2, <2>3
    <3> HIDE DEF t
    <3> QED
      BY <1>7, <2>3, <2>4, <3>1 DEF Unmistakable, g
  <2>6. Rivals(g, ts, i, w[k])
    BY <1>7, <2>5 DEF Rivals
  <2>7. p < k
    BY <1>6, <1>11, <2>3, <2>6 DEF IsOrdered
  <2> QED
    BY <1>11, <2>7
<1>19. At(ts[i]) \in SUBSET Nat /\ At(ts[j]) \in SUBSET Nat
  BY DEF At
<1>20. Min(At(ts[i])) \in Nat /\ Min(At(ts[i])) <= y
  BY <1>16, <1>19, MinIs
<1>21. Min(At(ts[j])) \in At(ts[j]) /\ Min(At(ts[j])) \in Nat
  BY <1>17, <1>19, MinIs
<1>22. Min(At(ts[i])) < Min(At(ts[j]))
  BY <1>14, <1>15, <1>18, <1>20, <1>21
<1> QED
  BY <1>10, <1>22 DEF ts, g

(* Whatever the state graph (of at most InsertionBlock transitions to a     *)
(* context), the rule of a context that consumes a token is tried before    *)
(* the one that recovers at it: after sorting (EditorIRFromStateGraph),     *)
(* merging, branch points, shared lists, renaming and pruning               *)
(* (buildContextsMap).                                                      *)
THEOREM ConsumingStaysFirst == Spec => []ConsumingFirst
<1>1. ASSUME Merging, Emission PROVE ConsumingFirst
  <2> SUFFICES ASSUME Built, pc = "done",
                      NEW c \in machine.graph.contexts \cap representatives, Emitting(c), ~Borrows(c),
                      NEW i \in DOMAIN Discovered(machine.graph, c), NEW j \in DOMAIN Discovered(machine.graph, c),
                      LET ts == Discovered(machine.graph, c) IN
                      /\ ts[i].token = ts[j].token /\ Bound(ts[i]) /\ Bound(ts[j])
                      /\ ts[j].recovery /\ ~ts[i].recovery
                      /\ \A k \in 1..(i - 1) :
                           Priority(machine.graph, ts[k].token) = Priority(machine.graph, ts[i].token)
                             => ts[k].token = ts[i].token
                      /\ Unmistakable(ts[j], ts, c)
               PROVE  LET ts == Discovered(machine.graph, c) IN OfferAt(c, ts[i]) < OfferAt(c, ts[j])
    BY DEF ConsumingFirst
  <2> DEFINE ts == Discovered(machine.graph, c)
  <2>1. Bound(ts[i]) /\ Bound(ts[j]) /\ Rivals(machine.graph, ts, i, j) /\ Unmistakable(ts[j], ts, c)
    BY DEF Rivals
  <2> QED
    BY <1>1, <2>1, ConsumesFirst
<1>2. Merging /\ Emission => ConsumingFirst
  BY <1>1
<1> QED
  BY <1>2, EmissionAlways, PTL
=============================================================================
