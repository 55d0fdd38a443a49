--------------------------- MODULE GrammarSafety ---------------------------
(***************************************************************************)
(* Stage 4 of the validation (dsl/semantics/validation.go): the checks that *)
(* read the lowered grammar, and the top-down parser whose behaviour they   *)
(* are about.  A package is the grammars of the rules by their label.  A    *)
(* node is a record: its kind, the children, the rule a reference names,    *)
(* the token, the upper bound of a repetition, the guard of a predict       *)
(* (offset -> token), and whether the node has a path, without which the    *)
(* analysis knows nothing of it.                                            *)
(*                                                                         *)
(* The checks are one action, processGrammarSafety.  A package without an   *)
(* error is then parsed: the parser of the library is modelled by how the   *)
(* checks describe it, on any input, and stops at MaxDepth frames.          *)
(***************************************************************************)
EXTENDS Integers, Sequences, FiniteSets

CONSTANTS Packages,   \* the lowered packages
          MaxDepth    \* the deepest descent

ASSUME MaxDepthAssumption == MaxDepth \in Nat \ {0}

Unbounded == -1
EOF == "EOF"
choiceOverlapMaxPrefixDepth == 4
choiceOverlapMaxPrefixEnumerations == 8192

VARIABLES pkg,     \* the package under validation
          checked, \* the stage has run
          told,    \* what it reported: the code, the rule it names and the node
          stack    \* the frames of the descent, the innermost last

vars == <<pkg, checked, told, stack>>

Smallest(S) == CHOOSE x \in S : \A y \in S : x <= y
Labels == DOMAIN pkg.Grammars
Finding(code, rule, node) == [code |-> code, rule |-> rule, at |-> node]
Arity(g) == Len(g.children)
-----------------------------------------------------------------------------
(* The analysis of the grammar library: which nodes derive the empty input  *)
(* and which tokens they start with.                                        *)
RECURSIVE NullableWith(_, _)
NullableWith(g, rules) ==
  CASE g.kind \in {"token", "nest"} -> FALSE
    [] g.kind = "reference" -> g.target \in rules
    [] g.kind = "optional"  -> TRUE
    [] g.kind = "repeat"    -> g.min = 0 \/ NullableWith(g.children[1], rules)
    [] g.kind = "concat"    -> \A i \in 1..Arity(g) : NullableWith(g.children[i], rules)
    [] OTHER                -> \E i \in 1..Arity(g) : NullableWith(g.children[i], rules)

NullableRules ==
  LET upTo[n \in 0..Cardinality(Labels)] ==
        IF n = 0 THEN {}
        ELSE {r \in Labels : NullableWith(pkg.Grammars[r], upTo[n - 1])}
  IN  upTo[Cardinality(Labels)]

Nullable(g) == NullableWith(g, NullableRules)

RECURSIVE FirstWith(_, _, _)
FirstWith(g, nullable, first) ==
  CASE g.kind \in {"token", "nest"} -> {g.token}
    [] g.kind = "reference" -> IF g.target \in Labels THEN first[g.target] ELSE {}
    [] g.kind = "concat"    ->
         UNION {FirstWith(g.children[i], nullable, first) :
                  i \in {j \in 1..Arity(g) :
                           \A k \in 1..(j - 1) : NullableWith(g.children[k], nullable)}}
    [] OTHER -> UNION {FirstWith(g.children[i], nullable, first) : i \in 1..Arity(g)}

FirstOfRules ==
  LET size == Cardinality(Labels)
      upTo[n \in 0..size] ==
        IF n = 0 THEN [r \in Labels |-> {}]
        ELSE [r \in Labels |-> FirstWith(pkg.Grammars[r], NullableRules, upTo[n - 1])]
  IN  upTo[size]

First(g) == FirstWith(g, NullableRules, FirstOfRules)

(* The lookaheads nearest to the root of a subtree, as the search in breadth *)
(* finds them.                                                               *)
RECURSIVE FirstLookaheads(_)
FirstLookaheads(level) ==
  IF level = <<>> THEN <<>>
  ELSE IF \E i \in 1..Len(level) : level[i].guard # <<>>
  THEN level[Smallest({i \in 1..Len(level) : level[i].guard # <<>>})].guard
  ELSE LET below[i \in 0..Len(level)] ==
             IF i = 0 THEN <<>> ELSE below[i - 1] \o level[i].children
       IN  FirstLookaheads(below[Len(level)])
-----------------------------------------------------------------------------
(* The nodes a check visits: the walk turns back at a node without a path. *)
RECURSIVE Walk(_)
Walk(g) ==
  IF ~g.path THEN {}
  ELSE {g} \cup UNION {Walk(g.children[i]) : i \in 1..Arity(g)}

Visited == UNION {Walk(pkg.Grammars[r]) : r \in Labels}

(* Mutant: the search goes on past every child. *)
MayBePassedAlways(g) == TRUE

(* A child that is not nullable ends the search to the left of a sequence,  *)
(* a child the analysis does not know lets it go on.                        *)
MayBePassed(g) == g.path => Nullable(g)

(* Mutant: the search looks at the first element of a sequence only. *)
RECURSIVE hasLeftRecursionFirstOnly(_, _, _)
hasLeftRecursionFirstOnly(g, visited, target) ==
  CASE g.kind \in {"token", "nest"} -> FALSE
    [] g.kind = "reference" ->
         \/ g.target = target
         \/ /\ g.target \notin visited
            /\ g.target \in Labels
            /\ hasLeftRecursionFirstOnly(pkg.Grammars[g.target], visited \cup {g.target}, target)
    [] g.kind = "choice" ->
         \E i \in 1..Arity(g) : hasLeftRecursionFirstOnly(g.children[i], visited, target)
    [] OTHER -> Arity(g) > 0 /\ hasLeftRecursionFirstOnly(g.children[1], visited, target)

RECURSIVE hasLeftRecursion(_, _, _)
hasLeftRecursion(g, visited, target) ==
  CASE g.kind \in {"token", "nest"} -> FALSE
    [] g.kind = "reference" ->
         \/ g.target = target
         \/ /\ g.target \notin visited
            /\ g.target \in Labels
            /\ hasLeftRecursion(pkg.Grammars[g.target], visited \cup {g.target}, target)
    [] g.kind = "concat" ->
         \E i \in 1..Arity(g) :
            /\ hasLeftRecursion(g.children[i], visited, target)
            /\ \A j \in 1..(i - 1) : MayBePassed(g.children[j])
    [] g.kind = "choice" ->
         \E i \in 1..Arity(g) : hasLeftRecursion(g.children[i], visited, target)
    [] OTHER -> Arity(g) > 0 /\ hasLeftRecursion(g.children[1], visited, target)

checkGrammarLeftRecursion ==
  {Finding("V_PAR005", r, pkg.Grammars[r]) :
     r \in {l \in Labels : hasLeftRecursion(pkg.Grammars[l], {}, l)}}

(* Mutant: the bounded repetitions are looked at, the unbounded are not. *)
checkGrammarBoundedOptional ==
  {Finding("V_PAR006", "", g) :
     g \in {n \in Visited : /\ n.kind = "repeat"
                            /\ n.max # Unbounded
                            /\ n.children[1].path
                            /\ Nullable(n.children[1])}}

checkGrammarUnboundedOptional ==
  {Finding("V_PAR006", "", g) :
     g \in {n \in Visited : /\ n.kind = "repeat"
                            /\ n.max = Unbounded
                            /\ n.children[1].path
                            /\ Nullable(n.children[1])}}

isSeparatorLeadingStarRepeat(g) ==
  /\ g.kind = "repeat"
  /\ g.max = Unbounded
  /\ g.children[1].kind = "concat"
  /\ Arity(g.children[1]) >= 2
  /\ g.children[1].children[1].kind = "token"

isOptionalOrNullableNode(g) == g.kind = "optional" \/ (g.path /\ Nullable(g))

checkGrammarSeparatorRepeatOptionalTail ==
  {Finding("V_PAR014", "", g) :
     g \in {n \in Visited :
              /\ n.kind = "concat"
              /\ \E i \in 1..(Arity(n) - 1) :
                    /\ isSeparatorLeadingStarRepeat(n.children[i])
                    /\ isOptionalOrNullableNode(n.children[i + 1])}}
-----------------------------------------------------------------------------
(* Ordered choice.  The guard of an arm is its own, or the nearest one below *)
(* the rule it refers to.                                                    *)
guardForChoiceArm(arm) ==
  IF arm.guard # <<>> THEN arm.guard
  ELSE IF arm.kind = "reference" /\ arm.target \in Labels
       THEN FirstLookaheads(<<pkg.Grammars[arm.target]>>)
       ELSE <<>>

GuardsMutuallyExclusive(g1, g2) ==
  \E i \in DOMAIN g1, j \in DOMAIN g2 :
     g1[i].offset = g2[j].offset /\ g1[i].expected # g2[j].expected

(* The arms the parser tries when peek(n) is the n-th token ahead. *)
Candidates(arms, peek(_)) ==
  {i \in 1..Len(arms) :
     /\ peek(0) \in First(arms[i])
     /\ LET guard == guardForChoiceArm(arms[i])
        IN  \A k \in DOMAIN guard : peek(guard[k].offset) = guard[k].expected}

maxGuardPeekOffsetForChoice(arms) ==
  LET offsets == UNION {LET guard == guardForChoiceArm(arms[i])
                        IN  {guard[k].offset : k \in DOMAIN guard} :
                          i \in {j \in 1..Len(arms) : arms[j].path}}
  IN  CHOOSE m \in offsets \cup {0} : \A o \in offsets : o <= m

extendedTokenAlphabet == pkg.TokensUsed \cup {EOF}

(* The length of the simulated prefixes: one past the furthest guard, cut   *)
(* at the depth, and again until their number is within the budget.         *)
PrefixLength(arms) ==
  LET wanted == maxGuardPeekOffsetForChoice(arms) + 1
      capped == IF wanted > choiceOverlapMaxPrefixDepth
                THEN choiceOverlapMaxPrefixDepth ELSE wanted
      fits == {k \in 1..capped :
                 k = 1 \/ Cardinality(extendedTokenAlphabet) ^ (k - 1)
                             <= choiceOverlapMaxPrefixEnumerations}
  IN  CHOOSE k \in fits : \A l \in fits : l <= k

(* Mutant: the prefixes end before the furthest guard. *)
classifyChoiceOverlapTooShort(arms, token) ==
  IF pkg.TokensUsed = {} \/ \E i \in 1..Len(arms) : ~arms[i].path THEN "legacy"
  ELSE IF Cardinality(Candidates(arms, LAMBDA n : IF n = 0 THEN token ELSE EOF)) > 1
       THEN "ordered" ELSE "resolved"

(* Every prefix that starts with the token is simulated, and ends in EOF.   *)
(* An arm the analysis does not know makes the dispatch fall back.          *)
classifyChoiceOverlapForToken(arms, token) ==
  LET K == PrefixLength(arms) IN
  IF pkg.TokensUsed = {} \/ \E i \in 1..Len(arms) : ~arms[i].path THEN "legacy"
  ELSE IF \E ahead \in [1..(K - 1) -> extendedTokenAlphabet] :
            Cardinality(Candidates(arms,
              LAMBDA n : IF n = 0 THEN token
                         ELSE IF n < K THEN ahead[n] ELSE EOF)) > 1
       THEN "ordered" ELSE "resolved"

(* A token is compared with the first arm that starts with it. *)
Overlaps(arms, token) ==
  LET known == {i \in 1..Len(arms) : arms[i].path /\ token \in First(arms[i])} IN
  \E i \in known :
     LET first == Smallest(known) IN
     /\ i # first
     /\ ~GuardsMutuallyExclusive(guardForChoiceArm(arms[first]), guardForChoiceArm(arms[i]))

analyzeChoiceNode(g) ==
  LET overlapping(class) ==
        {t \in UNION {First(g.children[i]) : i \in 1..Arity(g)} :
           Overlaps(g.children, t) /\ classifyChoiceOverlapForToken(g.children, t) = class}
  IN  (IF overlapping("ordered") = {} THEN {} ELSE {Finding("V_PAR015", "", g)})
      \cup (IF overlapping("legacy") = {} THEN {} ELSE {Finding("V_PAR009", "", g)})

checkGrammarChoiceConflicts ==
  UNION {analyzeChoiceNode(g) : g \in {n \in Visited : n.kind = "choice"}}

grammarUnwrapRef(g) ==
  IF g.kind = "reference" /\ g.target \in Labels THEN pkg.Grammars[g.target] ELSE g

concatTailNonNullable(g) ==
  \E i \in 2..Arity(g) : g.children[i].path => ~Nullable(g.children[i])

(* An earlier arm, or the rule it names, starts with the rule that a later  *)
(* arm is, and has to go on after it.                                       *)
PrefixTrap(longArm, shortArm) ==
  LET body == grammarUnwrapRef(longArm) IN
  /\ longArm.path /\ shortArm.path
  /\ shortArm.kind = "reference"
  /\ body.kind = "concat"
  /\ Arity(body) >= 2
  /\ body.children[1].kind = "reference"
  /\ body.children[1].target = shortArm.target
  /\ Arity(body) >= 3 \/ concatTailNonNullable(body)

checkGrammarChoicePrefixTraps ==
  {Finding("V_PAR016", "", g) :
     g \in {n \in Visited :
              /\ n.kind = "choice"
              /\ \E i, j \in 1..Arity(n) : i < j /\ PrefixTrap(n.children[i], n.children[j])}}
-----------------------------------------------------------------------------
Init ==
  /\ pkg \in Packages
  /\ checked = FALSE
  /\ told = {}
  /\ stack = <<>>

processGrammarSafety ==
  /\ ~checked
  /\ checked' = TRUE
  /\ told' = checkGrammarLeftRecursion
               \cup checkGrammarUnboundedOptional
               \cup checkGrammarSeparatorRepeatOptionalTail
               \cup checkGrammarChoiceConflicts
               \cup checkGrammarChoicePrefixTraps
  /\ UNCHANGED <<pkg, stack>>

Passed == checked /\ \A d \in told : d.code \notin {"V_PAR005", "V_PAR006", "V_PAR009"}
-----------------------------------------------------------------------------
(* The descent.  A frame holds its node, how far it is (the element, or the *)
(* iterations up to the least number), the rule if the node is its body,    *)
(* and whether a token was consumed since the frame was pushed (moved) and  *)
(* since its last iteration began (lap).                                    *)
Top == stack[Len(stack)]
Below == SubSeq(stack, 1, Len(stack) - 1)
Frame(g, rule) == [g |-> g, at |-> 0, rule |-> rule, moved |-> FALSE, lap |-> FALSE]
Consumed(frames) ==
  [i \in 1..Len(frames) |-> [frames[i] EXCEPT !.moved = TRUE, !.lap = TRUE]]

Running(kind) == Passed /\ stack # <<>> /\ Top.g.kind = kind
Enter(g, rule) ==
  /\ Len(stack) < MaxDepth
  /\ stack' = Append(Append(Below, [Top EXCEPT !.at = @ + 1]), Frame(g, rule))

Begin ==
  /\ Passed
  /\ stack = <<>>
  /\ stack' = <<Frame(pkg.Grammars["PROGRAM"], "PROGRAM")>>
  /\ UNCHANGED <<pkg, checked, told>>

MatchToken ==
  /\ Running("token")
  /\ stack' = Consumed(Below)
  /\ UNCHANGED <<pkg, checked, told>>

Call ==
  /\ Running("reference")
  /\ Top.at = 0
  /\ Top.g.target \in Labels
  /\ Enter(pkg.Grammars[Top.g.target], Top.g.target)
  /\ UNCHANGED <<pkg, checked, told>>

NextElement ==
  /\ Running("concat")
  /\ Top.at < Arity(Top.g)
  /\ Enter(Top.g.children[Top.at + 1], "")
  /\ UNCHANGED <<pkg, checked, told>>

TakeArm ==
  /\ Running("choice") \/ Running("optional")
  /\ Top.at = 0
  /\ \E i \in 1..Arity(Top.g) : Enter(Top.g.children[i], "")
  /\ UNCHANGED <<pkg, checked, told>>

Iterate ==
  /\ Running("repeat")
  /\ Top.g.max = Unbounded \/ Top.at < Top.g.max
  /\ Len(stack) < MaxDepth
  /\ stack' = Append(Append(Below, [Top EXCEPT !.at = IF Top.g.max = Unbounded /\ @ > Top.g.min
                                                      THEN @ ELSE @ + 1,
                                               !.lap = FALSE]),
                     Frame(Top.g.children[1], ""))
  /\ UNCHANGED <<pkg, checked, told>>

OpenNest ==
  /\ Running("nest")
  /\ Top.at = 0
  /\ Len(stack) < MaxDepth
  /\ stack' = Append(Consumed(Append(Below, [Top EXCEPT !.at = 1])),
                     Frame(Top.g.children[1], ""))
  /\ UNCHANGED <<pkg, checked, told>>

CloseNest ==
  /\ Running("nest")
  /\ Top.at = 1
  /\ stack' = Consumed(Below)
  /\ UNCHANGED <<pkg, checked, told>>

Finished(f) ==
  CASE f.g.kind = "concat" -> f.at = Arity(f.g)
    [] f.g.kind = "repeat" -> f.at >= f.g.min
    [] f.g.kind = "optional" -> TRUE
    [] f.g.kind \in {"choice", "reference"} -> f.at = 1
    [] OTHER -> FALSE

Leave ==
  /\ Passed
  /\ stack # <<>>
  /\ Finished(Top)
  /\ stack' = Below
  /\ UNCHANGED <<pkg, checked, told>>

Next == \/ processGrammarSafety
        \/ Begin \/ MatchToken \/ Call \/ NextElement \/ TakeArm
        \/ Iterate \/ OpenNest \/ CloseNest \/ Leave

Spec == Init /\ [][Next]_vars
-----------------------------------------------------------------------------
(* A grammar the stage lets pass is never parsed without end: no rule is    *)
(* entered again below itself before a token was consumed.                  *)
NoReentryWithoutInput ==
  \A i, j \in 1..Len(stack) :
     i < j /\ stack[i].rule # "" /\ stack[i].rule = stack[j].rule => stack[i].moved

(* ... and no unbounded repetition goes round without consuming anything.   *)
EveryLapConsumes ==
  stack # <<>> /\ Top.g.kind = "repeat" /\ Top.g.max = Unbounded /\ Top.at > 0 => Top.lap

(* The rules a node may call before any input is consumed.                  *)
RECURSIVE LeftCalls(_)
LeftCalls(g) ==
  CASE g.kind = "reference" -> {g.target}
    [] g.kind \in {"token", "nest"} -> {}
    [] g.kind = "concat" ->
         UNION {LeftCalls(g.children[i]) :
                  i \in {j \in 1..Arity(g) : \A k \in 1..(j - 1) : Nullable(g.children[k])}}
    [] OTHER -> UNION {LeftCalls(g.children[i]) : i \in 1..Arity(g)}

LeftClosure(r) ==
  LET step(S) == S \cup UNION {LeftCalls(pkg.Grammars[s]) : s \in S \cap Labels}
      upTo[n \in 0..Cardinality(Labels)] ==
        IF n = 0 THEN LeftCalls(pkg.Grammars[r]) ELSE step(upTo[n - 1])
  IN  upTo[Cardinality(Labels)]

AllKnown == \A g \in Visited : \A i \in 1..Arity(g) : g.children[i].path

(* The search with its path of visited rules reports exactly the rules that *)
(* reach themselves at their left edge, neither the rules that only lead to *)
(* such a rule nor fewer, when the analysis knows every node.               *)
LeftRecursionExact ==
  checked /\ AllKnown =>
    \A r \in Labels : Finding("V_PAR005", r, pkg.Grammars[r]) \in told <=> r \in LeftClosure(r)

(* For peeks that the simulation reaches: when the first arm that can start *)
(* with a token and a later one both match what is ahead, the author is     *)
(* told.                                                                    *)
Reached(g) == maxGuardPeekOffsetForChoice(g.children) < choiceOverlapMaxPrefixDepth
Peeks == [0..(choiceOverlapMaxPrefixDepth - 1) -> extendedTokenAlphabet]
Tried(g, p) == Candidates(g.children, LAMBDA n : IF n \in DOMAIN p THEN p[n] ELSE EOF)
OverlapTold(g) == \E d \in told : d.at = g /\ d.code \in {"V_PAR009", "V_PAR015"}

Choices == {g \in Visited : g.kind = "choice" /\ \A i \in 1..Arity(g) : g.children[i].path}

FirstArmOverlapTold ==
  checked /\ stack = <<>> =>
    \A g \in Choices : Reached(g) =>
      \A p \in Peeks :
        LET starts == {i \in 1..Arity(g) : p[0] \in First(g.children[i])} IN
        Cardinality(Tried(g, p)) > 1 /\ Smallest(starts) \in Tried(g, p) => OverlapTold(g)

=============================================================================
