--------------------------- MODULE SublimeStates ---------------------------
(***************************************************************************)
(* From the editor states to the contexts of a .sublime-syntax file        *)
(* (editor/sublime/syntax_generator.go, buildContextsMap): states that     *)
(* would be emitted alike are merged by partition refinement, their rules  *)
(* are turned into entries, rules with one match become branch points,     *)
(* equal lists are hoisted into a shared context, what main does not reach *)
(* is pruned, and a reference to a missing context is a panic.             *)
(***************************************************************************)
EXTENDS Naturals, FiniteSets, SequencesExt

CONSTANTS
  Main,      \* the label of the root state
  Prototype, \* the name of the context of ambient rules
  Order,     \* every label and lexer mode context, as sort.Strings has them
  Length,    \* how long each of them is
  Modes,     \* names lex__<mode>; the other names in Order label editor states
  NoState, NoMeta, NoForeign,
  Lexemes,   \* match, scope and captures of a rule
  Metas,     \* meta scopes
  Frames,    \* fallthrough pop, invalid fallback and include_prototype of a state
  Foreigns,  \* embedded machines: an id, and the scopes they are given
  Machines   \* the editor machines to emit

Names == Range(Order)
Labels == Names \ Modes

Operation == {"none", "push", "pop", "set", "embed"}

Transition ==
  [lexeme : Lexemes, op : Operation, targets : Seq(Labels), amount : Nat,
   foreign : Foreigns \cup {NoForeign},
   lexOp : {"none", "push", "pop", "set"}, lexModes : Seq(Modes), lexAmount : Nat]

EditorState ==
  [meta : Metas \cup {NoMeta}, frame : Frames,
   imm : Labels \cup {NoState}, rules : Seq(Transition)]

(* Targets may lack: the states of a machine need not be all that are referred to. *)
LanguageMachine(m) ==
  /\ Main \in DOMAIN m.states /\ DOMAIN m.states \subseteq Labels
  /\ m.states \in [DOMAIN m.states -> EditorState]
  /\ m.ambient \in Seq(Transition)
  /\ DOMAIN m.modes \subseteq Modes
  /\ m.modes \in [DOMAIN m.modes -> Seq(Transition)]
  /\ \A l \in DOMAIN m.modes : \A t \in Range(m.modes[l]) : t.op = "none"

ASSUME SublimeStatesAssumption ==
  /\ Prototype \notin Names
  /\ Main \in Labels
  /\ Modes \subseteq Names
  /\ Order \in Seq(Names) /\ IsInjective(Order)
  /\ NoState \notin Labels /\ NoMeta \notin Metas
  /\ NoForeign \notin Foreigns
  /\ Length \in [Names -> Nat]
  /\ \A f \in Foreigns \cup {NoForeign} : f = [id |-> f.id, dress |-> f.dress]
  /\ \A m \in Machines : LanguageMachine(m)

VARIABLES
  machine,  \* never changes
  pc,
  parts,    \* the partition; a part is named by its first label
  rep,      \* labelToRepresentative
  base,     \* baseEntriesByLabel, of the representatives
  contexts, \* contextsMap
  reached,  \* the contexts main and prototype lead to, so far
  queue     \* those of them whose entries are still to be looked at

vars == <<machine, pc, parts, rep, base, contexts, reached, queue>>

states == machine.states
labels == DOMAIN states

-----------------------------------------------------------------------------
(* Merging. *)

Position(l) == CHOOSE i \in 1..Len(Order) : Order[i] = l
First(ls) == CHOOSE l \in ls : \A k \in ls : Position(l) <= Position(k)

(* Labels with one signature make a part. *)
PartsBy(sig) == [l \in labels |-> First({k \in labels : sig[k] = sig[l]})]

LocalRule(t) == <<t.lexeme, t.op, t.amount, t.foreign>>

LocalSignature(l) ==
  LET s == states[l] IN
  [meta |-> s.meta, frame |-> s.frame, imm |-> s.imm # NoState,
   rules |-> [i \in DOMAIN s.rules |-> LocalRule(s.rules[i])]]

(* A label that is not in the map of partitions reads as the first one. *)
PartOf(p, l) == IF l \in labels THEN p[l] ELSE p[First(labels)]

ImmediatePart(l, p) ==
  IF states[l].imm = NoState THEN NoState ELSE PartOf(p, states[l].imm)

TargetParts(l, p) ==
  [i \in DOMAIN states[l].rules |->
    [k \in DOMAIN states[l].rules[i].targets |-> PartOf(p, states[l].rules[i].targets[k])]]

(* Mutant: targets are compared by their labels. *)
LabelledTargets(l, p) ==
  [local |-> LocalSignature(l), imm |-> ImmediatePart(l, p),
   targets |-> [i \in DOMAIN states[l].rules |-> states[l].rules[i].targets]]

FullSignature(l, p) ==
  [local |-> LocalSignature(l), imm |-> ImmediatePart(l, p), targets |-> TargetParts(l, p)]

(* Mutant: a round compares targets only and forgets what states do. *)
RefinedByTargets(p) ==
  PartsBy([l \in labels |-> [imm |-> ImmediatePart(l, p), targets |-> TargetParts(l, p)]])

Refined(p) == PartsBy([l \in labels |-> FullSignature(l, p)])

(* The root first, then the shorter, then the smaller label. *)
Preferred(l, k) ==
  \/ l = Main
  \/ k # Main /\ Length[l] < Length[k]
  \/ k # Main /\ Length[l] = Length[k] /\ Position(l) <= Position(k)

Representative(p, l) ==
  CHOOSE r \in {k \in labels : p[k] = p[l]} :
    \A k \in labels : p[k] = p[l] => Preferred(r, k)

representatives == Range(rep)

(* Labels without a representative stay as they are. *)
Renamed(l) == IF l \in labels THEN rep[l] ELSE l

-----------------------------------------------------------------------------
(* Entries.  Fresh names are made unique: here they are the place they come from. *)

Own(l) == <<l, 0, 0>>
SharedBy(l) == <<l, 0, 1>>
Arm(l, i, k) == <<l, i, k>>

Effect(op, names, amount, foreign) ==
  [op |-> op, names |-> names, amount |-> amount, foreign |-> foreign]

Owned(ls) == [k \in DOMAIN ls |-> Own(ls[k])]
Targets(t, remap) == [k \in DOMAIN t.targets |-> IF remap THEN Renamed(t.targets[k]) ELSE t.targets[k]]

(* The parser's operation; the lexer's only where the parser has none, so     *)
(* that a line never combines both: the docs say that it can (6.5), that a    *)
(* lexer pop adds to the parser's and a lexer set replaces it.                *)
ParserIdle(t, l, remap) == t.op = "none" \/ (t.op = "set" /\ Targets(t, remap) = <<l>>)

EffectOf(t, l, remap) ==
  IF ParserIdle(t, l, remap)
    THEN Effect(t.lexOp, Owned(t.lexModes), t.lexAmount, NoForeign)
    ELSE Effect(t.op, Owned(Targets(t, remap)), t.amount, t.foreign)

Entry(t, l, remap) == [kind |-> "match", lexeme |-> t.lexeme, effect |-> EffectOf(t, l, remap)]
Entries(ts, l, remap) == [i \in DOMAIN ts |-> Entry(ts[i], l, remap)]

StackKey(e) == <<e.effect.op, e.effect.names, e.effect.amount, e.effect.foreign.id>>

StartsRun(es, i) == i = 1 \/ es[i].lexeme # es[i - 1].lexeme
LastOfRun(es, i) ==
  CHOOSE j \in i..Len(es) :
    /\ j = Len(es) \/ StartsRun(es, j + 1)
    /\ \A k \in (i + 1)..j : ~StartsRun(es, k)
Run(es, i) == SubSeq(es, i, LastOfRun(es, i))

Branchable(run) == \E i, j \in DOMAIN run : StackKey(run[i]) # StackKey(run[j])
Branches(es) == {i \in DOMAIN es : StartsRun(es, i) /\ Branchable(Run(es, i))}

BranchPoint(es, l, i) ==
  [kind |-> "branch", lexeme |-> es[i].lexeme,
   arms |-> [k \in DOMAIN Run(es, i) |-> Arm(l, i, k)]]

(* Neighbours with one match and different effects become one branch point ... *)
Merged(es, l) ==
  FlattenSeq([i \in DOMAIN es |->
    CASE i \in Branches(es) -> <<BranchPoint(es, l, i)>>
      [] StartsRun(es, i) /\ i \notin Branches(es) -> Run(es, i)
      [] OTHER -> <<>>])

(* ... and a context for each arm. *)
ArmNames(es, l) ==
  UNION {{Arm(l, i, k) : k \in DOMAIN Run(es, i)} : i \in Branches(es)}

BaseEntries(l) == Entries(states[l].rules, l, TRUE)

(* Mutant: the contexts a rule leads to are left out. *)
SignatureByOperation(e) ==
  IF e.kind = "branch" THEN <<"branch", e.lexeme>> ELSE <<"match", e.lexeme, e.effect.op>>

(* What of an entry generateEntriesSignature writes. *)
EntrySignature(e) ==
  IF e.kind = "branch" THEN <<"branch", e.lexeme>> ELSE <<"match", e.lexeme, StackKey(e)>>
EntriesSignature(es) == [i \in DOMAIN es |-> EntrySignature(es[i])]

Sharing(l) ==
  {k \in representatives : EntriesSignature(base[k]) = EntriesSignature(base[l])}
IsShared(l) ==
  /\ base[l] # <<>>
  /\ Cardinality(Sharing(l)) >= (IF Len(base[l]) = 1 THEN 3 ELSE 2)

Body(l) ==
  IF IsShared(l) THEN <<[kind |-> "include", name |-> SharedBy(First(Sharing(l)))]>>
                 ELSE base[l]

(* Edges into a context, from the given states. *)
Incoming(sources, l) ==
  UNION {{[op |-> t.op, meta |-> states[k].meta] :
            t \in {u \in Range(states[k].rules) : l \in Range(Targets(u, TRUE))}} : k \in sources}

(* A scope is inherited if all ways in are sets from one other scope. *)
MetaScope(sources, l) ==
  LET m == states[l].meta
      ways == Incoming(sources, l)
      inherited == {s \in Metas \ {m} : ways = {[op |-> "set", meta |-> s]}}
  IN IF m = NoMeta THEN <<>> ELSE SetToSeq(inherited) \o <<m>>

Immediate(s) ==
  IF s.imm = NoState THEN <<>> ELSE <<[kind |-> "immediate", name |-> Own(Renamed(s.imm))]>>

Context(l) ==
  <<[kind |-> "meta", scope |-> MetaScope(representatives, l)]>>
    \o Body(l) \o Immediate(states[l]) \o <<[kind |-> "frame", frame |-> states[l].frame]>>

(* The sources of contexts: representatives, lexer modes, and the prototype if there is one. *)
Sources ==
  representatives \cup DOMAIN machine.modes
    \cup (IF machine.ambient = <<>> THEN {} ELSE {Prototype})

SourceEntries(l) ==
  CASE l = Prototype -> Entries(machine.ambient, l, TRUE)
    [] l \in Modes -> Entries(machine.modes[l], l, FALSE)
    [] OTHER -> BaseEntries(l)

ContextNames ==
  {Own(l) : l \in Sources}
    \cup {SharedBy(First(Sharing(l))) : l \in {r \in representatives : IsShared(r)}}
    \cup UNION {ArmNames(SourceEntries(l), l) : l \in Sources}

EntriesOf(n) ==
  CASE n[2] > 0 -> <<Run(SourceEntries(n[1]), n[2])[n[3]]>>
    [] n = SharedBy(n[1]) -> base[n[1]]
    [] n = Own(n[1]) /\ n[1] \in labels -> Context(n[1])
    [] OTHER -> Merged(SourceEntries(n[1]), n[1])

(* contextsMap before pruning *)
ContextsMap == [n \in ContextNames |-> EntriesOf(n)]

(* contextEntryReferencedContexts *)
References(e) ==
  CASE e.kind = "match" /\ e.effect.op \in {"push", "set"} -> Range(e.effect.names)
    [] e.kind = "branch" -> Range(e.arms)
    [] e.kind \in {"include", "immediate"} -> {e.name}
    [] OTHER -> {}

ReferencedBy(n) == UNION {References(e) : e \in Range(contexts[n])}

-----------------------------------------------------------------------------
Init ==
  /\ machine \in Machines
  /\ pc = "refine"
  /\ parts = PartsBy([l \in labels |-> LocalSignature(l)])
  /\ rep = <<>>
  /\ base = <<>>
  /\ contexts = <<>>
  /\ reached = {}
  /\ queue = {}

(* One round of the loop of minimizeStatesForEmission, and its return. *)
Refine ==
  /\ pc = "refine"
  /\ Refined(parts) # parts
  /\ parts' = Refined(parts)
  /\ UNCHANGED <<machine, pc, rep, base, contexts, reached, queue>>

(* Mutant: the loop is left without asking whether the round split a part. *)
SettleAtAnyRound ==
  /\ pc = "refine"
  /\ rep' = [l \in labels |-> Representative(parts, l)]
  /\ pc' = "merged"
  /\ UNCHANGED <<machine, parts, base, contexts, reached, queue>>

Settle ==
  /\ pc = "refine"
  /\ Refined(parts) = parts
  /\ rep' = [l \in labels |-> Representative(parts, l)]
  /\ pc' = "merged"
  /\ UNCHANGED <<machine, parts, base, contexts, reached, queue>>

BuildEntries ==
  /\ pc = "merged"
  /\ base' = [l \in representatives |-> Merged(BaseEntries(l), l)]
  /\ pc' = "emit"
  /\ UNCHANGED <<machine, parts, rep, contexts, reached, queue>>

Emit ==
  /\ pc = "emit"
  /\ contexts' = ContextsMap
  /\ reached' = {Own(Main), Own(Prototype)} \cap DOMAIN contexts'
  /\ queue' = reached'
  /\ pc' = "prune"
  /\ UNCHANGED <<machine, parts, rep, base>>

(* The order of the queue does not matter to what is found. *)
Visit(n) ==
  LET new == (ReferencedBy(n) \cap DOMAIN contexts) \ reached IN
  /\ pc = "prune"
  /\ queue' = (queue \ {n}) \cup new
  /\ reached' = reached \cup new
  /\ UNCHANGED <<machine, pc, parts, rep, base, contexts>>

Prune ==
  /\ pc = "prune"
  /\ queue = {}
  /\ contexts' = [n \in reached |-> contexts[n]]
  /\ pc' = "validate"
  /\ UNCHANGED <<machine, parts, rep, base, reached, queue>>

Validate ==
  /\ pc = "validate"
  /\ pc' = IF \A n \in DOMAIN contexts : ReferencedBy(n) \subseteq DOMAIN contexts
             THEN "done" ELSE "panic"
  /\ UNCHANGED <<machine, parts, rep, base, contexts, reached, queue>>

Ended == pc \in {"done", "panic"} /\ UNCHANGED vars

Next ==
  \/ Refine
  \/ Settle
  \/ BuildEntries
  \/ Emit
  \/ \E n \in queue : Visit(n)
  \/ Prune
  \/ Validate
  \/ Ended

Spec == Init /\ [][Next]_vars /\ WF_vars(Next)

-----------------------------------------------------------------------------
(* A round only splits parts: states once told apart are never merged      *)
(* again, although every round computes all parts from new signatures.     *)
OnlySplits ==
  [][\A l, k \in labels : parts'[l] = parts'[k] => parts[l] = parts[k]]_vars

(* When the loop ends, the states of a part have the same rules, and their *)
(* rules lead to the same parts: the representative stands for all, as far *)
(* as the parser goes.                                                     *)
MergedBehaveAlike ==
  pc # "refine" =>
    \A l, k \in labels : parts[l] = parts[k] =>
      /\ LocalSignature(l) = LocalSignature(k)
      /\ ImmediatePart(l, parts) = ImmediatePart(k, parts)
      /\ TargetParts(l, parts) = TargetParts(k, parts)

(* Following one reference of a state: a target of a rule, or for <<0, 0>> the immediate push. *)
Follow(l, move) ==
  IF l \notin labels THEN NoState
  ELSE IF move = <<0, 0>> THEN states[l].imm
  ELSE IF move[1] \in DOMAIN states[l].rules /\ move[2] \in DOMAIN states[l].rules[move[1]].targets
    THEN states[l].rules[move[1]].targets[move[2]]
  ELSE NoState

Distinct(l, k) ==
  IF l \in labels /\ k \in labels THEN LocalSignature(l) # LocalSignature(k) ELSE l # k

Moves ==
  {<<0, 0>>}
    \cup UNION {UNION {{<<i, k>> : k \in DOMAIN states[l].rules[i].targets} :
                        i \in DOMAIN states[l].rules} : l \in labels}

(* The pairs from which the same references lead to a distinct pair. *)
Apart ==
  LET moves == Moves
      all == labels \cup {NoState} \cup {Follow(l, m) : l \in labels, m \in moves}
      upTo[n \in 0..Cardinality(labels)] ==
        IF n = 0 THEN {p \in all \X all : Distinct(p[1], p[2])}
        ELSE LET found == upTo[n - 1] IN
             found \cup {p \in all \X all : \E m \in moves : <<Follow(p[1], m), Follow(p[2], m)>> \in found}
  IN upTo[Cardinality(labels)]

(* States are told apart only for a reason: the same references lead from  *)
(* them to states that are emitted differently.  Nothing that behaves      *)
(* alike is emitted twice.                                                 *)
NothingLeftToMerge ==
  pc = "merged" =>
    LET apart == Apart IN
    \A l, k \in labels : parts[l] # parts[k] => <<l, k>> \in apart

(* What the entries of a context do, in the order in which they are tried. *)
Offer(e) == <<e.lexeme, e.effect>>
OfferedBy(e) ==
  CASE e.kind = "match" -> <<Offer(e)>>
    [] e.kind = "branch" -> [k \in DOMAIN e.arms |-> Offer(contexts[e.arms[k]][1])]
    [] OTHER -> <<>>
Offered(es) ==
  FlattenSeq([i \in DOMAIN es |->
    IF es[i].kind = "include"
      THEN FlattenSeq([k \in DOMAIN contexts[es[i].name] |-> OfferedBy(contexts[es[i].name][k])])
      ELSE OfferedBy(es[i])])

(* The signature of a list leaves out the arms of its branch points and the scopes of embedded machines. *)
Hidden(l) ==
  \E e \in Range(base[l]) : e.kind = "branch" \/ e.effect.foreign.dress # NoForeign.dress

(* A state that is given the list of another one, and the signature hides something. *)
Borrows(l) == IsShared(l) /\ l # First(Sharing(l)) /\ (Hidden(l) \/ Hidden(First(Sharing(l))))

Emitting(l) == Own(l) \in DOMAIN contexts
RulesOf(l) == [i \in DOMAIN BaseEntries(l) |-> Offer(BaseEntries(l)[i])]

(* Through branch points, shared contexts, renaming and pruning, every     *)
(* context still has the rules of its state, in their order; except where  *)
(* it shares the list of another state and the signature hides part of     *)
(* one of the two.  A rule does here what its own entry says (EffectOf):   *)
(* where parser and lexer both have an operation, the lexer's is in no     *)
(* entry (applyLexModeStack), and this does not say that it is kept.       *)
RulesSurvive ==
  pc = "done" =>
    \A l \in representatives :
      Emitting(l) /\ ~Borrows(l) => Offered(contexts[Own(l)]) = RulesOf(l)

(* What a rule, or a state, refers to and the machine does not have. *)
Missing ==
  LET rules == (UNION {Range(states[l].rules) : l \in labels}) \cup Range(machine.ambient)
                 \cup (UNION {Range(machine.modes[m]) : m \in DOMAIN machine.modes})
  IN UNION ({Range(t.targets) \ labels : t \in rules}
            \cup {Range(t.lexModes) \ DOMAIN machine.modes : t \in rules}
            \cup {{states[l].imm} \ (labels \cup {NoState}) : l \in labels})

(* Merging, sharing and pruning never drop a context that is still         *)
(* referred to: the call panics only over a machine that lacks a state.    *)
PanicOnlyIfMissing == pc = "panic" => Missing # {}

(* Which scope a context inherits is looked up among the edges of the      *)
(* representatives only: it is the one that the edges of all states give.  *)
InheritedScopeSurvives ==
  (pc = "merged" /\ Missing = {}) =>
    \A l \in representatives : MetaScope(representatives, l) = MetaScope(labels, l)

(* What a state says, its rules and the scope it inherits, its context says; *)
(* of a lexer operation beside one of the parser nothing is said.            *)
ContextsSurvive == RulesSurvive /\ InheritedScopeSurvives

(* Both loops end.                                                         *)
EmissionEnds == <>(pc \in {"done", "panic"})
=============================================================================
