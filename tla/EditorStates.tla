---------------------------- MODULE EditorStates ----------------------------
(***************************************************************************)
(* From the state graph of a grammar to the editor machine                 *)
(* (editor/ir_from_state_graph.go), and on to the contexts of the          *)
(* .sublime-syntax file: the machines that SublimeStates emits here are    *)
(* those built of Graphs.                                                  *)
(*                                                                         *)
(* A graph is what the lowering library, the lexer and the manifest hand   *)
(* over: contexts by their id (ids and labels are one name here), and for  *)
(* each its meta scope, its optional continuation, the body it pushes at   *)
(* once and its transitions in the order of discovery; the lexer rules;    *)
(* the overrides of a token; the tokens of the grammar.  A transition      *)
(* knows the rule its token is bound to, 0 for none (module LexReach).     *)
(***************************************************************************)
EXTENDS SublimeStates

CONSTANTS
  Graphs,
  InitialMode,     \* the lexer state INITIAL
  Seen(_, _, _),   \* the lexeme of a pattern, matched or looked "ahead" at, with a peek
  NoPeek, NoPattern

GraphTransition(g) ==
  [token : Nat, op : {"match", "push", "pop", "set", "sync", "sync ahead"},
   targets : Seq(g.contexts), amount : Nat, recovery : BOOLEAN, peek : STRING,
   rule : 0..Len(g.rules)]

(* Up to this length sort.SliceStable sorts by insertion.  A longer list is *)
(* sorted in blocks that are merged; as Precedes need not be transitive,    *)
(* the order may then be another one.                                       *)
InsertionBlock == 20

StateGraph(g) ==
  /\ Main \in g.contexts /\ g.contexts \subseteq Labels
  /\ \A c \in g.contexts : g.body[c] \in g.contexts \cup {NoState}
  /\ \A c \in DOMAIN g.transitions :
       g.transitions[c] \in Seq(GraphTransition(g)) /\ Len(g.transitions[c]) <= InsertionBlock
  /\ g.rules \in Seq(Range(g.rules))
  /\ \A i \in DOMAIN g.rules :
       /\ g.rules[i].priority \in Nat
       /\ Range(g.rules[i].lexModes) \subseteq {g.rules[j].mode : j \in DOMAIN g.rules}
  /\ \A t \in DOMAIN g.overrides :
       /\ g.overrides[t] \in Seq(Range(g.overrides[t]))
       /\ \A o \in Range(g.overrides[t]) :
            o.label \notin g.contexts /\ o.kind \in {"plain", "foreign", "delimited"}

ASSUME EditorStatesAssumption ==
  /\ InitialMode \in Modes
  /\ \A g \in Graphs : StateGraph(g)

(* The members of s that are in a set, in their order. *)
Keep(s, S) == FlattenSeq([i \in DOMAIN s |-> IF s[i] \in S THEN <<s[i]>> ELSE <<>>])

(* sort.SliceStable, by insertion: each element moves to the left as long   *)
(* as it comes before its neighbour; before is a set of pairs.              *)
StableSort(s, before) ==
  LET sorted[n \in 0..Len(s)] ==
        IF n = 0 THEN <<>>
        ELSE LET earlier == sorted[n - 1]
                 place == Max({0} \cup {k \in DOMAIN earlier : <<s[n], earlier[k]>> \notin before})
             IN InsertAt(earlier, place + 1, s[n])
  IN sorted[Len(s)]

RulesFor(g, token) == {i \in DOMAIN g.rules : g.rules[i].token = token}

(* tokenToPriority and tokenToRuleIndex *)
Priority(g, token) == Max({0} \cup {g.rules[i].priority : i \in RulesFor(g, token)})
RuleIndex(g, token) == Min(RulesFor(g, token))

(* Mutant: recovery is not put behind the transition that consumes. *)
PrecedesByGuard(g, a, b, order) ==
  IF Priority(g, a.token) # Priority(g, b.token) THEN Priority(g, a.token) > Priority(g, b.token)
  ELSE IF (a.peek = NoPeek) # (b.peek = NoPeek) THEN b.peek = NoPeek
  ELSE order

(* Whether a comes before b; order says if it was discovered before. *)
Precedes(g, a, b, order) ==
  IF Priority(g, a.token) # Priority(g, b.token) THEN Priority(g, a.token) > Priority(g, b.token)
  ELSE IF a.token = b.token /\ a.recovery # b.recovery THEN b.recovery
  ELSE IF (a.peek = NoPeek) # (b.peek = NoPeek) THEN b.peek = NoPeek
  ELSE order

Discovered(g, c) == IF c \in DOMAIN g.transitions THEN g.transitions[c] ELSE <<>>

Before(g, ts) ==
  {p \in (DOMAIN ts) \X (DOMAIN ts) : Precedes(g, ts[p[1]], ts[p[2]], p[1] < p[2])}

InOrder(g, c) ==
  LET ts == Discovered(g, c)
      indices == StableSort([i \in DOMAIN ts |-> i], Before(g, ts))
  IN [k \in DOMAIN indices |-> ts[indices[k]]]

StackOperation(op) ==
  CASE op = "match" -> "none"
    [] op \in {"pop", "sync", "sync ahead"} -> "pop"
    [] op \in {"push", "set"} -> op

PopAmount(t) == IF t.amount = 0 /\ StackOperation(t.op) = "pop" THEN 1 ELSE t.amount

(* What copyLexStackFromLexingRule copies; nothing without a rule. *)
LexOp(g, t) == IF t.rule = 0 THEN "none" ELSE g.rules[t.rule].lexOp
LexAmount(g, t) == IF LexOp(g, t) = "pop" THEN Max({1, g.rules[t.rule].lexAmount}) ELSE 0
LexModes(g, t) == IF LexOp(g, t) \in {"push", "set"} THEN g.rules[t.rule].lexModes ELSE <<>>

PlainOverride ==
  [pattern |-> NoPattern, kind |-> "plain", foreign |-> NoForeign,
   label |-> NoState, body |-> NoMeta, close |-> NoPattern]

(* The overrides that have something to match; no override is a plain one. *)
Overrides(g, t) ==
  LET os == IF t.token \in DOMAIN g.overrides THEN g.overrides[t.token] ELSE <<PlainOverride>>
  IN Keep(os, {o \in Range(os) : o.pattern # NoPattern \/ t.rule # 0})

EditorRule(g, t, o) ==
  LET pattern == IF o.pattern # NoPattern THEN o.pattern ELSE g.rules[t.rule].pattern
      plain == o.kind = "plain"
  IN [lexeme |-> Seen(pattern, IF plain /\ t.op = "sync ahead" THEN "ahead" ELSE "match", t.peek),
      op |-> CASE o.kind = "foreign" -> "embed" [] o.kind = "delimited" -> "push"
               [] plain -> StackOperation(t.op),
      targets |-> CASE o.kind = "foreign" -> <<>> [] o.kind = "delimited" -> <<o.label>>
                    [] plain -> t.targets,
      amount |-> IF plain THEN PopAmount(t) ELSE 0,
      foreign |-> IF o.kind = "foreign" THEN o.foreign ELSE NoForeign,
      lexOp |-> LexOp(g, t), lexModes |-> LexModes(g, t), lexAmount |-> LexAmount(g, t)]

EditorRules(g, ts) ==
  FlattenSeq([i \in DOMAIN ts |->
    LET os == Overrides(g, ts[i]) IN [k \in DOMAIN os |-> EditorRule(g, ts[i], os[k])]])

(* A rule that is tried everywhere, or in its mode, whatever the parser does. *)
Match(g, i) ==
  [token |-> g.rules[i].token, op |-> "match", targets |-> <<>>, amount |-> 0,
   recovery |-> FALSE, peek |-> NoPeek, rule |-> i]

(* The tokens of INITIAL that the grammar does not know, the best rule of each. *)
BestAmbient(g, token) ==
  LET candidates == {i \in RulesFor(g, token) : g.rules[i].mode = InitialMode}
      best == Max({g.rules[i].priority : i \in candidates})
  IN Min({i \in candidates : g.rules[i].priority = best})

AmbientTokens(g) ==
  {g.rules[i].token : i \in {j \in DOMAIN g.rules : g.rules[j].mode = InitialMode}} \ g.grammar

Ambient(g) ==
  {i \in DOMAIN g.rules : g.rules[i].token \in AmbientTokens(g) /\ i = BestAmbient(g, g.rules[i].token)}

Indices(g) == [i \in DOMAIN g.rules |-> i]
Pairs(g) == (DOMAIN g.rules) \X (DOMAIN g.rules)

AmbientMatches(g) ==
  LET before == {p \in Pairs(g) :
                   LET r == g.rules[p[1]] s == g.rules[p[2]] IN
                   \/ r.priority > s.priority
                   \/ r.priority = s.priority /\ RuleIndex(g, r.token) < RuleIndex(g, s.token)}
      sorted == StableSort(Keep(Indices(g), Ambient(g)), before)
  IN [k \in DOMAIN sorted |-> Match(g, sorted[k])]

(* Every rule of a mode, by priority and then by token. *)
ModeRules(g, mode) ==
  LET before == {p \in Pairs(g) :
                   LET r == g.rules[p[1]] s == g.rules[p[2]] IN
                   \/ r.priority > s.priority
                   \/ r.priority = s.priority /\ r.token < s.token}
      sorted == StableSort(Keep(Indices(g), {i \in DOMAIN g.rules : g.rules[i].mode = mode}), before)
  IN [k \in DOMAIN sorted |-> EditorRule(g, Match(g, sorted[k]), PlainOverride)]

(* The overrides that open a region, as they are met: a region is made by  *)
(* the first that names its label.                                         *)
Met(g) ==
  FlattenSeq([k \in DOMAIN Order |-> IF Order[k] \in g.contexts THEN InOrder(g, Order[k]) ELSE <<>>])
    \o AmbientMatches(g)

Openings(g) ==
  LET met == Met(g)
      os == FlattenSeq([k \in DOMAIN met |-> Overrides(g, met[k])])
  IN Keep(os, {o \in Range(os) : o.kind = "delimited"})

Region(o) ==
  [meta |-> o.body, frame |-> "plain", imm |-> NoState,
   rules |-> <<[lexeme |-> Seen(o.close, "match", NoPeek), op |-> "pop", targets |-> <<>>, amount |-> 1,
                foreign |-> NoForeign, lexOp |-> "none", lexModes |-> <<>>, lexAmount |-> 0]>>]

Regions(g) ==
  LET os == Openings(g) IN
  [l \in {o.label : o \in Range(os)} |->
    Region(os[Min({k \in DOMAIN os : os[k].label = l})])]

(* The frame of a state: what it does when none of its rules matches. *)
BuiltState(g, c) ==
  LET rules == EditorRules(g, InOrder(g, c)) IN
  [meta |-> g.meta[c],
   frame |-> IF c \in g.optional THEN "pops" ELSE IF rules # <<>> THEN "invalid" ELSE "plain",
   imm |-> g.body[c], rules |-> rules]

(* Mutant: the loop begins at the root instead of leaving there. *)
FromTheRoot(g) == {c \in g.contexts : Position(c) >= Position(Main)}

(* The loop that collects the states, sorted by their ids, leaves at the root. *)
UpToTheRoot(g) == {c \in g.contexts : Position(c) <= Position(Main)}

EditorIR(g) ==
  [graph |-> g,
   states |-> [l \in UpToTheRoot(g) \cup DOMAIN Regions(g) |->
                IF l \in g.contexts THEN BuiltState(g, l) ELSE Regions(g)[l]],
   ambient |-> EditorRules(g, AmbientMatches(g)),
   modes |-> [m \in {g.rules[i].mode : i \in DOMAIN g.rules} |-> ModeRules(g, m)]]

(* The machines of this module are those that are built of a graph. *)
ASSUME BuiltAssumption ==
  \A m \in Machines : "graph" \in DOMAIN m => m.graph \in Graphs /\ m = EditorIR(m.graph)

-----------------------------------------------------------------------------
Built == "graph" \in DOMAIN machine

(* The contexts a grammar can reach, as its own graph tells.               *)
Leads(g, c) ==
  ({g.body[c]} \ {NoState})
    \cup UNION {Range(t.targets) : t \in {u \in Range(InOrder(g, c)) :
                  u.op \in {"push", "set"} /\ \E o \in Range(Overrides(g, u)) : o.kind = "plain"}}

Reachable(g) ==
  LET upTo[n \in 0..Cardinality(g.contexts)] ==
        IF n = 0 THEN {Main} ELSE upTo[n - 1] \cup UNION {Leads(g, c) : c \in upTo[n - 1]}
  IN upTo[Cardinality(g.contexts)]

(* The context of a state need not lead where the state leads: the state   *)
(* has been merged into another although it leads to a context that the    *)
(* machine lacks, or its list is that of another state.                    *)
Misled(g, c) ==
  \/ c \notin representatives /\ Leads(g, c) \ labels # {}
  \/ Borrows(rep[c])

(* From the grammar to the file no context is lost in silence: if the file *)
(* is written, all that the grammar can reach has a context in it, as long *)
(* as no state on the way is misled; and the call panics only over a       *)
(* context of the grammar whose id sorts behind the root's                 *)
(* (EditorIRFromStateGraph, validateContextReferences).                    *)
EveryContextArrives ==
  /\ PanicOnlyIfMissing
  /\ Built /\ pc = "panic" =>
       \E c \in Missing \cap machine.graph.contexts : Position(c) > Position(Main)
  /\ Built /\ pc = "done" =>
       LET found == Reachable(machine.graph) IN
       (\A c \in found \cap labels : ~Misled(machine.graph, c))
         => \A c \in found : c \in labels /\ Own(rep[c]) \in DOMAIN contexts

(* What a transition became in a context, and where it is offered there, in the order of trials. *)
Became(t, o, c) == Offer(Entry(EditorRule(machine.graph, t, o), c, TRUE))
OfferAt(c, t) ==
  LET offers == Offered(contexts[Own(c)])
  IN Min({k \in DOMAIN offers : offers[k] = Became(t, PlainOverride, c)})

Bound(t) == t.rule # 0 /\ t.token \notin DOMAIN machine.graph.overrides

(* No other transition than those that recover at the token became the same. *)
Unmistakable(t, ts, c) ==
  \A u \in Range(ts) :
    Became(t, PlainOverride, c) \in {Became(u, o, c) : o \in Range(Overrides(machine.graph, u))}
      => u.token = t.token /\ u.recovery

(* "For the same token, preserve consuming parse transitions before        *)
(* recovery lookahead pops": in the file, the rule that consumes a token   *)
(* is tried before the one that recovers at it.  (Unless a transition of   *)
(* another token with the same priority was discovered before it: then the *)
(* three need not have an order, see the README.)                          *)
ConsumingFirst ==
  Built /\ pc = "done" =>
    \A c \in machine.graph.contexts \cap representatives : Emitting(c) /\ ~Borrows(c) =>
      LET ts == Discovered(machine.graph, c) IN
      \A i, j \in DOMAIN ts :
        /\ ts[i].token = ts[j].token /\ Bound(ts[i]) /\ Bound(ts[j])
        /\ ts[j].recovery /\ ~ts[i].recovery
        /\ \A k \in 1..(i - 1) :
             Priority(machine.graph, ts[k].token) = Priority(machine.graph, ts[i].token)
               => ts[k].token = ts[i].token
        /\ Unmistakable(ts[j], ts, c)
        => OfferAt(c, ts[i]) < OfferAt(c, ts[j])
=============================================================================
