-------------------------- MODULE PatternLowering --------------------------
(***************************************************************************)
(* The PATTERN and LEX sections of a .lspec file, from the checks of       *)
(* dsl/semantics/validation.go (stages 0 to 3) to the lexer rules that     *)
(* dsl/compiler.go builds of them.  A host file imports one module; the    *)
(* module is validated first, then the host, and only a host that passes   *)
(* is lowered.  Two walks go down the references of the patterns: the      *)
(* search for cycles of stage 1, which marks nothing but the names on its  *)
(* own path, and the compilation of a definition, which also remembers     *)
(* what it has compiled.  Nothing recovers from a panic of the lowering.   *)
(*                                                                         *)
(* A pattern expression is the sequence of its elements in the order in    *)
(* which the compiler meets them: concatenations, alternations, groups and *)
(* stars only pass on what their operands do.  What an element matches is  *)
(* left to the regular expression library.                                 *)
(***************************************************************************)
EXTENDS Integers, Sequences, FiniteSets

CONSTANTS
    Names,              \* names of patterns; their order is the sorting order
    Initial,            \* the lexer state INITIAL
    IntMax,             \* the largest number strconv.Atoi converts
    Files,              \* the pairs of a host and its module that are considered
    WarningsAsErrors

ASSUME NamesAssumption == Names \subseteq Nat
ASSUME IntMaxAssumption == IntMax \in Nat
ASSUME FilesAssumption ==
    \A f \in Files : f = <<f[1], f[2]>> /\ \A p \in {f[1], f[2]} :
        /\ DOMAIN p.defs \subseteq Names
        /\ \A n \in DOMAIN p.defs : DOMAIN p.defs[n] = 1 .. Len(p.defs[n]) /\ Len(p.defs[n]) \in Nat
        /\ DOMAIN p.groups = 1 .. Len(p.groups) /\ Len(p.groups) \in Nat
        /\ \A i \in DOMAIN p.groups :
              DOMAIN p.groups[i].rules = 1 .. Len(p.groups[i].rules) /\ Len(p.groups[i].rules) \in Nat

\* What a definition may be, by the grammar of the language: it is exported or
\* local, never both, and its elements are of the kinds listed below.
WellParsed(p) ==
    /\ IsFiniteSet(DOMAIN p.defs)
    /\ p.exports \subseteq DOMAIN p.defs \ p.locals
    /\ \A n \in DOMAIN p.defs : \A i \in DOMAIN p.defs[n] :
          LET e == p.defs[n][i]
          IN  /\ e.k \in {"text", "regex", "ref", "range", "not", "repeat"}
              /\ e.k = "not" => e.of \in {"chars", "range", "other"}
              /\ e.k = "repeat" => e.min \subseteq Int /\ e.max \subseteq Int
    /\ \A i \in DOMAIN p.groups : \A j \in DOMAIN p.groups[i].rules :
          LET r == p.groups[i].rules[j]
          IN  /\ r.how \in {"regex", "malformed", "ref", "using", "none"}
              /\ r.priority \subseteq Int /\ r.amount \subseteq Int

ASSUME DefinitionsAssumption == \A f \in Files : \A p \in {f[1], f[2]} : WellParsed(p)

(***************************************************************************)
(* A file is a record: library (its pragma), defs (name to expression),    *)
(* locals and exports (sets of names), groups (the state blocks of LEX:    *)
(* states and rules).  An element of an expression is one of               *)
(*   [k "text"], [k "regex", valid], [k "ref", to], [k "range", chars],    *)
(*   [k "not", of], [k "repeat", min, max]                                 *)
(* where a number that is not written is the empty set, and of is "chars", *)
(* "range" (of operands that are not characters) or "other".  A lexer rule *)
(* is [token, eof, how, name, priority, op, to, amount] with how one of    *)
(* "regex", "malformed" (a regex that cannot be converted), "ref",         *)
(* "using", "none".                                                        *)
(***************************************************************************)
VARIABLES
    host, module,
    phase,      \* what runs; "done", "failed" and "panic" are final
    subject,    \* the file it runs on
    todo,       \* names the walk still has to start from
    stack,      \* the names of the walk, outermost first, with positions
    cyclic,     \* per file, the names a cycle was reported for
    told,       \* per file, the codes that were reported
    compiled,   \* compiledByName of the pattern context
    table,      \* patternTable of each file's context
    group, at,  \* the state block and the rule that is built
    gathered,   \* the rules of this block
    rulesets,   \* the rules of each lexer state
    trouble     \* why the lowering panicked

file == <<host, module>>
walk == <<todo, stack>>
built == <<group, at, gathered, rulesets>>
vars == <<host, module, phase, subject, todo, stack, cyclic, told, compiled, table,
          group, at, gathered, rulesets, trouble>>

File(s) == IF s = "host" THEN host ELSE module
Pkg == File(subject)
Defined(p) == DOMAIN p.defs
ElementsOf(p) == UNION {{p.defs[n][i] : i \in DOMAIN p.defs[n]} : n \in Defined(p)}
RefsIn(p, n) == {p.defs[n][i].to : i \in {j \in DOMAIN p.defs[n] : p.defs[n][j].k = "ref"}}
RulesOf(g) == {g.rules[i] : i \in DOMAIN g.rules}
Groups(p) == {p.groups[i] : i \in DOMAIN p.groups}
LexRules(p) == UNION {RulesOf(g) : g \in Groups(p)}
StatesOf(g) == {g.states[i] : i \in DOMAIN g.states}
DefinedStates(p) == UNION {StatesOf(g) : g \in Groups(p)}

----------------------------------------------------------------------------
(* Stage 0: references. *)

UnresolvedPattern(p) ==
    /\ ~p.library
    /\ \/ \E n \in Defined(p) : ~(RefsIn(p, n) \subseteq Defined(p))
       \/ \E r \in LexRules(p) : r.how = "ref" /\ r.name \notin Defined(p)

LocalOutside(p) == \E r \in LexRules(p) : r.how = "ref" /\ r.name \in p.locals

\* Only the host imports something here.
UnresolvedUsing(p) ==
    \E r \in LexRules(p) : r.how = "using" /\ (subject = "module" \/ r.name \notin module.exports)

\* Mutant: lexer rules may name local patterns.
Stage0Leaky(p) ==
    {c \in {"V_PAT002", "V_IMP005"} :
        (c = "V_PAT002" /\ UnresolvedPattern(p)) \/ (c = "V_IMP005" /\ UnresolvedUsing(p))}
Stage0(p) ==
    {c \in {"V_PAT002", "V_PAT004", "V_IMP005"} :
        \/ c = "V_PAT002" /\ UnresolvedPattern(p)
        \/ c = "V_PAT004" /\ LocalOutside(p)
        \/ c = "V_IMP005" /\ UnresolvedUsing(p)}

----------------------------------------------------------------------------
(* Stage 1: what the references reach (the search for cycles is a walk).   *)

DependsOn(p, n) == IF n \in Defined(p) THEN RefsIn(p, n) \cap Defined(p) ELSE {}

Reached(p) ==
    LET step(S) == S \union UNION {DependsOn(p, n) : n \in S}
        level[k \in 0 .. Cardinality(Defined(p))] ==
            IF k = 0 THEN {r.name : r \in {x \in LexRules(p) : x.how = "ref"}}
                     ELSE step(level[k - 1])
    IN  level[Cardinality(Defined(p))]

Stage1Warnings(p) ==
    IF ~p.library /\ ~((Defined(p) \ p.locals) \subseteq Reached(p)) THEN {"V_PAT006"} ELSE {}

----------------------------------------------------------------------------
(* Stage 2: the lexer. *)

Mutates(r) == r.op \in {"push", "set"}
Targets(r) == {r.to[i] : i \in DOMAIN r.to}

\* A number that is too large is not an error here: it counts as not given.
ParsedInt(written) == {v \in written : v <= IntMax}
PriorityOf(r) == IF ParsedInt(r.priority) = {} THEN {0} ELSE ParsedInt(r.priority)
\* Mutant: only the kind of the operation is compared.
StackSignatureKindOnly(r) == IF r.op = "pop" THEN <<"pop", {1}>> ELSE <<r.op>>
StackSignature(r) ==
    IF r.op = "pop" THEN <<"pop", IF ParsedInt(r.amount) = {} THEN {1} ELSE ParsedInt(r.amount)>>
    ELSE IF Mutates(r) THEN <<r.op, r.to>> ELSE <<"none">>
PatternKey(r) == <<r.how, r.name>>

CollectedRules(p) == {r \in LexRules(p) : r.how # "none"}

StateDeclaredTwice(p) ==
    \E i, j \in DOMAIN p.groups : \E a \in DOMAIN p.groups[i].states, b \in DOMAIN p.groups[j].states :
        <<i, a>> # <<j, b>> /\ p.groups[i].states[a] = p.groups[j].states[b]

TokenInconsistent(p) ==
    \E r, s \in CollectedRules(p) :
        /\ r.token = s.token
        /\ <<PatternKey(r), StackSignature(r)>> # <<PatternKey(s), StackSignature(s)>>

UnreferencedState(p) ==
    /\ ~p.library
    /\ ~(DefinedStates(p) \subseteq {Initial} \union UNION {Targets(r) : r \in LexRules(p)})

\* Two rules of one block with one pattern; b may beat a by its priority.
SamePattern(p, beaten) ==
    \E g \in Groups(p) : \E a, b \in DOMAIN g.rules :
        /\ a # b /\ g.rules[a].how # "none"
        /\ PatternKey(g.rules[a]) = PatternKey(g.rules[b])
        /\ beaten => \E x \in PriorityOf(g.rules[a]), y \in PriorityOf(g.rules[b]) : x < y

Stage2(p) ==
    {c \in {"V_LEX013", "V_LEX007", "V_LEX012", "V_LEX010", "V_LEX008", "V_LEX011"} :
        \/ c = "V_LEX013" /\ StateDeclaredTwice(p)
        \/ c = "V_LEX007" /\ Initial \notin DefinedStates(p) /\ ~p.library
        \/ c = "V_LEX012" /\ \E r \in LexRules(p) : r.how = "none"
        \/ c = "V_LEX010" /\ \E r \in LexRules(p) : Mutates(r) /\ Targets(r) = {}
        \/ c = "V_LEX008"
           /\ \E r \in LexRules(p) : Mutates(r) /\ ~(Targets(r) \subseteq DefinedStates(p))
        \/ c = "V_LEX011" /\ TokenInconsistent(p)}

Stage2Warnings(p) ==
    {c \in {"V_LEX003", "V_LEX004", "V_LEX009"} :
        \/ c = "V_LEX003" /\ SamePattern(p, FALSE)
        \/ c = "V_LEX004" /\ SamePattern(p, TRUE)
        \/ c = "V_LEX009" /\ UnreferencedState(p)}

----------------------------------------------------------------------------
(* Stage 3: negations and repetitions. *)

BoundsWrong(e) ==
    \/ e.min = {} /\ e.max = {}
    \/ \E a \in ParsedInt(e.min) \union ParsedInt(e.max) : a < 0
    \/ \E a \in ParsedInt(e.min), b \in ParsedInt(e.max) : a > b

\* A range is allowed whatever its operands are: they are not looked at.
NegationWrong(e) == e.of = "other"

Stage3(p) ==
    {c \in {"V_PAT007", "V_REP001"} :
        \/ c = "V_PAT007" /\ \E e \in ElementsOf(p) : e.k = "not" /\ NegationWrong(e)
        \/ c = "V_REP001" /\ \E e \in ElementsOf(p) : e.k = "repeat" /\ BoundsWrong(e)}

Warnings == {"V_PAT006", "V_LEX003", "V_LEX004", "V_LEX009"}
Fails(codes) == codes \ Warnings # {} \/ (WarningsAsErrors /\ codes # {})

----------------------------------------------------------------------------
Init ==
    /\ \E f \in Files : host = f[1] /\ module = f[2]
    /\ phase = "symbols" /\ subject = "module"
    /\ todo = {} /\ stack = <<>>
    /\ cyclic = [s \in {"host", "module"} |-> {}]
    /\ told = [s \in {"host", "module"} |-> {}]
    /\ compiled = {} /\ table = [s \in {"host", "module"} |-> {}]
    /\ group = 1 /\ at = 1 /\ gathered = <<>> /\ rulesets = <<>>
    /\ trouble = "none"

Top == stack[Len(stack)]
OnPath == {stack[i].name : i \in DOMAIN stack}
AtEnd == Top.pos > Len(Pkg.defs[Top.name])
Element == Pkg.defs[Top.name][Top.pos]
Enter(n) == stack' = Append(stack, [name |-> n, pos |-> 1])
Advanced(st) == IF st = <<>> THEN <<>> ELSE [st EXCEPT ![Len(st)].pos = @ + 1]
Leave == Advanced(SubSeq(stack, 1, Len(stack) - 1))

SymbolBinding ==
    /\ phase = "symbols"
    /\ told' = [told EXCEPT ![subject] = Stage0(Pkg) \union Stage1Warnings(Pkg)]
    /\ phase' = "cycles" /\ todo' = Defined(Pkg)
    /\ UNCHANGED <<file, subject, stack, cyclic, compiled, table, built, trouble>>

----------------------------------------------------------------------------
(* findCycleInPatternDeps, from each name in the order of a map. *)

WalkFrom(n) ==
    /\ phase = "cycles" /\ stack = <<>> /\ n \in todo
    /\ Enter(n)
    /\ UNCHANGED <<file, phase, subject, todo, cyclic, told, compiled, table, built, trouble>>

Walking == phase = "cycles" /\ stack # <<>>
Followed == Element.k = "ref" /\ Element.to \in Defined(Pkg)

WalkPast ==
    /\ Walking /\ ~AtEnd
    /\ ~Followed
    /\ stack' = Advanced(stack)
    /\ UNCHANGED <<file, phase, subject, todo, cyclic, told, compiled, table, built, trouble>>

WalkInto ==
    /\ Walking /\ ~AtEnd
    /\ Followed /\ Element.to \notin OnPath
    /\ Enter(Element.to)
    /\ UNCHANGED <<file, phase, subject, todo, cyclic, told, compiled, table, built, trouble>>

\* The walk ends here, and the name it started from is the one that is reported.
\* Mutant: the name that closes the cycle is reported instead of the start.
CycleFoundElsewhere ==
    /\ Walking /\ ~AtEnd /\ Followed /\ Element.to \in OnPath
    /\ cyclic' = [cyclic EXCEPT ![subject] = @ \union {Element.to}]
    /\ todo' = todo \ {stack[1].name} /\ stack' = <<>>
    /\ UNCHANGED <<file, phase, subject, told, compiled, table, built, trouble>>
CycleFound ==
    /\ Walking /\ ~AtEnd
    /\ Followed /\ Element.to \in OnPath
    /\ cyclic' = [cyclic EXCEPT ![subject] = @ \union {stack[1].name}]
    /\ todo' = todo \ {stack[1].name} /\ stack' = <<>>
    /\ UNCHANGED <<file, phase, subject, told, compiled, table, built, trouble>>

\* Mutant: a walk without a cycle is not crossed off.
WalkBackAgain ==
    /\ Walking /\ AtEnd /\ stack' = Leave
    /\ UNCHANGED <<file, phase, subject, todo, cyclic, told, compiled, table, built, trouble>>
WalkBack ==
    /\ Walking /\ AtEnd
    /\ stack' = Leave
    /\ todo' = IF Len(stack) = 1 THEN todo \ {Top.name} ELSE todo
    /\ UNCHANGED <<file, phase, subject, cyclic, told, compiled, table, built, trouble>>

WalksEnd ==
    /\ phase = "cycles" /\ stack = <<>> /\ todo = {}
    /\ phase' = "checks"
    /\ UNCHANGED <<file, subject, walk, cyclic, told, compiled, table, built, trouble>>

AllCodes ==
    told[subject] \union (IF cyclic[subject] = {} THEN {} ELSE {"V_PAT005"})
        \union Stage2(Pkg) \union Stage2Warnings(Pkg) \union Stage3(Pkg)

\* Stages 2 and 3, and what the entries of all stages mean for the compilation.
ChecksFail ==
    /\ phase = "checks" /\ Fails(AllCodes)
    /\ told' = [told EXCEPT ![subject] = AllCodes]
    /\ phase' = "failed"
    /\ UNCHANGED <<file, subject, walk, cyclic, compiled, table, built, trouble>>

ModulePasses ==
    /\ phase = "checks" /\ subject = "module" /\ ~Fails(AllCodes)
    /\ told' = [told EXCEPT ![subject] = AllCodes]
    /\ phase' = "symbols" /\ subject' = "host"
    /\ UNCHANGED <<file, walk, cyclic, compiled, table, built, trouble>>

HostPasses ==
    /\ phase = "checks" /\ subject = "host" /\ ~Fails(AllCodes)
    /\ told' = [told EXCEPT ![subject] = AllCodes]
    /\ phase' = "patterns" /\ todo' = Defined(host)
    /\ UNCHANGED <<file, subject, stack, cyclic, compiled, table, built, trouble>>

----------------------------------------------------------------------------
(* compilePatterns: the definitions of one file in sorted order. *)

Panic(why) == phase' = "panic" /\ trouble' = why

Lowering == phase = "patterns"

\* A definition that is there goes to the table, unless it is local.
NextDefinition ==
    /\ Lowering /\ stack = <<>> /\ todo # {}
    /\ LET n == CHOOSE x \in todo : \A y \in todo : x <= y
       IN  IF n \in compiled
           THEN /\ todo' = todo \ {n}
                /\ table' = [table EXCEPT ![subject] = @ \union ({n} \ Pkg.locals)]
                /\ stack' = stack
           ELSE Enter(n) /\ UNCHANGED <<todo, table>>
    /\ UNCHANGED <<file, phase, subject, cyclic, told, compiled, built, trouble>>

RangeCompiles(e) == e.chars
NegationCompiles(e) == e.of = "chars"
RepetitionCompiles(e) == \A v \in e.min \union e.max : v <= IntMax

Compilable(e) ==
    CASE e.k = "text" -> TRUE
      [] e.k = "regex" -> e.valid
      [] e.k = "range" -> RangeCompiles(e)
      [] e.k = "not" -> NegationCompiles(e)
      [] e.k = "repeat" -> RepetitionCompiles(e)

CompileElement ==
    /\ Lowering /\ stack # <<>> /\ ~AtEnd
    /\ Element.k # "ref" /\ Compilable(Element)
    /\ stack' = Advanced(stack)
    /\ UNCHANGED <<file, phase, subject, todo, cyclic, told, compiled, table, built, trouble>>

ElementPanics ==
    /\ Lowering /\ stack # <<>> /\ ~AtEnd
    /\ Element.k # "ref" /\ ~Compilable(Element)
    /\ Panic("element")
    /\ UNCHANGED <<file, subject, walk, cyclic, told, compiled, table, built>>

Referable == Element.to \in Defined(Pkg) /\ (Element.to \in compiled \/ Element.to \notin OnPath)

CompileReference ==
    /\ Lowering /\ stack # <<>> /\ ~AtEnd
    /\ Element.k = "ref" /\ Referable
    /\ IF Element.to \in compiled THEN stack' = Advanced(stack) ELSE Enter(Element.to)
    /\ UNCHANGED <<file, phase, subject, todo, cyclic, told, compiled, table, built, trouble>>

ReferencePanics ==
    /\ Lowering /\ stack # <<>> /\ ~AtEnd
    /\ Element.k = "ref" /\ ~Referable
    /\ Panic(IF Element.to \in Defined(Pkg) THEN "cyclic" ELSE "unresolved")
    /\ UNCHANGED <<file, subject, walk, cyclic, told, compiled, table, built>>

DefinitionCompiled ==
    /\ Lowering /\ stack # <<>> /\ AtEnd
    /\ compiled' = compiled \union {Top.name}
    /\ stack' = Leave
    /\ UNCHANGED <<file, phase, subject, todo, cyclic, told, table, built, trouble>>

\* The host goes on to its lexer rules, a module back to the rule that uses it.
PatternsCompiled ==
    /\ Lowering /\ stack = <<>> /\ todo = {}
    /\ compiled' = {} /\ phase' = "rules"
    /\ UNCHANGED <<file, subject, walk, cyclic, told, table, built, trouble>>

----------------------------------------------------------------------------
(* compileLexerSpec: the rules of a block are built once, for all its      *)
(* states.                                                                 *)

Rule == host.groups[group].rules[at]
InBlock == phase = "rules" /\ group <= Len(host.groups) /\ at <= Len(host.groups[group].rules)
PriorityFits == \A v \in Rule.priority : v <= IntMax
Numbers(r) == r.priority \union (IF r.op = "pop" THEN r.amount ELSE {})

NumbersFit == \A v \in Numbers(Rule) : v <= IntMax

SkipEOF ==
    /\ InBlock /\ Rule.eof
    /\ at' = at + 1
    /\ UNCHANGED <<file, phase, subject, walk, cyclic, told, compiled, table, group, gathered, rulesets, trouble>>

\* extractLexStackMutation: a pop that gives no amount pops one state.
StackOp(r) ==
    CASE r.op = "pop" -> [kind |-> "pop", states |-> <<>>, amount |-> IF r.amount = {} THEN {1} ELSE r.amount]
      [] Mutates(r) -> [kind |-> r.op, states |-> r.to, amount |-> {}]
      [] OTHER -> [kind |-> "none", states |-> <<>>, amount |-> {}]

LexerRule(r) == [token |-> r.token, how |-> r.how, name |-> r.name, op |-> StackOp(r)]

Gather ==
    /\ gathered' = Append(gathered, LexerRule(Rule))
    /\ at' = at + 1

\* The module of a using rule is compiled anew for every rule.
ModuleNeeded == Rule.how = "using" /\ subject = "host" /\ Rule.name \in module.exports

CompileModule ==
    /\ InBlock /\ ~Rule.eof /\ ModuleNeeded /\ PriorityFits
    /\ phase' = "patterns" /\ subject' = "module" /\ todo' = Defined(module)
    /\ table' = [table EXCEPT !["module"] = {}]
    /\ UNCHANGED <<file, stack, cyclic, told, compiled, built, trouble>>

PatternAtHand ==
    \/ Rule.how = "regex"
    \/ Rule.how = "ref" /\ Rule.name \in table["host"]
    \/ Rule.how = "using" /\ subject = "module" /\ Rule.name \in table["module"]

constructLexRule ==
    /\ InBlock /\ ~Rule.eof /\ ~ModuleNeeded
    /\ PatternAtHand /\ NumbersFit
    /\ Gather
    /\ subject' = "host"
    /\ UNCHANGED <<file, phase, walk, cyclic, told, compiled, table, group, rulesets, trouble>>

Buildable == PriorityFits /\ (ModuleNeeded \/ (PatternAtHand /\ NumbersFit))

RulePanics ==
    /\ InBlock /\ ~Rule.eof
    /\ ~Buildable
    /\ Panic(IF PriorityFits /\ ~PatternAtHand THEN "unresolved" ELSE "number")
    /\ UNCHANGED <<file, subject, walk, cyclic, told, compiled, table, built>>

WithRuleset ==
    /\ phase = "rules" /\ group <= Len(host.groups) /\ at > Len(host.groups[group].rules)
    /\ rulesets' = [s \in DOMAIN rulesets \union StatesOf(host.groups[group]) |->
                       IF s \in StatesOf(host.groups[group]) THEN gathered ELSE rulesets[s]]
    /\ group' = group + 1 /\ at' = 1 /\ gathered' = <<>>
    /\ UNCHANGED <<file, phase, subject, walk, cyclic, told, compiled, table, trouble>>

LexerCompiled ==
    /\ phase = "rules" /\ group > Len(host.groups)
    /\ phase' = "done"
    /\ UNCHANGED <<file, subject, walk, cyclic, told, compiled, table, built, trouble>>

Next ==
    \/ SymbolBinding \/ \E n \in Names : WalkFrom(n)
    \/ WalkPast \/ WalkInto \/ CycleFound \/ WalkBack \/ WalksEnd
    \/ ChecksFail \/ ModulePasses \/ HostPasses
    \/ NextDefinition \/ CompileElement \/ ElementPanics
    \/ CompileReference \/ ReferencePanics \/ DefinitionCompiled \/ PatternsCompiled
    \/ SkipEOF \/ CompileModule \/ constructLexRule \/ RulePanics
    \/ WithRuleset \/ LexerCompiled

\* One goroutine runs to the end of what it has begun.
Spec == Init /\ [][Next]_vars /\ WF_vars(Next)

----------------------------------------------------------------------------
(* Properties.  Paths are sequences of names, no longer than they need be. *)

Path(p, st) == \A i \in 1 .. Len(st) - 1 : st[i + 1] \in DependsOn(p, st[i])
PathFrom(p, a, b) ==
    \E k \in 2 .. Cardinality(Defined(p)) + 1 : \E st \in [1 .. k -> Defined(p)] :
        st[1] = a /\ st[k] = b /\ Path(p, st)
ReachesCycle(p, n) == \E m \in Defined(p) : PathFrom(p, m, m) /\ (n = m \/ PathFrom(p, n, m))

\* A path from n that comes back to one of its own names.
CycleFrom(p, n) ==
    \E st \in Seq(Names) : \E i \in 1 .. Len(st) :
        st[1] = n /\ Path(p, st) /\ st[i] \in DependsOn(p, st[Len(st)])

\* Whenever a cycle is reported, by stage 1 or by the panic of the lowering,
\* there is one (findCycleInPatternDeps, compilePatternDefinitionByName).
CyclesAreReal ==
    /\ \A s \in {"host", "module"} : \A n \in cyclic[s] : CycleFrom(File(s), n)
    /\ phase = "panic" /\ trouble = "cyclic" => \E n \in Names : CycleFrom(Pkg, n)

\* Stage 1 reports a name exactly when a cycle of patterns can be reached from
\* it, although its walk marks nothing but its own path and stops at the first
\* cycle (findCycleInPatternDeps).
CyclesToldExactly ==
    phase = "checks" => cyclic[subject] = {n \in Defined(Pkg) : ReachesCycle(Pkg, n)}

\* What the checks let through and the lowering cannot take.
Overlooked(e) ==
    CASE e.k = "regex" -> ~e.valid
      [] e.k = "range" -> ~e.chars
      [] e.k = "not" -> e.of = "range"
      [] e.k = "repeat" -> \E v \in e.min \union e.max : v > IntMax
      [] e.k = "ref" -> FALSE
      [] e.k = "text" -> FALSE
HasGap(p) ==
    \/ \E e \in ElementsOf(p) : Overlooked(e)
    \/ \E r \in LexRules(p) : r.how = "malformed" \/ \E v \in Numbers(r) : v > IntMax
    \/ p.library /\ \/ \E n \in Defined(p) : ~(RefsIn(p, n) \subseteq Defined(p))
                    \/ \E r \in LexRules(p) : r.how = "ref" /\ r.name \notin Defined(p)

\* A file that passes the checks brings the lowering to a panic only with a
\* range of something else than characters, a malformed regular expression, a
\* number that does not fit, or a name that a library leaves open: cycles,
\* unknown, local and missing patterns are all caught before
\* (compilePatternDefinitionByName, constructLexRule).
OnlyGapsPanic == phase = "panic" => HasGap(host) \/ HasGap(module)

\* All states of the compiled lexer agree on what a token is and what it does
\* to the stack, and every state a rule goes to has rules
\* (checkLexTokenConsistencyAcrossStates against compileLexerSpec).
LexersAgree ==
    phase = "done" =>
        \A s, t \in DOMAIN rulesets : \A i \in DOMAIN rulesets[s], j \in DOMAIN rulesets[t] :
            /\ rulesets[s][i].token = rulesets[t][j].token => rulesets[s][i] = rulesets[t][j]
            /\ \A k \in DOMAIN rulesets[s][i].op.states : rulesets[s][i].op.states[k] \in DOMAIN rulesets

\* The walks come to an end although the one of stage 1 remembers nothing, and
\* so does the compilation (WF: one goroutine, no step waits).
LoweringEnds == <>(phase \in {"done", "failed", "panic"})

=============================================================================
