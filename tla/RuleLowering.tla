---------------------------- MODULE RuleLowering ----------------------------
(***************************************************************************)
(* From a parsed host file and its import table to the rule registry the   *)
(* parser runs on: stages 0 and 1 of every module and of the host          *)
(* (ModuleChecks), the symbol table (compiled_symbol_table.go) and the     *)
(* lowering of the PARSE and PRATT sections (dsl/compiler.go,              *)
(* template_compile.go).                                                   *)
(*                                                                         *)
(* The lowering takes the rules of the host in the order of a Go map.  A   *)
(* rule of a module is not lowered on its own: it is compiled wherever it  *)
(* is used, in the environment of its module and under the import alias.   *)
(* The stack holds the rules, templates and embedded programs whose        *)
(* compilation has begun; a panic of the compiler is final.                *)
(*                                                                         *)
(* Labels are tuples: <<"", rule>> for a rule of the host, <<alias, rule>> *)
(* for a rule reached by name inside a module (alias::rule), and           *)
(* <<rule, role, symbol, n>> for what a using or an embed defines          *)
(* ("<rule> IMPORTED_RULE_<symbol> <n>").  Tokens of the compiled tables   *)
(* are pairs: <<"", token>>, or <<alias, token>> for alias__token.         *)
(***************************************************************************)
EXTENDS ModuleChecks, TLC

CONSTANTS
    Worlds,             \* the hosts with their modules that are considered
    PrefixLimit         \* import paths longer than this stand for endless ones

ASSUME PrefixAssumption ==
    /\ PrefixLimit \in Nat
    /\ \A w \in Worlds : IsFiniteSet(Table(w)) /\ Cardinality(Table(w)) < PrefixLimit

\* The host is a program; an alias is bound by one import statement of one file
\* (ImportGraph); an alias that leads to a file met before has a copy of it.
\* Pratt expressions hold names and numbers only, and operators are only there;
\* no text is written with the arguments that the expansion of a template puts
\* in it.
ASSUME WorldAssumption ==
    \A w \in Worlds :
        /\ "host" \in DOMAIN w.files /\ "" \notin DOMAIN w.files
        /\ ~w.files["host"].library
        /\ w.order \in Seq(Table(w)) /\ ToSet(w.order) = Table(w)
        /\ \A f \in DOMAIN w.files :
              /\ \A names \in {DOMAIN w.files[f].rules, DOMAIN w.files[f].pratt, DOMAIN w.files[f].templates} :
                    IsFiniteSet(names)
              /\ w.files[f].embeds \subseteq w.files[f].imports /\ w.files[f].imports \subseteq Table(w)
              /\ \/ w.files[f].first \in DOMAIN w.files[f].rules \ {""}
                 \/ w.files[f].first = "" /\ DOMAIN w.files[f].rules = {}
              /\ \A b \in RuleBodies(w.files[f]) \union TemplateBodies(w.files[f]) :
                    b \in Seq(ToSet(b)) /\ OfKind(ToSet(b), {"argument", "operator"}) = {}
              /\ \A b \in PrattBodies(w.files[f]) :
                    b \in Seq(ToSet(b)) /\ OfKind(ToSet(b), {"rule", "ref", "operator", "unfit"}) = ToSet(b)
              /\ \A e \in OfKind(Elements(w.files[f]), {"unfit"}) : e.what \in {"number", "alternative", "parameter"}
              /\ \A g \in DOMAIN w.files :
                    w.files[f] = w.files[g] \/ w.files[f].imports \intersect w.files[g].imports = {}

VARIABLES
    world,
    phase,      \* "check", "collect", "lower"; final: "done", "failed", "panic", "endless"
    unchecked,  \* the files still to be validated, in order
    told,       \* the warnings about the host
    prefixes,   \* the import paths the collection of symbols is at
    table,      \* the tokens that have an ID
    todo,       \* the rules, then the pratt expressions, still to be lowered
    stack,      \* what is being compiled, innermost last
    counts,     \* how often each role was labelled within the current rule
    registry,   \* label to the rule that was defined under it
    refs,       \* the references that were compiled
    expects,    \* the tokens the compiled rules expect
    trouble     \* why the lowering panicked

checking == <<unchecked, told>>
result == <<counts, registry, refs, expects>>
vars == <<world, phase, checking, prefixes, table, todo, stack, result, trouble>>

File(f) == world.files[f]
Host == File("host")
None == <<>>

----------------------------------------------------------------------------
(* Validation, modules before the files that import them. *)

CheckFile ==
    /\ phase = "check"
    /\ LET f == Head(unchecked) IN
       /\ unchecked' = Tail(unchecked)
       /\ phase' = IF Errors(world, f) # {} THEN "failed"
                   ELSE IF f = "host" THEN "collect" ELSE "check"
       /\ told' = IF f = "host" THEN Warnings(world, f) ELSE told
    /\ UNCHANGED <<world, prefixes, table, todo, stack, result, trouble>>

----------------------------------------------------------------------------
(* The symbol table: the tokens of the host, those its text and the rules  *)
(* it uses name, and the tokens of every module under its import path.     *)

NamedTokens(p, body) ==
    TokensIn(p, body) \union {e.to : e \in OfKind(ToSet(body), {"ahead", "sync"})}

UsedBodies ==
    {<<e.from, IF e.k = "using" THEN File(e.from).rules[e.to] ELSE File(e.from).templates[e.to].body>> :
       e \in OfKind(Parsed(Host), {"using", "usingCall"})}

PlainTokens ==
    DOMAIN Host.lex
    \union (UNION {NamedTokens(Host, b) : b \in RuleBodies(Host) \union TemplateBodies(Host)})
    \union (UNION {ToSet(File(e.from).pairs[e.to]) : e \in OfKind(Parsed(Host), {"usingPair"})})
    \union (UNION {NamedTokens(File(b[1]), b[2]) : b \in UsedBodies})

\* Deeper modules get IDs under alias__alias__token, which no lookup asks for.
AliasedTokens ==
    (UNION {{a} \X DOMAIN File(a).lex : a \in Table(world)})
    \union (UNION {{b[1]} \X NamedTokens(File(b[1]), b[2]) : b \in UsedBodies})

\* Mutant: the walk goes down from where the path began.
DeeperFromHead == UNION {{Append(q, a) : a \in File(Head(q)).imports} : q \in prefixes}

Deeper == UNION {{Append(q, a) : a \in File(Last(q)).imports} : q \in prefixes}

CollectSymbols ==
    /\ phase = "collect"
    /\ prefixes' = Deeper
    /\ phase' = IF Deeper = {} THEN "lower"
                ELSE IF \E q \in Deeper : Len(q) > PrefixLimit THEN "endless" ELSE "collect"
    /\ table' = IF Deeper = {} THEN {<<"", t>> : t \in PlainTokens} \union AliasedTokens ELSE table
    /\ todo' = IF Deeper = {} THEN DOMAIN Host.rules ELSE todo
    /\ UNCHANGED <<world, checking, stack, result, trouble>>

----------------------------------------------------------------------------
(* Contexts.  An item of a text is an element with the file it was written *)
(* in and the kinds of the frames, below the rule of the host, it was      *)
(* reached through.  A frame has the environment of its element names, as  *)
(* the files that are asked one after the other.                           *)

Items(body, f, via) == [i \in DOMAIN body |-> [e |-> body[i], of |-> f, via |-> via]]

Frame(kind, at, role, alias, env, rule, text) ==
    [kind |-> kind, at |-> at, role |-> role, alias |-> alias, env |-> env, rule |-> rule, text |-> text]

HostFrame(n, body) == Frame("rule", <<"host", n>>, "", "", <<"host">>, n, Items(body, "host", <<>>))
RuleFrame(n) == HostFrame(n, Host.rules[n])
PrattFrame(n) == HostFrame(n, Host.pratt[n])

\* The elements are compiled in the order of the text; what stands between them
\* (concatenations, alternations, repetitions) only passes the results on.
Ctx == Last(stack)
Item == Head(Ctx.text)
At(kinds) == phase = "lower" /\ stack # <<>> /\ Ctx.text # <<>> /\ Item.e.k \in kinds

Rest == [stack EXCEPT ![Len(stack)].text = Tail(@)]
Advance == stack' = Rest
Enter(frame) == stack' = Append(Rest, frame)
Via(kind) == Append(Item.via, kind)

Panic(why) ==
    /\ phase' = "panic"
    /\ trouble' = [why |-> why, of |-> Item.of, e |-> Item.e]
    /\ UNCHANGED <<world, checking, prefixes, table, todo, stack, result>>

Names(f) == DOMAIN File(f).rules \union DOMAIN File(f).pratt
Meant(f, n) == IF n \in Names(f) THEN <<f, n>> ELSE <<"host", n>>
HostRule == stack[1].rule

Refer(label, meant) ==
    refs' = refs \union {[from |-> HostRule, label |-> label, meant |-> meant,
                          alias |-> Ctx.alias, of |-> Item.of, via |-> Item.via]}

----------------------------------------------------------------------------
(* References to rules.                                                    *)

Importable(n) == Ctx.alias # "" /\ n \in DOMAIN File(Ctx.alias).rules
InProgress(n) == \E i \in DOMAIN stack : stack[i].kind = "imported" /\ stack[i].at = <<Ctx.alias, n>>

ImportedFrame(n) ==
    Frame("imported", <<Ctx.alias, n>>, "", Ctx.alias, <<Ctx.alias>>, n,
          Items(File(Ctx.alias).rules[n], Ctx.alias, Via("imported")))

\* Mutant: rules of a module are looked up among those of the host.
PlainLabel(n) == <<"", n>>
Label(n) == IF Importable(n) THEN <<Ctx.alias, n>> ELSE <<"", n>>

ReferTo(n) ==
    /\ Refer(Label(n), Meant(Item.of, n))
    /\ IF Importable(n) /\ ~InProgress(n) THEN Enter(ImportedFrame(n)) ELSE Advance
    /\ UNCHANGED <<world, phase, checking, prefixes, table, todo, counts, registry, expects, trouble>>

RuleReference == At({"rule"}) /\ ReferTo(Item.e.to)

\* What a name means where any expression may stand.
TokenInEnv(n) == \E i \in DOMAIN Ctx.env : n \in DOMAIN File(Ctx.env[i]).lex
RuleInEnv(n) == ~TokenInEnv(n) /\ \E i \in DOMAIN Ctx.env : n \in Names(Ctx.env[i])

Reference == At({"ref"}) /\ RuleInEnv(Item.e.to) /\ ReferTo(Item.e.to)

OpenReference ==
    At({"ref"}) /\ ~TokenInEnv(Item.e.to) /\ ~RuleInEnv(Item.e.to) /\ Panic("open reference")

----------------------------------------------------------------------------
(* Tokens. *)

\* Mutant: the plain name is tried first.
TokenIdPlain(alias, t) ==
    IF <<"", t>> \in table THEN <<"", t>> ELSE IF <<alias, t>> \in table THEN <<alias, t>> ELSE None

TokenId(alias, t) ==
    IF alias # "" /\ <<alias, t>> \in table THEN <<alias, t>>
    ELSE IF <<"", t>> \in table THEN <<"", t>> ELSE None

Expectation(alias, t) ==
    [id |-> TokenId(alias, t), token |-> t, how |-> Item.e.k, alias |-> alias, of |-> Item.of, via |-> Item.via]

Expect(S) ==
    /\ expects' = expects \union S
    /\ Advance
    /\ UNCHANGED <<world, phase, checking, prefixes, table, todo, counts, registry, refs, trouble>>

TokenSite == At({"token", "argument"}) \/ (At({"ref"}) /\ TokenInEnv(Item.e.to))

TokenMatch == TokenSite /\ Expect({Expectation(Ctx.alias, Item.e.to)})
Lookahead == At({"ahead"}) /\ Expect({Expectation(Ctx.alias, Item.e.to)})
SyncToken == At({"sync"}) /\ Expect({Expectation("", Item.e.to)})

HasPair(n, i) == n \in DOMAIN File(Ctx.env[i]).pairs

PairOf(n) ==
    LET first == CHOOSE i \in DOMAIN Ctx.env : HasPair(n, i) /\ \A j \in 1 .. (i - 1) : ~HasPair(n, j)
    IN  File(Ctx.env[first]).pairs[n]

NestPair == At({"pair"}) /\ Expect({Expectation("", t) : t \in ToSet(PairOf(Item.e.to))})

NestUsingPair ==
    /\ At({"usingPair"})
    /\ Expect({Expectation(Item.e.from, t) : t \in ToSet(File(Item.e.from).pairs[Item.e.to])})

\* The target of a pratt operator; only the host's are compiled.
Operator ==
    /\ At({"operator"})
    /\ IF Item.e.to \in DOMAIN Host.lex THEN Expect({Expectation("", Item.e.to)}) ELSE ReferTo(Item.e.to)

\* What nobody refuses is met here at last: a number after the operand of its
\* repetition, before the token of its predict or the operator it belongs to; an
\* alternative before those that follow.
Unfit == At({"unfit"}) /\ Panic(Item.e.what)

----------------------------------------------------------------------------
(* Using, templates and embedded programs. *)

CanUse == Item.e.to \in ExportedRules(File(Item.e.from))

UseRule ==
    /\ At({"using"})
    /\ IF CanUse
       THEN /\ Enter(Frame("using", <<Item.e.from, Item.e.to>>, Item.e.to, Item.e.from, <<Item.e.from>>, Ctx.rule,
                           Items(File(Item.e.from).rules[Item.e.to], Item.e.from, Via("using"))))
            /\ UNCHANGED <<world, phase, checking, prefixes, table, todo, result, trouble>>
       ELSE Panic("unresolved export")

\* An argument stands where its parameter stood, with the file it is from.
Argument(type, name) ==
    [e |-> [k |-> IF type = "Token" THEN "argument" ELSE "rule", to |-> name], of |-> Item.of, via |-> Item.via]

Substituted(template, f) ==
    LET items == Items(template.body, f, Via("template"))
        expanded(x) == IF x.e.k = "param" THEN Argument(template.params[x.e.to], Item.e.args[x.e.to]) ELSE x
    IN  [i \in DOMAIN items |-> expanded(items[i])]

ExpandCall ==
    /\ At({"call"})
    /\ LET f == Head(Ctx.env) IN
       Enter(Frame("template", <<f, Item.e.to>>, "", Ctx.alias, Ctx.env, Ctx.rule,
                   Substituted(File(f).templates[Item.e.to], f)))
    /\ UNCHANGED <<world, phase, checking, prefixes, table, todo, result, trouble>>

\* The environment of the module is completed with that of the caller.
UseTemplate ==
    /\ At({"usingCall"})
    /\ LET m == Item.e.from IN
       Enter(Frame("template", <<m, Item.e.to>>, "", m, <<m>> \o Ctx.env, Ctx.rule,
                   Substituted(File(m).templates[Item.e.to], m)))
    /\ UNCHANGED <<world, phase, checking, prefixes, table, todo, result, trouble>>

EntryOf(m) == IF Program \in DOMAIN File(m).rules THEN Program ELSE File(m).first

Delimiters == {Expectation("", t) : t \in {Item.e.open, Item.e.close}}

EmbedProgram ==
    /\ At({"embed"})
    /\ LET m == Item.e.from IN
       IF EntryOf(m) = "" THEN Panic("no rule")
       ELSE IF \E x \in Delimiters : x.id = None THEN Panic("delimiter")
       ELSE /\ expects' = expects \union Delimiters
            /\ Enter(Frame("embed", <<m, EntryOf(m)>>, m, m, <<m>>, Ctx.rule,
                           Items(File(m).rules[EntryOf(m)], m, Via("embed"))))
            /\ UNCHANGED <<world, phase, checking, prefixes, table, todo, counts, registry, refs, trouble>>

EmbedBare ==
    At({"bare"}) /\ Panic(IF EntryOf(Item.e.from) = "" THEN "no rule" ELSE "no delimiters")

----------------------------------------------------------------------------
(* The end of a body: its rule is defined under its label, and what used   *)
(* or embedded it refers to the label.  The number in the label is counted *)
(* per role within the rule of the host, whatever rule the label names.    *)

Role(f) == <<f.kind, f.role>>
Counted(f) == IF Role(f) \in DOMAIN counts THEN counts[Role(f)] ELSE 0

LabelOf(f) ==
    IF f.kind = "rule" THEN <<"", f.rule>>
    ELSE IF f.kind = "imported" THEN f.at
    ELSE <<f.rule, f.kind, f.role, Counted(f)>>

\* An entry of a map is written.
Put(map, key, value) == [x \in {key} \union DOMAIN map |-> IF x = key THEN value ELSE map[x]]

\* Mutant: what ends stays on the list.
Remaining(n) == todo

Left(n) == todo \ {n}

Finish ==
    /\ phase = "lower" /\ stack # <<>> /\ Ctx.text = <<>>
    /\ stack' = Front(stack)
    /\ registry' = IF Ctx.kind = "template" THEN registry ELSE Put(registry, LabelOf(Ctx), Ctx.at)
    /\ refs' = IF Ctx.kind \in {"using", "embed"}
               THEN refs \union {[from |-> HostRule, label |-> LabelOf(Ctx), meant |-> Ctx.at,
                                  alias |-> "", of |-> "host", via |-> <<>>]}
               ELSE refs
    /\ counts' = IF Ctx.kind \in {"using", "embed"} THEN Put(counts, Role(Ctx), Counted(Ctx) + 1) ELSE counts
    /\ todo' = IF Ctx.kind = "rule" THEN Left(Ctx.rule) ELSE todo
    /\ UNCHANGED <<world, phase, checking, prefixes, table, expects, trouble>>

\* Rules first, in any order; then the pratt expressions, in any order.
NextToLower ==
    IF todo # {} THEN {RuleFrame(n) : n \in todo}
    ELSE {PrattFrame(n) : n \in {q \in DOMAIN Host.pratt : <<"", q>> \notin DOMAIN registry}}

Begin ==
    /\ phase = "lower" /\ stack = <<>>
    /\ \E frame \in NextToLower : stack' = <<frame>>
    /\ counts' = <<>>
    /\ UNCHANGED <<world, phase, checking, prefixes, table, todo, registry, refs, expects, trouble>>

AllLowered ==
    /\ phase = "lower" /\ stack = <<>> /\ NextToLower = {}
    /\ phase' = "done"
    /\ UNCHANGED <<world, checking, prefixes, table, todo, stack, result, trouble>>

Finished == phase \in {"done", "failed", "panic", "endless"} /\ UNCHANGED vars

Init ==
    /\ world \in Worlds
    /\ phase = "check" /\ unchecked = Append(world.order, "host")
    /\ told = [rules |-> {}, tokens |-> {}]
    /\ prefixes = {<<a>> : a \in Table(world)}
    /\ table = {} /\ todo = {} /\ stack = <<>> /\ counts = <<>>
    /\ registry = <<>> /\ refs = {} /\ expects = {} /\ trouble = None

Next ==
    \/ CheckFile \/ CollectSymbols \/ Begin \/ Finish \/ AllLowered \/ Finished
    \/ RuleReference \/ Reference \/ OpenReference
    \/ TokenMatch \/ Lookahead \/ SyncToken \/ NestPair \/ NestUsingPair \/ Operator
    \/ UseRule \/ ExpandCall \/ UseTemplate \/ EmbedProgram \/ EmbedBare \/ Unfit

Spec == Init /\ [][Next]_vars /\ WF_vars(Next)

----------------------------------------------------------------------------
(* Properties. *)

Labels == DOMAIN registry

(* Why the compiler panics on an accepted host.  The names of a text are   *)
(* at fault only where a library left one open (compileReference) or an    *)
(* embed statement of a module names tokens the host has not.  Otherwise   *)
(* it is a form that the grammar allows and no check refuses: an embedded  *)
(* module without a rule, an embed statement without two tokens            *)
(* (compileEmbedStatement), a bound, offset or precedence that no int      *)
(* holds (extractIntContent), an alternative that is no token              *)
(* (compileEmitOneOfWithCustomName), a parameter at a place of another     *)
(* type (compileVirtual, compileNest, compileParseExpression).             *)
PanicsAreGaps ==
    phase = "panic" =>
        \/ trouble.why = "open reference" /\ trouble.of # "host" /\ File(trouble.of).library
        \/ trouble.why = "delimiter" /\ trouble.of # "host"
        \/ trouble.why = "no rule" /\ DOMAIN File(trouble.e.from).rules = {}
        \/ trouble.why = "no delimiters" /\ trouble.e.k = "bare"
        \/ trouble.why \in {"number", "alternative", "parameter"} /\ trouble.e.k = "unfit"

(* What the lexer of the compiled language emits: the tokens of the host,  *)
(* and alias__token for the modules that are embedded.                     *)
Emitted ==
    {<<"", t>> : t \in DOMAIN Host.lex} \union UNION {{a} \X DOMAIN File(a).lex : a \in {b \in Table(world) : IsEmbed(world, b)}}

(* The tokens of predict and sync are in no check. *)
Unchecked == {"ahead", "sync"}

(* The rules of the host and of an embedded program wait for tokens of     *)
(* their own lexer, and these are emitted (resolveSymbolTokenIDForAlias).  *)
(* A name that a template leaves open may mean a token of its caller.      *)
TokensBelong ==
    \A x \in expects :
        \/ x.alias = "" /\ x.of = "host" /\ x.how \notin Unchecked
        \/ x.alias # "" /\ x.alias = x.of /\ IsEmbed(world, x.of) /\ x.how \in {"token", "argument"}
        => x.id = <<x.alias, x.token>> /\ x.id \in Emitted

(* The tokens in the text of a rule or template the host uses are declared *)
(* by the host, but for those it gives to a template or has of a pair of a *)
(* module (buildImportedLexicalObligations).                               *)
InUsedText(x) == x.via \in {<<"using">>, <<"template">>}

UsedTextIsCovered ==
    \A x \in expects :
        InUsedText(x) /\ x.how \notin Unchecked \union {"argument", "usingPair"} => x.token \in DOMAIN Host.lex

(* Where a reference may miss: pratt expressions of a module, which are    *)
(* never compiled; names a library leaves open; arguments that meet a rule *)
(* of the module they are given to; the numbered labels of a rule whose    *)
(* name occurs in two files.                                               *)
Unsteady(r) ==
    \/ r.meant[1] # "host" /\ r.meant[2] \in DOMAIN File(r.meant[1]).pratt
    \/ r.meant[1] = "host" /\ r.meant[2] \notin Names("host")
    \/ r.alias # "" /\ r.of # r.alias
    \/ r.meant[1] = "host" /\ r.of # "host"
    \/ Len(r.label) = 4 /\ \E a \in Table(world) : r.label[1] \in DOMAIN File(a).rules

(* In the finished registry every other reference leads to the rule that   *)
(* was meant where it was written, whatever the order of the rules, the    *)
(* recursion and the number of times a module's rule was compiled again.   *)
ReferencesLeadHome ==
    phase = "done" => \A r \in refs : Unsteady(r) \/ (r.label \in Labels /\ registry[r.label] = r.meant)

(* A rule the compiler calls unreferenced is not reached from PROGRAM by   *)
(* what the rules of the host, the templates they expand and the rules     *)
(* they use refer to (extractAllRuleRefs, computeReachableParseRules).     *)
(* What a template gives to another one is not followed, nor are the rules *)
(* that used rules refer to; and what a module gives to a template of      *)
(* another one may be captured by a pratt expression of the host.          *)
GivenInTemplates == CallArgs(world, Host, UNION {ToSet(b) : b \in TemplateBodies(Host)}, "Rule")

Seen(r) ==
    /\ Len(r.label) = 2 /\ r.label[1] = ""
    /\ \/ ToSet(r.via) \subseteq {"using"} /\ r.of \in {"host", r.alias}
       \/ ToSet(r.via) \subseteq {"template"} /\ r.of = "host" /\ r.label[2] \notin GivenInTemplates

LiveRules ==
    LET level[k \in 0 .. Cardinality(Names("host"))] ==
            IF k = 0 THEN {Program}
            ELSE level[k - 1] \union {r.label[2] : r \in {x \in refs : Seen(x) /\ x.from \in level[k - 1]}}
    IN  level[Cardinality(Names("host"))]

WarnedRulesAreDead == phase = "done" => told.rules \intersect LiveRules = {}

(* The symbols of the imports are collected for ever only on a cycle of    *)
(* imports, which the resolution of imports accepts.                       *)
OnlyCyclesAreEndless ==
    phase = "endless" =>
        \E q \in prefixes : \E i, j \in DOMAIN q : i < j /\ q[i] = q[j] /\ q[i + 1] \in File(q[i]).imports

(* Every compile comes to an end, on recursive rules too.                  *)
LoweringEnds == <>(phase \in {"done", "failed", "panic", "endless"})

(* docs/syntax.md: the host declares the tokens of what it imports, which  *)
(* is then lexed by the host.  Checked in a run of its own.                *)
ExpectedTokensAreLexed == \A x \in expects : x.how \in Unchecked \/ x.id \in Emitted

=============================================================================
