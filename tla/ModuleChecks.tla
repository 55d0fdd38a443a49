---------------------------- MODULE ModuleChecks ----------------------------
(***************************************************************************)
(* What stages 0 and 1 of the validation find in the PARSE and PRATT       *)
(* sections of the files of one compile: the host and the modules of its   *)
(* import table (dsl/semantics/env.go, imports.go, validation.go,          *)
(* validation_template.go).  Every file has an environment of its own, but *)
(* all of them share one import table, from alias to module.               *)
(*                                                                         *)
(* A world is a record: files (from alias, and from "host", to file) and   *)
(* order (the aliases as they are validated).  A file is a record:         *)
(*   library (its pragma), imports and embeds \subseteq imports (aliases), *)
(*   rules (name to body), first (the rule the file declares first, or     *)
(*   ""), pratt (name to body), locals (pratt names), pairs (name to two   *)
(*   tokens), templates (name to [params, body]), lex (a token of its LEX  *)
(*   section to the lexer states its rules push or set), states, exports.  *)
(* A body is the sequence of the elements the compiler meets, in its       *)
(* order; what stands between them (alternation, repetition, nesting,      *)
(* output names) only passes on what its operands do.  An element is       *)
(*   [k |-> "rule", to]        a bare rule name                            *)
(*   [k |-> "ref", to]         a name where any expression may stand       *)
(*   [k |-> "token", to]       virtual, an output mapping, a nest token    *)
(*   [k |-> "operator", to]    the target of a pratt operator              *)
(*   [k |-> "ahead", to], [k |-> "sync", to]   a predict or a sync token   *)
(*   [k |-> "pair", to]        nest @P                                     *)
(*   [k |-> "param", to]       the to-th parameter of the template         *)
(*   [k |-> "call", to, args]  call of a template of the file              *)
(*   [k |-> "using", from, to], [k |-> "usingPair", from, to],             *)
(*   [k |-> "usingCall", from, to, args]       of the module from          *)
(*   [k |-> "embed", from, open, close]        of an embedded module       *)
(*   [k |-> "bare", from]      an embed without an open and a close token: *)
(*                             its delimiters are a pair or parameters     *)
(*   [k |-> "unfit", what]     where the compiler meets what the grammar   *)
(*        allows and no check refuses, but cannot be compiled: "number", a *)
(*        repetition bound, a predict offset or a precedence that no int   *)
(*        holds (one that fits changes nothing here and is no element);    *)
(*        "alternative", an alternative of NAME : (...) without a token;   *)
(*        "parameter", one of another type than its place asks for.        *)
(***************************************************************************)
EXTENDS Naturals, FiniteSets, SequencesExt

Program == "PROGRAM"

Table(w) == DOMAIN w.files \ {"host"}
IsEmbed(w, a) == \E f \in DOMAIN w.files : a \in w.files[f].embeds

RuleBodies(p) == {p.rules[n] : n \in DOMAIN p.rules}
TemplateBodies(p) == {p.templates[n].body : n \in DOMAIN p.templates}
PrattBodies(p) == {p.pratt[n] : n \in DOMAIN p.pratt}
Parsed(p) == UNION {ToSet(b) : b \in RuleBodies(p) \union TemplateBodies(p)}
Elements(p) == Parsed(p) \union UNION {ToSet(b) : b \in PrattBodies(p)}
OfKind(S, kinds) == {e \in S : e.k \in kinds}

(* resolveParseRefSymbolKind: the tables are asked in this order. *)
KindOf(p, n) ==
    IF n \in DOMAIN p.lex THEN "token"
    ELSE IF n \in DOMAIN p.rules THEN "rule"
    ELSE IF n \in DOMAIN p.templates THEN "template"
    ELSE IF n \in DOMAIN p.pratt THEN "pratt"
    ELSE "none"

ExportedRules(p) == p.exports \intersect DOMAIN p.rules
ExportedPairs(p) == p.exports \intersect DOMAIN p.pairs
ExportedTemplates(p) == p.exports \intersect DOMAIN p.templates

----------------------------------------------------------------------------
(* Names: collisions, and the imports a file may use. *)

Collides(p) ==
    LET tables == <<DOMAIN p.lex, DOMAIN p.rules, DOMAIN p.pairs, DOMAIN p.templates, DOMAIN p.pratt>>
    IN  \E i, j \in DOMAIN tables : i < j /\ tables[i] \intersect tables[j] # {}

ArgumentFits(p, type, name) ==
    \/ type = "Token" /\ name \in DOMAIN p.lex
    \/ type = "Rule" /\ name \in DOMAIN p.rules

ArgumentsFit(p, params, args) ==
    /\ Len(args) = Len(params)
    /\ \A i \in DOMAIN params : ArgumentFits(p, params[i], args[i])

\* Mutant: anything a module declares may be used.
UsingDeclared(w, f, e) ==
    /\ e.from \in w.files[f].imports
    /\ \/ e.k = "using" /\ e.to \in DOMAIN w.files[e.from].rules
       \/ e.k = "usingPair" /\ e.to \in DOMAIN w.files[e.from].pairs
       \/ e.k = "usingCall" /\ e.to \in DOMAIN w.files[e.from].templates

UsingFits(w, f, e) ==
    /\ e.from \in w.files[f].imports
    /\ LET m == w.files[e.from] IN
       \/ e.k = "using" /\ e.to \in ExportedRules(m)
       \/ e.k = "usingPair" /\ e.to \in ExportedPairs(m)
       \/ /\ e.k = "usingCall" /\ e.to \in ExportedTemplates(m)
          /\ ArgumentsFit(w.files[f], m.templates[e.to].params, e.args)

Usings(p) == OfKind(Parsed(p), {"using", "usingPair", "usingCall"})

UsingWrong(w, f) == \E e \in Usings(w.files[f]) : ~UsingFits(w, f, e)

Embeds(p) == OfKind(Parsed(p), {"embed"})

EmbedWrong(p) ==
    \/ \E e \in Embeds(p) : e.from \notin p.embeds \/ e.open \notin DOMAIN p.lex
    \/ \E e \in OfKind(Parsed(p), {"bare"}) : e.from \notin p.embeds

----------------------------------------------------------------------------
(* What an exported symbol asks of the lexer of the file that uses it: the *)
(* tokens of its own body, not those of the rules the body refers to.      *)

TokensIn(p, body) ==
    {e.to : e \in OfKind(ToSet(body), {"token"})}
    \union (UNION {{e.open, e.close} : e \in OfKind(ToSet(body), {"embed"})})
    \union (UNION {ToSet(p.pairs[e.to]) : e \in {x \in OfKind(ToSet(body), {"pair"}) : x.to \in DOMAIN p.pairs}})

\* Mutant: only pairs ask for tokens.
RequiredByPairs(m, n) == IF n \in ExportedPairs(m) THEN ToSet(m.pairs[n]) ELSE {}

RequiredTokens(m, n) ==
    IF n \in ExportedPairs(m) THEN ToSet(m.pairs[n])
    ELSE IF n \in ExportedRules(m) THEN TokensIn(m, m.rules[n])
    ELSE IF n \in ExportedTemplates(m) THEN TokensIn(m, m.templates[n].body)
    ELSE {}

RequiredStates(m, n) == UNION {m.lex[t] : t \in RequiredTokens(m, n) \intersect DOMAIN m.lex}

Resolved(w, p) == {e \in Usings(p) : e.from \in Table(w)}

ObligationMissing(w, p) ==
    \E e \in Resolved(w, p) :
        \/ ~(RequiredTokens(w.files[e.from], e.to) \subseteq DOMAIN p.lex)
        \/ ~(RequiredStates(w.files[e.from], e.to) \subseteq p.states)

----------------------------------------------------------------------------
(* References.  Libraries may leave rules open, but not tokens; nobody     *)
(* checks the tokens of predict and sync.                                  *)

TokenWrong(p) ==
    \/ \E e \in OfKind(Parsed(p), {"token"}) : e.to \notin DOMAIN p.lex
    \/ \E e \in Embeds(p) : ~({e.open, e.close} \subseteq DOMAIN p.lex)
    \/ \E n \in DOMAIN p.pairs : ~(ToSet(p.pairs[n]) \subseteq DOMAIN p.lex)

PairWrong(p) == \E e \in OfKind(Parsed(p), {"pair"}) : e.to \notin DOMAIN p.pairs

TargetWrong(p) ==
    \E e \in OfKind(Elements(p), {"operator"}) : KindOf(p, e.to) \notin {"token", "rule", "pratt"}

RuleRefs(p) == OfKind(Elements(p), {"rule", "ref"})

RuleRefWrong(p) ==
    \/ \E e \in RuleRefs(p) :
          KindOf(p, e.to) \in {"template", "token"} \/ (KindOf(p, e.to) = "none" /\ ~p.library)
    \/ \E e \in OfKind(Parsed(p), {"rule", "ref"}) : e.to \in p.locals

ProgramWrong(p) == p.library <=> Program \in DOMAIN p.rules

----------------------------------------------------------------------------
(* Templates. *)

Calls(p) == OfKind(Parsed(p), {"call"})
CalledBy(p, n) == {e.to : e \in OfKind(ToSet(p.templates[n].body), {"call"})} \intersect DOMAIN p.templates

\* The templates that are expanded within template n, at any depth.
ExpandedBy(p, n) ==
    LET level[k \in 0 .. Cardinality(DOMAIN p.templates)] ==
            IF k = 0 THEN CalledBy(p, n)
                     ELSE level[k - 1] \union UNION {CalledBy(p, m) : m \in level[k - 1]}
    IN  level[Cardinality(DOMAIN p.templates)]

ParamWrong(p) ==
    \/ \E b \in RuleBodies(p) : OfKind(ToSet(b), {"param"}) # {}
    \/ \E n \in DOMAIN p.templates :
          \E e \in OfKind(ToSet(p.templates[n].body), {"param"}) : e.to \notin DOMAIN p.templates[n].params

TemplateWrong(p) ==
    \/ ParamWrong(p)
    \/ \E e \in Calls(p) :
          e.to \notin DOMAIN p.templates \/ ~ArgumentsFit(p, p.templates[e.to].params, e.args)
    \/ \E n \in DOMAIN p.templates : n \in ExpandedBy(p, n)

----------------------------------------------------------------------------
(* Warnings: tokens nothing refers to, rules PROGRAM does not reach. *)

TypedArgs(params, args, type) ==
    IF Len(args) = Len(params) THEN {args[i] : i \in {j \in DOMAIN params : params[j] = type}} ELSE {}

ParamsOf(w, p, e) ==
    IF e.k = "call" THEN IF e.to \in DOMAIN p.templates THEN p.templates[e.to].params ELSE <<>>
    ELSE IF e.to \in ExportedTemplates(w.files[e.from]) THEN w.files[e.from].templates[e.to].params ELSE <<>>

CallArgs(w, p, S, type) ==
    UNION {TypedArgs(ParamsOf(w, p, e), e.args, type) : e \in OfKind(S, {"call", "usingCall"})}

UsedTokens(w, p) ==
    (UNION {TokensIn(p, b) : b \in RuleBodies(p) \union TemplateBodies(p)})
    \union (UNION {ToSet(p.pairs[n]) : n \in DOMAIN p.pairs})
    \union {e.to : e \in OfKind(Elements(p), {"operator"})}
    \union CallArgs(w, p, Parsed(p), "Token")
    \union (UNION {RequiredTokens(w.files[e.from], e.to) : e \in Resolved(w, p)})

\* The templates of the host that are expanded within a body.
ExpandedIn(host, body) ==
    UNION {{e.to} \union ExpandedBy(host, e.to) :
             e \in {x \in OfKind(ToSet(body), {"call"}) : x.to \in DOMAIN host.templates}}

\* The names of host rules in a body: written in it, given to a template, or
\* written in the templates it expands.  What these templates give to others,
\* and what they use of modules, is not followed.
NamesIn(w, host, body) ==
    (CallArgs(w, host, ToSet(body), "Rule") \intersect DOMAIN host.rules)
    \union ((    {e.to : e \in OfKind(ToSet(body), {"rule", "ref", "operator"})}
             \union (UNION {{e.to : e \in OfKind(ToSet(host.templates[t].body), {"rule", "ref"})} :
                             t \in ExpandedIn(host, body)}))
            \intersect (DOMAIN host.rules \union DOMAIN host.pratt))

\* The bodies of the exported rules that bodies of S use.
UsedBy(w, S) ==
    {w.files[e.from].rules[e.to] :
       e \in {x \in OfKind(UNION {ToSet(b) : b \in S}, {"using"}) :
                x.from \in Table(w) /\ x.to \in ExportedRules(w.files[x.from])}}

\* Mutant: what the used rules refer to is not followed.
TextAlone(w, body, depth) == {body}

\* A body with those it uses, up to so many usings away.
UsedWithin(w, body, depth) ==
    LET level[k \in 0 .. depth] == IF k = 0 THEN {body} ELSE level[k - 1] \union UsedBy(w, level[k - 1])
    IN  level[depth]

\* What a using contributes: the names in the body of the exported rule,
\* and again what that body uses.
UsedNames(w, host, body) == UNION {NamesIn(w, host, b) : b \in UsedWithin(w, body, Cardinality(Table(w)))}

BodyOf(p, n) == IF n \in DOMAIN p.rules THEN p.rules[n] ELSE p.pratt[n]

ReachedRules(w, p) ==
    LET size == Cardinality(DOMAIN p.rules \union DOMAIN p.pratt)
        level[k \in 0 .. size] ==
            IF k = 0 THEN {Program} \intersect DOMAIN p.rules
            ELSE level[k - 1] \union UNION {UsedNames(w, p, BodyOf(p, n)) : n \in level[k - 1]}
    IN  level[size]

Unreferenced(w, p) == IF p.library THEN {} ELSE DOMAIN p.rules \ ReachedRules(w, p)
UnusedTokens(w, p) == IF p.library THEN {} ELSE DOMAIN p.lex \ UsedTokens(w, p)

----------------------------------------------------------------------------
(* processSymbolBinding runs all its checks whatever they find. *)

Errors(w, f) ==
    LET p == w.files[f] IN
    {c \in {"collision", "using", "embed", "obligation", "template", "token", "pair", "target", "rule", "program"} :
        \/ c = "collision" /\ Collides(p)
        \/ c = "using" /\ UsingWrong(w, f)
        \/ c = "embed" /\ EmbedWrong(p)
        \/ c = "obligation" /\ ObligationMissing(w, p)
        \/ c = "template" /\ TemplateWrong(p)
        \/ c = "token" /\ TokenWrong(p)
        \/ c = "pair" /\ PairWrong(p)
        \/ c = "target" /\ TargetWrong(p)
        \/ c = "rule" /\ RuleRefWrong(p)
        \/ c = "program" /\ ProgramWrong(p)}

Warnings(w, f) ==
    [rules |-> Unreferenced(w, w.files[f]), tokens |-> UnusedTokens(w, w.files[f])]
=============================================================================
