----------------------------- MODULE EmbedLexer -----------------------------
(***************************************************************************)
(* The lexer of a language that embeds others: how dsl/compiler.go merges  *)
(* the lexers of the embedded modules into the host's and injects the      *)
(* handoffs of the embed statements, and how the lexer that results moves  *)
(* between host and module.                                                *)
(*                                                                         *)
(* A state or token of a module is the module's alias with its name; the   *)
(* prefix of the host's own is Host.  Patterns are compared only for       *)
(* equality: two different ones match no common text.                      *)
(***************************************************************************)
EXTENDS Integers, Sequences, FiniteSets, LexerStack

CONSTANTS
  Host,      \* the empty namespace prefix
  Aliases,   \* the aliases of the embedded modules
  Grammars   \* the languages to consider, as [host, modules, embeds]

MaxPriority == 1000   \* the largest int

Name(prefix, name) == <<prefix, name>>
Root(alias) == Name(alias, "INITIAL")

LexRule(rule, names) ==
  /\ rule = [token |-> rule.token, pattern |-> rule.pattern, priority |-> rule.priority,
             kind |-> rule.kind, states |-> rule.states, amount |-> rule.amount]
  /\ rule.kind \in Kinds /\ rule.priority \in Int /\ rule.amount \in Int
  /\ rule.states \in Seq(names)
  /\ rule.kind \notin {"push", "set"} => rule.states = <<>>

(* A lexer that passed validation has no undefined state, and its rules of *)
(* one token have one pattern and one stack operation.                     *)
ValidLexer(lexer) ==
  /\ \A n \in DOMAIN lexer : \A rule \in lexer[n] : LexRule(rule, DOMAIN lexer)
  /\ \A n, m \in DOMAIN lexer : \A r \in lexer[n], s \in lexer[m] :
       r.token = s.token =>
         r.pattern = s.pattern /\ r.kind = s.kind /\ r.states = s.states /\ r.amount = s.amount

(* No rule of a module shadows the close token of an embed statement. *)
ExitUnshadowed(g, e) ==
  \A n \in DOMAIN g.host : \A close \in g.host[n] : close.token = e.close =>
    \A m \in DOMAIN g.modules[e.alias] : \A rule \in g.modules[e.alias][m] :
      rule.pattern = close.pattern => rule.priority < 0

Language(g) ==
  /\ ValidLexer(g.host) /\ "INITIAL" \in DOMAIN g.host
  /\ DOMAIN g.modules \subseteq Aliases
  /\ \A a \in DOMAIN g.modules : ValidLexer(g.modules[a])
  /\ Len(g.embeds) \in Nat /\ DOMAIN g.embeds = 1..Len(g.embeds)
  /\ g.embeds = [i \in 1..Len(g.embeds) |-> g.embeds[i]]
  /\ \A i \in 1..Len(g.embeds) :
       g.embeds[i].alias \in DOMAIN g.modules /\ ExitUnshadowed(g, g.embeds[i])

ASSUME EmbedLexerAssumption ==
  /\ MaxModes \in Nat
  /\ Host \notin Aliases
  /\ \A g \in Grammars : Language(g)

VARIABLES
  grammar,   \* the language; never changes
  spec,      \* the lexer spec: its states, each with its rules
  pending,   \* the modules whose lexer is not merged yet
  embeds,    \* the embed statements whose handoff is not injected yet
  stack,     \* the running lexer's modes; empty while compiling
  owed       \* history: the handoffs not returned from, and where each returns

vars == <<grammar, spec, pending, embeds, stack, owed>>

References(prefix, names) == [i \in 1..Len(names) |-> Name(prefix, names[i])]

(* constructLexRule *)
Constructed(prefix, rule) ==
  [rule EXCEPT !.token = Name(prefix, @), !.states = References(prefix, @)]

(* compileLexerSpec *)
Compiled(prefix, lexer) ==
  [s \in {Name(prefix, n) : n \in DOMAIN lexer} |->
     {Constructed(prefix, rule) : rule \in lexer[s[2]]}]

Merged(one, other) ==
  [s \in DOMAIN one \cup DOMAIN other |-> IF s \in DOMAIN other THEN other[s] ELSE one[s]]

HostStates == {s \in DOMAIN spec : s[1] = Host}
-----------------------------------------------------------------------------
Init ==
  /\ grammar \in Grammars
  /\ spec = Compiled(Host, grammar.host)
  /\ pending = DOMAIN grammar.modules
  /\ embeds = grammar.embeds
  /\ stack = <<>>
  /\ owed = <<>>

(* compileEmbeddedLexerSpecs takes the modules in map order. *)
CompileModule(alias) ==
  /\ alias \in pending
  /\ spec' = Merged(spec, Compiled(alias, grammar.modules[alias]))
  /\ pending' = pending \ {alias}
  /\ UNCHANGED <<grammar, embeds, stack, owed>>

(* Mutant: the module is entered below the states the rule itself pushes. *)
WithEntryBelow(rule, e) ==
  IF rule.kind \in {"none", "push"} /\ rule.token = Name(Host, e.open)
  THEN [rule EXCEPT !.kind = "push", !.states = <<Root(e.alias)>> \o @]
  ELSE rule

(* The rule with the entry push: a rule that pops or sets is left as it is. *)
WithEntry(rule, e) ==
  IF rule.kind \in {"none", "push"} /\ rule.token = Name(Host, e.open)
  THEN [rule EXCEPT !.kind = "push", !.states = Append(@, Root(e.alias))]
  ELSE rule

InjectEntry(sp, e) == [s \in DOMAIN sp |-> {WithEntry(rule, e) : rule \in sp[s]}]

(* Mutant: the close token is looked for in the start state only. *)
CloseRulesOfInitial(sp, e) ==
  {rule \in sp[Root(Host)] : rule.token = Name(Host, e.close)}

CloseRules(sp, e) ==
  UNION {{rule \in sp[s] : rule.token = Name(Host, e.close)} : s \in DOMAIN sp}

(* Mutant: the exit rule pops the module's caller as well. *)
ExitOf(close) ==
  [close EXCEPT !.priority = MaxPriority, !.kind = "pop", !.states = <<>>, !.amount = 2]

Exit(close) ==
  [close EXCEPT !.priority = MaxPriority, !.kind = "pop", !.states = <<>>, !.amount = 1]

(* The pattern is that of the first rule found for the close token; the    *)
(* rules of one token have one pattern (V_LEX: consistency across states). *)
InjectExit(sp, e) ==
  IF CloseRules(sp, e) = {} THEN sp
  ELSE LET close == CHOOSE rule \in CloseRules(sp, e) : TRUE
       IN  [sp EXCEPT ![Root(e.alias)] = @ \cup {Exit(close)}]

InjectHandoff ==
  /\ pending = {}
  /\ embeds # <<>>
  /\ spec' = InjectExit(InjectEntry(spec, Head(embeds)), Head(embeds))
  /\ embeds' = Tail(embeds)
  /\ UNCHANGED <<grammar, pending, stack, owed>>

Begin ==
  /\ pending = {} /\ embeds = <<>> /\ stack = <<>>
  /\ stack' = <<Root(Host)>>
  /\ UNCHANGED <<grammar, spec, pending, embeds, owed>>
-----------------------------------------------------------------------------
(* Of the rules of the top mode that match the text, the lexer takes one of *)
(* the highest priority.                                                   *)
Matching(state, text) == {rule \in spec[state] : rule.pattern = text}
Winners(state, text) ==
  {rule \in Matching(state, text) :
     \A other \in Matching(state, text) : other.priority <= rule.priority}

(* The rule as the host's author wrote it, before the injection. *)
Written(rule) ==
  CHOOSE w \in UNION {Compiled(Host, grammar.host)[s] : s \in HostStates} :
    w.token = rule.token

OpensEmbed(rule) ==
  \E i \in 1..Len(grammar.embeds) : rule.token = Name(Host, grammar.embeds[i].open)
EmbedOpenedBy(rule) ==
  grammar.embeds[CHOOSE i \in 1..Len(grammar.embeds) :
                   rule.token = Name(Host, grammar.embeds[i].open)]
ClosesEmbed(rule) == TopMode(stack)[1] # Host /\ rule.token[1] = Host

LexToken(text) ==
  /\ stack # <<>>
  /\ \E rule \in Winners(TopMode(stack), text) :
       /\ stack' = AfterRule(stack, rule)
       /\ ~TooDeep(stack')
       /\ owed' =
            IF ClosesEmbed(rule) THEN SubSeq(owed, 1, Len(owed) - 1)
            ELSE IF OpensEmbed(rule)
            THEN Append(owed, [alias |-> EmbedOpenedBy(rule).alias,
                               back  |-> AfterRule(stack, Written(rule))])
            ELSE owed
  /\ UNCHANGED <<grammar, spec, pending, embeds>>

Texts == {rule.pattern : rule \in UNION {spec[s] : s \in DOMAIN spec}}

Next ==
  \/ \E alias \in Aliases : CompileModule(alias)
  \/ InjectHandoff
  \/ Begin
  \/ \E text \in Texts : LexToken(text)

Spec == Init /\ [][Next]_vars
-----------------------------------------------------------------------------
(* What a language has to do so that the handoff works, and no check asks. *)

(* A module has a root mode, and pops only what it pushed onto it: the     *)
(* level of a mode is the number of modes that are surely below it.        *)
KeepsRoot(lexer) ==
  /\ "INITIAL" \in DOMAIN lexer
  /\ \E level \in [DOMAIN lexer -> 0..MaxModes] :
      /\ level["INITIAL"] = 0
      /\ \A n \in DOMAIN lexer : \A rule \in lexer[n] :
           /\ rule.kind = "pop" => Frames(rule.amount) <= level[n]
           /\ rule.kind = "set" => 1 <= level[n]
           /\ \A i \in 1..Len(rule.states) :
                /\ rule.states[i] # "INITIAL"
                /\ level[rule.states[i]] <= level[n] + i - (IF rule.kind = "set" THEN 1 ELSE 0)

(* The rules of an open token take the entry, and it enters one module. *)
OpensEnter(g) ==
  /\ \A i \in 1..Len(g.embeds) : \A n \in DOMAIN g.host : \A rule \in g.host[n] :
       rule.token = g.embeds[i].open => rule.kind \in {"none", "push"}
  /\ \A i, j \in 1..Len(g.embeds) : g.embeds[i].open = g.embeds[j].open => i = j

HandsOver(g) == OpensEnter(g) /\ \A a \in DOMAIN g.modules : KeepsRoot(g.modules[a])

(* The host lexes the close tokens, and those of one module differ in more than the name. *)
Closes(g) ==
  /\ \A i \in 1..Len(g.embeds) : \E n \in DOMAIN g.host : \E rule \in g.host[n] :
       rule.token = g.embeds[i].close
  /\ \A i, j \in 1..Len(g.embeds) : \A n, m \in DOMAIN g.host :
       \A r \in g.host[n], s \in g.host[m] :
         /\ g.embeds[i].alias = g.embeds[j].alias
         /\ r.token = g.embeds[i].close /\ s.token = g.embeds[j].close /\ r.pattern = s.pattern
         => r.token = s.token

Lexing == stack # <<>>
Innermost == owed[Len(owed)]

(* From the open token until its close token the lexer is in the modes of  *)
(* the embedded module, above the modes the host left for its return.      *)
OwnershipInside ==
  owed # <<>> =>
    LET depth == Len(Innermost.back) IN
      /\ Len(stack) > depth
      /\ SubSeq(stack, 1, depth) = Innermost.back
      /\ \A i \in (depth + 1)..Len(stack) : stack[i][1] = Innermost.alias

(* In the root mode of the module the text of the close token can only be  *)
(* lexed as that token: no rule of the module takes it.                    *)
WayOut ==
  Lexing /\ owed # <<>> =>
    \A i \in 1..Len(grammar.embeds) :
      LET e == grammar.embeds[i] IN
        TopMode(stack) = Root(e.alias) /\ e.alias = Innermost.alias =>
          \E text \in Texts :
            /\ Winners(Root(e.alias), text) # {}
            /\ \A rule \in Winners(Root(e.alias), text) : rule.token = Name(Host, e.close)

(* The close token takes the lexer back to the modes the host had at the   *)
(* open token (docs/syntax.md, 7.1: "host -> embedded -> host").           *)
HandoffReturns ==
  [][Len(owed') < Len(owed) => stack' = Innermost.back]_vars
=============================================================================
