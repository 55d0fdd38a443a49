-------------------------- MODULE MCSublimeStates --------------------------
(* Small editor machines: all machines of three states over a few shapes   *)
(* of states, chains of four, and six states whose lists can be shared;    *)
(* and the machines that are built of small graphs, with a context that    *)
(* sorts behind the root and one that recovers.                            *)
EXTENDS EditorStates

MCOrder == <<"a", "bb", "c", "d", "e", "lex__INITIAL", "lex__m", "main", "z">>
MCModes == {"lex__INITIAL", "lex__m"}
MCLength == [n \in Range(MCOrder) |-> CASE n = "bb" -> 2 [] n = "main" -> 4 [] n \in MCModes -> 6 [] OTHER -> 1]
MCNoForeign == [id |-> "", dress |-> ""]
MCForeigns == {[id |-> "html", dress |-> ""], [id |-> "html", dress |-> "red"]}

T(lexeme, op, targets, amount) ==
  [lexeme |-> lexeme, op |-> op, targets |-> targets, amount |-> amount,
   foreign |-> NoForeign, lexOp |-> "none", lexModes |-> <<>>, lexAmount |-> 0]
Pushes(lexeme, l) == T(lexeme, "push", <<l>>, 0)
Sets(lexeme, l) == T(lexeme, "set", <<l>>, 0)
Pops(lexeme) == T(lexeme, "pop", <<>>, 1)
Stays(lexeme) == T(lexeme, "none", <<>>, 0)
Embeds(lexeme, f) == [T(lexeme, "embed", <<>>, 0) EXCEPT !.foreign = f]
EntersMode(t) == [t EXCEPT !.lexOp = "push", !.lexModes = <<"lex__m">>]
LeavesMode(t) == [t EXCEPT !.lexOp = "pop", !.lexAmount = 1]

S(meta, imm, rules) == [meta |-> meta, frame |-> "plain", imm |-> imm, rules |-> rules]
Plain(rules) == S(NoMeta, NoState, rules)

(* The mode has one rule, which may leave it; or the machine has no modes. *)
MCModeRules == {[m \in {"lex__m"} |-> <<Stays("x"), LeavesMode(Stays("y"))>>]}
NoModes == [m \in {} |-> <<>>]

Shapes ==
  {Plain(<<>>)}
  \cup {Plain(<<Pushes("x", "bb"), Pops("y")>>)}
  \cup {Plain(<<Sets("x", l)>>) : l \in {"a", "bb", "c"}}
  \cup {Plain(<<Pushes("x", "a"), Pushes("x", "bb"), Stays("y")>>)}
  \cup {S("m1", NoState, <<Sets("x", "bb")>>)}
  \cup {S("m2", NoState, <<Pops("y")>>), S(NoMeta, "bb", <<Pops("x")>>)}
  \cup {Plain(<<EntersMode(Stays("x")), LeavesMode(Sets("y", "a"))>>)}

MainShapes ==
  Shapes \cup {Plain(<<Pushes("x", "a"), Pushes("y", "bb")>>), S("m1", NoState, <<Sets("x", "bb"), Sets("y", "a")>>)}

(* Every machine of main and two more states; "c" is always missing. *)
SmallMachines ==
  {[states |-> [main |-> r, a |-> s, bb |-> t], ambient |-> <<>>, modes |-> CHOOSE m \in MCModeRules : TRUE] :
     r \in MainShapes, s \in Shapes, t \in Shapes}

Forks(l, k) == Plain(<<Pushes("x", l), Pushes("x", k), Stays("y")>>)
Leaves(f) == Plain(<<Embeds("x", f), Pops("y")>>)

SharedShapes == {Forks("d", "e"), Forks("e", "d"), Plain(<<Stays("x"), Pops("y")>>)} \cup {Leaves(f) : f \in Foreigns}

(* main leads to a, bb and c, whose lists may be shared. *)
SharingMachines ==
  {[states |-> [main |-> Plain(<<Pushes("x", "a"), Pushes("y", "bb"), Sets("z", "c")>>),
                a |-> [r EXCEPT !.frame = "pops"], bb |-> s, c |-> [t EXCEPT !.meta = "m1"],
                d |-> Plain(<<Pops("x")>>), e |-> Plain(<<Pops("y")>>)],
    ambient |-> am, modes |-> NoModes] :
     r \in SharedShapes, s \in SharedShapes, t \in SharedShapes, am \in {<<>>, <<Pushes("z", "d"), Stays("z")>>}}

(* Sets that lead from one of four states to another, so that states and *)
(* their targets are merged together, or told apart only after rounds.   *)
Links ==
  {Plain(<<Sets("x", l)>>) : l \in {"a", "bb", "c"}}
    \cup {S("m1", NoState, <<Sets("x", "c")>>), S("m2", NoState, <<Pops("y")>>)}
ChainMachines ==
  {[states |-> [main |-> S("m1", NoState, <<Sets("x", "bb")>>), a |-> r, bb |-> s, c |-> t],
    ambient |-> <<>>, modes |-> NoModes] : r \in Links, s \in Links, t \in Links}

(* Graphs.  Token 1 is matched by x, 2 by y, 3 is a comment of the lexer.  *)
MCSeen(pattern, how, peek) ==
  CASE how = "ahead" -> pattern \o " ahead"
    [] how = "match" -> IF peek = "" THEN pattern ELSE pattern \o " before " \o peek
MCLexemes ==
  {"x", "y", "z"} \cup {MCSeen(p, h, k) : p \in {"x", "y", "open", "close"}, h \in {"match", "ahead"}, k \in {"", "y"}}

G(token, op, targets) ==
  [token |-> token, op |-> op, targets |-> targets, amount |-> 0, recovery |-> FALSE, peek |-> "", rule |-> token]
Recovers(token) == [G(token, "sync ahead", <<>>) EXCEPT !.recovery = TRUE]
Guards(t) == [t EXCEPT !.peek = "y"]
Unbound(t) == [t EXCEPT !.rule = 0]

LexerRule(token, mode, priority, pattern, lexOp) ==
  [token |-> token, mode |-> mode, priority |-> priority, pattern |-> pattern, lexOp |-> lexOp,
   lexModes |-> IF lexOp = "push" THEN <<"lex__m">> ELSE <<>>, lexAmount |-> 0]
LexerRules(p) ==
  <<LexerRule(1, "lex__INITIAL", 1, "x", "none"), LexerRule(2, "lex__INITIAL", p, "y", "push"),
    LexerRule(3, "lex__INITIAL", 0, "z", "none"), LexerRule(2, "lex__m", p, "y", "pop")>>

OverrideOf(kind, pattern) ==
  [pattern |-> pattern, kind |-> kind, foreign |-> IF kind = "foreign" THEN CHOOSE f \in MCForeigns : TRUE ELSE NoForeign,
   label |-> IF kind = "delimited" THEN "d" ELSE NoState, body |-> NoMeta, close |-> "close"]
Comment == <<OverrideOf("delimited", "open")>>
(* Without a body to push and with one, and another override. *)
Extras ==
  {[body |-> NoState, overrides |-> [t \in {3} |-> Comment]],
   [body |-> "bb", overrides |-> [t \in {2, 3} |-> IF t = 3 THEN Comment ELSE <<OverrideOf("foreign", "nopattern")>>]]}

(* What the root and another context do, in the orders of discovery. *)
Roots ==
  {<<G(1, "push", <<"a">>), G(2, "push", <<"a">>)>>, <<G(1, "push", <<"a">>), G(2, "set", <<"z">>)>>,
   <<G(1, "set", <<"bb">>), Unbound(G(2, "push", <<"a">>))>>}
Steps == {Recovers(1), G(1, "pop", <<>>), Guards(G(1, "set", <<"bb">>)), G(2, "push", <<"bb">>)}
Discoveries ==
  {<<s, t>> : s \in Steps, t \in Steps}
    \cup {d \in {<<s, t, u>> : s \in Steps, t \in Steps, u \in Steps} : IsInjective(d)}

SmallGraphs ==
  {[contexts |-> {"main", "a", "bb", "z"}, optional |-> {"bb"}, meta |-> [c \in {"main", "a", "bb", "z"} |-> NoMeta],
    body |-> [c \in {"main", "a", "bb", "z"} |-> IF c = "a" THEN e.body ELSE NoState],
    transitions |-> [main |-> r, a |-> d, bb |-> <<G(1, "pop", <<>>)>>, z |-> <<G(2, "push", <<"a">>)>>],
    rules |-> LexerRules(p), overrides |-> e.overrides, grammar |-> {1, 2}] :
     r \in Roots, d \in Discoveries, p \in {0, 1}, e \in Extras}

(* Two contexts that do the same, of which one leads to what sorts behind the root. *)
BehindTheRoot ==
  [main |-> <<G(1, "push", <<"bb">>), G(2, "push", <<"c">>)>>,
   bb |-> <<G(1, "set", <<"z">>)>>, c |-> <<G(1, "set", <<"bb">>)>>, z |-> <<G(2, "pop", <<>>)>>]

(* Two contexts that may each go two ways by one token, one of them to bb. *)
TwoWays ==
  [main |-> <<G(1, "push", <<"a">>), G(2, "push", <<"c">>)>>,
   a |-> <<G(1, "push", <<"d">>), G(1, "push", <<"e">>), G(2, "pop", <<>>)>>,
   c |-> <<G(1, "push", <<"e">>), G(1, "push", <<"bb">>), G(2, "pop", <<>>)>>,
   d |-> <<G(1, "pop", <<>>)>>, e |-> <<G(2, "pop", <<>>)>>, bb |-> <<G(1, "pop", <<>>), G(2, "pop", <<>>)>>]

GraphOf(ts) ==
  [contexts |-> DOMAIN ts, optional |-> {}, meta |-> [c \in DOMAIN ts |-> NoMeta],
   body |-> [c \in DOMAIN ts |-> NoState], transitions |-> ts,
   rules |-> LexerRules(0), overrides |-> [t \in {} |-> <<>>], grammar |-> {1, 2}]

MCGraphs == SmallGraphs \cup {GraphOf(BehindTheRoot), GraphOf(TwoWays)}
MCMachines ==
  SmallMachines \cup ChainMachines \cup SharingMachines \cup {EditorIR(g) : g \in MCGraphs}
=============================================================================
