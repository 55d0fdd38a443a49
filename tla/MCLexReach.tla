---------------------------- MODULE MCLexReach ----------------------------
(***************************************************************************)
(* Grammars of two contexts, lexers of three states.  The token move goes  *)
(* between the states in every way the stack operations allow, some of     *)
(* which grow without end; word is made in any of them, with two patterns  *)
(* and two priorities.                                                     *)
(***************************************************************************)
EXTENDS LexReach, TLC

CONSTANTS c1, c2, word, move, re1, re2

MCModes == {"INITIAL", "M", "N"}

Rule(mode, token, regex, priority, kind, states, amount) ==
  [mode |-> mode, token |-> token, regex |-> regex, priority |-> priority,
   kind |-> kind, states |-> states, amount |-> amount]

Moves(mode) ==
  {Rule(mode, move, re2, 0, "push", <<"M">>, 0)} \cup
  (CASE mode = "INITIAL" -> {Rule(mode, move, re2, 0, "push", <<"M", "N">>, 0)}
     [] mode = "M" -> {Rule(mode, move, re2, 0, "set", <<"N">>, 0), Rule(mode, move, re2, 0, "pop", <<>>, 0)}
     [] mode = "N" -> {Rule(mode, move, re2, 0, "pop", <<>>, 2)})

Makers(mode) ==
  {<<>>} \cup {<<Rule(mode, word, x[1], x[2], "none", <<>>, 0)>> : x \in {<<re1, 0>>, <<re1, 1>>, <<re2, 1>>}}
    \cup (IF mode # "INITIAL" THEN {} ELSE
          {<<Rule(mode, word, re1, 1, "none", <<>>, 0), Rule(mode, word, re2, 0, "none", <<>>, 0)>>})

RulesOf(mode) == {a \o <<b>> : a \in Makers(mode), b \in Moves(mode)}

Lexers == [INITIAL : RulesOf("INITIAL"), M : RulesOf("M"), N : RulesOf("N")]

On(token, targets) == [token |-> token, targets |-> targets]
Grammars ==
  {(c1 :> <<On(move, <<c1>>), On(word, <<c2>>)>>) @@ (c2 :> <<On(word, <<NoContext>>)>>),
   (c1 :> <<On(move, <<c2, c1>>)>>) @@ (c2 :> <<On(word, <<>>)>>)}

Language(root, transitions, rules) == [root |-> root, transitions |-> transitions, rules |-> rules]

MCLanguages ==
  {Language(c1, g, l) : g \in Grammars, l \in Lexers}
    \cup {Language(NoContext, g, [m \in MCModes |-> <<>>]) : g \in Grammars}
=============================================================================
