---------------------------- MODULE MCEmbedLexer ----------------------------
(***************************************************************************)
(* Hosts with two modes, whose open token may push a mode of its own and   *)
(* be lexed in one mode or in both, and whose close token may be lexed in  *)
(* either; modules with an inner mode, with and without a rule for the     *)
(* text of the close token; one embed statement, two of different modules, *)
(* and one whose open and close token are the same.                        *)
(***************************************************************************)
EXTENDS EmbedLexer

Rule(token, pattern, priority, kind, states, amount) ==
  [token |-> token, pattern |-> pattern, priority |-> priority, kind |-> kind,
   states |-> states, amount |-> amount]
Plain(token) == Rule(token, token, 0, "none", <<>>, 0)

Opens == {Plain("open"), Rule("open", "open", 0, "push", <<"STR">>, 0)}

HostLexer(open, both, closeIn) ==
  [n \in {"INITIAL", "STR"} |->
     (IF n = "INITIAL"
        THEN {open, Plain("open2"), Rule("str", "str", 0, "push", <<"STR">>, 0),
              Rule("swap", "swap", 0, "set", <<"STR">>, 0)}
        ELSE {Rule("unstr", "unstr", 0, "pop", <<>>, 1)} \cup (IF both THEN {open} ELSE {}))
     \cup (IF n \in closeIn THEN {Plain("close")} ELSE {})]

(* A module pops only what it pushed. *)
ModuleLexer(taken) ==
  [n \in {"INITIAL", "INNER"} |->
     IF n = "INITIAL"
       THEN {Plain("word"), Rule("in", "in", 0, "push", <<"INNER">>, 0)}
              \cup (IF taken THEN {Rule("any", "close", -1, "none", <<>>, 0)} ELSE {})
       ELSE {Rule("out", "out", 0, "pop", <<>>, 1),
             Rule("again", "again", 0, "set", <<"INNER">>, 0)}]

Embed(alias, open, close) == [alias |-> alias, open |-> open, close |-> close]

CONSTANTS A, B
MCAliases == {A, B}

Hosts == {HostLexer(open, both, closeIn) : open \in Opens, both \in BOOLEAN,
            closeIn \in {{"INITIAL"}, {"STR"}, {"INITIAL", "STR"}}}

Languages(statements) ==
  {[host |-> h, modules |-> [m \in MCAliases |-> ModuleLexer(taken)], embeds |-> e] :
     h \in Hosts, taken \in BOOLEAN, e \in statements}

MCGrammars ==
  Languages({<<Embed(A, "open", "close")>>,
             <<Embed(A, "open", "close"), Embed(B, "open2", "close")>>,
             <<Embed(A, "open", "open"), Embed(B, "open2", "close")>>})

(* All of them hand over and take back: what the proofs suppose of a language. *)
ASSUME \A g \in MCGrammars : HandsOver(g) /\ Closes(g)

=============================================================================
