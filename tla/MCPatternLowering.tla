------------------------- MODULE MCPatternLowering -------------------------
(***************************************************************************)
(* Files for the model checker: every package of three patterns in which   *)
(* each is a text, one reference or two, and small files, one for every    *)
(* kind of element and of lexer rule.                                      *)
(***************************************************************************)
EXTENDS PatternLowering, TLC

Text == [k |-> "text"]
Ref(n) == [k |-> "ref", to |-> n]
Rep(a, b) == [k |-> "repeat", min |-> a, max |-> b]

LexRule(t, how, n) ==
    [token |-> t, eof |-> FALSE, how |-> how, name |-> n, priority |-> {}, op |-> "none", to |-> <<>>, amount |-> {}]
Op(r, op, to) == [r EXCEPT !.op = op, !.to = to]

Block(states, rules) == [states |-> states, rules |-> rules]
FileOf(defs, groups) == [library |-> FALSE, defs |-> defs, locals |-> {}, exports |-> {}, groups |-> groups]
Library(defs) == [FileOf(defs, <<>>) EXCEPT !.library = TRUE, !.exports = {1}]

OneRule(r) == <<Block(<<"INITIAL">>, <<r>>)>>
Small(elements) == FileOf((1 :> elements), OneRule(LexRule("a", "ref", 1)))

\* Every graph of three patterns, all exported or used by a rule of their own.
Shapes == {<<Text>>} \union {<<Ref(n)>> : n \in Names} \union {<<Ref(1), Ref(2)>>, <<Ref(2), Ref(3)>>, <<Ref(3), Ref(1)>>}
Webs == {FileOf(d, OneRule(LexRule("a", "ref", 1))) : d \in [{1, 2, 3} -> Shapes]}

Elements ==
    {Text, [k |-> "regex", valid |-> TRUE], [k |-> "regex", valid |-> FALSE],
     [k |-> "range", chars |-> TRUE], [k |-> "range", chars |-> FALSE]}
    \union {[k |-> "not", of |-> o] : o \in {"chars", "range", "other"}}
    \union {Rep(a, b) : a, b \in {{}, {0}, {2}, {3}}}

Lexers ==
    LET a == LexRule("a", "regex", 1)
        b == LexRule("b", "ref", 1)
        two(r, s, t) == <<Block(<<"INITIAL">>, <<r, s>>), Block(<<"S", "T">>, <<t>>)>>
        ops == {Op(a, "none", <<>>), Op(a, "push", <<"S">>), Op(a, "set", <<"S", "T">>), Op(a, "push", <<>>),
                Op(a, "push", <<"U">>), Op(a, "push", <<"T">>), [Op(a, "pop", <<>>) EXCEPT !.amount = {1}],
                [Op(a, "pop", <<>>) EXCEPT !.amount = {3}]}
    IN  {two(r, b, s) : r, s \in ops} \union {two(r, Op(b, "push", <<"S", "T">>), s) : r, s \in ops}
        \union {<<Block(<<"INITIAL", "S">>, <<r, s>>)>> :
                  r \in {a, [a EXCEPT !.eof = TRUE], LexRule("a", "none", 1), [a EXCEPT !.priority = {3}]},
                  s \in {Op(b, "set", <<"S">>), [Op(b, "set", <<"S">>) EXCEPT !.priority = {1}],
                         [Op(a, "set", <<"S">>) EXCEPT !.token = "c"]}}
        \union {<<Block(<<"S">>, <<Op(b, "push", <<"S">>)>>)>>, <<Block(<<"INITIAL">>, <<b>>), Block(<<"INITIAL">>, <<a>>)>>}

SmallHosts ==
    {Small(<<e>>) : e \in Elements} \union {FileOf((1 :> <<Text>>), g) : g \in Lexers}
    \union {[Small(<<Text>>) EXCEPT !.locals = {1}], Small(<<Ref(2)>>),
            FileOf((1 :> <<Text>>), OneRule(LexRule("a", "ref", 2))),
            FileOf((1 :> <<Text>>), OneRule(LexRule("a", "malformed", 1))),
            [FileOf((1 :> <<Text>>), OneRule(LexRule("a", "ref", 2))) EXCEPT !.library = TRUE],
            [Small(<<Ref(2)>>) EXCEPT !.library = TRUE]}
    \union {FileOf((1 :> <<Text>> @@ 2 :> <<Ref(1)>>), OneRule(LexRule("a", "using", n))) : n \in {1, 2}}

Importer == FileOf((1 :> <<Text>>), <<Block(<<"INITIAL">>,
                <<LexRule("a", "using", 1), LexRule("b", "ref", 1), Op(LexRule("c", "using", 2), "pop", <<>>)>>)>>)

Plain == [Library((1 :> <<Text>> @@ 2 :> <<Ref(1), Ref(1)>>)) EXCEPT !.exports = {1, 2}]
UsedModules ==
    {Plain, Library((1 :> <<Ref(2)>>)), Library((1 :> <<Ref(1)>>)),
     [Library((1 :> <<Ref(2)>> @@ 2 :> <<Text>> @@ 3 :> <<Text>>)) EXCEPT !.locals = {2, 3}, !.exports = {1}],
     [Library((1 :> <<Ref(2)>> @@ 2 :> <<[k |-> "range", chars |-> FALSE]>>)) EXCEPT !.exports = {1, 2}]}

UsesOne == FileOf((1 :> <<Text>>), OneRule(LexRule("a", "using", 1)))

MCFiles == ((Webs \union SmallHosts) \X {Plain}) \union ({Importer, UsesOne} \X UsedModules)
MCNames == 1 .. 3
=============================================================================
