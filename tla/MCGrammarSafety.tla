-------------------------- MODULE MCGrammarSafety --------------------------
(* Instances of GrammarSafety: every package of two rules whose bodies are  *)
(* built from a few elements, and choices of guarded arms.                  *)
EXTENDS GrammarSafety, TLC

Node(kind, children) ==
  [kind |-> kind, children |-> children, target |-> "", token |-> "",
   min |-> 0, max |-> Unbounded, guard |-> <<>>, path |-> TRUE]

Tok(t) == [Node("token", <<>>) EXCEPT !.token = t]
Virtual(t) == [Tok(t) EXCEPT !.path = FALSE]
Ref(r) == [Node("reference", <<>>) EXCEPT !.target = r]
Cat(s) == Node("concat", s)
Alt(s) == Node("choice", s)
Opt(g) == Node("optional", <<g>>)
Star(g) == Node("repeat", <<g>>)
Times(g, n) == [Node("repeat", <<g>>) EXCEPT !.min = n, !.max = n]
Nest(t, g) == [Node("nest", <<g>>) EXCEPT !.token = t]
Predict(g, guard) == [g EXCEPT !.guard = guard]
See(n, t) == [offset |-> n, expected |-> t]

Elements == {Tok("a"), Ref("A"), Ref("PROGRAM"), Opt(Tok("a")), Star(Tok("a"))}

Bodies ==
  Elements
    \cup {Cat(<<x, y>>) : x, y \in Elements}
    \cup {Alt(<<x, Tok("b")>>) : x \in Elements}
    \cup {Star(Cat(<<Tok("b"), x>>)) : x \in Elements}
    \cup {Star(Opt(Ref("A"))), Star(Ref("A")), Times(Ref("A"), 2), Nest("b", Ref("PROGRAM")),
          Cat(<<Virtual("a"), Ref("A")>>),
          Cat(<<Star(Cat(<<Tok("b"), Tok("a")>>)), Opt(Tok("b"))>>)}

Package(program, a) ==
  [Grammars |-> ("PROGRAM" :> program @@ "A" :> a), TokensUsed |-> {"a", "b"}]

(* The arms of a choice that all start with a, with guards further on. *)
Guards == {<<>>, <<See(1, "a")>>, <<See(1, "b")>>, <<See(3, "b")>>, <<See(1, "a"), See(2, "b")>>}
Guarded == {Predict(Tok("a"), g) : g \in Guards}
GuardedChoices ==
  {Package(Alt(<<x, y>>), Tok("b")) : x, y \in Guarded}
    \cup {Package(Alt(<<x, Predict(Tok("b"), <<>>), Ref("A")>>), y) : x, y \in Guarded}

LoweredPackages == {Package(p, a) : p, a \in Bodies} \cup GuardedChoices

=============================================================================
