--------------------------- MODULE MCRuleLowering ---------------------------
(***************************************************************************)
(* Hosts and modules for the model checker.  The host has PROGRAM and up   *)
(* to two more rules, the library A up to two rules, a pair and a template,*)
(* the module E is embedded; B is a library that A imports.                *)
(***************************************************************************)
EXTENDS RuleLowering

Rule(n) == [k |-> "rule", to |-> n]
Ref(n) == [k |-> "ref", to |-> n]
Tok(n) == [k |-> "token", to |-> n]
Ahead(n) == [k |-> "ahead", to |-> n]
Sync(n) == [k |-> "sync", to |-> n]
Pair(n) == [k |-> "pair", to |-> n]
Op(n) == [k |-> "operator", to |-> n]
Param(i) == [k |-> "param", to |-> i]
Call(n, args) == [k |-> "call", to |-> n, args |-> args]
Using(m, n) == [k |-> "using", from |-> m, to |-> n]
UsingPair(m, n) == [k |-> "usingPair", from |-> m, to |-> n]
UsingCall(m, n, args) == [k |-> "usingCall", from |-> m, to |-> n, args |-> args]
Embed(m, a, b) == [k |-> "embed", from |-> m, open |-> a, close |-> b]
Bare(m) == [k |-> "bare", from |-> m]
Unfitting(what) == [k |-> "unfit", what |-> what]
Template(params, body) == [params |-> params, body |-> body]

Lex(tokens) == [t \in tokens |-> {}]

Empty == [library |-> TRUE, imports |-> {}, embeds |-> {}, rules |-> <<>>, first |-> "", pratt |-> <<>>,
          locals |-> {}, pairs |-> <<>>, templates |-> <<>>, lex |-> <<>>, states |-> {}, exports |-> {}]

World(host, a, b, e) ==
    [files |-> ("host" :> host) @@ ("A" :> a) @@ ("B" :> b) @@ ("E" :> e), order |-> <<"B", "A", "E">>]

Wrap(S) == {<<e>> : e \in S}

HostOf(program, x) ==
    [Empty EXCEPT !.library = FALSE, !.imports = {"A", "E"}, !.embeds = {"E"},
                  !.rules = ("PROGRAM" :> program) @@ ("X" :> x) @@ ("Y" :> <<Tok("t")>>), !.first = "PROGRAM",
                  !.pairs = ("H" :> <<"t", "u">>), !.lex = Lex({"t", "u"}), !.states = {"S"},
                  !.templates = ("T" :> Template(<<"Rule", "Token">>, <<Param(1), Param(2), Rule("Y")>>)),
                  !.pratt = ("Q" :> <<Rule("Y"), Op("u"), Op("X")>>)]

Library(x, z) ==
    [Empty EXCEPT !.rules = ("X" :> x) @@ ("Z" :> z), !.first = "X", !.exports = {"X", "P", "T"},
                  !.imports = {"B"}, !.pairs = ("P" :> <<"t", "u">>), !.lex = ("t" :> {"S"}) @@ ("u" :> {}) @@ ("v" :> {}),
                  !.templates = ("T" :> Template(<<"Rule">>, <<Param(1), Tok("t"), Rule("Z")>>))
                                @@ ("S" :> Template(<<"Token">>, <<Param(1)>>)),
                  !.pratt = ("R" :> <<Rule("X"), Op("t")>>)]

Deep(x) == [Empty EXCEPT !.rules = ("X" :> x), !.first = "X", !.exports = {"X", "P"}, !.pairs = ("P" :> <<"t", "v">>),
                         !.lex = Lex({"t", "v"})]

Program0 == [Empty EXCEPT !.library = FALSE, !.lex = Lex({"t"}),
                          !.rules = ("PROGRAM" :> <<Tok("t"), Rule("X")>>) @@ ("X" :> <<Tok("t")>>), !.first = "X"]

PlainA == Library(<<Tok("t"), Rule("Z")>>, <<Tok("u")>>)
PlainB == Deep(<<Tok("t")>>)

\* What the host may say, with modules that are plain.
Says == {Rule("X"), Ref("X"), Rule("Q"), Tok("t"), Ahead("w"), Sync("t"), Pair("H"), Call("T", <<"X", "u">>),
         Using("A", "X"), UsingPair("A", "P"), UsingCall("A", "T", <<"X">>), UsingCall("A", "T", <<"Y">>), Embed("E", "t", "u")}
Wrongs == {Rule("T"), Rule("u"), Rule("W"), Ref("W"), Tok("w"), Tok("X"), Pair("W"), Call("T", <<"X">>), Call("T", <<"u", "X">>),
           Call("W", <<>>), Param(1), Using("A", "Z"), Using("A", "T"), Using("B", "X"), UsingPair("A", "X"),
           UsingCall("A", "X", <<>>), UsingCall("A", "T", <<"W">>), Embed("A", "t", "u"), Embed("E", "w", "u")}

Hosts == {HostOf(p, x) : p \in Wrap(Says \union Wrongs) \union {<<c, d>> : c, d \in Says}, x \in {<<Tok("u")>>, <<Rule("PROGRAM")>>}}
         \union {HostOf(<<c, Tok("u")>>, <<d>>) : c \in {Rule("X"), Rule("Y"), Using("A", "X")}, d \in Says}

PlainHost == HostOf(<<Using("A", "X"), Embed("E", "t", "u"), Rule("Y")>>, <<Using("A", "X")>>)
UsingHost == HostOf(<<Using("A", "X"), Embed("E", "t", "u")>>, <<Using("A", "X")>>)
CallingHost == HostOf(<<UsingCall("A", "T", <<"Y">>), UsingPair("A", "P")>>, <<Using("A", "X"), Using("A", "X")>>)

\* What the rules of the library may say, with hosts that use them.
ASays == {Rule("X"), Rule("Z"), Ref("Z"), Ref("W"), Rule("W"), Rule("Y"), Rule("R"), Tok("t"), Tok("v"), Ahead("t"), Sync("t"),
          Pair("P"), Call("T", <<"Z">>), Call("S", <<"v">>), Using("B", "X"), UsingPair("B", "P"), UsingCall("A", "T", <<"X">>),
          Embed("E", "t", "u")}
Libraries == {Library(<<c>>, z) : c \in ASays, z \in {<<Tok("u")>>, <<Rule("X"), Tok("v")>>, <<Using("B", "X")>>, <<Rule("Y")>>}}
             \union {Library(<<c, d>>, <<Tok("u"), Rule("Z")>>) : c, d \in {Rule("X"), Rule("Z"), Using("B", "X"), Pair("P")}}

\* What the template of the library may say; it may take a name for a rule that is a token of the host.
OpenLibrary(c) ==
    [Library(<<Tok("t")>>, <<Tok("t")>>) EXCEPT !.lex = ("t" :> {"S"}) @@ ("v" :> {}), !.pairs = ("P" :> <<"t", "t">>),
                                                !.templates = ("T" :> Template(<<"Rule">>, <<Param(1), c>>))]
\* The host embeds the library it uses the template of, too.
EmbeddingHost == [CallingHost EXCEPT !.embeds = {"A", "E"}]
OpenLibraries == {OpenLibrary(c) : c \in ASays \union {Ref("u"), Ref("Y")}}

OtherHosts ==
    {[PlainHost EXCEPT !.lex = Lex({"t", "u", "Z"})], [PlainHost EXCEPT !.lex = Lex({"t"})], [PlainHost EXCEPT !.states = {}],
     [PlainHost EXCEPT !.pairs = ("H" :> <<"t", "w">>)], [PlainHost EXCEPT !.rules = ("X" :> <<Rule("Y")>>), !.first = "X"],
     [PlainHost EXCEPT !.locals = {"Q"}], [HostOf(<<Rule("Q")>>, <<Tok("u")>>) EXCEPT !.locals = {"Q"}],
     [PlainHost EXCEPT !.pratt = ("Q" :> <<Rule("Y"), Op("w")>>)], [PlainHost EXCEPT !.pratt = ("X" :> <<Rule("Y")>>)],
     [PlainHost EXCEPT !.templates = ("T" :> Template(<<>>, <<Call("T", <<>>)>>))],
     [PlainHost EXCEPT !.templates = ("T" :> Template(<<>>, <<Param(1)>>))]}

Embedded ==
    {Program0, [Program0 EXCEPT !.lex = Lex({"t", "u"}), !.rules = ("PROGRAM" :> <<Tok("u"), Rule("PROGRAM")>>), !.first = "PROGRAM"],
     [Deep(<<Tok("t"), Rule("X"), Rule("X")>>) EXCEPT !.exports = {}],
     [Empty EXCEPT !.lex = Lex({"t"})], [Program0 EXCEPT !.rules = ("X" :> <<Tok("t")>>)],
     [Program0 EXCEPT !.pairs = ("P" :> <<"t", "t">>), !.rules = ("PROGRAM" :> <<Pair("P"), Sync("t"), Ahead("t")>>), !.first = "PROGRAM"]}

\* The library embeds the program too, as F, with delimiters the host may not have.
Embedding(c) ==
    LET w == World(PlainHost, [Library(<<Rule("Z")>>, <<Embed("F", "t", c)>>) EXCEPT !.imports = {"B", "F"}, !.embeds = {"F"}],
                   PlainB, Program0)
    IN  [files |-> w.files @@ ("F" :> Program0), order |-> <<"F">> \o w.order]

\* B imports the file of A, as C: a cycle.
Cycle ==
    LET w == World(PlainHost, PlainA, [PlainB EXCEPT !.imports = {"C"}], Program0)
    IN  [files |-> w.files @@ ("C" :> PlainA), order |-> <<"C">> \o w.order]

\* Templates of the host that expand each other, use a module, or name rules.
NestedHosts ==
    {[HostOf(<<Call("T", <<"X", "u">>)>>, <<Tok("t")>>) EXCEPT
        !.templates = ("T" :> Template(<<"Rule", "Token">>, <<c, Param(2)>>)) @@ ("V" :> Template(<<"Rule">>, <<d, Param(1)>>))] :
       c \in {Call("V", <<"X">>), Call("V", <<"Y">>), Using("A", "X"), UsingCall("A", "T", <<"Y">>), Rule("Y"), Ref("Q")},
       d \in {Tok("t"), Rule("Y"), Call("T", <<"X", "u">>)}}

\* The library gives a rule of its own to a template of B, which takes it for an expression of the host.
Capturing ==
    LET b == [PlainB EXCEPT !.exports = {"T"}, !.rules = ("W" :> <<Tok("t")>>), !.first = "W",
                            !.templates = ("T" :> Template(<<"Rule">>, <<Param(1)>>))]
        h == [HostOf(<<Using("A", "X")>>, <<Tok("t")>>) EXCEPT !.pratt = ("Z" :> <<Rule("Y"), Op("u")>>)]
    IN  World(h, Library(<<UsingCall("B", "T", <<"Z">>)>>, <<Tok("t")>>), b, Program0)

\* What no check refuses, in the rules and pratt expressions of the host, behind
\* other elements, in a template, in the library and in the embedded module.
BadNumber == Unfitting("number")
UnfitHosts ==
    {HostOf(<<c, d>>, <<Tok("u")>>) : c \in {Rule("X"), Using("A", "X")}, d \in {BadNumber, Unfitting("alternative")}}
    \union {[HostOf(<<Call("T", <<"X", "u">>)>>, <<Tok("t")>>) EXCEPT
              !.templates = ("T" :> Template(<<"Rule", "Token">>, <<Param(1), c>>))] : c \in {Unfitting("parameter"), Bare("E")}}
    \union {[HostOf(<<Rule("X")>>, <<c>>) EXCEPT !.pratt = ("Q" :> <<Rule("Y"), BadNumber, Op("u")>>)] :
              c \in {Tok("t"), Rule("Q"), Bare("E"), Bare("A")}}
UnfitLibraries == {Library(<<c>>, <<Tok("u"), BadNumber>>) : c \in {Rule("Z"), Tok("t"), Unfitting("alternative")}}
UnfitEmbedded ==
    {[Program0 EXCEPT !.rules = ("PROGRAM" :> <<Ahead("t"), BadNumber>>), !.first = "PROGRAM"], [Empty EXCEPT !.lex = Lex({"t"})]}

MCWorlds ==
    {World(h, PlainA, PlainB, Program0) : h \in Hosts \union OtherHosts \union NestedHosts}
    \union {World(h, a, b, Program0) : h \in {UsingHost, CallingHost}, a \in Libraries, b \in {PlainB, Deep(<<Rule("X"), Tok("v")>>)}}
    \union {World(h, a, PlainB, Program0) : h \in {CallingHost, EmbeddingHost}, a \in OpenLibraries}
    \union {World(PlainHost, PlainA, PlainB, e) : e \in Embedded}
    \union {World(h, PlainA, PlainB, Program0) : h \in UnfitHosts}
    \union {World(h, a, PlainB, Program0) : h \in {UsingHost, CallingHost}, a \in UnfitLibraries}
    \union {World(h, PlainA, PlainB, e) : h \in {PlainHost, HostOf(<<Bare("E")>>, <<Tok("t")>>)}, e \in UnfitEmbedded}
    \union {Embedding(c) : c \in {"u", "v"}} \union {Cycle, Capturing}
=============================================================================
