------------------------- MODULE RuleLoweringProofs -------------------------
(***************************************************************************)
(* What holds of the lowering of every host with every table of modules.   *)
(*                                                                         *)
(* The symbols of the imports are collected along every import path, with  *)
(* nothing that notices a path that comes back (compiled_symbol_table.go). *)
(* Paths says that what is walked are paths of imports; one that is longer *)
(* than there are modules meets a module twice, so that PrefixLimit, which *)
(* stands for never, refuses no table of modules without a cycle.          *)
(*                                                                         *)
(* Tokens and panics: Checked says that past the validation every file has *)
(* passed its checks, Stacked that each item still to be compiled is an    *)
(* element of a validated file, in a frame that belongs to that file, or   *)
(* an argument that was checked in the file that gave it.  From both, what *)
(* an item asks of the lexer is declared, and an action that can panic     *)
(* does so for the reasons of PanicsAreGaps.                               *)
(*                                                                         *)
(* References: Homing says of a registry that is not finished what each    *)
(* label is defined as, and of each reference what it leads to or which    *)
(* frame of the stack will define it.                                      *)
(*                                                                         *)
(* Warnings: Tracing says of each item of the stack in which body, so many *)
(* usings away from the rule of the host, or in which template expanded in *)
(* it, it stands, or where it was given.  The usings on the way follow a   *)
(* path of imports; all paths were walked before the lowering, which is    *)
(* why none of them is longer than there are modules, and the validator,   *)
(* which goes that far, saw every name the compiler refers to.             *)
(***************************************************************************)
EXTENDS RuleLowering, FiniteSetTheorems, WellFoundedInduction, TLAPS

IsPath(q) ==
    /\ q \in Seq(Table(world)) /\ Len(q) > 0
    /\ \A i \in 1 .. (Len(q) - 1) : q[i + 1] \in File(q[i]).imports

Paths ==
    /\ world \in Worlds
    /\ \A q \in prefixes : IsPath(q)
    /\ phase = "endless" => \E q \in prefixes : Len(q) > PrefixLimit

\* A path goes on by what its last module imports.
LEMMA PathGoesOn ==
    ASSUME world \in Worlds, NEW q, IsPath(q), NEW a \in File(Last(q)).imports
    PROVE  IsPath(Append(q, a)) /\ Len(Append(q, a)) = Len(q) + 1 /\ Last(Append(q, a)) = a
<1>1. q \in Seq(Table(world)) /\ Len(q) \in Nat /\ Len(q) > 0
  BY DEF IsPath
<1>2. Last(q) = q[Len(q)] /\ q[Len(q)] \in Table(world)
  BY <1>1 DEF Last
<1>3. a \in Table(world)
  BY <1>2, WorldAssumption DEF File, Table
<1>4. /\ Append(q, a) \in Seq(Table(world)) /\ Len(Append(q, a)) = Len(q) + 1
      /\ \A i \in 1 .. (Len(q) + 1) : Append(q, a)[i] = IF i = Len(q) + 1 THEN a ELSE q[i]
  BY <1>1, <1>3
<1>5. ASSUME NEW i \in 1 .. Len(q)  PROVE Append(q, a)[i + 1] \in File(Append(q, a)[i]).imports
  <2>1. Append(q, a)[i] = q[i]
    BY <1>1, <1>4
  <2>2. CASE i = Len(q)
    <3>1. Append(q, a)[i + 1] = a
      BY <1>1, <1>4, <2>2
    <3> QED
      BY <1>2, <2>1, <2>2, <3>1
  <2>3. CASE i # Len(q)
    <3>1. i \in 1 .. (Len(q) - 1) /\ Append(q, a)[i + 1] = q[i + 1]
      BY <1>1, <1>4, <2>3
    <3> QED
      BY <1>1, <2>1, <3>1 DEF IsPath
  <2> QED
    BY <2>2, <2>3
<1>6. IsPath(Append(q, a))
  BY <1>1, <1>4, <1>5 DEF IsPath
<1>7. Last(Append(q, a)) = a
  BY <1>1, <1>4 DEF Last
<1> QED
  BY <1>4, <1>6, <1>7

\* A path longer than there are modules meets one of them twice.
LEMMA LongPathComesBack ==
    ASSUME world \in Worlds, NEW q, IsPath(q), Len(q) > Cardinality(Table(world))
    PROVE  \E i, j \in DOMAIN q : i < j /\ q[i] = q[j] /\ q[i + 1] \in File(q[i]).imports
<1>1. /\ q \in [1 .. Len(q) -> Table(world)] /\ Len(q) \in Nat
      /\ DOMAIN q = 1 .. Len(q)
  BY DEF IsPath
<1>2. IsFiniteSet(1 .. Len(q)) /\ Cardinality(1 .. Len(q)) = Len(q)
  <2>1. /\ IsFiniteSet(1 .. Len(q))
        /\ Cardinality(1 .. Len(q)) = IF 1 > Len(q) THEN 0 ELSE Len(q) - 1 + 1
    BY <1>1, FS_Interval
  <2> QED
    BY <1>1, <2>1
<1>3. /\ IsFiniteSet(Table(world)) /\ Cardinality(Table(world)) \in Nat
      /\ Cardinality(Table(world)) < Len(q)
  <2>1. IsFiniteSet(Table(world))
    BY PrefixAssumption
  <2>2. Cardinality(Table(world)) \in Nat
    BY <2>1, FS_CardinalityType
  <2> QED
    BY <1>1, <2>1, <2>2
<1>4. PICK i, j \in 1 .. Len(q) : i # j /\ q[i] = q[j]
  BY <1>1, <1>2, <1>3, FS_PigeonHole
<1>5. PICK m, n \in 1 .. Len(q) : m < n /\ q[m] = q[n]
  <2>1. i < j \/ j < i
    BY <1>1, <1>4
  <2> QED
    BY <1>4, <2>1
<1>6. q[m + 1] \in File(q[m]).imports
  <2>1. m \in 1 .. (Len(q) - 1)
    BY <1>1, <1>5
  <2> QED
    BY <2>1 DEF IsPath
<1> QED
  BY <1>1, <1>5, <1>6

LEMMA PathsInit == Init => Paths
<1> SUFFICES ASSUME Init  PROVE Paths
  OBVIOUS
<1>1. ASSUME NEW a \in Table(world)  PROVE IsPath(<<a>>)
  BY <1>1 DEF IsPath
<1> QED
  BY <1>1 DEF Init, Paths

LEMMA CollectPaths ==
    ASSUME Paths, CollectSymbols
    PROVE  Paths'
<1>1. ASSUME NEW p \in Deeper  PROVE IsPath(p)
  <2>1. PICK q \in prefixes : \E a \in File(Last(q)).imports : p = Append(q, a)
    BY DEF Deeper
  <2> QED
    BY <2>1, PathGoesOn DEF Paths
<1>2. prefixes' = Deeper /\ world' = world
  BY DEF CollectSymbols
<1>3. \A q \in prefixes' : IsPath(q)'
  BY <1>1, <1>2 DEF IsPath, File
<1>4. phase' = "endless" => \E q \in Deeper : Len(q) > PrefixLimit
  BY DEF CollectSymbols
<1> QED
  BY <1>2, <1>3, <1>4 DEF Paths

\* Every other step leaves the import paths as they are.
LEMMA PathsNext ==
    ASSUME Paths, [Next]_vars
    PROVE  Paths'
<1>1. ASSUME UNCHANGED <<world, prefixes>>, phase' = phase \/ phase' # "endless"
      PROVE  Paths'
  <2>1. \A q : IsPath(q)' = IsPath(q)
    BY <1>1 DEF IsPath, File
  <2> QED
    BY <1>1, <2>1 DEF Paths
<1>2. CASE CollectSymbols
  BY <1>2, CollectPaths
<1>3. CASE CheckFile
  <2>1. phase' # "endless"
    BY <1>3 DEF CheckFile
  <2> QED
    BY <1>1, <1>3, <2>1 DEF CheckFile
<1>4. CASE Begin \/ Finish \/ AllLowered
  BY <1>1, <1>4 DEF Begin, Finish, AllLowered
<1>5. CASE Finished \/ UNCHANGED vars
  BY <1>1, <1>5 DEF Finished, vars
<1>6. CASE RuleReference \/ Reference \/ OpenReference
  BY <1>1, <1>6 DEF RuleReference, Reference, OpenReference, ReferTo, Panic
<1>7. CASE TokenMatch \/ Lookahead \/ SyncToken \/ NestPair \/ NestUsingPair
  BY <1>1, <1>7 DEF TokenMatch, Lookahead, SyncToken, NestPair, NestUsingPair, Expect
<1>8. CASE Operator
  BY <1>1, <1>8 DEF Operator, Expect, ReferTo
<1>9. CASE UseRule
  BY <1>1, <1>9 DEF UseRule, Panic
<1>10. CASE ExpandCall \/ UseTemplate
  BY <1>1, <1>10 DEF ExpandCall, UseTemplate
<1>11. CASE EmbedProgram \/ EmbedBare \/ Unfit
  BY <1>1, <1>11 DEF EmbedProgram, EmbedBare, Unfit, Panic
<1> QED
  BY <1>2, <1>3, <1>4, <1>5, <1>6, <1>7, <1>8, <1>9, <1>10, <1>11 DEF Next

(* For every table of modules: the symbols of the imports are collected for *)
(* ever only on a cycle of imports (collectImportedTokensRecursive).        *)
THEOREM EndlessOnCyclesOnly == Spec => []OnlyCyclesAreEndless
<1>1. ASSUME Paths  PROVE OnlyCyclesAreEndless
  <2> SUFFICES ASSUME NEW q \in prefixes, Len(q) > PrefixLimit, IsPath(q), world \in Worlds
               PROVE  \E i, j \in DOMAIN q : i < j /\ q[i] = q[j] /\ q[i + 1] \in File(q[i]).imports
    BY <1>1 DEF Paths, OnlyCyclesAreEndless
  <2>1. Len(q) > Cardinality(Table(world))
    <3>1. IsFiniteSet(Table(world)) /\ Cardinality(Table(world)) < PrefixLimit /\ PrefixLimit \in Nat
      BY PrefixAssumption
    <3> QED
      BY <3>1, FS_CardinalityType DEF IsPath
  <2> QED
    BY <2>1, LongPathComesBack
<1>2. Paths /\ [Next]_vars => Paths'
  BY PathsNext
<1> QED
  BY <1>1, <1>2, PathsInit, PTL DEF Spec
----------------------------------------------------------------------------
(* Sequences and the set of what is in them. *)

IsSeq(s) == s \in Seq(ToSet(s))

LEMMA SeqIsSeq ==
    ASSUME NEW S, NEW s \in Seq(S)
    PROVE  IsSeq(s) /\ ToSet(s) \subseteq S /\ Len(s) \in Nat /\ DOMAIN s = 1 .. Len(s)
<1>1. s \in [1 .. Len(s) -> S] /\ Len(s) \in Nat
  OBVIOUS
<1>2. s \in [1 .. Len(s) -> ToSet(s)]
  BY <1>1 DEF ToSet
<1>3. s \in Seq(ToSet(s))
  BY <1>1, <1>2
<1> QED
  BY <1>1, <1>3 DEF IsSeq, ToSet

LEMMA FunctionIsSeq ==
    ASSUME NEW n \in Nat, NEW S, NEW f \in [1 .. n -> S]
    PROVE  IsSeq(f) /\ ToSet(f) \subseteq S
<1>1. f \in Seq(S)
  OBVIOUS
<1> QED
  BY <1>1, SeqIsSeq

LEMMA TailIsSeq ==
    ASSUME NEW s, IsSeq(s), s # <<>>
    PROVE  /\ Head(s) \in ToSet(s) /\ IsSeq(Tail(s)) /\ ToSet(Tail(s)) \subseteq ToSet(s)
           /\ \A x \in ToSet(s) : x = Head(s) \/ x \in ToSet(Tail(s))
<1>1. /\ s \in Seq(ToSet(s)) /\ Len(s) \in Nat \ {0} /\ DOMAIN s = 1 .. Len(s)
      /\ Tail(s) \in Seq(ToSet(s)) /\ Len(Tail(s)) = Len(s) - 1
      /\ \A i \in 1 .. (Len(s) - 1) : Tail(s)[i] = s[i + 1]
      /\ Head(s) = s[1]
  BY DEF IsSeq
<1>2. IsSeq(Tail(s)) /\ ToSet(Tail(s)) \subseteq ToSet(s) /\ DOMAIN Tail(s) = 1 .. (Len(s) - 1)
  BY <1>1, SeqIsSeq
<1>3. Head(s) \in ToSet(s)
  BY <1>1 DEF ToSet
<1>4. ASSUME NEW i \in 1 .. Len(s), i # 1  PROVE s[i] \in ToSet(Tail(s))
  <2>1. i - 1 \in DOMAIN Tail(s) /\ Tail(s)[i - 1] = s[i]
    BY <1>1, <1>2, <1>4
  <2> QED
    BY <2>1 DEF ToSet
<1>5. ASSUME NEW x \in ToSet(s)  PROVE x = Head(s) \/ x \in ToSet(Tail(s))
  <2>1. PICK i \in 1 .. Len(s) : x = s[i]
    BY <1>1, <1>5 DEF ToSet
  <2> QED
    BY <1>1, <1>4, <2>1
<1> QED
  BY <1>2, <1>3, <1>5

LEMMA AppendIsSeq ==
    ASSUME NEW s, IsSeq(s), NEW x
    PROVE  IsSeq(Append(s, x)) /\ ToSet(Append(s, x)) \subseteq ToSet(s) \union {x}
<1>1. s \in Seq(ToSet(s) \union {x})
  <2>1. s \in [1 .. Len(s) -> ToSet(s)] /\ Len(s) \in Nat
    BY DEF IsSeq
  <2>2. s \in [1 .. Len(s) -> ToSet(s) \union {x}]
    BY <2>1
  <2> QED
    BY <2>1, <2>2
<1>2. Append(s, x) \in Seq(ToSet(s) \union {x})
  BY <1>1
<1> QED
  BY <1>2, SeqIsSeq

----------------------------------------------------------------------------
(* What validated files are like. *)

Clean(f) == f \in DOMAIN world.files /\ Errors(world, f) = {}

LEMMA CleanFile ==
    ASSUME NEW f, Clean(f)
    PROVE  /\ ~UsingWrong(world, f)
           /\ ~EmbedWrong(File(f)) /\ ~ObligationMissing(world, File(f)) /\ ~TemplateWrong(File(f))
           /\ ~TokenWrong(File(f)) /\ ~PairWrong(File(f)) /\ ~RuleRefWrong(File(f)) /\ ~Collides(File(f))
<1>1. "using" \notin Errors(world, f) /\ "embed" \notin Errors(world, f) /\ "obligation" \notin Errors(world, f)
  BY DEF Clean
<1>2. "template" \notin Errors(world, f) /\ "token" \notin Errors(world, f) /\ "pair" \notin Errors(world, f)
  BY DEF Clean
<1>3. "rule" \notin Errors(world, f) /\ "collision" \notin Errors(world, f)
  BY DEF Clean
<1> QED
  BY <1>1, <1>2, <1>3 DEF Errors, File

\* What one element of a text asks of the lexer.
Asks(p, e) == TokensIn(p, <<e>>)

LEMMA InTokens ==
    ASSUME NEW p, NEW body, NEW t
    PROVE  t \in TokensIn(p, body) <=>
               \E e \in ToSet(body) :
                   \/ e.k = "token" /\ t = e.to
                   \/ e.k = "embed" /\ t \in {e.open, e.close}
                   \/ e.k = "pair" /\ e.to \in DOMAIN p.pairs /\ t \in ToSet(p.pairs[e.to])
<1> DEFINE tokens == {e.to : e \in OfKind(ToSet(body), {"token"})}
           delimiters == UNION {{e.open, e.close} : e \in OfKind(ToSet(body), {"embed"})}
           pairs == UNION {ToSet(p.pairs[e.to]) :
                             e \in {x \in OfKind(ToSet(body), {"pair"}) : x.to \in DOMAIN p.pairs}}
<1>1. t \in tokens <=> \E e \in ToSet(body) : e.k = "token" /\ t = e.to
  BY DEF OfKind
<1>2. t \in delimiters <=> \E e \in ToSet(body) : e.k = "embed" /\ t \in {e.open, e.close}
  BY DEF OfKind
<1>3. t \in pairs <=>
        \E e \in ToSet(body) : e.k = "pair" /\ e.to \in DOMAIN p.pairs /\ t \in ToSet(p.pairs[e.to])
  BY DEF OfKind
<1>4. TokensIn(p, body) = tokens \union delimiters \union pairs
  BY DEF TokensIn
<1> HIDE DEF tokens, delimiters, pairs
<1> QED
  BY <1>1, <1>2, <1>3, <1>4

LEMMA AsksOf ==
    ASSUME NEW p, NEW e
    PROVE  /\ e.k = "token" => e.to \in Asks(p, e)
           /\ e.k = "embed" => {e.open, e.close} \subseteq Asks(p, e)
           /\ e.k = "pair" /\ e.to \in DOMAIN p.pairs => ToSet(p.pairs[e.to]) \subseteq Asks(p, e)
           /\ \A body : e \in ToSet(body) => Asks(p, e) \subseteq TokensIn(p, body)
<1>1. ToSet(<<e>>) = {e}
  BY DEF ToSet
<1>2. \A t : t \in Asks(p, e) <=>
               \/ e.k = "token" /\ t = e.to
               \/ e.k = "embed" /\ t \in {e.open, e.close}
               \/ e.k = "pair" /\ e.to \in DOMAIN p.pairs /\ t \in ToSet(p.pairs[e.to])
  BY <1>1, InTokens DEF Asks
<1> QED
  BY <1>2, InTokens

LEMMA CleanAsks ==
    ASSUME NEW f, Clean(f), NEW e \in Parsed(File(f)), NEW t \in Asks(File(f), e)
    PROVE  t \in DOMAIN File(f).lex
<1>1. ~TokenWrong(File(f))
  BY CleanFile
<1>2. ToSet(<<e>>) = {e}
  BY DEF ToSet
<1>3. \/ e.k = "token" /\ t = e.to
      \/ e.k = "embed" /\ t \in {e.open, e.close}
      \/ e.k = "pair" /\ e.to \in DOMAIN File(f).pairs /\ t \in ToSet(File(f).pairs[e.to])
  BY <1>2, InTokens DEF Asks
<1>4. CASE e.k = "token" /\ t = e.to
  BY <1>1, <1>4 DEF TokenWrong, OfKind
<1>5. CASE e.k = "embed" /\ t \in {e.open, e.close}
  <2>1. e \in Embeds(File(f))
    BY <1>5 DEF Embeds, OfKind
  <2>2. {e.open, e.close} \subseteq DOMAIN File(f).lex
    BY <1>1, <2>1 DEF TokenWrong
  <2> QED
    BY <1>5, <2>2
<1>6. CASE e.k = "pair" /\ e.to \in DOMAIN File(f).pairs /\ t \in ToSet(File(f).pairs[e.to])
  BY <1>1, <1>6 DEF TokenWrong
<1> QED
  BY <1>3, <1>4, <1>5, <1>6

----------------------------------------------------------------------------
(* Past the validation every file is clean, and the tokens of the host and *)
(* of every module have an ID of their own.                                *)

Passed == phase \notin {"check", "failed"}

Checked ==
    /\ world \in Worlds
    /\ phase = "check" =>
          /\ IsSeq(unchecked)
          /\ \A i \in DOMAIN unchecked : unchecked[i] = "host" <=> i = Len(unchecked)
          /\ ToSet(unchecked) \subseteq DOMAIN world.files /\ "host" \in ToSet(unchecked)
          /\ \A f \in DOMAIN world.files : f \in ToSet(unchecked) \/ Clean(f)
    /\ Passed => \A f \in DOMAIN world.files : Clean(f)
    /\ phase = "lower" =>
          /\ \A t \in DOMAIN Host.lex : <<"", t>> \in table
          /\ \A a \in Table(world) : \A t \in DOMAIN File(a).lex : <<a, t>> \in table

LEMMA CheckedInit == Init => Checked
<1> SUFFICES ASSUME Init  PROVE Checked
  OBVIOUS
<1>1. world \in Worlds /\ phase = "check" /\ unchecked = Append(world.order, "host")
  BY DEF Init
<1>2. /\ world.order \in Seq(Table(world)) /\ ToSet(world.order) = Table(world)
      /\ "host" \in DOMAIN world.files
  BY <1>1, WorldAssumption
<1>3. IsSeq(world.order)
  BY <1>2, SeqIsSeq
<1>4. IsSeq(unchecked) /\ ToSet(unchecked) \subseteq DOMAIN world.files
  BY <1>1, <1>2, <1>3, AppendIsSeq DEF Table
<1>5. /\ Len(unchecked) = Len(world.order) + 1 /\ Len(world.order) \in Nat
      /\ DOMAIN unchecked = 1 .. (Len(world.order) + 1)
      /\ \A i \in 1 .. (Len(world.order) + 1) :
            unchecked[i] = IF i = Len(world.order) + 1 THEN "host" ELSE world.order[i]
      /\ \A i \in 1 .. Len(world.order) : world.order[i] \in Table(world)
  BY <1>1, <1>2
<1>6. \A i \in DOMAIN unchecked : unchecked[i] = "host" <=> i = Len(unchecked)
  BY <1>5 DEF Table
<1>7. \A i \in 1 .. Len(world.order) : world.order[i] \in ToSet(unchecked)
  BY <1>5 DEF ToSet
<1>8. "host" \in ToSet(unchecked)
  BY <1>5 DEF ToSet
<1>9. \A f \in DOMAIN world.files : f \in ToSet(unchecked)
  <2>1. \A f \in Table(world) : f \in ToSet(world.order)
    BY <1>2
  <2>2. DOMAIN world.order = 1 .. Len(world.order)
    BY <1>2
  <2>3. \A f \in Table(world) : f \in ToSet(unchecked)
    BY <1>7, <2>1, <2>2 DEF ToSet
  <2> QED
    BY <1>8, <2>3 DEF Table
<1> QED
  BY <1>1, <1>4, <1>6, <1>8, <1>9 DEF Checked, Passed

LEMMA CheckFileChecked ==
    ASSUME Checked, CheckFile
    PROVE  Checked'
<1> DEFINE f == Head(unchecked)
<1>1. /\ phase = "check" /\ unchecked' = Tail(unchecked) /\ UNCHANGED world
      /\ phase' = IF Errors(world, f) # {} THEN "failed" ELSE IF f = "host" THEN "collect" ELSE "check"
  BY DEF CheckFile
<1>2. /\ IsSeq(unchecked) /\ "host" \in ToSet(unchecked) /\ ToSet(unchecked) \subseteq DOMAIN world.files
      /\ \A i \in DOMAIN unchecked : unchecked[i] = "host" <=> i = Len(unchecked)
      /\ \A g \in DOMAIN world.files : g \in ToSet(unchecked) \/ Clean(g)
      /\ world \in Worlds
  BY <1>1 DEF Checked
<1>3. unchecked # <<>>
  BY <1>2 DEF ToSet
<1>4. /\ f \in ToSet(unchecked) /\ IsSeq(Tail(unchecked)) /\ ToSet(Tail(unchecked)) \subseteq ToSet(unchecked)
      /\ \A x \in ToSet(unchecked) : x = f \/ x \in ToSet(Tail(unchecked))
  BY <1>2, <1>3, TailIsSeq
<1>5. /\ Len(unchecked) \in Nat \ {0} /\ DOMAIN unchecked = 1 .. Len(unchecked) /\ f = unchecked[1]
      /\ Len(Tail(unchecked)) = Len(unchecked) - 1 /\ DOMAIN Tail(unchecked) = 1 .. (Len(unchecked) - 1)
      /\ \A i \in 1 .. (Len(unchecked) - 1) : Tail(unchecked)[i] = unchecked[i + 1]
  BY <1>2, <1>3 DEF IsSeq
<1>6. \A g : Clean(g)' = Clean(g)
  BY <1>1 DEF Clean
<1>7. CASE Errors(world, f) # {}
  BY <1>1, <1>2, <1>7 DEF Checked, Passed
<1>8. CASE Errors(world, f) = {} /\ f = "host"
  <2>1. Len(unchecked) = 1
    BY <1>2, <1>5, <1>8
  <2>2. ToSet(Tail(unchecked)) = {}
    BY <1>5, <2>1 DEF ToSet
  <2>3. \A g \in DOMAIN world.files : Clean(g)
    BY <1>2, <1>4, <1>8, <2>2 DEF Clean
  <2> QED
    BY <1>1, <1>2, <1>6, <1>8, <2>3 DEF Checked, Passed
<1>9. CASE Errors(world, f) = {} /\ f # "host"
  <2>1. \A i \in DOMAIN Tail(unchecked) : Tail(unchecked)[i] = "host" <=> i = Len(Tail(unchecked))
    BY <1>2, <1>5
  <2>2. "host" \in ToSet(Tail(unchecked))
    BY <1>2, <1>4, <1>9
  <2>3. \A g \in DOMAIN world.files : g \in ToSet(Tail(unchecked)) \/ Clean(g)
    BY <1>2, <1>4, <1>9 DEF Clean
  <2>4. ToSet(Tail(unchecked)) \subseteq DOMAIN world.files
    BY <1>2, <1>4
  <2> QED
    BY <1>1, <1>2, <1>4, <1>6, <1>9, <2>1, <2>2, <2>3, <2>4 DEF Checked, Passed
<1> QED
  BY <1>7, <1>8, <1>9

LEMMA CollectChecked ==
    ASSUME Checked, CollectSymbols
    PROVE  Checked'
<1>1. /\ phase = "collect" /\ phase' \in {"lower", "endless", "collect"} /\ UNCHANGED world
      /\ phase' = "lower" => table' = {<<"", t>> : t \in PlainTokens} \union AliasedTokens
  BY DEF CollectSymbols
<1>2. /\ DOMAIN Host.lex \subseteq PlainTokens
      /\ \A a \in Table(world) : \A t \in DOMAIN File(a).lex : <<a, t>> \in AliasedTokens
  BY DEF PlainTokens, AliasedTokens
<1>3. Clean("host")' = Clean("host") /\ \A g : Clean(g)' = Clean(g)
  BY <1>1 DEF Clean
<1>4. Host' = Host /\ \A a : File(a)' = File(a)
  BY <1>1 DEF Host, File
<1> QED
  BY <1>1, <1>2, <1>3, <1>4 DEF Checked, Passed

LEMMA CheckedNext ==
    ASSUME Checked, [Next]_vars
    PROVE  Checked'
<1>1. ASSUME UNCHANGED <<world, unchecked, table>>,
             phase' = phase \/ (phase = "lower" /\ phase' \in {"panic", "done"})
      PROVE  Checked'
  <2>1. \A g : Clean(g)' = Clean(g) /\ File(g)' = File(g)
    BY <1>1 DEF Clean, File
  <2>2. Host' = Host
    BY <1>1 DEF Host, File
  <2> QED
    BY <1>1, <2>1, <2>2 DEF Checked, Passed
<1>2. CASE CheckFile
  BY <1>2, CheckFileChecked
<1>3. CASE CollectSymbols
  BY <1>3, CollectChecked
<1>4. CASE Begin \/ Finish \/ AllLowered
  BY <1>1, <1>4 DEF Begin, Finish, AllLowered, checking
<1>5. CASE Finished \/ UNCHANGED vars
  BY <1>1, <1>5 DEF Finished, vars, checking
<1>6. CASE RuleReference \/ Reference \/ OpenReference
  BY <1>1, <1>6 DEF RuleReference, Reference, OpenReference, ReferTo, Panic, At, checking
<1>7. CASE TokenMatch \/ Lookahead \/ SyncToken \/ NestPair \/ NestUsingPair
  BY <1>1, <1>7 DEF TokenMatch, Lookahead, SyncToken, NestPair, NestUsingPair, Expect, checking
<1>8. CASE Operator
  BY <1>1, <1>8 DEF Operator, Expect, ReferTo, checking
<1>9. CASE UseRule
  BY <1>1, <1>9 DEF UseRule, Panic, At, checking
<1>10. CASE ExpandCall \/ UseTemplate
  BY <1>1, <1>10 DEF ExpandCall, UseTemplate, checking
<1>11. CASE EmbedProgram \/ EmbedBare \/ Unfit
  BY <1>1, <1>11 DEF EmbedProgram, EmbedBare, Unfit, Panic, At, checking
<1> QED
  BY <1>2, <1>3, <1>4, <1>5, <1>6, <1>7, <1>8, <1>9, <1>10, <1>11 DEF Next

----------------------------------------------------------------------------
(* What stands on the stack.  An item is an element of the text of the file *)
(* its frame belongs to, or an argument of a template.  The text of a rule  *)
(* or template the host itself uses asks for tokens of the host only, and   *)
(* its names are looked up in its own file and the host.                    *)

Kinds == {"rule", "imported", "using", "embed", "template"}

Owner(F) == IF F.alias = "" THEN "host" ELSE F.alias

IsFrame(F) == F = Frame(F.kind, F.at, F.role, F.alias, F.env, F.rule, F.text)

FrameOK(F) ==
    /\ IsFrame(F)
    /\ F.alias \in Table(world) \union {""}
    /\ IsSeq(F.text)
    /\ IsSeq(F.env) /\ Len(F.env) > 0 /\ F.env[1] = Owner(F)
    /\ F.alias = "" => F.env = <<"host">>

ItemOK(F, x) ==
    /\ x.of \in DOMAIN world.files
    /\ x.via \in Seq(Kinds) /\ (x.via = <<>> => x.of = "host")
    /\ \/ x.e \in Elements(File(x.of)) /\ x.e.k \notin {"param", "argument"} /\ x.of = Owner(F)
       \/ x.e.k = "argument" /\ x.e.to \in DOMAIN File(x.of).lex
       \/ x.e.k = "rule"

UsedItemOK(F, x) ==
    InUsedText(x) /\ x.e.k \notin {"argument", "rule"} =>
        /\ Asks(File(x.of), x.e) \subseteq DOMAIN Host.lex
        /\ x.e.k = "ref" => ToSet(F.env) \subseteq {Owner(F), "host"}

Stacked ==
    /\ todo \subseteq DOMAIN Host.rules
    /\ IsSeq(stack)
    /\ \A F \in ToSet(stack) : FrameOK(F) /\ \A x \in ToSet(F.text) : ItemOK(F, x) /\ UsedItemOK(F, x)

Fine(F) == FrameOK(F) /\ \A x \in ToSet(F.text) : ItemOK(F, x) /\ UsedItemOK(F, x)

LEMMA TextTaken ==
    ASSUME NEW F, IsFrame(F)
    PROVE  [F EXCEPT !.text = Tail(@)] = Frame(F.kind, F.at, F.role, F.alias, F.env, F.rule, Tail(F.text))
<1> DEFINE t == Tail(F.text)
<1>1. ASSUME NEW kind, NEW at, NEW role, NEW alias, NEW env, NEW rule, NEW x, NEW y
      PROVE  [Frame(kind, at, role, alias, env, rule, x) EXCEPT !.text = y]
               = Frame(kind, at, role, alias, env, rule, y)
  BY DEF Frame
<1>2. ASSUME NEW kind, NEW at, NEW role, NEW alias, NEW env, NEW rule, NEW x, NEW y,
             F = Frame(kind, at, role, alias, env, rule, x)
      PROVE  [F EXCEPT !.text = y] = Frame(kind, at, role, alias, env, rule, y)
  BY <1>1, <1>2
<1> HIDE DEF t
<1>3. [F EXCEPT !.text = t] = Frame(F.kind, F.at, F.role, F.alias, F.env, F.rule, t)
  BY <1>2 DEF IsFrame
<1> USE DEF t
<1>4. [F EXCEPT !.text = Tail(F.text)] = [F EXCEPT !.text = Tail(@)]
  OBVIOUS
<1> QED
  BY <1>3, <1>4

\* The frame and the item at work, and what remains of the frame.
LEMMA AtWork ==
    ASSUME Stacked, NEW kinds, At(kinds)
    PROVE  /\ Ctx \in ToSet(stack) /\ Fine(Ctx) /\ Item \in ToSet(Ctx.text)
           /\ ItemOK(Ctx, Item) /\ UsedItemOK(Ctx, Item) /\ Item.e.k \in kinds
           /\ IsSeq(Rest) /\ \A F \in ToSet(Rest) : Fine(F)
<1>1. /\ IsSeq(stack) /\ stack # <<>> /\ Len(stack) \in Nat \ {0} /\ DOMAIN stack = 1 .. Len(stack)
      /\ \A F \in ToSet(stack) : Fine(F)
  BY DEF Stacked, At, IsSeq, Fine
<1>2. Ctx = stack[Len(stack)]
  BY DEF Ctx, Last
<1>3. Ctx \in ToSet(stack) /\ Fine(Ctx)
  BY <1>1, <1>2 DEF ToSet
<1>4. Ctx.text # <<>> /\ Item.e.k \in kinds /\ Item = Head(Ctx.text)
  BY DEF At, Item
<1>5. /\ Item \in ToSet(Ctx.text) /\ IsSeq(Tail(Ctx.text)) /\ ToSet(Tail(Ctx.text)) \subseteq ToSet(Ctx.text)
  BY <1>3, <1>4, TailIsSeq DEF Fine, FrameOK
<1> DEFINE short == Frame(Ctx.kind, Ctx.at, Ctx.role, Ctx.alias, Ctx.env, Ctx.rule, Tail(Ctx.text))
<1>6. [Ctx EXCEPT !.text = Tail(@)] = short
  BY <1>3, TextTaken DEF Fine, FrameOK
<1>7. /\ short = Frame(short.kind, short.at, short.role, short.alias, short.env, short.rule, short.text)
      /\ short.alias = Ctx.alias /\ short.env = Ctx.env /\ short.text = Tail(Ctx.text)
  BY DEF Frame
<1> HIDE DEF short
<1>8. Owner(short) = Owner(Ctx)
  BY <1>7 DEF Owner
<1>9. Fine(short)
  <2>1. FrameOK(short)
    BY <1>3, <1>5, <1>7, <1>8 DEF Fine, FrameOK, IsFrame
  <2>2. ASSUME NEW x \in ToSet(Tail(Ctx.text))  PROVE ItemOK(short, x) /\ UsedItemOK(short, x)
    <3>1. ItemOK(Ctx, x) /\ UsedItemOK(Ctx, x)
      BY <1>3, <1>5, <2>2 DEF Fine
    <3> QED
      BY <1>7, <1>8, <3>1 DEF ItemOK, UsedItemOK
  <2> QED
    BY <1>7, <2>1, <2>2 DEF Fine
<1>10. Rest \in [1 .. Len(stack) -> ToSet(stack) \union {short}]
  <2>1. Rest = [stack EXCEPT ![Len(stack)] = [stack[Len(stack)] EXCEPT !.text = Tail(@)]]
    BY DEF Rest
  <2>2. Rest = [stack EXCEPT ![Len(stack)] = short]
    BY <1>2, <1>6, <2>1
  <2>3. stack \in [1 .. Len(stack) -> ToSet(stack)]
    BY <1>1 DEF IsSeq
  <2> QED
    BY <1>1, <2>2, <2>3
<1>11. IsSeq(Rest) /\ ToSet(Rest) \subseteq ToSet(stack) \union {short}
  BY <1>1, <1>10, FunctionIsSeq
<1> QED
  BY <1>1, <1>3, <1>4, <1>5, <1>9, <1>11 DEF Fine

----------------------------------------------------------------------------
(* What the validated elements give to the frames that are entered. *)

Lowering == phase = "lower" /\ Checked /\ Stacked

LEMMA CleanFiles ==
    ASSUME Lowering, NEW f \in DOMAIN world.files
    PROVE  Clean(f) /\ ~UsingWrong(world, f)
           /\ ~EmbedWrong(File(f)) /\ ~ObligationMissing(world, File(f)) /\ ~TemplateWrong(File(f))
           /\ ~TokenWrong(File(f)) /\ ~PairWrong(File(f)) /\ ~RuleRefWrong(File(f)) /\ ~Collides(File(f))
<1>1. Clean(f)
  BY DEF Lowering, Checked, Passed
<1> QED
  BY <1>1, CleanFile

LEMMA WorldIs ==
    ASSUME Lowering
    PROVE  /\ "host" \in DOMAIN world.files /\ "" \notin DOMAIN world.files
           /\ \A a \in Table(world) : a # "" /\ a # "host" /\ a \in DOMAIN world.files
           /\ \A f \in DOMAIN world.files :
                 /\ File(f).embeds \subseteq File(f).imports /\ File(f).imports \subseteq Table(world)
                 /\ File(f).first \in DOMAIN File(f).rules \ {""} \/ (File(f).first = "" /\ DOMAIN File(f).rules = {})
                 /\ \A b \in RuleBodies(File(f)) \union TemplateBodies(File(f)) :
                       IsSeq(b) /\ \A e \in ToSet(b) : e.k # "argument"
                 /\ \A b \in PrattBodies(File(f)) :
                       IsSeq(b) /\ \A e \in ToSet(b) : e.k \in {"rule", "ref", "operator", "unfit"}
<1>1. world \in Worlds
  BY DEF Lowering, Checked
<1>2. "host" \in DOMAIN world.files /\ "" \notin DOMAIN world.files
  BY <1>1, WorldAssumption
<1>3. ASSUME NEW f \in DOMAIN world.files
      PROVE  /\ File(f).embeds \subseteq File(f).imports /\ File(f).imports \subseteq Table(world)
             /\ File(f).first \in DOMAIN File(f).rules \ {""} \/ (File(f).first = "" /\ DOMAIN File(f).rules = {})
             /\ \A b \in RuleBodies(File(f)) \union TemplateBodies(File(f)) :
                   IsSeq(b) /\ OfKind(ToSet(b), {"argument", "operator"}) = {}
             /\ \A b \in PrattBodies(File(f)) :
                   IsSeq(b) /\ OfKind(ToSet(b), {"rule", "ref", "operator", "unfit"}) = ToSet(b)
  BY <1>1, <1>3, WorldAssumption DEF File, IsSeq
<1>4. ASSUME NEW f \in DOMAIN world.files
      PROVE  /\ \A b \in RuleBodies(File(f)) \union TemplateBodies(File(f)) :
                   IsSeq(b) /\ \A e \in ToSet(b) : e.k # "argument"
             /\ \A b \in PrattBodies(File(f)) :
                   IsSeq(b) /\ \A e \in ToSet(b) : e.k \in {"rule", "ref", "operator", "unfit"}
  BY <1>3, <1>4 DEF OfKind
<1> QED
  BY <1>2, <1>3, <1>4 DEF Table

LEMMA BodyElements ==
    ASSUME NEW p, NEW b \in RuleBodies(p) \union TemplateBodies(p)
    PROVE  ToSet(b) \subseteq Parsed(p) /\ ToSet(b) \subseteq Elements(p)
  BY DEF Parsed, Elements

\* An element of another kind than those of the pratt expressions is parsed text.
LEMMA ParsedElement ==
    ASSUME Lowering, NEW f \in DOMAIN world.files,
           NEW e \in Elements(File(f)), e.k \notin {"rule", "ref", "operator", "unfit"}
    PROVE  e \in Parsed(File(f))
<1>1. \A b \in PrattBodies(File(f)) : e \notin ToSet(b)
  BY WorldIs
<1> QED
  BY <1>1 DEF Elements

LEMMA ItemsAre ==
    ASSUME NEW body, IsSeq(body), NEW f, NEW via
    PROVE  /\ IsSeq(Items(body, f, via)) /\ DOMAIN Items(body, f, via) = DOMAIN body
           /\ \A x \in ToSet(Items(body, f, via)) : x.of = f /\ x.via = via /\ x.e \in ToSet(body)
<1> DEFINE S == {[e |-> e, of |-> f, via |-> via] : e \in ToSet(body)}
<1>1. Len(body) \in Nat /\ DOMAIN body = 1 .. Len(body) /\ body \in [1 .. Len(body) -> ToSet(body)]
  BY DEF IsSeq
<1>2. Items(body, f, via) \in [1 .. Len(body) -> S]
  BY <1>1 DEF Items
<1>3. IsSeq(Items(body, f, via)) /\ ToSet(Items(body, f, via)) \subseteq S
  BY <1>1, <1>2, FunctionIsSeq
<1> QED
  BY <1>1, <1>2, <1>3

LEMMA LongerVia ==
    ASSUME NEW via \in Seq(Kinds), NEW kind \in Kinds
    PROVE  /\ Append(via, kind) \in Seq(Kinds) /\ Append(via, kind) # <<>>
           /\ \A k : Append(via, kind) = <<k>> => via = <<>> /\ k = kind
<1>1. /\ Append(via, kind) \in Seq(Kinds) /\ Len(Append(via, kind)) = Len(via) + 1 /\ Len(via) \in Nat
      /\ Append(via, kind)[Len(via) + 1] = kind
  OBVIOUS
<1>2. ASSUME NEW k, Append(via, kind) = <<k>>  PROVE via = <<>> /\ k = kind
  <2>1. Len(via) = 0
    BY <1>1, <1>2
  <2> QED
    BY <1>1, <1>2, <2>1
<1>3. Append(via, kind) # <<>>
  BY <1>1
<1> QED
  BY <1>1, <1>2, <1>3

----------------------------------------------------------------------------
(* The tokens that are expected. *)

Belongs(x) ==
    \/ x.alias = "" /\ x.of = "host" /\ x.how \notin Unchecked
    \/ x.alias # "" /\ x.alias = x.of /\ IsEmbed(world, x.of) /\ x.how \in {"token", "argument"}
    => x.id = <<x.alias, x.token>> /\ x.id \in Emitted

Covered(x) ==
    InUsedText(x) /\ x.how \notin Unchecked \union {"argument", "usingPair"} => x.token \in DOMAIN Host.lex

LEMMA OwnToken ==
    ASSUME Lowering, NEW t
    PROVE  /\ t \in DOMAIN Host.lex => TokenId("", t) = <<"", t>> /\ <<"", t>> \in Emitted
           /\ \A a \in Table(world) :
                 t \in DOMAIN File(a).lex => TokenId(a, t) = <<a, t>> /\ (IsEmbed(world, a) => <<a, t>> \in Emitted)
<1>1. /\ \A u \in DOMAIN Host.lex : <<"", u>> \in table
      /\ \A a \in Table(world) : \A u \in DOMAIN File(a).lex : <<a, u>> \in table
  BY DEF Lowering, Checked
<1>2. \A a \in Table(world) : a # ""
  BY WorldIs
<1>3. t \in DOMAIN Host.lex => <<"", t>> \in Emitted
  BY DEF Emitted
<1>4. ASSUME NEW a \in Table(world), t \in DOMAIN File(a).lex, IsEmbed(world, a)  PROVE <<a, t>> \in Emitted
  <2>1. {a} \X DOMAIN File(a).lex \in {{b} \X DOMAIN File(b).lex : b \in {c \in Table(world) : IsEmbed(world, c)}}
    BY <1>4
  <2>2. <<a, t>> \in {a} \X DOMAIN File(a).lex
    BY <1>4
  <2> QED
    BY <2>1, <2>2 DEF Emitted
<1> QED
  BY <1>1, <1>2, <1>3, <1>4 DEF TokenId

LEMMA ExpectationBelongs ==
    ASSUME Lowering, NEW alias \in Table(world) \union {""}, NEW t,
           alias = "" /\ Item.of = "host" /\ Item.e.k \notin Unchecked => t \in DOMAIN Host.lex,
           alias # "" /\ alias = Item.of /\ Item.e.k \in {"token", "argument"} => t \in DOMAIN File(alias).lex
    PROVE  Belongs(Expectation(alias, t))
<1> DEFINE x == Expectation(alias, t)
<1>1. /\ x.id = TokenId(alias, t) /\ x.token = t /\ x.how = Item.e.k
      /\ x.alias = alias /\ x.of = Item.of /\ x.via = Item.via
  BY DEF Expectation
<1>2. ASSUME alias = "", t \in DOMAIN Host.lex  PROVE x.id = <<x.alias, x.token>> /\ x.id \in Emitted
  BY <1>1, <1>2, OwnToken
<1>3. ASSUME alias # "", t \in DOMAIN File(alias).lex, IsEmbed(world, alias)
      PROVE  x.id = <<x.alias, x.token>> /\ x.id \in Emitted
  BY <1>1, <1>3, OwnToken
<1> HIDE DEF x
<1>4. Belongs(x)
  BY <1>1, <1>2, <1>3 DEF Belongs
<1> QED
  BY <1>4 DEF x

LEMMA ExpectationCovered ==
    ASSUME NEW alias, NEW t,
           InUsedText(Item) /\ Item.e.k \notin Unchecked \union {"argument", "usingPair"} => t \in DOMAIN Host.lex
    PROVE  Covered(Expectation(alias, t))
  BY DEF Covered, Expectation, InUsedText

\* The owner of the frame is the file of the environment that is asked first.
LEMMA OwnerIs ==
    ASSUME Lowering, NEW kinds, At(kinds)
    PROVE  /\ Owner(Ctx) \in DOMAIN world.files
           /\ Ctx.alias \in Table(world) \union {""}
           /\ Owner(Ctx) = "host" => Ctx.alias = "" /\ Ctx.env = <<"host">>
           /\ Ctx.alias # "" => Owner(Ctx) = Ctx.alias
           /\ IsSeq(Ctx.env) /\ Len(Ctx.env) > 0 /\ Len(Ctx.env) \in Nat \ {0} /\ DOMAIN Ctx.env = 1 .. Len(Ctx.env)
           /\ Ctx.env[1] = Owner(Ctx) /\ Head(Ctx.env) = Owner(Ctx)
<1>1. Fine(Ctx)
  BY AtWork DEF Lowering
<1>2. /\ Ctx.alias \in Table(world) \union {""} /\ IsSeq(Ctx.env) /\ Len(Ctx.env) > 0 /\ Ctx.env[1] = Owner(Ctx)
      /\ Ctx.alias = "" => Ctx.env = <<"host">>
  BY <1>1 DEF Fine, FrameOK
<1>3. /\ "host" \in DOMAIN world.files
      /\ \A a \in Table(world) : a # "" /\ a # "host" /\ a \in DOMAIN world.files
  BY WorldIs
<1>4. Owner(Ctx) \in DOMAIN world.files /\ (Owner(Ctx) = "host" => Ctx.alias = "")
  BY <1>2, <1>3 DEF Owner
<1>5. Len(Ctx.env) \in Nat \ {0} /\ DOMAIN Ctx.env = 1 .. Len(Ctx.env) /\ Head(Ctx.env) = Ctx.env[1]
  <2>1. ASSUME NEW s, IsSeq(s), Len(s) > 0
        PROVE  Len(s) \in Nat \ {0} /\ DOMAIN s = 1 .. Len(s) /\ Head(s) = s[1]
    BY <2>1 DEF IsSeq
  <2> HIDE DEF Ctx
  <2> QED
    BY <1>2, <2>1
<1> QED
  BY <1>2, <1>4, <1>5 DEF Owner

LEMMA WrittenItem ==
    ASSUME Lowering, NEW kinds, At(kinds), "rule" \notin kinds, "argument" \notin kinds
    PROVE  /\ Item.of = Owner(Ctx) /\ Item.e \in Elements(File(Item.of)) /\ Item.of \in DOMAIN world.files
           /\ Item.e.k \in kinds
           /\ InUsedText(Item) =>
                 /\ Asks(File(Item.of), Item.e) \subseteq DOMAIN Host.lex
                 /\ Item.e.k = "ref" => ToSet(Ctx.env) \subseteq {Owner(Ctx), "host"}
<1>1. ItemOK(Ctx, Item) /\ UsedItemOK(Ctx, Item) /\ Item.e.k \in kinds
  BY AtWork DEF Lowering
<1>2. Item.e.k # "rule" /\ Item.e.k # "argument"
  BY <1>1
<1> QED
  BY <1>1, <1>2 DEF ItemOK, UsedItemOK

LEMMA ParsedItem ==
    ASSUME Lowering, NEW kinds, At(kinds), kinds \intersect {"rule", "ref", "operator", "unfit", "argument"} = {}
    PROVE  /\ Item.e \in Parsed(File(Item.of)) /\ Item.of = Owner(Ctx) /\ Item.of \in DOMAIN world.files
           /\ Item.e.k \in kinds
           /\ Asks(File(Item.of), Item.e) \subseteq DOMAIN File(Item.of).lex
           /\ InUsedText(Item) => Asks(File(Item.of), Item.e) \subseteq DOMAIN Host.lex
<1>1. /\ Item.of = Owner(Ctx) /\ Item.e \in Elements(File(Item.of)) /\ Item.of \in DOMAIN world.files
      /\ Item.e.k \in kinds
      /\ InUsedText(Item) => Asks(File(Item.of), Item.e) \subseteq DOMAIN Host.lex
  BY WrittenItem
<1>2. Item.e \in Parsed(File(Item.of))
  BY <1>1, ParsedElement
<1>3. Clean(Item.of)
  BY <1>1, CleanFiles
<1>4. Asks(File(Item.of), Item.e) \subseteq DOMAIN File(Item.of).lex
  BY <1>2, <1>3, CleanAsks
<1> QED
  BY <1>1, <1>2, <1>4

LEMMA MatchedToken ==
    ASSUME Lowering, TokenSite
    PROVE  Belongs(Expectation(Ctx.alias, Item.e.to)) /\ Covered(Expectation(Ctx.alias, Item.e.to))
<1> DEFINE t == Item.e.to
<1>1. At({"token"}) \/ At({"argument"}) \/ (At({"ref"}) /\ TokenInEnv(t))
  BY DEF TokenSite, At
<1>2. CASE At({"token"})
  <2>1. /\ Item.e.k = "token" /\ Item.of = Owner(Ctx) /\ Item.of \in DOMAIN world.files
        /\ Asks(File(Item.of), Item.e) \subseteq DOMAIN File(Item.of).lex
        /\ InUsedText(Item) => Asks(File(Item.of), Item.e) \subseteq DOMAIN Host.lex
    BY <1>2, ParsedItem
  <2>2. t \in Asks(File(Item.of), Item.e)
    BY <2>1, AsksOf
  <2>3. Ctx.alias \in Table(world) \union {""} /\ (Ctx.alias # "" => Owner(Ctx) = Ctx.alias)
    BY <1>2, OwnerIs
  <2>4. t \in DOMAIN File(Item.of).lex /\ (InUsedText(Item) => t \in DOMAIN Host.lex)
    BY <2>1, <2>2
  <2>5. Belongs(Expectation(Ctx.alias, t))
    BY <2>1, <2>3, <2>4, ExpectationBelongs DEF Host
  <2> QED
    BY <2>4, <2>5, ExpectationCovered
<1>3. CASE At({"argument"})
  <2>1. ItemOK(Ctx, Item) /\ Item.e.k = "argument"
    BY <1>3, AtWork DEF Lowering
  <2>2. t \in DOMAIN File(Item.of).lex
    BY <2>1 DEF ItemOK
  <2>3. Ctx.alias \in Table(world) \union {""}
    BY <1>3, OwnerIs
  <2>4. Belongs(Expectation(Ctx.alias, t))
    BY <2>2, <2>3, ExpectationBelongs DEF Host
  <2> QED
    BY <2>1, <2>4, ExpectationCovered
<1>4. CASE At({"ref"}) /\ TokenInEnv(t)
  <2>1. /\ Item.e.k = "ref" /\ Item.of = Owner(Ctx) /\ Item.of \in DOMAIN world.files
        /\ Item.e \in Elements(File(Item.of))
        /\ InUsedText(Item) => ToSet(Ctx.env) \subseteq {Owner(Ctx), "host"}
    BY <1>4, WrittenItem
  <2>2. /\ Ctx.alias \in Table(world) \union {""} /\ DOMAIN Ctx.env = 1 .. Len(Ctx.env)
        /\ Owner(Ctx) = "host" => Ctx.alias = "" /\ Ctx.env = <<"host">>
        /\ Ctx.alias = "" => Owner(Ctx) = "host"
    BY <1>4, OwnerIs DEF Owner
  <2>3. ~RuleRefWrong(File(Item.of))
    BY <2>1, CleanFiles
  <2>4. Item.e \in RuleRefs(File(Item.of))
    BY <2>1 DEF RuleRefs, OfKind
  <2>5. KindOf(File(Item.of), t) # "token"
    BY <2>3, <2>4 DEF RuleRefWrong
  <2>6. t \notin DOMAIN File(Item.of).lex
    BY <2>5 DEF KindOf
  <2>7. PICK i \in DOMAIN Ctx.env : t \in DOMAIN File(Ctx.env[i]).lex
    BY <1>4 DEF TokenInEnv
  <2>8. Ctx.env[i] \in ToSet(Ctx.env)
    BY <2>7 DEF ToSet
  <2>9. Owner(Ctx) # "host"
    <3>1. SUFFICES ASSUME Ctx.env = <<"host">>, Item.of = "host"  PROVE FALSE
      BY <2>1, <2>2
    <3>2. Ctx.env[i] = "host"
      BY <2>7, <3>1
    <3> QED
      BY <2>6, <2>7, <3>1, <3>2
  <2>10. Ctx.alias # ""
    BY <2>2, <2>9
  <2>11. Belongs(Expectation(Ctx.alias, t))
    BY <2>1, <2>2, <2>10, ExpectationBelongs
  <2>12. InUsedText(Item) => t \in DOMAIN Host.lex
    BY <2>1, <2>6, <2>7, <2>8 DEF Host
  <2> QED
    BY <2>11, <2>12, ExpectationCovered
<1> QED
  BY <1>1, <1>2, <1>3, <1>4

LEMMA PairIsOwn ==
    ASSUME Lowering, At({"pair"})
    PROVE  /\ ToSet(PairOf(Item.e.to)) \subseteq DOMAIN File(Item.of).lex
           /\ InUsedText(Item) => ToSet(PairOf(Item.e.to)) \subseteq DOMAIN Host.lex
<1> DEFINE n == Item.e.to
           Found(i) == HasPair(n, i) /\ \A j \in 1 .. (i - 1) : ~HasPair(n, j)
<1>1. /\ Item.e \in Parsed(File(Item.of)) /\ Item.of = Owner(Ctx) /\ Item.of \in DOMAIN world.files
      /\ Item.e.k = "pair"
      /\ Asks(File(Item.of), Item.e) \subseteq DOMAIN File(Item.of).lex
      /\ InUsedText(Item) => Asks(File(Item.of), Item.e) \subseteq DOMAIN Host.lex
  BY ParsedItem
<1>2. n \in DOMAIN File(Item.of).pairs
  <2>1. ~PairWrong(File(Item.of))
    BY <1>1, CleanFiles
  <2> QED
    BY <1>1, <2>1 DEF PairWrong, OfKind
<1>3. Len(Ctx.env) \in Nat \ {0} /\ DOMAIN Ctx.env = 1 .. Len(Ctx.env) /\ Ctx.env[1] = Item.of
  BY <1>1, OwnerIs
<1>4. HasPair(n, 1)
  BY <1>2, <1>3 DEF HasPair
<1> HIDE DEF n
<1>5. Found(1) /\ \A i \in DOMAIN Ctx.env : Found(i) => i = 1
  BY <1>3, <1>4
<1> HIDE DEF Found
<1>6. (CHOOSE i \in DOMAIN Ctx.env : Found(i)) = 1
  BY <1>3, <1>5
<1> USE DEF Found
<1>7. PairOf(n) = File(Ctx.env[1]).pairs[n]
  BY <1>6 DEF PairOf
<1> USE DEF n
<1>8. ToSet(File(Item.of).pairs[n]) \subseteq Asks(File(Item.of), Item.e)
  BY <1>1, <1>2, AsksOf
<1> QED
  BY <1>1, <1>3, <1>7, <1>8

----------------------------------------------------------------------------
(* The frames that are entered. *)

LEMMA OneEntry ==
    ASSUME NEW a
    PROVE  IsSeq(<<a>>) /\ Len(<<a>>) > 0 /\ <<a>>[1] = a /\ ToSet(<<a>>) = {a}
<1>1. ToSet(<<a>>) = {a}
  BY DEF ToSet
<1> QED
  BY <1>1 DEF IsSeq

LEMMA FineHost ==
    ASSUME Lowering, NEW n, NEW body \in RuleBodies(Host) \union PrattBodies(Host)
    PROVE  Fine(HostFrame(n, body))
<1> DEFINE F == HostFrame(n, body)
<1>1. /\ F.alias = "" /\ F.env = <<"host">> /\ F.text = Items(body, "host", <<>>) /\ Owner(F) = "host"
      /\ IsFrame(F)
  BY DEF HostFrame, Frame, Owner, IsFrame
<1>2. "host" \in DOMAIN world.files /\ IsSeq(body)
  BY WorldIs DEF Host
<1> HIDE DEF F
<1>3. /\ IsSeq(F.text)
      /\ \A x \in ToSet(F.text) : x.of = "host" /\ x.via = <<>> /\ x.e \in ToSet(body)
  <2>1. ASSUME NEW f, NEW via, F.text = Items(body, f, via)
        PROVE  IsSeq(F.text) /\ \A x \in ToSet(F.text) : x.of = f /\ x.via = via /\ x.e \in ToSet(body)
    BY <1>2, <2>1, ItemsAre
  <2> QED
    BY <1>1, <2>1
<1>4. \A e \in ToSet(body) : e \in Elements(File("host")) /\ e.k # "param" /\ e.k # "argument"
  <2>1. CASE body \in RuleBodies(Host)
    <3>1. ~ParamWrong(Host)
      BY <1>2, CleanFiles DEF TemplateWrong, Host
    <3>2. \A e \in ToSet(body) : e.k # "param"
      BY <2>1, <3>1 DEF ParamWrong, OfKind
    <3>3. \A e \in ToSet(body) : e.k # "argument"
      BY <1>2, <2>1, WorldIs DEF Host
    <3> QED
      BY <2>1, <3>2, <3>3, BodyElements DEF Host
  <2>2. CASE body \in PrattBodies(Host)
    <3>1. \A e \in ToSet(body) : e.k \in {"rule", "ref", "operator", "unfit"}
      BY <1>2, <2>2, WorldIs DEF Host
    <3>2. ToSet(body) \subseteq Elements(Host)
      BY <2>2 DEF Elements
    <3> QED
      BY <3>1, <3>2 DEF Host
  <2> QED
    BY <2>1, <2>2
<1>5. IsSeq(<<"host">>) /\ Len(<<"host">>) > 0 /\ <<"host">>[1] = "host"
  BY OneEntry
<1>6. FrameOK(F)
  BY <1>1, <1>3, <1>5 DEF FrameOK
<1>7. ASSUME NEW x \in ToSet(F.text)  PROVE ItemOK(F, x) /\ UsedItemOK(F, x)
  <2>1. x.of = "host" /\ x.via = <<>> /\ x.e \in Elements(File("host")) /\ x.e.k # "param" /\ x.e.k # "argument"
    BY <1>3, <1>4, <1>7
  <2>2. <<>> \in Seq(Kinds) /\ <<>> # <<"using">> /\ <<>> # <<"template">>
    OBVIOUS
  <2>3. ItemOK(F, x)
    BY <1>1, <1>2, <2>1, <2>2 DEF ItemOK
  <2>4. UsedItemOK(F, x)
    BY <2>1, <2>2 DEF UsedItemOK, InUsedText
  <2> QED
    BY <2>3, <2>4
<1>8. Fine(F)
  BY <1>6, <1>7 DEF Fine
<1> QED
  BY <1>8 DEF F

\* A rule of a module, in the environment of the module.
LEMMA FineModule ==
    ASSUME Lowering, NEW kind, NEW at, NEW role, NEW a \in Table(world), NEW rule,
           NEW n \in DOMAIN File(a).rules, NEW via \in Seq(Kinds), via # <<>>,
           via \in {<<"using">>, <<"template">>} => TokensIn(File(a), File(a).rules[n]) \subseteq DOMAIN Host.lex
    PROVE  Fine(Frame(kind, at, role, a, <<a>>, rule, Items(File(a).rules[n], a, via)))
<1> DEFINE body == File(a).rules[n]
           F == Frame(kind, at, role, a, <<a>>, rule, Items(body, a, via))
<1>1. a # "" /\ a \in DOMAIN world.files
  BY WorldIs
<1>2. F.alias = a /\ F.env = <<a>> /\ F.text = Items(body, a, via) /\ Owner(F) = a /\ IsFrame(F)
  BY <1>1 DEF Frame, Owner, IsFrame
<1>3. body \in RuleBodies(File(a))
  BY DEF RuleBodies
<1>4. IsSeq(body) /\ \A e \in ToSet(body) : e.k # "argument"
  BY <1>1, <1>3, WorldIs
<1>5. ~ParamWrong(File(a))
  BY <1>1, CleanFiles DEF TemplateWrong
<1>6. \A e \in ToSet(body) : e.k # "param"
  BY <1>3, <1>5 DEF ParamWrong, OfKind
<1>7. ToSet(body) \subseteq Elements(File(a))
  BY <1>3, BodyElements
<1>8. \A e \in ToSet(body) : Asks(File(a), e) \subseteq TokensIn(File(a), body)
  BY AsksOf
<1> HIDE DEF body
<1>9. IsSeq(F.text) /\ \A x \in ToSet(F.text) : x.of = a /\ x.via = via /\ x.e \in ToSet(body)
  BY <1>2, <1>4, ItemsAre
<1>10. IsSeq(<<a>>) /\ Len(<<a>>) > 0 /\ <<a>>[1] = a /\ ToSet(<<a>>) \subseteq {a}
  BY OneEntry
<1> HIDE DEF F
<1>11. FrameOK(F)
  BY <1>1, <1>2, <1>9, <1>10 DEF FrameOK
<1>12. ASSUME NEW x \in ToSet(F.text)  PROVE ItemOK(F, x) /\ UsedItemOK(F, x)
  <2>1. x.of = a /\ x.via = via /\ x.e \in ToSet(body)
    BY <1>9, <1>12
  <2>2. x.e.k # "param" /\ x.e.k # "argument" /\ x.e \in Elements(File(a))
    BY <1>4, <1>6, <1>7, <2>1
  <2>3. ItemOK(F, x)
    BY <1>1, <1>2, <2>1, <2>2 DEF ItemOK
  <2>4. UsedItemOK(F, x)
    BY <1>2, <1>8, <1>10, <2>1 DEF UsedItemOK, InUsedText, body
  <2> QED
    BY <2>3, <2>4
<1>13. Fine(F)
  BY <1>11, <1>12 DEF Fine
<1> QED
  BY <1>13 DEF F, body

\* The body of a template, with the arguments of the item at work.
LEMMA FineTemplate ==
    ASSUME Lowering, NEW f \in DOMAIN world.files, NEW n \in DOMAIN File(f).templates, NEW F,
           Owner(F) = f, F.text = Substituted(File(f).templates[n], f),
           Item.of \in DOMAIN world.files, Item.via \in Seq(Kinds), Item.via = <<>> => Item.of = "host",
           ArgumentsFit(File(Item.of), File(f).templates[n].params, Item.e.args),
           Item.via = <<>> =>
              TokensIn(File(f), File(f).templates[n].body) \subseteq DOMAIN Host.lex /\ ToSet(F.env) \subseteq {f, "host"}
    PROVE  IsSeq(F.text) /\ \A x \in ToSet(F.text) : ItemOK(F, x) /\ UsedItemOK(F, x)
<1> DEFINE template == File(f).templates[n]
           body == template.body
           items == Items(body, f, Via("template"))
           expanded(x) == IF x.e.k = "param" THEN Argument(template.params[x.e.to], Item.e.args[x.e.to]) ELSE x
<1>1. F.text = [i \in DOMAIN items |-> expanded(items[i])]
  BY DEF Substituted
<1>2. body \in TemplateBodies(File(f))
  BY DEF TemplateBodies
<1>3. IsSeq(body) /\ \A e \in ToSet(body) : e.k # "argument"
  BY <1>2, WorldIs
<1>4. ~ParamWrong(File(f))
  BY CleanFiles DEF TemplateWrong
<1>5. \A e \in ToSet(body) : e.k = "param" => e.to \in DOMAIN template.params
  BY <1>4 DEF ParamWrong, OfKind
<1>6. ToSet(body) \subseteq Elements(File(f))
  BY <1>2, BodyElements
<1>7. \A e \in ToSet(body) : Asks(File(f), e) \subseteq TokensIn(File(f), body)
  BY AsksOf
<1>8. \A i \in DOMAIN template.params : ArgumentFits(File(Item.of), template.params[i], Item.e.args[i])
  BY DEF ArgumentsFit
<1>9. /\ Via("template") \in Seq(Kinds) /\ Via("template") # <<>>
      /\ \A k : Via("template") = <<k>> => Item.via = <<>>
  BY LongerVia DEF Via, Kinds
<1>10. Item.via = <<>> => TokensIn(File(f), body) \subseteq DOMAIN Host.lex
  OBVIOUS
<1> HIDE DEF body
<1>11. /\ IsSeq(items) /\ DOMAIN items = 1 .. Len(body) /\ Len(body) \in Nat
       /\ \A x \in ToSet(items) : x.of = f /\ x.via = Via("template") /\ x.e \in ToSet(body)
  BY <1>3, ItemsAre DEF IsSeq
<1> HIDE DEF items, template
<1>12. ASSUME NEW x \in ToSet(items)  PROVE ItemOK(F, expanded(x)) /\ UsedItemOK(F, expanded(x))
  <2>1. x.of = f /\ x.via = Via("template") /\ x.e \in ToSet(body)
    BY <1>11, <1>12
  <2>2. CASE x.e.k # "param"
    <3>1. expanded(x) = x
      BY <2>2
    <3>2. x.e \in Elements(File(f)) /\ x.e.k # "argument"
      BY <1>3, <1>6, <2>1
    <3>3. ItemOK(F, x)
      BY <1>9, <2>1, <2>2, <3>2 DEF ItemOK
    <3>4. UsedItemOK(F, x)
      BY <1>7, <1>9, <1>10, <2>1 DEF UsedItemOK, InUsedText
    <3> QED
      BY <3>1, <3>3, <3>4
  <2>3. CASE x.e.k = "param"
    <3> DEFINE type == template.params[x.e.to]
               name == Item.e.args[x.e.to]
               y == Argument(type, name)
    <3>1. expanded(x) = y
      BY <2>3
    <3>2. ArgumentFits(File(Item.of), type, name)
      BY <1>5, <1>8, <2>1, <2>3
    <3>3. /\ y.of = Item.of /\ y.via = Item.via /\ y.e.to = name
          /\ y.e.k = IF type = "Token" THEN "argument" ELSE "rule"
      BY DEF Argument
    <3>4. y.e.k = "rule" \/ (y.e.k = "argument" /\ y.e.to \in DOMAIN File(y.of).lex)
      BY <3>2, <3>3 DEF ArgumentFits
    <3> HIDE DEF y
    <3>5. ItemOK(F, y) /\ UsedItemOK(F, y)
      BY <3>3, <3>4 DEF ItemOK, UsedItemOK
    <3> QED
      BY <3>1, <3>5
  <2> QED
    BY <2>2, <2>3
<1> DEFINE S == {expanded(x) : x \in ToSet(items)}
<1>13. F.text \in [1 .. Len(body) -> S]
  <2>1. \A i \in DOMAIN items : expanded(items[i]) \in S
    BY DEF ToSet
  <2> HIDE DEF S, expanded
  <2> QED
    BY <1>1, <1>11, <2>1
<1>14. IsSeq(F.text) /\ ToSet(F.text) \subseteq S
  <2> HIDE DEF S
  <2> QED
    BY <1>11, <1>13, FunctionIsSeq
<1> HIDE DEF expanded
<1> QED
  BY <1>12, <1>14

----------------------------------------------------------------------------
(* What a file uses of another one is declared there, and what it asks of  *)
(* the lexer is declared by the host when the host is the user.            *)

LEMMA RequiredIs ==
    ASSUME Lowering, NEW m \in DOMAIN world.files, NEW n
    PROVE  /\ n \in ExportedRules(File(m)) => RequiredTokens(File(m), n) = TokensIn(File(m), File(m).rules[n])
           /\ n \in ExportedTemplates(File(m)) =>
                 RequiredTokens(File(m), n) = TokensIn(File(m), File(m).templates[n].body)
<1> DEFINE p == File(m)
           tables == <<DOMAIN p.lex, DOMAIN p.rules, DOMAIN p.pairs, DOMAIN p.templates, DOMAIN p.pratt>>
<1>1. ~Collides(p)
  BY CleanFiles
<1>2. \A i, j \in 1 .. 5 : i < j => tables[i] \intersect tables[j] = {}
  BY <1>1 DEF Collides
<1>3. tables[2] = DOMAIN p.rules /\ tables[3] = DOMAIN p.pairs /\ tables[4] = DOMAIN p.templates
  OBVIOUS
<1> HIDE DEF tables
<1>4. DOMAIN p.rules \intersect DOMAIN p.pairs = {}
  BY <1>2, <1>3
<1>5. DOMAIN p.rules \intersect DOMAIN p.templates = {}
  BY <1>2, <1>3
<1>6. DOMAIN p.pairs \intersect DOMAIN p.templates = {}
  BY <1>2, <1>3
<1> HIDE DEF p
<1>7. n \in ExportedRules(p) => n \notin ExportedPairs(p)
  BY <1>4 DEF ExportedRules, ExportedPairs
<1>8. n \in ExportedTemplates(p) => n \notin ExportedPairs(p) /\ n \notin ExportedRules(p)
  BY <1>5, <1>6 DEF ExportedRules, ExportedPairs, ExportedTemplates
<1>9. n \in ExportedRules(p) => RequiredTokens(p, n) = TokensIn(p, p.rules[n])
  BY <1>7 DEF RequiredTokens
<1>10. n \in ExportedTemplates(p) => RequiredTokens(p, n) = TokensIn(p, p.templates[n].body)
  BY <1>8 DEF RequiredTokens
<1> QED
  BY <1>9, <1>10 DEF p

LEMMA UsingIs ==
    ASSUME Lowering, NEW kinds \in SUBSET {"using", "usingPair", "usingCall"}, At(kinds)
    PROVE  /\ UsingFits(world, Item.of, Item.e) /\ Item.e.from \in Table(world)
           /\ Item.via = <<>> => RequiredTokens(File(Item.e.from), Item.e.to) \subseteq DOMAIN Host.lex
<1>1. Item.e \in Parsed(File(Item.of)) /\ Item.of \in DOMAIN world.files /\ Item.e.k \in kinds
  BY ParsedItem
<1>2. Item.e \in Usings(File(Item.of))
  BY <1>1 DEF Usings, OfKind
<1>3. ~UsingWrong(world, Item.of) /\ ~ObligationMissing(world, File(Item.of))
  BY <1>1, CleanFiles
<1>4. UsingFits(world, Item.of, Item.e)
  BY <1>2, <1>3 DEF UsingWrong, File
<1>5. Item.e.from \in Table(world)
  <2>1. Item.e.from \in File(Item.of).imports
    BY <1>4 DEF UsingFits, File
  <2> QED
    BY <1>1, <2>1, WorldIs
<1>6. RequiredTokens(File(Item.e.from), Item.e.to) \subseteq DOMAIN File(Item.of).lex
  <2>1. Item.e \in Resolved(world, File(Item.of))
    BY <1>2, <1>5 DEF Resolved
  <2> QED
    BY <1>3, <2>1 DEF ObligationMissing, File
<1>7. Item.via = <<>> => Item.of = "host"
  BY AtWork DEF Lowering, ItemOK
<1> QED
  BY <1>4, <1>5, <1>6, <1>7 DEF Host

LEMMA FineStays ==
    ASSUME UNCHANGED world, NEW F
    PROVE  Fine(F)' <=> Fine(F)
<1>1. File("host")' = File("host") /\ Host' = Host /\ \A f : File(f)' = File(f)
  BY DEF File, Host
<1>2. FrameOK(F)' <=> FrameOK(F)
  BY DEF FrameOK, IsFrame, Owner
<1>3. \A x : ItemOK(F, x)' <=> ItemOK(F, x)
  BY <1>1 DEF ItemOK, Owner
<1>4. \A x : UsedItemOK(F, x)' <=> UsedItemOK(F, x)
  BY <1>1 DEF UsedItemOK, Owner, InUsedText, Asks
<1> QED
  BY <1>2, <1>3, <1>4 DEF Fine

LEMMA StackedWith ==
    ASSUME UNCHANGED world, Stacked, todo' \subseteq todo, IsSeq(stack'), \A F \in ToSet(stack') : Fine(F)
    PROVE  Stacked'
<1>1. Host' = Host
  BY DEF Host, File
<1>2. \A F \in ToSet(stack') : Fine(F)'
  BY FineStays
<1>3. todo' \subseteq DOMAIN Host'.rules
  BY <1>1 DEF Stacked
<1> QED
  BY <1>2, <1>3 DEF Stacked, Fine, IsSeq

LEMMA Advanced ==
    ASSUME Lowering, NEW kinds, At(kinds), UNCHANGED <<world, todo>>, Advance
    PROVE  Stacked'
<1>1. IsSeq(Rest) /\ \A F \in ToSet(Rest) : Fine(F)
  BY AtWork DEF Lowering
<1> QED
  BY <1>1, StackedWith DEF Advance, Lowering

LEMMA Entered ==
    ASSUME Lowering, NEW kinds, At(kinds), UNCHANGED <<world, todo>>, NEW F, Fine(F), Enter(F)
    PROVE  Stacked'
<1>1. IsSeq(Rest) /\ \A G \in ToSet(Rest) : Fine(G)
  BY AtWork DEF Lowering
<1>2. IsSeq(Append(Rest, F)) /\ ToSet(Append(Rest, F)) \subseteq ToSet(Rest) \union {F}
  BY <1>1, AppendIsSeq
<1>3. \A G \in ToSet(stack') : Fine(G)
  BY <1>1, <1>2 DEF Enter
<1> QED
  BY <1>2, <1>3, StackedWith DEF Enter, Lowering

----------------------------------------------------------------------------
(* Every step of the lowering keeps the stack fine. *)

LEMMA ReferToFine ==
    ASSUME Lowering, NEW kinds, At(kinds), NEW n, ReferTo(n)
    PROVE  Stacked'
<1>1. UNCHANGED <<world, todo>>
  BY DEF ReferTo
<1>2. CASE Importable(n) /\ ~InProgress(n)
  <2>1. Enter(ImportedFrame(n))
    BY <1>2 DEF ReferTo
  <2>2. Ctx.alias \in Table(world) /\ n \in DOMAIN File(Ctx.alias).rules
    BY <1>2, OwnerIs DEF Importable
  <2>3. Item.via \in Seq(Kinds)
    BY AtWork DEF Lowering, ItemOK
  <2>4. /\ Via("imported") \in Seq(Kinds) /\ Via("imported") # <<>>
        /\ \A k : Via("imported") = <<k>> => k = "imported"
    BY <2>3, LongerVia DEF Via, Kinds
  <2>5. Via("imported") \notin {<<"using">>, <<"template">>}
    BY <2>4
  <2>6. Fine(ImportedFrame(n))
    BY <2>2, <2>4, <2>5, FineModule DEF ImportedFrame
  <2> QED
    BY <1>1, <2>1, <2>6, Entered
<1>3. CASE ~(Importable(n) /\ ~InProgress(n))
  <2>1. Advance
    BY <1>3 DEF ReferTo
  <2> QED
    BY <1>1, <2>1, Advanced
<1> QED
  BY <1>2, <1>3

LEMMA UseRuleFine ==
    ASSUME Lowering, UseRule, CanUse
    PROVE  Stacked'
<1> DEFINE m == Item.e.from
           n == Item.e.to
           F == Frame("using", <<m, n>>, n, m, <<m>>, Ctx.rule, Items(File(m).rules[n], m, Via("using")))
<1>1. At({"using"}) /\ Enter(F) /\ UNCHANGED <<world, todo>>
  BY DEF UseRule
<1>2. m \in Table(world) /\ (Item.via = <<>> => RequiredTokens(File(m), n) \subseteq DOMAIN Host.lex)
  BY <1>1, UsingIs
<1>3. m \in DOMAIN world.files
  BY <1>2, WorldIs
<1>4. n \in DOMAIN File(m).rules /\ RequiredTokens(File(m), n) = TokensIn(File(m), File(m).rules[n])
  BY <1>3, RequiredIs DEF CanUse, ExportedRules
<1>5. Item.via \in Seq(Kinds)
  BY <1>1, AtWork DEF Lowering, ItemOK
<1>6. /\ Via("using") \in Seq(Kinds) /\ Via("using") # <<>>
      /\ \A k : Via("using") = <<k>> => Item.via = <<>>
  BY <1>5, LongerVia DEF Via, Kinds
<1>7. Via("using") \in {<<"using">>, <<"template">>} => TokensIn(File(m), File(m).rules[n]) \subseteq DOMAIN Host.lex
  BY <1>2, <1>4, <1>6
<1>8. Fine(F)
  <2> HIDE DEF m, n
  <2> QED
    BY <1>2, <1>4, <1>6, <1>7, FineModule
<1> HIDE DEF F
<1> QED
  BY <1>1, <1>8, Entered

LEMMA EmbedFine ==
    ASSUME Lowering, EmbedProgram, UNCHANGED phase
    PROVE  Stacked'
<1> DEFINE m == Item.e.from
           n == EntryOf(m)
           F == Frame("embed", <<m, n>>, m, m, <<m>>, Ctx.rule, Items(File(m).rules[n], m, Via("embed")))
<1>1. At({"embed"}) /\ n # "" /\ Enter(F) /\ UNCHANGED <<world, todo>>
  <2>1. At({"embed"}) /\ ~Panic("no rule") /\ ~Panic("delimiter")
    BY DEF EmbedProgram, Panic, Lowering
  <2>2. n # ""
    BY <2>1 DEF EmbedProgram
  <2>3. Enter(F) /\ UNCHANGED <<world, todo>>
    BY <2>1, <2>2, Zenon DEF EmbedProgram
  <2> QED
    BY <2>1, <2>2, <2>3
<1>2. Item.e \in Parsed(File(Item.of)) /\ Item.of \in DOMAIN world.files /\ Item.e.k = "embed"
  <2>1. At({"embed"})
    BY <1>1
  <2> QED
    BY <2>1, ParsedItem
<1>3. m \in Table(world)
  <2>1. ~EmbedWrong(File(Item.of)) /\ Item.e \in Embeds(File(Item.of))
    BY <1>2, CleanFiles DEF Embeds, OfKind
  <2>2. m \in File(Item.of).embeds
    BY <2>1 DEF EmbedWrong
  <2> QED
    BY <1>2, <2>2, WorldIs
<1>4. n \in DOMAIN File(m).rules
  <2>1. m \in DOMAIN world.files
    BY <1>3, WorldIs
  <2>2. File(m).first \in DOMAIN File(m).rules \ {""} \/ (File(m).first = "" /\ DOMAIN File(m).rules = {})
    BY <2>1, WorldIs
  <2> QED
    BY <1>1, <2>2 DEF EntryOf
<1>5. Item.via \in Seq(Kinds)
  BY <1>1, AtWork DEF Lowering, ItemOK
<1>6. /\ Via("embed") \in Seq(Kinds) /\ Via("embed") # <<>>
      /\ \A k : Via("embed") = <<k>> => k = "embed"
  BY <1>5, LongerVia DEF Via, Kinds
<1>7. Via("embed") \notin {<<"using">>, <<"template">>}
  BY <1>6
<1>8. Fine(F)
  <2> HIDE DEF m, n
  <2> QED
    BY <1>3, <1>4, <1>6, <1>7, FineModule
<1> HIDE DEF F
<1> QED
  BY <1>1, <1>8, Entered

LEMMA ExpandCallFine ==
    ASSUME Lowering, ExpandCall
    PROVE  Stacked'
<1> DEFINE f == Item.of
           n == Item.e.to
           F == Frame("template", <<f, n>>, "", Ctx.alias, Ctx.env, Ctx.rule, Substituted(File(f).templates[n], f))
<1>1. At({"call"})
  BY DEF ExpandCall
<1>2. Item.e \in Parsed(File(f)) /\ f = Owner(Ctx) /\ f \in DOMAIN world.files /\ Item.e.k = "call"
  BY <1>1, ParsedItem
<1>3. /\ Head(Ctx.env) = f /\ Ctx.alias \in Table(world) \union {""}
      /\ f = "host" => Ctx.alias = "" /\ Ctx.env = <<"host">>
      /\ IsSeq(Ctx.env) /\ Len(Ctx.env) > 0 /\ Ctx.env[1] = f
  <2> HIDE DEF f
  <2>1. /\ Head(Ctx.env) = Owner(Ctx) /\ Ctx.alias \in Table(world) \union {""}
        /\ IsSeq(Ctx.env) /\ Len(Ctx.env) > 0 /\ Ctx.env[1] = Owner(Ctx)
    BY <1>1, OwnerIs
  <2>2. Owner(Ctx) = "host" => Ctx.alias = "" /\ Ctx.env = <<"host">>
    BY <1>1, OwnerIs
  <2>3. f = Owner(Ctx)
    BY <1>2
  <2> QED
    BY <2>1, <2>2, <2>3, Zenon
<1>4. Enter(F) /\ UNCHANGED <<world, todo>>
  BY <1>3 DEF ExpandCall
<1>5. n \in DOMAIN File(f).templates /\ ArgumentsFit(File(f), File(f).templates[n].params, Item.e.args)
  <2>1. ~TemplateWrong(File(f))
    BY <1>2, CleanFiles
  <2>2. Item.e \in Calls(File(f))
    BY <1>2 DEF Calls, OfKind
  <2> QED
    BY <2>1, <2>2 DEF TemplateWrong
<1>6. Item.via \in Seq(Kinds) /\ (Item.via = <<>> => f = "host")
  BY <1>1, AtWork DEF Lowering, ItemOK
<1>7. /\ IsFrame(F) /\ F.alias = Ctx.alias /\ F.env = Ctx.env /\ Owner(F) = f
      /\ F.text = Substituted(File(f).templates[n], f)
  BY <1>2 DEF Frame, IsFrame, Owner
<1>8. f = "host" => TokensIn(File(f), File(f).templates[n].body) \subseteq DOMAIN Host.lex
  <2> SUFFICES ASSUME f = "host",
                      NEW t \in TokensIn(Host, Host.templates[n].body)
               PROVE  t \in DOMAIN Host.lex
    BY DEF Host
  <2> DEFINE body == Host.templates[n].body
  <2>1. ToSet(body) \subseteq Parsed(Host)
    BY <1>5, BodyElements DEF TemplateBodies, Host
  <2>2. PICK e \in ToSet(body) : t \in Asks(Host, e)
    <3>1. PICK e \in ToSet(body) :
             \/ e.k = "token" /\ t = e.to
             \/ e.k = "embed" /\ t \in {e.open, e.close}
             \/ e.k = "pair" /\ e.to \in DOMAIN Host.pairs /\ t \in ToSet(Host.pairs[e.to])
      BY InTokens
    <3>2. t \in Asks(Host, e)
      BY <3>1, AsksOf
    <3> QED
      BY <3>2
  <2>3. Clean("host")
    BY <1>2, CleanFiles
  <2> QED
    BY <2>1, <2>2, <2>3, CleanAsks DEF Host
<1>9. f = "host" => ToSet(F.env) \subseteq {f, "host"}
  <2>1. ToSet(<<"host">>) = {"host"}
    BY OneEntry
  <2> QED
    BY <1>3, <1>7, <2>1
<1> HIDE DEF F
<1>10. IsSeq(F.text) /\ \A x \in ToSet(F.text) : ItemOK(F, x) /\ UsedItemOK(F, x)
  BY <1>2, <1>5, <1>6, <1>7, <1>8, <1>9, FineTemplate
<1>11. Fine(F)
  BY <1>3, <1>7, <1>10 DEF Fine, FrameOK, Owner
<1> QED
  BY <1>1, <1>4, <1>11, Entered

LEMMA UseTemplateFine ==
    ASSUME Lowering, UseTemplate
    PROVE  Stacked'
<1> DEFINE m == Item.e.from
           n == Item.e.to
           env == <<m>> \o Ctx.env
           F == Frame("template", <<m, n>>, "", m, env, Ctx.rule, Substituted(File(m).templates[n], m))
<1>1. At({"usingCall"}) /\ Enter(F) /\ UNCHANGED <<world, todo>>
  BY DEF UseTemplate
<1>2. At({"usingCall"})
  BY <1>1
<1>3. Item.of = Owner(Ctx) /\ Item.of \in DOMAIN world.files /\ Item.e.k = "usingCall"
  BY <1>2, ParsedItem
<1>4. /\ UsingFits(world, Item.of, Item.e) /\ m \in Table(world)
      /\ Item.via = <<>> => RequiredTokens(File(m), n) \subseteq DOMAIN Host.lex
  BY <1>2, UsingIs
<1>5. m # "" /\ m \in DOMAIN world.files
  BY <1>4, WorldIs
<1>6. n \in ExportedTemplates(File(m)) /\ ArgumentsFit(File(Item.of), File(m).templates[n].params, Item.e.args)
  BY <1>3, <1>4 DEF UsingFits, File
<1>7. n \in DOMAIN File(m).templates /\ RequiredTokens(File(m), n) = TokensIn(File(m), File(m).templates[n].body)
  BY <1>5, <1>6, RequiredIs DEF ExportedTemplates
<1>8. Item.via \in Seq(Kinds) /\ (Item.via = <<>> => Item.of = "host")
  BY <1>2, AtWork DEF Lowering, ItemOK
<1>9. IsSeq(Ctx.env) /\ (Owner(Ctx) = "host" => Ctx.env = <<"host">>)
  BY <1>2, OwnerIs
<1>10. IsSeq(env) /\ Len(env) > 0 /\ env[1] = m
  <2>1. ASSUME NEW a, NEW s, IsSeq(s)
        PROVE  IsSeq(<<a>> \o s) /\ Len(<<a>> \o s) > 0 /\ (<<a>> \o s)[1] = a
    <3> DEFINE S == ToSet(s) \union {a}
    <3>1. s \in [1 .. Len(s) -> ToSet(s)] /\ Len(s) \in Nat
      BY <2>1 DEF IsSeq
    <3>2. s \in [1 .. Len(s) -> S]
      BY <3>1
    <3>3. s \in Seq(S) /\ <<a>> \in Seq(S)
      BY <3>1, <3>2
    <3> HIDE DEF S
    <3>4. <<a>> \o s \in Seq(S)
      BY <3>3
    <3>5. Len(<<a>> \o s) = 1 + Len(s) /\ (<<a>> \o s)[1] = a
      BY <3>1, <3>3, Len(<<a>>) = 1, <<a>>[1] = a
    <3>6. Len(<<a>> \o s) > 0
      BY <3>1, <3>5
    <3> QED
      BY <3>4, <3>5, <3>6, SeqIsSeq
  <2> QED
    BY <1>9, <2>1
<1>11. Item.of = "host" => ToSet(env) \subseteq {m, "host"}
  <2>1. ASSUME NEW a, NEW b  PROVE ToSet(<<a>> \o <<b>>) \subseteq {a, b}
    <3>1. <<a>> \in Seq({a, b}) /\ <<b>> \in Seq({a, b})
      OBVIOUS
    <3>2. <<a>> \o <<b>> \in Seq({a, b})
      BY <3>1
    <3> QED
      BY <3>2, SeqIsSeq
  <2> QED
    BY <1>3, <1>9, <2>1
<1>12. /\ IsFrame(F) /\ F.alias = m /\ F.env = env /\ Owner(F) = m
       /\ F.text = Substituted(File(m).templates[n], m)
  BY <1>5 DEF Frame, IsFrame, Owner
<1> HIDE DEF F, env
<1>13. IsSeq(F.text) /\ \A x \in ToSet(F.text) : ItemOK(F, x) /\ UsedItemOK(F, x)
  <2> HIDE DEF m, n
  <2>1. ArgumentsFit(File(Item.of), File(m).templates[n].params, Item.e.args)
    BY <1>6
  <2>2. Item.via = <<>> =>
          TokensIn(File(m), File(m).templates[n].body) \subseteq DOMAIN Host.lex /\ ToSet(F.env) \subseteq {m, "host"}
    BY <1>4, <1>7, <1>8, <1>11, <1>12
  <2> QED
    BY <1>3, <1>5, <1>7, <1>8, <1>12, <2>1, <2>2, FineTemplate
<1>14. Fine(F)
  BY <1>4, <1>5, <1>10, <1>12, <1>13 DEF Fine, FrameOK
<1> QED
  BY <1>1, <1>14, Entered

LEMMA BeginFine ==
    ASSUME Lowering, Begin
    PROVE  Stacked'
<1>1. UNCHANGED <<world, todo>>
  BY DEF Begin
<1>2. PICK F \in NextToLower : stack' = <<F>>
  BY DEF Begin
<1>3. Fine(F)
  <2>1. CASE todo # {}
    <3>1. PICK n \in todo : F = RuleFrame(n)
      BY <1>2, <2>1 DEF NextToLower
    <3>2. Host.rules[n] \in RuleBodies(Host)
      BY <3>1 DEF RuleBodies, Lowering, Stacked
    <3> QED
      BY <3>1, <3>2, FineHost DEF RuleFrame
  <2>2. CASE todo = {}
    <3>1. PICK n \in DOMAIN Host.pratt : F = PrattFrame(n)
      BY <1>2, <2>2 DEF NextToLower
    <3>2. Host.pratt[n] \in PrattBodies(Host)
      BY <3>1 DEF PrattBodies
    <3> QED
      BY <3>1, <3>2, FineHost DEF PrattFrame
  <2> QED
    BY <2>1, <2>2
<1>4. IsSeq(stack') /\ ToSet(stack') = {F}
  BY <1>2, OneEntry
<1> QED
  BY <1>1, <1>3, <1>4, StackedWith DEF Lowering

LEMMA FinishFine ==
    ASSUME Lowering, Finish
    PROVE  Stacked'
<1>1. stack # <<>> /\ stack' = Front(stack) /\ UNCHANGED world /\ todo' \subseteq todo
  BY DEF Finish, Left
<1>2. IsSeq(stack) /\ \A F \in ToSet(stack) : Fine(F)
  BY DEF Lowering, Stacked, Fine
<1>3. Front(stack) \in Seq(ToSet(stack))
  BY <1>1, <1>2 DEF Front, IsSeq
<1>4. IsSeq(stack') /\ ToSet(stack') \subseteq ToSet(stack)
  BY <1>1, <1>3, SeqIsSeq
<1> QED
  BY <1>1, <1>2, <1>4, StackedWith DEF Lowering

----------------------------------------------------------------------------
(* The invariant. *)

TokensFine == \A x \in expects : Belongs(x) /\ Covered(x)

LoweringInv == Checked /\ Stacked /\ TokensFine

LEMMA LoweringInit == Init => LoweringInv
<1> SUFFICES ASSUME Init  PROVE LoweringInv
  OBVIOUS
<1>1. todo = {} /\ stack = <<>> /\ expects = {}
  BY DEF Init
<1>2. IsSeq(stack) /\ ToSet(stack) = {}
  BY <1>1 DEF IsSeq, ToSet
<1>3. Stacked
  BY <1>1, <1>2 DEF Stacked
<1> QED
  BY <1>1, <1>3, CheckedInit DEF LoweringInv, TokensFine

LEMMA StackedNext ==
    ASSUME Checked, Stacked, [Next]_vars
    PROVE  Stacked'
<1>1. ASSUME UNCHANGED <<world, todo, stack>>  PROVE Stacked'
  <2>1. IsSeq(stack) /\ \A F \in ToSet(stack) : Fine(F)
    BY DEF Stacked, Fine
  <2> QED
    BY <1>1, <2>1, StackedWith
<1>2. phase = "lower" => Lowering
  BY DEF Lowering
<1>3. \A kinds : At(kinds) => phase = "lower"
  BY DEF At
<1>4. CASE CheckFile \/ AllLowered \/ Finished \/ UNCHANGED vars
  BY <1>1, <1>4 DEF CheckFile, AllLowered, Finished, vars
<1>5. CASE CollectSymbols
  <2>1. UNCHANGED <<world, stack>> /\ todo' \in {todo, DOMAIN Host.rules}
    BY <1>5 DEF CollectSymbols
  <2>2. /\ Host' = Host /\ IsSeq(stack)
        /\ \A F \in ToSet(stack) : Fine(F) /\ (Fine(F)' <=> Fine(F))
    BY <2>1, FineStays DEF Stacked, Fine, Host, File
  <2>3. todo' \subseteq DOMAIN Host'.rules
    BY <2>1, <2>2 DEF Stacked
  <2>4. stack' = stack /\ \A F \in ToSet(stack) : Fine(F)'
    BY <2>1, <2>2
  <2> QED
    BY <2>2, <2>3, <2>4 DEF Stacked, Fine, IsSeq
<1>6. CASE Begin
  BY <1>2, <1>6, BeginFine DEF Begin
<1>7. CASE Finish
  BY <1>2, <1>7, FinishFine DEF Finish
<1>8. CASE RuleReference
  BY <1>2, <1>3, <1>8, ReferToFine DEF RuleReference
<1>9. CASE Reference
  BY <1>2, <1>3, <1>9, ReferToFine DEF Reference
<1>10. CASE OpenReference
  BY <1>1, <1>10 DEF OpenReference, Panic
<1>11. ASSUME NEW kinds, At(kinds), NEW S, Expect(S)  PROVE Stacked'
  BY <1>2, <1>3, <1>11, Advanced DEF Expect
<1>12. CASE TokenMatch
  BY <1>11, <1>12 DEF TokenMatch, TokenSite
<1>13. CASE Lookahead
  BY <1>11, <1>13 DEF Lookahead
<1>14. CASE SyncToken
  BY <1>11, <1>14 DEF SyncToken
<1>15. CASE NestPair
  BY <1>11, <1>15 DEF NestPair
<1>16. CASE NestUsingPair
  BY <1>11, <1>16 DEF NestUsingPair
<1>17. CASE Operator
  BY <1>2, <1>3, <1>11, <1>17, ReferToFine DEF Operator
<1>18. CASE UseRule
  <2>1. CASE CanUse
    BY <1>2, <1>3, <1>18, <2>1, UseRuleFine DEF UseRule
  <2>2. CASE ~CanUse
    BY <1>1, <1>18, <2>2 DEF UseRule, Panic
  <2> QED
    BY <2>1, <2>2
<1>19. CASE ExpandCall
  BY <1>2, <1>3, <1>19, ExpandCallFine DEF ExpandCall
<1>20. CASE UseTemplate
  BY <1>2, <1>3, <1>20, UseTemplateFine DEF UseTemplate
<1>21. CASE EmbedProgram
  <2>1. Lowering
    BY <1>2, <1>3, <1>21 DEF EmbedProgram
  <2>2. CASE UNCHANGED phase
    BY <1>21, <2>1, <2>2, EmbedFine
  <2>3. CASE ~UNCHANGED phase
    <3>1. Panic("no rule") \/ Panic("delimiter")
      BY <1>21, <2>3 DEF EmbedProgram
    <3> QED
      BY <1>1, <3>1 DEF Panic
  <2> QED
    BY <2>2, <2>3
<1>22. CASE EmbedBare \/ Unfit
  BY <1>1, <1>22 DEF EmbedBare, Unfit, Panic
<1> QED
  BY <1>4, <1>5, <1>6, <1>7, <1>8, <1>9, <1>10, <1>12, <1>13, <1>14, <1>15, <1>16, <1>17, <1>18, <1>19,
     <1>20, <1>21, <1>22 DEF Next

LEMMA TokensStay ==
    ASSUME UNCHANGED world, TokensFine, NEW S, \A x \in S : Belongs(x) /\ Covered(x),
           expects' \subseteq expects \union S
    PROVE  TokensFine'
<1>1. /\ Host' = Host /\ \A f : File(f)' = File(f)
      /\ Table(world)' = Table(world) /\ \A f : IsEmbed(world, f)' = IsEmbed(world, f)
  BY DEF Host, File, Table, IsEmbed
<1>2. Emitted' = Emitted
  BY <1>1 DEF Emitted, File, Host
<1>3. \A x : (Belongs(x)' <=> Belongs(x)) /\ (Covered(x)' <=> Covered(x))
  BY <1>1, <1>2 DEF Belongs, Covered, InUsedText
<1> QED
  BY <1>3 DEF TokensFine

LEMMA TokensNext ==
    ASSUME Checked, Stacked, TokensFine, [Next]_vars
    PROVE  TokensFine'
<1>1. ASSUME UNCHANGED <<world, expects>>  PROVE TokensFine'
  <2> DEFINE S == {}
  <2>1. (\A x \in S : Belongs(x) /\ Covered(x)) /\ expects' \subseteq expects \union S
    BY <1>1
  <2> HIDE DEF S
  <2> QED
    BY <1>1, <2>1, TokensStay
<1>2. phase = "lower" => Lowering
  BY DEF Lowering
<1>3. \A kinds : At(kinds) => Lowering
  BY <1>2 DEF At
<1>4. ASSUME NEW S, Expect(S), \A x \in S : Belongs(x) /\ Covered(x)  PROVE TokensFine'
  BY <1>4, TokensStay DEF Expect
<1>5. CASE CheckFile \/ CollectSymbols \/ Begin \/ Finish \/ AllLowered \/ Finished \/ UNCHANGED vars
  BY <1>1, <1>5 DEF CheckFile, CollectSymbols, Begin, Finish, AllLowered, Finished, vars, result
<1>6. CASE RuleReference \/ Reference \/ OpenReference
  BY <1>1, <1>6 DEF RuleReference, Reference, OpenReference, ReferTo, Panic, result
<1>7. CASE TokenMatch
  <2>1. Lowering
    BY <1>3, <1>7 DEF TokenMatch, TokenSite
  <2>2. Belongs(Expectation(Ctx.alias, Item.e.to)) /\ Covered(Expectation(Ctx.alias, Item.e.to))
    BY <1>7, <2>1, MatchedToken DEF TokenMatch
  <2> QED
    BY <1>4, <1>7, <2>2 DEF TokenMatch
<1>8. ASSUME NEW alias, NEW t, Item.e.k \in Unchecked
      PROVE  Belongs(Expectation(alias, t)) /\ Covered(Expectation(alias, t))
  <2>1. Item.e.k \notin {"token", "argument"}
    BY <1>8 DEF Unchecked
  <2> QED
    BY <1>8, <2>1 DEF Belongs, Covered, Expectation
<1>9. CASE Lookahead
  <2>1. Item.e.k \in Unchecked
    BY <1>9 DEF Lookahead, At, Unchecked
  <2> QED
    BY <1>4, <1>8, <1>9, <2>1 DEF Lookahead
<1>10. CASE SyncToken
  <2>1. Item.e.k \in Unchecked
    BY <1>10 DEF SyncToken, At, Unchecked
  <2> QED
    BY <1>4, <1>8, <1>10, <2>1 DEF SyncToken
<1>11. CASE NestPair
  <2>1. Lowering /\ At({"pair"})
    BY <1>3, <1>11 DEF NestPair
  <2>2. /\ ToSet(PairOf(Item.e.to)) \subseteq DOMAIN File(Item.of).lex
        /\ InUsedText(Item) => ToSet(PairOf(Item.e.to)) \subseteq DOMAIN Host.lex
    BY <2>1, PairIsOwn
  <2>3. ASSUME NEW t \in ToSet(PairOf(Item.e.to))
        PROVE  Belongs(Expectation("", t)) /\ Covered(Expectation("", t))
    BY <2>1, <2>2, ExpectationBelongs, ExpectationCovered DEF Host
  <2> QED
    BY <1>4, <1>11, <2>3 DEF NestPair
<1>12. CASE NestUsingPair
  <2> DEFINE m == Item.e.from
  <2>1. Lowering /\ At({"usingPair"}) /\ Item.e.k = "usingPair"
    BY <1>3, <1>12 DEF NestUsingPair, At
  <2>2. m \in Table(world)
    BY <2>1, UsingIs
  <2>3. m # ""
    BY <2>1, <2>2, WorldIs
  <2>4. ASSUME NEW t  PROVE Belongs(Expectation(m, t)) /\ Covered(Expectation(m, t))
    BY <2>1, <2>2, <2>3, ExpectationBelongs, ExpectationCovered
  <2> QED
    BY <1>4, <1>12, <2>4 DEF NestUsingPair
<1>13. CASE Operator
  <2>1. Lowering /\ At({"operator"})
    BY <1>3, <1>13 DEF Operator
  <2>2. CASE Item.e.to \in DOMAIN Host.lex
    <3>1. Belongs(Expectation("", Item.e.to)) /\ Covered(Expectation("", Item.e.to))
      BY <2>1, <2>2, ExpectationBelongs, ExpectationCovered
    <3> QED
      BY <1>4, <1>13, <2>2, <3>1 DEF Operator
  <2>3. CASE Item.e.to \notin DOMAIN Host.lex
    BY <1>1, <1>13, <2>3 DEF Operator, ReferTo
  <2> QED
    BY <2>2, <2>3
<1>14. CASE UseRule \/ ExpandCall \/ UseTemplate
  BY <1>1, <1>14 DEF UseRule, ExpandCall, UseTemplate, Panic, result
<1>15. CASE EmbedProgram
  <2>1. Lowering /\ At({"embed"})
    BY <1>3, <1>15 DEF EmbedProgram
  <2>2. /\ Item.e.k = "embed"
        /\ Asks(File(Item.of), Item.e) \subseteq DOMAIN File(Item.of).lex
        /\ InUsedText(Item) => Asks(File(Item.of), Item.e) \subseteq DOMAIN Host.lex
    BY <2>1, ParsedItem
  <2>3. {Item.e.open, Item.e.close} \subseteq Asks(File(Item.of), Item.e)
    BY <2>2, AsksOf
  <2>4. ASSUME NEW x \in Delimiters  PROVE Belongs(x) /\ Covered(x)
    <3>1. PICK t \in {Item.e.open, Item.e.close} : x = Expectation("", t)
      BY <2>4 DEF Delimiters
    <3> QED
      BY <2>1, <2>2, <2>3, <3>1, ExpectationBelongs, ExpectationCovered DEF Host
  <2>5. UNCHANGED world /\ expects' \subseteq expects \union Delimiters
    BY <1>15 DEF EmbedProgram, Panic, result
  <2> QED
    BY <2>4, <2>5, TokensStay
<1>16. CASE EmbedBare \/ Unfit
  BY <1>1, <1>16 DEF EmbedBare, Unfit, Panic, result
<1> QED
  BY <1>5, <1>6, <1>7, <1>9, <1>10, <1>11, <1>12, <1>13, <1>14, <1>15, <1>16 DEF Next

LEMMA LoweringInvariant == Spec => []LoweringInv
<1>1. LoweringInv /\ [Next]_vars => LoweringInv'
  BY CheckedNext, StackedNext, TokensNext DEF LoweringInv
<1> QED
  BY <1>1, LoweringInit, PTL DEF Spec

(* The rules of the host, and of a program it embeds, wait for tokens of   *)
(* their own lexer only, and the lexer of the compiled language emits them *)
(* (resolveSymbolTokenIDForAlias): for every host, every set of modules,   *)
(* every recursion and every order of the rules.                           *)
THEOREM TokensBelongToTheirLexer == Spec => []TokensBelong
<1>1. LoweringInv => TokensBelong
  BY DEF LoweringInv, TokensFine, Belongs, TokensBelong
<1> QED
  BY <1>1, LoweringInvariant, PTL

(* What the text of a rule or template the host uses asks of the lexer is  *)
(* declared by the host, but for what it gives to templates and the pairs  *)
(* it takes from modules (buildImportedLexicalObligations).                *)
THEOREM UsedTextIsDeclared == Spec => []UsedTextIsCovered
<1>1. LoweringInv => UsedTextIsCovered
  BY DEF LoweringInv, TokensFine, Covered, UsedTextIsCovered
<1> QED
  BY <1>1, LoweringInvariant, PTL

----------------------------------------------------------------------------
(* Why the compiler panics. *)

LEMMA OpenNamesAreOfLibraries ==
    ASSUME Lowering, OpenReference
    PROVE  Item.of # "host" /\ File(Item.of).library
<1> DEFINE n == Item.e.to
           f == Item.of
<1>1. At({"ref"}) /\ ~TokenInEnv(n) /\ ~RuleInEnv(n)
  BY DEF OpenReference
<1>2. /\ f = Owner(Ctx) /\ Item.e \in Elements(File(f)) /\ f \in DOMAIN world.files /\ Item.e.k = "ref"
  BY <1>1, WrittenItem
<1>3. DOMAIN Ctx.env = 1 .. Len(Ctx.env) /\ Len(Ctx.env) \in Nat \ {0} /\ Ctx.env[1] = f
  BY <1>1, <1>2, OwnerIs
<1>4. n \notin Names(f)
  BY <1>1, <1>3 DEF RuleInEnv
<1>5. Item.e \in RuleRefs(File(f)) /\ ~RuleRefWrong(File(f))
  BY <1>2, CleanFiles DEF RuleRefs, OfKind
<1>6. KindOf(File(f), n) \notin {"rule", "pratt"}
  BY <1>4 DEF KindOf, Names
<1>7. KindOf(File(f), n) = "none"
  BY <1>5, <1>6 DEF RuleRefWrong, KindOf
<1>8. File(f).library
  BY <1>5, <1>7 DEF RuleRefWrong
<1>9. ~File("host").library
  BY WorldAssumption DEF Lowering, Checked, File
<1> QED
  BY <1>8, <1>9

\* A module has no entry only if it has no rule.
LEMMA NoEntryNoRule ==
    ASSUME Lowering, NEW f \in DOMAIN world.files, NEW m \in File(f).embeds, EntryOf(m) = ""
    PROVE  DOMAIN File(m).rules = {}
<1>1. m \in DOMAIN world.files
  BY WorldIs DEF Table
<1>2. File(m).first \in DOMAIN File(m).rules \ {""} \/ DOMAIN File(m).rules = {}
  BY <1>1, WorldIs
<1> QED
  BY <1>2 DEF EntryOf, Program

LEMMA UnfitIs ==
    ASSUME Lowering, At({"unfit"})
    PROVE  Item.e.k = "unfit" /\ Item.e.what \in {"number", "alternative", "parameter"}
<1>1. Item.e.k = "unfit"
  BY DEF At
<1>2. Item.e \in Elements(File(Item.of)) /\ Item.of \in DOMAIN world.files
  BY <1>1, WrittenItem
<1>3. world \in Worlds
  BY DEF Lowering, Checked
<1>4. \A e \in OfKind(Elements(File(Item.of)), {"unfit"}) : e.what \in {"number", "alternative", "parameter"}
  BY <1>2, <1>3, WorldAssumption DEF File
<1> QED
  BY <1>1, <1>2, <1>4 DEF OfKind

LEMMA GapsNext ==
    ASSUME Checked, Stacked, PanicsAreGaps, [Next]_vars
    PROVE  PanicsAreGaps'
<1> DEFINE Gap(why, of, e) == \/ why = "open reference" /\ of # "host" /\ File(of).library
                              \/ why = "no rule" /\ DOMAIN File(e.from).rules = {}
                              \/ why = "delimiter" /\ of # "host"
                              \/ why = "no delimiters" /\ e.k = "bare"
                              \/ why \in {"number", "alternative", "parameter"} /\ e.k = "unfit"
<1>1. ASSUME UNCHANGED <<world, trouble>>, phase' = "panic" => phase = "panic"  PROVE PanicsAreGaps'
  BY <1>1 DEF PanicsAreGaps, File
<1>2. ASSUME NEW why, Panic(why), Gap(why, Item.of, Item.e)  PROVE PanicsAreGaps'
  <2>1. \A f : File(f)' = File(f)
    BY <1>2 DEF Panic, File
  <2>2. trouble'.why = why /\ trouble'.of = Item.of /\ trouble'.e = Item.e
    BY <1>2 DEF Panic
  <2> QED
    BY <1>2, <2>1, <2>2 DEF PanicsAreGaps
<1>3. \A kinds : At(kinds) => Lowering
  BY DEF At, Lowering
<1>4. CASE CheckFile \/ CollectSymbols
  BY <1>1, <1>4 DEF CheckFile, CollectSymbols
<1>5. CASE Begin \/ Finish \/ AllLowered \/ Finished \/ UNCHANGED vars
  BY <1>1, <1>5 DEF Begin, Finish, AllLowered, Finished, vars
<1>6. CASE RuleReference \/ Reference
  BY <1>1, <1>6 DEF RuleReference, Reference, ReferTo
<1>7. CASE OpenReference
  <2>1. Panic("open reference") /\ Lowering
    BY <1>3, <1>7 DEF OpenReference
  <2> QED
    BY <1>2, <1>7, <2>1, OpenNamesAreOfLibraries
<1>8. CASE TokenMatch \/ Lookahead \/ SyncToken \/ NestPair \/ NestUsingPair
  BY <1>1, <1>8 DEF TokenMatch, Lookahead, SyncToken, NestPair, NestUsingPair, Expect
<1>9. CASE Operator
  BY <1>1, <1>9 DEF Operator, Expect, ReferTo
<1>10. CASE UseRule
  <2>1. At({"using"}) /\ Item.e.k = "using"
    BY <1>10 DEF UseRule, At
  <2>2. UsingFits(world, Item.of, Item.e)
    BY <1>3, <2>1, UsingIs
  <2>3. CanUse
    BY <2>1, <2>2 DEF UsingFits, CanUse, File
  <2>4. UNCHANGED <<world, trouble, phase>>
    BY <1>10, <2>3 DEF UseRule
  <2> QED
    BY <1>1, <2>4
<1>11. CASE ExpandCall \/ UseTemplate
  BY <1>1, <1>11 DEF ExpandCall, UseTemplate
<1>12. CASE EmbedProgram
  <2> DEFINE m == Item.e.from
  <2>1. At({"embed"}) /\ Lowering
    BY <1>3, <1>12 DEF EmbedProgram
  <2>2. /\ Item.e \in Parsed(File(Item.of)) /\ Item.of \in DOMAIN world.files /\ Item.e.k = "embed"
        /\ Asks(File(Item.of), Item.e) \subseteq DOMAIN File(Item.of).lex
    BY <2>1, ParsedItem
  <2>3. CASE EntryOf(m) = "" /\ Panic("no rule")
    <3>1. Item.e \in Embeds(File(Item.of)) /\ ~EmbedWrong(File(Item.of))
      BY <2>1, <2>2, CleanFiles DEF Embeds, OfKind
    <3>2. m \in File(Item.of).embeds
      BY <3>1 DEF EmbedWrong
    <3>3. DOMAIN File(m).rules = {}
      BY <2>1, <2>2, <2>3, <3>2, NoEntryNoRule
    <3> QED
      BY <1>2, <2>3, <3>3
  <2>4. CASE (\E x \in Delimiters : x.id = None) /\ Panic("delimiter")
    <3>1. PICK t \in {Item.e.open, Item.e.close} : Expectation("", t).id = None
      BY <2>4 DEF Delimiters
    <3>2. TokenId("", t) = <<>>
      BY <3>1 DEF Expectation, None
    <3>3. t \in DOMAIN File(Item.of).lex
      <4>1. {Item.e.open, Item.e.close} \subseteq Asks(File(Item.of), Item.e)
        BY <2>2, AsksOf
      <4> QED
        BY <2>2, <3>1, <4>1
    <3>4. t \notin DOMAIN Host.lex
      <4>1. <<"", t>> # <<>>
        OBVIOUS
      <4>2. t \in DOMAIN Host.lex => TokenId("", t) = <<"", t>>
        BY <2>1, OwnToken
      <4> QED
        BY <3>2, <4>1, <4>2
    <3> QED
      BY <1>2, <2>4, <3>3, <3>4 DEF Host
  <2>5. CASE UNCHANGED <<world, trouble, phase>>
    BY <1>1, <2>5
  <2> QED
    BY <1>12, <2>3, <2>4, <2>5 DEF EmbedProgram
<1>13. CASE EmbedBare
  <2> DEFINE m == Item.e.from
  <2>1. At({"bare"}) /\ Lowering
    BY <1>3, <1>13 DEF EmbedBare
  <2>2. Item.e.k = "bare"
    BY <2>1 DEF At
  <2>3. Item.e \in Elements(File(Item.of)) /\ Item.of \in DOMAIN world.files
    BY <2>1, <2>2, WrittenItem
  <2>4. Item.e \in OfKind(Parsed(File(Item.of)), {"bare"}) /\ ~EmbedWrong(File(Item.of))
    BY <2>1, <2>2, <2>3, ParsedElement, CleanFiles DEF OfKind
  <2>5. m \in File(Item.of).embeds
    BY <2>4 DEF EmbedWrong
  <2>6. CASE EntryOf(m) = "" /\ Panic("no rule")
    BY <1>2, <2>1, <2>3, <2>5, <2>6, NoEntryNoRule
  <2>7. CASE Panic("no delimiters")
    BY <1>2, <2>2, <2>7
  <2> QED
    BY <1>13, <2>6, <2>7 DEF EmbedBare
<1>14. CASE Unfit
  <2>1. At({"unfit"}) /\ Panic(Item.e.what) /\ Lowering
    BY <1>3, <1>14 DEF Unfit
  <2> QED
    BY <1>2, <2>1, UnfitIs
<1> QED
  BY <1>4, <1>5, <1>6, <1>7, <1>8, <1>9, <1>10, <1>11, <1>12, <1>13, <1>14 DEF Next

(* Why the compiler panics on an accepted host, for every host and every   *)
(* table of modules: among the names of a text only one a library left     *)
(* open or a delimiter of a module's embed statement is at fault; what is  *)
(* left are forms that the grammar allows and no check refuses (the panics *)
(* of compileReference, compileEmbedStatement, extractIntContent,          *)
(* compileEmitOneOfWithCustomName, compileVirtual, compileNest).           *)
THEOREM PanicsAreExplained == Spec => []PanicsAreGaps
<1>1. Init => PanicsAreGaps
  BY DEF Init, PanicsAreGaps
<1>2. LoweringInv /\ PanicsAreGaps /\ [Next]_vars => PanicsAreGaps'
  BY GapsNext DEF LoweringInv
<1> QED
  BY <1>1, <1>2, LoweringInvariant, PTL DEF Spec

----------------------------------------------------------------------------
(* Where references lead.  Rung says how frames stand on the stack: the    *)
(* rule of the host at the bottom, and above it frames that count their    *)
(* labels within that rule, or within a rule of a module that is being     *)
(* compiled.  Labelled says what a label of the registry is defined as,    *)
(* Heading where a reference leads or which frame will define what it      *)
(* leads to.  A numbered label is not written twice since a rule that was  *)
(* lowered is not begun again (Settled) and the numbers of the current one *)
(* are smaller than the next one.                                          *)

OfModule(n) == \E a \in Table(world) : n \in DOMAIN File(a).rules

Settled(n) == <<"", n>> \in Labels /\ n \notin todo

IsPair(l) == Len(l) = 2 /\ l = <<l[1], l[2]>>
IsQuad(l) == Len(l) = 4 /\ l = <<l[1], l[2], l[3], l[4]>>

Rung(s, i) ==
    /\ s[i].kind \in Kinds /\ (s[i].kind = "rule" <=> i = 1)
    /\ s[i].rule = s[1].rule \/ OfModule(s[i].rule)
    /\ s[i].kind = "rule" => s[i].at = <<"host", s[i].rule>>
    /\ s[i].kind = "imported" => IsPair(s[i].at) /\ s[i].at[1] \in Table(world)
    /\ s[i].alias = "" => \A x \in ToSet(s[i].text) : x.of = "host"

NumberOf(kind, role) == IF <<kind, role>> \in DOMAIN counts THEN counts[<<kind, role>>] ELSE 0

Labelled(l) ==
    \/ IsPair(l) /\ l[1] = "" /\ registry[l] = <<"host", l[2]>>
    \/ IsPair(l) /\ l[1] \in Table(world) /\ registry[l] = l
    \/ /\ IsQuad(l) /\ l[4] \in Nat
       /\ \/ OfModule(l[1]) \/ Settled(l[1])
          \/ stack # <<>> /\ l[1] = HostRule /\ l[4] < NumberOf(l[2], l[3])

Home(l, m) == l \in Labels /\ registry[l] = m

ComingIn(s, l) == \E i \in DOMAIN s : s[i].kind = "imported" /\ s[i].at = l

Coming(l) == ComingIn(stack, l)

Heading(r) ==
    \/ /\ IsPair(r.label) /\ r.label[1] = "" /\ r.meant = Meant(r.of, r.label[2])
       /\ \/ r.alias = "" /\ r.of = "host"
          \/ r.alias \in Table(world) /\ r.label[2] \notin DOMAIN File(r.alias).rules
    \/ /\ IsPair(r.label) /\ r.label[1] = r.alias /\ r.meant = Meant(r.of, r.label[2])
       /\ r.alias \in Table(world)
       /\ Home(r.label, r.label) \/ Coming(r.label)
    \/ /\ IsQuad(r.label)
       /\ OfModule(r.label[1]) \/ Home(r.label, r.meant)

Homing ==
    /\ phase \in {"check", "collect"} => stack = <<>> /\ registry = <<>> /\ refs = {}
    /\ \A i \in DOMAIN stack : Rung(stack, i)
    /\ \A role \in DOMAIN counts : counts[role] \in Nat
    /\ stack # <<>> => ~Settled(HostRule)
    /\ \A l \in Labels : Labelled(l)
    /\ \A r \in refs : Heading(r)
    /\ phase \in {"lower", "done"} => \A n \in DOMAIN Host.rules : n \in todo \/ <<"", n>> \in Labels
    /\ phase = "done" => stack = <<>> /\ todo = {} /\ \A n \in DOMAIN Host.pratt : <<"", n>> \in Labels

LEMMA HomingIsEnough ==
    ASSUME Checked, Homing
    PROVE  ReferencesLeadHome
<1> SUFFICES ASSUME phase = "done", NEW r \in refs, ~Unsteady(r)  PROVE Home(r.label, r.meant)
  BY DEF ReferencesLeadHome, Home
<1> DEFINE n == r.label[2]
<1>1. /\ ~(r.meant[1] # "host" /\ r.meant[2] \in DOMAIN File(r.meant[1]).pratt)
      /\ ~(r.meant[1] = "host" /\ r.meant[2] \notin Names("host"))
      /\ r.alias = "" \/ r.of = r.alias
      /\ ~(r.meant[1] = "host" /\ r.of # "host")
      /\ Len(r.label) = 4 => ~OfModule(r.label[1])
  BY DEF Unsteady, OfModule
<1>2. \A a \in Table(world) : a # "" /\ a # "host"
  <2>1. world \in Worlds
    BY DEF Checked
  <2>2. "" \notin DOMAIN world.files
    BY <2>1, WorldAssumption
  <2> QED
    BY <2>2 DEF Table
<1>3. /\ \A x \in Names("host") : <<"", x>> \in Labels
      /\ \A l : ~Coming(l)
  <2>1. /\ stack = <<>> /\ todo = {} /\ \A x \in DOMAIN Host.pratt : <<"", x>> \in Labels
        /\ \A x \in DOMAIN Host.rules : x \in todo \/ <<"", x>> \in Labels
    BY DEF Homing
  <2>2. DOMAIN <<>> = {}
    OBVIOUS
  <2> QED
    BY <2>1, <2>2 DEF Names, Host, Coming, ComingIn
<1>4. /\ Heading(r) /\ \A l \in Labels : Labelled(l)
  BY DEF Homing
<1>5. ASSUME NEW x, x \in Names("host")  PROVE Home(<<"", x>>, <<"host", x>>)
  <2>1. <<"", x>> \in Labels /\ Labelled(<<"", x>>)
    BY <1>3, <1>4, <1>5
  <2>2. <<"", x>>[1] = "" /\ <<"", x>>[2] = x /\ ~IsQuad(<<"", x>>)
    BY DEF IsQuad
  <2>3. registry[<<"", x>>] = <<"host", x>>
    BY <1>2, <2>1, <2>2 DEF Labelled
  <2> QED
    BY <2>1, <2>3 DEF Home
<1>6. \A f : Meant(f, n) = (IF n \in Names(f) THEN <<f, n>> ELSE <<"host", n>>)
  BY DEF Meant
<1>7. \A f : <<f, n>>[1] = f /\ <<f, n>>[2] = n
  OBVIOUS
<1>8. CASE IsPair(r.label) /\ r.label[1] = "" /\ r.meant = Meant(r.of, n) /\ r.alias = "" /\ r.of = "host"
  <2>1. r.meant = <<"host", n>>
    BY <1>6, <1>8
  <2>2. n \in Names("host")
    <3>1. r.meant[1] = "host" /\ r.meant[2] = n
      BY <1>7, <2>1
    <3> QED
      BY <1>1, <3>1
  <2>3. r.label = <<"", n>>
    BY <1>8 DEF IsPair
  <2> QED
    BY <1>5, <2>1, <2>2, <2>3
<1>9. CASE r.meant = Meant(r.of, n) /\ r.alias \in Table(world) /\ n \notin DOMAIN File(r.alias).rules
  <2>1. r.of = r.alias /\ r.of # "host"
    BY <1>1, <1>2, <1>9
  <2>2. r.meant = <<r.of, n>> /\ n \in Names(r.of)
    BY <1>1, <1>6, <1>7, <1>9, <2>1
  <2>3. n \in DOMAIN File(r.of).pratt
    BY <1>9, <2>1, <2>2 DEF Names
  <2> QED
    BY <1>1, <1>7, <2>1, <2>2, <2>3
<1>10. CASE /\ IsPair(r.label) /\ r.label[1] = r.alias /\ r.meant = Meant(r.of, n) /\ r.alias \in Table(world)
            /\ Home(r.label, r.label) \/ Coming(r.label)
  <2>1. r.of = r.alias /\ r.of # "host"
    BY <1>1, <1>2, <1>10
  <2>2. r.meant = <<r.of, n>>
    BY <1>1, <1>6, <1>7, <1>10, <2>1
  <2>3. r.label = <<r.alias, n>>
    BY <1>10 DEF IsPair
  <2> QED
    BY <1>3, <1>10, <2>1, <2>2, <2>3
<1>11. CASE IsQuad(r.label) /\ (OfModule(r.label[1]) \/ Home(r.label, r.meant))
  BY <1>1, <1>11 DEF IsQuad
<1> QED
  BY <1>4, <1>8, <1>9, <1>10, <1>11 DEF Heading

LEMMA PutIs ==
    ASSUME NEW map, NEW key, NEW value
    PROVE  /\ DOMAIN Put(map, key, value) = {key} \union DOMAIN map
           /\ Put(map, key, value)[key] = value
           /\ \A x \in DOMAIN map : x # key => Put(map, key, value)[x] = map[x]
  BY DEF Put

LEMMA ModulesStay ==
    ASSUME UNCHANGED world
    PROVE  /\ Host' = Host /\ Table(world)' = Table(world) /\ \A f : File(f)' = File(f)
           /\ \A n : OfModule(n)' <=> OfModule(n)
           /\ \A f, n : Meant(f, n)' = Meant(f, n)
           /\ \A s, i : Rung(s, i)' <=> Rung(s, i)
<1>1. Host' = Host /\ Table(world)' = Table(world) /\ \A f : File(f)' = File(f)
  BY DEF Host, File, Table
<1>2. \A n : OfModule(n)' <=> OfModule(n)
  BY <1>1 DEF OfModule
<1>3. \A f, n : Meant(f, n)' = Meant(f, n)
  BY <1>1 DEF Meant, Names
<1>4. ASSUME NEW s, NEW i  PROVE Rung(s, i)' <=> Rung(s, i)
  BY <1>1, <1>2 DEF Rung
<1> QED
  BY <1>1, <1>2, <1>3, <1>4

\* A label that is defined, or about to be, and that stays so.
LEMMA HeadingStays ==
    ASSUME UNCHANGED world, NEW r, Heading(r),
           IsPair(r.label) /\ r.label[1] \in Table(world) /\ (Home(r.label, r.label) \/ Coming(r.label))
              => (Home(r.label, r.label)' \/ Coming(r.label)'),
           IsQuad(r.label) /\ ~OfModule(r.label[1]) /\ Home(r.label, r.meant) => Home(r.label, r.meant)'
    PROVE  Heading(r)'
<1> DEFINE n == r.label[2]
<1>1. /\ Table(world)' = Table(world) /\ \A f : File(f)' = File(f)
      /\ \A x : OfModule(x)' <=> OfModule(x)
      /\ \A f, x : Meant(f, x)' = Meant(f, x)
  BY ModulesStay
<1>2. CASE /\ IsPair(r.label) /\ r.label[1] = "" /\ r.meant = Meant(r.of, n)
           /\ \/ r.alias = "" /\ r.of = "host"
              \/ r.alias \in Table(world) /\ n \notin DOMAIN File(r.alias).rules
  BY <1>1, <1>2 DEF Heading
<1>3. CASE /\ IsPair(r.label) /\ r.label[1] = r.alias /\ r.meant = Meant(r.of, n)
           /\ r.alias \in Table(world)
           /\ Home(r.label, r.label) \/ Coming(r.label)
  <2>1. Home(r.label, r.label)' \/ Coming(r.label)'
    BY <1>3
  <2> QED
    BY <1>1, <1>3, <2>1 DEF Heading
<1>4. CASE /\ IsQuad(r.label)
           /\ OfModule(r.label[1]) \/ Home(r.label, r.meant)
  BY <1>1, <1>4 DEF Heading
<1> QED
  BY <1>2, <1>3, <1>4 DEF Heading

LEMMA LabelledStays ==
    ASSUME UNCHANGED world, NEW l, Labelled(l), registry'[l] = registry[l],
           Settled(l[1]) => Settled(l[1])',
           stack # <<>> /\ l[1] = HostRule /\ ~OfModule(l[1]) /\ IsQuad(l) /\ l[4] < NumberOf(l[2], l[3])
              => \/ Settled(l[1])'
                 \/ stack' # <<>> /\ l[1] = stack'[1].rule /\ l[4] < NumberOf(l[2], l[3])'
    PROVE  Labelled(l)'
<1>1. Table(world)' = Table(world) /\ \A x : OfModule(x)' <=> OfModule(x)
  BY ModulesStay
<1>2. CASE IsPair(l) /\ l[1] = "" /\ registry[l] = <<"host", l[2]>>
  BY <1>2 DEF Labelled
<1>3. CASE IsPair(l) /\ l[1] \in Table(world) /\ registry[l] = l
  BY <1>1, <1>3 DEF Labelled
<1>4. CASE /\ IsQuad(l) /\ l[4] \in Nat
           /\ \/ OfModule(l[1]) \/ Settled(l[1])
              \/ stack # <<>> /\ l[1] = HostRule /\ l[4] < NumberOf(l[2], l[3])
  BY <1>1, <1>4 DEF Labelled, HostRule
<1> QED
  BY <1>2, <1>3, <1>4 DEF Labelled

\* What only changes the stack above the rule of the host, and the references.
LEMMA StackMoves ==
    ASSUME Homing, phase = "lower", phase' \in {"lower", "panic"}, UNCHANGED <<world, todo, counts, registry>>,
           stack # <<>>, stack' # <<>>, \A i \in DOMAIN stack' : Rung(stack', i), stack'[1].rule = HostRule,
           \A l : Coming(l) => ComingIn(stack', l), \A r \in refs' : r \in refs \/ Heading(r)'
    PROVE  Homing'
<1>1. \A i \in DOMAIN stack' : Rung(stack, i)'
  BY ModulesStay DEF Rung, OfModule, File
<1>2. Labels' = Labels /\ \A l, m : Home(l, m)' <=> Home(l, m)
  BY DEF Labels, Home
<1>3. \A n : Settled(n)' <=> Settled(n)
  BY DEF Settled, Labels
<1>4. \A kind, role : NumberOf(kind, role)' = NumberOf(kind, role)
  BY DEF NumberOf
<1>5. ASSUME NEW l \in Labels'  PROVE Labelled(l)'
  <2>1. Labelled(l)
    BY <1>2 DEF Homing
  <2> QED
    BY <1>3, <1>4, <2>1, LabelledStays DEF HostRule
<1>6. ASSUME NEW r \in refs'  PROVE Heading(r)'
  <2>1. CASE r \in refs
    <3>1. Heading(r)
      BY <2>1 DEF Homing
    <3>2. Coming(r.label) => Coming(r.label)'
      BY DEF Coming
    <3> QED
      BY <1>2, <3>1, <3>2, HeadingStays
  <2> QED
    BY <2>1
<1>7. ~Settled(HostRule)'
  BY <1>3 DEF Homing, HostRule
<1>8. Host' = Host
  BY ModulesStay
<1> QED
  BY <1>1, <1>2, <1>5, <1>6, <1>7, <1>8 DEF Homing

\* The stack when an item is taken from the innermost text.
LEMMA RestIs ==
    ASSUME Stacked, NEW kinds, At(kinds)
    PROVE  /\ Len(stack) \in Nat \ {0} /\ Len(Rest) = Len(stack)
           /\ DOMAIN stack = 1 .. Len(stack) /\ DOMAIN Rest = 1 .. Len(stack)
           /\ \A i \in 1 .. Len(stack) :
                 /\ Rest[i].kind = stack[i].kind /\ Rest[i].at = stack[i].at
                 /\ Rest[i].alias = stack[i].alias /\ Rest[i].rule = stack[i].rule
                 /\ ToSet(Rest[i].text) \subseteq ToSet(stack[i].text)
           /\ Ctx = stack[Len(stack)] /\ Item \in ToSet(Ctx.text)
<1>1. /\ IsSeq(stack) /\ stack # <<>> /\ Len(stack) \in Nat \ {0} /\ DOMAIN stack = 1 .. Len(stack)
  BY DEF Stacked, At, IsSeq
<1>2. Ctx = stack[Len(stack)]
  BY DEF Ctx, Last
<1>3. Fine(Ctx) /\ Ctx.text # <<>> /\ Item \in ToSet(Ctx.text)
  BY AtWork DEF At
<1>4. ToSet(Tail(Ctx.text)) \subseteq ToSet(Ctx.text)
  BY <1>3, TailIsSeq DEF Fine, FrameOK
<1> DEFINE short == Frame(Ctx.kind, Ctx.at, Ctx.role, Ctx.alias, Ctx.env, Ctx.rule, Tail(Ctx.text))
<1>5. [Ctx EXCEPT !.text = Tail(@)] = short
  BY <1>3, TextTaken DEF Fine, FrameOK
<1>6. /\ short.kind = Ctx.kind /\ short.at = Ctx.at /\ short.alias = Ctx.alias /\ short.rule = Ctx.rule
      /\ short.text = Tail(Ctx.text)
  BY DEF Frame
<1> HIDE DEF short
<1>7. Rest = [stack EXCEPT ![Len(stack)] = short]
  <2>1. Rest = [stack EXCEPT ![Len(stack)] = [stack[Len(stack)] EXCEPT !.text = Tail(@)]]
    BY DEF Rest
  <2> QED
    BY <1>2, <1>5, <2>1
<1>8. /\ DOMAIN Rest = 1 .. Len(stack) /\ Rest[Len(stack)] = short
      /\ \A i \in 1 .. Len(stack) : i # Len(stack) => Rest[i] = stack[i]
  BY <1>1, <1>7
<1>9. Len(Rest) = Len(stack)
  <2>1. Len(Rest) \in Nat /\ DOMAIN Rest = 1 .. Len(Rest)
    BY AtWork DEF IsSeq
  <2>2. ASSUME NEW a \in Nat, NEW b \in Nat, 1 .. a = 1 .. b  PROVE a = b
    <3>1. a > 0 => a \in 1 .. b
      BY <2>2
    <3>2. b > 0 => b \in 1 .. a
      BY <2>2
    <3> QED
      BY <3>1, <3>2
  <2> QED
    BY <1>1, <1>8, <2>1, <2>2
<1>10. ASSUME NEW i \in 1 .. Len(stack)
       PROVE  /\ Rest[i].kind = stack[i].kind /\ Rest[i].at = stack[i].at
              /\ Rest[i].alias = stack[i].alias /\ Rest[i].rule = stack[i].rule
              /\ ToSet(Rest[i].text) \subseteq ToSet(stack[i].text)
  BY <1>2, <1>4, <1>6, <1>8
<1> QED
  BY <1>1, <1>2, <1>3, <1>8, <1>9, <1>10

\* Taking an item, and entering a frame, leave the frames below as they are.
LEMMA Taken ==
    ASSUME Stacked, Homing, NEW kinds, At(kinds)
    PROVE  /\ \A i \in DOMAIN Rest : Rung(Rest, i)
           /\ Rest # <<>> /\ Rest[1].rule = HostRule
           /\ \A l : Coming(l) => ComingIn(Rest, l)
<1>1. /\ Len(stack) \in Nat \ {0} /\ Len(Rest) = Len(stack)
      /\ DOMAIN stack = 1 .. Len(stack) /\ DOMAIN Rest = 1 .. Len(stack)
      /\ \A i \in 1 .. Len(stack) :
            /\ Rest[i].kind = stack[i].kind /\ Rest[i].at = stack[i].at
            /\ Rest[i].alias = stack[i].alias /\ Rest[i].rule = stack[i].rule
            /\ ToSet(Rest[i].text) \subseteq ToSet(stack[i].text)
  BY RestIs
<1>2. 1 \in 1 .. Len(stack)
  BY <1>1
<1>3. Rest[1].rule = stack[1].rule
  BY <1>1, <1>2
<1>4. ASSUME NEW i \in 1 .. Len(stack)  PROVE Rung(Rest, i)
  <2>1. Rung(stack, i)
    BY <1>1 DEF Homing
  <2> QED
    BY <1>1, <1>3, <2>1 DEF Rung
<1>5. \A l : Coming(l) => ComingIn(Rest, l)
  BY <1>1 DEF Coming, ComingIn
<1> QED
  BY <1>1, <1>3, <1>4, <1>5 DEF HostRule

LEMMA AppendedIs ==
    ASSUME NEW t, IsSeq(t), NEW x
    PROVE  /\ Len(t) \in Nat /\ DOMAIN Append(t, x) = 1 .. (Len(t) + 1)
           /\ Append(t, x)[Len(t) + 1] = x /\ Append(t, x) # <<>>
           /\ \A i \in 1 .. Len(t) : Append(t, x)[i] = t[i]
<1>1. t \in [1 .. Len(t) -> ToSet(t)] /\ Len(t) \in Nat
  BY DEF IsSeq
<1>2. t \in [1 .. Len(t) -> ToSet(t) \union {x}]
  BY <1>1
<1>3. t \in Seq(ToSet(t) \union {x})
  BY <1>1, <1>2
<1>4. Append(t, x) # <<>>
  <2>1. Len(Append(t, x)) = Len(t) + 1
    BY <1>3
  <2>2. Append(t, x) \in Seq(ToSet(t) \union {x})
    BY <1>3
  <2> QED
    BY <1>1, <2>1, <2>2
<1> QED
  BY <1>1, <1>3, <1>4

\* A frame that may be entered from the one at work.
Above(F) ==
    /\ F.kind \in Kinds /\ F.kind # "rule"
    /\ F.rule = Ctx.rule \/ OfModule(F.rule)
    /\ F.kind = "imported" => IsPair(F.at) /\ F.at[1] \in Table(world)
    /\ F.alias = "" => \A x \in ToSet(F.text) : x.of = "host"

LEMMA Climbed ==
    ASSUME Stacked, Homing, NEW kinds, At(kinds), NEW F,
           Above(F)
    PROVE  /\ \A i \in DOMAIN Append(Rest, F) : Rung(Append(Rest, F), i)
           /\ Append(Rest, F) # <<>> /\ Append(Rest, F)[1].rule = HostRule
           /\ \A l : Coming(l) \/ (F.kind = "imported" /\ l = F.at) => ComingIn(Append(Rest, F), l)
<1> DEFINE s == Append(Rest, F)
           n == Len(stack)
<1>1. /\ n \in Nat \ {0} /\ Len(Rest) = n /\ DOMAIN stack = 1 .. n /\ DOMAIN Rest = 1 .. n
      /\ n \in 1 .. n /\ 1 \in 1 .. n
      /\ Rest[n].rule = stack[n].rule /\ Ctx = stack[n]
  <2>1. /\ n \in Nat \ {0} /\ Len(Rest) = n /\ DOMAIN stack = 1 .. n /\ DOMAIN Rest = 1 .. n
        /\ Ctx = stack[n] /\ \A i \in 1 .. n : Rest[i].rule = stack[i].rule
    BY RestIs
  <2> HIDE DEF n
  <2> QED
    BY <2>1
<1>2. /\ \A i \in DOMAIN Rest : Rung(Rest, i)
      /\ Rest[1].rule = HostRule
      /\ \A l : Coming(l) => ComingIn(Rest, l)
  BY Taken
<1>3. /\ DOMAIN s = 1 .. (n + 1) /\ s[n + 1] = F /\ s # <<>>
      /\ \A i \in 1 .. n : s[i] = Rest[i]
  <2>1. IsSeq(Rest)
    BY AtWork
  <2> HIDE DEF n
  <2> QED
    BY <1>1, <2>1, AppendedIs
<1> HIDE DEF s, n
<1>4. s[1] = Rest[1] /\ s[1].rule = HostRule
  BY <1>1, <1>2, <1>3
<1>5. ASSUME NEW i \in 1 .. n  PROVE Rung(s, i)
  <2>1. Rung(Rest, i) /\ s[i] = Rest[i]
    BY <1>1, <1>2, <1>3
  <2> QED
    BY <1>4, <2>1 DEF Rung
<1>6. Rung(s, n + 1)
  <2>1. Rung(Rest, n) /\ n + 1 # 1
    BY <1>1, <1>2
  <2>2. F.rule = s[1].rule \/ OfModule(F.rule)
    BY <1>1, <1>2, <1>4, <2>1 DEF Rung, Above
  <2> QED
    BY <1>3, <2>1, <2>2 DEF Rung, Above
<1>7. \A i \in DOMAIN s : Rung(s, i)
  <2>1. \A i \in 1 .. (n + 1) : i \in 1 .. n \/ i = n + 1
    BY <1>1
  <2> QED
    BY <1>3, <1>5, <1>6, <2>1
<1>8. ASSUME NEW l, ComingIn(Rest, l) \/ (F.kind = "imported" /\ l = F.at)  PROVE ComingIn(s, l)
  <2>1. n + 1 \in 1 .. (n + 1) /\ \A i \in 1 .. n : i \in 1 .. (n + 1)
    BY <1>1
  <2> QED
    BY <1>1, <1>3, <1>8, <2>1 DEF ComingIn
<1> QED
  <2>1. \A i \in DOMAIN s : Rung(s, i)
    BY <1>7
  <2>2. s # <<>> /\ s[1].rule = HostRule
    BY <1>3, <1>4
  <2>3. \A l : Coming(l) \/ (F.kind = "imported" /\ l = F.at) => ComingIn(s, l)
    BY <1>2, <1>8
  <2> QED
    BY <2>1, <2>2, <2>3 DEF s

LEMMA AdvanceHomes ==
    ASSUME Lowering, Homing, NEW kinds, At(kinds), Advance, UNCHANGED <<world, phase, todo, counts, registry>>,
           \A r \in refs' : r \in refs \/ Heading(r)'
    PROVE  Homing'
<1>1. /\ \A i \in DOMAIN stack' : Rung(stack', i)
      /\ stack' # <<>> /\ stack'[1].rule = HostRule
      /\ \A l : Coming(l) => ComingIn(stack', l)
  BY Taken DEF Advance, Lowering
<1>2. stack # <<>> /\ phase = "lower"
  BY DEF At
<1> QED
  BY <1>1, <1>2, StackMoves

LEMMA EnterHomes ==
    ASSUME Lowering, Homing, NEW kinds, At(kinds), NEW F, Above(F), Enter(F),
           UNCHANGED <<world, phase, todo, counts, registry>>, \A r \in refs' : r \in refs \/ Heading(r)'
    PROVE  Homing'
<1>1. /\ \A i \in DOMAIN stack' : Rung(stack', i)
      /\ stack' # <<>> /\ stack'[1].rule = HostRule
      /\ \A l : Coming(l) => ComingIn(stack', l)
  BY Climbed DEF Enter, Lowering
<1>2. stack # <<>> /\ phase = "lower"
  BY DEF At
<1> QED
  BY <1>1, <1>2, StackMoves

\* What no step of the lowering touches.
LEMMA HomingStill ==
    ASSUME Homing, UNCHANGED <<world, todo, counts, registry, stack, refs>>,
           phase' = phase \/ phase' \notin {"check", "collect", "lower", "done"}
    PROVE  Homing'
<1>1. /\ \A i \in DOMAIN stack : Rung(stack, i)' <=> Rung(stack, i)
      /\ Host' = Host
  BY ModulesStay DEF Rung, OfModule, File
<1>2. Labels' = Labels /\ \A l, m : Home(l, m)' <=> Home(l, m)
  BY DEF Labels, Home
<1>3. \A n : Settled(n)' <=> Settled(n)
  BY DEF Settled, Labels
<1>4. \A kind, role : NumberOf(kind, role)' = NumberOf(kind, role)
  BY DEF NumberOf
<1>5. ASSUME NEW l \in Labels'  PROVE Labelled(l)'
  <2>1. Labelled(l)
    BY <1>2 DEF Homing
  <2> QED
    BY <1>3, <1>4, <2>1, LabelledStays DEF HostRule
<1>6. ASSUME NEW r \in refs'  PROVE Heading(r)'
  <2>1. Heading(r)
    BY DEF Homing
  <2>2. Coming(r.label)' <=> Coming(r.label)
    BY DEF Coming, ComingIn
  <2> QED
    BY <1>2, <2>1, <2>2, HeadingStays
<1>7. stack # <<>> => ~Settled(HostRule)'
  BY <1>3 DEF Homing, HostRule
<1> QED
  BY <1>1, <1>2, <1>5, <1>6, <1>7 DEF Homing

LEMMA OwnerOfItems ==
    ASSUME Lowering, Homing, NEW kinds, At(kinds)
    PROVE  /\ Ctx.alias \in Table(world) \union {""}
           /\ Ctx.alias = "" => Item.of = "host"
           /\ Ctx.alias = "" => Head(Ctx.env) = "host"
<1>1. /\ Len(stack) \in Nat \ {0} /\ DOMAIN stack = 1 .. Len(stack)
      /\ Ctx = stack[Len(stack)] /\ Item \in ToSet(Ctx.text)
  BY RestIs DEF Lowering
<1>2. Rung(stack, Len(stack))
  <2>1. Len(stack) \in DOMAIN stack
    BY <1>1
  <2> QED
    BY <2>1 DEF Homing
<1>3. Ctx.alias = "" => Item.of = "host"
  BY <1>1, <1>2 DEF Rung
<1>4. Ctx.alias \in Table(world) \union {""} /\ Head(Ctx.env) = Owner(Ctx)
  BY OwnerIs
<1> QED
  BY <1>3, <1>4 DEF Owner

\* What a new reference leads to: a rule of the host, a rule of a module that
\* is defined or coming, what a using or an embed defined.
LEMMA PairsAre == \A l, a, b : l = <<a, b>> => IsPair(l) /\ l[1] = a /\ l[2] = b
  BY DEF IsPair

LEMMA HeadsForHost ==
    ASSUME UNCHANGED world, NEW r, NEW n, r.label = <<"", n>>, r.meant = Meant(r.of, n),
           \/ r.alias = "" /\ r.of = "host"
           \/ r.alias \in Table(world) /\ n \notin DOMAIN File(r.alias).rules
    PROVE  Heading(r)'
<1>1. /\ \A f, x : Meant(f, x)' = Meant(f, x)
      /\ Table(world)' = Table(world) /\ \A f : File(f)' = File(f)
  BY ModulesStay
<1>2. IsPair(r.label) /\ r.label[1] = "" /\ r.label[2] = n
  BY PairsAre, Zenon
<1> QED
  BY <1>1, <1>2 DEF Heading

LEMMA HeadsForModule ==
    ASSUME UNCHANGED world, NEW r, NEW n, r.label = <<r.alias, n>>, r.meant = Meant(r.of, n),
           r.alias \in Table(world), Coming(r.label)'
    PROVE  Heading(r)'
<1>1. Meant(r.of, n)' = Meant(r.of, n) /\ Table(world)' = Table(world)
  BY ModulesStay
<1>2. IsPair(r.label) /\ r.label[1] = r.alias /\ r.label[2] = n
  BY DEF IsPair
<1> QED
  BY <1>1, <1>2 DEF Heading

LEMMA ReferToHomes ==
    ASSUME Lowering, Homing, NEW kinds, At(kinds), NEW n, ReferTo(n)
    PROVE  Homing'
<1>1. PICK r : r = [from |-> HostRule, label |-> Label(n), meant |-> Meant(Item.of, n),
                    alias |-> Ctx.alias, of |-> Item.of, via |-> Item.via]
  OBVIOUS
<1>2. r.label = Label(n) /\ r.meant = Meant(r.of, n) /\ r.alias = Ctx.alias /\ r.of = Item.of
  BY <1>1
<1>3. UNCHANGED <<world, phase, todo, counts, registry>> /\ refs' = refs \union {r}
  BY <1>1 DEF ReferTo, Refer
<1>4. /\ Ctx.alias \in Table(world) \union {""}
      /\ Ctx.alias = "" => Item.of = "host"
  BY OwnerOfItems
<1>5. \A a \in Table(world) : a # ""
  BY WorldIs
<1>6. \A l : Coming(l)' <=> ComingIn(stack', l)
  BY DEF Coming, ComingIn
<1>7. CASE Importable(n)
  <2>1. r.label = <<r.alias, n>> /\ r.alias \in Table(world) /\ r.alias = Ctx.alias
    BY <1>2, <1>4, <1>7 DEF Label, Importable
  <2>2. Coming(r.label)' => Heading(r)'
    BY <1>2, <1>3, <2>1, HeadsForModule
  <2>3. CASE InProgress(n)
    <3>1. Advance
      BY <2>3 DEF ReferTo
    <3>2. Coming(r.label)
      BY <2>1, <2>3 DEF InProgress, Coming, ComingIn
    <3>3. ComingIn(stack', r.label)
      BY <3>1, <3>2, Taken DEF Advance, Lowering
    <3> QED
      BY <1>3, <1>6, <2>2, <3>1, <3>3, AdvanceHomes
  <2>4. CASE ~InProgress(n)
    <3> DEFINE F == ImportedFrame(n)
    <3>1. Enter(F)
      BY <1>7, <2>4 DEF ReferTo
    <3>2. F.kind = "imported" /\ F.at = <<Ctx.alias, n>> /\ F.alias = Ctx.alias /\ F.rule = n
      BY DEF ImportedFrame, Frame
    <3> HIDE DEF F
    <3>3. Above(F)
      <4>1. OfModule(F.rule)
        BY <1>7, <2>1, <3>2 DEF OfModule, Importable
      <4>2. IsPair(F.at) /\ F.at[1] \in Table(world)
        BY <2>1, <3>2 DEF IsPair
      <4>3. F.alias # ""
        BY <1>5, <2>1, <3>2
      <4> QED
        BY <3>2, <4>1, <4>2, <4>3 DEF Above, Kinds
    <3>4. ComingIn(stack', F.at)
      BY <3>1, <3>2, <3>3, Climbed DEF Enter, Lowering
    <3>5. F.at = r.label
      BY <2>1, <3>2
    <3>6. Heading(r)'
      BY <1>6, <2>2, <3>4, <3>5
    <3> QED
      BY <1>3, <3>1, <3>3, <3>6, EnterHomes
  <2> QED
    BY <2>3, <2>4
<1>8. CASE ~Importable(n)
  <2>1. r.label = <<"", n>>
    BY <1>2, <1>8 DEF Label
  <2>2. Ctx.alias # "" => n \notin DOMAIN File(Ctx.alias).rules
    BY <1>8 DEF Importable
  <2>3. Heading(r)'
    BY <1>2, <1>3, <1>4, <2>1, <2>2, HeadsForHost
  <2>4. Advance
    BY <1>8 DEF ReferTo
  <2> QED
    BY <1>3, <2>3, <2>4, AdvanceHomes
<1> QED
  BY <1>7, <1>8

LEMMA ModuleFrameAbove ==
    ASSUME Lowering, NEW kind \in {"using", "embed", "template"}, NEW at, NEW role, NEW a \in Table(world),
           NEW env, NEW text
    PROVE  Above(Frame(kind, at, role, a, env, Ctx.rule, text))
<1> DEFINE F == Frame(kind, at, role, a, env, Ctx.rule, text)
<1>1. F.kind = kind /\ F.alias = a /\ F.rule = Ctx.rule
  BY DEF Frame
<1>2. a # ""
  BY WorldIs
<1> HIDE DEF F
<1>3. Above(F)
  BY <1>1, <1>2 DEF Above, Kinds
<1> QED
  BY <1>3 DEF F

LEMMA UseRuleHomes ==
    ASSUME Lowering, Homing, UseRule, CanUse
    PROVE  Homing'
<1> DEFINE m == Item.e.from
           n == Item.e.to
           F == Frame("using", <<m, n>>, n, m, <<m>>, Ctx.rule, Items(File(m).rules[n], m, Via("using")))
<1>1. At({"using"}) /\ Enter(F) /\ UNCHANGED <<world, phase, todo, counts, registry, refs>>
  BY DEF UseRule, result
<1>2. m \in Table(world)
  BY <1>1, UsingIs
<1> HIDE DEF m, n
<1>3. Above(F)
  BY <1>2, ModuleFrameAbove
<1> HIDE DEF F
<1> QED
  BY <1>1, <1>3, EnterHomes

LEMMA UseTemplateHomes ==
    ASSUME Lowering, Homing, UseTemplate
    PROVE  Homing'
<1> DEFINE m == Item.e.from
           n == Item.e.to
           F == Frame("template", <<m, n>>, "", m, <<m>> \o Ctx.env, Ctx.rule, Substituted(File(m).templates[n], m))
<1>1. At({"usingCall"}) /\ Enter(F) /\ UNCHANGED <<world, phase, todo, counts, registry, refs>>
  BY DEF UseTemplate, result
<1>2. m \in Table(world)
  BY <1>1, UsingIs
<1> HIDE DEF m, n
<1>3. Above(F)
  BY <1>2, ModuleFrameAbove
<1> HIDE DEF F
<1> QED
  BY <1>1, <1>3, EnterHomes

\* What a template expands to is of the file of the template, or of the one that calls it.
LEMMA SubstitutedAreOf ==
    ASSUME NEW template, NEW f, NEW x \in ToSet(Substituted(template, f))
    PROVE  x.of \in {f, Item.of}
<1> DEFINE items == Items(template.body, f, Via("template"))
           expanded(y) == IF y.e.k = "param" THEN Argument(template.params[y.e.to], Item.e.args[y.e.to]) ELSE y
<1>1. Substituted(template, f) = [i \in DOMAIN items |-> expanded(items[i])]
  BY DEF Substituted
<1>2. ASSUME NEW i \in DOMAIN items  PROVE items[i].of = f
  BY DEF Items
<1>3. \A type, name : Argument(type, name).of = Item.of
  BY DEF Argument
<1> HIDE DEF items
<1>4. ASSUME NEW i \in DOMAIN items  PROVE expanded(items[i]).of \in {f, Item.of}
  BY <1>2, <1>3
<1> HIDE DEF expanded
<1>5. PICK i \in DOMAIN items : x = expanded(items[i])
  BY <1>1 DEF ToSet
<1> QED
  BY <1>4, <1>5

LEMMA ExpandCallHomes ==
    ASSUME Lowering, Homing, ExpandCall
    PROVE  Homing'
<1> DEFINE f == Head(Ctx.env)
           n == Item.e.to
           F == Frame("template", <<f, n>>, "", Ctx.alias, Ctx.env, Ctx.rule, Substituted(File(f).templates[n], f))
<1>1. At({"call"}) /\ Enter(F) /\ UNCHANGED <<world, phase, todo, counts, registry, refs>>
  BY DEF ExpandCall, result
<1>2. Ctx.alias = "" => Item.of = "host" /\ f = "host"
  BY <1>1, OwnerOfItems
<1>3. /\ F.kind = "template" /\ F.alias = Ctx.alias /\ F.rule = Ctx.rule
      /\ F.text = Substituted(File(f).templates[n], f)
  BY DEF Frame
<1> HIDE DEF F, f, n
<1>4. \A x \in ToSet(F.text) : x.of \in {f, Item.of}
  BY <1>3, SubstitutedAreOf
<1>5. Above(F)
  BY <1>2, <1>3, <1>4 DEF Above, Kinds
<1> QED
  BY <1>1, <1>5, EnterHomes

LEMMA EmbedHomes ==
    ASSUME Lowering, Homing, EmbedProgram, UNCHANGED phase
    PROVE  Homing'
<1> DEFINE m == Item.e.from
           n == EntryOf(m)
           F == Frame("embed", <<m, n>>, m, m, <<m>>, Ctx.rule, Items(File(m).rules[n], m, Via("embed")))
<1>1. At({"embed"}) /\ n # "" /\ Enter(F) /\ UNCHANGED <<world, phase, todo, counts, registry, refs>>
  <2>1. At({"embed"}) /\ ~Panic("no rule") /\ ~Panic("delimiter")
    BY DEF EmbedProgram, Panic, Lowering
  <2>2. n # ""
    BY <2>1 DEF EmbedProgram
  <2>3. Enter(F) /\ UNCHANGED <<world, phase, todo, counts, registry, refs>>
    BY <2>1, <2>2, Zenon DEF EmbedProgram
  <2> QED
    BY <2>1, <2>2, <2>3
<1>2. m \in Table(world)
  <2>1. At({"embed"})
    BY <1>1
  <2>2. Item.e \in Parsed(File(Item.of)) /\ Item.of \in DOMAIN world.files /\ Item.e.k = "embed"
    BY <2>1, ParsedItem
  <2>3. ~EmbedWrong(File(Item.of)) /\ Item.e \in Embeds(File(Item.of))
    BY <2>2, CleanFiles DEF Embeds, OfKind
  <2>4. m \in File(Item.of).embeds
    BY <2>3 DEF EmbedWrong
  <2> QED
    BY <2>2, <2>4, WorldIs
<1> HIDE DEF m, n
<1>3. Above(F)
  BY <1>2, ModuleFrameAbove
<1> HIDE DEF F
<1> QED
  BY <1>1, <1>3, EnterHomes

\* How the stack stands when its innermost frame has ended.
LEMMA FrontIs ==
    ASSUME NEW s, IsSeq(s), s # <<>>
    PROVE  /\ Len(s) \in Nat \ {0} /\ DOMAIN s = 1 .. Len(s) /\ DOMAIN Front(s) = 1 .. (Len(s) - 1)
           /\ \A i \in 1 .. (Len(s) - 1) : Front(s)[i] = s[i]
           /\ Front(s) = <<>> <=> Len(s) = 1
<1>1. s \in Seq(ToSet(s)) /\ Len(s) \in Nat \ {0} /\ DOMAIN s = 1 .. Len(s)
  BY DEF IsSeq
<1>2. /\ Front(s) \in Seq(ToSet(s)) /\ Len(Front(s)) = Len(s) - 1
      /\ \A i \in 1 .. (Len(s) - 1) : Front(s)[i] = s[i]
  BY <1>1 DEF Front
<1>3. DOMAIN Front(s) = 1 .. (Len(s) - 1)
  BY <1>2
<1>4. Front(s) = <<>> <=> Len(Front(s)) = 0
  BY <1>2
<1> QED
  BY <1>1, <1>2, <1>3, <1>4

LEMMA Dropped ==
    ASSUME Lowering, Homing, Finish
    PROVE  /\ Ctx.kind \in Kinds
           /\ \A i \in DOMAIN stack' : Rung(stack', i)
           /\ stack' # <<>> => stack'[1].rule = HostRule
           /\ stack' = <<>> <=> Ctx.kind = "rule"
           /\ \A l : Coming(l) => ComingIn(stack', l) \/ (Ctx.kind = "imported" /\ l = Ctx.at)
           /\ Ctx.kind = "rule" => Ctx.rule = HostRule /\ Ctx.at = <<"host", HostRule>>
           /\ Ctx.rule = HostRule \/ OfModule(Ctx.rule)
           /\ Ctx.kind = "imported" => IsPair(Ctx.at) /\ Ctx.at[1] \in Table(world)
<1> DEFINE n == Len(stack)
<1>1. stack # <<>> /\ stack' = Front(stack) /\ IsSeq(stack)
  BY DEF Finish, Lowering, Stacked
<1>2. /\ n \in Nat \ {0} /\ DOMAIN stack = 1 .. n /\ DOMAIN stack' = 1 .. (n - 1)
      /\ \A i \in 1 .. (n - 1) : stack'[i] = stack[i]
      /\ stack' = <<>> <=> n = 1
  BY <1>1, FrontIs
<1>3. Ctx = stack[n]
  BY DEF Ctx, Last
<1> HIDE DEF n
<1>4. n \in DOMAIN stack /\ Rung(stack, n)
  <2>1. n \in DOMAIN stack
    BY <1>2
  <2> QED
    BY <2>1 DEF Homing
<1>5. ASSUME NEW i \in 1 .. (n - 1)  PROVE Rung(stack', i)
  <2>1. i \in DOMAIN stack /\ stack'[i] = stack[i] /\ 1 \in 1 .. (n - 1) /\ stack'[1] = stack[1]
    BY <1>2, <1>5
  <2>2. Rung(stack, i)
    BY <2>1 DEF Homing
  <2> QED
    BY <2>1, <2>2 DEF Rung
<1>6. stack' # <<>> => stack'[1].rule = HostRule
  <2>1. n # 1 => 1 \in 1 .. (n - 1)
    BY <1>2
  <2> QED
    BY <1>2, <2>1 DEF HostRule
<1>7. ASSUME NEW l, Coming(l)  PROVE ComingIn(stack', l) \/ (Ctx.kind = "imported" /\ l = Ctx.at)
  <2>1. PICK i \in DOMAIN stack : stack[i].kind = "imported" /\ stack[i].at = l
    BY <1>7 DEF Coming, ComingIn
  <2>2. i \in 1 .. (n - 1) \/ i = n
    BY <1>2, <2>1
  <2> QED
    BY <1>2, <1>3, <2>1, <2>2 DEF ComingIn
<1>8. Ctx.kind = "rule" => n = 1 /\ Ctx.rule = HostRule /\ Ctx.at = <<"host", HostRule>>
  BY <1>3, <1>4 DEF Rung, HostRule
<1>9. n = 1 => Ctx.kind = "rule"
  BY <1>3, <1>4 DEF Rung
<1>10. /\ Ctx.kind \in Kinds
       /\ Ctx.rule = HostRule \/ OfModule(Ctx.rule)
       /\ Ctx.kind = "imported" => IsPair(Ctx.at) /\ Ctx.at[1] \in Table(world)
  BY <1>3, <1>4 DEF Rung, HostRule
<1>11. \A i \in DOMAIN stack' : Rung(stack', i)
  BY <1>2, <1>5
<1>12. stack' = <<>> <=> Ctx.kind = "rule"
  BY <1>2, <1>8, <1>9
<1> QED
  BY <1>6, <1>7, <1>8, <1>10, <1>11, <1>12

LEMMA Defined ==
    ASSUME NEW L, NEW A, registry' = Put(registry, L, A)
    PROVE  /\ Labels' = {L} \union Labels /\ registry'[L] = A /\ Home(L, A)'
           /\ \A l \in Labels : l # L => registry'[l] = registry[l]
           /\ \A l, m : Home(l, m) /\ (l = L => m = A) => Home(l, m)'
<1> DEFINE after == Put(registry, L, A)
<1>1. /\ DOMAIN after = {L} \union DOMAIN registry /\ after[L] = A
      /\ \A l \in DOMAIN registry : l # L => after[l] = registry[l]
  BY DEF Put
<1>2. registry' = after
  OBVIOUS
<1> HIDE DEF after
<1> QED
  BY <1>1, <1>2 DEF Labels, Home

LEMMA FinishHomes ==
    ASSUME Lowering, Homing, Finish, \A role \in DOMAIN counts' : counts'[role] \in Nat,
           Labels \subseteq Labels', \A n \in todo : n \in todo' \/ <<"", n>> \in Labels',
           stack' # <<>> => \A n : Settled(n)' => Settled(n),
           \A l \in Labels' : Labelled(l)', \A r \in refs' : Heading(r)'
    PROVE  Homing'
<1>1. UNCHANGED <<world, phase>> /\ phase = "lower" /\ stack # <<>>
  BY DEF Finish
<1>2. /\ \A i \in DOMAIN stack' : Rung(stack', i)
      /\ stack' # <<>> => stack'[1].rule = HostRule
  BY Dropped
<1>3. \A i \in DOMAIN stack' : Rung(stack, i)'
  BY <1>1, <1>2, ModulesStay DEF Rung, OfModule, File
<1>4. stack' # <<>> => ~Settled(HostRule)'
  <2> SUFFICES ASSUME stack' # <<>>  PROVE ~Settled(HostRule)'
    OBVIOUS
  <2>1. PICK h : h = HostRule
    OBVIOUS
  <2>2. ~Settled(h) /\ HostRule' = h
    BY <1>1, <1>2, <2>1 DEF Homing, HostRule
  <2>3. ~Settled(h)'
    BY <2>2
  <2> QED
    BY <2>2, <2>3 DEF Settled
<1>5. Host' = Host /\ \A n \in DOMAIN Host.rules : n \in todo' \/ <<"", n>> \in Labels'
  BY <1>1, ModulesStay DEF Homing
<1> QED
  BY <1>1, <1>3, <1>4, <1>5 DEF Homing

\* The rule of the host has been lowered: what was numbered within it is settled.
LEMMA RuleHomes ==
    ASSUME Lowering, Homing, Finish, Ctx.kind = "rule"
    PROVE  Homing'
<1>1. PICK h : h = HostRule
  OBVIOUS
<1>2. PICK L : L = <<"", h>>
  OBVIOUS
<1>3. PICK A : A = <<"host", h>>
  OBVIOUS
<1>4. /\ Ctx.rule = h /\ Ctx.at = A /\ stack' = <<>>
      /\ \A l : ~Coming(l)
  <2>1. \A l : ~ComingIn(<<>>, l)
    BY DEF ComingIn
  <2> QED
    BY <1>1, <1>3, <2>1, Dropped
<1>5. registry' = Put(registry, L, A)
  <2>1. LabelOf(Ctx) = L
    BY <1>2, <1>4 DEF LabelOf
  <2> QED
    BY <1>4, <2>1 DEF Finish
<1>6. UNCHANGED <<world, refs, counts>> /\ todo' = todo \ {h} /\ stack # <<>>
  BY <1>4 DEF Finish, Left
<1>7. /\ Labels' = {L} \union Labels /\ registry'[L] = A /\ Home(L, A)'
      /\ \A l \in Labels : l # L => registry'[l] = registry[l]
      /\ \A l, m : Home(l, m) /\ (l = L => m = A) => Home(l, m)'
  BY <1>5, Defined
<1>8. IsPair(L) /\ L[1] = "" /\ L[2] = h /\ ~IsQuad(L)
  BY <1>2 DEF IsPair, IsQuad
<1>9. Settled(h)' /\ \A n : Settled(n) => Settled(n)'
  BY <1>2, <1>6, <1>7 DEF Settled
<1>10. ASSUME NEW l \in Labels'  PROVE Labelled(l)'
  <2>1. CASE l = L
    BY <1>3, <1>7, <1>8, <2>1 DEF Labelled
  <2>2. CASE l # L
    <3>1. Labelled(l) /\ registry'[l] = registry[l]
      BY <1>7, <2>2 DEF Homing
    <3>2. stack # <<>> /\ l[1] = HostRule => Settled(l[1])'
      BY <1>1, <1>9
    <3> QED
      BY <1>6, <1>9, <3>1, <3>2, LabelledStays
  <2> QED
    BY <2>1, <2>2
<1>11. ASSUME NEW r \in refs'  PROVE Heading(r)'
  <2>1. Heading(r)
    BY <1>6 DEF Homing
  <2>2. \A a \in Table(world) : a # ""
    BY WorldIs
  <2>3. IsPair(r.label) /\ r.label[1] \in Table(world) /\ (Home(r.label, r.label) \/ Coming(r.label))
          => Home(r.label, r.label)'
    BY <1>4, <1>7, <1>8, <2>2
  <2>4. IsQuad(r.label) /\ Home(r.label, r.meant) => Home(r.label, r.meant)'
    BY <1>7, <1>8
  <2> QED
    BY <1>6, <2>1, <2>3, <2>4, HeadingStays
<1>12. /\ \A role \in DOMAIN counts' : counts'[role] \in Nat
       /\ \A n \in todo : n \in todo' \/ <<"", n>> \in Labels'
       /\ Labels \subseteq Labels'
  BY <1>2, <1>6, <1>7 DEF Homing
<1> QED
  BY <1>4, <1>10, <1>11, <1>12, FinishHomes

\* The rule of a module is defined, whatever was compiled under its label before.
LEMMA ImportedHomes ==
    ASSUME Lowering, Homing, Finish, Ctx.kind = "imported"
    PROVE  Homing'
<1>1. PICK L : L = Ctx.at
  OBVIOUS
<1>2. /\ IsPair(L) /\ L[1] \in Table(world) /\ stack' # <<>> /\ stack'[1].rule = HostRule
      /\ \A l : Coming(l) => ComingIn(stack', l) \/ l = L
  BY <1>1, Dropped
<1>3. registry' = Put(registry, L, L)
  <2>1. LabelOf(Ctx) = L
    BY <1>1 DEF LabelOf
  <2> QED
    BY <1>1, <2>1 DEF Finish
<1>4. UNCHANGED <<world, refs, counts, todo>> /\ stack # <<>>
  BY DEF Finish
<1>5. /\ Labels' = {L} \union Labels /\ registry'[L] = L /\ Home(L, L)'
      /\ \A l \in Labels : l # L => registry'[l] = registry[l]
      /\ \A l, m : Home(l, m) /\ (l = L => m = L) => Home(l, m)'
  BY <1>3, Defined
<1>6. L[1] # "" /\ ~IsQuad(L)
  <2>1. \A a \in Table(world) : a # ""
    BY WorldIs
  <2>2. Len(L) = 2
    BY <1>2 DEF IsPair
  <2>3. 2 # 4
    OBVIOUS
  <2> QED
    BY <1>2, <2>1, <2>2, <2>3, Zenon DEF IsQuad
<1>7. \A n : Settled(n)' <=> Settled(n)
  <2>1. \A n : <<"", n>> # L
    <3>1. \A n : <<"", n>>[1] = ""
      OBVIOUS
    <3> QED
      BY <1>6, <3>1, Zenon
  <2> QED
    BY <1>4, <1>5, <2>1 DEF Settled
<1>8. \A kind, role : NumberOf(kind, role)' = NumberOf(kind, role)
  BY <1>4 DEF NumberOf
<1>9. Table(world)' = Table(world)
  BY <1>4 DEF Table
<1>10. ASSUME NEW l \in Labels'  PROVE Labelled(l)'
  <2>1. CASE l = L
    BY <1>2, <1>5, <1>9, <2>1 DEF Labelled
  <2>2. CASE l # L
    <3>1. Labelled(l) /\ registry'[l] = registry[l]
      BY <1>5, <2>2 DEF Homing
    <3> QED
      BY <1>2, <1>4, <1>7, <1>8, <3>1, LabelledStays
  <2> QED
    BY <2>1, <2>2
<1>11. ASSUME NEW r \in refs'  PROVE Heading(r)'
  <2>1. Heading(r)
    BY <1>4 DEF Homing
  <2>2. Coming(r.label) => Coming(r.label)' \/ r.label = L
    BY <1>2 DEF Coming, ComingIn
  <2>3. Home(r.label, r.label) \/ Coming(r.label) => Home(r.label, r.label)' \/ Coming(r.label)'
    BY <1>5, <2>2
  <2>4. IsQuad(r.label) /\ Home(r.label, r.meant) => Home(r.label, r.meant)'
    BY <1>5, <1>6
  <2> QED
    BY <1>4, <2>1, <2>3, <2>4, HeadingStays
<1>12. /\ \A role \in DOMAIN counts' : counts'[role] \in Nat
       /\ \A n \in todo : n \in todo' \/ <<"", n>> \in Labels'
       /\ Labels \subseteq Labels'
  BY <1>4, <1>5 DEF Homing
<1> QED
  BY <1>7, <1>10, <1>11, <1>12, FinishHomes

\* A template defines nothing.
LEMMA TemplateHomes ==
    ASSUME Lowering, Homing, Finish, Ctx.kind = "template"
    PROVE  Homing'
<1>1. /\ UNCHANGED <<world, phase, registry, refs, counts, todo>>
      /\ stack # <<>> /\ phase = "lower"
  BY DEF Finish
<1>2. /\ \A i \in DOMAIN stack' : Rung(stack', i)
      /\ stack' # <<>> /\ stack'[1].rule = HostRule
      /\ \A l : Coming(l) => ComingIn(stack', l)
  BY Dropped
<1> QED
  BY <1>1, <1>2, StackMoves

\* What a using or an embed defines gets a number its rule has not given yet.
LEMMA NumberedHomes ==
    ASSUME Lowering, Homing, Finish, Ctx.kind \in {"using", "embed"}
    PROVE  Homing'
<1>1. PICK h, k, o, c : h = Ctx.rule /\ k = Ctx.kind /\ o = Ctx.role /\ c = Counted(Ctx)
  OBVIOUS
<1>2. PICK L : L = <<h, k, o, c>>
  OBVIOUS
<1>3. PICK A : A = Ctx.at
  OBVIOUS
<1>4. /\ IsQuad(L) /\ L[1] = h /\ L[2] = k /\ L[3] = o /\ L[4] = c /\ ~IsPair(L)
  BY <1>2 DEF IsQuad, IsPair
<1>5. /\ registry' = Put(registry, L, A) /\ UNCHANGED <<world, todo>> /\ stack # <<>>
      /\ counts' = Put(counts, <<k, o>>, c + 1)
  <2>1. LabelOf(Ctx) = L /\ Role(Ctx) = <<k, o>>
    BY <1>1, <1>2 DEF LabelOf, Role
  <2> QED
    BY <1>1, <1>3, <2>1 DEF Finish
<1>6. PICK e : refs' = refs \union {e} /\ e.label = L /\ e.meant = A
  <2>1. LabelOf(Ctx) = L
    BY <1>1, <1>2 DEF LabelOf
  <2>2. PICK e : e = [from |-> HostRule, label |-> L, meant |-> A, alias |-> "", of |-> "host", via |-> <<>>]
    OBVIOUS
  <2>3. e.label = L /\ e.meant = A
    BY <2>2
  <2> QED
    BY <1>3, <2>1, <2>2, <2>3 DEF Finish
<1>7. /\ stack' # <<>> /\ stack'[1].rule = HostRule /\ (h = HostRule \/ OfModule(h))
      /\ \A l : Coming(l) => ComingIn(stack', l)
  BY <1>1, Dropped
<1>8. c = NumberOf(k, o) /\ c \in Nat
  BY <1>1 DEF Homing, Counted, Role, NumberOf
<1>9. /\ \A role \in DOMAIN counts' : counts'[role] \in Nat
      /\ NumberOf(k, o)' = c + 1
      /\ \A kind, role : <<kind, role>> # <<k, o>> => NumberOf(kind, role)' = NumberOf(kind, role)
  <2>1. /\ DOMAIN counts' = {<<k, o>>} \union DOMAIN counts /\ counts'[<<k, o>>] = c + 1
        /\ \A x \in DOMAIN counts : x # <<k, o>> => counts'[x] = counts[x]
    BY <1>5 DEF Put
  <2>2. \A x \in DOMAIN counts : counts[x] \in Nat
    BY DEF Homing
  <2> QED
    BY <1>8, <2>1, <2>2 DEF NumberOf
<1>10. /\ Labels' = {L} \union Labels /\ registry'[L] = A /\ Home(L, A)'
       /\ \A l \in Labels : l # L => registry'[l] = registry[l]
       /\ \A l, m : Home(l, m) /\ (l = L => m = A) => Home(l, m)'
  BY <1>5, Defined
<1>11. \A n : Settled(n)' <=> Settled(n)
  <2>1. \A n : IsPair(<<"", n>>)
    BY DEF IsPair
  <2>2. \A n : <<"", n>> # L
    BY <1>4, <2>1, Zenon
  <2> QED
    BY <1>5, <1>10, <2>2 DEF Settled
<1>12. L \in Labels => OfModule(h)
  <2> SUFFICES ASSUME L \in Labels, ~OfModule(h)  PROVE FALSE
    OBVIOUS
  <2>1. Labelled(L) /\ h = HostRule /\ ~Settled(HostRule)
    BY <1>5, <1>7 DEF Homing
  <2>2. c < NumberOf(k, o)
    BY <1>4, <2>1 DEF Labelled
  <2> QED
    BY <1>8, <2>2
<1>13. ASSUME NEW l \in Labels'  PROVE Labelled(l)'
  <2>1. CASE l = L
    <3>1. OfModule(h)' <=> OfModule(h)
      BY <1>5, ModulesStay
    <3>2. h = HostRule => h = HostRule'
      BY <1>7 DEF HostRule
    <3>3. c < NumberOf(k, o)'
      BY <1>8, <1>9
    <3> QED
      BY <1>4, <1>7, <1>8, <2>1, <3>1, <3>2, <3>3 DEF Labelled
  <2>2. CASE l # L
    <3>1. Labelled(l) /\ registry'[l] = registry[l]
      BY <1>10, <2>2 DEF Homing
    <3>2. ASSUME IsQuad(l), l[1] = HostRule, l[4] < NumberOf(l[2], l[3]), ~OfModule(l[1])
          PROVE  l[4] < NumberOf(l[2], l[3])'
      <4>1. CASE <<l[2], l[3]>> = <<k, o>>
        <5>1. l[2] = k /\ l[3] = o
          BY <4>1
        <5>2. l[4] < c
          BY <1>8, <3>2, <5>1
        <5>3. l[4] \in Nat
          BY <3>1, <3>2 DEF Labelled, IsQuad, IsPair
        <5> QED
          BY <1>8, <1>9, <5>1, <5>2, <5>3
      <4>2. CASE <<l[2], l[3]>> # <<k, o>>
        BY <1>9, <3>2, <4>2
      <4> QED
        BY <4>1, <4>2
    <3> QED
      BY <1>5, <1>7, <1>11, <3>1, <3>2, LabelledStays
  <2> QED
    BY <2>1, <2>2
<1>14. ASSUME NEW r \in refs'  PROVE Heading(r)'
  <2>1. CASE r \in refs
    <3>1. Heading(r)
      BY <2>1 DEF Homing
    <3>2. Coming(r.label) => Coming(r.label)'
      BY <1>7 DEF Coming, ComingIn
    <3>3. IsPair(r.label) /\ Home(r.label, r.label) => Home(r.label, r.label)'
      BY <1>4, <1>10
    <3>4. ~OfModule(r.label[1]) /\ Home(r.label, r.meant) => Home(r.label, r.meant)'
      BY <1>4, <1>10, <1>12 DEF Home
    <3> QED
      BY <1>5, <3>1, <3>2, <3>3, <3>4, HeadingStays
  <2>2. CASE r \notin refs
    <3>1. r.label = L /\ r.meant = A
      BY <1>6, <2>2
    <3> QED
      BY <1>4, <1>10, <3>1 DEF Heading
  <2> QED
    BY <2>1, <2>2
<1>15. /\ \A n \in todo : n \in todo' \/ <<"", n>> \in Labels'
       /\ Labels \subseteq Labels'
  BY <1>5, <1>10
<1> QED
  BY <1>9, <1>11, <1>13, <1>14, <1>15, FinishHomes

\* The next rule begins: it has not been lowered, and nothing is numbered within it.
LEMMA BeginHomes ==
    ASSUME Lowering, Homing, Begin
    PROVE  Homing'
<1>1. PICK F : F \in NextToLower /\ stack' = <<F>>
  BY DEF Begin
<1>2. /\ UNCHANGED <<world, phase, todo, registry, refs>> /\ counts' = <<>>
      /\ stack = <<>> /\ phase = "lower"
  BY DEF Begin
<1>3. PICK n, body : F = HostFrame(n, body) /\ ~Settled(n)
  <2>1. CASE todo # {}
    BY <1>1, <2>1 DEF NextToLower, RuleFrame, Settled
  <2>2. CASE todo = {}
    BY <1>1, <2>2 DEF NextToLower, PrattFrame, Settled, Labels
  <2> QED
    BY <2>1, <2>2
<1>4. /\ F.kind = "rule" /\ F.at = <<"host", F.rule>> /\ F.rule = n /\ F.alias = ""
      /\ F.text = Items(body, "host", <<>>)
  BY <1>3 DEF HostFrame, Frame
<1>5. \A x \in ToSet(F.text) : x.of = "host"
  <2> DEFINE items == Items(body, "host", <<>>)
  <2>1. \A i \in DOMAIN items : items[i].of = "host"
    BY DEF Items
  <2>2. F.text = items
    BY <1>4
  <2> HIDE DEF items
  <2> QED
    BY <2>1, <2>2 DEF ToSet
<1>6. DOMAIN stack' = {1} /\ stack'[1] = F /\ stack' # <<>>
  BY <1>1
<1>7. \A i \in DOMAIN stack' : Rung(stack', i)
  BY <1>4, <1>5, <1>6 DEF Rung, Kinds
<1>8. \A i \in DOMAIN stack' : Rung(stack, i)'
  BY <1>2, <1>7, ModulesStay DEF Rung, OfModule, File
<1>9. /\ Labels' = Labels /\ \A l, m : Home(l, m)' <=> Home(l, m)
      /\ \A x : Settled(x)' <=> Settled(x)
  BY <1>2 DEF Labels, Home, Settled
<1>10. ASSUME NEW l \in Labels'  PROVE Labelled(l)'
  <2>1. Labelled(l)
    BY <1>9 DEF Homing
  <2> QED
    BY <1>2, <1>9, <2>1, LabelledStays
<1>11. ASSUME NEW r \in refs'  PROVE Heading(r)'
  <2>1. Heading(r)
    BY <1>2 DEF Homing
  <2>2. ~Coming(r.label)
    <3>1. DOMAIN stack = {}
      BY <1>2
    <3> QED
      BY <3>1 DEF Coming, ComingIn
  <2> QED
    BY <1>2, <1>9, <2>1, <2>2, HeadingStays
<1>12. ~Settled(HostRule)'
  <2>1. HostRule' = n /\ ~Settled(n)'
    BY <1>3, <1>4, <1>6, <1>9 DEF HostRule
  <2> QED
    BY <2>1 DEF Settled
<1>13. Host' = Host /\ \A role \in DOMAIN counts' : counts'[role] \in Nat
  BY <1>2, ModulesStay
<1> QED
  BY <1>2, <1>8, <1>9, <1>10, <1>11, <1>12, <1>13 DEF Homing

\* Before the lowering nothing is defined; after it, every rule of the host.
LEMMA HomingInit == Init => Homing
<1>1. Init => stack = <<>> /\ registry = <<>> /\ refs = {} /\ counts = <<>> /\ phase = "check"
  BY DEF Init
<1>2. DOMAIN <<>> = {}
  OBVIOUS
<1> QED
  BY <1>1, <1>2 DEF Homing, Labels

LEMMA BeforeHoming ==
    ASSUME Homing, CheckFile \/ CollectSymbols
    PROVE  Homing'
<1>1. /\ phase \in {"check", "collect"} /\ stack' = <<>> /\ registry' = <<>> /\ refs' = {} /\ counts' = counts
      /\ phase' # "done" /\ UNCHANGED world
  BY DEF Homing, CheckFile, CollectSymbols, result
<1>2. phase' = "lower" => todo' = DOMAIN Host.rules
  BY DEF CheckFile, CollectSymbols
<1>3. DOMAIN stack' = {} /\ Labels' = {}
  BY <1>1 DEF Labels
<1>4. Host' = Host /\ \A role \in DOMAIN counts : counts[role] \in Nat
  BY <1>1, ModulesStay DEF Homing
<1> QED
  BY <1>1, <1>2, <1>3, <1>4 DEF Homing

LEMMA AllLoweredHomes ==
    ASSUME Homing, AllLowered
    PROVE  Homing'
<1>1. /\ UNCHANGED <<world, todo, stack, counts, registry, refs>>
      /\ stack = <<>> /\ NextToLower = {} /\ phase' = "done" /\ phase = "lower"
  BY DEF AllLowered, result
<1>2. todo = {}
  BY <1>1 DEF NextToLower
<1>3. \A n \in DOMAIN Host.pratt : <<"", n>> \in Labels
  BY <1>1, <1>2 DEF NextToLower, Labels
<1>4. Host' = Host /\ Labels' = Labels /\ \A l, m : Home(l, m)' <=> Home(l, m)
  BY <1>1, ModulesStay DEF Labels, Home
<1>5. \A n : Settled(n)' <=> Settled(n)
  BY <1>1, <1>4 DEF Settled
<1>6. DOMAIN stack' = {}
  BY <1>1
<1>7. ASSUME NEW l \in Labels'  PROVE Labelled(l)'
  <2>1. Labelled(l)
    BY <1>4 DEF Homing
  <2> QED
    BY <1>1, <1>5, <2>1, LabelledStays
<1>8. ASSUME NEW r \in refs'  PROVE Heading(r)'
  <2>1. Heading(r)
    BY <1>1 DEF Homing
  <2>2. Coming(r.label)' <=> Coming(r.label)
    BY <1>1 DEF Coming, ComingIn
  <2> QED
    BY <1>1, <1>4, <2>1, <2>2, HeadingStays
<1> QED
  BY <1>1, <1>2, <1>3, <1>4, <1>6, <1>7, <1>8 DEF Homing

LEMMA HomingNext ==
    ASSUME Checked, Stacked, Homing, [Next]_vars
    PROVE  Homing'
<1>1. \A kinds : At(kinds) => Lowering
  BY DEF At, Lowering
<1>2. ASSUME NEW why, Panic(why)  PROVE Homing'
  BY <1>2, HomingStill DEF Panic, result
<1>3. ASSUME NEW kinds, At(kinds), NEW S, Expect(S)  PROVE Homing'
  BY <1>1, <1>3, AdvanceHomes DEF Expect
<1>4. ASSUME NEW kinds, At(kinds), NEW n, ReferTo(n)  PROVE Homing'
  BY <1>1, <1>4, ReferToHomes
<1>5. CASE CheckFile \/ CollectSymbols
  BY <1>5, BeforeHoming
<1>6. CASE Begin
  BY <1>6, BeginHomes DEF Begin, Lowering
<1>7. CASE Finish
  <2>1. Lowering
    BY <1>7 DEF Finish, Lowering
  <2>2. Ctx.kind \in {"rule", "imported", "using", "embed", "template"}
    BY <1>7, <2>1, Dropped DEF Kinds
  <2> QED
    BY <1>7, <2>1, <2>2, RuleHomes, ImportedHomes, NumberedHomes, TemplateHomes
<1>8. CASE AllLowered
  BY <1>8, AllLoweredHomes
<1>9. CASE Finished \/ UNCHANGED vars
  BY <1>9, HomingStill DEF Finished, vars, result
<1>10. CASE RuleReference \/ Reference
  BY <1>4, <1>10 DEF RuleReference, Reference
<1>11. CASE OpenReference
  BY <1>2, <1>11 DEF OpenReference
<1>12. CASE TokenMatch
  BY <1>3, <1>12 DEF TokenMatch, TokenSite
<1>13. CASE Lookahead \/ SyncToken
  BY <1>3, <1>13 DEF Lookahead, SyncToken
<1>14. CASE NestPair \/ NestUsingPair
  BY <1>3, <1>14 DEF NestPair, NestUsingPair
<1>15. CASE Operator
  BY <1>3, <1>4, <1>15 DEF Operator
<1>16. CASE UseRule
  <2>1. CASE CanUse
    BY <1>1, <1>16, <2>1, UseRuleHomes DEF UseRule
  <2>2. CASE ~CanUse
    BY <1>2, <1>16, <2>2 DEF UseRule
  <2> QED
    BY <2>1, <2>2
<1>17. CASE ExpandCall
  BY <1>1, <1>17, ExpandCallHomes DEF ExpandCall
<1>18. CASE UseTemplate
  BY <1>1, <1>18, UseTemplateHomes DEF UseTemplate
<1>19. CASE EmbedProgram
  <2>1. Lowering
    BY <1>1, <1>19 DEF EmbedProgram
  <2>2. CASE UNCHANGED phase
    BY <1>19, <2>1, <2>2, EmbedHomes
  <2>3. CASE ~UNCHANGED phase
    <3>1. Panic("no rule") \/ Panic("delimiter")
      BY <1>19, <2>3 DEF EmbedProgram
    <3> QED
      BY <1>2, <3>1
  <2> QED
    BY <2>2, <2>3
<1>20. CASE EmbedBare \/ Unfit
  BY <1>2, <1>20 DEF EmbedBare, Unfit
<1> QED
  BY <1>5, <1>6, <1>7, <1>8, <1>9, <1>10, <1>11, <1>12, <1>13, <1>14, <1>15, <1>16, <1>17, <1>18, <1>19,
     <1>20 DEF Next

LEMMA HomingInvariant == Spec => []Homing
<1>1. Homing /\ LoweringInv /\ [Next]_vars => Homing'
  BY HomingNext DEF LoweringInv
<1> QED
  BY <1>1, HomingInit, LoweringInvariant, PTL DEF Spec

(* In the finished registry every reference leads to the rule that was     *)
(* meant where it was written, but for the four kinds of Unsteady: for     *)
(* every host and every table of modules, whatever the order in which the  *)
(* rules are lowered (the registry of compiler.go and the label cache of   *)
(* its imported rules).                                                    *)
THEOREM ReferencesFindTheirRules == Spec => []ReferencesLeadHome
<1>1. LoweringInv /\ Homing => ReferencesLeadHome
  BY HomingIsEnough DEF LoweringInv
<1> QED
  BY <1>1, HomingInvariant, LoweringInvariant, PTL

----------------------------------------------------------------------------
(* Levels.  ModuleChecks and LiveRules count through the levels of what a  *)
(* name leads to; each of these recursive functions is the beginning of a  *)
(* ladder, which has no end.  A ladder of subsets of a finite set stands   *)
(* still from the rung on that has the set's size as its number.           *)

\* The numbers, as a fact about sets of them.
LEMMA CountUp ==
    ASSUME NEW T, 0 \in T, \A n \in Nat : n \in T => n + 1 \in T
    PROVE  Nat \subseteq T
<1> DEFINE Rest0 == Nat \ T
<1> SUFFICES ASSUME Rest0 # {}  PROVE FALSE
  OBVIOUS
<1>1. PICK n \in Rest0 : \A m \in Rest0 : <<m, n>> \notin OpToRel(<, Nat)
  BY NatLessThanWellFounded, WFMin
<1>2. n - 1 \in Nat /\ n - 1 < n /\ (n - 1) + 1 = n
  <2>1. n \in Nat /\ n # 0
    BY <1>1
  <2> QED
    BY <2>1
<1>3. <<n - 1, n>> \in OpToRel(<, Nat)
  BY <1>1, <1>2 DEF OpToRel
<1>4. n - 1 \in T
  BY <1>1, <1>2, <1>3
<1> QED
  BY <1>1, <1>2, <1>4

IsLadder(L, D, A, G) == L \in [Nat -> D] /\ L[0] = A /\ \A n \in Nat : L[n + 1] = G[L[n]]

Starts(R, c, D, A, G) == R \in [0 .. c -> D] /\ R[0] = A /\ \A n \in Nat : n < c => R[n + 1] = G[R[n]]

\* Made like a ladder while it stays among the subsets that are considered.
Follows(R, c, D, A, G) == R[0] = A /\ \A n \in Nat : n < c /\ R[n] \in D => R[n + 1] = G[R[n]]
Stays(R, c, D) == \A n \in Nat : n < c => R[n] \in D

LEMMA LevelsAre ==
    ASSUME NEW D, NEW A, NEW G, NEW c \in Nat,
           NEW L, Follows(L, c, D, A, G), Stays(L, c, D), NEW R, Follows(R, c, D, A, G)
    PROVE  \A n \in Nat : n <= c => R[n] = L[n]
<1> DEFINE T == {n \in Nat : n <= c => R[n] = L[n]}
<1>1. 0 \in T
  BY DEF Follows
<1>2. ASSUME NEW n \in Nat, n \in T  PROVE n + 1 \in T
  <2> SUFFICES ASSUME n + 1 <= c  PROVE R[n + 1] = L[n + 1]
    OBVIOUS
  <2>1. n < c /\ n <= c
    OBVIOUS
  <2>2. R[n] = L[n] /\ L[n] \in D /\ L[n + 1] = G[L[n]]
    BY <1>2, <2>1 DEF Follows, Stays
  <2> QED
    BY <2>1, <2>2 DEF Follows
<1> HIDE DEF T
<1>3. Nat \subseteq T
  BY <1>1, <1>2, CountUp
<1> QED
  BY <1>3 DEF T

LEMMA LadderStarts ==
    ASSUME NEW D, NEW A \in D, NEW G \in [D -> D], NEW c \in Nat
    PROVE  \E R : Starts(R, c, D, A, G)
<1> DEFINE T == {n \in Nat : \E R : Starts(R, n, D, A, G)}
<1>1. 0 \in T
  <2>1. Starts([k \in 0 .. 0 |-> A], 0, D, A, G)
    BY DEF Starts
  <2> QED
    BY <2>1
<1>2. ASSUME NEW n \in Nat, n \in T  PROVE n + 1 \in T
  <2>1. PICK R : Starts(R, n, D, A, G)
    BY <1>2
  <2> DEFINE Q == [k \in 0 .. (n + 1) |-> IF k = n + 1 THEN G[R[n]] ELSE R[k]]
  <2>2. /\ \A k \in 0 .. n : k \in 0 .. (n + 1) /\ k # n + 1 /\ R[k] \in D
        /\ n \in 0 .. n /\ n + 1 \in 0 .. (n + 1) /\ 0 \in 0 .. n
    BY <2>1 DEF Starts
  <2>3. Q[n + 1] = G[R[n]] /\ \A k \in 0 .. n : Q[k] = R[k]
    BY <2>2
  <2>4. Q \in [0 .. (n + 1) -> D]
    <3>1. \A k \in 0 .. (n + 1) : k = n + 1 \/ k \in 0 .. n
      OBVIOUS
    <3> QED
      BY <2>2, <3>1
  <2> HIDE DEF Q
  <2>5. ASSUME NEW k \in Nat, k < n + 1  PROVE Q[k + 1] = G[Q[k]]
    <3>1. CASE k = n
      BY <2>2, <2>3, <3>1
    <3>2. CASE k # n
      <4>1. k < n /\ k \in 0 .. n /\ k + 1 \in 0 .. n
        BY <2>5, <3>2
      <4> QED
        BY <2>1, <2>3, <4>1 DEF Starts
    <3> QED
      BY <3>1, <3>2
  <2>6. Starts(Q, n + 1, D, A, G)
    BY <2>1, <2>2, <2>3, <2>4, <2>5 DEF Starts
  <2> QED
    BY <2>6
<1> HIDE DEF T
<1>3. c \in T
  BY <1>1, <1>2, CountUp
<1> QED
  BY <1>3 DEF T

LEMMA LadderExists ==
    ASSUME NEW D, NEW A \in D, NEW G \in [D -> D]
    PROVE  \E L : IsLadder(L, D, A, G)
<1> DEFINE Q(n) == CHOOSE R : Starts(R, n, D, A, G)
           L == [n \in Nat |-> Q(n)[n]]
<1>1. ASSUME NEW n \in Nat  PROVE Starts(Q(n), n, D, A, G)
  BY LadderStarts
<1> HIDE DEF Q
<1>2. \A n \in Nat : L[n] = Q(n)[n]
  OBVIOUS
<1>3. L \in [Nat -> D]
  <2>1. ASSUME NEW n \in Nat  PROVE Q(n)[n] \in D
    <3>1. n \in 0 .. n
      OBVIOUS
    <3> QED
      BY <1>1, <3>1 DEF Starts
  <2> QED
    BY <2>1
<1>4. L[0] = A
  BY <1>1, <1>2 DEF Starts
<1> HIDE DEF L
<1>5. ASSUME NEW n \in Nat  PROVE L[n + 1] = G[L[n]]
  <2>1. Starts(Q(n), n, D, A, G) /\ Starts(Q(n + 1), n + 1, D, A, G) /\ n + 1 \in Nat
    BY <1>1
  <2>2. Q(n + 1)[n + 1] = G[Q(n + 1)[n]]
    BY <2>1 DEF Starts
  <2>3. Q(n + 1)[n] = Q(n)[n]
    <3> DEFINE S == Q(n)
               R == Q(n + 1)
    <3>1. Follows(S, n, D, A, G) /\ Stays(S, n, D)
      <4>1. \A k \in Nat : k < n => k \in 0 .. n
        OBVIOUS
      <4> QED
        BY <2>1, <4>1 DEF Starts, Follows, Stays
    <3>2. Follows(R, n, D, A, G)
      <4>1. \A k \in Nat : k < n => k < n + 1
        OBVIOUS
      <4> QED
        BY <2>1, <4>1 DEF Starts, Follows
    <3> HIDE DEF S, R
    <3>3. \A k \in Nat : k <= n => R[k] = S[k]
      BY <3>1, <3>2, LevelsAre
    <3> QED
      BY <3>3 DEF S, R
  <2> QED
    BY <1>2, <2>1, <2>2, <2>3
<1> QED
  BY <1>3, <1>4, <1>5 DEF IsLadder

\* The levels of a recursive function are the rungs of the ladder.
LEMMA LevelsAreRungs ==
    ASSUME NEW D, NEW A, NEW G, NEW L, IsLadder(L, D, A, G), NEW c \in Nat,
           NEW R, Follows(R, c, D, A, G)
    PROVE  R[c] = L[c]
<1>1. Follows(L, c, D, A, G) /\ Stays(L, c, D)
  BY DEF IsLadder, Follows, Stays
<1> QED
  BY <1>1, LevelsAre

\* The first rungs of a ladder, as the recursive functions say it.
Cut(L, c) == [k \in 0 .. c |-> L[k]]

LEMMA LadderCut ==
    ASSUME NEW D, NEW A, NEW G, NEW L, IsLadder(L, D, A, G), NEW c \in Nat
    PROVE  /\ Cut(L, c) = [k \in 0 .. c |-> Cut(L, c)[k]]
           /\ \A k \in 0 .. c : IF k = 0 THEN Cut(L, c)[k] = A
                               ELSE Cut(L, c)[k - 1] \in D /\ Cut(L, c)[k] = G[Cut(L, c)[k - 1]]
<1> DEFINE R == Cut(L, c)
<1>1. ASSUME NEW k \in 0 .. c, k # 0  PROVE R[k - 1] \in D /\ R[k] = G[R[k - 1]]
  <2>1. k - 1 \in Nat /\ k - 1 \in 0 .. c /\ (k - 1) + 1 = k
    BY <1>1
  <2>2. R[k - 1] = L[k - 1] /\ R[k] = L[k]
    BY <2>1 DEF Cut
  <2>3. L[k - 1] \in D /\ L[(k - 1) + 1] = G[L[k - 1]]
    BY <2>1 DEF IsLadder
  <2> QED
    BY <2>1, <2>2, <2>3
<1>2. R[0] = A /\ R = [k \in 0 .. c |-> R[k]]
  BY DEF IsLadder, Cut
<1> QED
  BY <1>1, <1>2

\* A growing ladder over a finite set stands still when it has come so far.
LEMMA LadderStandsStill ==
    ASSUME NEW U, IsFiniteSet(U), NEW A \in SUBSET U, NEW G \in [SUBSET U -> SUBSET U],
           \A S \in SUBSET U : S \subseteq G[S], NEW L, IsLadder(L, SUBSET U, A, G)
    PROVE  G[L[Cardinality(U)]] = L[Cardinality(U)] /\ A \subseteq L[Cardinality(U)]
<1> DEFINE c == Cardinality(U)
<1>1. c \in Nat
  BY FS_CardinalityType
<1>2. /\ L[0] = A
      /\ \A n \in Nat : /\ L[n] \in SUBSET U /\ L[n + 1] = G[L[n]] /\ L[n] \subseteq L[n + 1]
                        /\ IsFiniteSet(L[n]) /\ Cardinality(L[n]) \in Nat /\ Cardinality(L[n]) <= c
  <2>1. L[0] = A /\ \A n \in Nat : L[n] \in SUBSET U /\ L[n + 1] = G[L[n]] /\ L[n] \subseteq L[n + 1]
    BY DEF IsLadder
  <2>2. \A n \in Nat : IsFiniteSet(L[n]) /\ Cardinality(L[n]) <= c
    BY <2>1, FS_Subset
  <2> QED
    BY <2>1, <2>2, FS_CardinalityType
<1> HIDE DEF c
<1>3. A \subseteq L[c]
  <2> DEFINE T == {n \in Nat : A \subseteq L[n]}
  <2>1. 0 \in T /\ \A n \in Nat : n \in T => n + 1 \in T
    BY <1>2
  <2> HIDE DEF T
  <2>2. c \in T
    BY <1>1, <2>1, CountUp
  <2> QED
    BY <2>2 DEF T
<1>4. G[L[c]] = L[c]
  <2> SUFFICES ASSUME G[L[c]] # L[c]  PROVE FALSE
    OBVIOUS
  <2>1. \A n \in Nat : n <= c => L[n + 1] # L[n]
    <3> DEFINE T == {d \in Nat : d <= c => L[(c - d) + 1] # L[c - d]}
    <3>1. 0 \in T
      BY <1>1, <1>2
    <3>2. ASSUME NEW d \in Nat, d \in T  PROVE d + 1 \in T
      <4> SUFFICES ASSUME d + 1 <= c, L[(c - (d + 1)) + 1] = L[c - (d + 1)]  PROVE FALSE
        OBVIOUS
      <4> DEFINE n == c - (d + 1)
      <4>1. n \in Nat /\ n + 1 = c - d /\ d <= c
        BY <1>1
      <4> HIDE DEF n
      <4>2. L[n + 1] = L[n]
        BY DEF n
      <4>3. L[n + 1] = G[L[n]] /\ L[(n + 1) + 1] = G[L[n + 1]]
        BY <1>2, <4>1
      <4>4. L[(n + 1) + 1] = L[n + 1]
        BY <4>2, <4>3
      <4> QED
        BY <3>2, <4>1, <4>4
    <3> HIDE DEF T
    <3>3. Nat \subseteq T
      BY <3>1, <3>2, CountUp
    <3>4. ASSUME NEW n \in Nat, n <= c  PROVE L[n + 1] # L[n]
      <4>1. c - n \in Nat /\ c - n <= c /\ c - (c - n) = n
        BY <1>1, <3>4
      <4> QED
        BY <3>3, <4>1 DEF T
    <3> QED
      BY <3>4
  <2> DEFINE T == {n \in Nat : n <= c + 1 => Cardinality(L[n]) >= n}
  <2>2. 0 \in T
    BY <1>2
  <2>3. ASSUME NEW n \in Nat, n \in T  PROVE n + 1 \in T
    <3> SUFFICES ASSUME n + 1 <= c + 1  PROVE Cardinality(L[n + 1]) >= n + 1
      OBVIOUS
    <3>1. n <= c /\ n <= c + 1
      BY <1>1
    <3>2. /\ Cardinality(L[n]) >= n /\ L[n] \in SUBSET L[n + 1] /\ L[n] # L[n + 1] /\ IsFiniteSet(L[n + 1])
          /\ Cardinality(L[n]) \in Nat /\ Cardinality(L[n + 1]) \in Nat
      BY <1>2, <2>1, <2>3, <3>1
    <3>3. Cardinality(L[n]) <= Cardinality(L[n + 1]) /\ Cardinality(L[n]) # Cardinality(L[n + 1])
      BY <3>2, FS_Subset
    <3> QED
      BY <3>2, <3>3
  <2> HIDE DEF T
  <2>4. c + 1 \in T
    BY <1>1, <2>2, <2>3, CountUp
  <2>5. Cardinality(L[c + 1]) >= c + 1 /\ Cardinality(L[c + 1]) <= c /\ Cardinality(L[c + 1]) \in Nat
    BY <1>1, <1>2, <2>4 DEF T
  <2> QED
    BY <1>1, <2>5
<1> QED
  BY <1>3, <1>4 DEF c

----------------------------------------------------------------------------
(* The bodies a body uses, up to so many usings away. *)

IsWithin(w, body, d, R) ==
    R = [k \in 0 .. d |-> IF k = 0 THEN {body} ELSE R[k - 1] \union UsedBy(w, R[k - 1])]

WithinLadder(w, body, L) ==
    /\ L[0] = {body} /\ \A n \in Nat : L[n + 1] = L[n] \union UsedBy(w, L[n])
    /\ \A d \in Nat : UsedWithin(w, body, d) = L[d]

LEMMA UsedWithinIs ==
    ASSUME NEW w, NEW body
    PROVE  \E L : WithinLadder(w, body, L)
<1> DEFINE U == {body} \union UNION {RuleBodies(w.files[f]) : f \in DOMAIN w.files}
           Grow(S) == S \union UsedBy(w, S)
           G == [S \in SUBSET U |-> Grow(S)]
<1>1. {body} \in SUBSET U
  OBVIOUS
<1>2. ASSUME NEW S \in SUBSET U  PROVE Grow(S) \in SUBSET U
  <2>1. ASSUME NEW f \in Table(w), NEW n \in ExportedRules(w.files[f])  PROVE w.files[f].rules[n] \in U
    BY <2>1 DEF Table, ExportedRules, RuleBodies
  <2> HIDE DEF U
  <2>2. UsedBy(w, S) \subseteq U
    BY <2>1 DEF UsedBy
  <2> QED
    BY <2>2
<1> HIDE DEF Grow, U
<1>3. G \in [SUBSET U -> SUBSET U] /\ \A S \in SUBSET U : G[S] = Grow(S)
  BY <1>2
<1> HIDE DEF G
<1>4. PICK L : IsLadder(L, SUBSET U, {body}, G)
  BY <1>1, <1>3, LadderExists
<1>5. L[0] = {body} /\ \A n \in Nat : L[n] \in SUBSET U /\ L[n + 1] = G[L[n]] /\ L[n + 1] = Grow(L[n])
  BY <1>3, <1>4 DEF IsLadder
<1>6. ASSUME NEW d \in Nat  PROVE UsedWithin(w, body, d) = L[d]
  <2> DEFINE R0 == Cut(L, d)
             R == CHOOSE Q : IsWithin(w, body, d, Q)
  <2>1. IsWithin(w, body, d, R0)
    <3>1. /\ R0 = [k \in 0 .. d |-> R0[k]]
          /\ \A k \in 0 .. d : IF k = 0 THEN R0[k] = {body}
                              ELSE R0[k - 1] \in SUBSET U /\ R0[k] = G[R0[k - 1]]
      BY <1>4, LadderCut
    <3> HIDE DEF R0
    <3>2. \A k \in 0 .. d : R0[k] = IF k = 0 THEN {body} ELSE R0[k - 1] \union UsedBy(w, R0[k - 1])
      BY <1>3, <3>1 DEF Grow
    <3> QED
      BY <3>1, <3>2 DEF IsWithin
  <2>2. IsWithin(w, body, d, R)
    BY <2>1
  <2>3. UsedWithin(w, body, d) = R[d]
    BY DEF UsedWithin, IsWithin
  <2> HIDE DEF R
  <2>4. \A k \in 0 .. d : R[k] = IF k = 0 THEN {body} ELSE R[k - 1] \union UsedBy(w, R[k - 1])
    BY <2>2 DEF IsWithin
  <2>5. R[0] = {body}
    <3>1. 0 \in 0 .. d
      OBVIOUS
    <3> QED
      BY <2>4, <3>1
  <2>6. ASSUME NEW n \in Nat, n < d, R[n] \in SUBSET U  PROVE R[n + 1] = G[R[n]]
    <3>1. n + 1 \in 0 .. d /\ n + 1 # 0 /\ (n + 1) - 1 = n
      BY <2>6
    <3>2. R[n + 1] = Grow(R[n])
      BY <2>4, <3>1 DEF Grow
    <3> QED
      BY <1>3, <2>6, <3>2
  <2>7. R[d] = L[d]
    <3>1. Follows(R, d, SUBSET U, {body}, G)
      BY <2>5, <2>6 DEF Follows
    <3> QED
      BY <1>4, <3>1, LevelsAreRungs
  <2> QED
    BY <2>3, <2>7
<1>7. WithinLadder(w, body, L)
  BY <1>5, <1>6 DEF Grow, WithinLadder
<1> QED
  BY <1>7

\* One using more, and any number more.
LEMMA UsedWithinGrows ==
    ASSUME NEW w, NEW body, NEW d \in Nat
    PROVE  /\ UsedWithin(w, body, 0) = {body}
           /\ UsedBy(w, UsedWithin(w, body, d)) \subseteq UsedWithin(w, body, d + 1)
           /\ \A c \in Nat : d <= c => UsedWithin(w, body, d) \subseteq UsedWithin(w, body, c)
<1>0. PICK L : WithinLadder(w, body, L)
  BY UsedWithinIs
<1>1. /\ L[0] = {body} /\ \A n \in Nat : L[n + 1] = L[n] \union UsedBy(w, L[n])
      /\ \A n \in Nat : UsedWithin(w, body, n) = L[n]
  BY <1>0 DEF WithinLadder
<1>2. ASSUME NEW c \in Nat, d <= c  PROVE L[d] \subseteq L[c]
  <2> DEFINE T == {n \in Nat : L[d] \subseteq L[d + n]}
  <2>1. 0 \in T
    OBVIOUS
  <2>2. ASSUME NEW n \in Nat, n \in T  PROVE n + 1 \in T
    <3>1. d + n \in Nat /\ (d + n) + 1 = d + (n + 1)
      OBVIOUS
    <3>2. L[d + n] \subseteq L[(d + n) + 1]
      BY <1>1, <3>1
    <3> QED
      BY <2>2, <3>1, <3>2
  <2> HIDE DEF T
  <2>3. Nat \subseteq T
    BY <2>1, <2>2, CountUp
  <2>4. c - d \in Nat /\ d + (c - d) = c
    BY <1>2
  <2> QED
    BY <2>3, <2>4 DEF T
<1>3. UsedBy(w, L[d]) \subseteq L[d + 1]
  BY <1>1
<1> QED
  BY <1>1, <1>2, <1>3

----------------------------------------------------------------------------
(* The templates that are expanded within a template. *)

IsExpanded(p, n, c, R) ==
    R = [k \in 0 .. c |-> IF k = 0 THEN CalledBy(p, n)
                          ELSE R[k - 1] \union UNION {CalledBy(p, m) : m \in R[k - 1]}]

LEMMA ExpandedByIs ==
    ASSUME NEW p, IsFiniteSet(DOMAIN p.templates), NEW n
    PROVE  /\ CalledBy(p, n) \subseteq ExpandedBy(p, n)
           /\ \A m \in ExpandedBy(p, n) : CalledBy(p, m) \subseteq ExpandedBy(p, n)
           /\ ExpandedBy(p, n) \subseteq DOMAIN p.templates
<1> DEFINE U == DOMAIN p.templates
           Grow(S) == S \union UNION {CalledBy(p, m) : m \in S}
           G == [S \in SUBSET U |-> Grow(S)]
           A == CalledBy(p, n)
           c == Cardinality(U)
<1>1. /\ A \in SUBSET U /\ c \in Nat /\ \A S \in SUBSET U : Grow(S) \in SUBSET U
      /\ \A S \in SUBSET U : S \subseteq Grow(S)
  BY FS_CardinalityType DEF CalledBy
<1>2. ExpandedBy(p, n) = (CHOOSE Q : IsExpanded(p, n, c, Q))[c]
  BY DEF ExpandedBy, IsExpanded
<1>3. \A R, k : Grow(R[k - 1]) = R[k - 1] \union UNION {CalledBy(p, m) : m \in R[k - 1]}
  OBVIOUS
<1>4. \A S : \A m \in S : CalledBy(p, m) \subseteq Grow(S)
  OBVIOUS
<1> HIDE DEF Grow, U, A, c
<1>5. G \in [SUBSET U -> SUBSET U] /\ \A S \in SUBSET U : G[S] = Grow(S) /\ S \subseteq G[S]
  BY <1>1
<1> HIDE DEF G
<1>6. PICK L : IsLadder(L, SUBSET U, A, G)
  BY <1>1, <1>5, LadderExists
<1> DEFINE R0 == Cut(L, c)
           R == CHOOSE Q : IsExpanded(p, n, c, Q)
<1>7. IsExpanded(p, n, c, R0)
  <2>1. /\ R0 = [k \in 0 .. c |-> R0[k]]
        /\ \A k \in 0 .. c : IF k = 0 THEN R0[k] = A
                            ELSE R0[k - 1] \in SUBSET U /\ R0[k] = G[R0[k - 1]]
    BY <1>1, <1>6, LadderCut
  <2> HIDE DEF R0
  <2>2. \A k \in 0 .. c : R0[k] = IF k = 0 THEN A ELSE Grow(R0[k - 1])
    BY <1>5, <2>1
  <2> QED
    BY <1>3, <2>1, <2>2 DEF IsExpanded, A
<1>8. IsExpanded(p, n, c, R)
  BY <1>7
<1> HIDE DEF R
<1>9. \A k \in 0 .. c : R[k] = IF k = 0 THEN A ELSE Grow(R[k - 1])
  BY <1>3, <1>8 DEF IsExpanded, A
<1>10. R[0] = A
  BY <1>1, <1>9
<1>11. ASSUME NEW k \in Nat, k < c, R[k] \in SUBSET U  PROVE R[k + 1] = G[R[k]]
  <2>1. k + 1 \in 0 .. c /\ k + 1 # 0 /\ (k + 1) - 1 = k
    BY <1>1, <1>11
  <2> QED
    BY <1>5, <1>9, <1>11, <2>1
<1>12. L[0] = A /\ \A k \in Nat : L[k] \in SUBSET U /\ L[k + 1] = G[L[k]]
  BY <1>6 DEF IsLadder
<1>13. R[c] = L[c]
  <2>1. Follows(R, c, SUBSET U, A, G)
    BY <1>10, <1>11 DEF Follows
  <2> QED
    BY <1>1, <1>6, <2>1, LevelsAreRungs
<1>14. G[L[c]] = L[c] /\ A \subseteq L[c]
  BY <1>1, <1>5, <1>6, LadderStandsStill DEF U, c
<1>15. ExpandedBy(p, n) = L[c] /\ L[c] \in SUBSET U /\ Grow(L[c]) = L[c]
  BY <1>1, <1>2, <1>5, <1>12, <1>13, <1>14 DEF R
<1> QED
  BY <1>4, <1>14, <1>15 DEF A, U

----------------------------------------------------------------------------
(* The rules PROGRAM reaches by what the bodies refer to, and those the    *)
(* references lead to.                                                     *)

NamesOf(p) == DOMAIN p.rules \union DOMAIN p.pratt

IsReached(w, p, c, R) ==
    R = [k \in 0 .. c |->
            IF k = 0 THEN {Program} \intersect DOMAIN p.rules
            ELSE R[k - 1] \union UNION {UsedNames(w, p, BodyOf(p, n)) : n \in R[k - 1]}]

LEMMA UsedNamesAre ==
    ASSUME NEW w, NEW p, NEW body
    PROVE  UsedNames(w, p, body) \subseteq NamesOf(p)
<1>1. \A b : NamesIn(w, p, b) \subseteq NamesOf(p)
  BY DEF NamesIn, NamesOf
<1> QED
  BY <1>1 DEF UsedNames

LEMMA ReachedRulesAre ==
    ASSUME NEW w, NEW p, IsFiniteSet(NamesOf(p))
    PROVE  /\ {Program} \intersect DOMAIN p.rules \subseteq ReachedRules(w, p)
           /\ \A n \in ReachedRules(w, p) : UsedNames(w, p, BodyOf(p, n)) \subseteq ReachedRules(w, p)
<1> DEFINE U == NamesOf(p)
           Grow(S) == S \union UNION {UsedNames(w, p, BodyOf(p, n)) : n \in S}
           G == [S \in SUBSET U |-> Grow(S)]
           A == {Program} \intersect DOMAIN p.rules
           c == Cardinality(U)
<1>1. /\ A \in SUBSET U /\ c \in Nat
      /\ \A S \in SUBSET U : Grow(S) \in SUBSET U /\ S \subseteq Grow(S)
  <2>1. A \in SUBSET U
    BY DEF NamesOf
  <2>2. c \in Nat
    BY FS_CardinalityType
  <2> HIDE DEF U
  <2>3. ASSUME NEW S \in SUBSET U  PROVE Grow(S) \in SUBSET U
    BY UsedNamesAre DEF U
  <2>4. \A S \in SUBSET U : S \subseteq Grow(S)
    OBVIOUS
  <2> QED
    BY <2>1, <2>2, <2>3, <2>4
<1>2. ReachedRules(w, p) = (CHOOSE Q : IsReached(w, p, c, Q))[c]
  BY DEF ReachedRules, IsReached, NamesOf
<1>3. \A R, k : Grow(R[k - 1]) = R[k - 1] \union UNION {UsedNames(w, p, BodyOf(p, n)) : n \in R[k - 1]}
  OBVIOUS
<1>4. \A S : \A n \in S : UsedNames(w, p, BodyOf(p, n)) \subseteq Grow(S)
  OBVIOUS
<1> HIDE DEF Grow, U, A, c
<1>5. G \in [SUBSET U -> SUBSET U] /\ \A S \in SUBSET U : G[S] = Grow(S) /\ S \subseteq G[S]
  BY <1>1
<1> HIDE DEF G
<1>6. PICK L : IsLadder(L, SUBSET U, A, G)
  BY <1>1, <1>5, LadderExists
<1> DEFINE R0 == Cut(L, c)
           R == CHOOSE Q : IsReached(w, p, c, Q)
<1>7. IsReached(w, p, c, R0)
  <2>1. /\ R0 = [k \in 0 .. c |-> R0[k]]
        /\ \A k \in 0 .. c : IF k = 0 THEN R0[k] = A
                            ELSE R0[k - 1] \in SUBSET U /\ R0[k] = G[R0[k - 1]]
    BY <1>1, <1>6, LadderCut
  <2> HIDE DEF R0
  <2>2. \A k \in 0 .. c : R0[k] = IF k = 0 THEN A ELSE Grow(R0[k - 1])
    BY <1>5, <2>1
  <2> QED
    BY <1>3, <2>1, <2>2 DEF IsReached, A
<1>8. IsReached(w, p, c, R)
  BY <1>7
<1> HIDE DEF R
<1>9. \A k \in 0 .. c : R[k] = IF k = 0 THEN A ELSE Grow(R[k - 1])
  BY <1>3, <1>8 DEF IsReached, A
<1>10. R[0] = A
  BY <1>1, <1>9
<1>11. ASSUME NEW k \in Nat, k < c, R[k] \in SUBSET U  PROVE R[k + 1] = G[R[k]]
  <2>1. k + 1 \in 0 .. c /\ k + 1 # 0 /\ (k + 1) - 1 = k
    BY <1>1, <1>11
  <2> QED
    BY <1>5, <1>9, <1>11, <2>1
<1>12. R[c] = L[c]
  <2>1. Follows(R, c, SUBSET U, A, G)
    BY <1>10, <1>11 DEF Follows
  <2> QED
    BY <1>1, <1>6, <2>1, LevelsAreRungs
<1>13. G[L[c]] = L[c] /\ A \subseteq L[c]
  BY <1>1, <1>5, <1>6, LadderStandsStill DEF U, c
<1>14. L[c] \in SUBSET U
  BY <1>1, <1>6 DEF IsLadder
<1>15. ReachedRules(w, p) = L[c] /\ Grow(L[c]) = L[c]
  BY <1>2, <1>5, <1>12, <1>13, <1>14 DEF R
<1> QED
  BY <1>4, <1>13, <1>15 DEF A

SeenFrom(S) == {r.label[2] : r \in {x \in refs : Seen(x) /\ x.from \in S}}

IsLive(c, R) == R = [k \in 0 .. c |-> IF k = 0 THEN {Program} ELSE R[k - 1] \union SeenFrom(R[k - 1])]

\* What is closed under the references that are seen has all the live rules.
LEMMA LiveRulesWithin ==
    ASSUME NEW S, Program \in S, IsFiniteSet(Names("host")),
           \A r \in refs : Seen(r) /\ r.from \in S => r.label[2] \in S
    PROVE  LiveRules \subseteq S
<1> DEFINE U == {Program} \union {r.label[2] : r \in refs}
           Grow(V) == V \union SeenFrom(V)
           G == [V \in SUBSET U |-> Grow(V)]
           A == {Program}
           c == Cardinality(Names("host"))
<1>1. A \in SUBSET U /\ c \in Nat /\ \A V \in SUBSET U : Grow(V) \in SUBSET U
  BY FS_CardinalityType DEF SeenFrom
<1>2. LiveRules = (CHOOSE Q : IsLive(c, Q))[c]
  BY DEF LiveRules, IsLive, SeenFrom
<1>3. \A R, k : Grow(R[k - 1]) = R[k - 1] \union SeenFrom(R[k - 1])
  OBVIOUS
<1>4. \A V : V \subseteq S => Grow(V) \subseteq S
  BY DEF SeenFrom
<1> HIDE DEF Grow, U, c
<1>5. G \in [SUBSET U -> SUBSET U] /\ \A V \in SUBSET U : G[V] = Grow(V)
  BY <1>1
<1> HIDE DEF G
<1> HIDE DEF A
<1>6. PICK L : IsLadder(L, SUBSET U, A, G)
  BY <1>1, <1>5, LadderExists
<1> DEFINE R0 == Cut(L, c)
           R == CHOOSE Q : IsLive(c, Q)
<1>7. IsLive(c, R0)
  <2>1. /\ R0 = [k \in 0 .. c |-> R0[k]]
        /\ \A k \in 0 .. c : IF k = 0 THEN R0[k] = A
                            ELSE R0[k - 1] \in SUBSET U /\ R0[k] = G[R0[k - 1]]
    BY <1>1, <1>6, LadderCut
  <2> HIDE DEF R0
  <2>2. \A k \in 0 .. c : R0[k] = IF k = 0 THEN A ELSE Grow(R0[k - 1])
    BY <1>5, <2>1
  <2> QED
    BY <1>3, <2>1, <2>2 DEF IsLive, A
<1>8. IsLive(c, R)
  BY <1>7
<1> HIDE DEF R
<1>9. \A k \in 0 .. c : R[k] = IF k = 0 THEN A ELSE Grow(R[k - 1])
  BY <1>3, <1>8 DEF IsLive, A
<1> DEFINE T == {n \in Nat : n <= c => R[n] \subseteq S}
<1>10. 0 \in T
  BY <1>1, <1>9 DEF A
<1>11. ASSUME NEW n \in Nat, n \in T  PROVE n + 1 \in T
  <2> SUFFICES ASSUME n + 1 <= c  PROVE R[n + 1] \subseteq S
    OBVIOUS
  <2>1. n + 1 \in 0 .. c /\ n + 1 # 0 /\ (n + 1) - 1 = n /\ n <= c
    BY <1>1
  <2>2. R[n + 1] = Grow(R[n])
    BY <1>9, <2>1
  <2> QED
    BY <1>4, <1>11, <2>1, <2>2
<1> HIDE DEF T
<1>12. c \in T
  BY <1>1, <1>10, <1>11, CountUp
<1> QED
  BY <1>1, <1>2, <1>12 DEF T, R

----------------------------------------------------------------------------
(* Import paths: all of them are walked, so that when the walk has ended   *)
(* no path meets a module twice.                                           *)

Reaching == \E d \in Nat \ {0} : \A q : IsPath(q) /\ Len(q) = d => q \in prefixes
Bounded == \E d \in Nat \ {0} : \A q : IsPath(q) => Len(q) # d

\* A path that meets a module twice leads to paths of every length.
LEMMA LoopsGoOn ==
    ASSUME world \in Worlds, NEW q, IsPath(q), Len(q) > Cardinality(Table(world)), NEW d \in Nat \ {0}
    PROVE  \E p : IsPath(p) /\ Len(p) = d
<1>1. q \in Seq(Table(world)) /\ Len(q) \in Nat /\ DOMAIN q = 1 .. Len(q)
  BY DEF IsPath
<1>2. PICK i, j \in DOMAIN q : i < j /\ q[i] = q[j]
  BY LongPathComesBack
<1> DEFINE C == {q[k] : k \in i .. (j - 1)}
           T == {n \in Nat : \E p : IsPath(p) /\ Len(p) = n + 1 /\ Last(p) \in C}
<1>3. ASSUME NEW a \in C  PROVE \E b \in C : b \in File(a).imports
  <2>1. PICK k \in i .. (j - 1) : a = q[k]
    BY <1>3
  <2>2. k \in 1 .. (Len(q) - 1) /\ i \in i .. (j - 1)
    BY <1>1, <1>2, <2>1
  <2>3. q[k + 1] \in File(a).imports
    BY <2>1, <2>2 DEF IsPath
  <2>4. CASE k + 1 = j
    BY <1>2, <2>2, <2>3, <2>4
  <2>5. CASE k + 1 # j
    <3>1. k + 1 \in i .. (j - 1)
      BY <1>1, <1>2, <2>1, <2>5
    <3> QED
      BY <2>3, <3>1
  <2> QED
    BY <2>4, <2>5
<1>4. 0 \in T
  <2>1. q[i] \in C /\ q[i] \in Table(world)
    <3>1. i \in i .. (j - 1)
      BY <1>1, <1>2
    <3> QED
      BY <1>1, <3>1
  <2>2. IsPath(<<q[i]>>) /\ Len(<<q[i]>>) = 0 + 1 /\ Last(<<q[i]>>) = q[i]
    <3>1. ASSUME NEW a \in Table(world)  PROVE IsPath(<<a>>) /\ Len(<<a>>) = 0 + 1 /\ Last(<<a>>) = a
      BY <3>1 DEF IsPath, Last
    <3> QED
      BY <2>1, <3>1
  <2> QED
    BY <2>1, <2>2
<1> HIDE DEF C
<1>5. ASSUME NEW n \in Nat, n \in T  PROVE n + 1 \in T
  <2>1. PICK p : IsPath(p) /\ Len(p) = n + 1 /\ Last(p) \in C
    BY <1>5
  <2>2. PICK b \in C : b \in File(Last(p)).imports
    BY <1>3, <2>1
  <2>3. IsPath(Append(p, b)) /\ Len(Append(p, b)) = Len(p) + 1 /\ Last(Append(p, b)) = b
    BY <2>1, <2>2, PathGoesOn
  <2>4. Len(Append(p, b)) = (n + 1) + 1 /\ Last(Append(p, b)) \in C
    BY <2>1, <2>2, <2>3
  <2> HIDE DEF T
  <2>5. \E s : IsPath(s) /\ Len(s) = (n + 1) + 1 /\ Last(s) \in C
    BY <2>3, <2>4
  <2> QED
    BY <2>5 DEF T
<1>6. d - 1 \in Nat /\ (d - 1) + 1 = d
  OBVIOUS
<1> HIDE DEF T
<1>7. d - 1 \in T
  BY <1>4, <1>5, <1>6, CountUp
<1> QED
  BY <1>6, <1>7 DEF T

LEMMA PathsAreShort ==
    ASSUME world \in Worlds, Bounded, NEW q, IsPath(q)
    PROVE  Len(q) <= Cardinality(Table(world)) /\ Cardinality(Table(world)) \in Nat
<1>1. PICK d \in Nat \ {0} : \A p : IsPath(p) => Len(p) # d
  BY DEF Bounded
<1>2. ~(Len(q) > Cardinality(Table(world)))
  BY <1>1, LoopsGoOn
<1>3. Cardinality(Table(world)) \in Nat
  BY PrefixAssumption, FS_CardinalityType
<1>4. Len(q) \in Nat
  BY DEF IsPath
<1> QED
  BY <1>2, <1>3, <1>4

\* What is before the last module of a path is a path.
LEMMA PathBefore ==
    ASSUME NEW q, IsPath(q), Len(q) > 1
    PROVE  /\ IsPath(Front(q)) /\ Len(Front(q)) = Len(q) - 1
           /\ \E a \in File(Last(Front(q))).imports : q = Append(Front(q), a)
<1> DEFINE n == Len(q)
           p == Front(q)
<1>1. q \in Seq(Table(world)) /\ n \in Nat /\ n > 1 /\ n - 1 \in Nat
  BY DEF IsPath
<1>2. /\ p \in Seq(Table(world)) /\ Len(p) = n - 1
      /\ \A i \in 1 .. (n - 1) : p[i] = q[i]
  BY <1>1 DEF Front
<1>3. \A i \in 1 .. (n - 1) : q[i + 1] \in File(q[i]).imports
  BY DEF IsPath
<1> HIDE DEF p, n
<1>4. IsPath(p)
  <2>1. ASSUME NEW i \in 1 .. (Len(p) - 1)  PROVE p[i + 1] \in File(p[i]).imports
    <3>1. i \in 1 .. (n - 1) /\ i + 1 \in 1 .. (n - 1)
      BY <1>1, <1>2
    <3> QED
      BY <1>2, <1>3, <3>1
  <2> QED
    BY <1>1, <1>2, <2>1 DEF IsPath
<1>5. Last(p) = q[n - 1]
  <2>1. n - 1 \in 1 .. (n - 1)
    BY <1>1
  <2> QED
    BY <1>2, <2>1 DEF Last
<1>6. q[n] \in File(Last(p)).imports
  <2>1. n - 1 \in 1 .. (n - 1) /\ (n - 1) + 1 = n
    BY <1>1
  <2> QED
    BY <1>3, <1>5, <2>1
<1>7. q = Append(p, q[n])
  <2>1. q[n] \in Table(world) /\ Len(q) = n
    BY <1>1 DEF n
  <2>2. Append(p, q[n]) \in Seq(Table(world)) /\ Len(Append(p, q[n])) = n
    BY <1>1, <1>2, <2>1
  <2>3. \A i \in 1 .. n : Append(p, q[n])[i] = q[i]
    BY <1>1, <1>2, <2>1
  <2> QED
    BY <1>1, <2>1, <2>2, <2>3
<1> QED
  BY <1>2, <1>4, <1>6, <1>7 DEF n, p

LEMMA CollectReaches ==
    ASSUME Reaching, CollectSymbols
    PROVE  (phase' = "collect" => Reaching') /\ (phase' = "lower" => Bounded')
<1>1. /\ prefixes' = Deeper /\ world' = world /\ (phase' = "lower" => Deeper = {})
  BY DEF CollectSymbols
<1>2. \A q : IsPath(q)' <=> IsPath(q)
  BY <1>1 DEF IsPath, File
<1>3. PICK d \in Nat \ {0} : \A q : IsPath(q) /\ Len(q) = d => q \in prefixes
  BY DEF Reaching
<1>4. ASSUME NEW q, IsPath(q), Len(q) = d + 1  PROVE q \in Deeper
  <2>1. Len(q) > 1
    BY <1>4
  <2>2. IsPath(Front(q)) /\ Len(Front(q)) = d /\ \E a \in File(Last(Front(q))).imports : q = Append(Front(q), a)
    BY <1>4, <2>1, PathBefore
  <2>3. Front(q) \in prefixes
    BY <1>3, <2>2
  <2> QED
    BY <2>2, <2>3 DEF Deeper
<1>5. d + 1 \in Nat \ {0}
  OBVIOUS
<1>6. Reaching'
  BY <1>1, <1>2, <1>4, <1>5 DEF Reaching
<1>7. phase' = "lower" => Bounded'
  BY <1>1, <1>2, <1>4, <1>5 DEF Bounded
<1> QED
  BY <1>6, <1>7

----------------------------------------------------------------------------
(* Where items and references come from.  An item that was reached by      *)
(* usings alone stands in a body that is so many usings away from that of  *)
(* the rule of the host; one that was reached by templates alone stands in *)
(* a template that is expanded in it.  What is given to a template stands  *)
(* where its parameter stood: it is given in the body of the call.         *)

Given(x, b) ==
    /\ x.e.k = "rule" /\ x.e.to \in DOMAIN File(x.of).rules
    /\ x.of = "host" => x.e.to \in CallArgs(world, Host, ToSet(b), "Rule")

Arrived(x) ==
    IF x.via = <<>> THEN x.of = "host"
    ELSE \E q : IsPath(q) /\ Len(q) = Len(x.via) /\ Last(q) = x.of

InRule(n, x) ==
    ToSet(x.via) \subseteq {"using"} =>
        /\ Arrived(x)
        /\ \E b \in UsedWithin(world, BodyOf(Host, n), Len(x.via)) :
              x.e \in ToSet(b) \/ x.e.k = "argument" \/ Given(x, b)

InTemplate(n, x) ==
    x.of = "host" /\ x.via # <<>> /\ ToSet(x.via) \subseteq {"template"} =>
        \/ x.e.k = "argument"
        \/ x.e.k = "rule" /\ x.e.to \in GivenInTemplates
        \/ \E t \in ExpandedIn(Host, BodyOf(Host, n)) : x.e \in ToSet(Host.templates[t].body)

Traced(n, x) == InRule(n, x) /\ InTemplate(n, x)

RefTraced(r) ==
    /\ r.from \in Names("host")
    /\ Seen(r) /\ r.label[2] \in Names("host") => r.label[2] \in UsedNames(world, Host, BodyOf(Host, r.from))

Tracing ==
    /\ Passed => told = Warnings(world, "host")
    /\ phase \in {"check", "collect"} => Reaching
    /\ phase = "lower" => Bounded
    /\ stack # <<>> => HostRule \in Names("host")
    /\ \A F \in ToSet(stack) : \A x \in ToSet(F.text) : Traced(HostRule, x)
    /\ \A r \in refs : RefTraced(r)

LEMMA NamesAreFinite ==
    ASSUME world \in Worlds
    PROVE  IsFiniteSet(DOMAIN Host.templates) /\ IsFiniteSet(Names("host")) /\ NamesOf(Host) = Names("host")
<1>1. /\ IsFiniteSet(DOMAIN Host.rules) /\ IsFiniteSet(DOMAIN Host.pratt)
      /\ IsFiniteSet(DOMAIN Host.templates)
  BY WorldAssumption DEF Host, File
<1>2. IsFiniteSet(Names("host"))
  BY <1>1, FS_Union DEF Names, Host
<1> QED
  BY <1>1, <1>2 DEF NamesOf, Names, Host

(* A rule that is warned of is reached by no references that are seen. *)
LEMMA TracingIsEnough ==
    ASSUME Checked, Tracing
    PROVE  WarnedRulesAreDead
<1> SUFFICES ASSUME phase = "done"  PROVE told.rules \intersect LiveRules = {}
  BY DEF WarnedRulesAreDead
<1>1. world \in Worlds /\ Passed
  BY DEF Checked, Passed
<1>2. IsFiniteSet(Names("host")) /\ NamesOf(Host) = Names("host")
  BY <1>1, NamesAreFinite
<1> DEFINE reached == ReachedRules(world, Host)
           S == reached \union {n \in {Program} \union {r.label[2] : r \in refs} : n \notin Names("host")}
<1>3. told.rules = DOMAIN Host.rules \ reached
  <2>1. told = Warnings(world, "host") /\ ~Host.library
    BY <1>1, WorldAssumption DEF Tracing, Host, File
  <2> QED
    BY <2>1 DEF Warnings, Unreferenced, Host, File
<1>4. /\ {Program} \intersect DOMAIN Host.rules \subseteq reached
      /\ \A n \in reached : UsedNames(world, Host, BodyOf(Host, n)) \subseteq reached
  BY <1>2, ReachedRulesAre
<1> HIDE DEF reached
<1>5. Program \in S
  <2>1. Program \in DOMAIN Host.rules
    <3>1. Clean("host") /\ ~Host.library
      BY <1>1, WorldAssumption DEF Checked, Host, File
    <3>2. ~ProgramWrong(Host)
      BY <3>1 DEF Clean, Errors, Host, File
    <3> QED
      BY <3>1, <3>2 DEF ProgramWrong
  <2> QED
    BY <1>4, <2>1
<1>6. ASSUME NEW r \in refs, Seen(r), r.from \in S  PROVE r.label[2] \in S
  <2>1. r.from \in Names("host") /\ RefTraced(r)
    BY <1>6 DEF Tracing, RefTraced
  <2>2. r.from \in reached
    BY <1>6, <2>1
  <2>3. CASE r.label[2] \in Names("host")
    <3>1. r.label[2] \in UsedNames(world, Host, BodyOf(Host, r.from))
      BY <1>6, <2>1, <2>3 DEF RefTraced
    <3> QED
      BY <1>4, <2>2, <3>1
  <2>4. CASE r.label[2] \notin Names("host")
    BY <1>6, <2>4
  <2> QED
    BY <2>3, <2>4
<1>7. LiveRules \subseteq S
  <2> HIDE DEF S
  <2> QED
    BY <1>2, <1>5, <1>6, LiveRulesWithin
<1>8. DOMAIN Host.rules \subseteq Names("host")
  BY DEF Names, Host
<1> QED
  BY <1>3, <1>7, <1>8

----------------------------------------------------------------------------
(* What no step touches, and how a step of the lowering keeps the tracing. *)

LEMMA TracedStays ==
    ASSUME UNCHANGED world
    PROVE  /\ \A n, x : Traced(n, x)' <=> Traced(n, x)
           /\ \A r : RefTraced(r)' <=> RefTraced(r)
           /\ \A q : IsPath(q)' <=> IsPath(q)
           /\ Names("host")' = Names("host")
<1>1. /\ Host' = Host /\ Table(world)' = Table(world) /\ \A f : File(f)' = File(f)
      /\ world' = world
  BY ModulesStay
<1>2. \A q : IsPath(q)' <=> IsPath(q)
  BY <1>1 DEF IsPath
<1>3. GivenInTemplates' = GivenInTemplates /\ Names("host")' = Names("host")
  BY <1>1 DEF GivenInTemplates, Names
<1>4. \A x : Arrived(x)' <=> Arrived(x)
  BY <1>2 DEF Arrived
<1>5. \A x, b : Given(x, b)' <=> Given(x, b)
  BY <1>1 DEF Given
<1>6. \A n, x : InRule(n, x)' <=> InRule(n, x)
  BY <1>1, <1>4, <1>5 DEF InRule
<1>7. \A n, x : InTemplate(n, x)' <=> InTemplate(n, x)
  BY <1>1, <1>3 DEF InTemplate
<1>8. \A r : Seen(r)' <=> Seen(r)
  BY <1>3 DEF Seen
<1>9. \A r : RefTraced(r)' <=> RefTraced(r)
  BY <1>1, <1>3, <1>8 DEF RefTraced
<1> QED
  BY <1>2, <1>3, <1>6, <1>7, <1>9 DEF Traced

LEMMA TracingMoves ==
    ASSUME Tracing, phase = "lower", phase' \in {"lower", "panic", "done"}, UNCHANGED <<world, told>>,
           stack' # <<>> => stack'[1].rule \in Names("host"),
           \A F \in ToSet(stack') : \A x \in ToSet(F.text) : Traced(stack'[1].rule, x),
           \A r \in refs' : RefTraced(r)
    PROVE  Tracing'
<1>1. /\ \A n, x : Traced(n, x)' <=> Traced(n, x)
      /\ \A r : RefTraced(r)' <=> RefTraced(r)
      /\ \A q : IsPath(q)' <=> IsPath(q)
      /\ Names("host")' = Names("host")
  BY TracedStays
<1>2. told' = Warnings(world, "host")
  BY DEF Tracing, Passed
<1>3. Bounded'
  BY <1>1 DEF Tracing, Bounded
<1>4. HostRule' = stack'[1].rule
  BY DEF HostRule
<1> QED
  BY <1>1, <1>2, <1>3, <1>4 DEF Tracing

LEMMA AdvanceTraces ==
    ASSUME Lowering, Homing, Tracing, NEW kinds, At(kinds), Advance, UNCHANGED <<world, phase, told>>,
           \A r \in refs' : RefTraced(r)
    PROVE  Tracing'
<1>1. stack # <<>> /\ phase = "lower"
  BY DEF At
<1>2. /\ Len(Rest) = Len(stack) /\ DOMAIN stack = 1 .. Len(stack) /\ DOMAIN Rest = 1 .. Len(stack)
      /\ \A i \in 1 .. Len(stack) : ToSet(Rest[i].text) \subseteq ToSet(stack[i].text)
  BY RestIs DEF Lowering
<1>3. Rest[1].rule = HostRule
  BY Taken DEF Lowering
<1>4. ASSUME NEW F \in ToSet(Rest), NEW x \in ToSet(F.text)  PROVE Traced(HostRule, x)
  <2>1. PICK i \in 1 .. Len(stack) : F = Rest[i]
    BY <1>2, <1>4 DEF ToSet
  <2>2. stack[i] \in ToSet(stack) /\ x \in ToSet(stack[i].text)
    BY <1>2, <1>4, <2>1 DEF ToSet
  <2> QED
    BY <2>2 DEF Tracing
<1>5. HostRule \in Names("host")
  BY <1>1 DEF Tracing
<1> QED
  BY <1>1, <1>3, <1>4, <1>5, TracingMoves DEF Advance

LEMMA EnterTraces ==
    ASSUME Lowering, Homing, Tracing, NEW kinds, At(kinds), NEW F, Above(F), Enter(F),
           UNCHANGED <<world, phase, told>>, \A r \in refs' : RefTraced(r),
           \A x \in ToSet(F.text) : Traced(HostRule, x)
    PROVE  Tracing'
<1>1. stack # <<>> /\ phase = "lower"
  BY DEF At
<1>2. /\ Len(Rest) = Len(stack) /\ DOMAIN stack = 1 .. Len(stack) /\ DOMAIN Rest = 1 .. Len(stack)
      /\ \A i \in 1 .. Len(stack) : ToSet(Rest[i].text) \subseteq ToSet(stack[i].text)
  BY RestIs DEF Lowering
<1>3. Append(Rest, F)[1].rule = HostRule
  BY Climbed DEF Lowering
<1>4. IsSeq(Rest)
  BY AtWork DEF Lowering
<1>5. ToSet(Append(Rest, F)) \subseteq ToSet(Rest) \union {F}
  BY <1>4, AppendIsSeq
<1>6. ASSUME NEW K \in ToSet(Rest), NEW x \in ToSet(K.text)  PROVE Traced(HostRule, x)
  <2>1. PICK i \in 1 .. Len(stack) : K = Rest[i]
    BY <1>2, <1>6 DEF ToSet
  <2>2. stack[i] \in ToSet(stack) /\ x \in ToSet(stack[i].text)
    BY <1>2, <1>6, <2>1 DEF ToSet
  <2> QED
    BY <2>2 DEF Tracing
<1>7. HostRule \in Names("host")
  BY <1>1 DEF Tracing
<1>8. \A K \in ToSet(Append(Rest, F)) : \A x \in ToSet(K.text) : Traced(HostRule, x)
  BY <1>5, <1>6
<1> QED
  BY <1>1, <1>3, <1>7, <1>8, TracingMoves DEF Enter

\* The item at work is traced.
LEMMA ItemTraced ==
    ASSUME Lowering, Tracing, NEW kinds, At(kinds)
    PROVE  /\ Traced(HostRule, Item) /\ HostRule \in Names("host") /\ world \in Worlds /\ Bounded
           /\ Item.of \in DOMAIN world.files /\ Item.via \in Seq(Kinds)
           /\ Item.via = <<>> => Item.of = "host"
<1>1. Ctx \in ToSet(stack) /\ Item \in ToSet(Ctx.text) /\ ItemOK(Ctx, Item)
  BY AtWork DEF Lowering
<1>2. stack # <<>> /\ phase = "lower"
  BY DEF At
<1> QED
  BY <1>1, <1>2 DEF Tracing, ItemOK, Lowering, Checked

LEMMA LongerViaSet ==
    ASSUME NEW via \in Seq(Kinds), NEW kind
    PROVE  ToSet(Append(via, kind)) = ToSet(via) \union {kind} /\ Len(Append(via, kind)) = Len(via) + 1
<1>1. via \in Seq(Kinds \union {kind}) /\ Len(via) \in Nat /\ DOMAIN via = 1 .. Len(via)
  OBVIOUS
<1>2. /\ Append(via, kind) \in Seq(Kinds \union {kind}) /\ Len(Append(via, kind)) = Len(via) + 1
      /\ DOMAIN Append(via, kind) = 1 .. (Len(via) + 1)
      /\ Append(via, kind)[Len(via) + 1] = kind
      /\ \A i \in 1 .. Len(via) : Append(via, kind)[i] = via[i]
  BY <1>1
<1>3. ASSUME NEW x \in ToSet(Append(via, kind))  PROVE x \in ToSet(via) \union {kind}
  <2>1. PICK i \in 1 .. (Len(via) + 1) : x = Append(via, kind)[i]
    BY <1>2, <1>3 DEF ToSet
  <2>2. i \in 1 .. Len(via) \/ i = Len(via) + 1
    BY <1>1, <2>1
  <2> QED
    BY <1>1, <1>2, <2>1, <2>2 DEF ToSet
<1>4. ASSUME NEW x \in ToSet(via) \union {kind}  PROVE x \in ToSet(Append(via, kind))
  <2>1. CASE x = kind
    <3>1. Len(via) + 1 \in 1 .. (Len(via) + 1)
      BY <1>1
    <3> QED
      BY <1>2, <2>1, <3>1 DEF ToSet
  <2>2. CASE x \in ToSet(via)
    <3>1. PICK i \in 1 .. Len(via) : x = via[i]
      BY <1>1, <2>2 DEF ToSet
    <3>2. i \in 1 .. (Len(via) + 1) /\ x = Append(via, kind)[i]
      BY <1>1, <1>2, <3>1
    <3> QED
      BY <1>2, <3>2 DEF ToSet
  <2> QED
    BY <1>4, <2>1, <2>2
<1> QED
  BY <1>2, <1>3, <1>4

\* Nothing is asked of what was reached through other frames.
LEMMA OtherwiseReached ==
    ASSUME NEW via \in Seq(Kinds), NEW kind \in {"imported", "embed"}, NEW n, NEW x, x.via = Append(via, kind)
    PROVE  Traced(n, x)
<1>1. kind \in ToSet(x.via)
  BY LongerViaSet
<1> QED
  BY <1>1 DEF Traced, InRule, InTemplate

\* The templates that are expanded in a body.
LEMMA ExpandedInIs ==
    ASSUME NEW p, IsFiniteSet(DOMAIN p.templates), NEW body
    PROVE  /\ \A e \in ToSet(body) : e.k = "call" /\ e.to \in DOMAIN p.templates => e.to \in ExpandedIn(p, body)
           /\ \A t \in ExpandedIn(p, body) : t \in DOMAIN p.templates /\ CalledBy(p, t) \subseteq ExpandedIn(p, body)
<1> DEFINE Roots == {x \in OfKind(ToSet(body), {"call"}) : x.to \in DOMAIN p.templates}
<1>1. ExpandedIn(p, body) = UNION {{e.to} \union ExpandedBy(p, e.to) : e \in Roots}
  BY DEF ExpandedIn
<1>2. \A e \in ToSet(body) : e.k = "call" /\ e.to \in DOMAIN p.templates => e \in Roots
  BY DEF OfKind
<1>3. \A e \in Roots : e.to \in DOMAIN p.templates
  OBVIOUS
<1> HIDE DEF Roots
<1>4. \A e \in Roots : e.to \in ExpandedIn(p, body) /\ ExpandedBy(p, e.to) \subseteq ExpandedIn(p, body)
  BY <1>1
<1>5. ASSUME NEW t \in ExpandedIn(p, body)
      PROVE  t \in DOMAIN p.templates /\ CalledBy(p, t) \subseteq ExpandedIn(p, body)
  <2>1. PICK e \in Roots : t = e.to \/ t \in ExpandedBy(p, e.to)
    BY <1>1, <1>5
  <2>2. /\ CalledBy(p, e.to) \subseteq ExpandedBy(p, e.to)
        /\ \A m \in ExpandedBy(p, e.to) : CalledBy(p, m) \subseteq ExpandedBy(p, e.to)
        /\ ExpandedBy(p, e.to) \subseteq DOMAIN p.templates
    BY ExpandedByIs
  <2> QED
    BY <1>3, <1>4, <2>1, <2>2
<1> QED
  BY <1>2, <1>4, <1>5

LEMMA InNames ==
    ASSUME NEW body, NEW n \in Names("host")
    PROVE  /\ \A e \in ToSet(body) : e.k \in {"rule", "ref", "operator"} /\ e.to = n => n \in NamesIn(world, Host, body)
           /\ n \in DOMAIN Host.rules /\ n \in CallArgs(world, Host, ToSet(body), "Rule") => n \in NamesIn(world, Host, body)
           /\ \A t \in ExpandedIn(Host, body) : \A e \in ToSet(Host.templates[t].body) :
                 e.k \in {"rule", "ref"} /\ e.to = n => n \in NamesIn(world, Host, body)
<1> DEFINE Written == {e.to : e \in OfKind(ToSet(body), {"rule", "ref", "operator"})}
           Of(t) == {e.to : e \in OfKind(ToSet(Host.templates[t].body), {"rule", "ref"})}
           InTemplates == UNION {Of(t) : t \in ExpandedIn(Host, body)}
<1>1. n \in DOMAIN Host.rules \union DOMAIN Host.pratt
  BY DEF Names, Host
<1>2. NamesIn(world, Host, body) = (CallArgs(world, Host, ToSet(body), "Rule") \intersect DOMAIN Host.rules)
         \union ((Written \union InTemplates) \intersect (DOMAIN Host.rules \union DOMAIN Host.pratt))
  BY DEF NamesIn
<1>3. \A e \in ToSet(body) : e.k \in {"rule", "ref", "operator"} => e.to \in Written
  BY DEF OfKind
<1>4. \A t : \A e \in ToSet(Host.templates[t].body) : e.k \in {"rule", "ref"} => e.to \in Of(t)
  BY DEF OfKind
<1> HIDE DEF Written, Of
<1>5. \A t \in ExpandedIn(Host, body) : Of(t) \subseteq InTemplates
  OBVIOUS
<1> HIDE DEF InTemplates
<1> QED
  BY <1>1, <1>2, <1>3, <1>4, <1>5

\* The names in a body that is used by few enough usings count.
LEMMA InUsedNames ==
    ASSUME world \in Worlds, NEW body, NEW d \in Nat, d <= Cardinality(Table(world)),
           NEW b \in UsedWithin(world, body, d)
    PROVE  NamesIn(world, Host, b) \subseteq UsedNames(world, Host, body)
<1>1. Cardinality(Table(world)) \in Nat
  BY PrefixAssumption, FS_CardinalityType
<1>2. b \in UsedWithin(world, body, Cardinality(Table(world)))
  BY <1>1, UsedWithinGrows
<1> QED
  BY <1>2 DEF UsedNames

LEMMA LabelIs ==
    ASSUME NEW n
    PROVE  (Importable(n) => Label(n)[1] # "") /\ (~Importable(n) => Label(n)[2] = n)
  BY DEF Label, Importable

(* What a rule of the host refers to by what the compiler follows is among *)
(* the names it counts.                                                    *)
LEMMA ReferenceTraced ==
    ASSUME Lowering, Tracing, NEW kinds \in SUBSET {"rule", "ref", "operator"}, At(kinds), NEW r,
           r.from = HostRule, r.label = Label(Item.e.to), r.alias = Ctx.alias, r.of = Item.of, r.via = Item.via
    PROVE  RefTraced(r)
<1> DEFINE n == Item.e.to
           body == BodyOf(Host, HostRule)
<1>1. /\ InRule(HostRule, Item) /\ InTemplate(HostRule, Item) /\ HostRule \in Names("host")
      /\ world \in Worlds /\ Bounded
      /\ Item.of \in DOMAIN world.files /\ Item.via \in Seq(Kinds)
  BY ItemTraced DEF Traced
<1>2. Item.e.k \in {"rule", "ref", "operator"}
  BY DEF At
<1> SUFFICES ASSUME Seen(r), r.label[2] \in Names("host")  PROVE r.label[2] \in UsedNames(world, Host, body)
  BY <1>1 DEF RefTraced
<1>3. ~Importable(n) /\ r.label[2] = n
  <2>1. Importable(n) => r.label[1] # ""
    BY LabelIs
  <2>2. ~Importable(n) => r.label[2] = n
    BY LabelIs
  <2> QED
    BY <2>1, <2>2 DEF Seen
<1>4. n \in Names("host")
  BY <1>3
<1> HIDE DEF n, body
<1>5. ASSUME ToSet(Item.via) \subseteq {"using"}, Item.of \in {"host", Ctx.alias}
      PROVE  n \in UsedNames(world, Host, body)
  <2>1. /\ Arrived(Item) /\ Len(Item.via) \in Nat
        /\ \E b \in UsedWithin(world, body, Len(Item.via)) :
              Item.e \in ToSet(b) \/ Item.e.k = "argument" \/ Given(Item, b)
    BY <1>1, <1>5 DEF InRule, body
  <2>2. PICK b \in UsedWithin(world, body, Len(Item.via)) : Item.e \in ToSet(b) \/ Given(Item, b)
    BY <1>2, <2>1
  <2>3. Len(Item.via) <= Cardinality(Table(world))
    <3>1. CASE Item.via = <<>>
      <4>1. Len(Item.via) = 0 /\ Cardinality(Table(world)) \in Nat
        BY <1>1, <3>1, PrefixAssumption, FS_CardinalityType
      <4> QED
        BY <4>1
    <3>2. CASE Item.via # <<>>
      BY <1>1, <2>1, <3>2, PathsAreShort DEF Arrived
    <3> QED
      BY <3>1, <3>2
  <2>4. NamesIn(world, Host, b) \subseteq UsedNames(world, Host, body)
    BY <1>1, <2>1, <2>2, <2>3, InUsedNames
  <2>5. CASE Item.e \in ToSet(b)
    BY <1>2, <1>4, <2>4, <2>5, InNames DEF n
  <2>6. CASE Given(Item, b)
    <3>1. Item.of = "host"
      <4> SUFFICES ASSUME Item.of = Ctx.alias  PROVE Ctx.alias = "host"
        BY <1>5
      <4>1. n \in DOMAIN File(Ctx.alias).rules /\ Ctx.alias # ""
        BY <1>1, <2>6, WorldIs DEF Given, n
      <4> QED
        BY <1>3, <4>1 DEF Importable
    <3>2. n \in DOMAIN Host.rules /\ n \in CallArgs(world, Host, ToSet(b), "Rule")
      BY <2>6, <3>1 DEF Given, Host, n
    <3> QED
      BY <1>4, <2>4, <3>2, InNames
  <2> QED
    BY <2>2, <2>5, <2>6
<1>6. ASSUME ToSet(Item.via) \subseteq {"template"}, Item.of = "host", n \notin GivenInTemplates
      PROVE  n \in UsedNames(world, Host, body)
  <2>1. CASE Item.via = <<>>
    <3>1. ToSet(Item.via) \subseteq {"using"}
      BY <2>1 DEF ToSet
    <3> QED
      BY <1>5, <1>6, <3>1
  <2>2. CASE Item.via # <<>>
    <3>1. PICK t \in ExpandedIn(Host, body) : Item.e \in ToSet(Host.templates[t].body)
      BY <1>1, <1>2, <1>6, <2>2 DEF InTemplate, n, body
    <3>2. t \in DOMAIN Host.templates
      BY <1>1, <3>1, NamesAreFinite, ExpandedInIs
    <3>3. Item.e.k # "operator"
      <4>1. Host.templates[t].body \in TemplateBodies(Host)
        BY <3>2 DEF TemplateBodies
      <4>2. "host" \in DOMAIN world.files
        BY WorldIs
      <4>3. \A b \in RuleBodies(Host) \union TemplateBodies(Host) : OfKind(ToSet(b), {"argument", "operator"}) = {}
        BY <1>1, <4>2, WorldAssumption DEF Host, File
      <4>4. OfKind(ToSet(Host.templates[t].body), {"argument", "operator"}) = {}
        BY <4>1, <4>3
      <4> QED
        BY <3>1, <4>4 DEF OfKind
    <3>4. n \in NamesIn(world, Host, body)
      BY <1>2, <1>4, <3>1, <3>3, InNames DEF n
    <3>5. body \in UsedWithin(world, body, 0) /\ 0 \in Nat /\ 0 <= Cardinality(Table(world))
      <4>1. Cardinality(Table(world)) \in Nat
        BY <1>1, PrefixAssumption, FS_CardinalityType
      <4>2. UsedWithin(world, body, 0) = {body}
        <5>1. 0 \in Nat
          OBVIOUS
        <5> QED
          BY <5>1, UsedWithinGrows
      <4> QED
        BY <4>1, <4>2
    <3> QED
      BY <1>1, <3>4, <3>5, InUsedNames
  <2> QED
    BY <2>1, <2>2
<1> QED
  BY <1>3, <1>5, <1>6 DEF Seen

----------------------------------------------------------------------------
(* What a template expands to: its own text and, where its parameters      *)
(* stand, what the call gives it.                                          *)

LEMMA ItemsHave ==
    ASSUME NEW body, NEW f, NEW via, NEW x \in ToSet(Items(body, f, via))
    PROVE  x.of = f /\ x.via = via /\ x.e \in ToSet(body)
  BY DEF Items, ToSet

LEMMA SubstitutedIs ==
    ASSUME NEW template, NEW f, NEW y \in ToSet(Substituted(template, f))
    PROVE  \/ y.of = f /\ y.via = Via("template") /\ y.e \in ToSet(template.body)
           \/ \E e \in ToSet(template.body) :
                 e.k = "param" /\ y = Argument(template.params[e.to], Item.e.args[e.to])
<1> DEFINE items == Items(template.body, f, Via("template"))
           expanded(x) == IF x.e.k = "param" THEN Argument(template.params[x.e.to], Item.e.args[x.e.to]) ELSE x
<1>1. Substituted(template, f) = [i \in DOMAIN items |-> expanded(items[i])]
  BY DEF Substituted
<1>2. \A x \in ToSet(items) : x.of = f /\ x.via = Via("template") /\ x.e \in ToSet(template.body)
  BY ItemsHave
<1> HIDE DEF items
<1>3. PICK i \in DOMAIN items : y = expanded(items[i])
  <2> HIDE DEF expanded
  <2> QED
    BY <1>1 DEF ToSet
<1>4. items[i] \in ToSet(items)
  BY DEF ToSet
<1> DEFINE x == items[i]
<1>5. /\ x.of = f /\ x.via = Via("template") /\ x.e \in ToSet(template.body)
      /\ y = IF x.e.k = "param" THEN Argument(template.params[x.e.to], Item.e.args[x.e.to]) ELSE x
  BY <1>2, <1>3, <1>4
<1> HIDE DEF x
<1> QED
  BY <1>5

\* A rule that a call gives is among the arguments of the text of the call.
LEMMA GivenByCall ==
    ASSUME NEW S, NEW e \in S, e.k \in {"call", "usingCall"}, NEW params, ParamsOf(world, Host, e) = params,
           Len(e.args) = Len(params), NEW i \in DOMAIN params, params[i] = "Rule"
    PROVE  e.args[i] \in CallArgs(world, Host, S, "Rule")
<1>1. e.args[i] \in TypedArgs(ParamsOf(world, Host, e), e.args, "Rule")
  BY DEF TypedArgs
<1>2. e \in OfKind(S, {"call", "usingCall"})
  BY DEF OfKind
<1> QED
  BY <1>1, <1>2 DEF CallArgs

LEMMA ArgumentTraced ==
    ASSUME Lowering, Tracing, NEW kinds \in SUBSET {"call", "usingCall"}, At(kinds), NEW params,
           ParamsOf(world, File(Item.of), Item.e) = params, ArgumentsFit(File(Item.of), params, Item.e.args),
           NEW i \in DOMAIN params
    PROVE  Traced(HostRule, Argument(params[i], Item.e.args[i]))
<1> DEFINE name == Item.e.args[i]
           y == Argument(params[i], name)
           body == BodyOf(Host, HostRule)
<1>1. InRule(HostRule, Item) /\ InTemplate(HostRule, Item)
  BY ItemTraced DEF Traced
<1>2. Item.e.k \in {"call", "usingCall"}
  BY DEF At
<1>3. /\ y.of = Item.of /\ y.via = Item.via /\ y.e.to = name
      /\ y.e.k = IF params[i] = "Token" THEN "argument" ELSE "rule"
  BY DEF Argument
<1>4. Len(Item.e.args) = Len(params) /\ ArgumentFits(File(Item.of), params[i], name)
  BY DEF ArgumentsFit
<1>5. y.e.k = "argument" \/ (params[i] = "Rule" /\ y.e.k = "rule" /\ name \in DOMAIN File(Item.of).rules)
  BY <1>3, <1>4 DEF ArgumentFits
<1>6. ASSUME params[i] = "Rule", Item.of = "host", NEW S, Item.e \in S
      PROVE  name \in CallArgs(world, Host, S, "Rule")
  <2>1. ParamsOf(world, Host, Item.e) = params
    BY <1>6 DEF Host
  <2> QED
    BY <1>2, <1>4, <1>6, <2>1, GivenByCall
<1> HIDE DEF y, name
<1>7. InRule(HostRule, y)
  <2> SUFFICES ASSUME ToSet(Item.via) \subseteq {"using"}
               PROVE  /\ Arrived(Item)
                      /\ \E b \in UsedWithin(world, body, Len(Item.via)) : y.e.k = "argument" \/ Given(y, b)
    BY <1>3 DEF InRule, Arrived
  <2>1. /\ Arrived(Item)
        /\ \E b \in UsedWithin(world, body, Len(Item.via)) :
              Item.e \in ToSet(b) \/ Item.e.k = "argument" \/ Given(Item, b)
    BY <1>1 DEF InRule
  <2>2. PICK b \in UsedWithin(world, body, Len(Item.via)) : Item.e \in ToSet(b)
    BY <1>2, <2>1 DEF Given
  <2>3. y.e.k = "argument" \/ Given(y, b)
    BY <1>3, <1>5, <1>6, <2>2 DEF Given
  <2> QED
    BY <2>1, <2>2, <2>3
<1>8. InTemplate(HostRule, y)
  <2> SUFFICES ASSUME Item.of = "host", Item.via # <<>>, ToSet(Item.via) \subseteq {"template"},
                      y.e.k # "argument"
               PROVE  y.e.k = "rule" /\ y.e.to \in GivenInTemplates
    BY <1>3 DEF InTemplate
  <2>1. PICK t \in ExpandedIn(Host, body) : Item.e \in ToSet(Host.templates[t].body)
    BY <1>1, <1>2 DEF InTemplate
  <2>2. t \in DOMAIN Host.templates
    BY <2>1, ItemTraced, NamesAreFinite, ExpandedInIs
  <2>3. Item.e \in UNION {ToSet(b) : b \in TemplateBodies(Host)}
    BY <2>1, <2>2 DEF TemplateBodies
  <2> QED
    BY <1>3, <1>5, <1>6, <2>3 DEF GivenInTemplates
<1> QED
  BY <1>7, <1>8 DEF Traced, y, name

LEMMA ExpansionTraced ==
    ASSUME Lowering, Tracing, NEW kinds \in SUBSET {"call", "usingCall"}, At(kinds),
           NEW f \in DOMAIN world.files, NEW t \in DOMAIN File(f).templates, t = Item.e.to,
           ParamsOf(world, File(Item.of), Item.e) = File(f).templates[t].params,
           ArgumentsFit(File(Item.of), File(f).templates[t].params, Item.e.args),
           f = "host" => Item.of = "host" /\ Item.e.k = "call"
    PROVE  \A y \in ToSet(Substituted(File(f).templates[t], f)) : Traced(HostRule, y)
<1> SUFFICES ASSUME NEW y \in ToSet(Substituted(File(f).templates[t], f))  PROVE Traced(HostRule, y)
  OBVIOUS
<1> DEFINE template == File(f).templates[t]
           body == BodyOf(Host, HostRule)
<1>2. \A e \in ToSet(template.body) : e.k = "param" => e.to \in DOMAIN template.params
  <2>1. ~ParamWrong(File(f))
    BY CleanFiles DEF TemplateWrong
  <2> QED
    BY <2>1 DEF ParamWrong, OfKind
<1>3. \/ y.of = f /\ y.via = Via("template") /\ y.e \in ToSet(template.body)
      \/ \E e \in ToSet(template.body) :
            e.k = "param" /\ y = Argument(template.params[e.to], Item.e.args[e.to])
  BY SubstitutedIs
<1>4. ASSUME NEW e \in ToSet(template.body), e.k = "param",
             y = Argument(template.params[e.to], Item.e.args[e.to])
      PROVE  Traced(HostRule, y)
  BY <1>2, <1>4, ArgumentTraced
<1>5. ASSUME y.of = f, y.via = Via("template"), y.e \in ToSet(template.body)
      PROVE  Traced(HostRule, y)
  <2>1. /\ InRule(HostRule, Item) /\ InTemplate(HostRule, Item)
        /\ world \in Worlds /\ Item.via \in Seq(Kinds)
    BY ItemTraced DEF Traced
  <2>2. ToSet(y.via) = ToSet(Item.via) \union {"template"}
    BY <1>5, <2>1, LongerViaSet DEF Via
  <2>3. InRule(HostRule, y)
    <3>1. "template" \in ToSet(y.via) /\ "template" \notin {"using"}
      BY <2>2
    <3>2. ~(ToSet(y.via) \subseteq {"using"})
      BY <3>1
    <3> QED
      BY <3>2 DEF InRule
  <2>4. ASSUME f = "host", ToSet(y.via) \subseteq {"template"}
        PROVE  t \in ExpandedIn(Host, body)
    <3>1. /\ \A e \in ToSet(body) : e.k = "call" /\ e.to \in DOMAIN Host.templates => e.to \in ExpandedIn(Host, body)
          /\ \A u \in ExpandedIn(Host, body) : CalledBy(Host, u) \subseteq ExpandedIn(Host, body)
      BY <2>1, NamesAreFinite, ExpandedInIs
    <3>2. Item.e.k = "call" /\ t \in DOMAIN Host.templates /\ Item.of = "host"
      BY <2>4 DEF Host
    <3>3. CASE Item.via = <<>>
      <4>1. ToSet(Item.via) \subseteq {"using"} /\ Len(Item.via) = 0
        BY <3>3 DEF ToSet
      <4>2. UsedWithin(world, body, 0) = {body}
        BY UsedWithinGrows
      <4>3. Item.e \in ToSet(body)
        BY <2>1, <3>2, <4>1, <4>2 DEF InRule, Given
      <4> QED
        BY <3>1, <3>2, <4>3
    <3>4. CASE Item.via # <<>>
      <4>1. PICK u \in ExpandedIn(Host, body) : Item.e \in ToSet(Host.templates[u].body)
        BY <2>1, <2>2, <2>4, <3>2, <3>4 DEF InTemplate
      <4>2. t \in CalledBy(Host, u)
        BY <3>2, <4>1 DEF CalledBy, OfKind
      <4> QED
        BY <3>1, <4>1, <4>2
    <3> QED
      BY <3>3, <3>4
  <2>5. InTemplate(HostRule, y)
    BY <1>5, <2>4 DEF InTemplate, Host
  <2> QED
    BY <2>3, <2>5 DEF Traced
<1> QED
  BY <1>3, <1>4, <1>5

----------------------------------------------------------------------------
(* Every step of the lowering keeps the tracing. *)

LEMMA ImportedAbove ==
    ASSUME Lowering, Homing, NEW kinds, At(kinds), NEW n, Importable(n)
    PROVE  Above(ImportedFrame(n))
<1> DEFINE F == ImportedFrame(n)
<1>1. F.kind = "imported" /\ F.at = <<Ctx.alias, n>> /\ F.alias = Ctx.alias /\ F.rule = n
  BY DEF ImportedFrame, Frame
<1> HIDE DEF F
<1>2. Ctx.alias # "" /\ n \in DOMAIN File(Ctx.alias).rules /\ Ctx.alias \in Table(world)
  BY OwnerOfItems DEF Importable
<1>3. OfModule(F.rule)
  BY <1>1, <1>2 DEF OfModule
<1>4. IsPair(F.at) /\ F.at[1] \in Table(world)
  BY <1>1, <1>2, PairsAre
<1>5. Above(F)
  BY <1>1, <1>2, <1>3, <1>4 DEF Above, Kinds
<1> QED
  BY <1>5 DEF F

LEMMA ReferToTraces ==
    ASSUME Lowering, Homing, Tracing, NEW kinds \in SUBSET {"rule", "ref", "operator"}, At(kinds),
           ReferTo(Item.e.to)
    PROVE  Tracing'
<1> DEFINE n == Item.e.to
           r == [from |-> HostRule, label |-> Label(n), meant |-> Meant(Item.of, n),
                 alias |-> Ctx.alias, of |-> Item.of, via |-> Item.via]
<1>1. RefTraced(r)
  <2>1. /\ r.from = HostRule /\ r.label = Label(n) /\ r.alias = Ctx.alias
        /\ r.of = Item.of /\ r.via = Item.via
    OBVIOUS
  <2> HIDE DEF r
  <2> QED
    BY <2>1, ReferenceTraced
<1>2. refs' = refs \union {r} /\ UNCHANGED <<world, phase, told>>
  BY DEF ReferTo, Refer, checking
<1> HIDE DEF r
<1>3. \A x \in refs' : RefTraced(x)
  BY <1>1, <1>2 DEF Tracing
<1>4. CASE Importable(n) /\ ~InProgress(n)
  <2> DEFINE F == ImportedFrame(n)
  <2>1. Enter(F) /\ F.text = Items(File(Ctx.alias).rules[n], Ctx.alias, Via("imported"))
    BY <1>4 DEF ReferTo, ImportedFrame, Frame
  <2>2. Above(F)
    BY <1>4, ImportedAbove
  <2> HIDE DEF F
  <2>3. ASSUME NEW x \in ToSet(F.text)  PROVE x.via = Append(Item.via, "imported")
    <3> DEFINE text == File(Ctx.alias).rules[n]
    <3>1. x \in ToSet(Items(text, Ctx.alias, Via("imported")))
      BY <2>1, <2>3
    <3> HIDE DEF text
    <3>2. x.via = Via("imported")
      BY <3>1, ItemsHave
    <3> QED
      BY <3>2 DEF Via
  <2>4. \A x \in ToSet(F.text) : Traced(HostRule, x)
    BY <2>3, ItemTraced, OtherwiseReached
  <2> QED
    BY <1>2, <1>3, <2>1, <2>2, <2>4, EnterTraces
<1>5. CASE ~(Importable(n) /\ ~InProgress(n))
  <2>1. Advance
    BY <1>5 DEF ReferTo
  <2> QED
    BY <1>2, <1>3, <2>1, AdvanceTraces
<1> QED
  BY <1>4, <1>5

LEMMA UseRuleTraces ==
    ASSUME Lowering, Homing, Tracing, UseRule, CanUse
    PROVE  Tracing'
<1> DEFINE m == Item.e.from
           n == Item.e.to
           body == BodyOf(Host, HostRule)
           F == Frame("using", <<m, n>>, n, m, <<m>>, Ctx.rule, Items(File(m).rules[n], m, Via("using")))
<1>1. At({"using"}) /\ Enter(F) /\ UNCHANGED <<world, phase, told, refs>>
  BY DEF UseRule, result, checking
<1>2. /\ InRule(HostRule, Item) /\ world \in Worlds /\ Item.via \in Seq(Kinds)
      /\ Item.e.k = "using"
  BY <1>1, ItemTraced DEF Traced, At
<1>3. UsingFits(world, Item.of, Item.e) /\ m \in Table(world)
  BY <1>1, UsingIs
<1>4. m \in File(Item.of).imports /\ n \in ExportedRules(world.files[m])
  BY <1>2, <1>3 DEF UsingFits, File
<1>5. Above(F)
  <2> HIDE DEF m, n
  <2> QED
    BY <1>3, ModuleFrameAbove
<1>6. F.text = Items(File(m).rules[n], m, Via("using"))
  BY DEF Frame
<1> HIDE DEF F
<1>7. ASSUME NEW y \in ToSet(F.text)  PROVE Traced(HostRule, y)
  <2>1. y.of = m /\ y.via = Via("using") /\ y.e \in ToSet(File(m).rules[n])
    BY <1>6, <1>7, ItemsHave
  <2>2. /\ ToSet(y.via) = ToSet(Item.via) \union {"using"} /\ Len(y.via) = Len(Item.via) + 1
        /\ Len(Item.via) \in Nat /\ y.via # <<>>
    BY <1>2, <2>1, LongerViaSet, LongerVia DEF Via, Kinds
  <2>3. InTemplate(HostRule, y)
    BY <2>2 DEF InTemplate
  <2>4. InRule(HostRule, y)
    <3> SUFFICES ASSUME ToSet(y.via) \subseteq {"using"}
                 PROVE  Arrived(y) /\ \E b \in UsedWithin(world, body, Len(y.via)) : y.e \in ToSet(b)
      BY DEF InRule
    <3>1. /\ Arrived(Item)
          /\ \E b \in UsedWithin(world, body, Len(Item.via)) :
                Item.e \in ToSet(b) \/ Item.e.k = "argument" \/ Given(Item, b)
      BY <1>2, <2>2 DEF InRule
    <3>2. PICK b \in UsedWithin(world, body, Len(Item.via)) : Item.e \in ToSet(b)
      BY <1>2, <3>1 DEF Given
    <3>3. world.files[m].rules[n] \in UsedBy(world, UsedWithin(world, body, Len(Item.via)))
      <4> DEFINE S == UNION {ToSet(c) : c \in UsedWithin(world, body, Len(Item.via))}
      <4>1. Item.e \in S
        BY <3>2
      <4>2. Item.e \in {e \in OfKind(S, {"using"}) : e.from \in Table(world) /\ e.to \in ExportedRules(world.files[e.from])}
        BY <1>2, <1>3, <1>4, <4>1 DEF OfKind
      <4> QED
        BY <4>2 DEF UsedBy
    <3>4. world.files[m].rules[n] \in UsedWithin(world, body, Len(y.via))
      BY <2>2, <3>3, UsedWithinGrows
    <3>5. Arrived(y)
      <4>1. CASE Item.via = <<>>
        <5>1. ASSUME NEW a \in Table(world)  PROVE IsPath(<<a>>) /\ Len(<<a>>) = 1 /\ Last(<<a>>) = a
          BY <5>1 DEF IsPath, Last
        <5>2. Len(y.via) = 1
          BY <2>2, <4>1
        <5> QED
          BY <1>3, <2>1, <2>2, <5>1, <5>2 DEF Arrived
      <4>2. CASE Item.via # <<>>
        <5>1. PICK q : IsPath(q) /\ Len(q) = Len(Item.via) /\ Last(q) = Item.of
          BY <3>1, <4>2 DEF Arrived
        <5>2. IsPath(Append(q, m)) /\ Len(Append(q, m)) = Len(q) + 1 /\ Last(Append(q, m)) = m
          BY <1>2, <1>4, <5>1, PathGoesOn
        <5> QED
          BY <2>1, <2>2, <5>1, <5>2 DEF Arrived
      <4> QED
        BY <4>1, <4>2
    <3> QED
      BY <2>1, <3>4, <3>5 DEF File
  <2> QED
    BY <2>3, <2>4 DEF Traced
<1>8. \A r \in refs' : RefTraced(r)
  BY <1>1 DEF Tracing
<1> QED
  BY <1>1, <1>5, <1>7, <1>8, EnterTraces

LEMMA ExpandCallTraces ==
    ASSUME Lowering, Homing, Tracing, ExpandCall
    PROVE  Tracing'
<1> DEFINE f == Item.of
           n == Item.e.to
           F == Frame("template", <<f, n>>, "", Ctx.alias, Ctx.env, Ctx.rule, Substituted(File(f).templates[n], f))
<1>1. At({"call"})
  BY DEF ExpandCall
<1>2. Item.e \in Parsed(File(f)) /\ f = Owner(Ctx) /\ f \in DOMAIN world.files /\ Item.e.k = "call"
  BY <1>1, ParsedItem
<1>3. Head(Ctx.env) = f
  <2>1. Head(Ctx.env) = Owner(Ctx)
    BY <1>1, OwnerIs
  <2> QED
    BY <1>2, <2>1
<1>4. Enter(F) /\ UNCHANGED <<world, phase, told, refs>>
  BY <1>3 DEF ExpandCall, checking, result
<1>5. n \in DOMAIN File(f).templates /\ ArgumentsFit(File(f), File(f).templates[n].params, Item.e.args)
  <2>1. ~TemplateWrong(File(f))
    BY <1>2, CleanFiles
  <2>2. Item.e \in Calls(File(f))
    BY <1>2 DEF Calls, OfKind
  <2> QED
    BY <2>1, <2>2 DEF TemplateWrong
<1>6. ParamsOf(world, File(f), Item.e) = File(f).templates[n].params
  BY <1>2, <1>5 DEF ParamsOf
<1>7. /\ F.kind = "template" /\ F.alias = Ctx.alias /\ F.rule = Ctx.rule
      /\ F.text = Substituted(File(f).templates[n], f)
  BY DEF Frame
<1> HIDE DEF F
<1>8. Above(F)
  <2>1. Ctx.alias = "" => Item.of = "host"
    BY <1>1, OwnerOfItems
  <2>2. \A x \in ToSet(F.text) : x.of \in {f, Item.of}
    BY <1>7, SubstitutedAreOf
  <2> QED
    BY <1>7, <2>1, <2>2 DEF Above, Kinds
<1>9. \A y \in ToSet(F.text) : Traced(HostRule, y)
  <2>1. At({"call"}) /\ {"call"} \in SUBSET {"call", "usingCall"} /\ (f = "host" => Item.of = "host" /\ Item.e.k = "call")
    BY <1>1, <1>2
  <2> QED
    BY <1>2, <1>5, <1>6, <1>7, <2>1, ExpansionTraced
<1>10. \A r \in refs' : RefTraced(r)
  BY <1>4 DEF Tracing
<1> HIDE DEF f, n
<1> QED
  BY <1>1, <1>4, <1>8, <1>9, <1>10, EnterTraces

LEMMA UseTemplateTraces ==
    ASSUME Lowering, Homing, Tracing, UseTemplate
    PROVE  Tracing'
<1> DEFINE m == Item.e.from
           n == Item.e.to
           F == Frame("template", <<m, n>>, "", m, <<m>> \o Ctx.env, Ctx.rule, Substituted(File(m).templates[n], m))
<1>1. At({"usingCall"}) /\ Enter(F) /\ UNCHANGED <<world, phase, told, refs>>
  BY DEF UseTemplate, checking, result
<1>2. At({"usingCall"}) /\ Item.e.k = "usingCall"
  BY <1>1 DEF At
<1>3. UsingFits(world, Item.of, Item.e) /\ m \in Table(world)
  BY <1>2, UsingIs
<1>4. m # "host" /\ m \in DOMAIN world.files
  BY <1>3, WorldIs
<1>5. n \in ExportedTemplates(File(m)) /\ ArgumentsFit(File(Item.of), File(m).templates[n].params, Item.e.args)
  BY <1>2, <1>3 DEF UsingFits, File
<1>6. n \in DOMAIN File(m).templates
  BY <1>5 DEF ExportedTemplates
<1>7. ParamsOf(world, File(Item.of), Item.e) = File(m).templates[n].params
  <2>1. n \in ExportedTemplates(world.files[m]) /\ File(m) = world.files[m]
    BY <1>5 DEF File
  <2> QED
    BY <1>2, <2>1 DEF ParamsOf
<1>8. Above(F)
  <2> HIDE DEF m, n
  <2> QED
    BY <1>3, ModuleFrameAbove
<1>9. F.text = Substituted(File(m).templates[n], m)
  BY DEF Frame
<1> HIDE DEF F
<1>10. \A y \in ToSet(F.text) : Traced(HostRule, y)
  <2>1. {"usingCall"} \in SUBSET {"call", "usingCall"}
    OBVIOUS
  <2> QED
    BY <1>2, <1>4, <1>5, <1>6, <1>7, <1>9, <2>1, ExpansionTraced
<1>11. \A r \in refs' : RefTraced(r)
  BY <1>1 DEF Tracing
<1> QED
  BY <1>1, <1>8, <1>10, <1>11, EnterTraces

LEMMA EmbedTraces ==
    ASSUME Lowering, Homing, Tracing, EmbedProgram, UNCHANGED phase
    PROVE  Tracing'
<1> DEFINE m == Item.e.from
           n == EntryOf(m)
           F == Frame("embed", <<m, n>>, m, m, <<m>>, Ctx.rule, Items(File(m).rules[n], m, Via("embed")))
<1>1. At({"embed"}) /\ n # "" /\ Enter(F) /\ UNCHANGED <<world, phase, told, refs>>
  <2>1. At({"embed"}) /\ ~Panic("no rule") /\ ~Panic("delimiter")
    BY DEF EmbedProgram, Panic, Lowering
  <2>2. n # ""
    BY <2>1 DEF EmbedProgram
  <2>3. Enter(F) /\ UNCHANGED <<world, phase, checking, refs>>
    BY <2>1, <2>2, Zenon DEF EmbedProgram
  <2>4. UNCHANGED told
    BY <2>3 DEF checking
  <2> QED
    BY <2>1, <2>2, <2>3, <2>4
<1>2. m \in Table(world)
  <2>1. At({"embed"})
    BY <1>1
  <2>2. Item.e \in Parsed(File(Item.of)) /\ Item.of \in DOMAIN world.files /\ Item.e.k = "embed"
    BY <2>1, ParsedItem
  <2>3. ~EmbedWrong(File(Item.of)) /\ Item.e \in Embeds(File(Item.of))
    BY <2>2, CleanFiles DEF Embeds, OfKind
  <2>4. m \in File(Item.of).embeds
    BY <2>3 DEF EmbedWrong
  <2> QED
    BY <2>2, <2>4, WorldIs
<1>3. F.text = Items(File(m).rules[n], m, Via("embed"))
  BY DEF Frame
<1> HIDE DEF m, n
<1>4. Above(F)
  BY <1>2, ModuleFrameAbove
<1> HIDE DEF F
<1>5. ASSUME NEW x \in ToSet(F.text)  PROVE Traced(HostRule, x)
  <2> DEFINE text == File(m).rules[n]
  <2>1. x \in ToSet(Items(text, m, Via("embed")))
    BY <1>3, <1>5
  <2> HIDE DEF text
  <2>2. x.via = Via("embed")
    BY <2>1, ItemsHave
  <2>3. Item.via \in Seq(Kinds)
    BY <1>1, ItemTraced
  <2> QED
    BY <2>2, <2>3, OtherwiseReached DEF Via
<1>6. \A r \in refs' : RefTraced(r)
  BY <1>1 DEF Tracing
<1> QED
  BY <1>1, <1>4, <1>5, <1>6, EnterTraces

LEMMA BeginTraces ==
    ASSUME Lowering, Tracing, Begin
    PROVE  Tracing'
<1>1. PICK F : F \in NextToLower /\ stack' = <<F>>
  BY DEF Begin
<1>2. UNCHANGED <<world, phase, told, refs>> /\ phase = "lower" /\ world \in Worlds
  BY DEF Begin, checking, Lowering, Checked
<1>3. PICK n : n \in Names("host") /\ F = HostFrame(n, BodyOf(Host, n))
  <2>1. CASE todo # {}
    <3>1. PICK n \in todo : F = RuleFrame(n)
      BY <1>1, <2>1 DEF NextToLower
    <3>2. n \in DOMAIN Host.rules
      BY <3>1 DEF Lowering, Stacked
    <3> QED
      BY <3>1, <3>2 DEF RuleFrame, BodyOf, Names, Host
  <2>2. CASE todo = {}
    <3>1. PICK n \in DOMAIN Host.pratt : F = PrattFrame(n)
      BY <1>1, <2>2 DEF NextToLower
    <3>2. n \notin DOMAIN Host.rules
      <4> DEFINE tables == <<DOMAIN Host.lex, DOMAIN Host.rules, DOMAIN Host.pairs, DOMAIN Host.templates, DOMAIN Host.pratt>>
      <4>1. ~Collides(Host)
        BY WorldIs, CleanFiles DEF Host
      <4>2. \A i, j \in 1 .. 5 : i < j => tables[i] \intersect tables[j] = {}
        BY <4>1 DEF Collides
      <4>3. tables[2] = DOMAIN Host.rules /\ tables[5] = DOMAIN Host.pratt
        OBVIOUS
      <4> HIDE DEF tables
      <4>4. DOMAIN Host.rules \intersect DOMAIN Host.pratt = {}
        BY <4>2, <4>3
      <4> QED
        BY <3>1, <4>4
    <3> QED
      BY <3>1, <3>2 DEF PrattFrame, BodyOf, Names, Host
  <2> QED
    BY <2>1, <2>2
<1> DEFINE body == BodyOf(Host, n)
<1>4. F.rule = n /\ F.text = Items(body, "host", <<>>)
  BY <1>3 DEF HostFrame, Frame
<1>5. stack'[1] = F /\ ToSet(stack') = {F}
  BY <1>1, OneEntry
<1> HIDE DEF body
<1>6. ASSUME NEW x \in ToSet(F.text)  PROVE Traced(n, x)
  <2>1. x.of = "host" /\ x.via = <<>> /\ x.e \in ToSet(body)
    BY <1>4, <1>6, ItemsHave
  <2>2. UsedWithin(world, body, 0) = {body} /\ Len(<<>>) = 0
    <3>1. 0 \in Nat
      OBVIOUS
    <3> QED
      BY <3>1, UsedWithinGrows
  <2>3. InRule(n, x)
    BY <2>1, <2>2 DEF InRule, Arrived, body
  <2>4. InTemplate(n, x)
    BY <2>1 DEF InTemplate
  <2> QED
    BY <2>3, <2>4 DEF Traced
<1>7. \A r \in refs' : RefTraced(r)
  BY <1>2 DEF Tracing
<1>8. \A G \in ToSet(stack') : \A x \in ToSet(G.text) : Traced(stack'[1].rule, x)
  BY <1>4, <1>5, <1>6
<1>9. stack'[1].rule \in Names("host") /\ phase' \in {"lower", "panic", "done"}
  BY <1>2, <1>3, <1>4, <1>5
<1> QED
  BY <1>2, <1>7, <1>8, <1>9, TracingMoves

LEMMA FinishTraces ==
    ASSUME Lowering, Homing, Tracing, Finish
    PROVE  Tracing'
<1>1. /\ stack # <<>> /\ stack' = Front(stack) /\ IsSeq(stack)
      /\ UNCHANGED <<world, phase, told>> /\ phase = "lower"
  BY DEF Finish, checking, Lowering, Stacked
<1>2. stack' # <<>> => stack'[1].rule = HostRule
  BY Dropped
<1>3. HostRule \in Names("host")
  BY <1>1 DEF Tracing
<1>4. \A G \in ToSet(stack') : G \in ToSet(stack)
  <2>1. Front(stack) \in Seq(ToSet(stack))
    BY <1>1 DEF Front, IsSeq
  <2> QED
    BY <1>1, <2>1, SeqIsSeq
<1>5. \A G \in ToSet(stack') : \A x \in ToSet(G.text) : Traced(stack'[1].rule, x)
  <2> SUFFICES ASSUME NEW G \in ToSet(stack'), NEW x \in ToSet(G.text)  PROVE Traced(stack'[1].rule, x)
    OBVIOUS
  <2>1. stack' # <<>>
    <3>1. ToSet(<<>>) = {}
      BY DEF ToSet
    <3> QED
      BY <3>1
  <2>2. G \in ToSet(stack)
    BY <1>4
  <2>3. Traced(HostRule, x)
    BY <2>2 DEF Tracing
  <2> QED
    BY <1>2, <2>1, <2>3
<1>6. ASSUME NEW r \in refs'  PROVE RefTraced(r)
  <2>1. CASE r \in refs
    BY <2>1 DEF Tracing
  <2>2. CASE r \notin refs
    <3>1. Ctx.kind \in {"using", "embed"} /\ r.from = HostRule /\ r.label = LabelOf(Ctx)
      <4> DEFINE new == [from |-> HostRule, label |-> LabelOf(Ctx), meant |-> Ctx.at,
                         alias |-> "", of |-> "host", via |-> <<>>]
      <4>1. refs' = IF Ctx.kind \in {"using", "embed"} THEN refs \union {new} ELSE refs
        BY DEF Finish
      <4>2. new.from = HostRule /\ new.label = LabelOf(Ctx)
        OBVIOUS
      <4> HIDE DEF new
      <4>3. Ctx.kind \in {"using", "embed"} /\ r = new
        BY <1>6, <2>2, <4>1
      <4> QED
        BY <4>2, <4>3
    <3>2. Len(r.label) = 4
      <4>1. LabelOf(Ctx) = <<Ctx.rule, Ctx.kind, Ctx.role, Counted(Ctx)>>
        BY <3>1 DEF LabelOf
      <4>2. \A a, b, c, d : Len(<<a, b, c, d>>) = 4
        OBVIOUS
      <4> QED
        BY <3>1, <4>1, <4>2
    <3> QED
      BY <1>3, <3>1, <3>2 DEF RefTraced, Seen
  <2> QED
    BY <2>1, <2>2
<1> HIDE DEF Finish
<1> QED
  BY <1>1, <1>2, <1>3, <1>5, <1>6, TracingMoves

\* Before the lowering the import paths are walked and nothing refers to anything.
LEMMA TracingInit == Init => Tracing
<1> SUFFICES ASSUME Init  PROVE Tracing
  OBVIOUS
<1>1. /\ phase = "check" /\ stack = <<>> /\ refs = {}
      /\ \A a \in Table(world) : <<a>> \in prefixes
  BY DEF Init
<1>2. Reaching
  <2>1. ASSUME NEW q, IsPath(q), Len(q) = 1  PROVE q \in prefixes
    <3>1. q \in Seq(Table(world))
      BY <2>1 DEF IsPath
    <3>2. q = <<q[1]>> /\ q[1] \in Table(world)
      BY <2>1, <3>1
    <3> QED
      BY <1>1, <3>2
  <2>2. 1 \in Nat \ {0}
    OBVIOUS
  <2> QED
    BY <2>1, <2>2 DEF Reaching
<1>3. ToSet(stack) = {}
  BY <1>1 DEF ToSet
<1> QED
  BY <1>1, <1>2, <1>3 DEF Tracing, Passed

LEMMA CheckFileTraces ==
    ASSUME Homing, Tracing, CheckFile
    PROVE  Tracing'
<1>1. /\ phase = "check" /\ stack' = <<>> /\ refs' = {} /\ UNCHANGED <<world, prefixes>>
  BY DEF Homing, CheckFile, result
<1>2. phase' \in {"check", "failed"} \/ (phase' = "collect" /\ told' = Warnings(world, "host"))
  BY DEF CheckFile
<1>3. \A q : IsPath(q)' <=> IsPath(q)
  BY <1>1, TracedStays
<1>4. Reaching'
  BY <1>1, <1>3 DEF Tracing, Reaching
<1>5. ToSet(stack') = {}
  BY <1>1 DEF ToSet
<1> QED
  BY <1>1, <1>2, <1>4, <1>5 DEF Tracing, Passed

LEMMA CollectTraces ==
    ASSUME Homing, Tracing, CollectSymbols
    PROVE  Tracing'
<1>1. /\ phase = "collect" /\ stack' = <<>> /\ refs' = {} /\ UNCHANGED <<world, told>>
      /\ phase' \in {"lower", "endless", "collect"}
  BY DEF Homing, CollectSymbols, checking, result
<1>2. told' = Warnings(world, "host") /\ Reaching
  BY <1>1 DEF Tracing, Passed
<1>3. (phase' = "collect" => Reaching') /\ (phase' = "lower" => Bounded')
  BY <1>2, CollectReaches
<1>4. ToSet(stack') = {}
  BY <1>1 DEF ToSet
<1> QED
  BY <1>1, <1>2, <1>3, <1>4 DEF Tracing, Passed

LEMMA TracingStands ==
    ASSUME Tracing, phase = "lower", phase' \in {"lower", "panic", "done"}, UNCHANGED <<world, told, stack, refs>>
    PROVE  Tracing'
<1>1. /\ stack' # <<>> => stack'[1].rule \in Names("host")
      /\ \A F \in ToSet(stack') : \A x \in ToSet(F.text) : Traced(stack'[1].rule, x)
      /\ \A r \in refs' : RefTraced(r)
  BY DEF Tracing, HostRule
<1> QED
  BY <1>1, TracingMoves

LEMMA TracingStays ==
    ASSUME Tracing, UNCHANGED vars
    PROVE  Tracing'
<1>1. UNCHANGED <<world, phase, told, prefixes, stack, refs>>
  BY DEF vars, checking, result
<1>2. /\ \A n, x : Traced(n, x)' <=> Traced(n, x)
      /\ \A r : RefTraced(r)' <=> RefTraced(r)
      /\ \A q : IsPath(q)' <=> IsPath(q)
      /\ Names("host")' = Names("host")
  BY <1>1, TracedStays
<1>3. (Reaching' <=> Reaching) /\ (Bounded' <=> Bounded) /\ HostRule' = HostRule
  BY <1>1, <1>2 DEF Reaching, Bounded, HostRule
<1> QED
  BY <1>1, <1>2, <1>3 DEF Tracing, Passed

LEMMA TracingNext ==
    ASSUME Checked, Stacked, Homing, Tracing, [Next]_vars
    PROVE  Tracing'
<1>1. \A kinds : At(kinds) => Lowering
  BY DEF At, Lowering
<1>2. ASSUME NEW kinds, At(kinds), NEW why, Panic(why)  PROVE Tracing'
  BY <1>2, TracingStands DEF Panic, At, checking, result
<1>3. ASSUME NEW kinds, At(kinds), NEW S, Expect(S)  PROVE Tracing'
  <2>1. Advance /\ UNCHANGED <<world, phase, told, refs>>
    BY <1>3 DEF Expect, checking
  <2>2. \A r \in refs' : RefTraced(r)
    BY <2>1 DEF Tracing
  <2> QED
    BY <1>1, <1>3, <2>1, <2>2, AdvanceTraces
<1>4. ASSUME NEW kinds \in SUBSET {"rule", "ref", "operator"}, At(kinds), ReferTo(Item.e.to)  PROVE Tracing'
  BY <1>1, <1>4, ReferToTraces
<1>5. CASE CheckFile
  BY <1>5, CheckFileTraces
<1>6. CASE CollectSymbols
  BY <1>6, CollectTraces
<1>7. CASE Begin
  BY <1>7, BeginTraces DEF Begin, Lowering
<1>8. CASE Finish
  BY <1>8, FinishTraces DEF Finish, Lowering
<1>9. CASE AllLowered
  BY <1>9, TracingStands DEF AllLowered, checking, result
<1>10. CASE Finished \/ UNCHANGED vars
  BY <1>10, TracingStays DEF Finished
<1>11. CASE RuleReference
  <2>1. {"rule"} \in SUBSET {"rule", "ref", "operator"}
    OBVIOUS
  <2> QED
    BY <1>4, <1>11, <2>1 DEF RuleReference
<1>12. CASE Reference
  <2>1. {"ref"} \in SUBSET {"rule", "ref", "operator"}
    OBVIOUS
  <2> QED
    BY <1>4, <1>12, <2>1 DEF Reference
<1>13. CASE OpenReference
  BY <1>2, <1>13 DEF OpenReference
<1>14. CASE TokenMatch
  BY <1>3, <1>14 DEF TokenMatch, TokenSite
<1>15. CASE Lookahead \/ SyncToken
  BY <1>3, <1>15 DEF Lookahead, SyncToken
<1>16. CASE NestPair \/ NestUsingPair
  BY <1>3, <1>16 DEF NestPair, NestUsingPair
<1>17. CASE Operator
  <2>1. {"operator"} \in SUBSET {"rule", "ref", "operator"}
    OBVIOUS
  <2> QED
    BY <1>3, <1>4, <1>17, <2>1 DEF Operator
<1>18. CASE UseRule
  <2>1. CASE CanUse
    BY <1>1, <1>18, <2>1, UseRuleTraces DEF UseRule
  <2>2. CASE ~CanUse
    BY <1>2, <1>18, <2>2 DEF UseRule
  <2> QED
    BY <2>1, <2>2
<1>19. CASE ExpandCall
  BY <1>1, <1>19, ExpandCallTraces DEF ExpandCall
<1>20. CASE UseTemplate
  BY <1>1, <1>20, UseTemplateTraces DEF UseTemplate
<1>21. CASE EmbedProgram
  <2>1. At({"embed"}) /\ Lowering
    BY <1>1, <1>21 DEF EmbedProgram
  <2>2. CASE UNCHANGED phase
    BY <1>21, <2>1, <2>2, EmbedTraces
  <2>3. CASE ~UNCHANGED phase
    <3>1. Panic("no rule") \/ Panic("delimiter")
      BY <1>21, <2>3 DEF EmbedProgram
    <3> QED
      BY <1>2, <2>1, <3>1
  <2> QED
    BY <2>2, <2>3
<1>22. CASE EmbedBare \/ Unfit
  BY <1>2, <1>22 DEF EmbedBare, Unfit
<1> QED
  BY <1>5, <1>6, <1>7, <1>8, <1>9, <1>10, <1>11, <1>12, <1>13, <1>14, <1>15, <1>16, <1>17, <1>18, <1>19,
     <1>20, <1>21, <1>22 DEF Next

(* When the lowering is done, no rule of which the host was warned that    *)
(* nothing refers to it is reached from PROGRAM by the references that     *)
(* were compiled, as far as Seen says the validator looks: for every host  *)
(* and every table of modules (extractAllRuleRefs and                      *)
(* computeReachableParseRules of validation.go, collectRuleNames of        *)
(* validation_template.go).                                                *)
THEOREM WarnedRulesStayDead == Spec => []WarnedRulesAreDead
<1>1. LoweringInv /\ Homing /\ Tracing /\ [Next]_vars => Tracing'
  BY TracingNext DEF LoweringInv
<1>2. Spec => []Tracing
  BY <1>1, TracingInit, LoweringInvariant, HomingInvariant, PTL DEF Spec
<1>3. LoweringInv /\ Tracing => WarnedRulesAreDead
  BY TracingIsEnough DEF LoweringInv
<1> QED
  BY <1>2, <1>3, LoweringInvariant, PTL

=============================================================================
