-------------------------- MODULE EmbedLexerProofs --------------------------
(***************************************************************************)
(* What is proved of embedded lexers, for every language whose modules     *)
(* keep their root mode and whose open tokens take the entry: from the     *)
(* open token to the close token the lexer is inside the module, the close *)
(* token can be lexed there, and takes the lexer back to where it was.     *)
(*                                                                         *)
(* The argument: what the compilation makes of each rule is known (Shape), *)
(* and so is where each mode of the stack comes from (Held).               *)
(***************************************************************************)
EXTENDS EmbedLexer, SequenceTheorems, TLAPS

Fields(token, pattern, priority, kind, states, amount) ==
  [token |-> token, pattern |-> pattern, priority |-> priority,
   kind |-> kind, states |-> states, amount |-> amount]
Whole(r) == r = Fields(r.token, r.pattern, r.priority, r.kind, r.states, r.amount)

HostNames(g) == {Name(Host, n) : n \in DOMAIN g.host}
ModuleNames(g, a) == {Name(a, n) : n \in DOMAIN g.modules[a]}

(* The rule that the host has written for a token, as constructLexRule makes it ... *)
PlainRule(g, r, w, k) ==
  /\ \A i \in 1..k : w.token # g.embeds[i].open
  /\ r = Constructed(Host, w)
(* ... and with the entry of the statement that the token opens. *)
EntryRule(g, r, w, k) ==
  \E i \in 1..k :
    /\ w.token = g.embeds[i].open
    /\ r = Fields(Name(Host, w.token), w.pattern, w.priority, "push",
                  Append(References(Host, w.states), Root(g.embeds[i].alias)), w.amount)
HostRule(g, r, n, k) == \E w \in g.host[n] : PlainRule(g, r, w, k) \/ EntryRule(g, r, w, k)
OwnRule(g, r, a, n) == \E w \in g.modules[a][n] : r = Constructed(a, w)
ExitFor(g, r, e) ==
  /\ r = Fields(Name(Host, e.close), r.pattern, MaxPriority, "pop", <<>>, 1)
  /\ \E n \in DOMAIN g.host : \E w \in g.host[n] : w.token = e.close /\ w.pattern = r.pattern
ExitRule(g, r, a, k) == \E i \in 1..k : g.embeds[i].alias = a /\ ExitFor(g, r, g.embeds[i])

(* The lexer spec, when the lexers of some modules are still to be merged   *)
(* and the first k statements are injected.                                 *)
HostShape(g, sp, k) ==
  \A n \in DOMAIN g.host :
    /\ \A r \in sp[Name(Host, n)] : HostRule(g, r, n, k)
    /\ \A w \in g.host[n] : \E r \in sp[Name(Host, n)] : r.token = Name(Host, w.token)
ModuleShape(g, sp, a, k) ==
  \A n \in DOMAIN g.modules[a] : \A r \in sp[Name(a, n)] :
    OwnRule(g, r, a, n) \/ (n = "INITIAL" /\ ExitRule(g, r, a, k))
ExitShape(g, sp, k) ==
  \A i \in 1..k :
    (\E n \in DOMAIN g.host : \E w \in g.host[n] : w.token = g.embeds[i].close)
      => \E r \in sp[Root(g.embeds[i].alias)] : ExitFor(g, r, g.embeds[i])
Shape(g, sp, left, k) ==
  /\ DOMAIN sp = HostNames(g) \cup UNION {ModuleNames(g, a) : a \in DOMAIN g.modules \ left}
  /\ HostShape(g, sp, k)
  /\ \A a \in DOMAIN g.modules \ left : ModuleShape(g, sp, a, k)
  /\ ExitShape(g, sp, k)

-----------------------------------------------------------------------------
(* What each operation makes of a rule.                                     *)
LEMMA FieldsAre ==
  ASSUME NEW t, NEW p, NEW q, NEW k, NEW s, NEW m
  PROVE  LET r == Fields(t, p, q, k, s, m) IN
         /\ Whole(r) /\ r.token = t /\ r.pattern = p /\ r.priority = q
         /\ r.kind = k /\ r.states = s /\ r.amount = m
BY DEF Fields, Whole

LEMMA ConstructedOf ==
  ASSUME NEW a, NEW t, NEW p, NEW q, NEW k, NEW s, NEW m
  PROVE  Constructed(a, Fields(t, p, q, k, s, m)) = Fields(Name(a, t), p, q, k, References(a, s), m)
<1> DEFINE x == Name(a, Fields(t, p, q, k, s, m).token)
           y == References(a, Fields(t, p, q, k, s, m).states)
<1>1. Constructed(a, Fields(t, p, q, k, s, m))
        = [Fields(t, p, q, k, s, m) EXCEPT !.token = x, !.states = y]
  BY DEF Constructed
<1> HIDE DEF x, y
<1>2. [Fields(t, p, q, k, s, m) EXCEPT !.token = x, !.states = y]
        = [[Fields(t, p, q, k, s, m) EXCEPT !.token = x] EXCEPT !.states = y]
  OBVIOUS
<1>3. [Fields(t, p, q, k, s, m) EXCEPT !.token = x] = Fields(x, p, q, k, s, m)
  BY DEF Fields
<1>4. [Fields(x, p, q, k, s, m) EXCEPT !.states = y] = Fields(x, p, q, k, y, m)
  BY DEF Fields
<1>5. x = Name(a, t) /\ y = References(a, s)
  BY FieldsAre DEF x, y
<1> QED
  BY <1>1, <1>2, <1>3, <1>4, <1>5

LEMMA ConstructedIs ==
  ASSUME NEW a, NEW w, NEW S, LexRule(w, S)
  PROVE  Constructed(a, w) = Fields(Name(a, w.token), w.pattern, w.priority, w.kind, References(a, w.states), w.amount)
<1>1. w = Fields(w.token, w.pattern, w.priority, w.kind, w.states, w.amount)
  BY DEF LexRule, Fields
<1> QED
  BY <1>1, ConstructedOf

LEMMA WithEntryOf ==
  ASSUME NEW e, NEW t, NEW p, NEW q, NEW k, NEW s, NEW m
  PROVE  WithEntry(Fields(t, p, q, k, s, m), e) =
           IF k \in {"none", "push"} /\ t = Name(Host, e.open)
             THEN Fields(t, p, q, "push", Append(s, Root(e.alias)), m)
             ELSE Fields(t, p, q, k, s, m)
<1> DEFINE r == Fields(t, p, q, k, s, m)
           y == Append(r.states, Root(e.alias))
<1>1. WithEntry(r, e) =
        IF r.kind \in {"none", "push"} /\ r.token = Name(Host, e.open)
          THEN [r EXCEPT !.kind = "push", !.states = y] ELSE r
  BY DEF WithEntry
<1>2. r.kind = k /\ r.token = t /\ y = Append(s, Root(e.alias))
  BY FieldsAre
<1>a. r = Fields(t, p, q, k, s, m)
  OBVIOUS
<1> HIDE DEF y, r
<1>3. [r EXCEPT !.kind = "push", !.states = y] = [[r EXCEPT !.kind = "push"] EXCEPT !.states = y]
  OBVIOUS
<1>4. [r EXCEPT !.kind = "push"] = Fields(t, p, q, "push", s, m)
  BY <1>a DEF Fields
<1>5. [Fields(t, p, q, "push", s, m) EXCEPT !.states = y] = Fields(t, p, q, "push", y, m)
  BY DEF Fields
<1>6. WithEntry(r, e) = IF k \in {"none", "push"} /\ t = Name(Host, e.open)
                          THEN Fields(t, p, q, "push", y, m) ELSE r
  BY <1>1, <1>2, <1>3, <1>4, <1>5
<1> QED
  BY <1>6, <1>2, <1>a

LEMMA WithEntryIs ==
  ASSUME NEW r, Whole(r), NEW e
  PROVE  WithEntry(r, e) =
           IF r.kind \in {"none", "push"} /\ r.token = Name(Host, e.open)
             THEN Fields(r.token, r.pattern, r.priority, "push", Append(r.states, Root(e.alias)), r.amount)
             ELSE r
BY WithEntryOf DEF Whole

LEMMA ExitOfFields ==
  ASSUME NEW t, NEW p, NEW q, NEW k, NEW s, NEW m
  PROVE  Exit(Fields(t, p, q, k, s, m)) = Fields(t, p, MaxPriority, "pop", <<>>, 1)
<1> DEFINE v == MaxPriority
<1>1. Exit(Fields(t, p, q, k, s, m))
        = [Fields(t, p, q, k, s, m) EXCEPT !.priority = v, !.kind = "pop", !.states = <<>>, !.amount = 1]
  BY DEF Exit
<1> HIDE DEF v
<1>2. [Fields(t, p, q, k, s, m) EXCEPT !.priority = v, !.kind = "pop", !.states = <<>>, !.amount = 1]
        = [[[[Fields(t, p, q, k, s, m) EXCEPT !.priority = v] EXCEPT !.kind = "pop"]
              EXCEPT !.states = <<>>] EXCEPT !.amount = 1]
  OBVIOUS
<1>3. [Fields(t, p, q, k, s, m) EXCEPT !.priority = v] = Fields(t, p, v, k, s, m)
  BY DEF Fields
<1>4. [Fields(t, p, v, k, s, m) EXCEPT !.kind = "pop"] = Fields(t, p, v, "pop", s, m)
  BY DEF Fields
<1>5. [Fields(t, p, v, "pop", s, m) EXCEPT !.states = <<>>] = Fields(t, p, v, "pop", <<>>, m)
  BY DEF Fields
<1>6. [Fields(t, p, v, "pop", <<>>, m) EXCEPT !.amount = 1] = Fields(t, p, v, "pop", <<>>, 1)
  BY DEF Fields
<1> QED
  BY <1>1, <1>2, <1>3, <1>4, <1>5, <1>6 DEF v

LEMMA ExitIs ==
  ASSUME NEW r, Whole(r)
  PROVE  Exit(r) = Fields(r.token, r.pattern, MaxPriority, "pop", <<>>, 1)
BY ExitOfFields DEF Whole

LEMMA NamesDiffer ==
  ASSUME NEW a, NEW b, NEW m, NEW n
  PROVE  /\ Name(a, m) = Name(b, n) <=> a = b /\ m = n
         /\ Name(a, m)[1] = a /\ Name(a, m)[2] = m
BY DEF Name

LEMMA LanguageOf ==
  ASSUME NEW g \in Grammars
  PROVE  /\ Language(g) /\ Host \notin Aliases
         /\ \A a \in DOMAIN g.modules : a # Host /\ ValidLexer(g.modules[a])
         /\ ValidLexer(g.host)
         /\ \A n \in DOMAIN g.host : \A w \in g.host[n] : LexRule(w, DOMAIN g.host)
         /\ \A a \in DOMAIN g.modules : \A n \in DOMAIN g.modules[a] : \A w \in g.modules[a][n] :
              LexRule(w, DOMAIN g.modules[a])
<1>1. Language(g) /\ Host \notin Aliases
  BY EmbedLexerAssumption
<1>2. ValidLexer(g.host) /\ \A a \in DOMAIN g.modules : a # Host /\ ValidLexer(g.modules[a])
  BY <1>1 DEF Language
<1> QED
  BY <1>1, <1>2 DEF ValidLexer

LEMMA HostRuleIs ==
  ASSUME NEW g \in Grammars, NEW n \in DOMAIN g.host, NEW r, NEW k \in Nat, HostRule(g, r, n, k)
  PROVE  /\ Whole(r)
         /\ \E w \in g.host[n] : r.token = Name(Host, w.token) /\ r.pattern = w.pattern
<1>1. PICK w \in g.host[n] : PlainRule(g, r, w, k) \/ EntryRule(g, r, w, k)
  BY DEF HostRule
<1>2. LexRule(w, DOMAIN g.host)
  BY LanguageOf
<1>3. CASE PlainRule(g, r, w, k)
  <2>1. r = Fields(Name(Host, w.token), w.pattern, w.priority, w.kind, References(Host, w.states), w.amount)
    BY <1>2, <1>3, ConstructedIs DEF PlainRule
  <2> QED
    BY <2>1, FieldsAre
<1>4. CASE EntryRule(g, r, w, k)
  <2>1. PICK i \in 1..k : r = Fields(Name(Host, w.token), w.pattern, w.priority, "push",
                                     Append(References(Host, w.states), Root(g.embeds[i].alias)), w.amount)
    BY <1>4 DEF EntryRule
  <2> QED
    BY <2>1, FieldsAre
<1> QED
  BY <1>1, <1>3, <1>4

LEMMA OwnRuleIs ==
  ASSUME NEW g \in Grammars, NEW a \in DOMAIN g.modules, NEW n \in DOMAIN g.modules[a], NEW r, OwnRule(g, r, a, n)
  PROVE  /\ Whole(r)
         /\ \E w \in g.modules[a][n] :
              /\ LexRule(w, DOMAIN g.modules[a])
              /\ r.token = Name(a, w.token) /\ r.pattern = w.pattern /\ r.priority = w.priority
              /\ r.kind = w.kind /\ r.states = References(a, w.states) /\ r.amount = w.amount
         /\ r.token[1] # Host
<1>1. PICK w \in g.modules[a][n] : r = Constructed(a, w)
  BY DEF OwnRule
<1>2. LexRule(w, DOMAIN g.modules[a]) /\ a # Host
  BY LanguageOf
<1>3. r = Fields(Name(a, w.token), w.pattern, w.priority, w.kind, References(a, w.states), w.amount)
  BY <1>1, <1>2, ConstructedIs
<1> QED
  BY <1>2, <1>3, FieldsAre, NamesDiffer

LEMMA ExitForIs ==
  ASSUME NEW g, NEW r, NEW e, ExitFor(g, r, e)
  PROVE  /\ Whole(r) /\ r.token = Name(Host, e.close) /\ r.priority = MaxPriority
         /\ r.kind = "pop" /\ r.states = <<>> /\ r.amount = 1
BY FieldsAre DEF ExitFor

LEMMA CompiledIs ==
  ASSUME NEW a, NEW lexer
  PROVE  /\ DOMAIN Compiled(a, lexer) = {Name(a, n) : n \in DOMAIN lexer}
         /\ \A n \in DOMAIN lexer : Compiled(a, lexer)[Name(a, n)] = {Constructed(a, w) : w \in lexer[n]}
BY NamesDiffer DEF Compiled

LEMMA CompiledHas ==
  ASSUME NEW a, NEW lexer, NEW n \in DOMAIN lexer
  PROVE  /\ \A w \in lexer[n] : Constructed(a, w) \in Compiled(a, lexer)[Name(a, n)]
         /\ \A r \in Compiled(a, lexer)[Name(a, n)] : \E w \in lexer[n] : r = Constructed(a, w)
<1>1. Name(a, n) \in {Name(a, m) : m \in DOMAIN lexer} /\ Name(a, n)[2] = n
  BY NamesDiffer
<1>2. Compiled(a, lexer)[Name(a, n)] = {Constructed(a, w) : w \in lexer[n]}
  BY <1>1 DEF Compiled
<1> QED
  BY <1>2

-----------------------------------------------------------------------------
(* What each step of the compilation makes of the lexer spec.               *)
LEMMA ShapeInit ==
  ASSUME NEW g \in Grammars
  PROVE  Shape(g, Compiled(Host, g.host), DOMAIN g.modules, 0)
<1> DEFINE sp == Compiled(Host, g.host)
<1>1. DOMAIN sp = HostNames(g)
  BY CompiledIs DEF HostNames
<1>2. ASSUME NEW n \in DOMAIN g.host
      PROVE  /\ \A r \in sp[Name(Host, n)] : HostRule(g, r, n, 0)
             /\ \A w \in g.host[n] : \E r \in sp[Name(Host, n)] : r.token = Name(Host, w.token)
  <2>1. sp[Name(Host, n)] = {Constructed(Host, w) : w \in g.host[n]}
    BY CompiledIs
  <2> HIDE DEF sp
  <2>2. ASSUME NEW r \in sp[Name(Host, n)] PROVE HostRule(g, r, n, 0)
    <3>1. PICK w \in g.host[n] : r = Constructed(Host, w)
      BY <2>1, <2>2
    <3>2. PlainRule(g, r, w, 0)
      BY <3>1 DEF PlainRule
    <3> QED
      BY <3>2 DEF HostRule
  <2>3. ASSUME NEW w \in g.host[n] PROVE \E r \in sp[Name(Host, n)] : r.token = Name(Host, w.token)
    <3>1. Constructed(Host, w) \in sp[Name(Host, n)]
      BY <2>1
    <3>2. Constructed(Host, w).token = Name(Host, w.token)
      BY LanguageOf, ConstructedIs, FieldsAre
    <3> QED
      BY <3>1, <3>2
  <2> QED
    BY <2>2, <2>3
<1> HIDE DEF sp
<1>3. HostShape(g, sp, 0)
  BY <1>2 DEF HostShape
<1>4. ExitShape(g, sp, 0)
  BY DEF ExitShape
<1>5. DOMAIN g.modules \ DOMAIN g.modules = {}
  OBVIOUS
<1>6. Shape(g, sp, DOMAIN g.modules, 0)
  BY <1>1, <1>3, <1>4, <1>5 DEF Shape
<1> QED
  BY <1>6 DEF sp

LEMMA ShapeModule ==
  ASSUME NEW g \in Grammars, NEW sp, NEW left, left \subseteq DOMAIN g.modules,
         Shape(g, sp, left, 0), NEW a \in left
  PROVE  Shape(g, Merged(sp, Compiled(a, g.modules[a])), left \ {a}, 0)
<1> DEFINE added == Compiled(a, g.modules[a])
           new == Merged(sp, added)
<1>1. DOMAIN added = ModuleNames(g, a)
  BY CompiledIs DEF ModuleNames
<1>2. DOMAIN new = DOMAIN sp \cup ModuleNames(g, a)
  BY <1>1 DEF Merged
<1>3. \A s \in DOMAIN sp : s \notin ModuleNames(g, a) => new[s] = sp[s]
  BY <1>1 DEF Merged
<1>4. \A s \in ModuleNames(g, a) : new[s] = added[s]
  BY <1>1 DEF Merged
<1>5. a # Host /\ a \in DOMAIN g.modules
  BY LanguageOf
<1>b. \A n \in DOMAIN g.modules[a] : added[Name(a, n)] = {Constructed(a, w) : w \in g.modules[a][n]}
  BY CompiledIs
<1> HIDE DEF new, added
<1>a. \A n \in DOMAIN g.modules[a] : new[Name(a, n)] = {Constructed(a, w) : w \in g.modules[a][n]}
  <2> TAKE n \in DOMAIN g.modules[a]
  <2>1. Name(a, n) \in ModuleNames(g, a)
    BY DEF ModuleNames
  <2> QED
    BY <1>4, <1>b, <2>1
<1>6. DOMAIN sp = HostNames(g) \cup UNION {ModuleNames(g, b) : b \in DOMAIN g.modules \ left}
  BY DEF Shape
<1>7. DOMAIN new = HostNames(g) \cup UNION {ModuleNames(g, b) : b \in DOMAIN g.modules \ (left \ {a})}
  BY <1>2, <1>5, <1>6
<1>8. \A n \in DOMAIN g.host : new[Name(Host, n)] = sp[Name(Host, n)]
  <2> TAKE n \in DOMAIN g.host
  <2>1. Name(Host, n) \in DOMAIN sp
    BY <1>6 DEF HostNames
  <2>2. Name(Host, n) \notin ModuleNames(g, a)
    BY <1>5, NamesDiffer DEF ModuleNames
  <2> QED
    BY <1>3, <2>1, <2>2
<1>9. HostShape(g, new, 0)
  BY <1>8 DEF HostShape, Shape
<1>10. ExitShape(g, new, 0)
  BY DEF ExitShape
<1>11. ASSUME NEW b \in DOMAIN g.modules \ (left \ {a}) PROVE ModuleShape(g, new, b, 0)
  <2>1. CASE b = a
    <3>1. ASSUME NEW n \in DOMAIN g.modules[a], NEW r \in new[Name(a, n)] PROVE OwnRule(g, r, a, n)
      BY <1>a, <3>1 DEF OwnRule
    <3> QED
      BY <2>1, <3>1 DEF ModuleShape
  <2>2. CASE b # a
    <3>1. ModuleShape(g, sp, b, 0)
      BY <2>2 DEF Shape
    <3>2. ASSUME NEW n \in DOMAIN g.modules[b] PROVE new[Name(b, n)] = sp[Name(b, n)]
      <4>1. Name(b, n) \in DOMAIN sp
        BY <1>6, <2>2 DEF ModuleNames
      <4>2. Name(b, n) \notin ModuleNames(g, a)
        BY <2>2, NamesDiffer DEF ModuleNames
      <4> QED
        BY <1>3, <4>1, <4>2
    <3> QED
      BY <3>1, <3>2 DEF ModuleShape
  <2> QED
    BY <2>1, <2>2
<1>12. Shape(g, new, left \ {a}, 0)
  BY <1>7, <1>9, <1>10, <1>11 DEF Shape
<1> QED
  BY <1>12 DEF new, added

LEMMA EntryOnHost ==
  ASSUME NEW g \in Grammars, OpensEnter(g), NEW k \in Nat, k + 1 \in 1..Len(g.embeds),
         NEW n \in DOMAIN g.host, NEW r, HostRule(g, r, n, k)
  PROVE  /\ HostRule(g, WithEntry(r, g.embeds[k + 1]), n, k + 1)
         /\ WithEntry(r, g.embeds[k + 1]).token = r.token
<1> DEFINE e == g.embeds[k + 1]
           x == WithEntry(r, e)
<1>1. PICK w \in g.host[n] : PlainRule(g, r, w, k) \/ EntryRule(g, r, w, k)
  BY DEF HostRule
<1>2. LexRule(w, DOMAIN g.host)
  BY LanguageOf
<1>3. Whole(r)
  BY HostRuleIs
<1>4. x = IF r.kind \in {"none", "push"} /\ r.token = Name(Host, e.open)
            THEN Fields(r.token, r.pattern, r.priority, "push", Append(r.states, Root(e.alias)), r.amount)
            ELSE r
  BY <1>3, WithEntryIs
<1>5. Len(g.embeds) \in Nat
  BY LanguageOf DEF Language
<1> HIDE DEF x
<1>6. x.token = r.token
  BY <1>4, FieldsAre
<1>7. ASSUME PlainRule(g, r, w, k), w.token = e.open PROVE HostRule(g, x, n, k + 1)
  <2>1. r = Fields(Name(Host, w.token), w.pattern, w.priority, w.kind, References(Host, w.states), w.amount)
    BY <1>2, <1>7, ConstructedIs DEF PlainRule
  <2>2. w.kind \in {"none", "push"}
    BY <1>7 DEF OpensEnter
  <2>3. x = Fields(Name(Host, w.token), w.pattern, w.priority, "push",
                   Append(References(Host, w.states), Root(e.alias)), w.amount)
    BY <1>4, <1>7, <2>1, <2>2, FieldsAre
  <2>4. EntryRule(g, x, w, k + 1)
    BY <1>7, <2>3 DEF EntryRule
  <2> QED
    BY <2>4 DEF HostRule
<1>8. ASSUME PlainRule(g, r, w, k), w.token # e.open PROVE HostRule(g, x, n, k + 1)
  <2>1. r.token = Name(Host, w.token)
    BY <1>2, <1>8, ConstructedIs, FieldsAre DEF PlainRule
  <2>2. x = r
    BY <1>4, <1>8, <2>1, NamesDiffer
  <2>3. ASSUME NEW i \in 1..(k + 1) PROVE w.token # g.embeds[i].open
    BY <1>8 DEF PlainRule
  <2>4. PlainRule(g, x, w, k + 1)
    BY <1>8, <2>2, <2>3 DEF PlainRule
  <2> QED
    BY <2>4 DEF HostRule
<1>9. ASSUME EntryRule(g, r, w, k) PROVE HostRule(g, x, n, k + 1)
  <2>1. PICK i \in 1..k :
          /\ w.token = g.embeds[i].open
          /\ r = Fields(Name(Host, w.token), w.pattern, w.priority, "push",
                        Append(References(Host, w.states), Root(g.embeds[i].alias)), w.amount)
    BY <1>9 DEF EntryRule
  <2>2. r.token = Name(Host, w.token)
    BY <2>1, FieldsAre
  <2>3. w.token # e.open
    <3>1. i \in 1..Len(g.embeds) /\ i # k + 1
      BY <1>5
    <3> QED
      BY <2>1, <3>1 DEF OpensEnter
  <2>4. x = r
    BY <1>4, <2>2, <2>3, NamesDiffer
  <2>5. i \in 1..(k + 1)
    OBVIOUS
  <2>6. EntryRule(g, x, w, k + 1)
    BY <2>1, <2>4, <2>5 DEF EntryRule
  <2> QED
    BY <2>6 DEF HostRule
<1>10. HostRule(g, x, n, k + 1)
  BY <1>1, <1>7, <1>8, <1>9
<1> QED
  BY <1>6, <1>10 DEF x

LEMMA EntryOnModule ==
  ASSUME NEW g \in Grammars, NEW a \in DOMAIN g.modules, NEW n \in DOMAIN g.modules[a], NEW k \in Nat, NEW e,
         NEW r, OwnRule(g, r, a, n) \/ (n = "INITIAL" /\ ExitRule(g, r, a, k))
  PROVE  WithEntry(r, e) = r
<1>1. CASE OwnRule(g, r, a, n)
  <2>1. Whole(r) /\ r.token[1] # Host
    BY <1>1, OwnRuleIs
  <2>2. r.token # Name(Host, e.open)
    BY <2>1, NamesDiffer
  <2> QED
    BY <2>1, <2>2, WithEntryIs
<1>2. CASE ExitRule(g, r, a, k)
  <2>1. Whole(r) /\ r.kind = "pop"
    BY <1>2, ExitForIs DEF ExitRule
  <2> QED
    BY <2>1, WithEntryIs
<1> QED
  BY <1>1, <1>2

(* Halfway an injection: the entries of k + 1 statements, the exits of k. *)
HalfShape(g, sp, k) ==
  /\ DOMAIN sp = HostNames(g) \cup UNION {ModuleNames(g, a) : a \in DOMAIN g.modules}
  /\ HostShape(g, sp, k + 1)
  /\ \A a \in DOMAIN g.modules : ModuleShape(g, sp, a, k)
  /\ ExitShape(g, sp, k)

LEMMA EntryShape ==
  ASSUME NEW g \in Grammars, HandsOver(g), NEW k \in Nat, k + 1 \in 1..Len(g.embeds),
         NEW sp, Shape(g, sp, {}, k)
  PROVE  HalfShape(g, InjectEntry(sp, g.embeds[k + 1]), k)
<1> DEFINE e == g.embeds[k + 1]
           new == InjectEntry(sp, e)
<1>1. DOMAIN new = DOMAIN sp
  BY DEF InjectEntry
<1>2. \A s \in DOMAIN sp : new[s] = {WithEntry(r, e) : r \in sp[s]}
  BY DEF InjectEntry
<1>3. DOMAIN sp = HostNames(g) \cup UNION {ModuleNames(g, a) : a \in DOMAIN g.modules}
  BY DEF Shape
<1> HIDE DEF new, e
<1>4. ASSUME NEW n \in DOMAIN g.host
      PROVE  /\ \A x \in new[Name(Host, n)] : HostRule(g, x, n, k + 1)
             /\ \A w \in g.host[n] : \E x \in new[Name(Host, n)] : x.token = Name(Host, w.token)
  <2>1. Name(Host, n) \in DOMAIN sp
    BY <1>3 DEF HostNames
  <2>2. new[Name(Host, n)] = {WithEntry(r, e) : r \in sp[Name(Host, n)]}
    BY <1>2, <2>1
  <2>3. \A r \in sp[Name(Host, n)] : HostRule(g, r, n, k)
    BY DEF Shape, HostShape
  <2>4. \A r \in sp[Name(Host, n)] : HostRule(g, WithEntry(r, e), n, k + 1) /\ WithEntry(r, e).token = r.token
    BY <2>3, EntryOnHost DEF e, HandsOver
  <2>5. \A w \in g.host[n] : \E r \in sp[Name(Host, n)] : r.token = Name(Host, w.token)
    BY DEF Shape, HostShape
  <2> QED
    BY <2>2, <2>4, <2>5
<1>5. ASSUME NEW a \in DOMAIN g.modules, NEW n \in DOMAIN g.modules[a]
      PROVE  new[Name(a, n)] = sp[Name(a, n)]
  <2>1. Name(a, n) \in DOMAIN sp
    BY <1>3 DEF ModuleNames
  <2>2. new[Name(a, n)] = {WithEntry(r, e) : r \in sp[Name(a, n)]}
    BY <1>2, <2>1
  <2>3. \A r \in sp[Name(a, n)] : OwnRule(g, r, a, n) \/ (n = "INITIAL" /\ ExitRule(g, r, a, k))
    BY DEF Shape, ModuleShape
  <2>4. \A r \in sp[Name(a, n)] : WithEntry(r, e) = r
    BY <2>3, EntryOnModule
  <2> QED
    BY <2>2, <2>4
<1>6. HostShape(g, new, k + 1)
  BY <1>4 DEF HostShape
<1>7. \A a \in DOMAIN g.modules : ModuleShape(g, new, a, k)
  BY <1>5 DEF Shape, ModuleShape
<1>8. ExitShape(g, new, k)
  <2>1. ASSUME NEW i \in 1..k PROVE new[Root(g.embeds[i].alias)] = sp[Root(g.embeds[i].alias)]
    <3>0. i \in 1..Len(g.embeds)
      BY LanguageOf DEF Language
    <3>1. g.embeds[i].alias \in DOMAIN g.modules
      BY <3>0, LanguageOf DEF Language
    <3>2. "INITIAL" \in DOMAIN g.modules[g.embeds[i].alias]
      BY <3>1 DEF HandsOver, KeepsRoot
    <3> QED
      BY <1>5, <3>1, <3>2 DEF Root
  <2> QED
    BY <2>1 DEF Shape, ExitShape
<1>9. HalfShape(g, new, k)
  BY <1>1, <1>3, <1>6, <1>7, <1>8 DEF HalfShape
<1> QED
  BY <1>9 DEF new, e

LEMMA ExitsShape ==
  ASSUME NEW g \in Grammars, HandsOver(g), NEW k \in Nat, k + 1 \in 1..Len(g.embeds),
         NEW sp, HalfShape(g, sp, k)
  PROVE  Shape(g, InjectExit(sp, g.embeds[k + 1]), {}, k + 1)
<1> DEFINE e == g.embeds[k + 1]
           root == Root(e.alias)
           new == InjectExit(sp, e)
           HostCloses(pattern) == \E n \in DOMAIN g.host : \E w \in g.host[n] : w.token = e.close /\ w.pattern = pattern
<1>1. e.alias \in DOMAIN g.modules /\ "INITIAL" \in DOMAIN g.modules[e.alias]
  <2>1. e.alias \in DOMAIN g.modules
    BY LanguageOf DEF Language
  <2> QED
    BY <2>1 DEF HandsOver, KeepsRoot
<1>2. DOMAIN sp = HostNames(g) \cup UNION {ModuleNames(g, a) : a \in DOMAIN g.modules}
  BY DEF HalfShape
<1>3. root \in DOMAIN sp
  BY <1>1, <1>2 DEF ModuleNames, Root
<1>4. \A a \in DOMAIN g.modules : a # Host
  BY LanguageOf
<1>5. ASSUME NEW r \in CloseRules(sp, e) PROVE Whole(r) /\ r.token = Name(Host, e.close) /\ HostCloses(r.pattern)
  <2>1. PICK s \in DOMAIN sp : r \in sp[s] /\ r.token = Name(Host, e.close)
    BY <1>5 DEF CloseRules
  <2>2. CASE s \in HostNames(g)
    <3>1. PICK n \in DOMAIN g.host : s = Name(Host, n)
      BY <2>2 DEF HostNames
    <3>2. HostRule(g, r, n, k + 1)
      BY <2>1, <3>1 DEF HalfShape, HostShape
    <3>3. Whole(r) /\ \E w \in g.host[n] : r.token = Name(Host, w.token) /\ r.pattern = w.pattern
      BY <3>2, HostRuleIs
    <3>4. PICK w \in g.host[n] : r.token = Name(Host, w.token) /\ r.pattern = w.pattern
      BY <3>3
    <3>5. w.token = e.close
      BY <2>1, <3>4 DEF Name
    <3> QED
      BY <2>1, <3>3, <3>4, <3>5
  <2>3. CASE s \notin HostNames(g)
    <3>0. PICK a \in DOMAIN g.modules : s \in ModuleNames(g, a)
      BY <1>2, <2>3
    <3>1. PICK n \in DOMAIN g.modules[a] : s = Name(a, n)
      BY <3>0 DEF ModuleNames
    <3>2. OwnRule(g, r, a, n) \/ ExitRule(g, r, a, k)
      BY <2>1, <3>1 DEF HalfShape, ModuleShape
    <3>3. ~OwnRule(g, r, a, n)
      BY <2>1, OwnRuleIs, NamesDiffer
    <3>4. PICK i \in 1..k : ExitFor(g, r, g.embeds[i])
      BY <3>2, <3>3 DEF ExitRule
    <3>5. Whole(r) /\ r.token = Name(Host, g.embeds[i].close)
      BY <3>4, ExitForIs
    <3>6. g.embeds[i].close = e.close
      BY <2>1, <3>5 DEF Name
    <3> QED
      BY <2>1, <3>4, <3>5, <3>6 DEF ExitFor
  <2> QED
    BY <2>2, <2>3
<1>6. ASSUME NEW n \in DOMAIN g.host PROVE Name(Host, n) # root
  BY <1>1, <1>4, NamesDiffer DEF Root
<1>7. ASSUME NEW n \in DOMAIN g.host, NEW w \in g.host[n], w.token = e.close PROVE CloseRules(sp, e) # {}
  <2>1. PICK r \in sp[Name(Host, n)] : r.token = Name(Host, w.token)
    BY DEF HalfShape, HostShape
  <2>2. Name(Host, n) \in DOMAIN sp
    BY <1>2 DEF HostNames
  <2> QED
    BY <1>7, <2>1, <2>2 DEF CloseRules
<1>8. CASE CloseRules(sp, e) = {}
  <2>1. new = sp
    BY <1>8 DEF InjectExit
  <2>2. ExitShape(g, sp, k + 1)
    <3>1. ASSUME NEW i \in 1..(k + 1),
                 \E n \in DOMAIN g.host : \E w \in g.host[n] : w.token = g.embeds[i].close
          PROVE  \E r \in sp[Root(g.embeds[i].alias)] : ExitFor(g, r, g.embeds[i])
      <4>1. i # k + 1
        BY <1>7, <1>8, <3>1
      <4>2. i \in 1..k
        BY <4>1
      <4> QED
        BY <3>1, <4>2 DEF HalfShape, ExitShape
    <3> QED
      BY <3>1 DEF ExitShape
  <2>3. \A a \in DOMAIN g.modules : ModuleShape(g, sp, a, k + 1)
    BY DEF HalfShape, ModuleShape, ExitRule
  <2>4. Shape(g, sp, {}, k + 1)
    BY <1>2, <2>2, <2>3 DEF Shape, HalfShape
  <2> QED
    BY <2>1, <2>4
<1>9. CASE CloseRules(sp, e) # {}
  <2> DEFINE close == CHOOSE rule \in CloseRules(sp, e) : TRUE
             x == Exit(close)
  <2>1. close \in CloseRules(sp, e)
    BY <1>9
  <2>2. new = [sp EXCEPT ![root] = @ \cup {x}]
    BY <1>9 DEF InjectExit
  <2> HIDE DEF close
  <2>3. x = Fields(Name(Host, e.close), close.pattern, MaxPriority, "pop", <<>>, 1) /\ HostCloses(close.pattern)
    BY <1>5, <2>1, ExitIs
  <2> HIDE DEF x
  <2>4. ExitFor(g, x, e)
    BY <2>3, FieldsAre DEF ExitFor
  <2>5. /\ DOMAIN new = DOMAIN sp
        /\ new[root] = sp[root] \cup {x}
        /\ \A s \in DOMAIN sp : s # root => new[s] = sp[s]
    BY <1>3, <2>2
  <2> HIDE DEF new, root, e
  <2>6. HostShape(g, new, k + 1)
    <3>1. ASSUME NEW n \in DOMAIN g.host PROVE new[Name(Host, n)] = sp[Name(Host, n)]
      <4>1. Name(Host, n) \in DOMAIN sp
        BY <1>2 DEF HostNames
      <4> QED
        BY <1>6, <2>5, <4>1
    <3> QED
      BY <3>1 DEF HalfShape, HostShape
  <2>7. ASSUME NEW a \in DOMAIN g.modules PROVE ModuleShape(g, new, a, k + 1)
    <3>1. ASSUME NEW n \in DOMAIN g.modules[a], NEW r \in new[Name(a, n)]
          PROVE  OwnRule(g, r, a, n) \/ (n = "INITIAL" /\ ExitRule(g, r, a, k + 1))
      <4>1. Name(a, n) \in DOMAIN sp
        BY <1>2 DEF ModuleNames
      <4>2. r \in sp[Name(a, n)] \/ (Name(a, n) = root /\ r = x)
        BY <2>5, <3>1, <4>1
      <4>3. CASE r \in sp[Name(a, n)]
        <5>1. OwnRule(g, r, a, n) \/ (n = "INITIAL" /\ ExitRule(g, r, a, k))
          BY <4>3 DEF HalfShape, ModuleShape
        <5> QED
          BY <5>1 DEF ExitRule
      <4>4. CASE Name(a, n) = root /\ r = x
        <5>1. a = e.alias /\ n = "INITIAL"
          BY <4>4, NamesDiffer DEF root, Root
        <5>2. ExitRule(g, r, a, k + 1)
          BY <2>4, <4>4, <5>1 DEF ExitRule, e
        <5> QED
          BY <5>1, <5>2
      <4> QED
        BY <4>2, <4>3, <4>4
    <3> QED
      BY <3>1 DEF ModuleShape
  <2>8. ExitShape(g, new, k + 1)
    <3>1. ASSUME NEW i \in 1..(k + 1),
                 \E n \in DOMAIN g.host : \E w \in g.host[n] : w.token = g.embeds[i].close
          PROVE  \E r \in new[Root(g.embeds[i].alias)] : ExitFor(g, r, g.embeds[i])
      <4>1. CASE i = k + 1
        BY <2>4, <2>5, <4>1 DEF e, root
      <4>2. CASE i # k + 1
        <5>1. i \in 1..k
          BY <4>2
        <5>2. PICK r \in sp[Root(g.embeds[i].alias)] : ExitFor(g, r, g.embeds[i])
          BY <3>1, <5>1 DEF HalfShape, ExitShape
        <5>0. i \in 1..Len(g.embeds)
          BY <5>1, LanguageOf DEF Language
        <5>3. g.embeds[i].alias \in DOMAIN g.modules
          BY <5>0, LanguageOf DEF Language
        <5>4. Root(g.embeds[i].alias) \in DOMAIN sp
          BY <1>2, <5>3 DEF HandsOver, KeepsRoot, ModuleNames, Root
        <5>5. r \in new[Root(g.embeds[i].alias)]
          BY <2>5, <5>2, <5>4
        <5> QED
          BY <5>2, <5>5
      <4> QED
        BY <4>1, <4>2
    <3> QED
      BY <3>1 DEF ExitShape
  <2>9. Shape(g, new, {}, k + 1)
    BY <1>2, <2>5, <2>6, <2>7, <2>8 DEF Shape
  <2> QED
    BY <2>9 DEF new, e
<1> QED
  BY <1>8, <1>9

-----------------------------------------------------------------------------
(* The compilation: of the modules merged and the statements injected so   *)
(* far the lexer spec has the shape above.                                 *)
Injected == Len(grammar.embeds) - Len(embeds)

Compiling ==
  /\ grammar \in Grammars
  /\ pending \subseteq DOMAIN grammar.modules
  /\ embeds \in Seq({grammar.embeds[i] : i \in 1..Len(grammar.embeds)})
  /\ Injected \in 0..Len(grammar.embeds)
  /\ \A i \in 1..Len(embeds) : embeds[i] = grammar.embeds[Injected + i]
  /\ Injected > 0 => pending = {}
  /\ Shape(grammar, spec, pending, Injected)

LEMMA CompilingInit == Init => Compiling
<1> SUFFICES ASSUME Init PROVE Compiling
  OBVIOUS
<1> USE DEF Init
<1>1. Language(grammar) /\ Len(grammar.embeds) \in Nat
  BY LanguageOf DEF Language
<1>2. embeds \in Seq({grammar.embeds[i] : i \in 1..Len(grammar.embeds)})
  <2> DEFINE n == Len(grammar.embeds)
             S == {grammar.embeds[i] : i \in 1..n}
  <2>1. embeds = [i \in 1..n |-> grammar.embeds[i]]
    BY <1>1 DEF Language
  <2>2. n \in Nat
    BY <1>1
  <2>a. \A i \in 1..n : grammar.embeds[i] \in S
    OBVIOUS
  <2> HIDE DEF n, S
  <2>3. embeds \in [1..n -> S]
    BY <2>1, <2>a
  <2>4. embeds \in Seq(S)
    BY <2>2, <2>3
  <2> QED
    BY <2>4 DEF n, S
<1>3. Injected = 0
  BY <1>1 DEF Injected
<1>4. Shape(grammar, spec, pending, Injected)
  BY <1>3, ShapeInit
<1> QED
  BY <1>1, <1>2, <1>3, <1>4 DEF Compiling

LEMMA ModuleCompiling ==
  ASSUME Compiling, NEW a \in Aliases, CompileModule(a)
  PROVE  Compiling'
<1> USE DEF CompileModule
<1>1. Injected = 0 /\ Injected' = Injected
  BY DEF Compiling, Injected
<1>2. Shape(grammar, spec', pending', 0)
  <2>1. Shape(grammar, spec, pending, 0) /\ pending \subseteq DOMAIN grammar.modules /\ grammar \in Grammars
    BY <1>1 DEF Compiling
  <2> QED
    BY <2>1, ShapeModule
<1>3. Shape(grammar, spec, pending, Injected)'
  BY <1>1, <1>2
<1>4. /\ (grammar \in Grammars)'
      /\ (pending \subseteq DOMAIN grammar.modules)'
      /\ (embeds \in Seq({grammar.embeds[i] : i \in 1..Len(grammar.embeds)}))'
  BY DEF Compiling
<1>5. (Injected \in 0..Len(grammar.embeds))'
  BY <1>1 DEF Compiling
<1>6. (\A i \in 1..Len(embeds) : embeds[i] = grammar.embeds[Injected + i])'
  BY <1>1 DEF Compiling
<1> QED
  BY <1>1, <1>3, <1>4, <1>5, <1>6 DEF Compiling

LEMMA HandoffCompiling ==
  ASSUME Compiling, InjectHandoff, HandsOver(grammar)
  PROVE  Compiling'
<1> DEFINE k == Injected
           S == {grammar.embeds[i] : i \in 1..Len(grammar.embeds)}
<1>1. /\ grammar \in Grammars /\ embeds \in Seq(S) /\ embeds # <<>> /\ pending = {}
      /\ k \in 0..Len(grammar.embeds) /\ Shape(grammar, spec, {}, k)
      /\ grammar' = grammar /\ pending' = pending /\ embeds' = Tail(embeds)
      /\ spec' = InjectExit(InjectEntry(spec, Head(embeds)), Head(embeds))
  BY DEF Compiling, InjectHandoff
<1>2. Len(grammar.embeds) \in Nat
  BY <1>1, LanguageOf DEF Language
<1>3. Len(embeds) \in Nat \ {0} /\ k = Len(grammar.embeds) - Len(embeds) /\ k + 1 \in 1..Len(grammar.embeds)
  BY <1>1, <1>2 DEF Injected
<1>4. \A i \in 1..Len(embeds) : embeds[i] = grammar.embeds[k + i]
  BY DEF Compiling
<1>5. embeds' \in Seq(S) /\ Len(embeds') = Len(embeds) - 1
      /\ \A i \in 1..(Len(embeds) - 1) : embeds'[i] = embeds[i + 1]
  BY <1>1, HeadTailProperties
<1>6. Injected' = k + 1
  BY <1>1, <1>2, <1>3, <1>5 DEF Injected
<1> HIDE DEF k
<1>7. Head(embeds) = grammar.embeds[k + 1]
  <2>1. Head(embeds) = embeds[1] /\ 1 \in 1..Len(embeds)
    BY <1>1, <1>3
  <2> QED
    BY <1>4, <2>1
<1>8. \A i \in 1..Len(embeds') : embeds'[i] = grammar'.embeds[k + 1 + i]
  <2> TAKE i \in 1..Len(embeds')
  <2>1. i + 1 \in 1..Len(embeds) /\ i \in 1..(Len(embeds) - 1)
    BY <1>3, <1>5
  <2>2. embeds[i + 1] = grammar.embeds[k + (i + 1)]
    BY <1>4, <2>1
  <2>a. k \in Int /\ i \in Int
    BY <1>1, <1>2, <1>3
  <2>3. k + (i + 1) = k + 1 + i
    BY <2>a
  <2> QED
    BY <1>1, <1>5, <2>1, <2>2, <2>3
<1>9. Shape(grammar, spec', {}, k + 1)
  <2>1. k \in Nat
    BY <1>3, <1>1
  <2>2. HalfShape(grammar, InjectEntry(spec, grammar.embeds[k + 1]), k)
    BY <1>1, <1>3, <2>1, EntryShape
  <2>3. Shape(grammar, InjectExit(InjectEntry(spec, grammar.embeds[k + 1]), grammar.embeds[k + 1]), {}, k + 1)
    BY <1>1, <1>3, <2>1, <2>2, ExitsShape
  <2> QED
    BY <1>1, <1>7, <2>3
<1>10. Shape(grammar, spec, pending, Injected)'
  BY <1>1, <1>6, <1>9
<1>11. (Injected \in 0..Len(grammar.embeds))'
  BY <1>1, <1>2, <1>3, <1>6
<1>12. (\A i \in 1..Len(embeds) : embeds[i] = grammar.embeds[Injected + i])'
  BY <1>6, <1>8
<1>13. (embeds \in Seq({grammar.embeds[i] : i \in 1..Len(grammar.embeds)}))'
  BY <1>1, <1>5
<1> QED
  BY <1>1, <1>10, <1>11, <1>12, <1>13 DEF Compiling

LEMMA CompilingKept ==
  ASSUME Compiling, UNCHANGED <<grammar, spec, pending, embeds>>
  PROVE  Compiling'
<1>1. Injected' = Injected
  BY DEF Injected
<1>2. Shape(grammar, spec, pending, Injected)' = Shape(grammar, spec, pending, Injected)
  BY <1>1
<1> QED
  BY <1>1, <1>2 DEF Compiling

-----------------------------------------------------------------------------
(* The lexer: of a stack a rule keeps a prefix, and puts its states on it.  *)
Operation(rule, S) ==
  /\ rule.kind \in Kinds /\ rule.amount \in Int /\ rule.states \in Seq(S)
  /\ rule.kind \notin {"push", "set"} => rule.states = <<>>

AtLeastOne(n) == IF n < 1 THEN 1 ELSE n
Kept(st, rule) ==
  IF rule.kind = "pop" THEN AtLeastOne(Len(st) - Frames(rule.amount))
  ELSE IF rule.kind = "set" /\ rule.states # <<>> THEN AtLeastOne(Len(st) - 1)
  ELSE Len(st)

LEMMA PopFramesIs ==
  ASSUME NEW S, NEW st \in Seq(S), st # <<>>, NEW m \in Int
  PROVE  /\ AtLeastOne(Len(st) - Frames(m)) \in 1..Len(st)
         /\ PopFrames(st, m) = SubSeq(st, 1, AtLeastOne(Len(st) - Frames(m)))
<1>1. Len(st) \in Nat \ {0}
  BY EmptySeq
<1>2. Frames(m) \in Int /\ Frames(m) >= 1
  BY DEF Frames
<1>3. AtLeastOne(Len(st) - Frames(m)) \in 1..Len(st)
  BY <1>1, <1>2 DEF AtLeastOne
<1>4. AtLeastOne(Len(st) - Frames(m)) = IF Len(st) - Frames(m) < 1 THEN 1 ELSE Len(st) - Frames(m)
  BY DEF AtLeastOne
<1>5. PopFrames(st, m) = IF Len(st) - Frames(m) < 1 THEN SubSeq(st, 1, 1)
                         ELSE SubSeq(st, 1, Len(st) - Frames(m))
  BY DEF PopFrames
<1> QED
  BY <1>3, <1>4, <1>5

LEMMA PrefixIs ==
  ASSUME NEW S, NEW st \in Seq(S), NEW k \in 0..Len(st)
  PROVE  LET p == SubSeq(st, 1, k) IN p \in Seq(S) /\ Len(p) = k /\ \A i \in 1..k : p[i] = st[i]
BY SubSeqProperties

LEMMA AfterRuleIs ==
  ASSUME NEW S, NEW st \in Seq(S), st # <<>>, NEW rule, Operation(rule, S)
  PROVE  LET after == AfterRule(st, rule)
             m == Kept(st, rule)
         IN  /\ m \in 1..Len(st)
             /\ after \in Seq(S) /\ Len(after) = m + Len(rule.states)
             /\ \A i \in 1..m : after[i] = st[i]
             /\ \A i \in 1..Len(rule.states) : after[m + i] = rule.states[i]
<1> DEFINE m == Kept(st, rule)
           p == SubSeq(st, 1, m)
           ss == rule.states
<1>0. /\ rule.kind \in {"none", "push", "pop", "set"} /\ rule.amount \in Int /\ rule.states \in Seq(S)
      /\ rule.kind \notin {"push", "set"} => rule.states = <<>>
  BY DEF Operation, Kinds
<1>1. Len(st) \in Nat \ {0}
  OBVIOUS
<1>2. m \in 1..Len(st)
  <2>1. \A k \in Int : AtLeastOne(Len(st) - Frames(k)) \in 1..Len(st)
    BY PopFramesIs
  <2>2. AtLeastOne(Len(st) - 1) \in 1..Len(st)
    BY <1>1 DEF AtLeastOne
  <2>3. Len(st) \in 1..Len(st)
    BY <1>1
  <2>4. m \in {AtLeastOne(Len(st) - Frames(rule.amount)), AtLeastOne(Len(st) - 1), Len(st)}
    BY DEF Kept
  <2>5. AtLeastOne(Len(st) - Frames(rule.amount)) \in 1..Len(st)
    BY <1>0, <2>1
  <2> QED
    BY <2>2, <2>3, <2>4, <2>5
<1>3. p \in Seq(S) /\ Len(p) = m /\ \A i \in 1..m : p[i] = st[i]
  BY <1>1, <1>2, PrefixIs
<1>4. SubSeq(st, 1, Len(st)) = st
  <2> DEFINE q == SubSeq(st, 1, Len(st))
  <2>1. q \in Seq(S) /\ Len(q) = Len(st) /\ \A i \in 1..Len(st) : q[i] = st[i]
    BY <1>1, PrefixIs
  <2> HIDE DEF q
  <2>2. q = st
    BY <2>1, SeqEqual
  <2> QED
    BY <2>2 DEF q
<1>5. Frames(1) = 1
  BY DEF Frames
<1>6. AfterRule(st, rule) = p \o ss
  <2>1. CASE rule.kind = "none"
    <3>1. m = Len(st) /\ ss = <<>>
      BY <1>0, <2>1 DEF Kept
    <3>2. AfterRule(st, rule) = st
      BY <2>1 DEF AfterRule
    <3> QED
      BY <1>4, <3>1, <3>2, ConcatEmptySeq
  <2>2. CASE rule.kind = "push"
    <3>1. m = Len(st)
      BY <2>2 DEF Kept
    <3>2. AfterRule(st, rule) = st \o ss
      BY <2>2 DEF AfterRule
    <3> QED
      BY <1>4, <3>1, <3>2
  <2>3. CASE rule.kind = "pop"
    <3>1. m = AtLeastOne(Len(st) - Frames(rule.amount)) /\ ss = <<>>
      BY <1>0, <2>3 DEF Kept
    <3>2. AfterRule(st, rule) = PopFrames(st, rule.amount)
      BY <2>3 DEF AfterRule
    <3>3. AfterRule(st, rule) = p
      BY <1>0, <3>1, <3>2, PopFramesIs
    <3> QED
      BY <1>3, <3>1, <3>3, ConcatEmptySeq
  <2>4. CASE rule.kind = "set" /\ ss = <<>>
    <3>1. m = Len(st)
      BY <2>4 DEF Kept
    <3>2. AfterRule(st, rule) = st
      BY <2>4 DEF AfterRule
    <3> QED
      BY <1>4, <2>4, <3>1, <3>2, ConcatEmptySeq
  <2>5. CASE rule.kind = "set" /\ ss # <<>>
    <3>1. m = AtLeastOne(Len(st) - Frames(1))
      BY <1>5, <2>5 DEF Kept
    <3>2. AfterRule(st, rule) = PopFrames(st, 1) \o ss
      BY <2>5 DEF AfterRule
    <3>3. PopFrames(st, 1) = p
      BY <3>1, PopFramesIs
    <3> QED
      BY <3>2, <3>3
  <2> QED
    BY <1>0, <2>1, <2>2, <2>3, <2>4, <2>5
<1> HIDE DEF m, p, ss
<1>7. ss \in Seq(S) /\ Len(ss) \in Nat /\ m \in Nat
  BY <1>0, <1>1, <1>2 DEF ss
<1>8. /\ p \o ss \in Seq(S) /\ Len(p \o ss) = m + Len(ss)
      /\ \A i \in 1..(m + Len(ss)) : (p \o ss)[i] = IF i <= m THEN p[i] ELSE ss[i - m]
  BY <1>3, <1>7, ConcatProperties
<1> DEFINE after == p \o ss
<1> HIDE DEF after
<1>9. ASSUME NEW i \in 1..m PROVE after[i] = st[i]
  <2>1. i \in 1..(m + Len(ss)) /\ i <= m
    BY <1>7
  <2> QED
    BY <1>3, <1>8, <2>1 DEF after
<1>10. ASSUME NEW i \in 1..Len(ss) PROVE after[m + i] = ss[i]
  <2>1. m + i \in 1..(m + Len(ss)) /\ ~(m + i <= m) /\ (m + i) - m = i
    BY <1>7
  <2> QED
    BY <1>8, <2>1 DEF after
<1> QED
  BY <1>2, <1>6, <1>8, <1>9, <1>10 DEF m, ss, after

LEMMA ReferencesAre ==
  ASSUME NEW a, NEW S, NEW names \in Seq(S)
  PROVE  /\ References(a, names) \in Seq({Name(a, n) : n \in S})
         /\ Len(References(a, names)) = Len(names)
         /\ \A i \in 1..Len(names) : References(a, names)[i] = Name(a, names[i])
         /\ names = <<>> => References(a, names) = <<>>
<1> DEFINE r == References(a, names)
           T == {Name(a, n) : n \in S}
<1>1. Len(names) \in Nat /\ \A i \in 1..Len(names) : names[i] \in S
  OBVIOUS
<1>2. r = [i \in 1..Len(names) |-> Name(a, names[i])]
  BY DEF References
<1>3. \A i \in 1..Len(names) : Name(a, names[i]) \in T
  BY <1>1
<1> HIDE DEF r, T
<1>4. r \in [1..Len(names) -> T]
  BY <1>2, <1>3
<1>5. r \in Seq(T) /\ Len(r) = Len(names)
  BY <1>1, <1>2, <1>4
<1>6. \A i \in 1..Len(names) : r[i] = Name(a, names[i])
  BY <1>2
<1>7. names = <<>> => r = <<>>
  BY <1>5, EmptySeq
<1> QED
  BY <1>5, <1>6, <1>7 DEF r, T

-----------------------------------------------------------------------------
(* Inside a module: its modes are above those the host left for its        *)
(* return, the root mode is the lowest of them and is there once.          *)
Levels(lexer, level) ==
  /\ level \in [DOMAIN lexer -> 0..MaxModes]
  /\ level["INITIAL"] = 0
  /\ \A n \in DOMAIN lexer : \A rule \in lexer[n] :
       /\ rule.kind = "pop" => Frames(rule.amount) <= level[n]
       /\ rule.kind = "set" => 1 <= level[n]
       /\ \A i \in 1..Len(rule.states) :
            /\ rule.states[i] # "INITIAL"
            /\ level[rule.states[i]] <= level[n] + i - (IF rule.kind = "set" THEN 1 ELSE 0)

Both(g, a) == HostNames(g) \cup ModuleNames(g, a)

Above(g, a, level, depth, st) ==
  \A i \in (depth + 1)..Len(st) : \E n \in DOMAIN g.modules[a] :
    /\ st[i] = Name(a, n)
    /\ level[n] <= i - depth - 1
    /\ n = "INITIAL" <=> i = depth + 1

Within(g, a, back, st) ==
  /\ st \in Seq(Both(g, a)) /\ Len(st) > Len(back)
  /\ \A i \in 1..Len(back) : st[i] = back[i]
  /\ \E level : Levels(g.modules[a], level) /\ Above(g, a, level, Len(back), st)

(* Outside, the lexer is in modes of the host. *)
Held(g, st, ow) ==
  \/ ow = <<>> /\ st \in Seq(HostNames(g))
  \/ \E a \in DOMAIN g.modules : \E back \in Seq(HostNames(g)) :
       /\ back # <<>> /\ ow = <<[alias |-> a, back |-> back]>>
       /\ Within(g, a, back, st)

LEMMA ConstructedOperates ==
  ASSUME NEW a, NEW D, NEW w, LexRule(w, D)
  PROVE  /\ Constructed(a, w).kind = w.kind /\ Constructed(a, w).amount = w.amount
         /\ Constructed(a, w).states = References(a, w.states)
         /\ Constructed(a, w).token = Name(a, w.token)
         /\ Operation(Constructed(a, w), {Name(a, n) : n \in D})
<1> DEFINE r == Constructed(a, w)
<1>1. /\ r.kind = w.kind /\ r.amount = w.amount /\ r.states = References(a, w.states)
      /\ r.token = Name(a, w.token)
  BY ConstructedIs, FieldsAre
<1>2. /\ w.kind \in Kinds /\ w.amount \in Int /\ w.states \in Seq(D)
      /\ w.kind \notin {"push", "set"} => w.states = <<>>
  BY DEF LexRule
<1>3. References(a, w.states) \in Seq({Name(a, n) : n \in D}) /\ (w.states = <<>> => References(a, w.states) = <<>>)
  BY <1>2, ReferencesAre
<1> HIDE DEF r
<1>4. Operation(r, {Name(a, n) : n \in D})
  BY <1>1, <1>2, <1>3 DEF Operation
<1> QED
  BY <1>1, <1>4 DEF r

LEMMA ModuleStep ==
  ASSUME NEW g \in Grammars, NEW a \in DOMAIN g.modules, NEW back \in Seq(HostNames(g)),
         NEW st, Within(g, a, back, st), NEW n \in DOMAIN g.modules[a], st[Len(st)] = Name(a, n),
         NEW rule, OwnRule(g, rule, a, n)
  PROVE  Within(g, a, back, AfterRule(st, rule))
<1> DEFINE d == Len(back)
           lexer == g.modules[a]
           after == AfterRule(st, rule)
           m == Kept(st, rule)
           S == Both(g, a)
<1>1. PICK level : Levels(lexer, level) /\ Above(g, a, level, d, st)
  BY DEF Within
<1>2. d \in Nat /\ st \in Seq(S) /\ Len(st) \in Nat /\ Len(st) > d /\ st # <<>>
      /\ \A i \in 1..d : st[i] = back[i]
  BY DEF Within
<1>3. PICK w \in lexer[n] : rule = Constructed(a, w)
  BY DEF OwnRule
<1>4. LexRule(w, DOMAIN lexer)
  BY LanguageOf
<1>5. /\ rule.kind = w.kind /\ rule.amount = w.amount /\ rule.states = References(a, w.states)
      /\ Operation(rule, ModuleNames(g, a))
  <2> DEFINE D == DOMAIN lexer
  <2>1. LexRule(w, D)
    BY <1>4
  <2> HIDE DEF D
  <2>2. /\ Constructed(a, w).kind = w.kind /\ Constructed(a, w).amount = w.amount
        /\ Constructed(a, w).states = References(a, w.states)
        /\ Operation(Constructed(a, w), {Name(a, x) : x \in D})
    BY <2>1, ConstructedOperates
  <2>3. ModuleNames(g, a) = {Name(a, x) : x \in D}
    BY DEF ModuleNames, D
  <2> QED
    BY <1>3, <2>2, <2>3
<1>6. /\ w.kind \in {"none", "push", "pop", "set"} /\ w.amount \in Int /\ w.states \in Seq(DOMAIN lexer)
      /\ w.kind \notin {"push", "set"} => w.states = <<>>
  BY <1>4 DEF LexRule, Kinds
<1>7. /\ Len(rule.states) = Len(w.states) /\ Len(w.states) \in Nat
      /\ \A i \in 1..Len(w.states) : rule.states[i] = Name(a, w.states[i]) /\ w.states[i] \in DOMAIN lexer
  <2> DEFINE ws == w.states
             D == DOMAIN lexer
  <2>1. ws \in Seq(D) /\ rule.states = References(a, ws)
    BY <1>5, <1>6
  <2> HIDE DEF ws, D
  <2>2. Len(References(a, ws)) = Len(ws) /\ \A i \in 1..Len(ws) : References(a, ws)[i] = Name(a, ws[i])
    BY <2>1, ReferencesAre
  <2>3. Len(ws) \in Nat /\ \A i \in 1..Len(ws) : ws[i] \in D
    BY <2>1
  <2> QED
    BY <2>1, <2>2, <2>3 DEF ws, D
<1>8. Operation(rule, S)
  <2>1. rule.states \in Seq(ModuleNames(g, a))
    BY <1>5 DEF Operation
  <2>2. rule.states \in Seq(S)
    BY <2>1 DEF Both
  <2> QED
    BY <1>5, <2>2 DEF Operation
<1>9. /\ m \in 1..Len(st) /\ after \in Seq(S) /\ Len(after) = m + Len(w.states)
      /\ \A i \in 1..m : after[i] = st[i]
      /\ \A i \in 1..Len(w.states) : after[m + i] = rule.states[i]
  <2> HIDE DEF S
  <2>1. st \in Seq(S) /\ st # <<>> /\ Operation(rule, S)
    BY <1>2, <1>8
  <2>2. /\ m \in 1..Len(st) /\ after \in Seq(S) /\ Len(after) = m + Len(rule.states)
        /\ \A i \in 1..m : after[i] = st[i]
        /\ \A i \in 1..Len(rule.states) : after[m + i] = rule.states[i]
    BY <2>1, AfterRuleIs
  <2> HIDE DEF m, after
  <2> QED
    BY <1>7, <2>2
<1>10. /\ level \in [DOMAIN lexer -> 0..MaxModes]
       /\ level["INITIAL"] = 0
       /\ w.kind = "pop" => Frames(w.amount) <= level[n]
       /\ w.kind = "set" => 1 <= level[n]
       /\ \A i \in 1..Len(w.states) :
            /\ w.states[i] # "INITIAL"
            /\ level[w.states[i]] <= level[n] + i - (IF w.kind = "set" THEN 1 ELSE 0)
  BY <1>1, <1>3 DEF Levels
<1>11. MaxModes \in Nat
  BY EmbedLexerAssumption
<1>12. \A x \in DOMAIN lexer : level[x] \in Nat
  BY <1>10, <1>11
<1>13. level[n] <= Len(st) - d - 1
  <2>1. PICK x \in DOMAIN lexer : st[Len(st)] = Name(a, x) /\ level[x] <= Len(st) - d - 1
    BY <1>1, <1>2 DEF Above
  <2>2. x = n
    BY <2>1 DEF Name
  <2> QED
    BY <2>1, <2>2
<1> DEFINE sub == IF w.kind = "set" THEN 1 ELSE 0
<1>14. m >= d + 1 /\ (w.states # <<>> => m + sub = Len(st))
  <2>1. CASE w.kind = "none" \/ w.kind = "push"
    <3>1. m = Len(st)
      BY <1>5, <2>1 DEF Kept
    <3> QED
      BY <1>2, <2>1, <3>1
  <2>2. CASE w.kind = "pop"
    <3>1. m = AtLeastOne(Len(st) - Frames(w.amount))
      BY <1>5, <2>2 DEF Kept
    <3>2. Frames(w.amount) \in Int
      BY <1>6 DEF Frames
    <3>3. Len(st) - Frames(w.amount) >= d + 1
      BY <1>2, <1>10, <1>12, <1>13, <2>2, <3>2
    <3> QED
      BY <1>2, <1>6, <2>2, <3>1, <3>2, <3>3 DEF AtLeastOne
  <2>3. CASE w.kind = "set" /\ w.states = <<>>
    <3>1. rule.states = <<>>
      BY <1>5, <1>6, <2>3, ReferencesAre
    <3>2. m = Len(st)
      BY <1>5, <2>3, <3>1 DEF Kept
    <3> QED
      BY <1>2, <2>3, <3>2
  <2>4. CASE w.kind = "set" /\ w.states # <<>>
    <3>1. rule.states # <<>>
      BY <1>6, <1>7, <2>4
    <3>2. m = AtLeastOne(Len(st) - 1)
      BY <1>5, <2>4, <3>1 DEF Kept
    <3>3. Len(st) - 1 >= d + 1
      BY <1>2, <1>10, <1>12, <1>13, <2>4
    <3> QED
      BY <1>2, <2>4, <3>2, <3>3 DEF AtLeastOne
  <2> QED
    BY <1>6, <2>1, <2>2, <2>3, <2>4
<1> HIDE DEF m, after, d, lexer, S
<1>15. Len(after) > d
  BY <1>2, <1>7, <1>9, <1>14
<1>16. ASSUME NEW i \in 1..d PROVE after[i] = back[i]
  <2>1. i \in 1..m
    BY <1>2, <1>9, <1>14
  <2> QED
    BY <1>2, <1>9, <2>1
<1>17. ASSUME NEW i \in (d + 1)..Len(after)
       PROVE  \E x \in DOMAIN lexer :
                after[i] = Name(a, x) /\ level[x] <= i - d - 1 /\ (x = "INITIAL" <=> i = d + 1)
  <2>1. CASE i <= m
    <3>1. i \in 1..m /\ i \in (d + 1)..Len(st)
      BY <1>2, <1>9, <1>17, <2>1
    <3> QED
      BY <1>1, <1>9, <3>1 DEF Above, lexer
  <2>2. CASE ~(i <= m)
    <3> DEFINE j == i - m
    <3>1. j \in 1..Len(w.states) /\ m + j = i /\ i \in Int /\ m \in Int /\ d \in Int
      BY <1>2, <1>7, <1>9, <1>17, <2>2
    <3> HIDE DEF j
    <3>2. after[i] = Name(a, w.states[j]) /\ w.states[j] \in DOMAIN lexer
      BY <1>7, <1>9, <3>1
    <3>3. w.states[j] # "INITIAL" /\ level[w.states[j]] <= level[n] + j - sub
      BY <1>10, <3>1
    <3>4. m + sub = Len(st)
      BY <1>7, <1>14, <3>1
    <3>5. level[w.states[j]] \in Int /\ level[n] \in Int /\ sub \in Int /\ j \in Int
      BY <1>12, <3>1, <3>2 DEF lexer
    <3> HIDE DEF sub
    <3>6. level[w.states[j]] <= i - d - 1
      BY <1>2, <1>13, <3>1, <3>3, <3>4, <3>5
    <3>7. i # d + 1
      BY <1>2, <1>14, <2>2, <3>1
    <3> QED
      BY <3>2, <3>3, <3>6, <3>7
  <2> QED
    BY <2>1, <2>2
<1>18. Above(g, a, level, d, after)
  BY <1>17 DEF Above, lexer
<1>19. Within(g, a, back, after)
  BY <1>1, <1>9, <1>15, <1>16, <1>18 DEF Within, d, lexer, S
<1> QED
  BY <1>19 DEF after

LEMMA HostStep ==
  ASSUME NEW g \in Grammars, NEW st \in Seq(HostNames(g)), st # <<>>,
         NEW n \in DOMAIN g.host, NEW w \in g.host[n]
  PROVE  /\ AfterRule(st, Constructed(Host, w)) \in Seq(HostNames(g))
         /\ AfterRule(st, Constructed(Host, w)) # <<>>
<1> DEFINE r == Constructed(Host, w)
           after == AfterRule(st, r)
           S == HostNames(g)
           m == Kept(st, r)
<1>1. Operation(r, S)
  BY LanguageOf, ConstructedOperates DEF HostNames
<1> HIDE DEF r, S
<1>2. m \in 1..Len(st) /\ after \in Seq(S) /\ Len(after) = m + Len(r.states)
  BY <1>1, AfterRuleIs DEF S
<1>3. Len(r.states) \in Nat /\ Len(st) \in Nat
  BY <1>1 DEF Operation
<1> HIDE DEF after, m
<1>4. Len(after) # 0
  BY <1>2, <1>3
<1>5. after # <<>>
  BY <1>2, <1>4
<1> QED
  BY <1>2, <1>5 DEF after, r, S

(* The open token puts the root mode of the module on the modes that the   *)
(* rule the host has written for it would leave.                           *)
LEMMA EntryStep ==
  ASSUME NEW g \in Grammars, HandsOver(g),
         NEW st \in Seq(HostNames(g)), st # <<>>,
         NEW n \in DOMAIN g.host, NEW w \in g.host[n], NEW i \in 1..Len(g.embeds), w.token = g.embeds[i].open,
         NEW rule, rule = Fields(Name(Host, w.token), w.pattern, w.priority, "push",
                                 Append(References(Host, w.states), Root(g.embeds[i].alias)), w.amount),
         NEW o \in DOMAIN g.host, NEW v \in g.host[o], v.token = w.token
  PROVE  LET back == AfterRule(st, Constructed(Host, v))
             a    == g.embeds[i].alias
         IN  /\ a \in DOMAIN g.modules /\ back \in Seq(HostNames(g)) /\ back # <<>>
             /\ Within(g, a, back, AfterRule(st, rule))
<1> DEFINE back == AfterRule(st, Constructed(Host, v))
           a == g.embeds[i].alias
           refs == References(Host, w.states)
           S == HostNames(g)
           after == AfterRule(st, rule)
<1>1. a \in DOMAIN g.modules
  BY LanguageOf DEF Language
<1>2. back \in Seq(S) /\ back # <<>>
  BY HostStep
<1>3. w.kind \in {"none", "push"} /\ v.kind = w.kind /\ v.states = w.states
  BY LanguageOf DEF HandsOver, OpensEnter, ValidLexer
<1>4. LexRule(w, DOMAIN g.host) /\ LexRule(v, DOMAIN g.host)
  BY LanguageOf
<1>5. w.states \in Seq(DOMAIN g.host) /\ (w.kind = "none" => w.states = <<>>)
  BY <1>4 DEF LexRule
<1>6. refs \in Seq(S) /\ (w.states = <<>> => refs = <<>>)
  <2> DEFINE ws == w.states
             D == DOMAIN g.host
  <2>1. ws \in Seq(D)
    BY <1>5
  <2> HIDE DEF ws, D
  <2>2. References(Host, ws) \in Seq({Name(Host, x) : x \in D}) /\ (ws = <<>> => References(Host, ws) = <<>>)
    BY <2>1, ReferencesAre
  <2> QED
    BY <2>2 DEF ws, D, HostNames
<1>7. back = st \o refs
  <2>1. Constructed(Host, v).kind = w.kind /\ Constructed(Host, v).states = refs
    <3> DEFINE D == DOMAIN g.host
    <3>1. LexRule(v, D)
      BY <1>4
    <3> HIDE DEF D
    <3>2. Constructed(Host, v).kind = v.kind /\ Constructed(Host, v).states = References(Host, v.states)
      BY <3>1, ConstructedOperates
    <3> QED
      BY <1>3, <3>2
  <2>2. CASE w.kind = "push"
    BY <2>1, <2>2 DEF AfterRule
  <2>3. CASE w.kind = "none"
    <3>1. back = st
      BY <2>1, <2>3 DEF AfterRule
    <3>2. refs = <<>>
      BY <1>5, <1>6, <2>3
    <3> HIDE DEF refs, back, S
    <3>3. st \o <<>> = st
      BY ConcatEmptySeq
    <3> QED
      BY <3>1, <3>2, <3>3
  <2> QED
    BY <1>3, <2>2, <2>3
<1>8. rule.kind = "push" /\ rule.states = Append(refs, Root(a))
  <2> DEFINE y == Append(refs, Root(a))
  <2>1. rule = Fields(Name(Host, w.token), w.pattern, w.priority, "push", y, w.amount)
    OBVIOUS
  <2> HIDE DEF y
  <2>2. rule.kind = "push" /\ rule.states = y
    BY <2>1, FieldsAre
  <2> QED
    BY <2>2 DEF y
<1>9. after = st \o Append(refs, Root(a))
  BY <1>8 DEF AfterRule
<1>10. Root(a) \in ModuleNames(g, a) /\ "INITIAL" \in DOMAIN g.modules[a]
  BY <1>1 DEF HandsOver, KeepsRoot, ModuleNames, Root
<1> DEFINE T == Both(g, a)
           x == Root(a)
<1>11. st \in Seq(T) /\ refs \in Seq(T) /\ back \in Seq(T) /\ x \in T
  <2>1. \A q \in Seq(S) : q \in Seq(T)
    BY DEF Both
  <2>2. x \in T
    BY <1>10 DEF Both
  <2> QED
    BY <1>2, <1>6, <2>1, <2>2
<1>12. after = Append(back, x)
  <2> HIDE DEF refs, back, T, x, after, a
  <2>1. <<x>> \in Seq(T)
    BY <1>11
  <2>2. Append(refs, x) = refs \o <<x>>
    BY <1>11, AppendIsConcat
  <2>3. Append(back, x) = back \o <<x>>
    BY <1>11, AppendIsConcat
  <2>4. (st \o refs) \o <<x>> = st \o (refs \o <<x>>)
    BY <1>11, <2>1, ConcatAssociative
  <2>5. after = st \o Append(refs, x)
    BY <1>9 DEF x, refs, a
  <2> QED
    BY <1>7, <2>2, <2>3, <2>4, <2>5
<1>13. /\ after \in Seq(T) /\ Len(after) = Len(back) + 1 /\ Len(back) \in Nat
       /\ \A j \in 1..Len(back) : after[j] = back[j]
       /\ after[Len(back) + 1] = x
  <2> HIDE DEF back, T, x, after
  <2> QED
    BY <1>11, <1>12, AppendProperties
<1> HIDE DEF back, after, a, x, T
<1>14. PICK level : Levels(g.modules[a], level)
  BY <1>1 DEF HandsOver, KeepsRoot, Levels
<1>15. Above(g, a, level, Len(back), after)
  <2> SUFFICES ASSUME NEW j \in (Len(back) + 1)..Len(after)
               PROVE  \E y \in DOMAIN g.modules[a] :
                        /\ after[j] = Name(a, y) /\ level[y] <= j - Len(back) - 1
                        /\ y = "INITIAL" <=> j = Len(back) + 1
    BY DEF Above
  <2>1. j = Len(back) + 1 /\ j - Len(back) - 1 = 0
    BY <1>13
  <2>2. after[j] = Name(a, "INITIAL") /\ level["INITIAL"] = 0
    BY <1>13, <1>14, <2>1 DEF x, Root, Levels
  <2> QED
    BY <1>10, <2>1, <2>2
<1>16. Within(g, a, back, after)
  BY <1>13, <1>14, <1>15 DEF Within, T
<1> QED
  BY <1>1, <1>2, <1>16 DEF back, after, a

LEMMA ExitStep ==
  ASSUME NEW S, NEW st \in Seq(S), NEW T, NEW back \in Seq(T), back # <<>>, Len(st) = Len(back) + 1,
         \A i \in 1..Len(back) : st[i] = back[i], NEW rule, rule.kind = "pop", rule.amount = 1
  PROVE  AfterRule(st, rule) = back
<1>1. AfterRule(st, rule) = PopFrames(st, 1)
  BY DEF AfterRule
<1>2. Len(back) \in Nat \ {0} /\ Len(st) \in Nat /\ st # <<>>
  OBVIOUS
<1>3. Frames(1) = 1
  BY DEF Frames
<1>4. AtLeastOne(Len(st) - 1) = Len(back)
  BY <1>2 DEF AtLeastOne
<1>5. PopFrames(st, 1) = SubSeq(st, 1, Len(back))
  <2>0. \A m \in Int : PopFrames(st, m) = SubSeq(st, 1, AtLeastOne(Len(st) - Frames(m)))
    BY <1>2, PopFramesIs
  <2>1. PopFrames(st, 1) = SubSeq(st, 1, AtLeastOne(Len(st) - Frames(1)))
    BY <2>0
  <2> QED
    BY <1>3, <1>4, <2>1
<1> DEFINE p == SubSeq(st, 1, Len(back))
<1>6. p \in Seq(S) /\ Len(p) = Len(back) /\ \A i \in 1..Len(back) : p[i] = st[i]
  <2>1. Len(back) \in 0..Len(st)
    BY <1>2
  <2> QED
    BY <2>1, PrefixIs
<1> HIDE DEF p
<1>7. p = back
  BY <1>6, SeqEqual
<1> QED
  BY <1>1, <1>5, <1>7 DEF p

-----------------------------------------------------------------------------
(* The step of the lexer.                                                   *)
Running ==
  /\ stack # <<>> => pending = {} /\ embeds = <<>>
  /\ Held(grammar, stack, owed)

LEMMA SpecIs ==
  ASSUME Compiling, Running, stack # <<>>
  PROVE  /\ grammar \in Grammars /\ Len(grammar.embeds) \in Nat
         /\ Shape(grammar, spec, {}, Len(grammar.embeds))
<1>1. grammar \in Grammars
  BY DEF Compiling
<1>2. Len(grammar.embeds) \in Nat
  BY <1>1, LanguageOf DEF Language
<1>3. pending = {} /\ embeds = <<>>
  BY DEF Running
<1>4. Injected = Len(grammar.embeds)
  BY <1>2, <1>3 DEF Injected
<1> QED
  BY <1>1, <1>2, <1>3, <1>4 DEF Compiling

(* The rule that the host has written for the token of a rule of its lexer. *)
LEMMA WrittenIs ==
  ASSUME Compiling, Running, stack # <<>>,
         NEW n \in DOMAIN grammar.host, NEW w \in grammar.host[n], NEW rule, rule.token = Name(Host, w.token)
  PROVE  \E o \in DOMAIN grammar.host : \E v \in grammar.host[o] :
           v.token = w.token /\ Written(rule) = Constructed(Host, v)
<1> DEFINE g == grammar
           All == UNION {Compiled(Host, g.host)[s] : s \in HostStates}
<1>1. g \in Grammars /\ DOMAIN spec = HostNames(g) \cup UNION {ModuleNames(g, a) : a \in DOMAIN g.modules}
  BY SpecIs DEF Shape
<1>2. ASSUME NEW s \in HostStates PROVE s \in HostNames(g)
  <2>1. s \in DOMAIN spec /\ s[1] = Host
    BY DEF HostStates
  <2>2. ASSUME NEW a \in DOMAIN g.modules PROVE s \notin ModuleNames(g, a)
    <3>1. a # Host
      BY <1>1, LanguageOf
    <3> QED
      BY <2>1, <3>1, NamesDiffer DEF ModuleNames
  <2> QED
    BY <1>1, <2>1, <2>2
<1>3. Name(Host, n) \in HostStates
  <2>1. Name(Host, n) \in DOMAIN spec
    BY <1>1 DEF HostNames
  <2> QED
    BY <2>1, NamesDiffer DEF HostStates
<1>4. Constructed(Host, w) \in All
  <2>1. Constructed(Host, w) \in Compiled(Host, g.host)[Name(Host, n)]
    BY CompiledHas
  <2> QED
    BY <1>3, <2>1
<1>5. Constructed(Host, w).token = rule.token
  BY <1>1, LanguageOf, ConstructedOperates
<1>6. Written(rule) \in All /\ Written(rule).token = rule.token
  BY <1>4, <1>5 DEF Written
<1>7. PICK s \in HostStates : Written(rule) \in Compiled(Host, g.host)[s]
  BY <1>6
<1>8. PICK o \in DOMAIN g.host : s = Name(Host, o)
  BY <1>2 DEF HostNames
<1>9. PICK v \in g.host[o] : Written(rule) = Constructed(Host, v)
  BY <1>7, <1>8, CompiledHas
<1>10. Written(rule).token = Name(Host, v.token)
  BY <1>1, <1>9, LanguageOf, ConstructedOperates
<1>11. v.token = w.token
  BY <1>6, <1>10 DEF Name
<1> QED
  BY <1>9, <1>11

LEMMA LexStep ==
  ASSUME Compiling, Running, HandsOver(grammar), NEW text, LexToken(text)
  PROVE  /\ Held(grammar, stack', owed')
         /\ Len(owed') < Len(owed) => stack' = Innermost.back
<1> DEFINE g == grammar
           K == Len(grammar.embeds)
           top == TopMode(stack)
           S == HostNames(g)
<1>1. stack # <<>>
  BY DEF LexToken
<1>2. g \in Grammars /\ K \in Nat /\ Shape(g, spec, {}, K)
  BY <1>1, SpecIs
<1>3. PICK rule \in Winners(top, text) :
        /\ stack' = AfterRule(stack, rule)
        /\ owed' = IF ClosesEmbed(rule) THEN SubSeq(owed, 1, Len(owed) - 1)
                   ELSE IF OpensEmbed(rule)
                   THEN Append(owed, [alias |-> EmbedOpenedBy(rule).alias,
                                      back  |-> AfterRule(stack, Written(rule))])
                   ELSE owed
  BY DEF LexToken
<1>4. rule \in spec[top]
  BY DEF Winners, Matching
<1>5. Held(g, stack, owed)
  BY DEF Running
<1>6. CASE owed = <<>>
  <2>1. stack \in Seq(S)
    BY <1>5, <1>6 DEF Held
  <2>2. top \in S
    BY <1>1, <2>1 DEF TopMode
  <2>3. PICK n \in DOMAIN g.host : top = Name(Host, n)
    BY <2>2 DEF HostNames
  <2>4. HostRule(g, rule, n, K)
    BY <1>2, <1>4, <2>3 DEF Shape, HostShape
  <2>5. PICK w \in g.host[n] : PlainRule(g, rule, w, K) \/ EntryRule(g, rule, w, K)
    BY <2>4 DEF HostRule
  <2>6. ~ClosesEmbed(rule)
    BY <2>3, NamesDiffer DEF ClosesEmbed
  <2>7. CASE PlainRule(g, rule, w, K)
    <3>1. rule = Constructed(Host, w) /\ \A i \in 1..K : w.token # g.embeds[i].open
      BY <2>7 DEF PlainRule
    <3>2. rule.token = Name(Host, w.token)
      BY <1>2, <3>1, LanguageOf, ConstructedOperates
    <3>3. ~OpensEmbed(rule)
      BY <3>1, <3>2 DEF OpensEmbed, Name
    <3>4. owed' = <<>>
      BY <1>3, <1>6, <2>6, <3>3
    <3>5. stack' \in Seq(S)
      BY <1>1, <1>2, <1>3, <2>1, <3>1, HostStep
    <3>6. Held(g, stack', owed')
      BY <3>4, <3>5 DEF Held
    <3> QED
      BY <1>6, <3>4, <3>6
  <2>8. CASE EntryRule(g, rule, w, K)
    <3>1. PICK i \in 1..K :
            /\ w.token = g.embeds[i].open
            /\ rule = Fields(Name(Host, w.token), w.pattern, w.priority, "push",
                             Append(References(Host, w.states), Root(g.embeds[i].alias)), w.amount)
      BY <2>8 DEF EntryRule
    <3>2. rule.token = Name(Host, g.embeds[i].open) /\ rule.token = Name(Host, w.token)
      BY <3>1, FieldsAre
    <3>3. OpensEmbed(rule)
      BY <3>2 DEF OpensEmbed
    <3>4. EmbedOpenedBy(rule) = g.embeds[i]
      <4>1. \A j \in 1..K : rule.token = Name(Host, g.embeds[j].open) => j = i
        BY <3>2 DEF HandsOver, OpensEnter, Name
      <4> QED
        BY <3>2, <4>1 DEF EmbedOpenedBy
    <3>5. PICK o \in DOMAIN g.host : \E v \in g.host[o] :
            v.token = w.token /\ Written(rule) = Constructed(Host, v)
      BY <1>1, <3>2, WrittenIs
    <3>6. PICK v \in g.host[o] : v.token = w.token /\ Written(rule) = Constructed(Host, v)
      BY <3>5
    <3> DEFINE a == g.embeds[i].alias
               back == AfterRule(stack, Written(rule))
    <3>7. a \in DOMAIN g.modules /\ back \in Seq(S) /\ back # <<>> /\ Within(g, a, back, AfterRule(stack, rule))
      BY <1>1, <1>2, <2>1, <3>1, <3>6, EntryStep
    <3>8. owed' = Append(owed, [alias |-> a, back |-> back])
      BY <1>3, <2>6, <3>3, <3>4
    <3> HIDE DEF a, back
    <3>9. owed' = <<[alias |-> a, back |-> back]>>
      BY <1>6, <3>8
    <3>10. Held(g, stack', owed')
      BY <1>3, <3>7, <3>9 DEF Held
    <3>11. Len(owed) = 0 /\ Len(owed') = 1
      BY <1>6, <3>9
    <3> QED
      BY <3>10, <3>11
  <2> QED
    BY <2>5, <2>7, <2>8
<1>7. CASE owed # <<>>
  <2>1. PICK a \in DOMAIN g.modules, back \in Seq(S) :
          back # <<>> /\ owed = <<[alias |-> a, back |-> back]>> /\ Within(g, a, back, stack)
    BY <1>5, <1>7 DEF Held
  <2>2. /\ stack \in Seq(Both(g, a)) /\ Len(stack) > Len(back) /\ Len(stack) \in Nat /\ Len(back) \in Nat
        /\ \A i \in 1..Len(back) : stack[i] = back[i]
    BY <2>1 DEF Within
  <2>3. PICK level : Above(g, a, level, Len(back), stack)
    BY <2>1 DEF Within
  <2>4. Len(stack) \in (Len(back) + 1)..Len(stack)
    BY <2>2
  <2>5. PICK n \in DOMAIN g.modules[a] : stack[Len(stack)] = Name(a, n) /\ (n = "INITIAL" <=> Len(stack) = Len(back) + 1)
    BY <2>3, <2>4 DEF Above
  <2>6. a # Host
    BY <1>2, LanguageOf
  <2>7. top = Name(a, n) /\ top[1] # Host
    BY <2>5, <2>6, NamesDiffer DEF TopMode
  <2>8. OwnRule(g, rule, a, n) \/ (n = "INITIAL" /\ ExitRule(g, rule, a, K))
    BY <1>2, <1>4, <2>7 DEF Shape, ModuleShape
  <2>9. CASE OwnRule(g, rule, a, n)
    <3>1. rule.token[1] # Host
      BY <1>2, <2>9, OwnRuleIs
    <3>2. ~ClosesEmbed(rule)
      BY <3>1 DEF ClosesEmbed
    <3>3. ~OpensEmbed(rule)
      BY <3>1, NamesDiffer DEF OpensEmbed
    <3>4. owed' = owed
      BY <1>3, <3>2, <3>3
    <3>5. Within(g, a, back, AfterRule(stack, rule))
      BY <1>2, <2>1, <2>5, <2>9, ModuleStep
    <3>6. Held(g, stack', owed')
      BY <1>3, <2>1, <3>4, <3>5 DEF Held
    <3>7. Len(owed') = 1 /\ Len(owed) = 1
      BY <2>1, <3>4
    <3> QED
      BY <3>6, <3>7
  <2>10. CASE n = "INITIAL" /\ ExitRule(g, rule, a, K)
    <3>1. PICK i \in 1..K : ExitFor(g, rule, g.embeds[i])
      BY <2>10 DEF ExitRule
    <3>2. rule.token = Name(Host, g.embeds[i].close) /\ rule.kind = "pop" /\ rule.amount = 1
      BY <3>1, ExitForIs
    <3>3. ClosesEmbed(rule)
      BY <2>7, <3>2, NamesDiffer DEF ClosesEmbed
    <3>4. Len(owed) = 1 /\ Len(owed) - 1 = 0 /\ Innermost.back = back
      BY <2>1 DEF Innermost
    <3>5. owed' = <<>>
      BY <1>3, <3>3, <3>4
    <3>6. Len(stack) = Len(back) + 1
      BY <2>5, <2>10
    <3>7. stack' = back
      BY <1>3, <2>1, <2>2, <3>2, <3>6, ExitStep
    <3>8. Held(g, stack', owed')
      BY <2>1, <3>5, <3>7 DEF Held
    <3> QED
      BY <3>4, <3>7, <3>8
  <2> QED
    BY <2>8, <2>9, <2>10
<1> QED
  BY <1>6, <1>7

LEMMA RunningInit == Init => Running
<1> SUFFICES ASSUME Init PROVE Running
  OBVIOUS
<1>1. <<>> \in Seq(HostNames(grammar))
  OBVIOUS
<1> QED
  BY <1>1 DEF Init, Running, Held

LEMMA BeginRunning ==
  ASSUME Compiling, Running, Begin
  PROVE  Running'
<1>1. grammar \in Grammars /\ grammar' = grammar /\ owed' = owed /\ stack = <<>> /\ stack' = <<Root(Host)>>
      /\ pending' = {} /\ embeds' = <<>>
  BY DEF Begin, Compiling
<1>2. owed = <<>>
  <2>1. ASSUME NEW a \in DOMAIN grammar.modules, NEW back \in Seq(HostNames(grammar)),
               Within(grammar, a, back, stack)
        PROVE  FALSE
    <3>1. Len(stack) > Len(back) /\ Len(back) \in Nat
      BY <2>1 DEF Within
    <3>2. Len(stack) = 0
      BY <1>1
    <3> QED
      BY <3>1, <3>2
  <2> QED
    BY <2>1 DEF Running, Held
<1>3. Root(Host) \in HostNames(grammar)
  BY <1>1, LanguageOf DEF Language, Root, HostNames
<1>4. stack' \in Seq(HostNames(grammar))
  BY <1>1, <1>3
<1>5. Held(grammar, stack', owed')
  BY <1>1, <1>2, <1>4 DEF Held
<1> QED
  BY <1>1, <1>5 DEF Running

(* A step keeps the invariant, and a handoff that ends returns. *)
LEMMA Step ==
  ASSUME Compiling, Running, HandsOver(grammar), [Next]_vars
  PROVE  /\ Compiling' /\ Running'
         /\ Len(owed') < Len(owed) => stack' = Innermost.back
<1>0. Held(grammar, stack, owed)
  BY DEF Running
<1>1. ASSUME NEW n, owed' = owed, Len(owed) = n PROVE ~(Len(owed') < Len(owed))
  <2>1. Len(owed) \in Nat
    BY <1>0 DEF Held
  <2> QED
    BY <1>1, <2>1
<1>2. ASSUME NEW alias \in Aliases, CompileModule(alias) PROVE Compiling' /\ Running'
  <2>1. stack' = <<>> /\ grammar' = grammar /\ owed' = owed /\ stack' = stack
    BY <1>2 DEF CompileModule, Running
  <2>2. Running'
    BY <1>0, <2>1 DEF Running
  <2> QED
    BY <1>2, <2>2, ModuleCompiling
<1>3. ASSUME InjectHandoff PROVE Compiling' /\ Running'
  <2>1. stack' = <<>> /\ grammar' = grammar /\ owed' = owed /\ stack' = stack
    BY <1>3 DEF InjectHandoff, Running
  <2>2. Running'
    BY <1>0, <2>1 DEF Running
  <2> QED
    BY <1>3, <2>2, HandoffCompiling
<1>4. ASSUME Begin PROVE Compiling' /\ Running'
  <2>1. UNCHANGED <<grammar, spec, pending, embeds>>
    BY <1>4 DEF Begin
  <2> QED
    BY <1>4, <2>1, BeginRunning, CompilingKept
<1>5. ASSUME NEW text, LexToken(text)
      PROVE  Compiling' /\ Running' /\ (Len(owed') < Len(owed) => stack' = Innermost.back)
  <2>1. UNCHANGED <<grammar, spec, pending, embeds>> /\ stack # <<>>
    BY <1>5 DEF LexToken
  <2>2. Held(grammar, stack', owed') /\ (Len(owed') < Len(owed) => stack' = Innermost.back)
    BY <1>5, LexStep
  <2>3. Running'
    BY <2>1, <2>2 DEF Running
  <2> QED
    BY <2>1, <2>2, <2>3, CompilingKept
<1>6. CASE UNCHANGED vars
  <2>1. UNCHANGED <<grammar, spec, pending, embeds>> /\ stack' = stack /\ owed' = owed
    BY <1>6 DEF vars
  <2>2. Running'
    BY <1>0, <2>1 DEF Running
  <2> QED
    BY <1>1, <2>1, <2>2, CompilingKept
<1>7. CASE Next
  <2>1. CASE \E alias \in Aliases : CompileModule(alias)
    <3>1. owed' = owed
      BY <2>1 DEF CompileModule
    <3> QED
      BY <1>1, <1>2, <2>1, <3>1
  <2>2. CASE InjectHandoff
    <3>1. owed' = owed
      BY <2>2 DEF InjectHandoff
    <3> QED
      BY <1>1, <1>3, <2>2, <3>1
  <2>3. CASE Begin
    <3>1. owed' = owed
      BY <2>3 DEF Begin
    <3> QED
      BY <1>1, <1>4, <2>3, <3>1
  <2>4. CASE \E text \in Texts : LexToken(text)
    BY <1>5, <2>4
  <2> QED
    BY <1>7, <2>1, <2>2, <2>3, <2>4 DEF Next
<1> QED
  BY <1>6, <1>7

LEMMA HeldIsInside ==
  ASSUME Running
  PROVE  OwnershipInside
<1> SUFFICES ASSUME owed # <<>>
             PROVE  LET depth == Len(Innermost.back) IN
                      /\ Len(stack) > depth
                      /\ SubSeq(stack, 1, depth) = Innermost.back
                      /\ \A i \in (depth + 1)..Len(stack) : stack[i][1] = Innermost.alias
  BY DEF OwnershipInside
<1>1. PICK a \in DOMAIN grammar.modules, back \in Seq(HostNames(grammar)) :
        owed = <<[alias |-> a, back |-> back]>> /\ Within(grammar, a, back, stack)
  BY DEF Running, Held
<1>2. Innermost.alias = a /\ Innermost.back = back
  BY <1>1 DEF Innermost
<1>3. /\ stack \in Seq(Both(grammar, a)) /\ Len(stack) > Len(back) /\ Len(back) \in Nat /\ Len(stack) \in Nat
      /\ \A i \in 1..Len(back) : stack[i] = back[i]
  BY <1>1 DEF Within
<1> DEFINE p == SubSeq(stack, 1, Len(back))
<1>4. p \in Seq(Both(grammar, a)) /\ Len(p) = Len(back) /\ \A i \in 1..Len(back) : p[i] = stack[i]
  <2>1. Len(back) \in 0..Len(stack)
    BY <1>3
  <2> QED
    BY <1>3, <2>1, PrefixIs
<1> HIDE DEF p
<1>5. p = back
  BY <1>3, <1>4, SeqEqual
<1>6. PICK level : Above(grammar, a, level, Len(back), stack)
  BY <1>1 DEF Within
<1>7. \A i \in (Len(back) + 1)..Len(stack) : stack[i][1] = a
  BY <1>6, NamesDiffer DEF Above
<1> QED
  BY <1>2, <1>3, <1>5, <1>7 DEF p

LEMMA HeldFindsOut ==
  ASSUME Compiling, Running, HandsOver(grammar), Closes(grammar)
  PROVE  WayOut
<1> DEFINE g == grammar
           K == Len(grammar.embeds)
<1> SUFFICES ASSUME stack # <<>>, owed # <<>>, NEW i \in 1..K,
                    TopMode(stack) = Root(g.embeds[i].alias)
             PROVE  \E text \in Texts :
                      /\ Winners(Root(g.embeds[i].alias), text) # {}
                      /\ \A rule \in Winners(Root(g.embeds[i].alias), text) :
                           rule.token = Name(Host, g.embeds[i].close)
  BY DEF WayOut, Lexing
<1> DEFINE e == g.embeds[i]
           a == e.alias
           root == Root(a)
<1>1. g \in Grammars /\ K \in Nat /\ Shape(g, spec, {}, K)
  BY SpecIs
<1>2. a \in DOMAIN g.modules /\ "INITIAL" \in DOMAIN g.modules[a] /\ ExitUnshadowed(g, e)
  <2>1. a \in DOMAIN g.modules /\ ExitUnshadowed(g, e)
    BY <1>1, LanguageOf DEF Language
  <2> QED
    BY <2>1 DEF HandsOver, KeepsRoot
<1>3. root \in DOMAIN spec
  BY <1>1, <1>2 DEF Shape, ModuleNames, Root
<1>4. PICK r \in spec[root] : ExitFor(g, r, e)
  <2>1. \E n \in DOMAIN g.host : \E w \in g.host[n] : w.token = e.close
    BY DEF Closes
  <2> QED
    BY <1>1, <2>1 DEF Shape, ExitShape
<1>5. PICK n \in DOMAIN g.host : \E w \in g.host[n] : w.token = e.close /\ w.pattern = r.pattern
  BY <1>4 DEF ExitFor
<1>6. PICK close \in g.host[n] : close.token = e.close /\ close.pattern = r.pattern
  BY <1>5
<1>7. ASSUME NEW x \in spec[root], x.pattern = r.pattern
      PROVE  \/ x.priority \in Int /\ x.priority < 0
             \/ x.priority = MaxPriority /\ x.token = Name(Host, e.close)
  <2>1. OwnRule(g, x, a, "INITIAL") \/ ExitRule(g, x, a, K)
    BY <1>1, <1>2, <1>7 DEF Shape, ModuleShape, Root
  <2>2. CASE OwnRule(g, x, a, "INITIAL")
    <3>1. PICK w \in g.modules[a]["INITIAL"] :
            LexRule(w, DOMAIN g.modules[a]) /\ x.pattern = w.pattern /\ x.priority = w.priority
      BY <1>1, <1>2, <2>2, OwnRuleIs
    <3>2. w.priority < 0
      BY <1>2, <1>6, <1>7, <3>1 DEF ExitUnshadowed
    <3> QED
      BY <3>1, <3>2 DEF LexRule
  <2>3. CASE ExitRule(g, x, a, K)
    <3>1. PICK j \in 1..K : g.embeds[j].alias = a /\ ExitFor(g, x, g.embeds[j])
      BY <2>3 DEF ExitRule
    <3>2. x.token = Name(Host, g.embeds[j].close) /\ x.priority = MaxPriority
      BY <3>1, ExitForIs
    <3>3. PICK m \in DOMAIN g.host : \E w \in g.host[m] : w.token = g.embeds[j].close /\ w.pattern = x.pattern
      BY <3>1 DEF ExitFor
    <3>4. PICK other \in g.host[m] : other.token = g.embeds[j].close /\ other.pattern = x.pattern
      BY <3>3
    <3>5. close.token = other.token
      BY <1>6, <1>7, <3>1, <3>4 DEF Closes
    <3> QED
      BY <1>6, <3>2, <3>4, <3>5
  <2> QED
    BY <2>1, <2>2, <2>3
<1>8. r.priority = MaxPriority
  BY <1>4, ExitForIs
<1>9. MaxPriority \in Int /\ MaxPriority > 0
  BY DEF MaxPriority
<1> HIDE DEF MaxPriority, root
<1>10. r \in Winners(root, r.pattern)
  <2>1. r \in Matching(root, r.pattern)
    BY <1>4 DEF Matching
  <2>2. ASSUME NEW x \in Matching(root, r.pattern) PROVE x.priority <= r.priority
    <3>1. x \in spec[root] /\ x.pattern = r.pattern
      BY <2>2 DEF Matching
    <3>2. (x.priority \in Int /\ x.priority < 0) \/ x.priority = MaxPriority
      BY <1>7, <3>1
    <3> QED
      BY <1>8, <1>9, <3>2
  <2> QED
    BY <2>1, <2>2 DEF Winners
<1>11. ASSUME NEW x \in Winners(root, r.pattern) PROVE x.token = Name(Host, e.close)
  <2>1. x \in spec[root] /\ x.pattern = r.pattern /\ r.priority <= x.priority
    BY <1>10, <1>11 DEF Winners, Matching
  <2>2. ~(x.priority \in Int /\ x.priority < 0)
    BY <1>8, <1>9, <2>1
  <2> QED
    BY <1>7, <2>1, <2>2
<1>12. r.pattern \in Texts
  BY <1>3, <1>4 DEF Texts
<1> QED
  BY <1>10, <1>11, <1>12 DEF root

-----------------------------------------------------------------------------
LEMMA Always ==
  ASSUME \A g \in Grammars : HandsOver(g)
  PROVE  Spec => [](Compiling /\ Running)
<1>1. Init => Compiling /\ Running
  BY CompilingInit, RunningInit
<1>2. Compiling /\ Running /\ [Next]_vars => Compiling' /\ Running'
  <2> SUFFICES ASSUME Compiling, Running, [Next]_vars PROVE Compiling' /\ Running'
    OBVIOUS
  <2>1. HandsOver(grammar)
    BY DEF Compiling
  <2> QED
    BY <2>1, Step
<1> QED
  BY <1>1, <1>2, PTL DEF Spec

(* Of every language whose open tokens enter one module and whose modules  *)
(* keep their root mode: from the open token (injectEmbedEntryPush) to the *)
(* close token (injectEmbedExitPop) every mode above the host's is one of  *)
(* the module that the token opened.                                       *)
THEOREM InsideUntilClosed ==
  ASSUME \A g \in Grammars : HandsOver(g)
  PROVE  Spec => []OwnershipInside
<1>1. Compiling /\ Running => OwnershipInside
  BY HeldIsInside
<1> QED
  BY <1>1, Always, PTL

(* Of the same languages: the close token takes the lexer back to exactly  *)
(* the modes that the rule the host has written for the open token leaves. *)
THEOREM CloseReturns ==
  ASSUME \A g \in Grammars : HandsOver(g)
  PROVE  Spec => HandoffReturns
<1>1. Compiling /\ Running /\ [Next]_vars => [Len(owed') < Len(owed) => stack' = Innermost.back]_vars
  <2> SUFFICES ASSUME Compiling, Running, [Next]_vars, Len(owed') < Len(owed)
               PROVE  stack' = Innermost.back
    OBVIOUS
  <2>1. HandsOver(grammar)
    BY DEF Compiling
  <2> QED
    BY <2>1, Step
<1>2. Spec => [][Next]_vars
  BY PTL DEF Spec
<1> QED
  BY <1>1, <1>2, Always, PTL DEF HandoffReturns

(* Of those of them whose host lexes its close tokens: no rule of the      *)
(* module takes the text of the close token from the injected exit, the    *)
(* case V_IMP011 (validateEmbedExitTokenShadowing) is there to rule out.   *)
THEOREM ClosingIsPossible ==
  ASSUME \A g \in Grammars : HandsOver(g) /\ Closes(g)
  PROVE  Spec => []WayOut
<1>1. Compiling /\ Running => WayOut
  <2> SUFFICES ASSUME Compiling, Running PROVE WayOut
    OBVIOUS
  <2>1. HandsOver(grammar) /\ Closes(grammar)
    BY DEF Compiling
  <2> QED
    BY <2>1, HeldFindsOut
<1>2. \A g \in Grammars : HandsOver(g)
  OBVIOUS
<1>3. Spec => [](Compiling /\ Running)
  BY <1>2, Always
<1> QED
  BY <1>1, <1>3, PTL

=============================================================================
