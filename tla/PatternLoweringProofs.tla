----------------------- MODULE PatternLoweringProofs -----------------------
(***************************************************************************)
(* Proofs about PatternLowering for every set of files: the states of the  *)
(* compiled lexer agree, a cycle is told exactly when there is one, and    *)
(* what passes the checks panics only where the checks are known to look   *)
(* away.                                                                   *)
(***************************************************************************)
EXTENDS PatternLowering, SequenceTheorems, FiniteSetTheorems, WellFoundedInduction, TLAPS

(***************************************************************************)
(* The lexer.  What is built comes from rules of the host, and the host    *)
(* passed the checks.                                                      *)
(***************************************************************************)
From(h, e) ==
    \E r \in CollectedRules(h) :
        /\ e = LexerRule(r)
        /\ r.op = "pop" => \A v \in r.amount : v <= IntMax

Consistent(h) ==
    /\ ~TokenInconsistent(h)
    /\ \A r \in LexRules(h) : Mutates(r) => Targets(r) \subseteq DefinedStates(h)

BlocksDone(h, g) == UNION {StatesOf(h.groups[i]) : i \in 1 .. (g - 1)}

LexInv ==
    /\ <<host, module>> \in Files
    /\ group \in Nat \ {0} /\ at \in Nat \ {0}
    /\ phase \in {"patterns", "rules", "done", "panic"} => Consistent(host)
    /\ phase \in {"symbols", "cycles", "checks"} => group = 1
    /\ phase = "done" => group > Len(host.groups)
    /\ group <= Len(host.groups) + 1
    /\ gathered \in Seq({LexerRule(r) : r \in LexRules(host)})
    /\ \A i \in DOMAIN gathered : From(host, gathered[i])
    /\ DOMAIN rulesets = BlocksDone(host, group)
    /\ \A s \in DOMAIN rulesets : \A i \in DOMAIN rulesets[s] : From(host, rulesets[s][i])

\* What the assumption says of one of the files, one definition and one rule.
LEMMA DefinitionsAre ==
    ASSUME <<host, module>> \in Files, NEW p \in {host, module}
    PROVE  /\ IsFiniteSet(DOMAIN p.defs) /\ p.exports \subseteq DOMAIN p.defs \ p.locals
           /\ \A n \in DOMAIN p.defs : \A i \in DOMAIN p.defs[n] :
                 /\ p.defs[n][i].k \in {"text", "regex", "ref", "range", "not", "repeat"}
                 /\ p.defs[n][i].k = "not" => p.defs[n][i].of \in {"chars", "range", "other"}
                 /\ p.defs[n][i].k = "repeat" => p.defs[n][i].min \subseteq Int /\ p.defs[n][i].max \subseteq Int
           /\ \A i \in DOMAIN p.groups : \A j \in DOMAIN p.groups[i].rules :
                 /\ p.groups[i].rules[j].how \in {"regex", "malformed", "ref", "using", "none"}
                 /\ p.groups[i].rules[j].priority \subseteq Int /\ p.groups[i].rules[j].amount \subseteq Int
<1> DEFINE f == <<host, module>>
<1>1. p \in {f[1], f[2]} OBVIOUS
<1> HIDE DEF f
<1>2. f \in Files BY DEF f
<1>3. WellParsed(p) BY <1>1, <1>2, DefinitionsAssumption
<1> QED BY <1>3 DEF WellParsed

\* A rule of a block is a rule of the host.
LEMMA RuleIsCollected ==
    ASSUME LexInv, InBlock, ~ModuleNeeded, PatternAtHand
    PROVE  Rule \in CollectedRules(host)
<1>1. host.groups[group] \in Groups(host)
  BY FilesAssumption DEF LexInv, InBlock, Groups
<1>2. Rule \in RulesOf(host.groups[group])
  BY FilesAssumption DEF LexInv, InBlock, Rule, RulesOf
<1>3. Rule \in LexRules(host)
  BY <1>1, <1>2 DEF LexRules
<1> QED BY <1>3 DEF CollectedRules, PatternAtHand

\* The checks that stand behind Consistent, from the codes that are told.
LEMMA PassedIsConsistent ==
    ASSUME subject = "host", ~Fails(AllCodes) PROVE Consistent(host)
<1>1. Pkg = host BY DEF Pkg, File
<1>2. \A c \in Stage2(host) : c \in Warnings
  BY <1>1 DEF Fails, AllCodes
<1>3. "V_LEX011" \notin Stage2(host) /\ "V_LEX008" \notin Stage2(host)
  BY <1>2 DEF Warnings
<1>4. ~TokenInconsistent(host)
  BY <1>3 DEF Stage2
<1>5. ~\E r \in LexRules(host) : Mutates(r) /\ ~(Targets(r) \subseteq DefinedStates(host))
  BY <1>3 DEF Stage2
<1> QED BY <1>4, <1>5 DEF Consistent

LEMMA RuleTypes ==
    ASSUME LexInv, InBlock PROVE Rule \in LexRules(host)
<1>1. host.groups[group] \in Groups(host)
  BY FilesAssumption DEF LexInv, InBlock, Groups
<1>2. Rule \in RulesOf(host.groups[group])
  BY FilesAssumption DEF LexInv, InBlock, Rule, RulesOf
<1> QED BY <1>1, <1>2 DEF LexRules

LEMMA LexInvInit == ASSUME Init PROVE LexInv
<1>1. <<host, module>> \in Files /\ Len(host.groups) \in Nat
  BY FilesAssumption DEF Init
<1>2. DOMAIN rulesets = {} /\ BlocksDone(host, group) = {}
  BY DEF Init, BlocksDone
<1> QED BY <1>1, <1>2 DEF Init, LexInv

\* Steps that leave the lexer alone.
LEMMA LexInvKept ==
    ASSUME LexInv, UNCHANGED <<file, built>>,
           phase' \in {"patterns", "rules", "done", "panic"} => Consistent(host),
           phase' \in {"symbols", "cycles", "checks"} => group = 1,
           phase' # "done" \/ phase = "done"
    PROVE  LexInv'
<1>1. Consistent(host)' = Consistent(host) /\ BlocksDone(host, group)' = BlocksDone(host, group)
  BY DEF file, built
<1>2. \A e : From(host, e)' = From(host, e)
  BY DEF file
<1> QED BY <1>1, <1>2 DEF LexInv, file, built

LEMMA LexInvSkip == ASSUME LexInv, SkipEOF PROVE LexInv'
<1>1. Consistent(host)' = Consistent(host) /\ BlocksDone(host, group)' = BlocksDone(host, group)
  BY DEF SkipEOF, file
<1>2. \A e : From(host, e)' = From(host, e)
  BY DEF SkipEOF, file
<1>3. at' \in Nat \ {0} BY DEF LexInv, SkipEOF
<1> QED BY <1>1, <1>2, <1>3 DEF LexInv, SkipEOF, file

\* A rule that is built comes from a rule of the host.
LEMMA LexInvConstruct == ASSUME LexInv, constructLexRule PROVE LexInv'
<1> DEFINE Built == {LexerRule(r) : r \in LexRules(host)}
<1>1. Consistent(host)' = Consistent(host) /\ BlocksDone(host, group)' = BlocksDone(host, group)
      /\ Built' = Built
  BY DEF constructLexRule, file
<1>2. \A e : From(host, e)' = From(host, e)
  BY DEF constructLexRule, file
<1>3. Rule \in CollectedRules(host) /\ Rule \in LexRules(host)
  BY RuleIsCollected, RuleTypes DEF constructLexRule
<1>4. Rule.op = "pop" => \A v \in Rule.amount : v <= IntMax
  BY DEF constructLexRule, NumbersFit, Numbers
<1>5. From(host, LexerRule(Rule))
  BY <1>3, <1>4 DEF From
<1>6. gathered' = Append(gathered, LexerRule(Rule)) /\ at' \in Nat \ {0}
  BY DEF constructLexRule, Gather, LexInv
<1> DEFINE new == LexerRule(Rule)
<1>7. new \in Built BY <1>3
<1>8. gathered \in Seq(Built) BY DEF LexInv
<1> HIDE DEF new, Built
<1>9. gathered' \in Seq(Built) /\ \A i \in DOMAIN gathered' : From(host, gathered'[i])
  <2>1. gathered' = Append(gathered, new) BY <1>6 DEF new
  <2>2. \A i \in DOMAIN gathered : From(host, gathered[i]) BY DEF LexInv
  <2>3. From(host, new) BY <1>5 DEF new
  <2> QED BY <1>7, <1>8, <2>1, <2>2, <2>3
<1>10. \A i \in DOMAIN gathered' : From(host, gathered[i])'
  BY <1>9, <1>2 DEF constructLexRule, file, From
<1> USE DEF Built
<1> QED BY <1>1, <1>2, <1>6, <1>9, <1>10 DEF LexInv, constructLexRule, file

LEMMA BlockAdded ==
    ASSUME NEW h, NEW g \in Nat \ {0}
    PROVE  BlocksDone(h, g + 1) = BlocksDone(h, g) \union StatesOf(h.groups[g])
<1>1. 1 .. ((g + 1) - 1) = (1 .. (g - 1)) \union {g} OBVIOUS
<1> QED BY <1>1 DEF BlocksDone

LEMMA LexInvRuleset == ASSUME LexInv, WithRuleset PROVE LexInv'
<1>1. Consistent(host)' = Consistent(host) BY DEF WithRuleset, file
<1>2. \A e : From(host, e)' = From(host, e) BY DEF WithRuleset, file
<1>3. group' = group + 1 /\ group' \in Nat \ {0} /\ at' = 1 /\ host' = host /\ module' = module
  BY DEF WithRuleset, LexInv, file
<1>4. Len(host.groups) \in Nat BY FilesAssumption DEF LexInv
<1>5. DOMAIN rulesets' = DOMAIN rulesets \union StatesOf(host.groups[group])
  BY DEF WithRuleset
<1>6. DOMAIN rulesets' = BlocksDone(host', group')
  BY <1>3, <1>5, BlockAdded DEF LexInv
<1>7. \A s \in DOMAIN rulesets' : \A i \in DOMAIN rulesets'[s] : From(host, rulesets'[s][i])
  BY <1>5 DEF WithRuleset, LexInv
<1>8. gathered' = <<>> BY DEF WithRuleset
<1> QED BY <1>1, <1>2, <1>3, <1>4, <1>6, <1>7, <1>8 DEF LexInv, WithRuleset, file

LEMMA LexInvNext == ASSUME LexInv, [Next]_vars PROVE LexInv'
<1> USE DEF built, walk
<1>1. CASE SkipEOF BY <1>1, LexInvSkip
<1>2. CASE constructLexRule BY <1>2, LexInvConstruct
<1>3. CASE WithRuleset BY <1>3, LexInvRuleset
<1>4. CASE HostPasses
  BY <1>4, LexInvKept, PassedIsConsistent DEF HostPasses, file, LexInv
<1>5. CASE LexerCompiled
  <2>1. Consistent(host)' = Consistent(host) /\ BlocksDone(host, group)' = BlocksDone(host, group)
    BY <1>5 DEF LexerCompiled, file
  <2>2. \A e : From(host, e)' = From(host, e) BY <1>5 DEF LexerCompiled, file
  <2> QED BY <1>5, <2>1, <2>2 DEF LexerCompiled, LexInv, file
<1>6. CASE UNCHANGED vars
  BY <1>6, LexInvKept DEF vars, file, LexInv
<1>7. CASE SymbolBinding \/ (\E n \in Names : WalkFrom(n)) \/ WalkPast \/ WalkInto \/ CycleFound
           \/ WalkBack \/ WalksEnd \/ ChecksFail \/ ModulePasses
  <2>1. UNCHANGED <<file, built>> /\ phase' \in {"cycles", "checks", "failed", "symbols"}
        /\ phase \in {"symbols", "cycles", "checks"}
    BY <1>7 DEF SymbolBinding, WalkFrom, WalkPast, WalkInto, CycleFound, WalkBack, WalksEnd,
                ChecksFail, ModulePasses, file, Walking
  <2> QED BY <2>1, LexInvKept DEF LexInv
<1>8. CASE NextDefinition \/ CompileElement \/ ElementPanics \/ CompileReference
           \/ ReferencePanics \/ DefinitionCompiled \/ PatternsCompiled
  <2>1. UNCHANGED <<file, built>> /\ phase' \in {"patterns", "panic", "rules"} /\ phase = "patterns"
    BY <1>8 DEF NextDefinition, CompileElement, ElementPanics, CompileReference, ReferencePanics,
                DefinitionCompiled, PatternsCompiled, Lowering, Panic, file
  <2> QED BY <2>1, LexInvKept DEF LexInv
<1>9. CASE CompileModule \/ RulePanics
  <2>1. UNCHANGED <<file, built>> /\ phase' \in {"patterns", "panic"} /\ phase = "rules"
    BY <1>9 DEF CompileModule, RulePanics, Panic, InBlock, file
  <2> QED BY <2>1, LexInvKept DEF LexInv
<1> QED
  BY <1>1, <1>2, <1>3, <1>4, <1>5, <1>6, <1>7, <1>8, <1>9 DEF Next

\* Two rules that pass the consistency check become one rule of the lexer.
LEMMA SameRule ==
    ASSUME Consistent(host),
           NEW r \in CollectedRules(host), NEW s \in CollectedRules(host), r.token = s.token,
           r.op = "pop" => \A v \in r.amount : v <= IntMax,
           s.op = "pop" => \A v \in s.amount : v <= IntMax
    PROVE  LexerRule(r) = LexerRule(s)
<1>1. PatternKey(r) = PatternKey(s) /\ StackSignature(r) = StackSignature(s)
  BY DEF Consistent, TokenInconsistent
<1>2. r.how = s.how /\ r.name = s.name
  BY <1>1 DEF PatternKey
<1>3. r.op = "pop" => ParsedInt(r.amount) = r.amount
  BY DEF ParsedInt
<1>4. s.op = "pop" => ParsedInt(s.amount) = s.amount
  BY DEF ParsedInt
<1>5. StackOp(r) = StackOp(s)
  <2>1. CASE r.op = "pop" /\ s.op = "pop"
    <3> DEFINE Amount(x) == IF x.amount = {} THEN {1} ELSE x.amount
    <3>1. StackSignature(r) = <<"pop", Amount(r)>> /\ StackSignature(s) = <<"pop", Amount(s)>>
      BY <1>3, <1>4, <2>1 DEF StackSignature
    <3>3. StackOp(r) = [kind |-> "pop", states |-> <<>>, amount |-> Amount(r)]
      BY <2>1 DEF StackOp, Mutates
    <3>4. StackOp(s) = [kind |-> "pop", states |-> <<>>, amount |-> Amount(s)]
      BY <2>1 DEF StackOp, Mutates
    <3> HIDE DEF Amount
    <3>2. StackSignature(r)[2] = Amount(r) /\ StackSignature(s)[2] = Amount(s) BY <3>1
    <3>5. Amount(r) = Amount(s) BY <1>1, <3>2, Zenon
    <3> QED BY <3>3, <3>4, <3>5
  <2>2. CASE r.op = "pop" /\ s.op # "pop"
    BY <1>1, <2>2 DEF StackSignature, Mutates
  <2>3. CASE r.op # "pop" /\ s.op = "pop"
    BY <1>1, <2>3 DEF StackSignature, Mutates
  <2>4. CASE r.op # "pop" /\ s.op # "pop"
    BY <1>1, <2>4 DEF StackSignature, StackOp, Mutates
  <2> QED BY <2>1, <2>2, <2>3, <2>4
<1> QED BY <1>2, <1>5 DEF LexerRule

LEMMA TargetsAreStates ==
    ASSUME Consistent(host), NEW r \in CollectedRules(host),
           NEW k \in DOMAIN LexerRule(r).op.states
    PROVE  LexerRule(r).op.states[k] \in DefinedStates(host)
<1>1. CASE Mutates(r)
  <2>1. r.op # "pop" BY <1>1 DEF Mutates
  <2>2. LexerRule(r).op.states = r.to BY <1>1, <2>1 DEF LexerRule, StackOp
  <2> QED BY <1>1, <2>2 DEF Consistent, CollectedRules, Targets
<1>2. CASE ~Mutates(r)
  <2>1. LexerRule(r).op.states = <<>> BY <1>2 DEF LexerRule, StackOp
  <2> QED BY <2>1
<1> QED BY <1>1, <1>2

LEMMA LexInvAgrees == ASSUME LexInv PROVE LexersAgree
<1> SUFFICES ASSUME phase = "done" PROVE LexersAgree
  BY DEF LexersAgree
<1>1. Consistent(host) BY DEF LexInv
<1>2. \A s \in DOMAIN rulesets : \A i \in DOMAIN rulesets[s] : From(host, rulesets[s][i])
  BY DEF LexInv
<1>3. DOMAIN rulesets = DefinedStates(host)
  <2>1. Len(host.groups) \in Nat /\ DOMAIN host.groups = 1 .. Len(host.groups)
    BY FilesAssumption DEF LexInv
  <2>2. 1 .. (group - 1) = DOMAIN host.groups BY <2>1 DEF LexInv
  <2>3. Groups(host) = {host.groups[i] : i \in 1 .. (group - 1)} BY <2>2 DEF Groups
  <2> QED BY <2>3 DEF LexInv, BlocksDone, DefinedStates
<1> SUFFICES ASSUME NEW s \in DOMAIN rulesets, NEW t \in DOMAIN rulesets,
                    NEW i \in DOMAIN rulesets[s], NEW j \in DOMAIN rulesets[t]
             PROVE  /\ rulesets[s][i].token = rulesets[t][j].token => rulesets[s][i] = rulesets[t][j]
                    /\ \A k \in DOMAIN rulesets[s][i].op.states :
                          rulesets[s][i].op.states[k] \in DOMAIN rulesets
  BY DEF LexersAgree
<1>4. PICK r \in CollectedRules(host) :
        rulesets[s][i] = LexerRule(r) /\ (r.op = "pop" => \A v \in r.amount : v <= IntMax)
  BY <1>2 DEF From
<1>5. PICK q \in CollectedRules(host) :
        rulesets[t][j] = LexerRule(q) /\ (q.op = "pop" => \A v \in q.amount : v <= IntMax)
  BY <1>2 DEF From
<1>6. rulesets[s][i].token = r.token /\ rulesets[t][j].token = q.token
  BY <1>4, <1>5 DEF LexerRule
<1>7. r.token = q.token => LexerRule(r) = LexerRule(q)
  BY <1>1, <1>4, <1>5, SameRule
<1>8. \A k \in DOMAIN LexerRule(r).op.states : LexerRule(r).op.states[k] \in DOMAIN rulesets
  BY <1>1, <1>3, TargetsAreStates
<1> QED BY <1>4, <1>5, <1>6, <1>7, <1>8

\* Whatever files are compiled, the states of the lexer that comes out agree on
\* what a token is and does, and go only to states that have rules.
THEOREM LexersAlwaysAgree == Spec => []LexersAgree
<1>1. Init => LexInv BY LexInvInit
<1>2. LexInv /\ [Next]_vars => LexInv' BY LexInvNext
<1>3. LexInv => LexersAgree BY LexInvAgrees
<1> QED BY <1>1, <1>2, <1>3, PTL DEF Spec

----------------------------------------------------------------------------
(* The walks.  The stack is a path of references in both of them.          *)

Frame == [name : Names, pos : Nat \ {0}]
Chain(p, st) == \A i \in 1 .. Len(st) - 1 : st[i + 1].name \in DependsOn(p, st[i].name)
Within(p, st) == \A i \in 1 .. Len(st) : st[i].name \in Defined(p)

WalkInv ==
    /\ <<host, module>> \in Files
    /\ subject \in {"host", "module"}
    /\ stack \in Seq(Frame)
    /\ todo \subseteq Names
    /\ phase \in {"cycles", "patterns"} => Chain(Pkg, stack) /\ Within(Pkg, stack) /\ todo \subseteq Defined(Pkg)
    /\ phase \notin {"cycles", "patterns", "panic"} => stack = <<>>
    /\ cyclic \in [{"host", "module"} -> SUBSET Names]
    /\ CyclesAreReal

LEMMA PkgTypes ==
    ASSUME WalkInv
    PROVE  /\ Defined(Pkg) \subseteq Names
           /\ \A n \in Defined(Pkg) : DOMAIN Pkg.defs[n] = 1 .. Len(Pkg.defs[n]) /\ Len(Pkg.defs[n]) \in Nat
<1>1. Pkg \in {host, module} BY DEF Pkg, File
<1>2. DOMAIN Pkg.defs \subseteq Names
      /\ \A n \in DOMAIN Pkg.defs : DOMAIN Pkg.defs[n] = 1 .. Len(Pkg.defs[n]) /\ Len(Pkg.defs[n]) \in Nat
  BY <1>1, FilesAssumption DEF WalkInv
<1> QED BY <1>2 DEF Defined

LEMMA AdvancedFrames ==
    ASSUME NEW st \in Seq(Frame)
    PROVE  /\ Advanced(st) \in Seq(Frame) /\ Len(Advanced(st)) = Len(st)
           /\ \A i \in 1 .. Len(st) : Advanced(st)[i].name = st[i].name
<1>1. CASE st = <<>> BY <1>1 DEF Advanced
<1>2. CASE st # <<>>
  <2> DEFINE top == st[Len(st)]
             f == [name |-> top.name, pos |-> top.pos + 1]
  <2>1. Len(st) \in 1 .. Len(st) BY <1>2
  <2>2. top \in Frame BY <2>1
  <2>3. ASSUME NEW t \in Frame
        PROVE  /\ [name |-> t.name, pos |-> t.pos + 1] \in Frame
               /\ [t EXCEPT !.pos = t.pos + 1] = [name |-> t.name, pos |-> t.pos + 1]
    <3>1. t = [name |-> t.name, pos |-> t.pos] /\ t.name \in Names /\ t.pos \in Nat \ {0}
      BY DEF Frame
    <3>2. t.pos + 1 \in Nat \ {0} BY <3>1
    <3>3. [[name |-> t.name, pos |-> t.pos] EXCEPT !.pos = t.pos + 1] = [name |-> t.name, pos |-> t.pos + 1]
      OBVIOUS
    <3> QED BY <3>1, <3>2, <3>3 DEF Frame
  <2>4. f \in Frame /\ f.name = top.name /\ [top EXCEPT !.pos = top.pos + 1] = f
    BY <2>2, <2>3
  <2>5. Advanced(st) = [st EXCEPT ![Len(st)] = [st[Len(st)] EXCEPT !.pos = st[Len(st)].pos + 1]]
    BY <1>2 DEF Advanced
  <2>6. Advanced(st) = [st EXCEPT ![Len(st)] = f] BY <2>4, <2>5
  <2> HIDE DEF f
  <2> QED BY <2>1, <2>4, <2>6, ExceptSeq
<1> QED BY <1>1, <1>2

LEMMA PoppedFrames ==
    ASSUME NEW st \in Seq(Frame), st # <<>>
    PROVE  /\ SubSeq(st, 1, Len(st) - 1) \in Seq(Frame)
           /\ Len(SubSeq(st, 1, Len(st) - 1)) = Len(st) - 1
           /\ \A i \in 1 .. Len(st) - 1 : SubSeq(st, 1, Len(st) - 1)[i] = st[i]
<1>1. Len(st) \in Nat \ {0} /\ \A i \in 1 .. Len(st) - 1 : st[i] \in Frame
  OBVIOUS
<1> DEFINE n == Len(st) - 1
           t == [i \in 1 .. n |-> st[i]]
<1>2. n \in Nat BY <1>1
<1>3. SubSeq(st, 1, n) = t
  <2>1. SubSeq(st, 1, n) = [i \in 1 .. (1 + n - 1) |-> st[i + 1 - 1]] OBVIOUS
  <2> QED BY <1>2, <2>1
<1>4. t \in Seq(Frame) /\ Len(t) = n /\ \A i \in 1 .. n : t[i] = st[i]
  BY <1>1, <1>2
<1> QED BY <1>3, <1>4

\* A stack with the same names, or fewer of them, is a path as well.
LEMMA ShorterPath ==
    ASSUME NEW p, NEW st \in Seq(Frame), NEW t \in Seq(Frame), Len(t) <= Len(st),
           \A i \in 1 .. Len(t) : t[i].name = st[i].name, Chain(p, st), Within(p, st)
    PROVE  Chain(p, t) /\ Within(p, t)
<1>1. ASSUME NEW i \in 1 .. Len(t) - 1 PROVE t[i + 1].name \in DependsOn(p, t[i].name)
  <2>1. i \in 1 .. Len(st) - 1 /\ i \in 1 .. Len(t) /\ i + 1 \in 1 .. Len(t) OBVIOUS
  <2> QED BY <2>1 DEF Chain
<1>2. \A i \in 1 .. Len(t) : i \in 1 .. Len(st) OBVIOUS
<1> QED BY <1>1, <1>2 DEF Chain, Within

LEMMA LongerPath ==
    ASSUME NEW p, NEW st \in Seq(Frame), NEW n \in Names, n \in Defined(p),
           st # <<>> => n \in DependsOn(p, st[Len(st)].name), Chain(p, st), Within(p, st)
    PROVE  LET t == Append(st, [name |-> n, pos |-> 1])
           IN  t \in Seq(Frame) /\ Chain(p, t) /\ Within(p, t)
<1> DEFINE f == [name |-> n, pos |-> 1]
           t == Append(st, f)
<1>1. f \in Frame /\ f.name = n BY DEF Frame
<1>2. t \in Seq(Frame) /\ Len(t) = Len(st) + 1 /\ t[Len(st) + 1] = f /\ \A i \in 1 .. Len(st) : t[i] = st[i]
  BY <1>1
<1> HIDE DEF f, t
<1>3. ASSUME NEW i \in 1 .. Len(t) - 1 PROVE t[i + 1].name \in DependsOn(p, t[i].name)
  <2>1. i \in 1 .. Len(st) /\ Len(st) \in Nat BY <1>2
  <2>2. CASE i = Len(st)
    <3>1. st # <<>> BY <2>1, <2>2
    <3> QED BY <1>1, <1>2, <2>1, <2>2, <3>1
  <2>3. CASE i # Len(st)
    <3>1. i + 1 \in 1 .. Len(st) /\ i \in 1 .. Len(st) - 1 BY <2>1, <2>3
    <3> QED BY <1>2, <2>1, <3>1 DEF Chain
  <2> QED BY <2>2, <2>3
<1>4. Within(p, t)
  <2>1. \A i \in 1 .. Len(t) : i \in 1 .. Len(st) \/ i = Len(st) + 1 BY <1>2
  <2> QED BY <1>1, <1>2, <2>1 DEF Within
<1> QED BY <1>2, <1>3, <1>4 DEF Chain, t, f

\* The path on the stack and the reference that closes it.
LEMMA ClosingReference ==
    ASSUME NEW p, NEW st \in Seq(Frame), st # <<>>, Chain(p, st),
           NEW m \in 1 .. Len(st), st[m].name \in DependsOn(p, st[Len(st)].name)
    PROVE  st[1].name \in Names /\ CycleFrom(p, st[1].name)
<1> DEFINE t == [i \in 1 .. Len(st) |-> st[i].name]
<1>1. \A i \in 1 .. Len(st) : st[i].name \in Names
  <2>1. \A i \in 1 .. Len(st) : st[i] \in Frame OBVIOUS
  <2> QED BY <2>1 DEF Frame
<1>2. Len(st) \in Nat /\ 1 \in 1 .. Len(st) /\ Len(st) \in 1 .. Len(st) OBVIOUS
<1>3. t \in Seq(Names) /\ Len(t) = Len(st) /\ \A i \in 1 .. Len(st) : t[i] = st[i].name
  BY <1>1, <1>2
<1> HIDE DEF t
<1>4. Path(p, t)
  <2>1. \A i \in 1 .. Len(st) - 1 : i \in 1 .. Len(st) /\ i + 1 \in 1 .. Len(st) BY <1>2
  <2> QED BY <1>3, <2>1 DEF Path, Chain
<1>5. t[1] = st[1].name /\ t[m] \in DependsOn(p, t[Len(t)]) BY <1>2, <1>3
<1> QED BY <1>1, <1>2, <1>3, <1>4, <1>5 DEF CycleFrom

\* The element a walk stands at is one of the definition, so what it refers to
\* is something the definition depends on.
LEMMA ElementDepends ==
    ASSUME WalkInv, phase \in {"cycles", "patterns"}, stack # <<>>, ~AtEnd, Element.k = "ref",
           Element.to \in Defined(Pkg)
    PROVE  Element.to \in DependsOn(Pkg, Top.name) /\ Element.to \in Names
<1>1. Len(stack) \in 1 .. Len(stack) /\ Top \in Frame BY DEF WalkInv, Top
<1>2. Top.name \in Defined(Pkg) BY <1>1 DEF WalkInv, Within, Top
<1>3. Top.pos \in DOMAIN Pkg.defs[Top.name]
  <2>1. DOMAIN Pkg.defs[Top.name] = 1 .. Len(Pkg.defs[Top.name]) /\ Len(Pkg.defs[Top.name]) \in Nat
    BY <1>2, PkgTypes
  <2>2. Top.pos \in Nat \ {0} BY <1>1 DEF Frame
  <2> QED BY <2>1, <2>2 DEF AtEnd
<1>4. Element.to \in RefsIn(Pkg, Top.name) BY <1>3 DEF RefsIn, Element
<1> QED BY <1>2, <1>4, PkgTypes DEF DependsOn

\* A step that changes neither the file nor what was reported.
LEMMA WalkInvKept ==
    ASSUME WalkInv, UNCHANGED <<file, subject, cyclic, trouble>>, phase' # "panic",
           stack' \in Seq(Frame), todo' \subseteq Names,
           phase' \in {"cycles", "patterns"} =>
               Chain(Pkg, stack') /\ Within(Pkg, stack') /\ todo' \subseteq Defined(Pkg),
           phase' \notin {"cycles", "patterns", "panic"} => stack' = <<>>
    PROVE  WalkInv'
<1>1. Pkg' = Pkg /\ \A s : File(s)' = File(s) BY DEF Pkg, File, file
<1>2. CyclesAreReal' BY <1>1 DEF CyclesAreReal, WalkInv
<1> QED BY <1>1, <1>2 DEF WalkInv, file

LEMMA WalkInvCycle == ASSUME WalkInv, CycleFound PROVE WalkInv'
<1>1. Pkg' = Pkg /\ \A s : File(s)' = File(s) BY DEF Pkg, File, file, CycleFound
<1>2. Element.to \in DependsOn(Pkg, Top.name)
  BY ElementDepends DEF CycleFound, Walking, Followed
<1>3. PICK m \in DOMAIN stack : stack[m].name = Element.to
  BY DEF CycleFound, OnPath
<1>4. stack \in Seq(Frame) /\ stack # <<>> /\ m \in 1 .. Len(stack) /\ Chain(Pkg, stack)
  BY <1>3 DEF WalkInv, CycleFound, Walking
<1>5. stack[1].name \in Names /\ CycleFrom(Pkg, stack[1].name)
  BY <1>2, <1>3, <1>4, ClosingReference DEF Top
<1>6. CyclesAreReal'
  <2>1. \A s \in {"host", "module"} : \A n \in cyclic'[s] : CycleFrom(File(s), n)
    BY <1>5 DEF CycleFound, WalkInv, CyclesAreReal, Pkg
  <2> QED BY <1>1, <2>1 DEF CyclesAreReal, CycleFound, Walking
<1>7. stack' = <<>> /\ stack' \in Seq(Frame) BY DEF CycleFound
<1>8. Chain(Pkg, <<>>) /\ Within(Pkg, <<>>) BY DEF Chain, Within
<1> QED BY <1>1, <1>5, <1>6, <1>7, <1>8 DEF WalkInv, CycleFound, file, Walking

LEMMA WalkInvPanic == ASSUME WalkInv, ReferencePanics PROVE WalkInv'
<1>1. Pkg' = Pkg /\ \A s : File(s)' = File(s) BY DEF Pkg, File, file, ReferencePanics
<1>2. ASSUME trouble' = "cyclic" PROVE \E n \in Names : CycleFrom(Pkg, n)
  <2>1. Element.to \in Defined(Pkg) /\ Element.to \in OnPath
    BY <1>2 DEF ReferencePanics, Panic, Referable
  <2>2. Element.to \in DependsOn(Pkg, Top.name)
    BY <2>1, ElementDepends DEF ReferencePanics, Lowering
  <2>3. PICK m \in DOMAIN stack : stack[m].name = Element.to BY <2>1 DEF OnPath
  <2>4. stack \in Seq(Frame) /\ stack # <<>> /\ m \in 1 .. Len(stack) /\ Chain(Pkg, stack)
    BY <2>3 DEF WalkInv, ReferencePanics, Lowering
  <2> QED BY <2>2, <2>3, <2>4, ClosingReference DEF Top
<1>3. CyclesAreReal' BY <1>1, <1>2 DEF CyclesAreReal, ReferencePanics, WalkInv
<1> QED BY <1>1, <1>3 DEF WalkInv, ReferencePanics, Panic, file, walk

LEMMA WalkInvInit == ASSUME Init PROVE WalkInv
<1>1. <<host, module>> \in Files BY FilesAssumption DEF Init
<1> QED BY <1>1 DEF Init, WalkInv, CyclesAreReal

\* The steps of a walk: past an element, into a reference, back to the caller.
LEMMA PastIsPath ==
    ASSUME WalkInv, phase \in {"cycles", "patterns"}
    PROVE  Advanced(stack) \in Seq(Frame) /\ Chain(Pkg, Advanced(stack)) /\ Within(Pkg, Advanced(stack))
<1>1. stack \in Seq(Frame) /\ Chain(Pkg, stack) /\ Within(Pkg, stack) BY DEF WalkInv
<1> QED BY <1>1, AdvancedFrames, ShorterPath

LEMMA BackIsPath ==
    ASSUME WalkInv, phase \in {"cycles", "patterns"}, stack # <<>>
    PROVE  Leave \in Seq(Frame) /\ Chain(Pkg, Leave) /\ Within(Pkg, Leave)
<1> DEFINE t == SubSeq(stack, 1, Len(stack) - 1)
<1>1. stack \in Seq(Frame) /\ Chain(Pkg, stack) /\ Within(Pkg, stack) BY DEF WalkInv
<1>2. Len(stack) \in Nat BY <1>1
<1>3. t \in Seq(Frame) /\ Len(t) = Len(stack) - 1 /\ \A i \in 1 .. Len(t) : t[i] = stack[i]
  BY <1>1, PoppedFrames
<1> HIDE DEF t
<1>4. Chain(Pkg, t) /\ Within(Pkg, t)
  <2>1. Len(t) <= Len(stack) /\ \A i \in 1 .. Len(t) : t[i].name = stack[i].name BY <1>2, <1>3
  <2> QED BY <1>1, <1>3, <2>1, ShorterPath
<1>5. Advanced(t) \in Seq(Frame) /\ Chain(Pkg, Advanced(t)) /\ Within(Pkg, Advanced(t))
  BY <1>3, <1>4, AdvancedFrames, ShorterPath
<1> QED BY <1>5 DEF Leave, t

LEMMA IntoIsPath ==
    ASSUME WalkInv, phase \in {"cycles", "patterns"}, NEW n \in Defined(Pkg),
           stack # <<>> => n \in DependsOn(Pkg, Top.name), Enter(n)
    PROVE  stack' \in Seq(Frame) /\ Chain(Pkg, stack') /\ Within(Pkg, stack')
<1>1. stack \in Seq(Frame) /\ Chain(Pkg, stack) /\ Within(Pkg, stack) BY DEF WalkInv
<1>2. n \in Names BY PkgTypes
<1> QED BY <1>1, <1>2, LongerPath DEF Enter, Top

LEMMA EmptyIsPath == ASSUME NEW p PROVE <<>> \in Seq(Frame) /\ Chain(p, <<>>) /\ Within(p, <<>>)
BY DEF Chain, Within

\* Steps to another file, and panics about something else than a cycle.
LEMMA WalkInvElsewhere ==
    ASSUME WalkInv, UNCHANGED <<file, cyclic>>, subject' \in {"host", "module"},
           stack' \in Seq(Frame), todo' \subseteq Names,
           phase' = "panic" => trouble' # "cyclic",
           phase' \in {"cycles", "patterns"} => stack' = <<>> /\ todo' \subseteq Defined(Pkg'),
           phase' \notin {"cycles", "patterns", "panic"} => stack' = <<>>
    PROVE  WalkInv'
<1>1. \A s : File(s)' = File(s) BY DEF File, file
<1>2. CyclesAreReal' BY <1>1 DEF CyclesAreReal, WalkInv
<1>3. Pkg' = Pkg' /\ \A p : Chain(p, <<>>) /\ Within(p, <<>>) BY EmptyIsPath
<1>4. phase' \in {"cycles", "patterns"} => Chain(Pkg', stack') /\ Within(Pkg', stack') BY <1>3
<1> QED BY <1>2, <1>4 DEF WalkInv, file, Defined, Chain, Within, DependsOn, RefsIn

\* sortedPatternNamesFromEnv always has a next name.
LEMMA LeastName ==
    ASSUME NEW T, T \subseteq Nat, T # {} PROVE \E x \in T : \A y \in T : x <= y
<1>1. IsWellFoundedOn(OpToRel(<, Nat), Nat) BY NatLessThanWellFounded
<1>2. \E x \in T : \A y \in T : <<y, x>> \notin OpToRel(<, Nat) BY <1>1, WFMin
<1>3. \A x, y \in Nat : <<y, x>> \notin OpToRel(<, Nat) => x <= y BY DEF OpToRel
<1> QED BY <1>2, <1>3

LEMMA WalkInvNext == ASSUME WalkInv, [Next]_vars PROVE WalkInv'
<1> USE DEF walk
<1>0. stack \in Seq(Frame) /\ todo \subseteq Names /\ subject \in {"host", "module"}
      /\ <<>> \in Seq(Frame)
  BY DEF WalkInv
<1>1. CASE \E n \in Names : WalkFrom(n)
  <2>1. PICK n \in Names : WalkFrom(n) BY <1>1
  <2>2. n \in Defined(Pkg) /\ phase = "cycles" /\ stack = <<>> /\ todo \subseteq Defined(Pkg)
    BY <2>1 DEF WalkFrom, WalkInv
  <2>3. stack' \in Seq(Frame) /\ Chain(Pkg, stack') /\ Within(Pkg, stack')
    BY <2>1, <2>2, IntoIsPath DEF WalkFrom
  <2> QED BY <1>0, <2>1, <2>2, <2>3, WalkInvKept DEF WalkFrom
<1>2. CASE WalkPast \/ CompileElement
  <2>1. phase \in {"cycles", "patterns"} /\ phase' = phase /\ stack' = Advanced(stack)
        /\ UNCHANGED <<file, subject, todo, cyclic, trouble>>
    BY <1>2 DEF WalkPast, CompileElement, Walking, Lowering
  <2>2. stack' \in Seq(Frame) /\ Chain(Pkg, stack') /\ Within(Pkg, stack')
    BY <2>1, PastIsPath
  <2> QED BY <1>0, <2>1, <2>2, WalkInvKept DEF WalkInv
<1>3. CASE WalkInto
  <2>1. phase = "cycles" /\ stack # <<>> /\ Element.to \in DependsOn(Pkg, Top.name)
        /\ Element.to \in Defined(Pkg)
    BY <1>3, ElementDepends DEF WalkInto, Walking, Followed
  <2>2. stack' \in Seq(Frame) /\ Chain(Pkg, stack') /\ Within(Pkg, stack')
    BY <1>3, <2>1, IntoIsPath DEF WalkInto
  <2> QED BY <1>0, <1>3, <2>1, <2>2, WalkInvKept DEF WalkInto, WalkInv
<1>4. CASE CompileReference
  <2>1. phase = "patterns" /\ phase' = phase /\ UNCHANGED <<file, subject, todo, cyclic, trouble>>
        /\ todo \subseteq Defined(Pkg)
    BY <1>4 DEF CompileReference, Lowering, WalkInv
  <2>2. stack # <<>> /\ Element.to \in DependsOn(Pkg, Top.name) /\ Element.to \in Defined(Pkg)
    BY <1>4, ElementDepends DEF CompileReference, Lowering, Referable
  <2>3. CASE Element.to \in compiled
    <3>1. stack' = Advanced(stack) BY <1>4, <2>3 DEF CompileReference
    <3> QED BY <1>0, <2>1, <3>1, PastIsPath, WalkInvKept
  <2>4. CASE Element.to \notin compiled
    <3>1. Enter(Element.to) BY <1>4, <2>4 DEF CompileReference
    <3>2. stack' \in Seq(Frame) /\ Chain(Pkg, stack') /\ Within(Pkg, stack')
      BY <2>1, <2>2, <3>1, IntoIsPath
    <3> QED BY <1>0, <2>1, <3>2, WalkInvKept
  <2> QED BY <2>3, <2>4
<1>5. CASE CycleFound BY <1>5, WalkInvCycle
<1>6. CASE WalkBack \/ DefinitionCompiled
  <2>1. phase \in {"cycles", "patterns"} /\ phase' = phase /\ stack' = Leave /\ stack # <<>>
        /\ UNCHANGED <<file, subject, cyclic, trouble>> /\ todo' \subseteq todo
    BY <1>6 DEF WalkBack, DefinitionCompiled, Walking, Lowering
  <2>2. stack' \in Seq(Frame) /\ Chain(Pkg, stack') /\ Within(Pkg, stack')
    BY <2>1, BackIsPath
  <2> QED BY <1>0, <2>1, <2>2, WalkInvKept DEF WalkInv
<1>7. CASE ReferencePanics BY <1>7, WalkInvPanic
<1>8. CASE NextDefinition
  <2> DEFINE n == CHOOSE x \in todo : \A y \in todo : x <= y
  <2>1. phase = "patterns" /\ phase' = phase /\ stack = <<>> /\ todo \subseteq Defined(Pkg)
        /\ UNCHANGED <<file, subject, cyclic, trouble>>
    BY <1>8 DEF NextDefinition, Lowering, WalkInv
  <2>2. CASE n \in compiled
    <3>1. stack' = <<>> /\ todo' \subseteq todo BY <1>8, <2>1, <2>2 DEF NextDefinition
    <3> QED BY <1>0, <2>1, <3>1, EmptyIsPath, WalkInvKept
  <2>3. CASE n \notin compiled
    <3>1. Enter(n) /\ todo' = todo BY <1>8, <2>3 DEF NextDefinition
    <3>2. n \in Defined(Pkg)
      <4>1. todo # {} /\ todo \subseteq Nat BY <1>0, <1>8, NamesAssumption DEF NextDefinition
      <4>2. \E x \in todo : \A y \in todo : x <= y BY <4>1, LeastName
      <4>3. n \in todo BY <4>2
      <4> QED BY <2>1, <4>3
    <3> HIDE DEF n
    <3>3. stack' \in Seq(Frame) /\ Chain(Pkg, stack') /\ Within(Pkg, stack')
      BY <2>1, <3>1, <3>2, IntoIsPath
    <3> QED BY <1>0, <2>1, <3>1, <3>3, WalkInvKept
  <2> QED BY <2>2, <2>3
<1>9. CASE HostPasses \/ CompileModule
  <2>1. stack' = <<>> /\ phase' = "patterns" /\ subject' \in {"host", "module"}
        /\ todo' = Defined(Pkg)' /\ todo' \subseteq Names /\ UNCHANGED <<file, cyclic>>
    <3>1. stack = <<>> BY <1>9 DEF HostPasses, CompileModule, InBlock, WalkInv
    <3>2. Defined(host) \subseteq Names /\ Defined(module) \subseteq Names
      BY FilesAssumption DEF WalkInv, Defined
    <3> QED BY <1>9, <3>1, <3>2 DEF HostPasses, CompileModule, Pkg, File, file, Defined
  <2>2. Defined(Pkg)' = Defined(Pkg') BY DEF Defined
  <2> QED BY <1>0, <2>1, <2>2, WalkInvElsewhere
<1>10. CASE SymbolBinding
  <2>1. stack' = <<>> /\ phase' = "cycles" /\ todo' = Defined(Pkg) /\ Pkg' = Pkg
        /\ UNCHANGED <<file, subject, cyclic>>
    BY <1>10 DEF SymbolBinding, WalkInv, Pkg, File, file
  <2> QED BY <1>0, <2>1, PkgTypes, WalkInvElsewhere
<1>11. CASE ElementPanics \/ RulePanics
  <2>1. UNCHANGED <<file, subject, walk, cyclic>> /\ phase' = "panic" /\ trouble' # "cyclic"
    BY <1>11 DEF ElementPanics, RulePanics, Panic
  <2> QED BY <1>0, <2>1, WalkInvElsewhere
<1>12. CASE WalksEnd \/ ChecksFail \/ ModulePasses \/ PatternsCompiled \/ SkipEOF \/ constructLexRule
            \/ WithRuleset \/ LexerCompiled
  <2>1. stack = <<>>
    BY <1>12 DEF WalksEnd, ChecksFail, ModulePasses, PatternsCompiled, SkipEOF, constructLexRule,
                 WithRuleset, LexerCompiled, InBlock, WalkInv
  <2>2. UNCHANGED <<file, cyclic, stack, todo>> /\ phase' \notin {"cycles", "patterns", "panic"}
        /\ subject' \in {"host", "module"}
    BY <1>0, <1>12 DEF WalksEnd, ChecksFail, ModulePasses, PatternsCompiled, SkipEOF, constructLexRule,
                 WithRuleset, LexerCompiled, InBlock
  <2> QED BY <1>0, <2>1, <2>2, WalkInvElsewhere
<1>13. CASE UNCHANGED vars
  <2>1. \A s : File(s)' = File(s) BY <1>13 DEF vars, file, File
  <2>2. Pkg' = Pkg BY <1>13 DEF vars, file, Pkg, File
  <2>3. CyclesAreReal' BY <1>13, <2>1, <2>2 DEF CyclesAreReal, WalkInv, vars
  <2> QED BY <1>13, <2>2, <2>3 DEF WalkInv, vars, file
<1> QED
  BY <1>1, <1>2, <1>3, <1>4, <1>5, <1>6, <1>7, <1>8, <1>9, <1>10, <1>11, <1>12, <1>13 DEF Next

\* Whatever files are compiled, a cycle is reported only where there is one: by
\* stage 1 from the name it reports, by the lowering somewhere in its file.
THEOREM ReportedCyclesAreReal == Spec => []CyclesAreReal
<1>1. Init => WalkInv BY WalkInvInit
<1>2. WalkInv /\ [Next]_vars => WalkInv' BY WalkInvNext
<1>3. WalkInv => CyclesAreReal BY DEF WalkInv
<1> QED BY <1>1, <1>2, <1>3, PTL DEF Spec

----------------------------------------------------------------------------
(* The search for cycles.  It remembers nothing but its own path, and yet  *)
(* a name it has left is one from which no cycle is reached.               *)

Safe(p, n) == ~CycleFrom(p, n)

\* A path of names from its first entry on.
LEMMA PathSequence ==
    ASSUME NEW k \in Nat, NEW st, st \in [1 .. k -> Names]
    PROVE  st \in Seq(Names) /\ Len(st) = k
OBVIOUS

LEMMA SafeFromChildren ==
    ASSUME NEW p, NEW n \in Names, \A c \in DependsOn(p, n) : Safe(p, c)
    PROVE  Safe(p, n)
<1> SUFFICES ASSUME NEW st \in Seq(Names), NEW i \in 1 .. Len(st),
                    st[1] = n, Path(p, st), st[i] \in DependsOn(p, st[Len(st)])
             PROVE  FALSE
  BY DEF Safe, CycleFrom
<1> DEFINE k == Len(st)
<1>1. k \in Nat /\ k >= 1 /\ st \in [1 .. k -> Names] OBVIOUS
<1>2. \A j \in 1 .. k - 1 : st[j + 1] \in DependsOn(p, st[j]) BY DEF Path
<1> HIDE DEF k
<1>3. CASE k = 1
  <2>1. n \in DependsOn(p, n) BY <1>1, <1>3 DEF k
  <2>2. CycleFrom(p, n) BY DEF CycleFrom
  <2> QED BY <2>1, <2>2 DEF Safe
<1>4. CASE k > 1 /\ i > 1
  <2> DEFINE t == [j \in 1 .. k - 1 |-> st[j + 1]]
  <2>1. \A j \in 1 .. k - 1 : st[j + 1] \in Names BY <1>1
  <2>2. t \in [1 .. k - 1 -> Names] /\ k - 1 \in Nat BY <1>1, <2>1
  <2>3. t \in Seq(Names) /\ Len(t) = k - 1 BY <2>2, PathSequence
  <2>4. \A j \in 1 .. k - 1 : t[j] = st[j + 1] OBVIOUS
  <2> HIDE DEF t
  <2>5. Path(p, t)
    <3>1. ASSUME NEW j \in 1 .. Len(t) - 1 PROVE t[j + 1] \in DependsOn(p, t[j])
      <4>1. j \in 1 .. k - 1 /\ j + 1 \in 1 .. k - 1 BY <1>1, <2>3
      <4> QED BY <1>2, <2>4, <4>1
    <3> QED BY <3>1 DEF Path
  <2>6. t[1] = st[2] /\ t[Len(t)] = st[k] /\ t[i - 1] = st[i] /\ i - 1 \in 1 .. Len(t)
    <3>1. i \in 1 .. k BY DEF k
    <3>2. 1 \in 1 .. k - 1 /\ k - 1 \in 1 .. k - 1 /\ i - 1 \in 1 .. k - 1 BY <1>1, <1>4, <3>1
    <3>3. t[1] = st[1 + 1] /\ t[k - 1] = st[k - 1 + 1] /\ t[i - 1] = st[i - 1 + 1] BY <2>4, <3>2
    <3>4. 1 + 1 = 2 /\ k - 1 + 1 = k /\ i - 1 + 1 = i BY <1>1, <3>1
    <3> QED BY <2>3, <3>2, <3>3, <3>4
  <2>7. st[2] \in DependsOn(p, n) BY <1>1, <1>2, <1>4
  <2>8. CycleFrom(p, st[2]) BY <2>3, <2>5, <2>6 DEF CycleFrom, k
  <2> QED BY <2>7, <2>8 DEF Safe
<1>5. CASE k > 1 /\ i = 1
  <2> DEFINE t == [j \in 1 .. k |-> IF j < k THEN st[j + 1] ELSE n]
  <2>1. \A j \in 1 .. k - 1 : st[j + 1] \in Names BY <1>1
  <2>2. t \in [1 .. k -> Names]
    <3>1. ASSUME NEW j \in 1 .. k PROVE (IF j < k THEN st[j + 1] ELSE n) \in Names
      BY <1>1, <2>1
    <3> QED BY <3>1
  <2>3. t \in Seq(Names) /\ Len(t) = k BY <1>1, <2>2, PathSequence
  <2>4. (\A j \in 1 .. k - 1 : t[j] = st[j + 1]) /\ t[k] = n BY <1>1
  <2> HIDE DEF t
  <2>5. Path(p, t)
    <3>1. ASSUME NEW j \in 1 .. Len(t) - 1 PROVE t[j + 1] \in DependsOn(p, t[j])
      <4>1. j \in 1 .. k - 1 BY <2>3
      <4>2. CASE j = k - 1
        <5>1. t[j + 1] = n /\ t[j] = st[k] BY <1>1, <2>4, <4>1, <4>2
        <5> QED BY <1>5, <5>1 DEF k
      <4>3. CASE j # k - 1
        <5>1. j + 1 \in 1 .. k - 1 BY <1>1, <4>1, <4>3
        <5> QED BY <1>2, <2>4, <4>1, <5>1
      <4> QED BY <4>2, <4>3
    <3> QED BY <3>1 DEF Path
  <2>6. t[1] = st[2] /\ 1 \in 1 .. Len(t) /\ t[Len(t)] = n BY <1>1, <1>5, <2>3, <2>4
  <2>7. st[2] \in DependsOn(p, n) BY <1>1, <1>2, <1>5
  <2>8. CycleFrom(p, st[2]) BY <2>3, <2>5, <2>6, <2>7 DEF CycleFrom
  <2> QED BY <2>7, <2>8 DEF Safe
<1> QED BY <1>1, <1>3, <1>4, <1>5 DEF k

\* What the walk has passed in a frame reaches no cycle, and what a frame waits
\* for is the frame above it.
FollowedAt(p, fr, i) == p.defs[fr.name][i].k = "ref" /\ p.defs[fr.name][i].to \in Defined(p)
Behind(p, fr) ==
    \A i \in DOMAIN p.defs[fr.name] :
        i < fr.pos /\ FollowedAt(p, fr, i) => Safe(p, p.defs[fr.name][i].to)
Holding(p, fr, above) ==
    fr.pos \in DOMAIN p.defs[fr.name] /\ FollowedAt(p, fr, fr.pos) /\ p.defs[fr.name][fr.pos].to = above.name

Searched(p, st) ==
    /\ \A i \in 1 .. Len(st) : Behind(p, st[i])
    /\ \A i \in 1 .. Len(st) - 1 : Holding(p, st[i], st[i + 1])

SearchInv ==
    /\ phase \in {"cycles", "checks"} =>
          \A n \in Defined(Pkg) \ todo : n \in cyclic[subject] \/ Safe(Pkg, n)
    /\ phase = "cycles" => Searched(Pkg, stack)
    /\ phase = "checks" => todo = {}
    /\ \A s \in {"host", "module"} : cyclic[s] \subseteq Defined(File(s))

LEMMA FrameInFile ==
    ASSUME WalkInv, phase \in {"cycles", "patterns"}, NEW i \in 1 .. Len(stack)
    PROVE  /\ stack[i] \in Frame /\ stack[i].name \in Defined(Pkg) /\ stack[i].name \in Names
           /\ stack[i].pos \in Nat \ {0}
           /\ DOMAIN Pkg.defs[stack[i].name] = 1 .. Len(Pkg.defs[stack[i].name])
           /\ Len(Pkg.defs[stack[i].name]) \in Nat
<1>1. stack \in Seq(Frame) /\ Within(Pkg, stack) BY DEF WalkInv
<1>2. stack[i] \in Frame BY <1>1
<1>3. stack[i].name \in Defined(Pkg) BY <1>1 DEF Within
<1> QED BY <1>2, <1>3, PkgTypes DEF Frame

\* A frame that is left with nothing found is the frame of a safe name.
LEMMA SafeAtEnd ==
    ASSUME WalkInv, SearchInv, phase = "cycles", stack # <<>>, AtEnd
    PROVE  Safe(Pkg, Top.name)
<1>1. stack \in Seq(Frame) /\ Len(stack) \in 1 .. Len(stack) BY DEF WalkInv
<1>2. Top \in Frame /\ Top.name \in Defined(Pkg) /\ Top.name \in Names /\ Top.pos \in Nat
      /\ DOMAIN Pkg.defs[Top.name] = 1 .. Len(Pkg.defs[Top.name]) /\ Len(Pkg.defs[Top.name]) \in Nat
  BY <1>1, FrameInFile DEF Top
<1>3. Behind(Pkg, Top) BY <1>1 DEF SearchInv, Searched, Top
<1>4. \A i \in DOMAIN Pkg.defs[Top.name] : i < Top.pos BY <1>2 DEF AtEnd
<1>5. ASSUME NEW c \in DependsOn(Pkg, Top.name) PROVE Safe(Pkg, c)
  <2>1. c \in RefsIn(Pkg, Top.name) /\ c \in Defined(Pkg) BY <1>2 DEF DependsOn
  <2>2. PICK i \in DOMAIN Pkg.defs[Top.name] :
          Pkg.defs[Top.name][i].k = "ref" /\ c = Pkg.defs[Top.name][i].to
    BY <2>1 DEF RefsIn
  <2> QED BY <1>3, <1>4, <2>1, <2>2 DEF Behind, FollowedAt
<1> QED BY <1>2, <1>5, SafeFromChildren

\* The last frame of a stack goes on past an element that is safe.
LEMMA SearchedPast ==
    ASSUME NEW p, NEW st \in Seq(Frame), st # <<>>, Searched(p, st),
           FollowedAt(p, st[Len(st)], st[Len(st)].pos) => Safe(p, p.defs[st[Len(st)].name][st[Len(st)].pos].to),
           DOMAIN p.defs[st[Len(st)].name] \subseteq Nat
    PROVE  Searched(p, Advanced(st))
<1> DEFINE top == st[Len(st)]
           up == Advanced(st)
<1>1. Len(st) \in Nat \ {0} /\ Len(st) \in 1 .. Len(st) OBVIOUS
<1>2. top \in Frame BY <1>1
<1>3. Len(up) = Len(st) /\ up \in Seq(Frame) /\ \A i \in 1 .. Len(st) : up[i].name = st[i].name
  BY AdvancedFrames
<1>4. \A i \in 1 .. Len(st) : i # Len(st) => up[i] = st[i] BY <1>1 DEF Advanced
<1>5. up[Len(st)].pos = top.pos + 1
  <2>1. up[Len(st)] = [top EXCEPT !.pos = top.pos + 1] BY <1>1 DEF Advanced
  <2>2. \A f \in Frame : [f EXCEPT !.pos = f.pos + 1].pos = f.pos + 1 BY DEF Frame
  <2> QED BY <1>2, <2>1, <2>2
<1>6. top.pos \in Nat /\ up[Len(st)].name = top.name BY <1>1, <1>2, <1>3 DEF Frame
<1> HIDE DEF up
<1>7. Behind(p, top) BY <1>1 DEF Searched
<1>8. Behind(p, up[Len(st)])
  <2> SUFFICES ASSUME NEW i \in DOMAIN p.defs[top.name], i < top.pos + 1, FollowedAt(p, top, i)
               PROVE  Safe(p, p.defs[top.name][i].to)
    BY <1>5, <1>6 DEF Behind, FollowedAt
  <2>1. i \in Nat OBVIOUS
  <2>2. i < top.pos \/ i = top.pos BY <1>6, <2>1
  <2> QED BY <1>7, <2>2 DEF Behind
<1> HIDE DEF top
<1>9. \A i \in 1 .. Len(up) : Behind(p, up[i])
  BY <1>1, <1>3, <1>4, <1>8 DEF Searched
<1>10. ASSUME NEW i \in 1 .. Len(up) - 1 PROVE Holding(p, up[i], up[i + 1])
  <2>1. i \in 1 .. Len(st) - 1 /\ i \in 1 .. Len(st) /\ i # Len(st) /\ i + 1 \in 1 .. Len(st)
    BY <1>1, <1>3
  <2>2. Holding(p, st[i], st[i + 1]) /\ up[i] = st[i] /\ up[i + 1].name = st[i + 1].name
    BY <1>3, <1>4, <2>1 DEF Searched
  <2> QED BY <2>2 DEF Holding
<1> QED BY <1>9, <1>10 DEF Searched, up

LEMMA SearchedInto ==
    ASSUME NEW p, NEW st \in Seq(Frame), NEW n \in Names, Searched(p, st),
           st # <<>> => Holding(p, st[Len(st)], [name |-> n, pos |-> 1]),
           DOMAIN p.defs[n] \subseteq Nat \ {0}
    PROVE  Searched(p, Append(st, [name |-> n, pos |-> 1]))
<1> DEFINE f == [name |-> n, pos |-> 1]
           t == Append(st, f)
<1>1. f \in Frame /\ f.name = n /\ f.pos = 1 BY DEF Frame
<1>2. Behind(p, f)
  <2>1. \A i \in DOMAIN p.defs[n] : ~(i < 1) OBVIOUS
  <2> QED BY <1>1, <2>1 DEF Behind
<1>3. st # <<>> => Holding(p, st[Len(st)], f) OBVIOUS
<1> HIDE DEF f
<1>4. Len(t) = Len(st) + 1 /\ t[Len(st) + 1] = f /\ \A i \in 1 .. Len(st) : t[i] = st[i] BY <1>1
<1>5. Len(st) \in Nat OBVIOUS
<1> HIDE DEF t
<1>6. ASSUME NEW i \in 1 .. Len(t) PROVE Behind(p, t[i])
  <2>1. i \in 1 .. Len(st) \/ i = Len(st) + 1 BY <1>4, <1>5
  <2> QED BY <1>2, <1>4, <2>1 DEF Searched
<1>7. ASSUME NEW i \in 1 .. Len(t) - 1 PROVE Holding(p, t[i], t[i + 1])
  <2>1. CASE i = Len(st)
    <3>1. st # <<>> /\ t[i] = st[Len(st)] /\ t[i + 1] = f BY <1>4, <1>5, <2>1
    <3> QED BY <1>3, <3>1
  <2>2. CASE i # Len(st)
    <3>1. i \in 1 .. Len(st) - 1 /\ i \in 1 .. Len(st) /\ i + 1 \in 1 .. Len(st) BY <1>4, <1>5, <2>2
    <3> QED BY <1>4, <3>1 DEF Searched
  <2> QED BY <2>1, <2>2
<1> QED BY <1>6, <1>7 DEF Searched, t, f

LEMMA SearchedBack ==
    ASSUME NEW p, NEW st \in Seq(Frame), st # <<>>, Searched(p, st), Safe(p, st[Len(st)].name),
           \A i \in 1 .. Len(st) : DOMAIN p.defs[st[i].name] \subseteq Nat
    PROVE  Searched(p, Advanced(SubSeq(st, 1, Len(st) - 1)))
<1> DEFINE t == SubSeq(st, 1, Len(st) - 1)
<1>1. Len(st) \in Nat \ {0} OBVIOUS
<1>2. t \in Seq(Frame) /\ Len(t) = Len(st) - 1 /\ \A i \in 1 .. Len(st) - 1 : t[i] = st[i]
  BY PoppedFrames
<1> HIDE DEF t
<1>3. Searched(p, t)
  <2>1. \A i \in 1 .. Len(t) : i \in 1 .. Len(st) - 1 /\ i \in 1 .. Len(st) BY <1>1, <1>2
  <2>2. \A i \in 1 .. Len(t) - 1 : i \in 1 .. Len(st) - 1 /\ i + 1 \in 1 .. Len(st) - 1 BY <1>1, <1>2
  <2>3. \A i \in 1 .. Len(t) : Behind(p, t[i]) BY <1>2, <2>1 DEF Searched
  <2>4. \A i \in 1 .. Len(t) - 1 : Holding(p, t[i], t[i + 1]) BY <1>2, <2>2 DEF Searched
  <2> QED BY <2>3, <2>4 DEF Searched
<1>4. CASE t = <<>>
  <2>1. Advanced(t) = <<>> BY <1>4 DEF Advanced
  <2>2. Searched(p, <<>>) BY DEF Searched
  <2> QED BY <2>1, <2>2 DEF t
<1>5. CASE t # <<>>
  <2>1. Len(t) \in 1 .. Len(st) - 1 /\ Len(t) + 1 = Len(st) /\ Len(t) \in 1 .. Len(st) BY <1>1, <1>2, <1>5
  <2>2. t[Len(t)] = st[Len(t)] BY <1>2, <2>1
  <2>3. Holding(p, st[Len(t)], st[Len(t) + 1]) BY <2>1 DEF Searched
  <2>4. p.defs[t[Len(t)].name][t[Len(t)].pos].to = st[Len(st)].name BY <2>1, <2>2, <2>3 DEF Holding
  <2>5. DOMAIN p.defs[t[Len(t)].name] \subseteq Nat BY <2>1, <2>2
  <2>6. Searched(p, Advanced(t)) BY <1>2, <1>3, <1>5, <2>4, <2>5, SearchedPast
  <2> QED BY <2>6 DEF t
<1> QED BY <1>4, <1>5

\* A step of the walk that reports nothing and changes no file.
LEMMA SearchInvWalked ==
    ASSUME SearchInv, phase = "cycles", UNCHANGED <<file, phase, subject, cyclic>>,
           Searched(Pkg, stack'),
           \A n \in Defined(Pkg) \ todo' : n \in Defined(Pkg) \ todo \/ Safe(Pkg, n)
    PROVE  SearchInv'
<1>1. Pkg' = Pkg /\ \A s : File(s)' = File(s) BY DEF Pkg, File, file
<1>2. \A n \in Defined(Pkg) \ todo' : n \in cyclic[subject] \/ Safe(Pkg, n) BY DEF SearchInv
<1>3. Searched(Pkg, stack)' BY <1>1
<1> QED BY <1>1, <1>2, <1>3 DEF SearchInv

LEMMA SearchInvPast == ASSUME WalkInv, SearchInv, WalkPast PROVE SearchInv'
<1>1. stack \in Seq(Frame) /\ stack # <<>> /\ phase = "cycles" /\ Len(stack) \in 1 .. Len(stack)
  BY DEF WalkInv, WalkPast, Walking
<1>2. DOMAIN Pkg.defs[stack[Len(stack)].name] \subseteq Nat BY <1>1, FrameInFile
<1>3. ~FollowedAt(Pkg, stack[Len(stack)], stack[Len(stack)].pos)
  BY DEF WalkPast, Followed, FollowedAt, Element, Top
<1>4. Searched(Pkg, stack') BY <1>1, <1>2, <1>3, SearchedPast DEF WalkPast, SearchInv
<1> QED BY <1>1, <1>4, SearchInvWalked DEF WalkPast

LEMMA SearchInvInto == ASSUME WalkInv, SearchInv, WalkInto PROVE SearchInv'
<1>1. stack \in Seq(Frame) /\ stack # <<>> /\ phase = "cycles" /\ Len(stack) \in 1 .. Len(stack)
  BY DEF WalkInv, WalkInto, Walking
<1>2. Element.to \in Names /\ Element.to \in Defined(Pkg)
  BY <1>1, ElementDepends DEF WalkInto, Followed
<1>3. DOMAIN Pkg.defs[Element.to] \subseteq Nat \ {0}
  <2>1. DOMAIN Pkg.defs[Element.to] = 1 .. Len(Pkg.defs[Element.to]) /\ Len(Pkg.defs[Element.to]) \in Nat
    BY <1>2, PkgTypes
  <2> QED BY <2>1
<1>4. Holding(Pkg, Top, [name |-> Element.to, pos |-> 1])
  <2>1. Top.pos \in DOMAIN Pkg.defs[Top.name]
    <3>1. Top.pos \in Nat \ {0} /\ DOMAIN Pkg.defs[Top.name] = 1 .. Len(Pkg.defs[Top.name])
          /\ Len(Pkg.defs[Top.name]) \in Nat
      BY <1>1, FrameInFile DEF Top
    <3> QED BY <3>1 DEF WalkInto, AtEnd
  <2> QED BY <2>1 DEF WalkInto, Followed, FollowedAt, Element, Holding
<1>5. Searched(Pkg, stack') BY <1>1, <1>2, <1>3, <1>4, SearchedInto DEF WalkInto, Enter, SearchInv, Top
<1> QED BY <1>1, <1>5, SearchInvWalked DEF WalkInto

LEMMA SearchInvBack == ASSUME WalkInv, SearchInv, WalkBack PROVE SearchInv'
<1>1. stack \in Seq(Frame) /\ stack # <<>> /\ phase = "cycles" /\ Len(stack) \in 1 .. Len(stack) /\ AtEnd
  BY DEF WalkInv, WalkBack, Walking
<1>2. Safe(Pkg, Top.name) BY <1>1, SafeAtEnd
<1>3. \A i \in 1 .. Len(stack) : DOMAIN Pkg.defs[stack[i].name] \subseteq Nat BY <1>1, FrameInFile
<1>4. Searched(Pkg, stack') BY <1>1, <1>2, <1>3, SearchedBack DEF WalkBack, Leave, SearchInv, Top
<1>5. \A n \in Defined(Pkg) \ todo' : n \in Defined(Pkg) \ todo \/ Safe(Pkg, n)
  BY <1>2 DEF WalkBack
<1> QED BY <1>1, <1>4, <1>5, SearchInvWalked DEF WalkBack

LEMMA SearchInvCycle == ASSUME WalkInv, SearchInv, CycleFound PROVE SearchInv'
<1>1. Pkg' = Pkg /\ (\A s : File(s)' = File(s)) /\ subject' = subject /\ phase' = phase /\ phase = "cycles"
  BY DEF Pkg, File, file, CycleFound, Walking
<1>2. stack[1].name \in Defined(Pkg) /\ subject \in {"host", "module"}
      /\ cyclic \in [{"host", "module"} -> SUBSET Names]
  <2>1. stack \in Seq(Frame) /\ stack # <<>> BY DEF CycleFound, Walking, WalkInv
  <2>2. 1 \in 1 .. Len(stack) BY <2>1
  <2> QED BY <1>1, <2>2, FrameInFile DEF WalkInv
<1>3. cyclic' = [cyclic EXCEPT ![subject] = cyclic[subject] \union {stack[1].name}]
      /\ todo' = todo \ {stack[1].name} /\ stack' = <<>>
  BY DEF CycleFound
<1>4. cyclic'[subject] = cyclic[subject] \union {stack[1].name} BY <1>2, <1>3
<1>5. \A n \in Defined(Pkg) \ todo' : n \in cyclic'[subject] \/ Safe(Pkg, n)
  BY <1>1, <1>3, <1>4 DEF SearchInv
<1>6. \A s \in {"host", "module"} : cyclic'[s] \subseteq Defined(File(s))
  BY <1>2, <1>3 DEF SearchInv, Pkg
<1>7. Searched(Pkg, <<>>) BY DEF Searched
<1> QED BY <1>1, <1>3, <1>5, <1>6, <1>7 DEF SearchInv

LEMMA SearchInvNext == ASSUME WalkInv, SearchInv, [Next]_vars PROVE SearchInv'
<1> USE DEF walk
<1>1. CASE \E n \in Names : WalkFrom(n)
  <2>1. PICK n \in Names : WalkFrom(n) BY <1>1
  <2>2. n \in Defined(Pkg) /\ phase = "cycles" /\ stack = <<>> BY <2>1 DEF WalkFrom, WalkInv
  <2>3. DOMAIN Pkg.defs[n] \subseteq Nat \ {0}
    <3>1. DOMAIN Pkg.defs[n] = 1 .. Len(Pkg.defs[n]) /\ Len(Pkg.defs[n]) \in Nat BY <2>2, PkgTypes
    <3> QED BY <3>1
  <2>4. <<>> \in Seq(Frame) /\ Searched(Pkg, <<>>) BY DEF Searched
  <2>5. Searched(Pkg, stack') BY <2>1, <2>2, <2>3, <2>4, SearchedInto DEF WalkFrom, Enter
  <2> QED BY <2>1, <2>2, <2>5, SearchInvWalked DEF WalkFrom
<1>2. CASE WalkPast BY <1>2, SearchInvPast
<1>3. CASE WalkInto BY <1>3, SearchInvInto
<1>4. CASE CycleFound BY <1>4, SearchInvCycle
<1>5. CASE WalkBack BY <1>5, SearchInvBack
<1>6. CASE SymbolBinding \/ WalksEnd
  <2>1. Pkg' = Pkg /\ (\A s : File(s)' = File(s)) /\ cyclic' = cyclic /\ subject' = subject
    BY <1>6 DEF SymbolBinding, WalksEnd, Pkg, File, file
  <2>2. CASE SymbolBinding
    <3>1. stack' = <<>> /\ phase' = "cycles" /\ todo' = Defined(Pkg)
      BY <2>2 DEF SymbolBinding, WalkInv
    <3>2. Searched(Pkg, <<>>) BY DEF Searched
    <3> QED BY <2>1, <3>1, <3>2 DEF SearchInv
  <2>3. CASE WalksEnd BY <2>1, <2>3 DEF WalksEnd, SearchInv
  <2> QED BY <1>6, <2>2, <2>3
<1>7. CASE UNCHANGED vars
  <2>1. Pkg' = Pkg /\ \A s : File(s)' = File(s) BY <1>7 DEF vars, Pkg, File
  <2>2. cyclic' = cyclic /\ subject' = subject /\ phase' = phase /\ todo' = todo /\ stack' = stack
    BY <1>7 DEF vars
  <2> QED BY <2>1, <2>2 DEF SearchInv
<1>8. CASE ChecksFail \/ ModulePasses \/ HostPasses \/ NextDefinition \/ CompileElement \/ ElementPanics
           \/ CompileReference \/ ReferencePanics \/ DefinitionCompiled \/ PatternsCompiled \/ SkipEOF
           \/ CompileModule \/ constructLexRule \/ RulePanics \/ WithRuleset \/ LexerCompiled
  <2>1. UNCHANGED <<file, cyclic>> /\ phase' \notin {"cycles", "checks"}
    BY <1>8 DEF ChecksFail, ModulePasses, HostPasses, NextDefinition, CompileElement, ElementPanics,
                CompileReference, ReferencePanics, DefinitionCompiled, PatternsCompiled, SkipEOF,
                CompileModule, constructLexRule, RulePanics, WithRuleset, LexerCompiled, Panic, Lowering, InBlock
  <2>2. \A s : File(s)' = File(s) BY <2>1 DEF File, file
  <2> QED BY <2>1, <2>2 DEF SearchInv
<1> QED
  BY <1>1, <1>2, <1>3, <1>4, <1>5, <1>6, <1>7, <1>8 DEF Next

----------------------------------------------------------------------------
(* Panics.  What the checks have let through, and what of it the lowering  *)
(* can rely on.                                                            *)

Clean(p) ==
    /\ ~UnresolvedPattern(p) /\ ~LocalOutside(p)
    /\ \A r \in LexRules(p) : r.how # "none"
    /\ \A e \in ElementsOf(p) : e.k = "not" => ~NegationWrong(e)
    /\ \A n \in Defined(p) : Safe(p, n)
UsingsResolve == \A r \in LexRules(host) : r.how = "using" => r.name \in module.exports
InTable(s) == \A n \in Defined(File(s)) : n \in table[s] \/ n \in File(s).locals

PassInv ==
    /\ DOMAIN told = {"host", "module"} /\ DOMAIN table = {"host", "module"}
    /\ phase \in {"cycles", "checks"} => Stage0(Pkg) \subseteq told[subject]
    /\ phase \in {"symbols", "cycles", "checks"} /\ subject = "host" => Clean(module)
    /\ phase \in {"patterns", "rules", "panic"} => Clean(host) /\ Clean(module) /\ UsingsResolve
    /\ phase = "patterns" => \A n \in Defined(Pkg) \ todo : n \in table[subject] \/ n \in Pkg.locals
    /\ phase = "rules" \/ (phase = "patterns" /\ subject = "module") => InTable("host")
    /\ phase = "rules" /\ subject = "module" => InTable("module")
    /\ OnlyGapsPanic

\* A file that passes is clean: each part of Clean stands behind a code.
LEMMA PassedIsClean ==
    ASSUME SearchInv, PassInv, subject \in {"host", "module"}, phase = "checks", ~Fails(AllCodes)
    PROVE  Clean(Pkg) /\ (subject = "host" => UsingsResolve)
<1>1. \A c \in AllCodes : c \in Warnings BY DEF Fails
<1>2. \A c \in Stage0(Pkg) \union Stage2(Pkg) \union Stage3(Pkg) : c \in Warnings
  BY <1>1 DEF AllCodes, PassInv
<1>3. cyclic[subject] = {}
  <2>1. cyclic[subject] # {} => "V_PAT005" \in AllCodes BY DEF AllCodes
  <2> QED BY <1>1, <2>1 DEF Warnings
<1>4. \A c \in {"V_PAT002", "V_PAT004", "V_IMP005"} : c \notin Stage0(Pkg) BY <1>2 DEF Warnings
<1>5. "V_LEX012" \notin Stage2(Pkg) /\ "V_PAT007" \notin Stage3(Pkg) BY <1>2 DEF Warnings
<1>6. ~UnresolvedPattern(Pkg) /\ ~LocalOutside(Pkg) /\ ~UnresolvedUsing(Pkg) BY <1>4 DEF Stage0
<1>7. \A r \in LexRules(Pkg) : r.how # "none" BY <1>5 DEF Stage2
<1>8. \A e \in ElementsOf(Pkg) : e.k = "not" => ~NegationWrong(e) BY <1>5 DEF Stage3
<1>9. \A n \in Defined(Pkg) : Safe(Pkg, n) BY <1>3 DEF SearchInv
<1>10. subject = "host" => UsingsResolve
  BY <1>6 DEF UnresolvedUsing, UsingsResolve, Pkg, File
<1> QED BY <1>6, <1>7, <1>8, <1>9, <1>10 DEF Clean

\* The element a frame stands at is an element of the file.
LEMMA ElementInFile ==
    ASSUME WalkInv, phase \in {"cycles", "patterns"}, stack # <<>>, ~AtEnd
    PROVE  /\ Top.name \in Defined(Pkg) /\ Top.pos \in DOMAIN Pkg.defs[Top.name]
           /\ Element \in ElementsOf(Pkg)
           /\ Element.k = "ref" => Element.to \in RefsIn(Pkg, Top.name)
           /\ Element.k \in {"text", "regex", "ref", "range", "not", "repeat"}
           /\ Element.k = "not" => Element.of \in {"chars", "range", "other"}
<1>1. stack \in Seq(Frame) /\ Len(stack) \in 1 .. Len(stack) BY DEF WalkInv
<1>2. /\ Top.name \in Defined(Pkg) /\ Top.pos \in Nat \ {0}
      /\ DOMAIN Pkg.defs[Top.name] = 1 .. Len(Pkg.defs[Top.name]) /\ Len(Pkg.defs[Top.name]) \in Nat
  BY <1>1, FrameInFile DEF Top
<1>3. Top.pos \in DOMAIN Pkg.defs[Top.name] BY <1>2 DEF AtEnd
<1>4. Pkg \in {host, module} BY DEF Pkg, File
<1>5. /\ Element.k \in {"text", "regex", "ref", "range", "not", "repeat"}
      /\ Element.k = "not" => Element.of \in {"chars", "range", "other"}
  <2>1. <<host, module>> \in Files BY DEF WalkInv
  <2>2. Top.name \in DOMAIN Pkg.defs BY <1>2 DEF Defined
  <2> DEFINE e(n, i) == Pkg.defs[n][i]
  <2>3. \A n \in DOMAIN Pkg.defs : \A i \in DOMAIN Pkg.defs[n] :
           /\ e(n, i).k \in {"text", "regex", "ref", "range", "not", "repeat"}
           /\ e(n, i).k = "not" => e(n, i).of \in {"chars", "range", "other"}
    BY <1>4, <2>1, DefinitionsAre
  <2> HIDE DEF e
  <2>4. Element = e(Top.name, Top.pos) BY DEF Element, e
  <2> QED BY <1>3, <2>2, <2>3, <2>4
<1>6. \A n \in Defined(Pkg) : \A i \in DOMAIN Pkg.defs[n] :
         /\ Pkg.defs[n][i] \in ElementsOf(Pkg)
         /\ Pkg.defs[n][i].k = "ref" => Pkg.defs[n][i].to \in RefsIn(Pkg, n)
  BY DEF ElementsOf, RefsIn
<1> DEFINE n == Top.name
           i == Top.pos
<1>7. Element = Pkg.defs[n][i] BY DEF Element
<1>8. n \in Defined(Pkg) /\ i \in DOMAIN Pkg.defs[n] BY <1>2, <1>3
<1> HIDE DEF n, i
<1>9. Element \in ElementsOf(Pkg) /\ (Element.k = "ref" => Element.to \in RefsIn(Pkg, n)) BY <1>6, <1>7, <1>8
<1> USE DEF n, i
<1> QED BY <1>5, <1>8, <1>9

\* An element that passes the checks and does not compile is a gap.
LEMMA ElementGap ==
    ASSUME WalkInv, PassInv, ElementPanics PROVE HasGap(Pkg)
<1>1. phase = "patterns" /\ stack # <<>> /\ ~AtEnd /\ Element.k # "ref" /\ ~Compilable(Element)
  BY DEF ElementPanics, Lowering
<1> DEFINE e == Element
<1>2. e \in ElementsOf(Pkg) /\ e.k \in {"text", "regex", "range", "not", "repeat"}
      /\ (e.k = "not" => e.of \in {"chars", "range", "other"})
  BY <1>1, ElementInFile
<1>3. e.k = "not" => e.of # "other"
  <2>1. Clean(Pkg) BY <1>1 DEF PassInv, Pkg, File
  <2> QED BY <1>2, <2>1 DEF Clean, NegationWrong
<1>4. ~Compilable(e) BY <1>1
<1> HIDE DEF e
<1>5. Overlooked(e)
  <2>1. CASE e.k = "text" BY <1>4, <2>1 DEF Compilable
  <2>2. CASE e.k = "regex" BY <1>4, <2>2 DEF Compilable, Overlooked
  <2>3. CASE e.k = "range" BY <1>4, <2>3 DEF Compilable, Overlooked, RangeCompiles
  <2>4. CASE e.k = "not" BY <1>2, <1>3, <1>4, <2>4 DEF Compilable, Overlooked, NegationCompiles
  <2>5. CASE e.k = "repeat"
    <3>1. ~RepetitionCompiles(e) BY <1>4, <2>5 DEF Compilable
    <3>2. \E v \in e.min \union e.max : ~(v <= IntMax) BY <3>1 DEF RepetitionCompiles
    <3>3. \A v \in e.min \union e.max : v \in Int
      <4>1. Pkg \in {host, module} BY DEF Pkg, File
      <4>2. PICK n \in Defined(Pkg) : \E i \in DOMAIN Pkg.defs[n] : e = Pkg.defs[n][i]
        BY <1>2 DEF ElementsOf
      <4>3. <<host, module>> \in Files BY DEF WalkInv
      <4> QED BY <2>5, <4>1, <4>2, <4>3, DefinitionsAre DEF Defined
    <3>4. \E v \in e.min \union e.max : v > IntMax BY <3>2, <3>3, IntMaxAssumption
    <3> QED BY <2>5, <3>4 DEF Overlooked
  <2> QED BY <1>2, <2>1, <2>2, <2>3, <2>4, <2>5
<1> QED BY <1>2, <1>5 DEF HasGap

\* A reference that cannot be compiled is one that a library leaves open: a
\* cycle would have been told.
LEMMA ReferenceGap ==
    ASSUME WalkInv, PassInv, ReferencePanics PROVE HasGap(Pkg)
<1>1. phase = "patterns" /\ stack # <<>> /\ ~AtEnd /\ Element.k = "ref" /\ ~Referable
  BY DEF ReferencePanics, Lowering
<1>2. Top.name \in Defined(Pkg) /\ Element.to \in RefsIn(Pkg, Top.name) BY <1>1, ElementInFile
<1>3. Clean(Pkg) BY <1>1 DEF PassInv, Pkg, File
<1>4. CASE Element.to \in Defined(Pkg)
  <2>1. Element.to \in OnPath BY <1>1, <1>4 DEF Referable
  <2>2. PICK m \in DOMAIN stack : stack[m].name = Element.to BY <2>1 DEF OnPath
  <2>3. stack \in Seq(Frame) /\ m \in 1 .. Len(stack) /\ 1 \in 1 .. Len(stack) /\ Chain(Pkg, stack)
    BY <1>1, <2>2 DEF WalkInv
  <2>4. Element.to \in DependsOn(Pkg, Top.name) BY <1>1, <1>4, ElementDepends
  <2>5. CycleFrom(Pkg, stack[1].name) BY <1>1, <2>2, <2>3, <2>4, ClosingReference DEF Top
  <2>6. stack[1].name \in Defined(Pkg) BY <1>1, <2>3, FrameInFile
  <2> QED BY <1>3, <2>5, <2>6 DEF Clean, Safe
<1>5. CASE Element.to \notin Defined(Pkg)
  <2>1. Pkg.library BY <1>2, <1>3, <1>5 DEF Clean, UnresolvedPattern
  <2> QED BY <1>2, <1>5, <2>1 DEF HasGap
<1> QED BY <1>4, <1>5

\* A lexer rule that cannot be built is a gap: its name is in the table, or the
\* checks would have said so.
LEMMA RuleGap ==
    ASSUME LexInv, WalkInv, PassInv, RulePanics PROVE HasGap(host)
<1>1. phase = "rules" /\ InBlock /\ ~Buildable BY DEF RulePanics, InBlock
<1> DEFINE r == Rule
<1>2. r \in LexRules(host) BY <1>1, RuleTypes
<1>3. /\ r.how \in {"regex", "malformed", "ref", "using", "none"}
      /\ r.priority \subseteq Int /\ r.amount \subseteq Int
  <2>1. group \in DOMAIN host.groups /\ at \in DOMAIN host.groups[group].rules
    BY <1>1, FilesAssumption DEF LexInv, InBlock
  <2>2. <<host, module>> \in Files BY DEF LexInv
  <2> QED BY <2>1, <2>2, DefinitionsAre DEF Rule
<1>4. Clean(host) /\ UsingsResolve /\ InTable("host") /\ (subject = "module" => InTable("module"))
  BY <1>1 DEF PassInv
<1>5. r.how # "none" /\ (r.how = "using" => r.name \in module.exports)
  BY <1>2, <1>4 DEF Clean, UsingsResolve
<1>6. subject \in {"host", "module"} /\ File("host") = host /\ File("module") = module
  BY DEF WalkInv, File
<1>7. module.exports \subseteq Defined(module) \ module.locals
  BY DefinitionsAre DEF LexInv, Defined
<1>8. CASE \E v \in Numbers(r) : v > IntMax BY <1>2, <1>8 DEF HasGap
<1>9. CASE \A v \in Numbers(r) : ~(v > IntMax)
  <2>1. Numbers(r) \subseteq Int BY <1>3 DEF Numbers
  <2>2. \A v \in Numbers(r) : v <= IntMax BY <1>9, <2>1, IntMaxAssumption
  <2>3. NumbersFit /\ PriorityFits BY <2>2 DEF NumbersFit, PriorityFits, Numbers
  <2>4. ~ModuleNeeded /\ ~PatternAtHand BY <1>1, <2>3 DEF Buildable
  <2>5. CASE r.how = "regex" BY <2>4, <2>5 DEF PatternAtHand
  <2>6. CASE r.how = "malformed" BY <1>2, <2>6 DEF HasGap
  <2>7. CASE r.how = "ref"
    <3>1. r.name \notin table["host"] BY <2>4, <2>7 DEF PatternAtHand
    <3>2. r.name \notin host.locals BY <1>2, <1>4, <2>7 DEF Clean, LocalOutside
    <3>3. r.name \notin Defined(host) BY <1>4, <1>6, <3>1, <3>2 DEF InTable
    <3>4. host.library BY <1>2, <1>4, <2>7, <3>3 DEF Clean, UnresolvedPattern
    <3> QED BY <1>2, <2>7, <3>3, <3>4 DEF HasGap
  <2>8. CASE r.how = "using"
    <3>1. subject = "module" BY <1>5, <1>6, <2>4, <2>8 DEF ModuleNeeded
    <3>2. r.name \in Defined(module) \ module.locals BY <1>5, <1>7, <2>8
    <3>3. r.name \in table["module"] BY <1>4, <1>6, <3>1, <3>2 DEF InTable
    <3> QED BY <2>4, <2>8, <3>1, <3>3 DEF PatternAtHand
  <2> QED BY <1>3, <1>5, <2>5, <2>6, <2>7, <2>8
<1> QED BY <1>8, <1>9

\* HasGap and Clean are about the files, which no step changes.
LEMMA FilesStay ==
    ASSUME UNCHANGED file
    PROVE  /\ \A s : File(s)' = File(s)
           /\ HasGap(host)' = HasGap(host) /\ HasGap(module)' = HasGap(module)
           /\ Clean(host)' = Clean(host) /\ Clean(module)' = Clean(module)
           /\ UsingsResolve' = UsingsResolve
BY DEF file, File, UsingsResolve

\* Steps that touch neither the codes nor the tables and stay in their phase.
LEMMA PassInvKept ==
    ASSUME PassInv, UNCHANGED <<file, phase, subject, told, table>>, phase # "panic",
           phase = "patterns" => Defined(Pkg) \ todo' \subseteq Defined(Pkg) \ todo
    PROVE  PassInv'
<1>1. Pkg' = Pkg /\ \A s : File(s)' = File(s) BY DEF Pkg, File, file
<1>2. /\ Stage0(Pkg)' = Stage0(Pkg) BY <1>1 DEF Stage0, UnresolvedUsing, file
<1>3. InTable("host")' = InTable("host") /\ InTable("module")' = InTable("module") BY <1>1 DEF InTable
<1>4. phase' = "patterns" => \A n \in Defined(Pkg) \ todo' : n \in table[subject] \/ n \in Pkg.locals
  BY DEF PassInv
<1> QED BY <1>1, <1>2, <1>3, <1>4, FilesStay DEF PassInv, OnlyGapsPanic

LEMMA PassInvPanics ==
    ASSUME LexInv, WalkInv, PassInv, ElementPanics \/ ReferencePanics \/ RulePanics PROVE PassInv'
<1>1. HasGap(host) \/ HasGap(module)
  <2>1. Pkg \in {host, module} BY DEF Pkg, File
  <2> QED BY <2>1, ElementGap, ReferenceGap, RuleGap
<1>2. UNCHANGED <<file, subject, told, table>> /\ phase' = "panic" /\ phase \in {"patterns", "rules"}
  BY DEF ElementPanics, ReferencePanics, RulePanics, Panic, Lowering, InBlock
<1> QED BY <1>1, <1>2, FilesStay DEF PassInv, OnlyGapsPanic

LEMMA PassInvChecks ==
    ASSUME WalkInv, SearchInv, PassInv, ChecksFail \/ ModulePasses \/ HostPasses \/ WalksEnd \/ SymbolBinding
    PROVE  PassInv'
<1>1. UNCHANGED <<file, table>> /\ subject \in {"host", "module"} /\ DOMAIN told' = {"host", "module"}
  BY DEF ChecksFail, ModulePasses, HostPasses, WalksEnd, SymbolBinding, PassInv, WalkInv
<1>2. CASE ChecksFail
  <2>1. phase' = "failed" BY <1>2 DEF ChecksFail
  <2> QED BY <1>1, <2>1 DEF PassInv, OnlyGapsPanic
<1>3. CASE ModulePasses
  <2>1. phase = "checks" /\ subject = "module" /\ ~Fails(AllCodes) /\ phase' = "symbols" BY <1>3 DEF ModulePasses
  <2>2. Clean(module) BY <1>1, <2>1, PassedIsClean DEF Pkg, File
  <2> QED BY <1>1, <2>1, <2>2, FilesStay DEF PassInv, OnlyGapsPanic
<1>4. CASE HostPasses
  <2>1. phase = "checks" /\ subject = "host" /\ ~Fails(AllCodes) /\ phase' = "patterns" /\ subject' = subject
        /\ todo' = Defined(host)
    BY <1>4 DEF HostPasses
  <2>2. Clean(host) /\ UsingsResolve BY <1>1, <2>1, PassedIsClean DEF Pkg, File
  <2>3. Clean(module) BY <2>1 DEF PassInv
  <2>4. Pkg' = host BY <1>1, <2>1 DEF Pkg, File, file
  <2>5. Defined(Pkg)' \ todo' = {} BY <2>1, <2>4 DEF Defined
  <2> QED BY <1>1, <2>1, <2>2, <2>3, <2>5, FilesStay DEF PassInv, OnlyGapsPanic
<1>5. CASE WalksEnd
  <2>1. phase = "cycles" /\ phase' = "checks" /\ UNCHANGED <<subject, told>> BY <1>5 DEF WalksEnd
  <2>2. Pkg' = Pkg BY <1>1, <2>1 DEF Pkg, File, file
  <2>3. Stage0(Pkg)' = Stage0(Pkg) BY <1>1, <2>1, <2>2 DEF Stage0, UnresolvedUsing, file
  <2> QED BY <1>1, <2>1, <2>2, <2>3, FilesStay DEF PassInv, OnlyGapsPanic
<1>6. CASE SymbolBinding
  <2>1. phase = "symbols" /\ phase' = "cycles" /\ UNCHANGED subject
        /\ told' = [told EXCEPT ![subject] = Stage0(Pkg) \union Stage1Warnings(Pkg)]
    BY <1>6 DEF SymbolBinding
  <2>2. Pkg' = Pkg BY <1>1, <2>1 DEF Pkg, File, file
  <2>3. Stage0(Pkg)' = Stage0(Pkg) BY <1>1, <2>1, <2>2 DEF Stage0, UnresolvedUsing, file
  <2>4. Stage0(Pkg) \subseteq told'[subject] BY <1>1, <2>1 DEF PassInv
  <2> QED BY <1>1, <2>1, <2>2, <2>3, <2>4, FilesStay DEF PassInv, OnlyGapsPanic
<1> QED BY <1>2, <1>3, <1>4, <1>5, <1>6

LEMMA PassInvDefinition == ASSUME WalkInv, PassInv, NextDefinition PROVE PassInv'
<1> DEFINE n == CHOOSE x \in todo : \A y \in todo : x <= y
<1>1. phase = "patterns" /\ UNCHANGED <<file, phase, subject, told>> /\ subject \in {"host", "module"}
  BY DEF NextDefinition, Lowering, WalkInv
<1>2. Pkg' = Pkg /\ \A s : File(s)' = File(s) BY <1>1 DEF Pkg, File, file
<1>3. CASE n \in compiled
  <2>1. todo' = todo \ {n} /\ table' = [table EXCEPT ![subject] = table[subject] \union ({n} \ Pkg.locals)]
    BY <1>3 DEF NextDefinition
  <2> HIDE DEF n
  <2>2. table'[subject] = table[subject] \union ({n} \ Pkg.locals)
        /\ (\A s \in {"host", "module"} : table[s] \subseteq table'[s]) /\ DOMAIN table' = {"host", "module"}
    BY <1>1, <2>1 DEF PassInv
  <2>3. \A m \in Defined(Pkg) \ todo' : m \in table'[subject] \/ m \in Pkg.locals
    BY <1>1, <2>1, <2>2 DEF PassInv
  <2>4. InTable("host") => InTable("host")' BY <1>2, <2>2 DEF InTable
  <2> QED BY <1>1, <1>2, <2>2, <2>3, <2>4, FilesStay DEF PassInv, OnlyGapsPanic
<1>4. CASE n \notin compiled
  <2>1. UNCHANGED <<todo, table>> BY <1>4 DEF NextDefinition
  <2> QED BY <1>1, <2>1, PassInvKept
<1> QED BY <1>3, <1>4

LEMMA PassInvTables ==
    ASSUME WalkInv, PassInv, PatternsCompiled \/ CompileModule \/ constructLexRule \/ LexerCompiled PROVE PassInv'
<1>1. UNCHANGED <<file, told>> /\ DOMAIN table' = {"host", "module"} /\ subject \in {"host", "module"}
  BY DEF PatternsCompiled, CompileModule, constructLexRule, LexerCompiled, PassInv, WalkInv
<1>2. \A s : File(s)' = File(s) BY <1>1, FilesStay
<1>3. CASE PatternsCompiled
  <2>1. phase = "patterns" /\ phase' = "rules" /\ todo = {} /\ UNCHANGED <<subject, table>>
    BY <1>3 DEF PatternsCompiled, Lowering
  <2>2. InTable(subject) BY <2>1 DEF PassInv, InTable, Pkg
  <2>3. InTable("host") /\ (subject = "module" => InTable("module")) BY <1>1, <2>1, <2>2 DEF PassInv
  <2>4. InTable("host")' = InTable("host") /\ InTable("module")' = InTable("module") BY <1>2, <2>1 DEF InTable
  <2> QED BY <1>1, <2>1, <2>3, <2>4, FilesStay DEF PassInv, OnlyGapsPanic
<1>4. CASE CompileModule
  <2>1. phase = "rules" /\ phase' = "patterns" /\ subject' = "module" /\ todo' = Defined(module)
        /\ table' = [table EXCEPT !["module"] = {}]
    BY <1>4 DEF CompileModule, InBlock
  <2>2. table'["host"] = table["host"] BY <2>1 DEF PassInv
  <2>3. InTable("host")' BY <1>2, <2>1, <2>2 DEF PassInv, InTable
  <2>4. Pkg' = module BY <1>1, <2>1 DEF Pkg, File, file
  <2>5. Defined(Pkg)' \ todo' = {} BY <2>1, <2>4 DEF Defined
  <2> QED BY <1>1, <2>1, <2>3, <2>5, FilesStay DEF PassInv, OnlyGapsPanic
<1>5. CASE constructLexRule
  <2>1. phase = "rules" /\ phase' = "rules" /\ subject' = "host" /\ table' = table
    BY <1>5 DEF constructLexRule, InBlock
  <2>2. InTable("host")' = InTable("host") BY <1>2, <2>1 DEF InTable
  <2> QED BY <1>1, <2>1, <2>2, FilesStay DEF PassInv, OnlyGapsPanic
<1>6. CASE LexerCompiled
  <2>1. phase' = "done" BY <1>6 DEF LexerCompiled
  <2> QED BY <1>1, <2>1 DEF PassInv, OnlyGapsPanic
<1> QED BY <1>3, <1>4, <1>5, <1>6

LEMMA PassInvNext == ASSUME LexInv, WalkInv, SearchInv, PassInv, [Next]_vars PROVE PassInv'
<1> USE DEF walk, built
<1>1. CASE ElementPanics \/ ReferencePanics \/ RulePanics BY <1>1, PassInvPanics
<1>2. CASE ChecksFail \/ ModulePasses \/ HostPasses \/ WalksEnd \/ SymbolBinding BY <1>2, PassInvChecks
<1>3. CASE NextDefinition BY <1>3, PassInvDefinition
<1>4. CASE PatternsCompiled \/ CompileModule \/ constructLexRule \/ LexerCompiled BY <1>4, PassInvTables
<1>5. CASE (\E n \in Names : WalkFrom(n)) \/ WalkPast \/ WalkInto \/ CycleFound \/ WalkBack
           \/ CompileElement \/ CompileReference \/ DefinitionCompiled \/ SkipEOF \/ WithRuleset
  <2>1. UNCHANGED <<file, phase, subject, told, table>>
        /\ \/ phase = "cycles"
           \/ phase \in {"patterns", "rules"} /\ todo' = todo
    BY <1>5 DEF WalkFrom, WalkPast, WalkInto, CycleFound, WalkBack, CompileElement, CompileReference,
                DefinitionCompiled, SkipEOF, WithRuleset, Walking, Lowering, InBlock
  <2> QED BY <2>1, PassInvKept
<1>6. CASE UNCHANGED vars
  <2>1. UNCHANGED <<file, phase, subject, told, table, todo>> BY <1>6 DEF vars, file
  <2>2. CASE phase # "panic" BY <2>1, <2>2, PassInvKept
  <2>3. CASE phase = "panic" BY <2>1, <2>3, FilesStay DEF PassInv, OnlyGapsPanic
  <2> QED BY <2>2, <2>3
<1> QED
  BY <1>1, <1>2, <1>3, <1>4, <1>5, <1>6 DEF Next

LEMMA SearchAndPassInit == ASSUME Init PROVE SearchInv /\ PassInv
<1>1. Pkg = module /\ subject = "module" /\ phase = "symbols" BY DEF Init, Pkg, File
<1>2. SearchInv BY <1>1 DEF Init, SearchInv
<1>3. DOMAIN told = {"host", "module"} /\ DOMAIN table = {"host", "module"} BY DEF Init
<1> QED BY <1>1, <1>2, <1>3 DEF PassInv, OnlyGapsPanic

\* Whatever files are compiled, what passes the checks brings the lowering to a
\* panic only with something that the checks are known to overlook.
THEOREM OnlyKnownGapsPanic == Spec => []OnlyGapsPanic
<1> DEFINE Inv == LexInv /\ WalkInv /\ SearchInv /\ PassInv
<1>1. Init => Inv BY LexInvInit, WalkInvInit, SearchAndPassInit
<1>2. Inv /\ [Next]_vars => Inv' BY LexInvNext, WalkInvNext, SearchInvNext, PassInvNext
<1>3. Inv => OnlyGapsPanic BY DEF PassInv
<1> QED BY <1>1, <1>2, <1>3, PTL DEF Spec

----------------------------------------------------------------------------
(* The paths of CyclesToldExactly are no longer than they need be: among   *)
(* the paths from one name to another, a shortest one passes no name twice *)
(* and so is within the bound.                                             *)

Route(p, a, b, k, st) ==
    /\ st \in [1 .. k -> Defined(p)] /\ st[1] = a /\ st[k] = b
    /\ \A i \in 1 .. k - 1 : st[i + 1] \in DependsOn(p, st[i])

\* A name that is passed twice can be passed once.
LEMMA ShorterRoute ==
    ASSUME NEW p, NEW a, NEW b, NEW k \in Nat, k >= 2, NEW st, Route(p, a, b, k, st),
           NEW i \in 2 .. k, NEW j \in 2 .. k, i < j, st[i] = st[j]
    PROVE  k - (j - i) >= 2 /\ \E t : Route(p, a, b, k - (j - i), t)
<1> DEFINE d == j - i
           m == k - d
           t == [x \in 1 .. m |-> IF x <= i THEN st[x] ELSE st[x + d]]
<1>1. d \in Nat /\ d >= 1 /\ m \in Nat /\ m >= i /\ i >= 2 /\ m < k /\ m + d = k /\ i + d = j OBVIOUS
<1>2. st \in [1 .. k -> Defined(p)] /\ st[1] = a /\ st[k] = b
      /\ \A x \in 1 .. k - 1 : st[x + 1] \in DependsOn(p, st[x])
  BY DEF Route
<1> HIDE DEF d, m
<1>3. ASSUME NEW x \in 1 .. m PROVE (IF x <= i THEN st[x] ELSE st[x + d]) \in Defined(p)
  <2>1. x \in 1 .. k /\ x + d \in 1 .. k BY <1>1
  <2> QED BY <1>2, <2>1
<1>4. t \in [1 .. m -> Defined(p)] BY <1>3
<1>5. \A x \in 1 .. m : (x <= i => t[x] = st[x]) /\ (~(x <= i) => t[x] = st[x + d]) OBVIOUS
<1> HIDE DEF t
<1>6. t[1] = a BY <1>1, <1>2, <1>5
<1>7. t[m] = b
  <2>1. CASE m = i BY <1>1, <1>2, <1>5, <2>1
  <2>2. CASE m # i
    <3>1. ~(m <= i) /\ m \in 1 .. m BY <1>1, <2>2
    <3> QED BY <1>1, <1>2, <1>5, <3>1
  <2> QED BY <2>1, <2>2
<1>8. ASSUME NEW x \in 1 .. m - 1 PROVE t[x + 1] \in DependsOn(p, t[x])
  <2>1. x \in 1 .. m /\ x + 1 \in 1 .. m /\ x \in 1 .. k - 1 /\ x + d \in 1 .. k - 1 BY <1>1
  <2>2. CASE x < i
    <3>1. x <= i /\ x + 1 <= i BY <2>1, <2>2
    <3> QED BY <1>2, <1>5, <2>1, <3>1
  <2>3. CASE x = i
    <3>1. t[x] = st[j] /\ t[x + 1] = st[x + 1 + d] /\ x + 1 + d = j + 1 /\ j \in 1 .. k - 1
      BY <1>1, <1>5, <2>1, <2>3
    <3> QED BY <1>2, <3>1
  <2>4. CASE x > i
    <3>1. t[x] = st[x + d] /\ t[x + 1] = st[x + 1 + d] /\ x + 1 + d = (x + d) + 1
      BY <1>1, <1>5, <2>1, <2>4
    <3> QED BY <1>2, <2>1, <3>1
  <2> QED BY <1>1, <2>1, <2>2, <2>3, <2>4
<1>9. Route(p, a, b, m, t) BY <1>4, <1>6, <1>7, <1>8 DEF Route
<1>10. m >= 2 BY <1>1
<1> QED BY <1>9, <1>10 DEF m, d

LEMMA RouteIsPath ==
    ASSUME NEW p, IsFiniteSet(Defined(p)), NEW a, NEW b, NEW k0 \in Nat, k0 >= 2, NEW s0, Route(p, a, b, k0, s0)
    PROVE  PathFrom(p, a, b)
<1> DEFINE Lengths == {k \in Nat : k >= 2 /\ \E st : Route(p, a, b, k, st)}
<1>1. \E k \in Lengths : \A l \in Lengths : k <= l
  <2>1. Lengths \subseteq Nat /\ k0 \in Lengths OBVIOUS
  <2> HIDE DEF Lengths
  <2> QED BY <2>1, LeastName
<1>2. PICK k \in Lengths : \A l \in Lengths : k <= l BY <1>1
<1>3. PICK st : Route(p, a, b, k, st) BY <1>2
<1>4. k \in Nat /\ k >= 2 BY <1>2
<1>5. \A i, j \in 2 .. k : i < j => st[i] # st[j]
  <2> SUFFICES ASSUME NEW i \in 2 .. k, NEW j \in 2 .. k, i < j, st[i] = st[j] PROVE FALSE
    OBVIOUS
  <2>1. k - (j - i) >= 2 /\ \E t : Route(p, a, b, k - (j - i), t) BY <1>3, <1>4, ShorterRoute
  <2>2. k - (j - i) \in Nat /\ k - (j - i) < k BY <1>4
  <2>3. k - (j - i) \in Lengths BY <2>1, <2>2
  <2> HIDE DEF Lengths
  <2> QED BY <1>2, <1>4, <2>2, <2>3
<1>6. \A i, j \in 2 .. k : i # j => st[i] # st[j]
  <2>1. \A i, j \in 2 .. k : i # j => i < j \/ j < i BY <1>4
  <2> QED BY <1>5, <2>1
<1> HIDE DEF Lengths
<1>7. k \in 2 .. Cardinality(Defined(p)) + 1
  <2> DEFINE f == [i \in 2 .. k |-> st[i]]
  <2>1. f \in [2 .. k -> Defined(p)]
    <3>1. \A i \in 2 .. k : i \in 1 .. k BY <1>4
    <3> QED BY <1>3, <3>1 DEF Route
  <2>2. IsFiniteSet(2 .. k) /\ Cardinality(2 .. k) = k - 1
    <3>1. k \in Int /\ 2 \in Int /\ ~(2 > k) BY <1>4
    <3> QED BY <3>1, FS_Interval
  <2>3. Cardinality(Defined(p)) \in Nat BY FS_CardinalityType
  <2>4. ~\E i, j \in 2 .. k : i # j /\ f[i] = f[j] BY <1>6
  <2> HIDE DEF f
  <2>5. ~(Cardinality(Defined(p)) < Cardinality(2 .. k)) BY <2>1, <2>2, <2>4, FS_PigeonHole
  <2> QED BY <1>4, <2>2, <2>3, <2>5
<1>8. st \in Seq(Defined(p)) /\ Len(st) = k BY <1>3, <1>4 DEF Route
<1>9. st \in [1 .. k -> Defined(p)] /\ st[1] = a /\ st[k] = b /\ Path(p, st)
  BY <1>3, <1>8 DEF Route, Path
<1> QED BY <1>7, <1>9 DEF PathFrom

LEMMA DependsInside ==
    ASSUME NEW p, NEW n, NEW m \in DependsOn(p, n) PROVE n \in Defined(p) /\ m \in Defined(p)
BY DEF DependsOn

\* A path that comes back to one of its own names leads from its start to a
\* name on a cycle.
LEMMA CycleIsReached ==
    ASSUME NEW p, IsFiniteSet(Defined(p)), NEW n, CycleFrom(p, n)
    PROVE  n \in Defined(p) /\ ReachesCycle(p, n)
<1>1. PICK st \in Seq(Names) : \E i \in 1 .. Len(st) :
        st[1] = n /\ Path(p, st) /\ st[i] \in DependsOn(p, st[Len(st)])
  BY DEF CycleFrom
<1>2. PICK i \in 1 .. Len(st) : st[1] = n /\ Path(p, st) /\ st[i] \in DependsOn(p, st[Len(st)]) BY <1>1
<1> DEFINE k == Len(st)
           m == st[i]
<1>3. k \in Nat /\ k >= 1 /\ i \in 1 .. k /\ i \in Nat BY <1>2
<1>4. \A x \in 1 .. k - 1 : st[x + 1] \in DependsOn(p, st[x]) BY <1>2 DEF Path
<1>5. m \in DependsOn(p, st[k]) BY <1>2
<1> HIDE DEF k
<1>6. \A x \in 1 .. k : st[x] \in Defined(p)
  <2> SUFFICES ASSUME NEW x \in 1 .. k PROVE st[x] \in Defined(p) OBVIOUS
  <2>1. CASE x = k BY <1>5, <2>1, DependsInside
  <2>2. CASE x # k
    <3>1. x \in 1 .. k - 1 BY <1>3, <2>2
    <3> QED BY <1>4, <3>1, DependsInside
  <2> QED BY <2>1, <2>2
<1>7. m \in Defined(p) BY <1>3, <1>6
<1>8. PathFrom(p, m, m)
  <2> DEFINE l == k - i + 2
             t == [x \in 1 .. l |-> IF x = l THEN m ELSE st[x + i - 1]]
  <2>1. l \in Nat /\ l >= 2 /\ k - i = l - 2 BY <1>3
  <2>2. ASSUME NEW x \in 1 .. l PROVE (IF x = l THEN m ELSE st[x + i - 1]) \in Defined(p)
    <3>1. CASE x = l BY <1>7, <3>1
    <3>2. CASE x # l
      <4>1. x + i - 1 \in 1 .. k BY <1>3, <2>1, <3>2
      <4> QED BY <1>6, <3>2, <4>1
    <3> QED BY <3>1, <3>2
  <2>3. t \in [1 .. l -> Defined(p)] BY <2>2
  <2>4. t[l] = m /\ \A x \in 1 .. l - 1 : t[x] = st[x + i - 1] BY <2>1
  <2> HIDE DEF l, t
  <2>5. t[1] = m
    <3>1. t[1] = st[1 + i - 1] /\ 1 + i - 1 = i BY <1>3, <2>1, <2>4
    <3> QED BY <3>1
  <2>6. ASSUME NEW x \in 1 .. l - 1 PROVE t[x + 1] \in DependsOn(p, t[x])
    <3>1. CASE x = l - 1
      <4>1. t[x + 1] = m /\ t[x] = st[x + i - 1] /\ x + i - 1 = k BY <1>3, <2>1, <2>4, <3>1
      <4> QED BY <1>5, <4>1
    <3>2. CASE x # l - 1
      <4>1. x + 1 \in 1 .. l - 1 /\ x + i - 1 \in 1 .. k - 1 /\ x + 1 + i - 1 = (x + i - 1) + 1
        BY <1>3, <2>1, <3>2
      <4> QED BY <1>4, <2>4, <4>1
    <3> QED BY <3>1, <3>2
  <2>7. Route(p, m, m, l, t) BY <2>3, <2>4, <2>5, <2>6 DEF Route
  <2> QED BY <2>1, <2>7, RouteIsPath
<1>9. n = m \/ PathFrom(p, n, m)
  <2>1. CASE i = 1 BY <1>2, <2>1
  <2>2. CASE i # 1
    <3> DEFINE t == [x \in 1 .. i |-> st[x]]
    <3>1. \A x \in 1 .. i : x \in 1 .. k BY <1>3
    <3>2. t \in [1 .. i -> Defined(p)] BY <1>6, <3>1
    <3>3. \A x \in 1 .. i : t[x] = st[x] OBVIOUS
    <3> HIDE DEF t
    <3>4. ASSUME NEW x \in 1 .. i - 1 PROVE t[x + 1] \in DependsOn(p, t[x])
      <4>1. x \in 1 .. k - 1 /\ x \in 1 .. i /\ x + 1 \in 1 .. i BY <1>3
      <4> QED BY <1>4, <3>3, <4>1
    <3>5. t[1] = n /\ t[i] = m /\ i >= 2 BY <1>2, <1>3, <2>2, <3>3
    <3>6. Route(p, n, m, i, t) BY <3>2, <3>4, <3>5 DEF Route
    <3> QED BY <1>3, <3>5, <3>6, RouteIsPath
  <2> QED BY <2>1, <2>2
<1>10. n \in Defined(p) BY <1>2, <1>3, <1>6
<1> QED BY <1>7, <1>8, <1>9, <1>10 DEF ReachesCycle

\* And back: a path to a cycle, and once around it.
LEMMA ReachedIsCycle ==
    ASSUME NEW p, Defined(p) \subseteq Names, NEW n \in Defined(p), ReachesCycle(p, n)
    PROVE  CycleFrom(p, n)
<1>1. PICK m \in Defined(p) : PathFrom(p, m, m) /\ (n = m \/ PathFrom(p, n, m)) BY DEF ReachesCycle
<1>2. ASSUME NEW k, NEW st \in [1 .. k -> Defined(p)], k \in 2 .. Cardinality(Defined(p)) + 1, Path(p, st)
      PROVE  k \in Nat /\ k >= 2 /\ st \in Seq(Names) /\ Len(st) = k
             /\ \A x \in 1 .. k - 1 : st[x + 1] \in DependsOn(p, st[x])
  <2>1. k \in Nat /\ k >= 2 BY <1>2
  <2>2. st \in [1 .. k -> Names] OBVIOUS
  <2>3. st \in Seq(Names) /\ Len(st) = k BY <2>1, <2>2, PathSequence
  <2> QED BY <1>2, <2>1, <2>3 DEF Path
<1>3. PICK c \in 2 .. Cardinality(Defined(p)) + 1 : \E st \in [1 .. c -> Defined(p)] :
        st[1] = m /\ st[c] = m /\ Path(p, st)
  BY <1>1 DEF PathFrom
<1>4. PICK ring \in [1 .. c -> Defined(p)] : ring[1] = m /\ ring[c] = m /\ Path(p, ring) BY <1>3
<1> HIDE DEF Path, PathFrom
<1>5. c \in Nat /\ c >= 2 /\ \A x \in 1 .. c - 1 : ring[x + 1] \in DependsOn(p, ring[x])
  <2>1. Path(p, ring) BY <1>4
  <2> QED BY <1>2, <2>1
<1>6. \E k \in Nat \ {0} : \E st \in [1 .. k -> Defined(p)] :
        st[1] = n /\ st[k] = m /\ \A x \in 1 .. k - 1 : st[x + 1] \in DependsOn(p, st[x])
  <2>1. CASE n = m
    <3> DEFINE one == [x \in 1 .. 1 |-> m]
    <3>1. one \in [1 .. 1 -> Defined(p)] /\ one[1] = m /\ \A x \in 1 .. 1 - 1 : one[x + 1] \in DependsOn(p, one[x])
      OBVIOUS
    <3> HIDE DEF one
    <3> USE <3>1
    <3> WITNESS 1 \in Nat \ {0}
    <3> WITNESS one \in [1 .. 1 -> Defined(p)]
    <3> QED BY <2>1, <3>1
  <2>2. CASE PathFrom(p, n, m)
    <3>1. PICK k \in 2 .. Cardinality(Defined(p)) + 1 : \E st \in [1 .. k -> Defined(p)] :
            st[1] = n /\ st[k] = m /\ Path(p, st)
      BY <2>2 DEF PathFrom
    <3>2. PICK st \in [1 .. k -> Defined(p)] : st[1] = n /\ st[k] = m /\ Path(p, st) BY <3>1
    <3>3. k \in Nat /\ k >= 2 /\ \A x \in 1 .. k - 1 : st[x + 1] \in DependsOn(p, st[x])
      <4>1. Path(p, st) BY <3>2
      <4> QED BY <1>2, <4>1
    <3>4. k \in Nat \ {0} BY <3>3
    <3> QED BY <3>2, <3>3, <3>4
  <2> QED BY <1>1, <2>1, <2>2
<1>7. PICK k \in Nat \ {0} : \E st \in [1 .. k -> Defined(p)] :
        st[1] = n /\ st[k] = m /\ \A x \in 1 .. k - 1 : st[x + 1] \in DependsOn(p, st[x])
  BY <1>6
<1>8. PICK way \in [1 .. k -> Defined(p)] :
        way[1] = n /\ way[k] = m /\ \A x \in 1 .. k - 1 : way[x + 1] \in DependsOn(p, way[x])
  BY <1>7
<1> DEFINE l == k + c - 2
           t == [x \in 1 .. l |-> IF x <= k THEN way[x] ELSE ring[x - k + 1]]
<1>9. l \in Nat /\ l >= k /\ l >= 1 /\ l - k = c - 2 BY <1>5
<1>10. ASSUME NEW x \in 1 .. l PROVE (IF x <= k THEN way[x] ELSE ring[x - k + 1]) \in Names
  <2>1. x <= k => x \in 1 .. k OBVIOUS
  <2>2. ~(x <= k) => x - k + 1 \in 1 .. c BY <1>5, <1>9
  <2> QED BY <2>1, <2>2
<1>11. t \in [1 .. l -> Names] BY <1>10
<1>12. (\A x \in 1 .. k : t[x] = way[x]) /\ (\A x \in k + 1 .. l : t[x] = ring[x - k + 1]) BY <1>9
<1> HIDE DEF l, t
<1>13. t \in Seq(Names) /\ Len(t) = l BY <1>9, <1>11, PathSequence
<1>14. \A x \in k .. l : t[x] = ring[x - k + 1]
  <2> SUFFICES ASSUME NEW x \in k .. l PROVE t[x] = ring[x - k + 1] OBVIOUS
  <2>1. CASE x = k
    <3>1. k \in 1 .. k /\ x - k + 1 = 1 BY <2>1
    <3> QED BY <1>4, <1>8, <1>12, <2>1, <3>1
  <2>2. CASE x # k
    <3>1. x \in k + 1 .. l BY <1>9, <2>2
    <3> QED BY <1>12, <3>1
  <2> QED BY <2>1, <2>2
<1>15. Path(p, t)
  <2>1. ASSUME NEW x \in 1 .. l - 1 PROVE t[x + 1] \in DependsOn(p, t[x])
    <3>1. CASE x < k
      <4>1. x \in 1 .. k - 1 /\ x \in 1 .. k /\ x + 1 \in 1 .. k BY <3>1
      <4> QED BY <1>8, <1>12, <4>1
    <3>2. CASE ~(x < k)
      <4>1. x \in k .. l /\ x + 1 \in k .. l /\ x - k + 1 \in 1 .. c - 1 /\ (x + 1) - k + 1 = (x - k + 1) + 1
        BY <1>5, <1>9, <3>2
      <4> QED BY <1>5, <1>14, <4>1
    <3> QED BY <3>1, <3>2
  <2> QED BY <1>13, <2>1 DEF Path
<1>16. t[1] = n /\ t[k] = m /\ k \in 1 .. Len(t) /\ t[k] \in DependsOn(p, t[Len(t)])
  <2>1. 1 \in 1 .. k /\ k \in 1 .. k /\ l \in k .. l BY <1>9
  <2>2. t[l] = ring[c - 1]
    <3>1. l - k + 1 = c - 1 BY <1>5, <1>9
    <3> QED BY <1>14, <2>1, <3>1
  <2>3. m \in DependsOn(p, ring[c - 1])
    <3>1. c - 1 \in 1 .. c - 1 /\ (c - 1) + 1 = c BY <1>5
    <3> QED BY <1>4, <1>5, <3>1
  <2> QED BY <1>8, <1>9, <1>12, <1>13, <2>1, <2>2, <2>3
<1> QED BY <1>13, <1>15, <1>16 DEF CycleFrom

\* Whatever files are compiled, the search of stage 1, which marks nothing but
\* its own path and stops at the first cycle, tells exactly the names from
\* which a cycle is reached.
THEOREM CyclesAlwaysToldExactly == Spec => []CyclesToldExactly
<1> DEFINE Inv == WalkInv /\ SearchInv
<1>1. Init => Inv BY WalkInvInit, SearchAndPassInit
<1>2. Inv /\ [Next]_vars => Inv' BY WalkInvNext, SearchInvNext
<1>3. Inv => CyclesToldExactly
  <2> SUFFICES ASSUME WalkInv, SearchInv, phase = "checks"
               PROVE  cyclic[subject] = {n \in Defined(Pkg) : ReachesCycle(Pkg, n)}
    BY DEF CyclesToldExactly
  <2>1. subject \in {"host", "module"} /\ Pkg = File(subject) BY DEF WalkInv, Pkg
  <2>2. Defined(Pkg) \subseteq Names BY PkgTypes
  <2>3. IsFiniteSet(Defined(Pkg))
    <3>1. Pkg \in {host, module} BY DEF Pkg, File
    <3>2. <<host, module>> \in Files BY DEF WalkInv
    <3> QED BY <3>1, <3>2, DefinitionsAre DEF Defined
  <2>4. ASSUME NEW n \in cyclic[subject] PROVE n \in Defined(Pkg) /\ ReachesCycle(Pkg, n)
    <3>1. CycleFrom(Pkg, n) BY <2>1 DEF WalkInv, CyclesAreReal
    <3> QED BY <2>3, <3>1, CycleIsReached
  <2>5. ASSUME NEW n \in Defined(Pkg), ReachesCycle(Pkg, n) PROVE n \in cyclic[subject]
    <3>1. CycleFrom(Pkg, n) BY <2>2, <2>5, ReachedIsCycle
    <3> QED BY <3>1 DEF SearchInv, Safe
  <2> QED BY <2>4, <2>5
<1> QED BY <1>1, <1>2, <1>3, PTL DEF Spec

=============================================================================
