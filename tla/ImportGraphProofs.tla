------------------------- MODULE ImportGraphProofs -------------------------
(***************************************************************************)
(* What holds of the import walk for every number of files, aliases and    *)
(* imports: its types; that an alias is never bound twice; that on success *)
(* every import of every file that was walked means the file it names;     *)
(* that modules are validated after what they import, in a tree without a  *)
(* cycle; that failures and warnings are told; and that a legal tree of    *)
(* files is accepted.                                                      *)
(***************************************************************************)
EXTENDS ImportGraph, FiniteSetTheorems, WellFoundedInduction, TLAPS

(* The inductive invariant, in terms of the walks that have not returned.  *)
(* An import is settled when it was skipped as repeated or bound as it     *)
(* declares.                                                               *)
Settled(m, i) == Repeated(m, i) \/ Bound(m, i)

OneWalkPerFile ==
  \A i, j \in 1..Len(stack) : stack[i] = stack[j] => i = j

NotYetWalked == \A m \in Modules \ visited : next[m] = 1

PassedImportsSettled ==
  \A m \in Modules : \A i \in 1..Len(Imports(m)) : i < next[m] => Settled(m, i)

UnfinishedOnStack ==
  \A m \in visited :
    next[m] <= Len(Imports(m)) => \E i \in 1..Len(stack) : stack[i] = m

(* A walk that waits for the import it is at, or that validates it, has     *)
(* bound it.                                                                *)
PendingBound ==
  \A i \in 1..Len(stack) :
    i > 1 \/ pc = "validate" =>
      /\ next[stack[i]] <= Len(Imports(stack[i]))
      /\ Bound(stack[i], next[stack[i]])

EndsEmpty == pc = "done" /\ err = "none" => stack = <<>>

Walks ==
  /\ OneWalkPerFile
  /\ NotYetWalked
  /\ PassedImportsSettled
  /\ UnfinishedOnStack
  /\ PendingBound
  /\ EndsEmpty

Inv == TypeOK /\ Walks
-----------------------------------------------------------------------------
(* Pushing a value a sequence does not hold, and popping, as facts about   *)
(* indices.                                                                *)
LEMMA PushFacts ==
  ASSUME NEW S, NEW s \in Seq(S), NEW e \in S
  PROVE  /\ <<e>> \o s \in Seq(S)
         /\ Len(<<e>> \o s) = Len(s) + 1
         /\ (<<e>> \o s)[1] = e
         /\ \A i \in 2..(Len(s) + 1) : (<<e>> \o s)[i] = s[i - 1]
  OBVIOUS

(* Popping a value moves the others one place down: the return of a walk.   *)
LEMMA PopFacts ==
  ASSUME NEW S, NEW s \in Seq(S), s # <<>>
  PROVE  /\ Len(s) \in Nat \ {0}
         /\ Head(s) = s[1] /\ s[1] \in S
         /\ Tail(s) \in Seq(S)
         /\ Len(Tail(s)) = Len(s) - 1
         /\ \A i \in 1..(Len(s) - 1) : Tail(s)[i] = s[i + 1]
  OBVIOUS

(* A sequence over a set is one over any larger set: visited only grows.    *)
LEMMA SeqOfLarger ==
  ASSUME NEW S, NEW T, S \subseteq T, NEW s \in Seq(S)
  PROVE  s \in Seq(T)
<1>1. /\ Len(s) \in Nat
      /\ s \in [1..Len(s) -> S]
  OBVIOUS
<1>2. s \in [1..Len(s) -> T]
  BY <1>1
<1> QED
  BY <1>1, <1>2

(* What an import refers to is in range.                                   *)
LEMMA CurrentTyped ==
  ASSUME TypeOK, stack # <<>>
  PROVE  /\ Top \in visited /\ Top \in Modules /\ Top = stack[1]
         /\ next[Top] \in Nat \ {0}
         /\ Imports(Top) \in Seq(Import)
         /\ next[Top] <= Len(Imports(Top)) =>
              /\ Current \in Import
              /\ Current.alias \in Aliases
              /\ Current.path \in Modules
<1>1. stack \in Seq(visited) /\ visited \subseteq Modules
  BY DEF TypeOK
<1>2. Top \in visited /\ Top = stack[1]
  BY <1>1, PopFacts DEF Top
<1>3. next[Top] \in Nat \ {0} /\ Imports(Top) \in Seq(Import)
  BY <1>1, <1>2 DEF TypeOK, Imports
<1>4. next[Top] <= Len(Imports(Top)) => Current \in Import
  BY <1>3 DEF Current
<1> QED
  BY <1>1, <1>2, <1>3, <1>4 DEF Import

(* The call stack keeps its type when more files have been visited.         *)
LEMMA StackTyped ==
  ASSUME TypeOK
  PROVE  /\ stack \in Seq(Modules) /\ Len(stack) \in Nat
         /\ \A i \in 1..Len(stack) : stack[i] \in visited /\ stack[i] \in Modules
<1>1. stack \in Seq(visited) /\ visited \subseteq Modules
  BY DEF TypeOK
<1> QED
  BY <1>1, SeqOfLarger

(* Moving a walk to its next import keeps the places of the walks typed.    *)
LEMMA AdvanceTyped ==
  ASSUME TypeOK, stack # <<>>, next' = [next EXCEPT ![Top] = @ + 1]
  PROVE  next' \in [Modules -> Nat \ {0}]
<1>1. Top \in Modules
  BY CurrentTyped
<1>2. next \in [Modules -> Nat \ {0}]
  BY DEF TypeOK
<1>3. next[Top] + 1 \in Nat \ {0}
  BY <1>1, <1>2
<1> QED
  BY <1>1, <1>2, <1>3

(* A report under the current import keeps the diagnostics typed.           *)
LEMMA ReportTyped ==
  ASSUME TypeOK, Current.alias \in Aliases, Current.path \in Modules,
         NEW codes \in SUBSET {"IMPORT_PARSE", "SYNTAX", "WARNING", "ERROR"},
         Report(codes)
  PROVE  diags' \subseteq [alias : Aliases, path : Modules,
                          code : {"IMPORT_PARSE", "SYNTAX", "WARNING", "ERROR"}]
<1>1. [alias : {Current.alias}, path : {Current.path}, code : codes]
        \subseteq [alias : Aliases, path : Modules,
                   code : {"IMPORT_PARSE", "SYNTAX", "WARNING", "ERROR"}]
  OBVIOUS
<1> QED
  BY <1>1 DEF Report, TypeOK

(* While a module is validated, the import it was bound for is in range:   *)
(* this is where the types need the walks' invariant.                      *)
LEMMA ValidatedTyped ==
  ASSUME TypeOK, PendingBound, pc = "validate"
  PROVE  /\ stack # <<>>
         /\ next[Top] <= Len(Imports(Top))
         /\ Current.alias \in Aliases /\ Current.path \in Modules
         /\ byAlias[Current.alias] = Current.path
<1>1. stack # <<>> /\ stack \in Seq(visited)
  BY DEF TypeOK
<1>2. 1 \in 1..Len(stack) /\ Top = stack[1]
  BY <1>1, PopFacts DEF Top
<1>3. next[Top] <= Len(Imports(Top)) /\ Bound(Top, next[Top])
  BY <1>2 DEF PendingBound
<1> QED
  BY <1>1, <1>3, CurrentTyped DEF Bound, Current

(* Every step of the walk keeps the types.                                  *)
LEMMA TypeStep == TypeOK /\ PendingBound /\ [Next]_vars => TypeOK'
<1> SUFFICES ASSUME TypeOK, PendingBound, [Next]_vars PROVE TypeOK'
  OBVIOUS
<1>1. CASE SkipRepeatedAlias
  <2>1. stack # <<>>
    BY <1>1 DEF SkipRepeatedAlias, AtImport, TypeOK
  <2>2. next' \in [Modules -> Nat \ {0}]
    BY <1>1, <2>1, AdvanceTyped DEF SkipRepeatedAlias
  <2> QED
    BY <1>1, <2>1, <2>2 DEF SkipRepeatedAlias, AtImport, TypeOK
<1>2. CASE RefuseTakenAlias
  BY <1>2 DEF RefuseTakenAlias, Fail, TypeOK
<1>3. CASE FailParse
  <2>1. stack # <<>> /\ next[Top] <= Len(Imports(Top))
    BY <1>3 DEF FailParse, AtImport, TypeOK
  <2>2. Current.alias \in Aliases /\ Current.path \in Modules
    BY <2>1, CurrentTyped
  <2>3. \/ Report({"IMPORT_PARSE"})
        \/ Report({"SYNTAX"})
        \/ Report({"SYNTAX", "IMPORT_PARSE"})
    BY <1>3 DEF FailParse
  <2>4. diags' \subseteq [alias : Aliases, path : Modules,
                        code : {"IMPORT_PARSE", "SYNTAX", "WARNING", "ERROR"}]
    BY <2>2, <2>3, ReportTyped
  <2> QED
    BY <1>3, <2>1, <2>4 DEF FailParse, Fail, TypeOK
<1>4. CASE BindAndWalk
  <2>1. stack # <<>> /\ next[Top] <= Len(Imports(Top))
    BY <1>4 DEF BindAndWalk, AtImport, TypeOK
  <2>2. Current.alias \in Aliases /\ Current.path \in Modules
    BY <2>1, CurrentTyped
  <2>3. byAlias' \in [Aliases -> Modules \cup {NoModule}]
    <3>1. byAlias \in [Aliases -> Modules \cup {NoModule}]
      BY DEF TypeOK
    <3> QED
      BY <1>4, <2>2, <3>1 DEF BindAndWalk
  <2>4. CASE Current.path \in visited
    BY <1>4, <2>1, <2>3, <2>4 DEF BindAndWalk, AtImport, TypeOK
  <2>5. CASE Current.path \notin visited
    <3>1. visited' = visited \cup {Current.path} /\ stack' = <<Current.path>> \o stack
      BY <1>4, <2>5 DEF BindAndWalk
    <3>2. stack \in Seq(visited')
      BY <3>1, SeqOfLarger DEF TypeOK
    <3>3. stack' \in Seq(visited') /\ Len(stack') = Len(stack) + 1
      BY <3>1, <3>2, PushFacts
    <3>4. Len(stack) \in Nat
      BY <3>2
    <3>5. stack' # <<>>
      BY <3>3, <3>4
    <3> QED
      BY <1>4, <2>2, <2>3, <2>5, <3>1, <3>3, <3>5 DEF BindAndWalk, AtImport, TypeOK
  <2> QED
    BY <2>4, <2>5
<1>5. CASE ValidateImport
  <2>1. stack # <<>>
    BY <1>5 DEF ValidateImport, TypeOK
  <2>2. Current.alias \in Aliases /\ Current.path \in Modules
    BY <1>5, ValidatedTyped DEF ValidateImport
  <2>3. diags' \subseteq [alias : Aliases, path : Modules,
                        code : {"IMPORT_PARSE", "SYNTAX", "WARNING", "ERROR"}]
    BY <1>5, <2>2, ReportTyped DEF ValidateImport, Findings
  <2>4. CASE FailsCompilation(Current.path)
    BY <1>5, <2>1, <2>3, <2>4 DEF ValidateImport, Fail, TypeOK
  <2>5. CASE ~FailsCompilation(Current.path)
    <3>1. next' \in [Modules -> Nat \ {0}]
      BY <1>5, <2>1, <2>5, AdvanceTyped DEF ValidateImport
    <3> QED
      BY <1>5, <2>1, <2>2, <2>3, <2>5, <3>1 DEF ValidateImport, TypeOK
  <2> QED
    BY <2>4, <2>5
<1>6. CASE ReturnFromWalk
  <2>1. stack # <<>> /\ stack \in Seq(visited)
    BY <1>6 DEF ReturnFromWalk, TypeOK
  <2>2. stack' \in Seq(visited) /\ Len(stack') = Len(stack) - 1
    BY <1>6, <2>1, PopFacts DEF ReturnFromWalk
  <2>3. Len(stack) # 1 => stack' # <<>>
    BY <2>1, <2>2, PopFacts
  <2> QED
    BY <1>6, <2>2, <2>3 DEF ReturnFromWalk, TypeOK
<1>7. CASE Finished
  BY <1>7 DEF Finished, vars, TypeOK
<1>8. CASE UNCHANGED vars
  BY <1>8 DEF vars, TypeOK
<1> QED
  BY <1>1, <1>2, <1>3, <1>4, <1>5, <1>6, <1>7, <1>8 DEF Next
-----------------------------------------------------------------------------
(* No step binds an alias that is bound.                                   *)
LEMMA BindingKept ==
  ASSUME TypeOK, [Next]_vars, NEW al \in Aliases, byAlias[al] # NoModule
  PROVE  byAlias'[al] = byAlias[al]
<1>1. CASE BindAndWalk
  <2>1. byAlias[Current.alias] = NoModule
    BY <1>1 DEF BindAndWalk, AliasTaken
  <2>2. byAlias' = [byAlias EXCEPT ![Current.alias] = Current.path]
    BY <1>1 DEF BindAndWalk
  <2> QED
    BY <2>1, <2>2 DEF TypeOK
<1>2. CASE ~BindAndWalk
  <2>1. byAlias' = byAlias
    BY <1>2 DEF Next, SkipRepeatedAlias, RefuseTakenAlias, FailParse,
                ValidateImport, ReturnFromWalk, Finished, vars
  <2> QED
    BY <2>1
<1> QED
  BY <1>1, <1>2

(* The files do not change, so an import settled stays settled.            *)
LEMMA SettledKept ==
  ASSUME TypeOK, [Next]_vars, NEW m \in Modules, NEW i \in 1..Len(Imports(m))
  PROVE  /\ program' = program
         /\ Imports(m)' = Imports(m)
         /\ Bound(m, i) => Bound(m, i)'
         /\ Settled(m, i) => Settled(m, i)'
<1>1. program' = program
  BY DEF Next, SkipRepeatedAlias, RefuseTakenAlias, FailParse, BindAndWalk,
         ValidateImport, ReturnFromWalk, Finished, vars
<1>2. Imports(m)' = Imports(m) /\ Repeated(m, i)' = Repeated(m, i)
  BY <1>1 DEF Imports, Repeated
<1>3. Imports(m)[i] \in Import
  <2>1. Imports(m) \in Seq(Import)
    BY DEF TypeOK, Imports
  <2> QED
    BY <2>1
<1>4. Imports(m)[i].alias \in Aliases /\ Imports(m)[i].path # NoModule
  BY <1>3, ImportGraphAssumption DEF Import
<1>5. Bound(m, i) => Bound(m, i)'
  BY <1>2, <1>4, BindingKept DEF Bound
<1> QED
  BY <1>1, <1>2, <1>5 DEF Settled

(* The walk moves past the import it is at once that import is settled:    *)
(* the other walks are of other files and keep their places.               *)
LEMMA AdvanceKeepsWalks ==
  ASSUME TypeOK, Walks, [Next]_vars, stack # <<>>, stack' = stack,
         visited' = visited, pc' = "loop",
         next' = [next EXCEPT ![Top] = @ + 1],
         next[Top] <= Len(Imports(Top)), Settled(Top, next[Top])
  PROVE  Walks'
<1>1. /\ Top \in Modules /\ Top \in visited /\ Top = stack[1]
      /\ next[Top] \in Nat \ {0}
      /\ Imports(Top) \in Seq(Import)
  BY CurrentTyped
<1>2. next'[Top] = next[Top] + 1 /\ \A m \in Modules : m # Top => next'[m] = next[m]
  BY <1>1 DEF TypeOK
<1>3. /\ stack \in Seq(visited) /\ Len(stack) \in Nat /\ 1 \in 1..Len(stack)
      /\ \A i \in 1..Len(stack) : stack[i] \in visited /\ stack[i] \in Modules
  <2>1. stack \in Seq(visited)
    BY DEF TypeOK
  <2> QED
    BY <2>1, StackTyped, PopFacts
<1>4. \A m \in Modules : Imports(m)' = Imports(m) /\ Imports(m) \in Seq(Import)
                           /\ next[m] \in Nat \ {0}
  BY DEF TypeOK, Imports, Next, SkipRepeatedAlias, RefuseTakenAlias, FailParse,
         BindAndWalk, ValidateImport, ReturnFromWalk, Finished, vars
<1>5. OneWalkPerFile' /\ EndsEmpty'
  BY DEF Walks, OneWalkPerFile, EndsEmpty
<1>6. NotYetWalked'
  BY <1>1, <1>2 DEF Walks, NotYetWalked
<1>7. PassedImportsSettled'
  <2> SUFFICES ASSUME NEW m \in Modules, NEW i \in 1..Len(Imports(m)), i < next'[m]
               PROVE  Settled(m, i)'
    BY <1>4 DEF PassedImportsSettled
  <2>1. Settled(m, i)
    <3>1. CASE m = Top /\ i = next[Top]
      BY <3>1
    <3>2. CASE i < next[m]
      BY <3>2 DEF Walks, PassedImportsSettled
    <3> QED
      BY <3>1, <3>2, <1>1, <1>2, <1>4
  <2> QED
    BY <2>1, SettledKept
<1>8. UnfinishedOnStack'
  <2> SUFFICES ASSUME NEW m \in visited, next'[m] <= Len(Imports(m))
               PROVE  \E i \in 1..Len(stack) : stack[i] = m
    BY <1>4 DEF UnfinishedOnStack, TypeOK
  <2>1. CASE m = Top
    BY <2>1, <1>1, <1>3
  <2>2. CASE m # Top
    <3>1. m \in Modules
      BY DEF TypeOK
    <3> QED
      BY <2>2, <3>1, <1>2 DEF Walks, UnfinishedOnStack
  <2> QED
    BY <2>1, <2>2
<1>9. PendingBound'
  <2> SUFFICES ASSUME NEW i \in 1..Len(stack), i > 1
               PROVE  /\ next[stack[i]]' <= Len(Imports(stack[i]))'
                      /\ Bound(stack[i], next[stack[i]])'
    BY DEF PendingBound
  <2>1. stack[i] \in Modules /\ stack[i] # Top
    BY <1>1, <1>3 DEF Walks, OneWalkPerFile
  <2>2. PICK m \in Modules : m = stack[i]
    BY <2>1
  <2>3. next[m] <= Len(Imports(m)) /\ Bound(m, next[m])
    BY <2>2 DEF Walks, PendingBound
  <2>4. next[m] \in 1..Len(Imports(m)) /\ next'[m] = next[m]
    BY <2>1, <2>2, <2>3, <1>2, <1>4
  <2>5. PICK k \in 1..Len(Imports(m)) : k = next[m]
    BY <2>4
  <2>6. Bound(m, k)' /\ Imports(m)' = Imports(m)
    BY <2>3, <2>5, SettledKept
  <2> QED
    BY <2>2, <2>3, <2>4, <2>5, <2>6 DEF Bound, Imports
<1> QED
  BY <1>5, <1>6, <1>7, <1>8, <1>9 DEF Walks

(* A step that neither moves a walk nor starts one.  If a validation begins, *)
(* its import has been bound.                                              *)
LEMMA StandingKeepsWalks ==
  ASSUME TypeOK, Walks, [Next]_vars, stack # <<>>,
         stack' = stack, visited' = visited, next' = next,
         pc' \in {"loop", "done", "validate"},
         pc' = "done" => err' # "none",
         pc' = "validate" => /\ next[Top] <= Len(Imports(Top))
                             /\ byAlias'[Current.alias] = Current.path
  PROVE  Walks'
<1>1. /\ Top \in Modules /\ Top = stack[1]
      /\ \A m \in Modules : Imports(m)' = Imports(m) /\ Imports(m) \in Seq(Import)
                               /\ next[m] \in Nat \ {0}
  BY CurrentTyped DEF TypeOK, Imports, Next, SkipRepeatedAlias, RefuseTakenAlias,
         FailParse, BindAndWalk, ValidateImport, ReturnFromWalk, Finished, vars
<1>2. /\ Len(stack) \in Nat
      /\ \A i \in 1..Len(stack) : stack[i] \in Modules
  BY StackTyped
<1>3. OneWalkPerFile' /\ EndsEmpty' /\ NotYetWalked'
  BY DEF Walks, OneWalkPerFile, EndsEmpty, NotYetWalked
<1>4. PassedImportsSettled'
  <2> SUFFICES ASSUME NEW m \in Modules, NEW i \in 1..Len(Imports(m)), i < next[m]
               PROVE  Settled(m, i)'
    BY <1>1 DEF PassedImportsSettled
  <2>1. Settled(m, i)
    BY DEF Walks, PassedImportsSettled
  <2> QED
    BY <2>1, SettledKept
<1>5. UnfinishedOnStack'
  BY <1>1 DEF Walks, UnfinishedOnStack, TypeOK
<1>6. PendingBound'
  <2> SUFFICES ASSUME NEW i \in 1..Len(stack), i > 1 \/ pc' = "validate"
               PROVE  /\ next[stack[i]]' <= Len(Imports(stack[i]))'
                      /\ Bound(stack[i], next[stack[i]])'
    BY DEF PendingBound
  <2>1. CASE i = 1 /\ pc' = "validate"
    BY <2>1, <1>1 DEF Bound, Imports, Current
  <2>2. CASE i > 1
    <3>1. PICK m \in Modules : m = stack[i]
      BY <1>2
    <3>2. next[m] <= Len(Imports(m)) /\ Bound(m, next[m])
      BY <2>2, <3>1 DEF Walks, PendingBound
    <3>3. PICK k \in 1..Len(Imports(m)) : k = next[m]
      BY <3>2, <1>1
    <3>4. Bound(m, k)' /\ Imports(m)' = Imports(m)
      BY <3>2, <3>3, SettledKept
    <3> QED
      BY <3>1, <3>2, <3>3, <3>4 DEF Bound, Imports
  <2> QED
    BY <2>1, <2>2, <1>2
<1> QED
  BY <1>3, <1>4, <1>5, <1>6 DEF Walks

(* Binding an alias and starting the walk of its file keeps the walks'      *)
(* invariant: the new walk is the only one of its file, and starts at 1.    *)
LEMMA WalkKeepsWalks ==
  ASSUME TypeOK, Walks, BindAndWalk, Current.path \notin visited
  PROVE  Walks'
<1>1. stack # <<>> /\ next[Top] <= Len(Imports(Top)) /\ [Next]_vars
  BY DEF BindAndWalk, AtImport, TypeOK, Next
<1>2. /\ Top \in Modules /\ Top = stack[1]
      /\ Current.path \in Modules /\ Current.alias \in Aliases
  BY <1>1, CurrentTyped
<1>3. \A m \in Modules : Imports(m)' = Imports(m) /\ Imports(m) \in Seq(Import)
                            /\ next[m] \in Nat \ {0}
  BY DEF TypeOK, Imports, BindAndWalk
<1>4. /\ stack \in Seq(Modules) /\ Len(stack) \in Nat
      /\ \A i \in 1..Len(stack) : stack[i] \in visited /\ stack[i] \in Modules
  BY StackTyped
<1>5. /\ visited' = visited \cup {Current.path}
      /\ stack' = <<Current.path>> \o stack
      /\ next' = next /\ pc' = "loop"
  BY DEF BindAndWalk, AtImport
<1>6. /\ Len(stack') = Len(stack) + 1
      /\ stack'[1] = Current.path
      /\ \A i \in 2..(Len(stack) + 1) : stack'[i] = stack[i - 1]
  BY <1>2, <1>4, <1>5, PushFacts
<1>7. OneWalkPerFile'
  <2> SUFFICES ASSUME NEW i \in 1..(Len(stack) + 1), NEW j \in 1..(Len(stack) + 1),
                      stack'[i] = stack'[j]
               PROVE  i = j
    BY <1>6 DEF OneWalkPerFile
  <2>1. CASE i = 1 \/ j = 1
    BY <2>1, <1>4, <1>6
  <2>2. CASE i > 1 /\ j > 1
    BY <2>2, <1>4, <1>6 DEF Walks, OneWalkPerFile
  <2> QED
    BY <2>1, <2>2, <1>4
<1>8. EndsEmpty' /\ NotYetWalked'
  BY <1>5 DEF Walks, EndsEmpty, NotYetWalked
<1>9. PassedImportsSettled'
  <2> SUFFICES ASSUME NEW m \in Modules, NEW i \in 1..Len(Imports(m)), i < next[m]
               PROVE  Settled(m, i)'
    BY <1>3, <1>5 DEF PassedImportsSettled
  <2>1. Settled(m, i)
    BY DEF Walks, PassedImportsSettled
  <2> QED
    BY <2>1, <1>1, SettledKept
<1>10. UnfinishedOnStack'
  <2>3. next' = next /\ visited' \subseteq Modules
    BY <1>2, <1>5 DEF TypeOK
  <2> SUFFICES ASSUME NEW m \in visited', next[m] <= Len(Imports(m))
               PROVE  \E i \in 1..(Len(stack) + 1) : stack'[i] = m
    BY <1>3, <1>6, <2>3 DEF UnfinishedOnStack
  <2>1. CASE m = Current.path
    BY <2>1, <1>4, <1>6
  <2>2. CASE m \in visited
    <3>1. PICK i \in 1..Len(stack) : stack[i] = m
      BY <2>2 DEF Walks, UnfinishedOnStack
    <3>2. i + 1 \in 2..(Len(stack) + 1) /\ stack'[i + 1] = m
      BY <3>1, <1>4, <1>6
    <3> QED
      BY <3>2, <1>4
  <2> QED
    BY <2>1, <2>2, <1>5
<1>11. PendingBound'
  <2> SUFFICES ASSUME NEW i \in 2..(Len(stack) + 1)
               PROVE  /\ next[stack[i]]' <= Len(Imports(stack[i]))'
                      /\ Bound(stack[i], next[stack[i]])'
    BY <1>4, <1>5, <1>6 DEF PendingBound
  <2>1. PICK m \in Modules : m = stack[i - 1]
    BY <1>4
  <2>2. stack'[i] = m
    BY <2>1, <1>6
  <2>3. CASE i = 2
    <3>1. m = Top /\ next[m] <= Len(Imports(m))
      BY <2>1, <2>3, <1>1, <1>2
    <3>2. byAlias'[Imports(m)[next[m]].alias] = Imports(m)[next[m]].path
      BY <3>1, <1>2 DEF BindAndWalk, TypeOK, Current
    <3> QED
      BY <2>2, <3>1, <3>2, <1>3, <1>5 DEF Bound, Imports
  <2>4. CASE i > 2
    <3>1. next[m] <= Len(Imports(m)) /\ Bound(m, next[m])
      BY <2>1, <2>4, <1>4 DEF Walks, PendingBound
    <3>2. PICK k \in 1..Len(Imports(m)) : k = next[m]
      BY <3>1, <1>3
    <3>3. Bound(m, k)'
      BY <3>1, <3>2, <1>1, SettledKept
    <3> QED
      BY <2>2, <3>1, <3>2, <3>3, <1>3, <1>5 DEF Bound, Imports
  <2> QED
    BY <2>3, <2>4, <1>4
<1> QED
  BY <1>7, <1>8, <1>9, <1>10, <1>11 DEF Walks

(* The return of a walk keeps the walks' invariant: the file is finished,   *)
(* and the import that started it is the one to validate.                   *)
LEMMA ReturnKeepsWalks ==
  ASSUME TypeOK, Walks, ReturnFromWalk
  PROVE  Walks'
<1>1. /\ stack # <<>> /\ next[Top] > Len(Imports(Top)) /\ [Next]_vars
      /\ stack' = Tail(stack) /\ visited' = visited /\ next' = next
      /\ pc' = IF Len(stack) = 1 THEN "done" ELSE "validate"
  BY DEF ReturnFromWalk, TypeOK, Next
<1>2. Top = stack[1] /\ Top \in Modules
  BY <1>1, CurrentTyped
<1>3. \A m \in Modules : Imports(m)' = Imports(m) /\ Imports(m) \in Seq(Import)
                            /\ next[m] \in Nat \ {0}
  BY DEF TypeOK, Imports, ReturnFromWalk
<1>4. /\ Len(stack) \in Nat \ {0}
      /\ \A i \in 1..Len(stack) : stack[i] \in Modules
      /\ Len(stack') = Len(stack) - 1
      /\ \A i \in 1..(Len(stack) - 1) : stack'[i] = stack[i + 1]
      /\ Len(stack) = 1 => stack' = <<>>
  <2>1. stack \in Seq(Modules)
    BY StackTyped
  <2> QED
    BY <2>1, <1>1, StackTyped, PopFacts
<1>5. OneWalkPerFile'
  BY <1>4 DEF Walks, OneWalkPerFile
<1>6. EndsEmpty' /\ NotYetWalked'
  BY <1>1, <1>4 DEF Walks, EndsEmpty, NotYetWalked
<1>7. PassedImportsSettled'
  <2> SUFFICES ASSUME NEW m \in Modules, NEW i \in 1..Len(Imports(m)), i < next[m]
               PROVE  Settled(m, i)'
    BY <1>1, <1>3 DEF PassedImportsSettled
  <2>1. Settled(m, i)
    BY DEF Walks, PassedImportsSettled
  <2> QED
    BY <2>1, <1>1, SettledKept
<1>8. UnfinishedOnStack'
  <2> SUFFICES ASSUME NEW m \in visited, next[m] <= Len(Imports(m))
               PROVE  \E i \in 1..(Len(stack) - 1) : stack'[i] = m
    BY <1>1, <1>3, <1>4 DEF UnfinishedOnStack, TypeOK
  <2>1. PICK i \in 1..Len(stack) : stack[i] = m
    BY DEF Walks, UnfinishedOnStack
  <2>2. m \in Modules
    BY DEF TypeOK
  <2>3. Len(Imports(m)) \in Nat /\ next[m] \in Nat
    BY <2>2, <1>3
  <2>4. m # Top
    BY <2>3, <1>1
  <2>5. i # 1
    BY <2>1, <2>4, <1>2
  <2>6. i - 1 \in 1..(Len(stack) - 1) /\ stack'[i - 1] = stack[(i - 1) + 1]
    BY <2>5, <1>4
  <2>7. (i - 1) + 1 = i
    OBVIOUS
  <2> QED
    BY <2>1, <2>6, <2>7
<1>9. PendingBound'
  <2> SUFFICES ASSUME NEW i \in 1..(Len(stack) - 1)
               PROVE  /\ next[stack[i]]' <= Len(Imports(stack[i]))'
                      /\ Bound(stack[i], next[stack[i]])'
    BY <1>4 DEF PendingBound
  <2>1. PICK m \in Modules : m = stack[i + 1]
    BY <1>4
  <2>2. stack'[i] = m
    BY <2>1, <1>4
  <2>3. next[m] <= Len(Imports(m)) /\ Bound(m, next[m])
    BY <2>1, <1>4 DEF Walks, PendingBound
  <2>4. PICK k \in 1..Len(Imports(m)) : k = next[m]
    BY <2>3, <1>3
  <2>5. Bound(m, k)'
    BY <2>3, <2>4, <1>1, SettledKept
  <2> QED
    BY <2>2, <2>3, <2>4, <2>5, <1>1, <1>3 DEF Bound, Imports
<1> QED
  BY <1>5, <1>6, <1>7, <1>8, <1>9 DEF Walks

(* Every step of resolveImportGraphRecursive keeps the walks' invariant.    *)
LEMMA WalksStep == TypeOK /\ Walks /\ [Next]_vars => Walks'
<1> SUFFICES ASSUME TypeOK, Walks, [Next]_vars PROVE Walks'
  OBVIOUS
<1>1. CASE SkipRepeatedAlias
  <2>1. stack # <<>> /\ next[Top] <= Len(Imports(Top))
    BY <1>1 DEF SkipRepeatedAlias, AtImport, TypeOK
  <2> QED
    BY <1>1, <2>1, AdvanceKeepsWalks DEF SkipRepeatedAlias, AtImport, Settled
<1>2. CASE RefuseTakenAlias
  <2>1. stack # <<>>
    BY <1>2 DEF RefuseTakenAlias, AtImport, TypeOK
  <2> QED
    BY <1>2, <2>1, StandingKeepsWalks DEF RefuseTakenAlias, Fail
<1>3. CASE FailParse
  <2>1. stack # <<>>
    BY <1>3 DEF FailParse, AtImport, TypeOK
  <2> QED
    BY <1>3, <2>1, StandingKeepsWalks DEF FailParse, Fail
<1>4. CASE BindAndWalk /\ Current.path \notin visited
  BY <1>4, WalkKeepsWalks
<1>5. CASE BindAndWalk /\ Current.path \in visited
  <2>1. stack # <<>> /\ next[Top] <= Len(Imports(Top))
    BY <1>5 DEF BindAndWalk, AtImport, TypeOK
  <2>2. byAlias'[Current.alias] = Current.path
    BY <1>5, <2>1, CurrentTyped DEF BindAndWalk, TypeOK
  <2> QED
    BY <1>5, <2>1, <2>2, StandingKeepsWalks DEF BindAndWalk
<1>6. CASE ValidateImport
  <2>1. /\ stack # <<>> /\ next[Top] <= Len(Imports(Top))
        /\ byAlias[Current.alias] = Current.path
    BY <1>6, ValidatedTyped DEF ValidateImport, Walks
  <2>2. CASE FailsCompilation(Current.path)
    BY <1>6, <2>1, <2>2, StandingKeepsWalks DEF ValidateImport, Fail
  <2>3. CASE ~FailsCompilation(Current.path)
    BY <1>6, <2>1, <2>3, AdvanceKeepsWalks
       DEF ValidateImport, Settled, Bound, Current
  <2> QED
    BY <2>2, <2>3
<1>7. CASE ReturnFromWalk
  BY <1>7, ReturnKeepsWalks
<1>8. CASE Finished \/ UNCHANGED vars
  <2>1. UNCHANGED vars
    BY <1>8 DEF Finished
  <2>2. (OneWalkPerFile /\ NotYetWalked /\ EndsEmpty)'
    BY <2>1 DEF vars, Walks, OneWalkPerFile, NotYetWalked, EndsEmpty
  <2>3. PassedImportsSettled'
    BY <2>1 DEF vars, Walks, PassedImportsSettled, Settled, Bound, Repeated, Imports
  <2>4. (UnfinishedOnStack /\ PendingBound)'
    BY <2>1 DEF vars, Walks, UnfinishedOnStack, PendingBound, Bound, Imports
  <2> QED
    BY <2>2, <2>3, <2>4 DEF Walks
<1> QED
  BY <1>1, <1>2, <1>3, <1>4, <1>5, <1>6, <1>7, <1>8 DEF Next
-----------------------------------------------------------------------------
(* The invariant holds when the root's walk starts.                         *)
LEMMA InvInit == Init => Inv
<1> SUFFICES ASSUME Init PROVE Inv
  OBVIOUS
<1>1. Root \in Modules /\ stack = <<Root>> /\ visited = {Root}
  BY ImportGraphAssumption DEF Init
<1>2. stack \in Seq(visited) /\ Len(stack) = 1 /\ stack[1] = Root /\ stack # <<>>
  BY <1>1
<1>3. program \in [imports : [Modules -> Seq(Import)], health : [Modules -> Health]]
  BY ImportGraphAssumption DEF Init
<1>4. TypeOK
  BY <1>1, <1>2, <1>3 DEF Init, TypeOK
<1>5. Walks
  BY <1>1, <1>2 DEF Init, Walks, OneWalkPerFile, NotYetWalked, PassedImportsSettled,
                    UnfinishedOnStack, PendingBound, EndsEmpty
<1> QED
  BY <1>4, <1>5 DEF Inv

(* The inductive invariant holds in every state of every walk.              *)
LEMMA Invariant == Spec => []Inv
<1>1. Inv /\ [Next]_vars => Inv'
  BY TypeStep, WalksStep DEF Inv, Walks
<1> QED
  BY InvInit, <1>1, PTL DEF Spec

(* Every state of every walk has the declared types.                       *)
THEOREM TypeCorrect == Spec => []TypeOK
<1>1. Inv => TypeOK
  BY DEF Inv
<1> QED
  BY Invariant, <1>1, PTL

(* On success every import of every file the walk entered is bound, in the *)
(* one namespace of the walk, to the file it names.                        *)
THEOREM ImportsResolved == Spec => []ResolvedAsDeclared
<1>1. Inv => ResolvedAsDeclared
  <2> SUFFICES ASSUME Inv, pc = "done", err = "none",
                      NEW m \in visited, NEW i \in Declared(m)
               PROVE  Bound(m, i)
    BY DEF ResolvedAsDeclared
  <2>1. stack = <<>> /\ m \in Modules
    BY DEF Inv, TypeOK, Walks, EndsEmpty
  <2>2. i \in 1..Len(Imports(m)) /\ ~Repeated(m, i)
    BY DEF Declared
  <2>3. next[m] \in Nat /\ Len(Imports(m)) \in Nat
    BY <2>1 DEF Inv, TypeOK, Imports
  <2>4. ~(next[m] <= Len(Imports(m)))
    BY <2>1 DEF Inv, Walks, UnfinishedOnStack
  <2>5. Settled(m, i)
    BY <2>1, <2>2, <2>3, <2>4 DEF Inv, Walks, PassedImportsSettled
  <2> QED
    BY <2>2, <2>5 DEF Settled
<1> QED
  BY Invariant, <1>1, PTL

(* No step gives a bound alias another module.                             *)
THEOREM AliasesKept == Spec => AliasNeverRebound
<1>1. TypeOK /\ [Next]_vars =>
        [\A a \in Aliases : byAlias[a] # NoModule => byAlias'[a] = byAlias[a]]_vars
  BY BindingKept
<1> QED
  BY TypeCorrect, <1>1, PTL DEF Spec, AliasNeverRebound
-----------------------------------------------------------------------------
(* The files below a file.                                                  *)

(* Induction over the numbers, as a fact about sets of them.               *)
LEMMA CountUp ==
  ASSUME NEW T, 0 \in T, \A n \in Nat : n \in T => n + 1 \in T
  PROVE  Nat \subseteq T
<1> SUFFICES ASSUME NEW c \in Nat \ T PROVE FALSE
  OBVIOUS
<1> DEFINE Missing == Nat \ T
<1>1. IsWellFoundedOn(OpToRel(<, Nat), Nat)
  BY NatLessThanWellFounded
<1>2. Missing \subseteq Nat /\ Missing # {}
  OBVIOUS
<1>3. PICK n \in Missing : \A y \in Missing : <<y, n>> \notin OpToRel(<, Nat)
  BY <1>1, <1>2, WFMin
<1>4. n \in Nat /\ n # 0 /\ n - 1 \in Nat /\ n - 1 < n
  OBVIOUS
<1>5. <<n - 1, n>> \in OpToRel(<, Nat)
  BY <1>4 DEF OpToRel
<1>6. n - 1 \in T
  BY <1>3, <1>4, <1>5
<1>7. (n - 1) + 1 \in T /\ (n - 1) + 1 = n
  BY <1>4, <1>6
<1> QED
  BY <1>7

(* The levels Below counts through: what is reached within one import,      *)
(* within two, and so on.                                                   *)
Grown(S) == S \cup (UNION {Children(k) : k \in S})
IsLevels(m, c, R) ==
  R = [n \in 0..c |-> IF n = 0 THEN Children(m) ELSE Grown(R[n-1])]
Closed(S) == \A k \in S : Children(k) \subseteq S

LEMMA LevelsExist ==
  ASSUME NEW m, NEW c \in Nat
  PROVE  \E R : IsLevels(m, c, R)
<1> DEFINE T == {n \in Nat : \E R : IsLevels(m, n, R)}
<1>1. 0 \in T
  <2> DEFINE R == [n \in 0..0 |-> Children(m)]
  <2>1. IsLevels(m, 0, R)
    BY DEF IsLevels
  <2> QED
    BY <2>1
<1>2. ASSUME NEW n \in Nat, n \in T PROVE n + 1 \in T
  <2>1. PICK R : IsLevels(m, n, R)
    BY <1>2
  <2> DEFINE Q == [k \in 0..(n + 1) |-> IF k = n + 1 THEN Grown(R[n]) ELSE R[k]]
  <2>2. \A k \in 0..n : R[k] = IF k = 0 THEN Children(m) ELSE Grown(R[k-1])
    BY <2>1 DEF IsLevels
  <2>3. \A k \in 0..n : k \in 0..(n + 1) /\ k # n + 1
    OBVIOUS
  <2>4. Q[n + 1] = Grown(R[n]) /\ \A k \in 0..n : Q[k] = R[k]
    BY <2>3
  <2>5. ASSUME NEW k \in 0..(n + 1)
        PROVE  Q[k] = IF k = 0 THEN Children(m) ELSE Grown(Q[k-1])
    <3> HIDE DEF Q
    <3>1. CASE k = n + 1
      <4>1. k - 1 = n /\ n \in 0..n /\ k # 0
        BY <3>1
      <4> QED
        BY <3>1, <4>1, <2>4
    <3>2. CASE k \in 0..n /\ k = 0
      BY <3>2, <2>2, <2>4
    <3>3. CASE k \in 0..n /\ k # 0
      <4>1. k - 1 \in 0..n
        BY <3>3
      <4> QED
        BY <3>3, <4>1, <2>2, <2>4
    <3> QED
      BY <3>1, <3>2, <3>3
  <2>6. Q = [k \in 0..(n + 1) |-> Q[k]]
    OBVIOUS
  <2> HIDE DEF Q
  <2>7. IsLevels(m, n + 1, Q)
    BY <2>5, <2>6 DEF IsLevels
  <2> QED
    BY <2>7
<1> HIDE DEF T
<1>3. c \in T
  BY <1>1, <1>2, CountUp
<1> QED
  BY <1>3 DEF T

LEMMA BelowIsLevel ==
  ASSUME NEW m, Cardinality(Modules) \in Nat
  PROVE  \E R : IsLevels(m, Cardinality(Modules), R) /\ Below(m) = R[Cardinality(Modules)]
<1> DEFINE R1 == CHOOSE R : IsLevels(m, Cardinality(Modules), R)
<1>1. IsLevels(m, Cardinality(Modules), R1)
  BY LevelsExist
<1>2. Below(m) = R1[Cardinality(Modules)]
  BY DEF Below, IsLevels, Grown
<1> QED
  BY <1>1, <1>2

LEMMA LevelSteps ==
  ASSUME NEW m, NEW c \in Nat, NEW R, IsLevels(m, c, R)
  PROVE  /\ R[0] = Children(m)
         /\ \A n \in Nat : n < c => R[n + 1] = Grown(R[n])
<1>1. \A n \in 0..c : R[n] = IF n = 0 THEN Children(m) ELSE Grown(R[n-1])
  BY DEF IsLevels
<1>2. R[0] = Children(m)
  <2>1. 0 \in 0..c
    OBVIOUS
  <2> QED
    BY <1>1, <2>1
<1>3. ASSUME NEW n \in Nat, n < c PROVE R[n + 1] = Grown(R[n])
  <2>1. n + 1 \in 0..c /\ n + 1 # 0 /\ (n + 1) - 1 = n
    BY <1>3
  <2> QED
    BY <1>1, <2>1
<1> QED
  BY <1>2, <1>3

(* What every set with the children of m, closed under imports, contains.   *)
LEMMA BelowLeast ==
  ASSUME NEW m, Cardinality(Modules) \in Nat, NEW S, Children(m) \subseteq S, Closed(S)
  PROVE  Below(m) \subseteq S
<1> DEFINE c == Cardinality(Modules)
<1>1. PICK R : IsLevels(m, c, R) /\ Below(m) = R[c]
  BY BelowIsLevel
<1>2. R[0] = Children(m) /\ \A n \in Nat : n < c => R[n + 1] = Grown(R[n])
  BY <1>1, LevelSteps
<1> DEFINE T == {n \in Nat : n <= c => R[n] \subseteq S}
<1> HIDE DEF c
<1>3. 0 \in T
  BY <1>2
<1>4. ASSUME NEW n \in Nat, n \in T PROVE n + 1 \in T
  <2> SUFFICES ASSUME n + 1 <= c PROVE R[n + 1] \subseteq S
    OBVIOUS
  <2>1. n < c /\ n <= c
    BY DEF c
  <2>2. R[n] \subseteq S /\ R[n + 1] = Grown(R[n])
    BY <1>2, <1>4, <2>1
  <2> QED
    BY <2>2 DEF Grown, Closed
<1> HIDE DEF T
<1>5. c \in T
  BY <1>3, <1>4, CountUp DEF c
<1> QED
  BY <1>1, <1>5 DEF T, c

LEMMA ClosedStays ==
  ASSUME NEW S, Closed(S)
  PROVE  Grown(S) = S
<1>1. \A x \in UNION {Children(k) : k \in S} : x \in S
  BY DEF Closed
<1> QED
  BY <1>1 DEF Grown

(* With finitely many files, the last level is closed under imports: each   *)
(* level that is not has a file more than the one before.                   *)
LEMMA BelowClosed ==
  ASSUME NEW m \in Modules, IsFiniteSet(Modules),
         \A k \in Modules : Children(k) \subseteq Modules
  PROVE  Children(m) \subseteq Below(m) /\ Closed(Below(m)) /\ Below(m) \subseteq Modules
<1> DEFINE c == Cardinality(Modules)
<1>1. c \in Nat
  BY FS_CardinalityType
<1>2. PICK R : IsLevels(m, c, R) /\ Below(m) = R[c]
  BY <1>1, BelowIsLevel
<1>3. R[0] = Children(m) /\ \A n \in Nat : n < c => R[n + 1] = Grown(R[n])
  BY <1>1, <1>2, LevelSteps
<1> HIDE DEF c
<1>4. \A n \in Nat : n <= c => Children(m) \subseteq R[n] /\ R[n] \subseteq Modules
  <2> DEFINE T == {n \in Nat : n <= c => Children(m) \subseteq R[n] /\ R[n] \subseteq Modules}
  <2>1. 0 \in T
    BY <1>3
  <2>2. ASSUME NEW n \in Nat, n \in T PROVE n + 1 \in T
    <3> SUFFICES ASSUME n + 1 <= c PROVE Children(m) \subseteq R[n + 1] /\ R[n + 1] \subseteq Modules
      OBVIOUS
    <3>1. n < c /\ n <= c
      BY <1>1
    <3>2. Children(m) \subseteq R[n] /\ R[n] \subseteq Modules /\ R[n + 1] = Grown(R[n])
      BY <1>3, <2>2, <3>1
    <3> QED
      BY <3>2 DEF Grown
  <2> HIDE DEF T
  <2>3. Nat \subseteq T
    BY <2>1, <2>2, CountUp
  <2> QED
    BY <2>3 DEF T
<1>5. Closed(R[c])
  <2> SUFFICES ASSUME ~Closed(R[c]) PROVE FALSE
    OBVIOUS
  <2>1. ASSUME NEW n \in Nat, n < c, Closed(R[n]) PROVE R[n + 1] = R[n]
    <3>1. R[n + 1] = Grown(R[n])
      BY <1>3, <2>1
    <3> QED
      BY <2>1, <3>1, ClosedStays
  <2>2. \A n \in Nat : n <= c => ~Closed(R[n])
    <3> DEFINE T == {d \in Nat : d <= c => ~Closed(R[c - d])}
    <3>1. 0 \in T
      BY <1>1
    <3>2. ASSUME NEW d \in Nat, d \in T PROVE d + 1 \in T
      <4> SUFFICES ASSUME d + 1 <= c, Closed(R[c - (d + 1)]) PROVE FALSE
        OBVIOUS
      <4>1. c - (d + 1) \in Nat /\ c - (d + 1) < c /\ (c - (d + 1)) + 1 = c - d /\ d <= c
        BY <1>1
      <4>2. R[c - d] = R[c - (d + 1)]
        BY <2>1, <4>1
      <4> QED
        BY <3>2, <4>1, <4>2
    <3> HIDE DEF T
    <3>3. Nat \subseteq T
      BY <3>1, <3>2, CountUp
    <3>4. ASSUME NEW n \in Nat, n <= c PROVE ~Closed(R[n])
      <4>1. c - n \in Nat /\ c - n <= c /\ c - (c - n) = n
        BY <1>1, <3>4
      <4> QED
        BY <3>3, <4>1 DEF T
    <3> QED
      BY <3>4
  <2>3. \A n \in Nat : n <= c => IsFiniteSet(R[n]) /\ Cardinality(R[n]) \in Nat
    <3>1. \A n \in Nat : n <= c => R[n] \in SUBSET Modules
      BY <1>4
    <3> QED
      BY <3>1, FS_Subset, FS_CardinalityType
  <2> DEFINE T == {n \in Nat : n <= c => Cardinality(R[n]) >= n + 1}
  <2>4. 0 \in T
    <3>1. R[0] # {}
      BY <1>1, <2>2 DEF Closed
    <3>2. IsFiniteSet(R[0]) /\ Cardinality(R[0]) \in Nat
      BY <1>1, <2>3
    <3>3. Cardinality(R[0]) # 0
      BY <3>1, <3>2, FS_EmptySet
    <3> QED
      BY <3>2, <3>3
  <2>5. ASSUME NEW n \in Nat, n \in T PROVE n + 1 \in T
    <3> SUFFICES ASSUME n + 1 <= c PROVE Cardinality(R[n + 1]) >= (n + 1) + 1
      OBVIOUS
    <3>1. n < c /\ n <= c
      BY <1>1
    <3>2. Cardinality(R[n]) >= n + 1 /\ R[n + 1] = Grown(R[n]) /\ ~Closed(R[n])
      BY <1>3, <2>2, <2>5, <3>1
    <3>3. R[n] \in SUBSET R[n + 1] /\ R[n] # R[n + 1]
      BY <3>2 DEF Grown, Closed
    <3>4. IsFiniteSet(R[n + 1]) /\ Cardinality(R[n + 1]) \in Nat /\ Cardinality(R[n]) \in Nat
      BY <2>3, <3>1
    <3>5. Cardinality(R[n]) <= Cardinality(R[n + 1]) /\ Cardinality(R[n]) # Cardinality(R[n + 1])
      BY <3>3, <3>4, FS_Subset
    <3> QED
      BY <3>2, <3>4, <3>5
  <2> HIDE DEF T
  <2>6. c \in T
    BY <1>1, <2>4, <2>5, CountUp
  <2>7. Cardinality(R[c]) >= c + 1
    BY <1>1, <2>6 DEF T
  <2>8. R[c] \in SUBSET Modules /\ Cardinality(R[c]) \in Nat
    BY <1>1, <1>4, <2>3
  <2>9. Cardinality(R[c]) <= c
    BY <2>8, FS_Subset DEF c
  <2> QED
    BY <1>1, <2>7, <2>8, <2>9
<1> QED
  BY <1>1, <1>2, <1>4, <1>5 DEF c

-----------------------------------------------------------------------------
(* The walk stays in the tree of the program, and goes down in it: a file   *)
(* is below every file that waits for it.                                   *)
StackBelow ==
  \A m \in Modules : \A i, j \in 1..Len(stack) :
    i < j /\ stack[j] = m => stack[i] \in Below(m)

PendingDeclared ==
  \A m \in Modules : \A i \in 1..Len(stack) :
    stack[i] = m /\ (i > 1 \/ pc = "validate") => next[m] \in Declared(m)

BoundVisited == \A al \in Aliases : byAlias[al] # NoModule => byAlias[al] \in visited

TreeInv ==
  /\ Root \in visited /\ visited \subseteq Tree
  /\ BoundVisited
  /\ PendingDeclared
  /\ StackBelow

(* What is below a file is closed under imports, and so is the tree.        *)
LEMMA BelowFacts ==
  ASSUME TypeOK
  PROVE  /\ \A k \in Modules : Children(k) \subseteq Below(k) /\ Closed(Below(k)) /\ Below(k) \subseteq Modules
         /\ Closed(Tree) /\ Tree \subseteq Modules
<1>1. ASSUME NEW k \in Modules PROVE Children(k) \subseteq Modules
  <2>1. Imports(k) \in Seq(Import)
    BY DEF TypeOK, Imports
  <2>2. \A i \in 1..Len(Imports(k)) : Imports(k)[i] \in Import
    BY <2>1
  <2>3. \A i \in Declared(k) : Imports(k)[i].path \in Modules
    BY <2>2 DEF Import, Declared
  <2> QED
    BY <2>3 DEF Children
<1>2. \A k \in Modules : Children(k) \subseteq Below(k) /\ Closed(Below(k)) /\ Below(k) \subseteq Modules
  BY <1>1, BelowClosed, ImportGraphAssumption
<1>3. Root \in Modules
  BY ImportGraphAssumption
<1>4. Closed(Tree)
  BY <1>2, <1>3 DEF Tree, Closed
<1>5. Tree \subseteq Modules
  BY <1>2, <1>3 DEF Tree
<1> QED
  BY <1>2, <1>4, <1>5

(* The files do not change, and neither does anything read off them alone.  *)
LEMMA ProgramKept ==
  ASSUME [Next]_vars
  PROVE  /\ program' = program
         /\ \A m : Imports(m)' = Imports(m) /\ Declared(m)' = Declared(m)
         /\ \A m : Children(m)' = Children(m) /\ Below(m)' = Below(m)
         /\ Tree' = Tree /\ Acyclic' = Acyclic
         /\ Healthy' = Healthy /\ DistinctAliases' = DistinctAliases
<1>1. program' = program
  BY DEF Next, SkipRepeatedAlias, RefuseTakenAlias, FailParse, BindAndWalk,
         ValidateImport, ReturnFromWalk, Finished, vars
<1>2. \A m : Imports(m)' = Imports(m)
  BY <1>1 DEF Imports
<1>3. \A m, i : Repeated(m, i)' = Repeated(m, i)
  BY <1>2 DEF Repeated
<1>4. \A m : Declared(m)' = Declared(m)
  BY <1>2, <1>3 DEF Declared
<1>5. \A m : Children(m)' = Children(m)
  BY <1>2, <1>4 DEF Children
<1>6. \A m : Below(m)' = Below(m)
  BY <1>1 DEF Below, Children, Declared, Repeated, Imports
<1>7. Tree' = Tree
  BY <1>6 DEF Tree
<1>8. Acyclic' = Acyclic
  BY <1>6, <1>7 DEF Acyclic
<1>9. \A m : Accepted(m)' = Accepted(m)
  BY <1>1 DEF Accepted
<1>10. Healthy' = Healthy
  BY <1>2, <1>4, <1>6, <1>9 DEF Healthy
<1>11. DistinctAliases' = DistinctAliases
  BY <1>2, <1>4, <1>7 DEF DistinctAliases
<1> QED
  BY <1>1, <1>2, <1>4, <1>5, <1>6, <1>7, <1>8, <1>10, <1>11

(* The import the walk is at, when it is not a repetition.                  *)
LEMMA CurrentDeclared ==
  ASSUME TypeOK, stack # <<>>, next[Top] <= Len(Imports(Top)), ~Repeated(Top, next[Top])
  PROVE  /\ next[Top] \in Declared(Top) /\ Current.path \in Children(Top)
         /\ Current.path \in Below(Top)
<1>1. Top \in Modules /\ next[Top] \in 1..Len(Imports(Top))
  <2>1. next[Top] \in Nat \ {0} /\ Imports(Top) \in Seq(Import) /\ Top \in Modules
    BY CurrentTyped
  <2> QED
    BY <2>1
<1>2. next[Top] \in Declared(Top)
  BY <1>1 DEF Declared
<1>3. Current.path \in Children(Top)
  BY <1>2 DEF Children, Current
<1> QED
  BY <1>1, <1>2, <1>3, BelowFacts

(* Where the walk is may change, and the import it has passed is left        *)
(* behind; the files waiting for a file, and what they wait at, do not.      *)
LEMMA StandingKeepsTree ==
  ASSUME TypeOK, Walks, TreeInv, [Next]_vars, stack' = stack, visited' = visited,
         BoundVisited', \A m \in Modules : m # Top => next'[m] = next[m],
         pc' = "validate" => next' = next /\ next[Top] \in Declared(Top)
  PROVE  TreeInv'
<1>1. Root \in visited' /\ (visited \subseteq Tree)'
  BY ProgramKept DEF TreeInv
<1>2. StackBelow'
  BY ProgramKept DEF TreeInv, StackBelow
<1>3. PendingDeclared'
  <2> SUFFICES ASSUME NEW m \in Modules, NEW i \in 1..Len(stack), stack[i] = m,
                      i > 1 \/ pc' = "validate"
               PROVE  next'[m] \in Declared(m)
    BY ProgramKept DEF PendingDeclared
  <2>1. stack \in Seq(Modules) /\ stack # <<>> /\ Len(stack) \in Nat
    <3>1. stack \in Seq(Modules) /\ Len(stack) \in Nat
      BY StackTyped
    <3> QED
      BY <3>1
  <2>2. Top = stack[1] /\ 1 \in 1..Len(stack)
    BY <2>1, PopFacts DEF Top
  <2>3. CASE m = Top
    <3>1. i = 1
      BY <2>2, <2>3 DEF Walks, OneWalkPerFile
    <3> QED
      BY <2>3, <3>1
  <2>4. CASE m # Top
    <3>1. i > 1
      BY <2>2, <2>4
    <3> QED
      BY <2>4, <3>1 DEF TreeInv, PendingDeclared
  <2> QED
    BY <2>3, <2>4
<1> QED
  BY <1>1, <1>2, <1>3 DEF TreeInv

(* A file that is bound is a file that was entered.                         *)
LEMMA BindingVisits ==
  ASSUME TypeOK, TreeInv, BindAndWalk
  PROVE  BoundVisited'
<1>1. stack # <<>> /\ next[Top] <= Len(Imports(Top))
  BY DEF BindAndWalk, AtImport, TypeOK
<1>2. Current.path \in visited'
  BY DEF BindAndWalk
<1>3. visited \subseteq visited'
  BY DEF BindAndWalk
<1>4. byAlias' = [byAlias EXCEPT ![Current.alias] = Current.path]
  BY DEF BindAndWalk
<1> QED
  BY <1>1, <1>2, <1>3, <1>4, CurrentTyped DEF TreeInv, BoundVisited, TypeOK

(* A walk that starts is of a file of the tree, below all that wait.        *)
LEMMA WalkKeepsTree ==
  ASSUME TypeOK, Walks, TreeInv, BindAndWalk, Current.path \notin visited
  PROVE  TreeInv'
<1>1. stack # <<>> /\ next[Top] <= Len(Imports(Top)) /\ [Next]_vars /\ ~Repeated(Top, next[Top])
  BY DEF BindAndWalk, AtImport, TypeOK, Next
<1>2. /\ Top \in Modules /\ Top \in visited /\ Top = stack[1]
      /\ Current.path \in Modules
  BY <1>1, CurrentTyped
<1>3. /\ next[Top] \in Declared(Top) /\ Current.path \in Children(Top)
      /\ Current.path \in Below(Top)
  BY <1>1, CurrentDeclared
<1>4. /\ stack \in Seq(Modules) /\ Len(stack) \in Nat
      /\ \A i \in 1..Len(stack) : stack[i] \in visited /\ stack[i] \in Modules
  BY StackTyped
<1>5. /\ visited' = visited \cup {Current.path}
      /\ stack' = <<Current.path>> \o stack
      /\ next' = next /\ pc' = "loop"
  BY DEF BindAndWalk, AtImport
<1>6. /\ Len(stack') = Len(stack) + 1
      /\ stack'[1] = Current.path
      /\ \A i \in 2..(Len(stack) + 1) : stack'[i] = stack[i - 1]
  BY <1>2, <1>4, <1>5, PushFacts
<1>7. Root \in visited' /\ (visited \subseteq Tree)'
  <2>1. Current.path \in Tree
    <3>1. Top \in Tree
      BY <1>2 DEF TreeInv
    <3>2. Closed(Tree)
      BY BelowFacts
    <3> QED
      BY <1>3, <3>1, <3>2 DEF Closed
  <2> QED
    BY <1>1, <1>5, <2>1, ProgramKept DEF TreeInv
<1>8. StackBelow'
  <2> SUFFICES ASSUME NEW m \in Modules, NEW i \in 1..(Len(stack) + 1),
                      NEW j \in 1..(Len(stack) + 1), i < j, stack'[j] = m
               PROVE  stack'[i] \in Below(m)
    BY <1>1, <1>6, ProgramKept DEF StackBelow
  <2>1. j - 1 \in 1..Len(stack) /\ stack[j - 1] = m
    BY <1>4, <1>6
  <2>2. CASE i = 1
    <3>1. CASE j = 2
      BY <2>1, <2>2, <3>1, <1>2, <1>3, <1>6
    <3>2. CASE j > 2
      <4>1. 1 \in 1..Len(stack) /\ 1 < j - 1
        BY <3>2, <1>4
      <4>2. Top \in Below(m)
        BY <2>1, <4>1, <1>2 DEF TreeInv, StackBelow
      <4>3. Closed(Below(m))
        BY BelowFacts
      <4> QED
        BY <2>2, <4>2, <4>3, <1>3, <1>6 DEF Closed
    <3> QED
      BY <2>2, <3>1, <3>2, <1>4
  <2>3. CASE i > 1
    <3>1. i - 1 \in 1..Len(stack) /\ i - 1 < j - 1 /\ stack'[i] = stack[i - 1]
      BY <2>3, <1>4, <1>6
    <3> QED
      BY <2>1, <3>1 DEF TreeInv, StackBelow
  <2> QED
    BY <2>2, <2>3, <1>4
<1>9. PendingDeclared'
  <2> SUFFICES ASSUME NEW m \in Modules, NEW i \in 2..(Len(stack) + 1), stack'[i] = m
               PROVE  next[m] \in Declared(m)
    BY <1>1, <1>4, <1>5, <1>6, ProgramKept DEF PendingDeclared
  <2>1. i - 1 \in 1..Len(stack) /\ stack[i - 1] = m
    BY <1>4, <1>6
  <2>2. CASE i = 2
    BY <2>1, <2>2, <1>2, <1>3
  <2>3. CASE i > 2
    <3>1. i - 1 > 1
      BY <2>3
    <3> QED
      BY <2>1, <3>1 DEF TreeInv, PendingDeclared
  <2> QED
    BY <2>2, <2>3
<1>10. BoundVisited'
  BY BindingVisits
<1> QED
  BY <1>7, <1>8, <1>9, <1>10 DEF TreeInv

(* A walk that returns leaves those that wait as they were.                 *)
LEMMA ReturnKeepsTree ==
  ASSUME TypeOK, Walks, TreeInv, ReturnFromWalk
  PROVE  TreeInv'
<1>1. /\ stack # <<>> /\ [Next]_vars
      /\ stack' = Tail(stack) /\ visited' = visited /\ next' = next /\ byAlias' = byAlias
  BY DEF ReturnFromWalk, TypeOK, Next
<1>2. /\ Len(stack) \in Nat \ {0}
      /\ \A i \in 1..Len(stack) : stack[i] \in Modules
      /\ Len(stack') = Len(stack) - 1
      /\ \A i \in 1..(Len(stack) - 1) : stack'[i] = stack[i + 1]
  <2>1. stack \in Seq(Modules)
    BY StackTyped
  <2> QED
    BY <2>1, <1>1, StackTyped, PopFacts
<1>3. Root \in visited' /\ (visited \subseteq Tree)' /\ BoundVisited'
  BY <1>1, ProgramKept DEF TreeInv, BoundVisited
<1>4. StackBelow'
  <2> SUFFICES ASSUME NEW m \in Modules, NEW i \in 1..(Len(stack) - 1),
                      NEW j \in 1..(Len(stack) - 1), i < j, stack'[j] = m
               PROVE  stack'[i] \in Below(m)
    BY <1>1, <1>2, ProgramKept DEF StackBelow
  <2>1. i + 1 \in 1..Len(stack) /\ j + 1 \in 1..Len(stack) /\ i + 1 < j + 1
    BY <1>2
  <2>2. stack'[i] = stack[i + 1] /\ stack[j + 1] = m
    BY <1>2
  <2> QED
    BY <2>1, <2>2 DEF TreeInv, StackBelow
<1>5. PendingDeclared'
  <2> SUFFICES ASSUME NEW m \in Modules, NEW i \in 1..(Len(stack) - 1), stack'[i] = m
               PROVE  next[m] \in Declared(m)
    BY <1>1, <1>2, ProgramKept DEF PendingDeclared
  <2>1. i + 1 \in 1..Len(stack) /\ i + 1 > 1 /\ stack[i + 1] = m
    BY <1>2
  <2> QED
    BY <2>1 DEF TreeInv, PendingDeclared
<1> QED
  BY <1>3, <1>4, <1>5 DEF TreeInv

(* Every step keeps the walk in the tree.                                   *)
LEMMA TreeStep == TypeOK /\ Walks /\ TreeInv /\ [Next]_vars => TreeInv'
<1> SUFFICES ASSUME TypeOK, Walks, TreeInv, [Next]_vars PROVE TreeInv'
  OBVIOUS
<1>1. CASE BindAndWalk /\ Current.path \notin visited
  BY <1>1, WalkKeepsTree
<1>2. CASE BindAndWalk /\ Current.path \in visited
  <2>1. stack # <<>> /\ next[Top] <= Len(Imports(Top)) /\ ~Repeated(Top, next[Top])
    BY <1>2 DEF BindAndWalk, AtImport, TypeOK
  <2>2. BoundVisited' /\ next[Top] \in Declared(Top)
    BY <1>2, <2>1, BindingVisits, CurrentDeclared
  <2>3. stack' = stack /\ visited' = visited /\ next' = next
    BY <1>2 DEF BindAndWalk
  <2> QED
    BY <2>2, <2>3, StandingKeepsTree
<1>3. CASE ReturnFromWalk
  BY <1>3, ReturnKeepsTree
<1>4. CASE ~BindAndWalk /\ ~ReturnFromWalk
  <2>1. stack' = stack /\ visited' = visited /\ byAlias' = byAlias
    BY <1>4 DEF Next, SkipRepeatedAlias, RefuseTakenAlias, FailParse, ValidateImport,
                Finished, vars
  <2>2. BoundVisited'
    BY <2>1 DEF TreeInv, BoundVisited
  <2>3. \A m \in Modules : m # Top => next'[m] = next[m]
    BY <1>4 DEF Next, SkipRepeatedAlias, RefuseTakenAlias, FailParse, ValidateImport,
                Finished, vars, TypeOK
  <2>4. pc' = "validate" => pc = "validate" /\ next' = next
    BY <1>4 DEF Next, SkipRepeatedAlias, RefuseTakenAlias, FailParse, ValidateImport,
                AtImport, Fail, Finished, vars
  <2>5. pc = "validate" => next[Top] \in Declared(Top)
    <3> SUFFICES ASSUME pc = "validate" PROVE next[Top] \in Declared(Top)
      OBVIOUS
    <3>1. stack # <<>> /\ Len(stack) \in Nat /\ stack \in Seq(Modules)
      BY StackTyped DEF TypeOK
    <3>2. 1 \in 1..Len(stack) /\ Top = stack[1] /\ Top \in Modules
      BY <3>1, CurrentTyped
    <3> QED
      BY <3>2 DEF TreeInv, PendingDeclared
  <2> QED
    BY <2>1, <2>2, <2>3, <2>4, <2>5, StandingKeepsTree
<1> QED
  BY <1>1, <1>2, <1>3, <1>4

-----------------------------------------------------------------------------
(* What the walk has told: every warning it passed, and, once it has        *)
(* failed, the import it failed at.                                         *)
PassedReported ==
  \A m \in Modules : \A i \in Declared(m) :
    i < next[m] /\ program.health[Imports(m)[i].path] = "warning" => DiagnosticFor(m, i)

FailureReported ==
  err \in {"parse", "validation"} =>
    pc = "done" /\ stack # <<>> /\ DiagnosticFor(Top, next[Top])

(* What the walk has validated: every import it passed, each of them bound. *)
PassedValidated ==
  \A m \in Modules : \A i \in Declared(m) :
    i < next[m] => Imports(m)[i].alias \in validated

ValidatedBound == \A al \in validated : byAlias[al] # NoModule

(* An alias is bound by an import of a file that was entered: one that the  *)
(* walk of that file has passed, or the one it is waiting for.              *)
BindingImport(al, m, i) ==
  /\ Imports(m)[i].alias = al
  /\ i < next[m] \/ (i = next[m] /\ (m # Top \/ pc = "validate"))

BoundByImport ==
  pc # "done" => \A al \in Aliases :
    byAlias[al] # NoModule => \E m \in visited : \E i \in Declared(m) : BindingImport(al, m, i)

LegalTreeInv ==
  /\ BoundByImport
  /\ Healthy /\ Acyclic /\ DistinctAliases => err = "none"

WholeInv ==
  /\ Inv
  /\ TreeInv
  /\ PassedReported /\ FailureReported
  /\ PassedValidated /\ ValidatedBound /\ DependenciesFirst
  /\ LegalTreeInv
-----------------------------------------------------------------------------
(* A walk passes an import that is not a repetition in one way: the module  *)
(* of the import it is at has been validated and did not fail.              *)
LEMMA NextMoves ==
  ASSUME TypeOK, [Next]_vars, NEW m \in Modules, NEW i \in Declared(m)
  PROVE  /\ i < next[m] => i < next'[m]
         /\ i < next'[m] /\ ~(i < next[m]) =>
              /\ ValidateImport /\ ~FailsCompilation(Current.path)
              /\ m = Top /\ i = next[Top]
<1>1. i \in Nat /\ ~Repeated(m, i)
  BY DEF Declared
<1>2. next \in [Modules -> Nat \ {0}] /\ next[m] \in Nat
  BY DEF TypeOK
<1>3. CASE next' = [next EXCEPT ![Top] = @ + 1]
  <2>1. \/ SkipRepeatedAlias
        \/ ValidateImport /\ ~FailsCompilation(Current.path)
        \/ next' = next
    BY DEF Next, SkipRepeatedAlias, RefuseTakenAlias, FailParse, BindAndWalk,
           ValidateImport, ReturnFromWalk, Finished, vars
  <2>2. next'[m] = IF m = Top THEN next[m] + 1 ELSE next[m]
    BY <1>2, <1>3
  <2>3. i < next'[m] /\ ~(i < next[m]) => m = Top /\ i = next[Top]
    BY <1>1, <1>2, <2>2
  <2>4. SkipRepeatedAlias /\ m = Top /\ i = next[Top] => FALSE
    BY <1>1 DEF SkipRepeatedAlias
  <2> QED
    BY <1>1, <1>2, <2>1, <2>2, <2>3, <2>4
<1>4. CASE next' = next
  BY <1>4
<1>5. next' = next \/ next' = [next EXCEPT ![Top] = @ + 1]
  BY DEF Next, SkipRepeatedAlias, RefuseTakenAlias, FailParse, BindAndWalk,
         ValidateImport, ReturnFromWalk, Finished, vars
<1> QED
  BY <1>3, <1>4, <1>5

(* Diagnostics are only ever added.                                         *)
LEMMA DiagnosticsKept ==
  ASSUME [Next]_vars
  PROVE  /\ diags \subseteq diags'
         /\ \A m, i : DiagnosticFor(m, i) => DiagnosticFor(m, i)'
<1>1. \A codes : Report(codes) => diags \subseteq diags'
  BY DEF Report
<1>2. diags \subseteq diags'
  BY <1>1 DEF Next, SkipRepeatedAlias, RefuseTakenAlias, FailParse, BindAndWalk,
         ValidateImport, ReturnFromWalk, Finished, vars
<1> QED
  BY <1>2, ProgramKept DEF DiagnosticFor

(* A report with a code is a diagnostic of the import the walk is at.       *)
LEMMA ReportTells ==
  ASSUME NEW codes, NEW c \in codes, Report(codes), program' = program
  PROVE  \E d \in diags' : d.alias = Current.alias /\ d.path = Current.path
<1> DEFINE d == [alias |-> Current.alias, path |-> Current.path, code |-> c]
<1>1. d \in diags'
  BY DEF Report
<1>2. d.alias = Current.alias /\ d.path = Current.path
  OBVIOUS
<1> QED
  BY <1>1, <1>2

(* No warning is passed in silence.                                         *)
LEMMA ReportedStep ==
  ASSUME TypeOK, PassedReported, [Next]_vars
  PROVE  PassedReported'
<1> SUFFICES ASSUME NEW m \in Modules, NEW i \in Declared(m), i < next'[m],
                    program.health[Imports(m)[i].path] = "warning"
             PROVE  DiagnosticFor(m, i)'
  BY ProgramKept DEF PassedReported
<1>1. CASE i < next[m]
  BY <1>1, DiagnosticsKept DEF PassedReported
<1>2. CASE ~(i < next[m])
  <2>1. ValidateImport /\ m = Top /\ i = next[Top]
    BY <1>2, NextMoves
  <2>2. Report(Findings(Current.path)) /\ Imports(m)[i] = Current
    BY <2>1 DEF ValidateImport, Current
  <2>3. "WARNING" \in Findings(Current.path)
    BY <2>2 DEF Findings
  <2>4. \E d \in diags' : d.alias = Current.alias /\ d.path = Current.path
    BY <2>2, <2>3, ReportTells, ProgramKept
  <2> QED
    BY <2>2, <2>4, ProgramKept DEF DiagnosticFor
<1> QED
  BY <1>1, <1>2

(* A walk that fails at an import tells of that import.                     *)
LEMMA FailureStep ==
  ASSUME TypeOK, Walks, FailureReported, [Next]_vars
  PROVE  FailureReported'
<1>1. CASE FailParse
  <2>1. /\ stack # <<>> /\ next[Top] <= Len(Imports(Top))
        /\ pc' = "done" /\ stack' = stack /\ next' = next
    BY <1>1 DEF FailParse, AtImport, Fail, TypeOK
  <2>2. \E codes : Report(codes) /\ codes # {}
    <3>1. {"IMPORT_PARSE"} # {} /\ {"SYNTAX"} # {} /\ {"SYNTAX", "IMPORT_PARSE"} # {}
      OBVIOUS
    <3> QED
      BY <1>1, <3>1 DEF FailParse
  <2>3. \E d \in diags' : d.alias = Current.alias /\ d.path = Current.path
    BY <2>2, ReportTells, ProgramKept
  <2> QED
    BY <2>1, <2>3, ProgramKept DEF FailureReported, DiagnosticFor, Current, Imports, Top
<1>2. CASE ValidateImport /\ FailsCompilation(Current.path)
  <2>1. /\ stack # <<>> /\ pc' = "done" /\ stack' = stack /\ next' = next
        /\ Report(Findings(Current.path))
    BY <1>2 DEF ValidateImport, Fail, TypeOK
  <2>2. PICK c \in Findings(Current.path) : TRUE
    BY <1>2 DEF FailsCompilation
  <2>3. \E d \in diags' : d.alias = Current.alias /\ d.path = Current.path
    BY <2>1, <2>2, ReportTells, ProgramKept
  <2> QED
    BY <2>1, <2>3, ProgramKept DEF FailureReported, DiagnosticFor, Current, Imports, Top
<1>3. CASE UNCHANGED vars
  BY <1>3 DEF vars, FailureReported, DiagnosticFor, Imports, Top
<1>4. CASE ~FailParse /\ ~(ValidateImport /\ FailsCompilation(Current.path)) /\ ~UNCHANGED vars
  <2>1. pc # "done" /\ (err' = err \/ err' = "duplicate alias")
    BY <1>4 DEF Next, SkipRepeatedAlias, RefuseTakenAlias, BindAndWalk, ValidateImport,
                ReturnFromWalk, AtImport, Fail, Finished
  <2> QED
    BY <2>1 DEF FailureReported
<1> QED
  BY <1>1, <1>2, <1>3, <1>4

(* A walk that succeeded has entered the whole tree and passed every import *)
(* of it.                                                                   *)
LEMMA WholeTreeWalked ==
  ASSUME TypeOK, Walks, TreeInv, pc = "done", err = "none",
         NEW m \in Tree, NEW i \in Declared(m)
  PROVE  m \in visited /\ i < next[m]
<1>1. ASSUME NEW k \in visited, NEW j \in Declared(k) PROVE j < next[k]
  <2>1. stack = <<>> /\ k \in Modules
    BY DEF TypeOK, Walks, EndsEmpty
  <2>2. j \in 1..Len(Imports(k))
    BY DEF Declared
  <2>3. next[k] \in Nat /\ Len(Imports(k)) \in Nat
    BY <2>1 DEF TypeOK, Imports
  <2>4. ~(next[k] <= Len(Imports(k)))
    BY <2>1 DEF Walks, UnfinishedOnStack
  <2> QED
    BY <2>2, <2>3, <2>4
<1>2. ASSUME NEW k \in visited, NEW j \in Declared(k) PROVE Imports(k)[j].path \in visited
  <2>1. k \in Modules /\ j \in 1..Len(Imports(k)) /\ ~Repeated(k, j) /\ j < next[k]
    BY <1>1 DEF Declared, TypeOK
  <2>2. Bound(k, j)
    BY <2>1 DEF Walks, PassedImportsSettled, Settled
  <2>3. Imports(k) \in Seq(Import)
    BY <2>1 DEF TypeOK, Imports
  <2>4. Imports(k)[j] \in Import
    BY <2>1, <2>3
  <2>5. Imports(k)[j].alias \in Aliases /\ Imports(k)[j].path \in Modules
    BY <2>4 DEF Import
  <2> QED
    BY <2>2, <2>5, ImportGraphAssumption DEF Bound, TreeInv, BoundVisited
<1>3. \A k \in visited : Children(k) \subseteq visited
  BY <1>2 DEF Children
<1>4. Closed(visited) /\ Children(Root) \subseteq visited /\ Root \in visited
  BY <1>3 DEF Closed, TreeInv
<1>5. Below(Root) \subseteq visited
  BY <1>4, BelowLeast, FS_CardinalityType, ImportGraphAssumption
<1>6. m \in visited
  BY <1>4, <1>5 DEF Tree
<1> QED
  BY <1>1, <1>6

(* The file an import names, once its walk is over: without a cycle it is   *)
(* not among the walks that wait, so it is finished.                        *)
LEMMA FinishedWalk ==
  ASSUME TypeOK, Walks, TreeInv, Acyclic, pc = "validate"
  PROVE  /\ Current.path \in visited /\ Current.path \in Tree \ {Root}
         /\ \A i \in 1..Len(Imports(Current.path)) :
              i < next[Current.path] /\ Settled(Current.path, i)
<1>1. /\ stack # <<>> /\ next[Top] <= Len(Imports(Top))
      /\ Current.alias \in Aliases /\ Current.path \in Modules
      /\ byAlias[Current.alias] = Current.path
  BY ValidatedTyped DEF Walks
<1>2. /\ Top \in Modules /\ Top \in visited /\ Top \in Tree /\ Top = stack[1]
  BY <1>1, CurrentTyped DEF TreeInv
<1>3. /\ Len(stack) \in Nat /\ 1 \in 1..Len(stack)
      /\ \A i \in 1..Len(stack) : stack[i] \in visited /\ stack[i] \in Modules
  <2>1. stack \in Seq(Modules)
    BY StackTyped
  <2> QED
    BY <2>1, <1>1, StackTyped
<1>4. Current.path \in visited
  BY <1>1, ImportGraphAssumption DEF TreeInv, BoundVisited
<1>5. next[Top] \in Declared(Top)
  BY <1>2, <1>3 DEF TreeInv, PendingDeclared
<1>6. Current.path \in Children(Top) /\ Current.path \in Below(Top)
  <2>1. Current.path \in Children(Top)
    BY <1>5 DEF Children, Current
  <2> QED
    BY <2>1, <1>2, BelowFacts
<1>7. ASSUME NEW j \in 1..Len(stack), stack[j] = Current.path PROVE FALSE
  <2>1. Current.path \in Below(Current.path)
    <3>1. CASE j = 1
      BY <3>1, <1>2, <1>6, <1>7
    <3>2. CASE j > 1
      <4>1. Top \in Below(Current.path)
        BY <3>2, <1>1, <1>2, <1>3, <1>7 DEF TreeInv, StackBelow
      <4>2. Closed(Below(Current.path))
        BY <1>1, BelowFacts
      <4> QED
        BY <4>1, <4>2, <1>6 DEF Closed
    <3> QED
      BY <3>1, <3>2
  <2>2. Current.path \in Tree
    BY <1>4 DEF TreeInv
  <2> QED
    BY <2>1, <2>2 DEF Acyclic
<1>8. Current.path \in Tree \ {Root}
  <2>1. Current.path \in Tree
    BY <1>4 DEF TreeInv
  <2>2. Current.path # Root
    <3> SUFFICES ASSUME Current.path = Root PROVE FALSE
      OBVIOUS
    <3>1. CASE Top = Root
      BY <3>1, <1>6, <1>2 DEF Acyclic
    <3>2. CASE Top \in Below(Root)
      <4>1. Closed(Below(Root)) /\ Root \in Modules
        BY BelowFacts, ImportGraphAssumption
      <4>2. Root \in Below(Root)
        BY <3>2, <4>1, <1>6 DEF Closed
      <4> QED
        BY <4>2 DEF Acyclic, Tree
    <3> QED
      BY <3>1, <3>2, <1>2 DEF Tree
  <2> QED
    BY <2>1, <2>2
<1>9. ASSUME NEW i \in 1..Len(Imports(Current.path))
      PROVE  i < next[Current.path] /\ Settled(Current.path, i)
  <2>1. ~(next[Current.path] <= Len(Imports(Current.path)))
    BY <1>4, <1>7 DEF Walks, UnfinishedOnStack
  <2>2. next[Current.path] \in Nat /\ Imports(Current.path) \in Seq(Import)
    BY <1>1 DEF TypeOK, Imports
  <2>3. i < next[Current.path]
    BY <2>1, <2>2
  <2> QED
    BY <2>3, <1>1 DEF Walks, PassedImportsSettled
<1> QED
  BY <1>4, <1>8, <1>9

(* What has been validated stays so, and stays bound.                       *)
LEMMA ValidationsStep ==
  ASSUME TypeOK, Walks, PassedValidated, ValidatedBound, [Next]_vars
  PROVE  validated \subseteq validated' /\ PassedValidated' /\ ValidatedBound'
<1>1. validated \subseteq validated'
  BY DEF Next, SkipRepeatedAlias, RefuseTakenAlias, FailParse, BindAndWalk,
         ValidateImport, ReturnFromWalk, Finished, vars
<1>2. PassedValidated'
  <2> SUFFICES ASSUME NEW m \in Modules, NEW i \in Declared(m), i < next'[m]
               PROVE  Imports(m)[i].alias \in validated'
    BY ProgramKept DEF PassedValidated
  <2>1. CASE i < next[m]
    BY <2>1, <1>1 DEF PassedValidated
  <2>2. CASE ~(i < next[m])
    <3>1. ValidateImport /\ ~FailsCompilation(Current.path) /\ Imports(m)[i] = Current
      BY <2>2, NextMoves DEF Current
    <3> QED
      BY <3>1 DEF ValidateImport
  <2> QED
    BY <2>1, <2>2
<1>3. ValidatedBound'
  <2> SUFFICES ASSUME NEW al \in validated' PROVE byAlias'[al] # NoModule
    BY DEF ValidatedBound
  <2>1. CASE al \in validated
    <3>1. al \in Aliases /\ byAlias[al] # NoModule
      BY <2>1 DEF TypeOK, ValidatedBound
    <3> QED
      BY <3>1, BindingKept
  <2>2. CASE al \notin validated
    <3>1. ValidateImport /\ al = Current.alias
      BY <2>2 DEF Next, SkipRepeatedAlias, RefuseTakenAlias, FailParse, BindAndWalk,
                  ValidateImport, ReturnFromWalk, Finished, vars
    <3>2. byAlias[al] = Current.path /\ Current.path \in Modules
      BY <3>1, ValidatedTyped DEF ValidateImport, Walks
    <3> QED
      BY <3>1, <3>2, ImportGraphAssumption DEF ValidateImport
  <2> QED
    BY <2>1, <2>2
<1> QED
  BY <1>1, <1>2, <1>3

(* A module is validated when all it imports has been: its walk is over.    *)
LEMMA DependenciesStep ==
  ASSUME TypeOK, Walks, TreeInv, PassedValidated, ValidatedBound, DependenciesFirst,
         [Next]_vars
  PROVE  DependenciesFirst'
<1>1. validated \subseteq validated'
  BY ValidationsStep
<1>2. ASSUME Acyclic, NEW al \in validated', NEW m, m = byAlias'[al], NEW i \in Declared(m)
      PROVE  Imports(m)[i].alias \in validated'
  <2>1. CASE al \in validated
    <3>1. m = byAlias[al]
      BY <1>2, <2>1, BindingKept DEF TypeOK, ValidatedBound
    <3> QED
      BY <3>1, <1>1, <1>2, <2>1 DEF DependenciesFirst
  <2>2. CASE al \notin validated
    <3>1. ValidateImport /\ al = Current.alias
      BY <2>2 DEF Next, SkipRepeatedAlias, RefuseTakenAlias, FailParse, BindAndWalk,
                  ValidateImport, ReturnFromWalk, Finished, vars
    <3>2. m = Current.path /\ m \in Modules
      BY <1>2, <3>1, ValidatedTyped DEF ValidateImport, Walks
    <3>3. i \in 1..Len(Imports(m))
      BY DEF Declared
    <3>4. i < next[m]
      BY <1>2, <3>1, <3>2, <3>3, FinishedWalk DEF ValidateImport
    <3> QED
      BY <3>2, <3>4, <1>1 DEF PassedValidated
  <2> QED
    BY <2>1, <2>2
<1>3. ASSUME Acyclic', NEW al \in validated'
      PROVE  \A i \in Declared(byAlias'[al]) : Imports(byAlias'[al])[i].alias \in validated'
  <2>1. PICK m : m = byAlias'[al]
    OBVIOUS
  <2>2. Acyclic
    BY <1>3, ProgramKept
  <2> QED
    BY <1>2, <2>1, <2>2
<1> QED
  BY <1>3, ProgramKept DEF DependenciesFirst, Declared, Repeated, Imports

-----------------------------------------------------------------------------
(* An alias that was bound keeps an import that binds it, when no walk but  *)
(* the innermost moves and, if another one becomes the innermost, its       *)
(* import is now the one to validate.                                       *)
LEMMA BindingKeptByImport ==
  ASSUME TypeOK, [Next]_vars, NEW al, NEW m \in visited, NEW i \in Declared(m),
         BindingImport(al, m, i),
         next'[m] = next[m] \/ next'[m] = next[m] + 1,
         i = next[m] => i < next'[m] \/ Top' # m \/ pc' = "validate"
  PROVE  BindingImport(al, m, i)'
<1>1. m \in Modules /\ next[m] \in Nat /\ i \in Nat
  <2>1. m \in Modules /\ next[m] \in Nat
    BY DEF TypeOK
  <2>2. i \in Nat
    BY DEF Declared
  <2> QED
    BY <2>1, <2>2
<1>2. i < next[m] => i < next'[m]
  BY <1>1
<1>3. i = next[m] => i < next'[m] \/ i = next'[m]
  BY <1>1
<1> QED
  BY <1>2, <1>3, ProgramKept DEF BindingImport

(* How the innermost walk, its place and the step of the walk change.       *)
LEMMA BoundStep ==
  ASSUME TypeOK, Walks, TreeInv, BoundByImport, [Next]_vars
  PROVE  BoundByImport'
<1> SUFFICES ASSUME pc' # "done", NEW al \in Aliases, byAlias'[al] # NoModule
             PROVE  \E m \in visited' : \E i \in Declared(m) : BindingImport(al, m, i)'
  BY ProgramKept DEF BoundByImport
<1>1. pc # "done"
  BY DEF Next, SkipRepeatedAlias, RefuseTakenAlias, FailParse, BindAndWalk,
         ValidateImport, ReturnFromWalk, AtImport, Fail, Finished, vars
<1>2. visited \subseteq visited'
  BY DEF Next, SkipRepeatedAlias, RefuseTakenAlias, FailParse, BindAndWalk,
         ValidateImport, ReturnFromWalk, Finished, vars
<1>3. stack # <<>> /\ Top \in Modules /\ Top \in visited
  BY <1>1, CurrentTyped DEF TypeOK
<1>4. ASSUME byAlias[al] # NoModule
      PROVE  \E m \in visited' : \E i \in Declared(m) : BindingImport(al, m, i)'
  <2>0. PICK m \in visited : \E i \in Declared(m) : BindingImport(al, m, i)
    BY <1>1, <1>4 DEF BoundByImport
  <2>1. PICK i \in Declared(m) : BindingImport(al, m, i)
    BY <2>0
  <2>2. m \in Modules /\ next[m] \in Nat
    BY DEF TypeOK
  <2>3. CASE SkipRepeatedAlias \/ ValidateImport
    <3>1. next' = [next EXCEPT ![Top] = @ + 1] /\ stack' = stack
      BY <2>3 DEF SkipRepeatedAlias, ValidateImport, Fail
    <3>2. next'[m] = IF m = Top THEN next[m] + 1 ELSE next[m]
      BY <3>1, <2>2 DEF TypeOK
    <3>3. Top' = Top
      BY <3>1 DEF Top
    <3>4. i = next[m] => i < next'[m] \/ Top' # m
      BY <3>2, <3>3, <2>2
    <3>5. BindingImport(al, m, i)'
      BY <2>1, <3>2, <3>4, BindingKeptByImport
    <3> QED
      BY <3>5, <1>2
  <2>4. CASE BindAndWalk
    <3>1. next' = next /\ pc = "loop"
      BY <2>4 DEF BindAndWalk, AtImport
    <3>2. i = next[m] => m # Top
      BY <2>1, <3>1, <2>2 DEF BindingImport
    <3>3. Top' # m \/ pc' = "validate"
      <4>1. CASE Current.path \in visited
        BY <2>4, <4>1 DEF BindAndWalk
      <4>2. CASE Current.path \notin visited
        <5>1. stack' = <<Current.path>> \o stack /\ Current.path \in Modules /\ stack \in Seq(Modules)
          BY <2>4, <4>2, <1>3, CurrentTyped, StackTyped DEF BindAndWalk, AtImport
        <5>2. Top' = Current.path
          BY <5>1 DEF Top
        <5> QED
          BY <5>2, <4>2
      <4> QED
        BY <4>1, <4>2
    <3>4. BindingImport(al, m, i)'
      BY <2>1, <3>1, <3>3, BindingKeptByImport
    <3> QED
      BY <3>4, <1>2
  <2>5. CASE ReturnFromWalk
    <3>1. next' = next /\ pc' = "validate"
      BY <2>5 DEF ReturnFromWalk
    <3>2. BindingImport(al, m, i)'
      BY <2>1, <3>1, BindingKeptByImport
    <3> QED
      BY <3>2, <1>2
  <2>6. CASE UNCHANGED vars
    <3>1. BindingImport(al, m, i)'
      BY <2>1, <2>6 DEF BindingImport, vars, Imports, Top
    <3> QED
      BY <3>1, <1>2
  <2> QED
    BY <2>3, <2>4, <2>5, <2>6 DEF Next, RefuseTakenAlias, FailParse, Fail, Finished
<1>5. ASSUME byAlias[al] = NoModule
      PROVE  \E m \in visited' : \E i \in Declared(m) : BindingImport(al, m, i)'
  <2>1. BindAndWalk
    BY <1>5 DEF Next, SkipRepeatedAlias, RefuseTakenAlias, FailParse,
                ValidateImport, ReturnFromWalk, Finished, vars
  <2>2. al = Current.alias
    <3>1. byAlias' = [byAlias EXCEPT ![Current.alias] = Current.path]
      BY <2>1 DEF BindAndWalk
    <3> QED
      BY <3>1, <1>5 DEF TypeOK
  <2>3. next[Top] <= Len(Imports(Top)) /\ ~Repeated(Top, next[Top]) /\ next' = next
    BY <2>1 DEF BindAndWalk, AtImport
  <2>4. PICK m \in visited : m = Top
    BY <1>3
  <2>7. PICK i \in Declared(m) : i = next[Top]
    BY <2>3, <2>4, <1>3, CurrentDeclared
  <2>5. Top' # m \/ pc' = "validate"
    <3>1. CASE Current.path \in visited
      BY <2>1, <3>1 DEF BindAndWalk
    <3>2. CASE Current.path \notin visited
      <4>1. stack' = <<Current.path>> \o stack /\ Current.path \in Modules /\ stack \in Seq(Modules)
        BY <2>1, <3>2, <1>3, CurrentTyped, StackTyped DEF BindAndWalk, AtImport
      <4>2. Top' = Current.path
        BY <4>1 DEF Top
      <4> QED
        BY <4>2, <3>2
    <3> QED
      BY <3>1, <3>2
  <2>6. BindingImport(al, m, i)'
    BY <2>2, <2>3, <2>4, <2>5, <2>7, ProgramKept DEF BindingImport, Current
  <2> QED
    BY <2>6, <1>2
<1> QED
  BY <1>4, <1>5

(* In a tree of healthy files under distinct aliases, without a cycle, no   *)
(* step fails: the alias is free, the file parses, and what it imports has  *)
(* been bound when it is validated.                                         *)
LEMMA LegalStep ==
  ASSUME TypeOK, Walks, TreeInv, BoundByImport, [Next]_vars,
         Healthy, Acyclic, DistinctAliases, err = "none"
  PROVE  err' = "none"
<1>1. ASSUME AtImport, ~Repeated(Top, next[Top])
      PROVE  /\ Top \in Modules /\ Top \in Tree
             /\ next[Top] \in Declared(Top) /\ Current.path \in Below(Root)
  <2>1. stack # <<>> /\ next[Top] <= Len(Imports(Top))
    BY <1>1 DEF AtImport, TypeOK
  <2>2. Top \in Modules /\ Top \in Tree /\ Root \in Modules
    BY <2>1, CurrentTyped, ImportGraphAssumption DEF TreeInv
  <2>3. next[Top] \in Declared(Top) /\ Current.path \in Children(Top)
    BY <1>1, <2>1, CurrentDeclared
  <2>4. Children(Root) \subseteq Below(Root) /\ Closed(Below(Root))
    BY <2>2, BelowFacts
  <2>5. Children(Top) \subseteq Below(Root)
    BY <2>2, <2>4 DEF Tree, Closed
  <2> QED
    BY <2>2, <2>3, <2>5
<1>2. ~RefuseTakenAlias
  <2> SUFFICES ASSUME RefuseTakenAlias PROVE FALSE
    OBVIOUS
  <2>1. /\ AtImport /\ ~Repeated(Top, next[Top]) /\ pc = "loop"
        /\ byAlias[Current.alias] # NoModule /\ stack # <<>>
        /\ next[Top] <= Len(Imports(Top))
    BY DEF RefuseTakenAlias, AtImport, AliasTaken, TypeOK
  <2>2. Top \in Tree /\ next[Top] \in Declared(Top) /\ Current.alias \in Aliases
    BY <1>1, <2>1, CurrentTyped
  <2>6. PICK m \in visited : \E i \in Declared(m) : BindingImport(Current.alias, m, i)
    BY <2>1, <2>2 DEF BoundByImport
  <2>3. PICK i \in Declared(m) : BindingImport(Current.alias, m, i)
    BY <2>6
  <2>4. m \in Tree /\ m \in Modules /\ next[m] \in Nat
    BY DEF TreeInv, TypeOK
  <2>5. m = Top /\ i = next[Top]
    BY <2>2, <2>3, <2>4 DEF BindingImport, DistinctAliases, Current
  <2> QED
    BY <2>1, <2>3, <2>4, <2>5 DEF BindingImport
<1>3. ~FailParse
  <2> SUFFICES ASSUME FailParse PROVE FALSE
    OBVIOUS
  <2>1. Current.path \in Below(Root) /\ program.health[Current.path] \in {"missing", "syntax"}
    BY <1>1 DEF FailParse
  <2> QED
    BY <2>1 DEF Healthy, Accepted
<1>4. ValidateImport => ~FailsCompilation(Current.path)
  <2> SUFFICES ASSUME ValidateImport PROVE ~FailsCompilation(Current.path)
    OBVIOUS
  <2>1. /\ Current.path \in visited /\ Current.path \in Below(Root)
        /\ \A i \in 1..Len(Imports(Current.path)) : Settled(Current.path, i)
    BY FinishedWalk DEF ValidateImport, Tree
  <2>2. PICK m \in Modules : m = Current.path
    BY <2>1 DEF TypeOK
  <2>3. Accepted(m) /\ \A i \in 1..Len(Imports(m)) : ~Repeated(m, i)
    BY <2>1, <2>2 DEF Healthy, Declared
  <2>4. ASSUME NEW i \in 1..Len(Imports(m)) PROVE byAlias[Imports(m)[i].alias] # NoModule
    <3>1. Bound(m, i)
      BY <2>1, <2>2, <2>3 DEF Settled
    <3>2. Imports(m) \in Seq(Import)
      BY DEF TypeOK, Imports
    <3>3. Imports(m)[i] \in Import
      BY <3>2
    <3>4. Imports(m)[i].path \in Modules
      BY <3>3 DEF Import
    <3> QED
      BY <3>1, <3>4, ImportGraphAssumption DEF Bound
  <2>5. ~ImportErrors(m)
    BY <2>3, <2>4 DEF ImportErrors
  <2> QED
    BY <2>2, <2>3, <2>5 DEF FailsCompilation, Findings, Accepted
<1> QED
  BY <1>2, <1>3, <1>4 DEF Next, SkipRepeatedAlias, BindAndWalk, ValidateImport,
     ReturnFromWalk, Finished, vars
-----------------------------------------------------------------------------
(* The invariant holds when the root's walk starts.                         *)
LEMMA WholeInit == Init => WholeInv
<1> SUFFICES ASSUME Init PROVE WholeInv
  OBVIOUS
<1>1. Inv
  BY InvInit
<1>2. /\ Root \in Modules /\ stack = <<Root>> /\ visited = {Root} /\ pc = "loop"
      /\ next = [m \in Modules |-> 1] /\ byAlias = [al \in Aliases |-> NoModule]
      /\ err = "none" /\ validated = {}
  BY ImportGraphAssumption DEF Init
<1>3. Len(stack) = 1
  BY <1>2
<1>4. TreeInv
  BY <1>2, <1>3 DEF TreeInv, BoundVisited, PendingDeclared, StackBelow, Tree
<1>5. \A m \in Modules : \A i \in Declared(m) : ~(i < next[m])
  BY <1>2 DEF Declared
<1>6. PassedReported /\ FailureReported /\ PassedValidated
  BY <1>2, <1>5 DEF PassedReported, FailureReported, PassedValidated
<1>7. ValidatedBound /\ DependenciesFirst /\ LegalTreeInv
  BY <1>2 DEF ValidatedBound, DependenciesFirst, LegalTreeInv, BoundByImport
<1> QED
  BY <1>1, <1>4, <1>6, <1>7 DEF WholeInv

(* Every step of the walk keeps it.                                         *)
LEMMA WholeStep == WholeInv /\ [Next]_vars => WholeInv'
<1> SUFFICES ASSUME WholeInv, [Next]_vars PROVE WholeInv'
  OBVIOUS
<1>1. TypeOK /\ Walks /\ TreeInv
  BY DEF WholeInv, Inv
<1>2. Inv' /\ TreeInv'
  BY <1>1, TypeStep, WalksStep, TreeStep DEF Inv, Walks
<1>3. PassedReported' /\ FailureReported'
  BY <1>1, ReportedStep, FailureStep DEF WholeInv
<1>4. PassedValidated' /\ ValidatedBound' /\ DependenciesFirst'
  BY <1>1, ValidationsStep, DependenciesStep DEF WholeInv
<1>5. LegalTreeInv'
  <2>1. BoundByImport'
    BY <1>1, BoundStep DEF WholeInv, LegalTreeInv
  <2>2. Healthy /\ Acyclic /\ DistinctAliases => err' = "none"
    BY <1>1, LegalStep DEF WholeInv, LegalTreeInv
  <2> QED
    BY <2>1, <2>2, ProgramKept DEF LegalTreeInv
<1> QED
  BY <1>2, <1>3, <1>4, <1>5 DEF WholeInv

(* The whole invariant holds in every state of every walk.                  *)
LEMMA WholeInvariant == Spec => []WholeInv
  BY WholeInit, WholeStep, PTL DEF Spec

(* A module is validated after the modules it imports, unless the imports   *)
(* of the program form a cycle.                                             *)
THEOREM ImportsBeforeImporters == Spec => []DependenciesFirst
<1>1. WholeInv => DependenciesFirst
  BY DEF WholeInv
<1> QED
  BY WholeInvariant, <1>1, PTL

(* A tree of healthy files under distinct aliases, without a cycle, is      *)
(* accepted.                                                                *)
THEOREM LegalTreesAreAccepted == Spec => []LegalTreeAccepted
<1>1. WholeInv => LegalTreeAccepted
  BY DEF WholeInv, LegalTreeInv, LegalTreeAccepted
<1> QED
  BY WholeInvariant, <1>1, PTL

(* A walk that fails tells at which import, and one that succeeds has told  *)
(* every warning of every file of the tree.                                 *)
THEOREM FailuresAndWarningsTold == Spec => []ImportFailuresSurface
<1>1. WholeInv => ImportFailuresSurface
  <2> SUFFICES ASSUME WholeInv, pc = "done"
               PROVE  /\ err \in {"parse", "validation"} => DiagnosticFor(Top, next[Top])
                      /\ err = "none" => \A m \in Tree : \A i \in Declared(m) :
                           program.health[Imports(m)[i].path] = "warning"
                             => DiagnosticFor(m, i)
    BY DEF ImportFailuresSurface
  <2>1. err \in {"parse", "validation"} => DiagnosticFor(Top, next[Top])
    BY DEF WholeInv, FailureReported
  <2>2. TypeOK /\ Walks /\ TreeInv /\ PassedReported
    BY DEF WholeInv, Inv
  <2>3. ASSUME err = "none", NEW m \in Tree, NEW i \in Declared(m),
               program.health[Imports(m)[i].path] = "warning"
        PROVE  DiagnosticFor(m, i)
    <3>1. m \in visited /\ i < next[m]
      BY <2>2, <2>3, WholeTreeWalked
    <3>2. m \in Modules
      BY <2>2, <3>1 DEF TypeOK
    <3> QED
      BY <2>2, <2>3, <3>1, <3>2 DEF PassedReported
  <2> QED
    BY <2>1, <2>3
<1> QED
  BY WholeInvariant, <1>1, PTL

=============================================================================
