------------------------ MODULE CompilePipelineProofs ------------------------
(***************************************************************************)
(* The compile pipeline, with its two validator runs and its early         *)
(* returns, keeps the contract of CompileContract, for every set of calls  *)
(* and stages: it hands out the lowered grammar, accepts, rejects and      *)
(* panics only when the contract allows it.  (That it answers at all is    *)
(* checked by TLC.)                                                        *)
(*                                                                         *)
(* The argument is what a run under way has found: Found says that the     *)
(* entries are those of the stages that ran, so that a run that ends       *)
(* without a failure has seen every stage pass, and Inv carries that the   *)
(* early stages passed over to the late ones.                              *)
(***************************************************************************)
EXTENDS CompilePipeline, TLAPS

Result == [order : Stages, entries : SUBSET Severity]

Found ==
  \A i \in 1..Len(run) : Selected(run[i].order) /\ run[i].entries = Process(run[i].order)

Sound == Usable(call) /\ PassesBefore(call)

Inv ==
  /\ call \in Calls
  /\ run \in Seq(Result)
  /\ pc \in {"parse", "imports", "early", "lower", "late", "returned"}
  /\ pc # "returned" => answer = "none"
  /\ pc \in {"parse", "imports"} => run = <<>>
  /\ pc \in {"parse", "imports", "early", "lower"} => lowered = FALSE
  /\ pc = "late" => lowered = TRUE
  /\ pc = "early" => call.parse = "absent" \/ Usable(call)
  /\ pc \in {"early", "late"} => Found
  /\ pc \in {"lower", "late"} => Sound

LEMMA Numbers ==
  /\ Info = 2 /\ Warning = 3 /\ Error = 4 /\ Fatal = 5
  /\ Severity = 1..5
  /\ FirstAfterLowering = 4
  BY DEF Info, Warning, Error, Fatal, Severity, FirstAfterLowering

LEMMA CallType ==
  ASSUME call \in Calls
  PROVE  /\ call.override \in {"unset", "on", "off"}
         /\ call.parse \in {"clean", "absent", "unreadable", "syntax errors"}
         /\ call.imports \in {"none", "resolved", "duplicate", "duplicate later", "unparsed", "invalid"}
         /\ call.findings \in [Stages -> SUBSET Severity]
         /\ call.pragma \in BOOLEAN
  BY CompilePipelineAssumption DEF CallSpace

(* Both sides agree on the severity that fails the file. *)
LEMMA SameLimit ==
  ASSUME call \in Calls
  PROVE  /\ Limit(call) \in {Warning, Error}
         /\ \A rs : FailsCompilation(rs) <=> Has(rs, Limit(call))
<1>1. Limit(call) = IF WarningsAsErrors THEN Warning ELSE Error
  BY CallType DEF Limit, WarningsAsErrors
<1>2. Info + 1 = Warning
  BY Numbers
<1> QED
  BY <1>1, <1>2 DEF FailsCompilation

LEMMA ProcessType ==
  ASSUME call \in Calls, NEW o \in Stages
  PROVE  Process(o) \in SUBSET Severity
<1>1. {Fatal} \in SUBSET Severity /\ {Error} \in SUBSET Severity
  BY Numbers
<1>2. call.findings[o] \in SUBSET Severity
  BY CallType
<1> QED
  BY <1>1, <1>2 DEF Process

(* An entry of a run is an entry of its stage. *)
LEMMA HasFound ==
  ASSUME Inv, Found, NEW n, Has(run, n)
  PROVE  \E o \in Stages : Selected(o) /\ \E s \in Process(o) : s >= n
<1>1. PICK i \in 1..Len(run) : \E s \in run[i].entries : s >= n
  BY DEF Has
<1>2. run[i] \in Result
  BY <1>1 DEF Inv
<1> QED
  BY <1>1, <1>2 DEF Found, Result

(* When no stage is due, a run in which nothing was found at a severity has *)
(* seen no stage find anything at it.                                       *)
LEMMA NothingFound ==
  ASSUME Inv, Found, Due = {}, NEW n, ~Has(run, n), NEW o \in Stages, Selected(o), NEW s \in Process(o)
  PROVE  ~(s >= n)
<1>1. PICK i \in 1..Len(run) : run[i].order = o
  BY DEF Due, Ran
<1>2. run[i].entries = Process(o)
  BY <1>1 DEF Found
<1> QED
  BY <1>1, <1>2 DEF Has

(* A run that fails has found something the contract counts as a failure:  *)
(* the early one in a file that is there, the late one in any.             *)
LEMMA FailureIsReal ==
  ASSUME Inv, Validating, NEW n, n \in {Limit(call), Fatal}, Has(run, n)
  PROVE  IF pc = "late" THEN ~PassesAfter(call) ELSE ~Sound
<1>1. Limit(call) <= n /\ n \in Nat /\ Limit(call) \in Nat
  BY SameLimit, Numbers DEF Inv
<1>2. PICK o \in Stages : Selected(o) /\ \E s \in Process(o) : s >= n
  BY HasFound DEF Inv, Validating
<1>3. PICK s \in Process(o) : s >= n
  BY <1>2
<1>4. ~(s < Limit(call))
  BY <1>1, <1>3, ProcessType, Numbers DEF Inv
<1>5. o \in Nat
  BY CompilePipelineAssumption
<1>6. CASE pc = "early" /\ call.parse = "absent"
  BY <1>6 DEF Sound, Usable
<1>7. CASE pc = "late" \/ call.parse # "absent"
  <2>1. Process(o) = call.findings[o]
    BY <1>2, <1>5, <1>7, Numbers DEF Process, Selected, Inv, Validating, Sound, Usable
  <2> QED
    BY <2>1, <1>2, <1>3, <1>4, <1>5, Numbers
       DEF Sound, PassesAfter, PassesBefore, Quiet, Selected, Validating
<1> QED
  BY <1>6, <1>7 DEF Validating

(* A run that ends without a failure has seen every stage pass. *)
LEMMA SuccessIsReal ==
  ASSUME Inv, RunEnds, ~FailsCompilation(run)
  PROVE  IF pc = "late" THEN PassesAfter(call) ELSE Sound
<1>1. ~Has(run, Limit(call)) /\ Limit(call) \in {3, 4}
  BY SameLimit, Numbers DEF Inv
<1>2. Found /\ Validating /\ Due = {}
  BY DEF Inv, RunEnds, Validating
<1>3. \A o \in Stages : Selected(o) => \A s \in Process(o) : ~(s >= Limit(call))
  BY <1>1, <1>2, NothingFound
<1>4. \A o \in Stages : o \in Nat /\ Process(o) \in SUBSET (1..5)
  BY ProcessType, CompilePipelineAssumption, Numbers DEF Inv
<1>5. CASE pc = "late"
  <2>1. \A o \in Stages : Selected(o) => Process(o) = call.findings[o]
    BY <1>4, <1>5, Numbers DEF Process, Selected, Inv, Sound, Usable
  <2> QED
    BY <2>1, <1>1, <1>3, <1>4, <1>5, Numbers DEF PassesAfter, Quiet, Selected
<1>6. CASE pc = "early"
  <2>1. call.parse # "absent"
    BY <1>1, <1>3, <1>6, Numbers, CompilePipelineAssumption DEF Process, Selected
  <2>2. \A o \in Stages : Selected(o) => Process(o) = call.findings[o]
    BY <2>1, <1>4, <1>6, Numbers DEF Process, Selected
  <2>3. Usable(call)
    BY <2>1, <1>6 DEF Inv
  <2> QED
    BY <2>2, <2>3, <1>1, <1>3, <1>4, <1>6, Numbers DEF PassesBefore, Quiet, Selected, Sound
<1> QED
  BY <1>2, <1>5, <1>6 DEF Validating

LEMMA InvInit == Init => Inv
  BY DEF Init, Inv, Found, Result

LEMMA RunStageInv ==
  ASSUME Inv, RunStage
  PROVE  Inv'
<1>1. PICK o \in Due : run' = Append(run, [order |-> o, entries |-> Process(o)])
  BY DEF RunStage
<1>2. o \in Stages /\ Selected(o) /\ Process(o) \in SUBSET Severity
  BY <1>1, ProcessType DEF Due, Inv
<1>3. run' \in Seq(Result)
  BY <1>1, <1>2 DEF Inv, Result
<1>4. UNCHANGED <<call, pc, lowered, answer>>
  BY DEF RunStage
<1>5. Found'
  <2>1. \A p : Selected(p)' = Selected(p) /\ Process(p)' = Process(p)
    BY <1>4 DEF Selected, Process
  <2>2. \A i \in 1..Len(run') :
          run'[i] = IF i = Len(run) + 1 THEN [order |-> o, entries |-> Process(o)] ELSE run[i]
    BY <1>1, <1>2 DEF Inv, Result
  <2>3. Len(run') = Len(run) + 1 /\ Len(run) \in Nat
    BY <1>1, <1>2 DEF Inv, Result
  <2>4. Found
    BY DEF Inv, RunStage, Validating
  <2> QED
    BY <1>2, <2>1, <2>2, <2>3, <2>4 DEF Found
<1> QED
  BY <1>3, <1>4, <1>5 DEF Inv, Sound, Usable, PassesBefore, RunStage, Validating

(* Every other step changes little of what Inv speaks of. *)
LEMMA InvNext ==
  ASSUME Inv, [Next]_vars
  PROVE  Inv'
<1>a. Inv /\ call' = call /\ Sound => Sound'
  BY DEF Sound
<1>1. CASE ParseFails
  BY <1>1 DEF Inv, ParseFails, Return
<1>2. CASE Parses
  BY <1>2 DEF Inv, Parses
<1>3. CASE AssertReporter
  BY <1>3 DEF Inv, AssertReporter, Return
<1>4. CASE ImportsFailed
  BY <1>4 DEF Inv, ImportsFailed, Return
<1>5. CASE ImportsResolved
  <2>1. call.parse = "absent" \/ Usable(call)
    BY <1>5, CallType DEF ImportsResolved, Usable, ImportsFail, Inv
  <2>2. pc' # "early" \/ run' = <<>>
    BY <1>5 DEF ImportsResolved, Inv
  <2>3. pc' \in {"early", "returned"} /\ pc = "imports" /\ UNCHANGED <<call, run, lowered>>
    BY <1>5 DEF ImportsResolved, Return
  <2>4. pc' # "returned" => answer' = answer
    BY <1>5 DEF ImportsResolved, Return
  <2>5. Usable(call)' = Usable(call)
    BY <2>3 DEF Usable
  <2> QED
    BY <2>1, <2>2, <2>3, <2>4, <2>5 DEF Inv, Found
<1>6. CASE RunStage
  BY <1>6, RunStageInv
<1>7. CASE StopAtFatal
  BY <1>7 DEF Inv, StopAtFatal, Return
<1>8. CASE FindingsFail
  BY <1>8 DEF Inv, FindingsFail, Return
<1>9. CASE EarlyStagesPass
  <2>1. Sound
    BY <1>9, SuccessIsReal DEF EarlyStagesPass
  <2> QED
    BY <1>9, <1>a, <2>1 DEF Inv, EarlyStagesPass
<1>10. CASE Lower
  BY <1>10, <1>a DEF Inv, Lower, Found, Result
<1>11. CASE LateStagesPass
  BY <1>11 DEF Inv, LateStagesPass, Return
<1>12. CASE Returned \/ UNCHANGED vars
  <2>1. UNCHANGED vars
    BY <1>12 DEF Returned
  <2>2. Found' = Found /\ Sound' = Sound /\ Usable(call)' = Usable(call)
    BY <2>1 DEF vars, Found, Selected, Process, Sound, Usable, PassesBefore
  <2>3. UNCHANGED <<call, pc, run, lowered, answer>>
    BY <2>1 DEF vars
  <2> QED
    BY <2>2, <2>3 DEF Inv
<1> QED
  BY <1>1, <1>2, <1>3, <1>4, <1>5, <1>6, <1>7, <1>8, <1>9, <1>10, <1>11, <1>12 DEF Next

(* Each step of the pipeline is one of the contract, or none. *)
LEMMA StepMaps ==
  ASSUME Inv, [Next]_vars
  PROVE  [Contract!Next]_(Contract!contractVars)
<1> USE DEF Contract!Next, Contract!contractVars, Contract!Sound
<1>1. CASE ParseFails
  BY <1>1 DEF ParseFails, Return, Inv, Contract!Reject, Usable
<1>2. CASE Parses
  BY <1>2 DEF Parses
<1>3. CASE AssertReporter
  BY <1>3 DEF AssertReporter, Return, Inv, Contract!Crash, MayPanic, ReporterMismatch
<1>4. CASE ImportsFailed
  <2>1. CASE ImportDiagnostics /\ ~call.sink
    BY <1>4, <2>1 DEF ImportsFailed, Return, Inv, Contract!Crash, MayPanic, ImportsFail
  <2>2. CASE ~(ImportDiagnostics /\ ~call.sink)
    BY <1>4, <2>2 DEF ImportsFailed, Return, Inv, Contract!Reject, Usable, ImportsFail
  <2> QED
    BY <2>1, <2>2
<1>5. CASE ImportsResolved
  BY <1>5 DEF ImportsResolved, Return, Inv, Contract!Crash, MayPanic
<1>6. CASE RunStage
  BY <1>6 DEF RunStage
<1>7. CASE StopAtFatal
  <2>1. IF pc = "late" THEN ~PassesAfter(call) ELSE ~Sound
    BY <1>7, FailureIsReal DEF StopAtFatal
  <2> QED
    BY <1>7, <2>1 DEF StopAtFatal, Return, Inv, Contract!Reject, Sound, Validating
<1>8. CASE FindingsFail
  <2>1. IF pc = "late" THEN ~PassesAfter(call) ELSE ~Sound
    BY <1>8, FailureIsReal, SameLimit DEF FindingsFail, RunEnds, Inv
  <2> QED
    BY <1>8, <2>1 DEF FindingsFail, RunEnds, Return, Inv, Contract!Reject, Sound, Validating
<1>9. CASE EarlyStagesPass
  BY <1>9 DEF EarlyStagesPass
<1>10. CASE Lower
  BY <1>10 DEF Lower, Inv, Contract!Lower, Sound
<1>11. CASE LateStagesPass
  <2>1. PassesAfter(call)
    BY <1>11, SuccessIsReal DEF LateStagesPass
  <2> QED
    BY <1>11, <2>1 DEF LateStagesPass, Return, Inv, Contract!Accept
<1>12. CASE Returned \/ UNCHANGED vars
  BY <1>12 DEF Returned, vars
<1> QED
  BY <1>1, <1>2, <1>3, <1>4, <1>5, <1>6, <1>7, <1>8, <1>9, <1>10, <1>11, <1>12 DEF Next

(* For every set of calls and stages: LangSpecCompilerCompile hands out the *)
(* lowered grammar, accepts, rejects and panics only where CompileContract  *)
(* allows it (ImplementsContract without its fairness).                     *)
THEOREM PipelineKeepsContract == Spec => Contract!Safety
<1>1. Init => Contract!Init
  BY DEF Init, Contract!Init
<1>2. Inv /\ [Next]_vars => Inv' /\ [Contract!Next]_(Contract!contractVars)
  BY InvNext, StepMaps
<1> QED
  BY <1>1, <1>2, InvInit, PTL DEF Spec, Contract!Safety
-----------------------------------------------------------------------------
(* What is shown of the findings: as long as the call goes on, nothing that *)
(* fails the file is among the results.                                     *)
Shown ==
  /\ results \in Seq(Result)
  /\ pc # "returned" => ~Has(results, Limit(call))
  /\ FailureIsShown

LEMMA HasConcat ==
  ASSUME NEW rs \in Seq(Result), NEW qs \in Seq(Result), NEW n
  PROVE  /\ rs \o qs \in Seq(Result)
         /\ Has(rs \o qs, n) <=> Has(rs, n) \/ Has(qs, n)
<1>1. /\ Len(rs) \in Nat /\ Len(qs) \in Nat
      /\ rs \o qs \in Seq(Result)
      /\ Len(rs \o qs) = Len(rs) + Len(qs)
  OBVIOUS
<1>2. ASSUME Has(rs \o qs, n)  PROVE Has(rs, n) \/ Has(qs, n)
  <2>1. PICK i \in 1..(Len(rs) + Len(qs)) : \E s \in (rs \o qs)[i].entries : s >= n
    BY <1>1, <1>2 DEF Has
  <2>2. CASE i <= Len(rs)
    <3>1. i \in 1..Len(rs) /\ (rs \o qs)[i] = rs[i]
      BY <1>1, <2>2
    <3> QED
      BY <2>1, <3>1 DEF Has
  <2>3. CASE ~(i <= Len(rs))
    <3>1. i - Len(rs) \in 1..Len(qs) /\ (rs \o qs)[i] = qs[i - Len(rs)]
      BY <1>1, <2>1, <2>3
    <3> QED
      BY <2>1, <3>1 DEF Has
  <2> QED
    BY <2>2, <2>3
<1>3. ASSUME Has(rs, n)  PROVE Has(rs \o qs, n)
  <2>1. PICK i \in 1..Len(rs) : \E s \in rs[i].entries : s >= n
    BY <1>3 DEF Has
  <2>2. i \in 1..Len(rs \o qs) /\ (rs \o qs)[i] = rs[i]
    BY <1>1
  <2> QED
    BY <2>1, <2>2 DEF Has
<1>4. ASSUME Has(qs, n)  PROVE Has(rs \o qs, n)
  <2>1. PICK i \in 1..Len(qs) : \E s \in qs[i].entries : s >= n
    BY <1>4 DEF Has
  <2>2. Len(rs) + i \in 1..Len(rs \o qs) /\ (rs \o qs)[Len(rs) + i] = qs[i]
    BY <1>1
  <2> QED
    BY <2>1, <2>2 DEF Has
<1> QED
  BY <1>1, <1>2, <1>3, <1>4

(* A run with an entry that fails the file has an entry. *)
LEMMA HasAny ==
  ASSUME Inv, Has(run, Limit(call))
  PROVE  Has(run, 1)
<1>1. PICK i \in 1..Len(run) : \E s \in run[i].entries : s >= Limit(call)
  BY DEF Has
<1>2. run[i] \in Result
  BY <1>1 DEF Inv
<1>3. \E s \in run[i].entries : s >= 1
  BY <1>1, <1>2, Numbers DEF Result
<1> QED
  BY <1>3 DEF Has

LEMMA ShownInit == Init => Shown
  BY DEF Init, Shown, FailureIsShown, Has, Result

LEMMA ShownNext ==
  ASSUME Inv, Inv', Shown, [Next]_vars
  PROVE  Shown'
<1>1. ASSUME UNCHANGED <<call, results>>,
             answer' # "rejected" \/ pc # "returned" \/ UNCHANGED vars,
             pc = "returned" => UNCHANGED vars
      PROVE  Shown'
  <2>1. \A n : Has(results, n)' = Has(results, n) /\ Limit(call)' = Limit(call)
    BY <1>1 DEF Has, Limit
  <2>2. Has(results', Limit(call'))  = Has(results, Limit(call))
    BY <1>1
  <2>3. CASE pc = "returned"
    BY <1>1, <2>3 DEF Shown, FailureIsShown, vars, Has, Limit
  <2>4. CASE pc # "returned"
    BY <1>1, <2>2, <2>4 DEF Shown, FailureIsShown
  <2> QED
    BY <2>3, <2>4
<1>2. CASE ParseFails \/ Parses \/ AssertReporter \/ ImportsFailed \/ ImportsResolved
  BY <1>1, <1>2 DEF ParseFails, Parses, AssertReporter, ImportsFailed, ImportsResolved, Return
<1>3. CASE RunStage
  BY <1>1, <1>3 DEF RunStage, Validating
<1>4. CASE Lower
  BY <1>1, <1>4 DEF Lower
<1>5. CASE Returned \/ UNCHANGED vars
  <2>1. UNCHANGED vars
    BY <1>5 DEF Returned
  <2> QED
    BY <1>1, <2>1 DEF vars
<1>6. ASSUME KeepResults, UNCHANGED call
      PROVE  /\ results' \in Seq(Result)
             /\ \A n : Has(results', n) <=> Has(results, n) \/ Has(run, n)
             /\ Limit(call') = Limit(call)
  BY <1>6, HasConcat DEF KeepResults, Shown, Inv
<1>7. CASE StopAtFatal
  <2>1. Has(results', Fatal)
    BY <1>6, <1>7 DEF StopAtFatal
  <2> QED
    BY <1>6, <1>7, <2>1 DEF StopAtFatal, Return, Shown, FailureIsShown
<1>8. CASE FindingsFail
  <2>1. Has(run, 1)
    BY <1>8, SameLimit, HasAny DEF FindingsFail, Inv
  <2>2. call.sink => pc \in output'
    BY <1>8, <2>1 DEF FindingsFail, RenderFindings
  <2>3. pc = IF lowered THEN "late" ELSE "early"
    BY <1>8 DEF FindingsFail, RunEnds, Validating, Inv
  <2> QED
    BY <1>6, <1>8, <2>2, <2>3 DEF FindingsFail, Return, Shown, FailureIsShown
<1>9. CASE EarlyStagesPass \/ LateStagesPass
  <2>1. ~Has(results, Limit(call)) /\ ~Has(run, Limit(call))
    BY <1>9, SameLimit DEF EarlyStagesPass, LateStagesPass, Shown, Inv
  <2>2. ~Has(results', Limit(call'))
    BY <1>6, <1>9, <2>1 DEF EarlyStagesPass, LateStagesPass
  <2> QED
    BY <1>6, <1>9, <2>2 DEF EarlyStagesPass, LateStagesPass, Shown, FailureIsShown
<1> QED
  BY <1>2, <1>3, <1>4, <1>5, <1>7, <1>8, <1>9 DEF Next

(* For every set of calls and stages, with a sink: whoever is told that the *)
(* file failed for what was found in it has been shown what was found,      *)
(* unless a fatal entry ended the run (renderValidationEntries).            *)
THEOREM FailuresAreShown == Spec => []FailureIsShown
<1>1. Init => Inv /\ Shown
  BY InvInit, ShownInit
<1>2. Inv /\ Shown /\ [Next]_vars => Inv' /\ Shown'
  BY InvNext, ShownNext
<1>3. Shown => FailureIsShown
  BY DEF Shown
<1> QED
  BY <1>1, <1>2, <1>3, PTL DEF Spec
-----------------------------------------------------------------------------
(* What the result tells of the stages: the entries kept and those of the   *)
(* run under way are together a prefix of the stages in order.              *)
Whole == IF Validating THEN results \o run ELSE results

InOrder(rs) ==
  \A i \in 1..Len(rs) :
    /\ \A j \in 1..(i-1) : rs[j].order < rs[i].order
    /\ call.parse = "clean" => rs[i].entries = call.findings[rs[i].order]
    /\ \A o \in Stages : o < rs[i].order => o \in Ran(rs)

EarlyStages == {o \in Stages : o < FirstAfterLowering}

Told ==
  /\ results \in Seq(Result)
  /\ pc \in {"parse", "imports", "early"} => results = <<>>
  /\ pc \in {"lower", "late"} => Ran(results) = EarlyStages
  /\ lowered => EarlyStages \subseteq Ran(results)
  /\ InOrder(Whole)
  /\ call.reporter => heard = Whole
  /\ answer = "accepted" => Ran(results) = Stages

LEMMA RanConcat ==
  ASSUME NEW rs \in Seq(Result), NEW qs \in Seq(Result)
  PROVE  Ran(rs \o qs) = Ran(rs) \cup Ran(qs)
<1>1. /\ Len(rs) \in Nat /\ Len(qs) \in Nat
      /\ Len(rs \o qs) = Len(rs) + Len(qs)
  OBVIOUS
<1>2. ASSUME NEW i \in 1..Len(rs \o qs)  PROVE (rs \o qs)[i].order \in Ran(rs) \cup Ran(qs)
  <2>1. CASE i <= Len(rs)
    <3>1. i \in 1..Len(rs) /\ (rs \o qs)[i] = rs[i]
      BY <1>1, <2>1
    <3> QED
      BY <3>1 DEF Ran
  <2>2. CASE ~(i <= Len(rs))
    <3>1. i - Len(rs) \in 1..Len(qs) /\ (rs \o qs)[i] = qs[i - Len(rs)]
      BY <1>1, <2>2
    <3> QED
      BY <3>1 DEF Ran
  <2> QED
    BY <2>1, <2>2
<1>3. ASSUME NEW i \in 1..Len(rs)  PROVE rs[i].order \in Ran(rs \o qs)
  <2>1. i \in 1..Len(rs \o qs) /\ (rs \o qs)[i] = rs[i]
    BY <1>1
  <2> QED
    BY <2>1 DEF Ran
<1>4. ASSUME NEW i \in 1..Len(qs)  PROVE qs[i].order \in Ran(rs \o qs)
  <2>1. Len(rs) + i \in 1..Len(rs \o qs) /\ (rs \o qs)[Len(rs) + i] = qs[i]
    BY <1>1
  <2> QED
    BY <2>1 DEF Ran
<1>5. Ran(rs \o qs) \subseteq Ran(rs) \cup Ran(qs)
  BY <1>2 DEF Ran
<1>6. Ran(rs) \subseteq Ran(rs \o qs)
  BY <1>3 DEF Ran
<1>7. Ran(qs) \subseteq Ran(rs \o qs)
  BY <1>4 DEF Ran
<1> QED
  BY <1>5, <1>6, <1>7

LEMMA RanAppend ==
  ASSUME NEW rs \in Seq(Result), NEW r \in Result
  PROVE  Ran(Append(rs, r)) = Ran(rs) \cup {r.order}
<1>1. /\ Len(Append(rs, r)) = Len(rs) + 1 /\ Len(rs) \in Nat
      /\ \A i \in 1..(Len(rs) + 1) : Append(rs, r)[i] = IF i = Len(rs) + 1 THEN r ELSE rs[i]
  OBVIOUS
<1>2. Ran(Append(rs, r)) \subseteq Ran(rs) \cup {r.order}
  <2>1. SUFFICES ASSUME NEW i \in 1..(Len(rs) + 1)
                 PROVE  Append(rs, r)[i].order \in Ran(rs) \cup {r.order}
    BY <1>1 DEF Ran
  <2>2. i = Len(rs) + 1 \/ i \in 1..Len(rs)
    BY <1>1
  <2> QED
    BY <1>1, <2>2 DEF Ran
<1>3. Ran(rs) \subseteq Ran(Append(rs, r))
  <2>1. SUFFICES ASSUME NEW i \in 1..Len(rs)  PROVE rs[i].order \in Ran(Append(rs, r))
    BY DEF Ran
  <2>2. i \in 1..(Len(rs) + 1) /\ i # Len(rs) + 1
    BY <1>1
  <2> QED
    BY <1>1, <2>2 DEF Ran
<1>4. r.order \in Ran(Append(rs, r))
  <2>1. Len(rs) + 1 \in 1..(Len(rs) + 1)
    BY <1>1
  <2> QED
    BY <1>1, <2>1 DEF Ran
<1> QED
  BY <1>2, <1>3, <1>4

LEMMA ConcatAppend ==
  ASSUME NEW rs \in Seq(Result), NEW qs \in Seq(Result), NEW r \in Result
  PROVE  rs \o Append(qs, r) = Append(rs \o qs, r)
  OBVIOUS

LEMMA ConcatEmpty ==
  ASSUME NEW rs \in Seq(Result)
  PROVE  rs \o <<>> = rs
  OBVIOUS

(* The next stage due continues the prefix. *)
LEMMA NextInOrder ==
  ASSUME NEW rs \in Seq(Result), InOrder(rs), NEW r \in Result, r.order \notin Ran(rs),
         call.parse = "clean" => r.entries = call.findings[r.order],
         \A o \in Stages : o < r.order => o \in Ran(rs)
  PROVE  InOrder(Append(rs, r))
<1>1. /\ Len(Append(rs, r)) = Len(rs) + 1 /\ Len(rs) \in Nat
      /\ \A i \in 1..(Len(rs) + 1) : Append(rs, r)[i] = IF i = Len(rs) + 1 THEN r ELSE rs[i]
  OBVIOUS
<1>2. Ran(rs) \subseteq Ran(Append(rs, r))
  BY RanAppend
<1>3. SUFFICES ASSUME NEW i \in 1..(Len(rs) + 1)
      PROVE  /\ \A j \in 1..(i-1) : Append(rs, r)[j].order < Append(rs, r)[i].order
             /\ call.parse = "clean" =>
                  Append(rs, r)[i].entries = call.findings[Append(rs, r)[i].order]
             /\ \A o \in Stages : o < Append(rs, r)[i].order => o \in Ran(Append(rs, r))
  BY <1>1 DEF InOrder
<1>4. CASE i = Len(rs) + 1
  <2>1. Append(rs, r)[i] = r
    BY <1>1, <1>4
  <2>2. ASSUME NEW j \in 1..(i-1)  PROVE Append(rs, r)[j].order < r.order
    <3>1. j \in 1..Len(rs) /\ Append(rs, r)[j] = rs[j]
      BY <1>1, <1>4
    <3>a. rs[j] \in Result
      BY <3>1
    <3>2. rs[j].order \in Stages /\ r.order \in Stages /\ Stages \subseteq Nat
      BY <3>a, CompilePipelineAssumption DEF Result
    <3>3. ~(r.order < rs[j].order)
      BY <3>1, <3>2 DEF InOrder
    <3>4. rs[j].order # r.order
      BY <3>1 DEF Ran
    <3>5. ASSUME NEW m \in Nat, NEW n \in Nat, ~(n < m), m # n  PROVE m < n
      BY <3>5
    <3>6. rs[j].order < r.order
      BY <3>2, <3>3, <3>4, <3>5
    <3> QED
      BY <3>1, <3>6
  <2> QED
    BY <1>2, <2>1, <2>2
<1>5. CASE i # Len(rs) + 1
  <2>1. i \in 1..Len(rs) /\ Append(rs, r)[i] = rs[i]
    BY <1>1, <1>5
  <2>2. \A j \in 1..(i-1) : Append(rs, r)[j] = rs[j]
    BY <1>1, <2>1
  <2> QED
    BY <1>2, <2>1, <2>2 DEF InOrder
<1> QED
  BY <1>4, <1>5

LEMMA ToldInit == Init => Told
  BY DEF Init, Told, Whole, Validating, InOrder, Result

LEMMA RunStageTold ==
  ASSUME Inv, Told, RunStage
  PROVE  Told'
<1>1. PICK o \in Due : /\ \A p \in Due : o <= p
                       /\ run' = Append(run, [order |-> o, entries |-> Process(o)])
                       /\ heard' = IF call.reporter
                                   THEN Append(heard, [order |-> o, entries |-> Process(o)])
                                   ELSE heard
  BY DEF RunStage
<1> DEFINE r == [order |-> o, entries |-> Process(o)]
<1>2. /\ UNCHANGED <<call, pc, results, lowered, answer>>
      /\ Validating /\ Validating'
      /\ Whole = results \o run /\ Whole' = results \o run'
  BY DEF RunStage, Validating, Whole
<1>3. /\ o \in Stages /\ Selected(o) /\ o \notin Ran(run)
      /\ r \in Result
      /\ run \in Seq(Result) /\ results \in Seq(Result)
  BY ProcessType DEF Due, Inv, Told, Result
<1>4. Whole' = Append(Whole, r) /\ Whole \in Seq(Result)
  BY <1>1, <1>2, <1>3, ConcatAppend
<1>5. Ran(Whole) = Ran(results) \cup Ran(run)
  BY <1>2, <1>3, RanConcat
<1>6. Stages \subseteq Nat /\ FirstAfterLowering = 4
  BY CompilePipelineAssumption, Numbers
<1>7. \/ pc = "early" /\ Ran(results) = {}
      \/ pc = "late" /\ Ran(results) = EarlyStages /\ lowered
  <2>1. Ran(<<>>) = {}
    BY DEF Ran
  <2> QED
    BY <1>2, <2>1 DEF Told, Inv, Validating
<1>8. o \notin Ran(Whole)
  BY <1>3, <1>5, <1>6, <1>7 DEF Selected, EarlyStages
<1>9. call.parse = "clean" => Process(o) = call.findings[o]
  BY <1>3, <1>6, <1>7 DEF Process, Selected
<1>10. ASSUME NEW q \in Stages, q < o  PROVE q \in Ran(Whole)
  <2>1. q \notin Due
    BY <1>1, <1>3, <1>6, <1>10
  <2> QED
    BY <2>1, <1>3, <1>5, <1>6, <1>7, <1>10 DEF Due, Selected, EarlyStages
<1>11. InOrder(Append(Whole, r))
  BY <1>3, <1>4, <1>8, <1>9, <1>10, NextInOrder DEF Told
<1>12. InOrder(Whole)'
  <2>1. InOrder(Whole)' = InOrder(Whole')
    BY <1>2 DEF InOrder, Ran
  <2> QED
    BY <1>4, <1>11, <2>1
<1>13. call'.reporter => heard' = Whole'
  BY <1>1, <1>2, <1>4 DEF Told
<1>14. Ran(results)' = Ran(results)
  BY <1>2 DEF Ran
<1> QED
  BY <1>2, <1>3, <1>12, <1>13, <1>14 DEF Told

(* A run that ends hands what it found over to the result. *)
LEMMA HandOver ==
  ASSUME Inv, Told, Validating, KeepResults, UNCHANGED <<call, heard>>, ~(Validating')
  PROVE  /\ results' \in Seq(Result)
         /\ InOrder(Whole)'
         /\ (call.reporter => heard = Whole)'
         /\ Ran(results') = Ran(results) \cup Ran(run)
<1>1. Whole = results \o run /\ Whole' = results' /\ results' = results \o run
  BY DEF Whole, KeepResults
<1>2. results' \in Seq(Result)
  BY <1>1 DEF Inv, Told
<1>3. InOrder(Whole)'
  <2>1. InOrder(Whole)' = InOrder(Whole')
    BY DEF InOrder, Ran
  <2> QED
    BY <1>1, <2>1 DEF Told
<1>4. Ran(results') = Ran(results) \cup Ran(run)
  BY <1>1, RanConcat DEF Inv, Told
<1> QED
  BY <1>1, <1>2, <1>3, <1>4 DEF Told

(* With no stage due the run has seen those it was to see, and no others. *)
LEMMA RunSawAll ==
  ASSUME Inv, RunEnds
  PROVE  Ran(run) = {o \in Stages : Selected(o)}
<1>1. \A i \in 1..Len(run) : run[i].order \in Stages /\ Selected(run[i].order)
  <2>1. \A i \in 1..Len(run) : run[i] \in Result
    BY DEF Inv
  <2> QED
    BY <2>1 DEF Inv, Found, Result, RunEnds, Validating
<1> QED
  BY <1>1 DEF RunEnds, Due, Ran

LEMMA ToldNext ==
  ASSUME Inv, Told, [Next]_vars
  PROVE  Told'
<1>1. ASSUME UNCHANGED <<call, results, heard, lowered>>,
             pc' = pc \/ Whole' = Whole,
             pc' = pc => run' = run,
             pc' \in {"parse", "imports", "early"} => pc \in {"parse", "imports", "early"},
             pc' \in {"lower", "late"} => pc \in {"lower", "late"},
             answer' = "accepted" => answer = "accepted"
      PROVE  Told'
  <2>1. Whole' = Whole
    BY <1>1 DEF Whole, Validating
  <2>2. InOrder(Whole)' /\ Ran(results)' = Ran(results)
    BY <1>1, <2>1 DEF InOrder, Ran, Told
  <2> QED
    BY <1>1, <2>1, <2>2 DEF Told
<1>2. <<>> \o <<>> = <<>>
  BY ConcatEmpty DEF Result
<1>3. CASE ParseFails \/ Parses \/ AssertReporter \/ ImportsFailed
  <2>1. Whole' = Whole
    BY <1>3 DEF ParseFails, Parses, AssertReporter, ImportsFailed, Return, Whole, Validating
  <2> QED
    BY <1>1, <1>3, <2>1 DEF ParseFails, Parses, AssertReporter, ImportsFailed, Return, Inv
<1>4. CASE ImportsResolved
  <2>1. Whole' = Whole
    BY <1>2, <1>4 DEF ImportsResolved, Return, Whole, Validating, Inv, Told
  <2> QED
    BY <1>1, <1>4, <2>1 DEF ImportsResolved, Return, Inv
<1>5. CASE RunStage
  BY <1>5, RunStageTold
<1>6. CASE StopAtFatal \/ FindingsFail
  <2>1. /\ Validating /\ KeepResults /\ UNCHANGED <<call, heard, lowered>>
        /\ pc' = "returned" /\ answer' = "rejected"
    BY <1>6 DEF StopAtFatal, FindingsFail, RunEnds, Return
  <2>2. ~(Validating')
    BY <2>1 DEF Validating
  <2> QED
    BY <2>1, <2>2, HandOver DEF Told, Ran
<1>7. CASE EarlyStagesPass
  <2>1. /\ Validating /\ KeepResults /\ UNCHANGED <<call, heard, lowered, answer>>
        /\ pc = "early" /\ pc' = "lower" /\ RunEnds
    BY <1>7 DEF EarlyStagesPass, Validating
  <2>2. ~(Validating')
    BY <2>1 DEF Validating
  <2>3. Ran(run) = EarlyStages /\ Ran(results) = {}
    BY <2>1, RunSawAll DEF Selected, EarlyStages, Told, Ran
  <2>4. Ran(results') = EarlyStages
    BY <2>1, <2>2, <2>3, HandOver
  <2>5. answer' = "none" /\ lowered' = FALSE
    BY <2>1 DEF Inv
  <2> QED
    BY <2>1, <2>2, <2>4, <2>5, HandOver DEF Told, Ran
<1>8. CASE Lower
  <2>1. results' \o run' = results
    BY <1>8, ConcatEmpty DEF Lower, Told
  <2>2. Whole = results /\ Whole' = results
    BY <1>8, <2>1 DEF Lower, Whole, Validating
  <2>3. InOrder(Whole)' /\ Ran(results)' = Ran(results)
    BY <1>8, <2>2 DEF Lower, Told, InOrder, Ran
  <2> QED
    BY <1>8, <2>2, <2>3 DEF Lower, Told, EarlyStages
<1>9. CASE LateStagesPass
  <2>1. /\ Validating /\ KeepResults /\ UNCHANGED <<call, heard, lowered>>
        /\ pc = "late" /\ pc' = "returned" /\ RunEnds
    BY <1>9 DEF LateStagesPass, Validating, Return
  <2>2. ~(Validating')
    BY <2>1 DEF Validating
  <2>3. Ran(run) = {o \in Stages : o >= FirstAfterLowering} /\ Ran(results) = EarlyStages
    BY <2>1, RunSawAll DEF Selected, Told
  <2>4. Stages \subseteq Nat /\ FirstAfterLowering = 4
    BY CompilePipelineAssumption, Numbers
  <2>5. EarlyStages \cup {o \in Stages : o >= FirstAfterLowering} = Stages
    <3>1. \A o \in Stages : o < FirstAfterLowering \/ o >= FirstAfterLowering
      BY <2>4
    <3> QED
      BY <3>1 DEF EarlyStages
  <2>6. Ran(results') = Stages /\ EarlyStages \subseteq Stages
    BY <2>1, <2>2, <2>3, <2>5, HandOver
  <2> QED
    BY <2>1, <2>2, <2>6, HandOver DEF Told, Ran, EarlyStages
<1>10. CASE Returned \/ UNCHANGED vars
  <2>1. UNCHANGED vars
    BY <1>10 DEF Returned
  <2>2. Whole' = Whole
    BY <2>1 DEF vars, Whole, Validating
  <2> QED
    BY <1>1, <2>1, <2>2 DEF vars
<1> QED
  BY <1>3, <1>4, <1>5, <1>6, <1>7, <1>8, <1>9, <1>10 DEF Next

(* For every set of calls and stages: the result of a call that returned    *)
(* lists the stages that ran in order, each once and with what it found,    *)
(* all of them if the file was accepted, and the reporter heard of the same *)
(* (LangSpecCompileResult, LSTValidatorRun).                                *)
THEOREM StagesAreTold == Spec => []ResultTellsTheStages
<1>1. Init => Inv /\ Told
  BY InvInit, ToldInit
<1>2. Inv /\ Told /\ [Next]_vars => Inv' /\ Told'
  BY InvNext, ToldNext
<1>3. Told => ResultTellsTheStages
  BY DEF Told, ResultTellsTheStages, InOrder, Whole, Validating, EarlyStages
<1> QED
  BY <1>1, <1>2, <1>3, PTL DEF Spec
=============================================================================
