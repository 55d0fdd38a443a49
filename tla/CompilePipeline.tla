-------------------------- MODULE CompilePipeline --------------------------
(***************************************************************************)
(* One call of LangSpecCompilerCompile (dsl/api.go) and the two runs of    *)
(* the validator it makes (validation/validator.go): parse, resolve the    *)
(* imports, run the stages of order below 4, lower the tree, run the other *)
(* stages.  What a stage finds is data of the file, and of an entry only   *)
(* the severity is kept.  The walk over the imports is the module          *)
(* ImportGraph, of which this one sees how it ended.                       *)
(***************************************************************************)
EXTENDS Naturals, Sequences, FiniteSets

CONSTANTS
  Stages,     \* ValidationStages: the orders of the registered stages
  Calls       \* the calls to consider

Info == 2
Warning == 3
Error == 4
Fatal == 5
Severity == 1..Fatal

FirstAfterLowering == 4

(* "absent" is a .lspec path where there is no file; "unreadable" another   *)
(* extension or bytes that do not decode.  "duplicate" is an alias bound    *)
(* twice, in "duplicate later" after a module that left a warning.          *)
CallSpace ==
  [parse : {"clean", "absent", "unreadable", "syntax errors"},
   imports : {"none", "resolved", "duplicate", "duplicate later", "unparsed", "invalid"},
   findings : [Stages -> SUBSET Severity],
   pragma : BOOLEAN,                     \* lspec.warnings_as_errors
   override : {"unset", "on", "off"},    \* validationWarningsAsErrors
   sink : BOOLEAN,                       \* is there a DiagnosticSink
   reporter : BOOLEAN,                   \* a stage reporter, of type TNodeKind
   target : {"LangSpec", "other"}]       \* the TNodeKind of the call

(* Stage 0 is among the stages: it is what refuses a file that is absent. *)
ASSUME CompilePipelineAssumption ==
  /\ Stages \subseteq Nat
  /\ 0 \in Stages
  /\ IsFiniteSet(Stages)
  /\ Calls \subseteq CallSpace

VARIABLES
  call,      \* the file and the configuration; never changes
  pc,        \* where the call is
  run,       \* the validator run under way: each stage's order and entries
  results,   \* result.ValidationEntries.Results
  heard,     \* history: what the stage reporter was given of this file
  output,    \* history: what was written to diagnosticWriter
  lowered,   \* the Compiled* fields of the result are set
  answer     \* "none" until the call returns, or panics

vars == <<call, pc, run, results, heard, output, lowered, answer>>

-----------------------------------------------------------------------------
Init ==
  /\ call \in Calls
  /\ pc = "parse"
  /\ run = <<>>
  /\ results = <<>>
  /\ heard = <<>>
  /\ output = {}
  /\ lowered = FALSE
  /\ answer = "none"

Return(a) ==
  /\ pc' = "returned"
  /\ answer' = a

(* The parser gives no result at all, or one with syntax errors, which are *)
(* rendered when there is a writer.                                        *)
ParseFails ==
  /\ pc = "parse"
  /\ \/ call.parse = "unreadable" /\ UNCHANGED output
     \/ call.parse = "syntax errors"
        /\ output' = output \cup (IF call.sink THEN {"syntax errors"} ELSE {})
  /\ Return("rejected")
  /\ UNCHANGED <<call, run, results, heard, lowered>>

(* The error of an absent file comes with an empty list of syntax errors, *)
(* and is dropped: the call goes on with no root node.                    *)
Parses ==
  /\ pc = "parse"
  /\ call.parse \in {"clean", "absent"}
  /\ pc' = "imports"
  /\ UNCHANGED <<call, run, results, heard, output, lowered, answer>>

ImportsFail == call.imports \notin {"none", "resolved"}
ImportDiagnostics == call.imports \in {"duplicate later", "unparsed", "invalid"}

(* The reporter is asserted to have LangSpec's own node kind for a module   *)
(* that is imported, whatever the kind of the call.  Which modules were     *)
(* validated before a failure, the result of the walk does not say.         *)
ReporterMismatch == call.reporter /\ call.target # "LangSpec"
ModuleValidated == call.imports \in {"resolved", "duplicate later", "invalid"}

AssertReporter ==
  /\ pc = "imports"
  /\ call.parse = "clean"
  /\ ReporterMismatch
  /\ call.imports # "none"
  /\ Return("panic")
  /\ UNCHANGED <<call, run, results, heard, output, lowered>>

(* The diagnostics are printed to the writer, which is nil without a sink. *)
ImportsFailed ==
  /\ pc = "imports"
  /\ call.parse = "clean"
  /\ ImportsFail
  /\ ~(ReporterMismatch /\ ModuleValidated)
  /\ output' = output \cup (IF ImportDiagnostics THEN {"imports"} ELSE {})
  /\ Return(IF ImportDiagnostics /\ ~call.sink THEN "panic" ELSE "rejected")
  /\ UNCHANGED <<call, run, results, heard, lowered>>

(* No root node, no imports; whether the search for the pragmas survives    *)
(* one is up to the parser's library.                                       *)
ImportsResolved ==
  /\ pc = "imports"
  /\ \/ /\ call.parse = "absent"
        /\ \/ Return("panic")
           \/ pc' = "early" /\ UNCHANGED answer
     \/ /\ call.parse = "clean"
        /\ ~ImportsFail
        /\ ~(ReporterMismatch /\ ModuleValidated)
        /\ pc' = "early"
        /\ UNCHANGED answer
  /\ UNCHANGED <<call, run, results, heard, output, lowered>>

(* Mutant: the stage that reads the lowered grammar is in the first run. *)
SelectedUpTo(o) == IF pc = "early" THEN o <= FirstAfterLowering ELSE o >= FirstAfterLowering

(* The stage filters of the two validator runs. *)
Selected(o) == IF pc = "early" THEN o < FirstAfterLowering ELSE o >= FirstAfterLowering

(* What processing a stage finds: stage 0 an entry rule in every tree, the *)
(* stage after the lowering the grammar of that tree.                      *)
Process(o) ==
  IF o >= FirstAfterLowering /\ ~lowered THEN {Fatal}
  ELSE IF call.parse = "absent" THEN (IF o = 0 THEN {Error} ELSE {})
  ELSE call.findings[o]

Validating == pc \in {"early", "late"}
Ran(rs) == {rs[i].order : i \in 1..Len(rs)}
Has(rs, severity) == \E i \in 1..Len(rs) : \E s \in rs[i].entries : s >= severity
Due == {o \in Stages : Selected(o) /\ o \notin Ran(run)}

RunStage ==
  /\ Validating
  /\ ~Has(run, Fatal)
  /\ \E o \in Due :
       LET result == [order |-> o, entries |-> Process(o)] IN
       /\ \A p \in Due : o <= p
       /\ run' = Append(run, result)
       /\ heard' = IF call.reporter THEN Append(heard, result) ELSE heard
  /\ UNCHANGED <<call, pc, results, output, lowered, answer>>

KeepResults == results' = results \o run

(* LSTValidatorRun returns an error: nothing of the run is rendered. *)
StopAtFatal ==
  /\ Validating
  /\ Has(run, Fatal)
  /\ KeepResults
  /\ Return("rejected")
  /\ UNCHANGED <<call, run, heard, output, lowered>>

WarningsAsErrors == IF call.override = "unset" THEN call.pragma ELSE call.override = "on"

(* Mutant: the pragma wins over the configuration. *)
FailsByPragma(rs) == Has(rs, IF call.pragma THEN Info + 1 ELSE Error)

FailsCompilation(rs) == Has(rs, IF WarningsAsErrors THEN Info + 1 ELSE Error)

(* Mutant: only the findings of a run that passes are rendered. *)
RenderPassing ==
  output' = output \cup (IF call.sink /\ Has(run, 1) /\ ~FailsCompilation(run) THEN {pc} ELSE {})

RenderFindings == output' = output \cup (IF call.sink /\ Has(run, 1) THEN {pc} ELSE {})

RunEnds == Validating /\ Due = {} /\ ~Has(run, Fatal)

FindingsFail ==
  /\ RunEnds
  /\ FailsCompilation(run)
  /\ KeepResults
  /\ RenderFindings
  /\ Return("rejected")
  /\ UNCHANGED <<call, run, heard, lowered>>

EarlyStagesPass ==
  /\ pc = "early"
  /\ RunEnds
  /\ ~FailsCompilation(run)
  /\ KeepResults
  /\ RenderFindings
  /\ pc' = "lower"
  /\ UNCHANGED <<call, run, heard, lowered, answer>>

(* compileTree, and the artifacts attached to the result. *)
Lower ==
  /\ pc = "lower"
  /\ lowered' = TRUE
  /\ run' = <<>>
  /\ pc' = "late"
  /\ UNCHANGED <<call, results, heard, output, answer>>

LateStagesPass ==
  /\ pc = "late"
  /\ RunEnds
  /\ ~FailsCompilation(run)
  /\ KeepResults
  /\ RenderFindings
  /\ Return("accepted")
  /\ UNCHANGED <<call, run, heard, lowered>>

Returned == pc = "returned" /\ UNCHANGED vars

Next ==
  \/ ParseFails
  \/ Parses
  \/ AssertReporter
  \/ ImportsFailed
  \/ ImportsResolved
  \/ RunStage
  \/ StopAtFatal
  \/ FindingsFail
  \/ EarlyStagesPass
  \/ Lower
  \/ LateStagesPass
  \/ Returned

(* One goroutine makes the call, and no step of it waits. *)
Spec == Init /\ [][Next]_vars /\ WF_vars(Next)
-----------------------------------------------------------------------------
(* The severity from which the caller asked an entry to fail the file. *)
Limit(c) ==
  IF c.override = "on" \/ (c.override = "unset" /\ c.pragma) THEN Warning ELSE Error

Quiet(c, stages) == \A o \in stages : \A s \in c.findings[o] : s < Limit(c)
Usable(c) == c.parse = "clean" /\ c.imports \in {"none", "resolved"}
PassesBefore(c) == Quiet(c, {o \in Stages : o < FirstAfterLowering})
PassesAfter(c) == Quiet(c, {o \in Stages : o >= FirstAfterLowering})

(* What may end in a panic: no file; a module imported under a reporter of *)
(* another kind; a failed import with nowhere to say so.                   *)
MayPanic(c) ==
  \/ c.parse = "absent"
  \/ c.imports # "none" /\ c.reporter /\ c.target # "LangSpec"
  \/ c.imports \notin {"none", "resolved"} /\ ~c.sink

Contract == INSTANCE CompileContract
  WITH Readable <- Usable, EarlyPasses <- PassesBefore,
       LatePasses <- PassesAfter, Crashes <- MayPanic

(* The file is accepted exactly when nothing any stage would find reaches   *)
(* the limit in force, the artifacts appear exactly when the stages before  *)
(* the lowering pass, and the call is answered: the pipeline, with its two  *)
(* runs and early returns, implements CompileContract.                      *)
ImplementsContract == Contract!Spec

(* The result lists the stages that ran in order, each once, none left out  *)
(* before the last, with what each found; all of them if it was accepted,   *)
(* those before the lowering if there are artifacts; and the stage reporter *)
(* has heard of the same (LangSpecCompileResult, LSTValidatorRun).          *)
ResultTellsTheStages ==
  pc = "returned" =>
    /\ \A i \in 1..Len(results) :
         /\ \A j \in 1..(i-1) : results[j].order < results[i].order
         /\ call.parse = "clean" => results[i].entries = call.findings[results[i].order]
         /\ \A o \in Stages : o < results[i].order => o \in Ran(results)
    /\ answer = "accepted" => Ran(results) = Stages
    /\ lowered => {o \in Stages : o < FirstAfterLowering} \subseteq Ran(results)
    /\ call.reporter => heard = results

(* With a sink, whoever gets an error for what was found has been shown it, *)
(* unless a fatal entry ended the run (renderValidationEntries).            *)
FailureIsShown ==
  answer = "rejected" /\ call.sink /\ Has(results, Limit(call)) /\ ~Has(results, Fatal) =>
    (IF lowered THEN "late" ELSE "early") \in output

=============================================================================
