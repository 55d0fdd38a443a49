# Langspec in TLA+

Langspec turns a `.lspec` file, which describes the lexer and the grammar of a language, into a lexer, a
parser and editor support. This directory holds TLA+ models of the parts whose correctness depends on an
order of events, on a stack, on a fixpoint or on two pieces of code that have to agree; TLC configurations
that check them on small instances; and TLAPS proofs of what matters most for every value of the constants.
Run TLC with `tlc -config X.cfg M`, the prover with `tlapm M.tla`; the modules whose names end in `Proofs` hold the theorems.

`PROJECT.json` is the index: components, runs, the seeded bug that each checked property has been seen to
catch ("mutants"), the source lines of each definition ("map"), hazards, findings and theorems.
Definitions with the comment `Mutant:` are such seeded bugs; no specification uses them.

## 1. The system

| Component (source) | State it keeps | Operations | Talks to |
| --- | --- | --- | --- |
| **Compile pipeline** (`dsl/api.go`) | result, its validation entries, compiled artifacts | `LangSpecCompilerCompile`: parse, resolve imports, stages 0..3, lower, stage 4, render | everything below, by calls |
| **Validator engine** (`validation/validator.go`) | entries of a run | run the registered stages by order, filter, report, stop at a fatal entry | stage reporter (callback) |
| **Import resolution** (`dsl/import_resolution.go`, `dsl/semantics/imports.go`) | alias table of the tree, files seen, diagnostics | depth-first walk that parses, binds and validates | parser, validator |
| **Semantic validation** (`dsl/semantics/validation*.go`) | semantic environment per file | duplicates, references, reachability, cycles, templates, left recursion, overlaps | validator engine |
| **Symbol table** (`env.go`, `compiled_symbol_table.go`) | symbols of a file and, prefixed, of its imports | build, look up, flatten imports | lowering, editor |
| **Lowering** (`dsl/compiler.go`, `semantic_ir_pipeline.go`) | patterns compiled so far, lexer spec, rule registry | patterns, rules, pratt tables, usings, embedded lexers and their handoffs | syntaxa, lexarch |
| **Templates** (`template_compile.go`, `semantics/template*.go`) | none | substitute arguments in a body | lowering, validation |
| **Runtime** (`api.go`) | use flag and source of each session; one lexing session, the lexer and node pools of the parser | parse, lex, reset, destroy | client callbacks, lexarch, syntaxa |
| **Lexer stack reachability** (`editor/ir_lexer_reachability.go`) | pairs of a parse context and a mode stack | worklist; bind a token of a context to a lex rule | syntaxa's state graph |
| **Editor IR** (`editor/ir_from_state_graph.go`) | editor states and transitions | order and translate transitions, overrides, regions, ambient tokens, select the states | reachability |
| **Sublime generator** (`editor/sublime/`) | context map | merge equivalent states, share includes, branch points, prune, emit | editor IR |
| **Toolchains, bootstrap** (`toolchain/`, `bootstrap/`) | files written | Go bindings, Sublime, TM comments, in that order, filtered | pragmas of the result |
| **Meta specification, source generator, CLI** (`dsl/spec`, `dsl/generator`, `cliutil`, `cmd`) | tables | build once, print | |

lexarch (lexing), syntaxa (parsing, grammar analysis, state graph), autarch (patterns) and memarch are other repositories.
They are modelled as far as the code here relies on them, and marked external.

**What is hard here.** One lexing session is shared by all sessions of a parser, and callbacks re-enter it.
The import walk uses one alias table for a tree whose files each name their own imports, and validates a
module when the walk *returns* from it. A call runs the validator twice around the lowering, with early
returns between. The lowering takes apart what the checks have looked at before by other code, and panics where
they disagree. A rule of a module is compiled again wherever it is used, under labels and lookups of the user. Embedded lexers are
merged by rewriting names and appending stack operations. The editor simulates the lexer's stack to a fixpoint with a cut at 15
modes, ranges over Go maps in any order, and then sorts, merges, shares and prunes what the user's editor will run.
What each of these can do wrong is listed, at its line, under "hazards".

**What makes each part correct**

- Imports: on success every import of every file means the file it names; modules come before their users; healthy trees are
  accepted; failures are never silent; it ends.
- Runtime: a call sees the tokens of its own file from the first one on; the use flag is exact; nothing reads a freed lexer; calls end.
- Pipeline: the answer is what the findings and the limit in force say; the result lists what ran, and the reporter hears
  the same; whoever is refused for a finding is shown it.
- Patterns and lexer: a cycle is told exactly when there is one; what passes does not make the lowering panic; all states of a
  lexer agree on a token.
- Rules: references end where they were meant to, whatever was compiled in between; tokens are looked for in the lexer that makes
  them; what an imported rule needs is declared; a rule called unreferenced is.
- Grammar safety: what passes is never parsed without end; left recursion and overlaps are told.
- Embedding: from the open token to the close token the lexer is inside the module, and afterwards where it was.
- Reachability: exactly the pairs a parse can meet; refusal only for a stack that does overflow; a token bound
  to a rule of a mode that is on top somewhere in its context.
- Editor: every context of the grammar arrives in the file with its rules in their order; merged states behave alike.

## 2. Modules

| Module | Models | Checked by | Proved in |
| --- | --- | --- | --- |
| `ImportGraph` | `resolveImportGraph` and its helpers | `MCImportGraph` | `ImportGraphProofs` |
| `LangParser` | sessions and calls of `api.go` | `MCLangParser` | `LangParserProofs` |
| `CompileContract` | what a compile call promises, without the order of its work | as a property of the next | |
| `CompilePipeline` | `LangSpecCompilerCompile` with its two validator runs | `MCCompilePipeline` | `CompilePipelineProofs` |
| `PatternLowering` | stages 0 to 3 of PATTERN and LEX, and their lowering | `MCPatternLowering` | `PatternLoweringProofs` |
| `ModuleChecks` | stages 0 and 1 of PARSE and PRATT, for all files of a compile | through the next | |
| `RuleLowering` | symbol table, rules, templates, usings, embedded programs | `MCRuleLowering` | `RuleLoweringProofs` |
| `GrammarSafety` | stage 4, and the descent of the parser it is about | `MCGrammarSafety` | |
| `LexerStack` | the stack operations of lex rules | through the next two | `LexReachProofs`, `EmbedLexerProofs` |
| `EmbedLexer` | merging of embedded lexers, handoffs, and the merged lexer at work | `MCEmbedLexer` | `EmbedLexerProofs` |
| `LexReach` | the worklist and the binding of a token | `MCLexReach` | `LexReachProofs` |
| `SublimeStates` | `buildContextsMap` of the Sublime generator and its helpers | `MCSublimeStates` | `SublimeStatesProofs` |
| `EditorStates` | `EditorIRFromStateGraph`, on top of `SublimeStates` | `MCSublimeStates` | `SublimeStatesProofs` |

**How they compose.** `LexerStack` is shared: `EmbedLexer` runs the real lexer with it, `LexReach` the simulation of
the editor. `CompilePipeline` refines `CompileContract` (INSTANCE with a refinement mapping) and sees of an import
walk only how it ended; `ImportGraph` models that walk in full. `RuleLowering` takes the import table as `ImportGraph` leaves it: its
assumption `WorldAssumption` says that an alias belongs to one import statement, which `ResolvedAsDeclared` shows of an accepted tree. It
puts the checks (`ModuleChecks`) and the compiler into one specification, so that what the checks accept is what is compiled; so does
`PatternLowering`. `EditorStates` builds machines of state graphs, and the specification of `SublimeStates` emits them: its properties
speak of the whole way from the grammar to the contexts of the file. `GrammarSafety` runs a parser on the packages its checks let pass.

**ImportGraph.** `stack` is the Go call stack, innermost file first, `next[m]` the loop index of the only call that
walks `m`, `byAlias` and `visited` are `graph.byAlias` and `visitedByPath`. One action per way through the loop body:
`SkipRepeatedAlias`, `RefuseTakenAlias`, `FailParse`, `BindAndWalk`, `ValidateImport` (the module
just returned from), `ReturnFromWalk`. A file is its list of imports and one health: what stages 0..3 find besides.

**LangParser.** Each call has a program counter. `BeginLoad` and `BeginStore` are separate, as in the code; so are the
look at the cached lexing session and its rewinding, every token, the release, the test and the
assignments of `Reset`, the freeing and the marking of `LangParserDestroy`. `Call` starts a call from a client or from one of the three
callbacks: `mapFn` while decoding, the `nodePostProcessor` of a parse between two tokens, the error hook after it; `from` records where the caller
stood. A destruction belongs to no session and can be made from a callback as well; what a freed lexer gives may be `Garbage`. `Serial` says that clients do not overlap.
`OwnTokens` is about calls that are `Undisturbed`: nothing was parsed or lexed from their `nodePostProcessor`.

**CompilePipeline.** The actions are the phases of the call and their early returns (`ParseFails`, `Parses`,
`ImportsFailed`, `AssertReporter`, `ImportsResolved`, `RunStage`, `StopAtFatal`, `FindingsFail`, `EarlyStagesPass`, `Lower`,
`LateStagesPass`). Of an entry only the severity is kept, of the output only which phase wrote.

**PatternLowering.** A host imports one module. First the module and then the host go through `SymbolBinding`, the search for cycles (`WalkFrom`,
`WalkInto`, `WalkPast`, `WalkBack`, `CycleFound`: a stack of names with positions and nothing remembered besides) and the other checks
(`ChecksFail`, `ModulePasses`, `HostPasses`). Then `NextDefinition` takes the definitions of the host in sorted order and compiles each element
(`CompileElement`, `CompileReference`, `ElementPanics`, `ReferencePanics`); `constructLexRule` and `WithRuleset` build the lexer, and
`CompileModule` compiles a module's patterns anew for each rule that uses it. An expression is the sequence of its elements; a
number is read by `strconv.Atoi` in the checks (which take what does not fit as not given) and in the lowering (which panics).

**ModuleChecks, RuleLowering.** A file is a record of its tables, a body the sequence of its elements in the order in which the compiler meets them. Each check
is an operator of `ModuleChecks`, `CheckFile` runs them on the modules and the host. `CollectSymbols` goes down the import paths one level at a time; `Begin`
takes the rules of the host in any order (a Go map); one action per kind of element (`RuleReference`, `Reference`, `TokenMatch`, `Lookahead`,
`SyncToken`, `NestPair`, `NestUsingPair`, `Operator`, `UseRule`, `ExpandCall`, `UseTemplate`, `EmbedProgram`); `EmbedBare` and `Unfit` are the panics over forms that the grammar allows and no check refuses; `Finish` defines the rule of a
body that ends. The stack is the Go stack with the fields of `parseCompileCtx` that differ between its frames. `refs` and `expects` record, beside what the
compiler keeps, what a reference meant where it was written and for which token a rule waits.

**GrammarSafety.** `processGrammarSafety` is the whole of stage 4 on a package of grammars, with the nullability and first sets the analysis of the library
gives it. A package without an error is then parsed: `Call`, `NextElement`, `TakeArm`, `Iterate`, `OpenNest`, `MatchToken`, `Leave` are the descent
of the library on any input, as the checks describe it.

**EmbedLexer.** `CompileModule` merges one module's states under its prefix, `InjectHandoff` treats one embed statement:
the entry is appended to every rule of the open token, an exit rule is added to the root state of the module. Then `Begin` and
`LexToken` run the result; `owed` remembers where each open handoff has to return. What a language is (`Language`) is what its validation has let
through: no state is undefined (V_LEX008), a token has one pattern and one operation (V_LEX011), an alias names an embedded module (V_IMP009), no rule of
it shadows the close token (V_IMP011). What no check asks, and the handoff needs all the same, are the definitions `KeepsRoot`, `OpensEnter` and `Closes`.

**LexReach.** `SkipTransition`, `StackOverflows`, `TryAdd`, `NextTransition`, `NextItem`, `WalkEnds` are the loops of the
worklist, one target at a time; `Ask` takes a token of a context; `LookAtStack`, `StacksAgree`, `FallBack`,
`LookAtState`, `SkipRule`, `LookAtRule`, `StatesAgree` resolve it. A map that is ranged over is a set from which any member comes next. A regular
expression is a value that can be compared. Rules come grouped by state and highest priority first, which is an assumption
on the constant; a pattern that has no regular expression is left out.

**SublimeStates, EditorStates.** `EditorIR(g)` is the machine of a state graph: transitions sorted by the comparator of the code, each with its overrides,
regions, ambient tokens, rules of the modes, and the states up to the root. `Refine` is a round of the loop of `minimizeStatesForEmission`, `Settle` its end and
the choice of representatives; `BuildEntries` turns rules into entries and runs of one match into branch points; `Emit` builds the context map with
its shared lists, inherited scopes, lexer modes and prototype; `Visit` and `Prune` walk the references from main and prototype,
and `Validate` is the check that panics. A partition is named by its first label where the code numbers it, and a context by
the place it comes from where the code composes a fresh name. The walk takes its queue in any order. Left out: the text of
matches and the lookahead added to them, YAML.

## 3. Runs

| Run | Instance | Shows |
| --- | --- | --- |
| `ImportGraph` | 3 files, 3 aliases, at most 2 imports per file, one file not clean | what is bound, in which order modules are validated, what is refused |
| `LangParser` | 3 calls, 2 sessions, 2 files of 2 tokens, clients serial, callbacks free | calls do not disturb each other, but for those from a `nodePostProcessor`; a freed lexer is not used by later ones |
| `CompilePipeline` | 5 stages, every pragma, override, sink, reporter and node kind | the call implements `CompileContract` |
| `PatternLowering` | all reference graphs of 3 patterns, a file for each kind of element and lexer rule | cycles told exactly; what passes is lowered, except for known gaps |
| `RuleLowering` | 891 hosts with a library, a library of it and an embedded program | accepted hosts are lowered, except for known gaps; references and tokens |
| `GrammarSafety` | all packages of 2 rules over a few elements, guarded choices, 7 frames | what passes parses without standing still |
| `EmbedLexer` | hosts of 2 modes, up to 2 modules of 2 modes, at most 6 modes deep | the handoff comes back |
| `LexReach` | 2 contexts, 3 modes, 2 tokens, 2 patterns, 2 priorities, at most 4 modes deep | the walk is exact, the binding independent of order where it should be |
| `SublimeStates` | machines of main and 2, 3 or 5 more states, and those built of 482 state graphs | merging, sharing and pruning keep what the states say; contexts arrive |
| `LangParserConcurrent` | as `LangParser`, two clients at once, one session each | *violated*: the comment promises concurrent use |
| `LexReachPriority` | as `LexReach` | *violated*: the best of three rules is not always picked |
| `RuleLoweringTokens` | as `RuleLowering` | *violated*: rules wait for tokens of an imported lexer, which docs and tests say is not there |

A violated run states what a doc or a comment says; the finding in `PROJECT.json` quotes it.

**Why these bounds are enough.** With three files there are chains, diamonds, self-imports, cycles of every length up to
three, an alias repeated in a file and one shared by two files; the aliases are interchangeable, so the root's are
fixed up to renaming. Three calls are one that nests another from a callback, before or after
a third that fails half way, resets or destroys; or two nested in each other, or one after the other in one callback. Two tokens, the second of which is the end of the file, tell a session
that was rewound from one that was not. Of the stages, 0 and 2 stand for those before the lowering (the
others of them differ in nothing the call sees), 4 is the only one after; every severity a stage can report occurs.
Three patterns with one reference or two give cycles of length one to three, cycles behind a name, and shared names; the numbers are those up to
one more than the largest that fits (`IntMax`). The host of `RuleLowering` has `PROGRAM` and two rules, each of any kind of element and two in a row, the
library a rule that leads to a second one and a template that takes a token, its library an exported pair, and there are an alias reached twice, a cycle of imports, rules of one name in several files, and order left open; two groups of hosts nest what the warnings follow (templates in templates, usings in usings, `NestedHosts`) and what they do not (`Capturing`: a module
gives its own rule to a template of another one, where a pratt expression of the host has that name); forms that no check refuses stand in the host, in a template, in a rule that is used or called, and in an
embedded program, before and behind what is lowered (`UnfitHosts`, `UnfitLibraries`, `UnfitEmbedded`); a path
of imports longer than the number of aliases (`PrefixLimit`) has an alias twice and therefore goes on. Two grammar rules reach themselves directly, through each
other, behind an element that may be empty, and behind one that may not; seven frames hold a descent that comes back to each of them.
The handoff needs one module inside a host mode that is not the start state, with
room for a module's own pushes: six modes. Three lexer modes let the stack come back to a mode it has left and let three rules
disagree; a limit of four is one more than what any single push needs from the start, so grammars stop short of it, reach it
exactly and exceed it. The proofs hold for every depth, 15 included. Editor states come in ten shapes, so that states differ in
their rules, in where these lead, in scope, frame or immediate push, and one target is missing; chains of four need more than one
round to be told apart, or merge together with their targets; six states are the least in which three lists can be shared by
three contexts, or two by two; the graphs have a context that sorts behind the root, one that recovers, one with a body, overrides of every kind, a token without a rule, and
two orders of priority. Two more graphs (`BehindTheRoot`, `TwoWays`) are the least found in which a context that leads behind the root
is merged with another one, and in which two contexts fork by one token and differ in an arm only: the exceptions of `EveryContextArrives` are met. A context has three transitions, well within `InsertionBlock` (20): up to
that length `sort.SliceStable` sorts by insertion, which `StableSort` spells out because the comparator is not transitive; `StateGraph` asks it of the transitions of a context.

**Fairness.** `ImportGraph`, `CompilePipeline`, `PatternLowering`, `RuleLowering`, `LexReach` and `SublimeStates` are calls of one goroutine in which nothing waits:
weak fairness of `Next`. In `LangParser` a goroutine that is in a call is scheduled again, weak fairness
of each call's steps, and nobody has to make a call. `CallsEnd` therefore speaks of calls that were made. `EmbedLexer` and `GrammarSafety`
state no fairness and have no liveness property: a user may stop typing, and an input may be as long as it likes. Deadlock is checked except in `LangParser`,
`EmbedLexer`, `PatternLowering` and `GrammarSafety`, where all calls may have been made, the text may end, or the work is done.

## 4. Proofs

The proof modules assume only the named assumptions on the constants, which say
what a file, a call, a language and an editor machine are; TLC evaluates them in the runs. Sets that a Go program
holds in a map or a slice are finite (`Modules`, `Modes`, the labels of a machine).

**ImportGraphProofs.** `TypeCorrect`, `ImportsResolved` (`ResolvedAsDeclared`), `AliasesKept` (no binding ever changes), for all
numbers of files, aliases and imports. `ResolvedAsDeclared` says something only of the end, so the
inductive invariant `Walks` says what holds half way: no file has two walks; the imports before `next[m]` are settled;
a walked file with imports left is on the call stack; the import a waiting walk is at is bound. The types need the invariant
too: the diagnostics of a validated module name an import that is in range only because of `PendingBound`. Each action keeps
`Walks` by one of three lemmas (the walk advances, it stands, a file is pushed) and one for the return.

`ImportsBeforeImporters` (`DependenciesFirst`), `LegalTreesAreAccepted` (`LegalTreeAccepted`) and `FailuresAndWarningsTold` (`ImportFailuresSurface`)
are about `Below`, the files a file reaches. `Below` is a function that adds one level of imports at a time; that as many levels as there are files
are enough is proved by counting: a level that adds nothing is the last, and each other one adds a file. With that, the call stack is
a path of imports, a file on it that is met again is on a cycle, and in an acyclic tree a module that was seen before has been validated.

**LangParserProofs.** `TypeCorrect` holds for all clients; `TokensAreOwn` (`OwnTokens`), `GuardIsExact` (`GuardExact`) and `FreedIsNotParsed` (`NoParseAfterFree`)
are proved under `Serial`, for any number of sessions, files and calls and any depth of re-entry, and the run `LangParserConcurrent`
shows that the first is false without it. None of the three is inductive. What carries them is `Chain`: of two calls under way, the one with the smaller
number waits in a callback (`Waiting`), and there is a chain of callers from the one to the other; so at most one call runs (`Alone`), and it is the last. Then
`Held`: a session's flag is set exactly while one call holds it, and a call between its look at the flag and the store still finds what it has seen; `Placed`: until the lexer is freed, a call that takes tokens
stands in its lexing session as far as its tokens go, from the step in which it rewinds it, unless it is disturbed. A call that moves the lexing session while another waits between two tokens descends from one made from
the other's `nodePostProcessor`, which `from` has recorded (`Origin`); so it disturbs that call (`ReadersDisturb`), and calls that wait in `mapFn` or the error hook have not rewound the session yet, or are done with it.
`Safe`: a parse past its first test was called before every destruction that has freed the lexer, because once that is done the parser is marked,
and in between nobody else runs.

**CompilePipelineProofs.** `PipelineKeepsContract`: every step of the pipeline is a step of `CompileContract` or a stutter, for every set of stages and calls, so it lowers,
accepts, refuses and panics only where the contract says so; the proof is that of a refinement mapping. It needs `Found` (what a run has collected is what
the stages find, and each stage that is due is run before the run ends) and `Sound` (once past the first run, the file was sound).
`FailuresAreShown` (`FailureIsShown`) needs that nothing kept in the result before the return reaches the limit (`Shown`). `StagesAreTold`
(`ResultTellsTheStages`): the result is the list of the first run followed by that of the second, each in order, because a run begins only when
the list of the one before it is whole (`Told`, `Whole`, `InOrder`).

**RuleLoweringProofs.** For every host, every table of modules and every order of the rules. `EndlessOnCyclesOnly` (`OnlyCyclesAreEndless`): what is walked are paths of
imports (`Paths`), and by counting a path that is longer than there are modules meets one twice. `TokensBelongToTheirLexer` (`TokensBelong`),
`UsedTextIsDeclared` (`UsedTextIsCovered`) and `PanicsAreExplained` (`PanicsAreGaps`) rest on `LoweringInv`, none of them being inductive: past the validation every
file has passed its checks and its tokens have an ID (`Checked`); every item on the stack is an element of a validated file whose frame has the
environment of that file, or an argument that was checked in the file that gave it (`ItemOK`, `FrameOK`); the text of what the host uses
asks only for what the obligations made the host declare (`UsedItemOK`), which holds when a frame is entered because then the using was written
in the host itself. There is a lemma for each kind of frame that is entered (`FineHost`, `FineModule`, `FineTemplate`) and one for
each action that enters it.

`ReferencesFindTheirRules` (`ReferencesLeadHome`) speaks only of the finished registry, and needs to know of each entry and each reference on the way (`Homing`):
what every label of the registry is defined as (`Labelled`), and that a reference leads to a rule of the host, to what is defined, or to what a frame on the stack
will define (`Heading`). A numbered label is never written twice for one rule of the host: the numbers of the rule at work are below the next
one, and a rule that is lowered (`Settled`) is not begun again. A recursive rule of a module is left to the frame that is compiling it, which is still there when
the reference is recorded and defines the label when it ends (`Coming`); compiling it again elsewhere writes the same. In the end no frame is left.

`WarnedRulesStayDead` (`WarnedRulesAreDead`) compares two fixpoints: the rules the validator reaches before the lowering, on the texts, and those the references of the
lowering reach, on the stack. `Tracing` links them, one item of the stack at a time: an item reached by usings alone stands in a body that is as many usings away from the rule
of the host as its path is long (`InRule`), one reached by templates alone stands in a template expanded in that rule (`InTemplate`), and an argument
stands in the text of the call that gives it (`Given`). The validator counts usings only up to the number of modules. That this is enough rests on the walk over the imports, of all things: usings follow a path of
imports (`Arrived`), every path was walked (`Reaching`), and a path longer than there are modules meets one twice and can be prolonged for ever (`LoopsGoOn`), in which case the lowering never begins
(`Bounded`). The fixpoints are recursive functions cut off at a cardinality; `LadderStandsStill` proves once that such a function has settled by then.

**PatternLoweringProofs.** `LexersAlwaysAgree` (`LexersAgree`): `LexInv` keeps that every built rule is the image of a rule of the host, that the states
built are those of the blocks done, and that a host past the checks is consistent; the check on written texts thereby becomes one on built rules.
`ReportedCyclesAreReal`: the stack of either walk is a path of references (`WalkInv`), so that a name met on it again closes a cycle.
`CyclesAlwaysToldExactly` (`CyclesToldExactly`) adds the converse, for a walk that marks only its own path and forgets everything it has left: what it has walked past
at a level of its stack leads to no cycle, and a name left without a cycle reaches none; a path between two names can be shortened until it passes none twice, which is why the bound on paths in the definition leaves none out. `OnlyKnownGapsPanic` (`OnlyGapsPanic`): every definition the lowering has
on its stack is one of a file that passed its checks, so its references resolve, are no cycle, and what is left to panic on is an element `Overlooked` lists.

**LexReachProofs.** For every state graph, all rules and every limit:

- `WalkComplete`: when the worklist is empty, the pairs are closed under the joint steps of grammar and lexer, and none overflows;
- `ReachedIsLeast`: they are within every family of sets closed in that way, so they are the least fixpoint and not more;
- `WalkSound`: each was added by a step from an earlier one; `DepthRefused`: a refusal has a witness;
- `StacksMirror`: every stack has the start state at the bottom and at most `MaxModes` modes.

The inductive invariant `Inv` says of the worklist: the queue and the set hold the same pairs (`Shape`); every transition of the
items before `head` is done, of the item at `head` those before `tr`, and of that one the targets before `tg`
(`ItemsDone`, `TransitionsDone`, `TargetsDone`); a target other than the first is under way only in a transition that is lexed
(`TargetsBegun`), without which a skipped transition would not keep `TargetsDone`. Because
pairs are only added, what is done stays done (`DoneKept`). `AfterRuleGrounded` shows of each of the four stack operations that the start
state survives it.

`TokensSettled` (`TokenSettled`) is about the binding of a token. The loops take the members of a map in any order, so the invariant (`Resolving`) says of
the candidates what they are of the modes looked at so far, whichever these are: each is the rule for the token of one of them, and each of them that has one has given it.
In the fallback the same holds of the lexer states, where `SkipRule` passes the rules of other tokens.

**SublimeStatesProofs.** For every machine: `RoundsOnlySplit` (what was told apart stays apart) and `MergedAreAlike`
(`MergedBehaveAlike`). Neither is inductive: that a round splits needs to know that the partition is no finer than what the
next round would make of it (`Told` in the invariant `Merging`), and that is kept because signatures over a finer partition tell
more apart (`SignatureCoarser`). That a part has a first label is the least-number principle, `LeastOf`: the intervals below
the numbers of a set are finite sets, and strict inclusion of finite sets is well founded.
`NothingIsLeftToMerge` (`NothingLeftToMerge`): whatever a round tells apart was emitted differently or leads by one reference to what was told apart before,
and `Apart` is closed under such steps because it has as many levels as there are pairs of states.

`ContextsSayTheirStates` (`ContextsSurvive`) follows a state through every phase of the emission. The invariant `Emission` says what each phase has left
behind: the representatives stand for all states (`Chosen`), the lists are those of the states (`Listed`), each context is filled with its own list or with the include of
a shared one (`Filled`), and nothing that is walked to is missing (`Complete`). Contexts are only added or dropped whole (`ContextsStand`), so what one offers
stays what it was when it was filled. What a list offers is the text of its rules (`MergedOffers`, with the branch points looked through); two lists of one signature
offer the same unless the signature hides something of one of them; the attempt to prove this without that proviso for *both* lists failed, and TLC then showed the
counterexample on an instance in which a list without branch points takes over one of a state with a dressed embed. The proviso is in `RulesSurvive`.

`ContextsArrive` (`EveryContextArrives`) and `ConsumingStaysFirst` (`ConsumingFirst`) go from the state graph to the file. For the first, the invariant `Pruning` says of the walk
over references what it has kept: what is reached and no longer queued has its references reached (`Walked`), main's context stands (`RootStands`), and each reference leads to a context or to what the
machine lacks (`ContextLeads`). So a panic has a missing state as its cause, and what a machine built of a graph (`IsBuilt`) lacks is a context behind the root
(`MissingBehind`): regions are all made, and modes are those of the rules. In a written file every reference of a context leads to one that is there; a transition of a state is a rule of
its list, and is offered by some context (`RulesPresented`) whose reference therefore stands; and by induction on the levels of `Reachable` all arrive (`AllArrive`). The attempt to prove it
without a proviso failed at states that are merged: a state with a target that the machine lacks can be taken for one with a target in the first part, and what it led to is then
lost without a panic. TLC showed it on a graph of four contexts; it is `BehindTheRoot`, and the exception is `Misled`.

`ConsumingFirst` is about a sort by a comparator that is not transitive, so that nothing follows from the comparator alone. What insertion keeps is `IsOrdered`: the priorities
fall, and the rule that consumes stands before one that recovers at its token if nothing of that priority but its own token was discovered before it (`OneMoreOrdered`).
The rules made of a prefix of the transitions are a prefix of the rules (`RulesInOrder`), and the context offers the rules as they are (`ContextsSurvive`).

**EmbedLexerProofs.** `InsideUntilClosed` (`OwnershipInside`), `CloseReturns` (`HandoffReturns`) and `ClosingIsPossible` (`WayOut`), for any number of modules,
modes, rules and embed statements, of which several may open or close in several modes. The hypotheses are what no check of the code asks of an author: an open token belongs to one embed statement and its
rules push or do nothing (`OpensEnter`); a module has a root mode and pops only what it has pushed (`KeepsRoot`: there is a level for each of its modes that bounds from below how many
modes are beneath it); for `WayOut` also that the host lexes the close tokens (`Closes`). All instances of the run satisfy them, which TLC evaluates.
`Compiling` says of the lexer spec, while it is being compiled, where each rule comes from (`Shape`): the rules of the host are those written, with the
entry of one statement or none; those of a module are its own, and in its root mode also exits, each with the pattern of a close token. `Running` says of the stack
that it is within the host, or has the modes to return to at the bottom, the module's root above them and, at each place above, a mode whose level is met (`Within`).
The exit can only be taken with the root on top, which is there only once, right above the modes to return to.

**Only model-checked.** All liveness (`Termination`, `CallsEnd`, `LoweringEnds`, `ReachTermination`, `EmissionEnds` and the fairness of the contract), because
fairness is outside the prover's reach; and everything of `GrammarSafety`, whose analysis is recursive over trees and uses recursive operators, in which no theorem can be stated.
Where a proof needs induction on a number, it is done with sets: the numbers for which a fact fails would have a least one, and there is none (`CountUp`, `LeastOf`).
A fact about what a recursive function computes was proved in this way where its recursion goes up to a number (`Below`, `Apart`, `FlattenSeq`, `ExpandedBy`, `UsedWithin`, `ReachedRules`).

## 5. Where the code and its words disagree

Three disagreements have a run (above). The following were met while modelling; the models do as the code does, and the properties that hold make
room for each of them by name:

- **Aliases.** "Alias names must be unique inside the file" (`docs/syntax.md:66`); the code requires it within the tree (`ImportGraph`).
- **Embed statements.** An embed statement that is written twice pushes the module twice, and one close token pops once (`EmbedLexer`; the instances
  have each open token in one statement).
- **Reporter.** A stage reporter for the node kind of the caller panics as soon as the file imports a module, because modules are validated with another
  node kind (`MayPanic` in `CompilePipeline`); import diagnostics are printed without a look at whether there is a sink.
- **Nested calls.** The parser is said to be "safe to re-use and use concurrently" (`api.go:566`). A `nodePostProcessor` (`api.go:302-307`) that parses or lexes with the same parser rewinds the
  lexing session from which the outer parse takes its next token (`api.go:1027`), with one caller and two sessions already (the exception `Undisturbed` in `OwnTokens`; calls from `mapFn` and the error hook do no harm).
- **Gaps of the checks.** The lowering panics on input that was accepted. In patterns: a range over other things than characters, a malformed regular expression, a number that does
  not fit (`HasGap`). In rules (`PanicsAreGaps`): a name that a library leaves open, an embedded module without a rule, an embed in a module whose delimiters the host
  does not declare; and forms the grammar allows and no check refuses: an embed without two tokens (`compiler.go:1269`), a repetition bound, a predict offset or a precedence that no int holds (`compiler.go:2229`;
  `validation.go:1285` takes such a bound as not given, nothing looks at the others), an alternative of `emit one of` that is not a token (`compiler.go:1450`), a template
  parameter at a place of another type.
- **Fatal findings.** A left-recursive rule is a fatal entry (`validation.go:1353`); the call then answers only that it "stopped because of a fatal validation stage" (`validator.go:246`) and renders no
  finding (the exception in `FailureIsShown`).
- **Binding of a token.** The rules of the reachable modes "must agree on the same emission (regex + metadata), or an error is returned. If no stack can lex tok, (false, nil) is returned" (`ir_lexer_reachability.go:334-336`, and
  `docs/sublime-syntax-generation.md:90-92`, `:189`). The code takes the rule of highest priority if the first rules that disagree do so in their metadata only (`:381-386`), and if no stack lexes the token, the rule
  of any lexer state, as long as all states that have one agree (`:394-399`). `BoundWhereItIsLexed`, `TwoStatesSettled` and `FallbackIsUnique`, the parts of `TokenSettled`, say what the code does.
- **Two stacks in one line.** "Lexer `pop` adds to YAML `pop`; lexer `set` sets YAML `set`. So a single YAML line can combine" both (`docs/sublime-syntax-generation.md:149-151`). Where the parser pushes, pops, sets or embeds, the code
  drops the lexer's operation, to "Keep parse control-flow authoritative" (`sublime/syntax_generator.go:853-861`). What `ContextsSurvive` keeps is the effect of a rule as the generator settles it (`EffectOf`, `ParserIdle`), not
  what the lexer would do besides.
- **Obligations.** "Missing requirements fail validation" (`docs/syntax.md:134`). What an exported symbol asks of the host is told for its body, not for the rules
  it refers to, and in the body not for arguments of templates, pairs of other modules and tokens of predict and sync (the exceptions in `UsedTextIsCovered`). A name
  that a used template leaves open can be captured by a token of the caller (the kinds that `TokensBelong` names).
- **Warnings.** A rule that is "never referenced" (`validation.go:1086`) may be live: the validator does not follow what a template gives to another template, what a template uses of a module, nor
  what the rules that a used rule names refer to (`validation_template.go:401`, `validation.go:2293`; `Seen` in `WarnedRulesAreDead`). A rule that a module gives to a template of another module can also
  be captured by a pratt expression of the host that has its name.
- **Import cycles** are accepted by the resolver, and the collection of imported symbols then does not end (`OnlyCyclesAreEndless`).
- **Labels.** The labels of usings and embeds are numbered per rule name, and a rule of a module can have the name of one of the host; arguments of
  templates can be captured by a rule of the module; pratt expressions of modules are never compiled (`Unsteady`).
- **Tokens without an alias.** Sync tokens and pairs are looked up without the alias of the module they are written in.
- **Choices.** An overlap is told only against the first arm that starts with a token, and only for guards within four tokens (`FirstArmOverlapTold`);
  a prefix trap is told even where guards avert it.
- **Order of transitions.** "For the same token, preserve consuming parse transitions before recovery lookahead pops" (`editor/ir_from_state_graph.go:179`): the comparator
  is not transitive, and with a transition of another token and the same priority between the two the recovering rule can stay in front (the exception in `ConsumingFirst`). Of more than 20 transitions nothing is said.
- **States behind the root.** The states are collected, in the order of their ids, up to the root; a target that sorts behind it is missing and the
  emission panics (`EveryContextArrives`), or the state that leads there is merged into another and the context is lost in silence (`Misled`), although states that are merged are said to be
  "**indistinguishable** for output" (`docs/sublime-syntax-generation.md:123`). The lexer modes of a token are not part of the signature that merges states, and two regions
  with one label are one. The model has one name for the id of a context and its sanitized form; the code compares the sanitized id of a state with the raw id of the root
  (`ir_from_state_graph.go:240`), so that with a root whose id sanitizing changes no state would be taken for the root, and none left out behind it. The models take ids that sanitizing leaves alone.
- **Shared contexts.** The text that decides whether two contexts share a list leaves out the arms of branch points and the scopes of embedded syntaxes;
  the docs call the lists "identical" (`docs/sublime-syntax-generation.md:131`). `ContextsSurvive` says what is kept all the same; `Borrows` names the exception.

## 6. Not modelled

Composition and printing of regular expressions, YAML and Go source, and the layout of diagnostics are text. The meta grammar is a table. Toolchains, bootstrap, command
lines and scripts read settings and write files in a straight line, without a state that a later step reads. The generator of `.lspec` sources formats. Of the parts that are
modelled, these are left out: pragma checks; kinds of output nodes and the source map;
template parameters other than tokens and rules, parameters that are passed on, and the merging of output segments; the walk that collects the tokens of a grammar, the registry of
overrides and the builders of their patterns, which are data of `EditorStates`; patterns whose conversion to a regular expression fails; aliases that contain the separator `__`; the statistics of
the runtime and the constructors of its specifications. The component list in `PROJECT.json` gives the status of each part.
