---------------------------- MODULE ImportGraph ----------------------------
(***************************************************************************)
(* Resolution of the IMPORT blocks of a .lspec file and of every module it *)
(* imports, directly or not (dsl/import_resolution.go).                    *)
(*                                                                         *)
(* resolveImportGraph is a depth-first walk.  One namespace, byAlias,      *)
(* collects the modules of the WHOLE walk under their aliases; one set,    *)
(* visitedByPath, keeps a file from being walked twice.  The Go call stack *)
(* is the variable stack (innermost call first); next[m] is the loop index *)
(* of the only call that ever walks file m.  Paths are absolute and clean, *)
(* so a path is a module value.                                            *)
(***************************************************************************)
EXTENDS Naturals, Sequences, FiniteSets

CONSTANTS
  Modules,          \* the .lspec files, by absolute path
  Root,             \* the file being compiled
  Aliases,          \* the import aliases
  NoModule,         \* the value of an alias nothing is bound to
  ImportBlocks,     \* the import blocks of the files, to consider
  Healths,          \* the rest of what is in the files, to consider
  WarningsAsErrors  \* the files compiled with warnings as errors: a pragma of
                    \* the file, or all or none of them by configuration

(* What parsing and stages 0..3 find in a file, apart from its imports. *)
Health == {"clean", "missing", "syntax", "warning", "error"}
Import == [alias : Aliases, path : Modules]

ASSUME ImportGraphAssumption ==
  /\ IsFiniteSet(Modules)
  /\ Root \in Modules
  /\ NoModule \notin Modules
  /\ WarningsAsErrors \subseteq Modules
  /\ ImportBlocks \subseteq [Modules -> Seq(Import)]
  /\ Healths \subseteq [Modules -> Health]
  (* The walk starts once the root file has been parsed without errors. *)
  /\ \A h \in Healths : h[Root] \notin {"missing", "syntax"}

VARIABLES
  program,    \* the files; never changes
  visited,    \* visitedByPath
  stack,      \* the files whose walk has not returned, innermost first
  next,       \* the import each walk is at
  byAlias,    \* graph.byAlias
  pc,         \* where the innermost walk is
  err,        \* the error resolveImportGraph returns
  diags,      \* graph.diagnostics (appendDiagnostic keeps one of each key)
  validated   \* history: the aliases whose module passed validateImportModule

vars == <<program, visited, stack, next, byAlias, pc, err, diags, validated>>

Imports(m) == program.imports[m]
Top == Head(stack)
Current == Imports(Top)[next[Top]]

(* collectImportDefinitions keeps the first import of each alias of a file. *)
Repeated(m, i) == \E j \in 1..(i-1) : Imports(m)[j].alias = Imports(m)[i].alias

TypeOK ==
  /\ program \in [imports : [Modules -> Seq(Import)], health : [Modules -> Health]]
  /\ visited \subseteq Modules
  /\ stack \in Seq(visited)
  /\ next \in [Modules -> Nat \ {0}]
  /\ byAlias \in [Aliases -> Modules \cup {NoModule}]
  /\ pc \in {"loop", "validate", "done"}
  /\ pc = "done" \/ stack # <<>>
  /\ err \in {"none", "duplicate alias", "parse", "validation"}
  /\ diags \subseteq [alias : Aliases, path : Modules,
                      code : {"IMPORT_PARSE", "SYNTAX", "WARNING", "ERROR"}]
  /\ validated \subseteq Aliases
-----------------------------------------------------------------------------
Init ==
  /\ program \in [imports : ImportBlocks, health : Healths]
  /\ visited = {Root}
  /\ stack = <<Root>>
  /\ next = [m \in Modules |-> 1]
  /\ byAlias = [a \in Aliases |-> NoModule]
  /\ pc = "loop"
  /\ err = "none"
  /\ diags = {}
  /\ validated = {}

AtImport == pc = "loop" /\ next[Top] <= Len(Imports(Top))

(* Mutant: the newest report replaces the earlier ones. *)
ReportReplacing(codes) ==
  diags' = [alias : {Current.alias}, path : {Current.path}, code : codes]

Report(codes) ==
  diags' = diags \cup [alias : {Current.alias}, path : {Current.path}, code : codes]

Fail(kind) ==
  /\ pc' = "done"
  /\ err' = kind

(* Mutant: the walk does not move past the import it skips. *)
SkipAndStay == AtImport /\ Repeated(Top, next[Top]) /\ UNCHANGED vars

SkipRepeatedAlias ==
  /\ AtImport
  /\ Repeated(Top, next[Top])
  /\ next' = [next EXCEPT ![Top] = @ + 1]
  /\ UNCHANGED <<program, visited, stack, byAlias, pc, err, diags, validated>>

(* Mutants: no check of the alias; a module imported before is refused. *)
NoAliasCheck == FALSE
PathTaken == \E al \in Aliases : byAlias[al] = Current.path

AliasTaken == byAlias[Current.alias] # NoModule

RefuseTakenAlias ==
  /\ AtImport
  /\ ~Repeated(Top, next[Top])
  /\ AliasTaken
  /\ Fail("duplicate alias")
  /\ UNCHANGED <<program, visited, stack, next, byAlias, diags, validated>>

(* parseImportModule: a file that is absent, or that has syntax errors the *)
(* parser recovered from, or gave up on.                                   *)
FailParse ==
  /\ AtImport
  /\ ~Repeated(Top, next[Top])
  /\ ~AliasTaken
  /\ \/ program.health[Current.path] = "missing" /\ Report({"IMPORT_PARSE"})
     \/ program.health[Current.path] = "syntax" /\ Report({"SYNTAX"})
     \/ program.health[Current.path] = "syntax" /\ Report({"SYNTAX", "IMPORT_PARSE"})
  /\ Fail("parse")
  /\ UNCHANGED <<program, visited, stack, next, byAlias, validated>>

(* The module is bound to its alias, then walked unless it was before. *)
BindAndWalk ==
  /\ AtImport
  /\ ~Repeated(Top, next[Top])
  /\ ~AliasTaken
  /\ program.health[Current.path] \notin {"missing", "syntax"}
  /\ byAlias' = [byAlias EXCEPT ![Current.alias] = Current.path]
  /\ IF Current.path \in visited
       THEN /\ pc' = "validate"
            /\ UNCHANGED <<visited, stack>>
       ELSE /\ visited' = visited \cup {Current.path}
            /\ stack' = <<Current.path>> \o stack
            /\ UNCHANGED pc
  /\ UNCHANGED <<program, next, err, diags, validated>>

(* validateImportDefinitions and validateUsingReferences of the module that *)
(* was just walked, against the aliases bound so far.  A module uses every  *)
(* alias it imports.                                                        *)
ImportErrors(m) ==
  \E i \in 1..Len(Imports(m)) :
    \/ Repeated(m, i)
    \/ byAlias[Imports(m)[i].alias] = NoModule

Findings(m) ==
  (IF program.health[m] = "warning" THEN {"WARNING"} ELSE {})
    \cup (IF program.health[m] = "error" \/ ImportErrors(m) THEN {"ERROR"} ELSE {})

FailsCompilation(m) ==
  \/ "ERROR" \in Findings(m)
  \/ m \in WarningsAsErrors /\ "WARNING" \in Findings(m)

(* Mutant: the walk goes on after an import that failed validation. *)
ValidateAndContinue ==
  /\ pc = "validate"
  /\ Report(Findings(Current.path))
  /\ validated' = IF FailsCompilation(Current.path) THEN validated
                                                   ELSE validated \cup {Current.alias}
  /\ next' = [next EXCEPT ![Top] = @ + 1]
  /\ pc' = "loop"
  /\ UNCHANGED <<program, visited, stack, byAlias, err>>

ValidateImport ==
  /\ pc = "validate"
  /\ Report(Findings(Current.path))
  /\ IF FailsCompilation(Current.path)
       THEN Fail("validation") /\ UNCHANGED <<next, validated>>
       ELSE /\ validated' = validated \cup {Current.alias}
            /\ next' = [next EXCEPT ![Top] = @ + 1]
            /\ pc' = "loop"
            /\ UNCHANGED err
  /\ UNCHANGED <<program, visited, stack, byAlias>>

ReturnFromWalk ==
  /\ pc = "loop"
  /\ next[Top] > Len(Imports(Top))
  /\ stack' = Tail(stack)
  /\ pc' = IF Len(stack) = 1 THEN "done" ELSE "validate"
  /\ UNCHANGED <<program, visited, next, byAlias, err, diags, validated>>

Finished == pc = "done" /\ UNCHANGED vars

Next ==
  \/ SkipRepeatedAlias
  \/ RefuseTakenAlias
  \/ FailParse
  \/ BindAndWalk
  \/ ValidateImport
  \/ ReturnFromWalk
  \/ Finished

(* One goroutine runs the whole walk, and nothing in it blocks. *)
Spec == Init /\ [][Next]_vars /\ WF_vars(Next)
-----------------------------------------------------------------------------
(* The program read as a graph, independently of the walk. *)
Declared(m) == {i \in 1..Len(Imports(m)) : ~Repeated(m, i)}
Children(m) == {Imports(m)[i].path : i \in Declared(m)}
Below(m) ==
  LET R[n \in 0..Cardinality(Modules)] ==
        IF n = 0 THEN Children(m)
                 ELSE R[n-1] \cup UNION {Children(k) : k \in R[n-1]}
  IN R[Cardinality(Modules)]
Tree == {Root} \cup Below(Root)
Acyclic == \A m \in Tree : m \notin Below(m)

(* Every file the walk entered has each of its imports bound, in the one    *)
(* namespace of the whole walk, to the file that import names: no later     *)
(* import of any other file replaced it.                                    *)
Bound(m, i) == byAlias[Imports(m)[i].alias] = Imports(m)[i].path

ResolvedAsDeclared ==
  pc = "done" /\ err = "none" =>
    \A m \in visited : \A i \in Declared(m) : Bound(m, i)

(* An alias, once bound, keeps its module (the duplicate alias error). *)
AliasNeverRebound ==
  [][\A a \in Aliases : byAlias[a] # NoModule => byAlias'[a] = byAlias[a]]_vars

(* A module is validated after the modules it imports: its stages 0..3 look *)
(* up their exports.  With a cycle of imports there is no such order.       *)
DependenciesFirst ==
  Acyclic => \A a \in validated :
    \A i \in Declared(byAlias[a]) : Imports(byAlias[a])[i].alias \in validated

(* Healthy files that import one another without a cycle, under aliases     *)
(* that are distinct over the whole tree, are accepted.                     *)
Accepted(m) ==
  \/ program.health[m] = "clean"
  \/ program.health[m] = "warning" /\ m \notin WarningsAsErrors
Healthy ==
  \A m \in Below(Root) :
    /\ Accepted(m)
    /\ \A i \in 1..Len(Imports(m)) : i \in Declared(m)
DistinctAliases ==
  \A m, n \in Tree : \A i \in Declared(m), j \in Declared(n) :
    Imports(m)[i].alias = Imports(n)[j].alias => m = n /\ i = j

LegalTreeAccepted ==
  pc = "done" /\ Healthy /\ Acyclic /\ DistinctAliases => err = "none"

(* A file that cannot be parsed, or fails its validation, leaves a          *)
(* diagnostic under the alias and path of the import that met it; and no    *)
(* warning of a file that was accepted is lost on the way (README.md,       *)
(* "alias/path-context diagnostics").                                       *)
DiagnosticFor(m, i) ==
  \E d \in diags : d.alias = Imports(m)[i].alias /\ d.path = Imports(m)[i].path

ImportFailuresSurface ==
  pc = "done" =>
    /\ err \in {"parse", "validation"} => DiagnosticFor(Top, next[Top])
    /\ err = "none" => \A m \in Tree : \A i \in Declared(m) :
         program.health[Imports(m)[i].path] = "warning" => DiagnosticFor(m, i)

(* The walk ends, cycles of imports included. *)
Termination == <>(pc = "done")

=============================================================================
