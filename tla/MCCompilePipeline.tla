------------------------- MODULE MCCompilePipeline -------------------------
(***************************************************************************)
(* The five stages of dsl/semantics/validation.go.  Files that are parsed  *)
(* and resolved meet every option with every finding below; the others,    *)
(* which no stage sees, meet every option with two.                        *)
(***************************************************************************)
EXTENDS CompilePipeline

MCStages == 0..4

(* Stages 0..2 report warnings and errors, stage 3 errors, stage 4 also the *)
(* fatal left recursion; for brevity two of the early ones report together. *)
MCFindings ==
  {[o \in MCStages |-> CASE o = 0 -> e [] o = 2 -> w [] o = 4 -> l [] OTHER -> {}] :
     e \in {{}, {Warning}, {Error}, {Warning, Error}},
     w \in {{}, {Warning}, {Error}},
     l \in {{}, {Warning}, {Error}, {Fatal}, {Warning, Fatal}}}

Silent == [o \in MCStages |-> {}]
Loud == [o \in MCStages |-> IF o = 1 THEN {Error} ELSE {}]

Cases(parses, walks, finds) ==
  [parse : parses, imports : walks, findings : finds, pragma : BOOLEAN,
   override : {"unset", "on", "off"}, sink : BOOLEAN, reporter : BOOLEAN,
   target : {"LangSpec", "other"}]

MCCalls ==
  Cases({"clean"}, {"none", "resolved"}, MCFindings)
    \cup Cases({"clean"}, {"duplicate", "duplicate later", "unparsed", "invalid"}, {Silent, Loud})
    \cup Cases({"absent", "unreadable", "syntax errors"}, {"none"}, {Silent, Loud})
=============================================================================
