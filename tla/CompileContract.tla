-------------------------- MODULE CompileContract --------------------------
(***************************************************************************)
(* What LangSpecCompilerCompile promises its caller, without the order in  *)
(* which it works (dsl/api.go).  A call is answered once.  The lowered     *)
(* grammar is handed over exactly for the files whose stages before the    *)
(* lowering pass, and whatever the answer turns out to be afterwards; the  *)
(* file is accepted exactly when every stage passes.                       *)
(***************************************************************************)
CONSTANTS
  Calls,            \* the calls considered
  Readable(_),      \* the call's file and all that it imports can be used
  EarlyPasses(_),   \* no stage before the lowering fails the compilation
  LatePasses(_),    \* no stage after the lowering fails the compilation
  Crashes(_)        \* the call may panic instead of returning

VARIABLES call, lowered, answer

contractVars == <<call, lowered, answer>>

Init ==
  /\ call \in Calls
  /\ lowered = FALSE
  /\ answer = "none"

Sound == Readable(call) /\ EarlyPasses(call)

Lower ==
  /\ answer = "none"
  /\ ~lowered
  /\ Sound
  /\ lowered' = TRUE
  /\ UNCHANGED <<call, answer>>

Accept ==
  /\ answer = "none"
  /\ lowered
  /\ LatePasses(call)
  /\ answer' = "accepted"
  /\ UNCHANGED <<call, lowered>>

Reject ==
  /\ answer = "none"
  /\ \/ ~Sound
     \/ lowered /\ ~LatePasses(call)
  /\ answer' = "rejected"
  /\ UNCHANGED <<call, lowered>>

Crash ==
  /\ answer = "none"
  /\ Crashes(call)
  /\ answer' = "panic"
  /\ UNCHANGED <<call, lowered>>

Next == Lower \/ Accept \/ Reject \/ Crash

(* What never happens, and with it that the call is answered. *)
Safety == Init /\ [][Next]_contractVars
Spec == Safety /\ WF_contractVars(Next)
=============================================================================
