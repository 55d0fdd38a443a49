----------------------------- MODULE LexerStack -----------------------------
(***************************************************************************)
(* The stack of lexer modes, and what a lex rule's stack operation does to *)
(* it (editor/ir_lexer_reachability.go, which mirrors the lexarch lexer).  *)
(* The last mode is the top.  The first is the start state; no operation   *)
(* removes it.                                                             *)
(***************************************************************************)
EXTENDS Integers, Sequences

CONSTANT MaxModes   \* editorLexerMaxModesOnStack

Kinds == {"none", "push", "pop", "set"}

TopMode(stack) == stack[Len(stack)]

Frames(amount) == IF amount < 1 THEN 1 ELSE amount

PopFrames(stack, amount) ==
  LET k == Frames(amount)
  IN  IF Len(stack) - k < 1 THEN SubSeq(stack, 1, 1)
                            ELSE SubSeq(stack, 1, Len(stack) - k)

AfterRule(stack, rule) ==
  CASE rule.kind = "none" -> stack
    [] rule.kind = "push" -> stack \o rule.states
    [] rule.kind = "pop"  -> PopFrames(stack, rule.amount)
    [] rule.kind = "set"  -> IF rule.states = <<>> THEN stack
                             ELSE PopFrames(stack, 1) \o rule.states

(* Mutant: one mode more than the maximum. *)
TooDeepBeyond(stack) == Len(stack) > MaxModes + 1

TooDeep(stack) == Len(stack) > MaxModes
=============================================================================
