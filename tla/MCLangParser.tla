---------------------------- MODULE MCLangParser ----------------------------
(***************************************************************************)
(* Three calls of one parser on two sessions and two files of two tokens:  *)
(* enough for a call that nests another from a callback, after or before a *)
(* third that fails half way, resets a session or destroys the parser.     *)
(***************************************************************************)
EXTENDS LangParser

CONSTANTS s1, s2, f1, f2

MCSessions == {s1, s2}
MCFiles == {f1, f2}
=============================================================================
