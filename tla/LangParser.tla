----------------------------- MODULE LangParser -----------------------------
(***************************************************************************)
(* The langspec runtime (api.go): one LangParser, the sessions of its      *)
(* clients, and calls of LangParserParseFile, LangParserLexFile,           *)
(* LangParserSession.Reset and LangParserDestroy.                          *)
(*                                                                         *)
(* Every call of a parser lexes through the one lexing session the parser  *)
(* caches; a client session only carries a source file and a use flag.     *)
(* A client's code runs in the middle of a call in three places, and may   *)
(* call the parser again: mapFn while the source is decoded, the           *)
(* nodePostProcessor while the parse consumes tokens, and the error hook   *)
(* after it.  Calls are numbered in the order they are made; at most       *)
(* MaxCalls are.                                                           *)
(*                                                                         *)
(* A file is a sequence of TokenCount tokens, the last of which is EOF.  A *)
(* token is told apart by its file and index only.  Reading from a lexer   *)
(* that was destroyed is undefined: the token may come, or Garbage, which  *)
(* stands for all that is not the token.                                   *)
(***************************************************************************)
EXTENDS Naturals, Sequences, FiniteSets

CONSTANTS
  MaxCalls,     \* bound: how many calls are made
  Sessions,     \* LangParserSessions
  Files,        \* source files
  TokenCount,   \* tokens in a file, EOF included
  Serial,       \* clients do not overlap their calls (callbacks may still nest)
  None          \* no file, no lexing session, no caller, no session

Calls == 1..MaxCalls

ASSUME LangParserAssumption ==
  /\ MaxCalls \in Nat
  /\ TokenCount \in Nat \ {0}
  /\ Serial \in BOOLEAN
  /\ None \notin Calls \cup Sessions \cup Files

VARIABLES
  pc,          \* where each call is
  kind,        \* what each call is
  caller,      \* the call whose callback made this one, or None
  from,        \* where that call was, or None; only recorded
  session,     \* the session a call was given; LangParserDestroy is given none
  source,      \* the file a call decoded
  lexing,      \* the lexing session a call was handed
  got,         \* the tokens a call has consumed
  sourceFile,  \* LangParserSession.sourceFile
  inUse,       \* LangParserSession.inUse
  cache,       \* LangParser.lexingSessionCache; named for the call that made it
  lexState,    \* what each lexing session is reading, and how far it is
  freed,       \* LexerDestroy was called
  destroyed    \* LangParser.destroyed

callVars == <<pc, kind, caller, from, session, source, lexing, got>>
parserVars == <<cache, lexState, freed, destroyed>>
sessionVars == <<sourceFile, inUse>>
vars == <<callVars, parserVars, sessionVars>>

Garbage == <<None, 0>>
Token == Files \X (0..(TokenCount - 1)) \cup {Garbage}

(* ParseFile holds its session between begin and the deferred end. *)
Guarded == {"input", "decode", "obtain", "create", "rewind", "consume", "hook", "end"}
Ended == {"idle", "done", "panicked"}
Labels == Guarded \cup Ended \cup {"alive", "load", "store", "check", "assign", "free", "mark"}

TypeOK ==
  /\ pc \in [Calls -> Labels]
  /\ kind \in [Calls -> {"parse", "lex", "reset", "destroy"}]
  /\ caller \in [Calls -> Calls \cup {None}]
  /\ from \in [Calls -> Labels \cup {None}]
  /\ session \in [Calls -> Sessions \cup {None}]
  /\ source \in [Calls -> Files \cup {None}]
  /\ lexing \in [Calls -> Calls \cup {None}]
  /\ got \in [Calls -> Seq(Token)]
  /\ sourceFile \in [Sessions -> Files]
  /\ inUse \in [Sessions -> BOOLEAN]
  /\ cache \in Calls \cup {None}
  /\ lexState \in [Calls -> [file : Files \cup {None}, at : 0..TokenCount]]
  /\ freed \in BOOLEAN
  /\ destroyed \in BOOLEAN
-----------------------------------------------------------------------------
Init ==
  /\ pc = [c \in Calls |-> "idle"]
  /\ kind = [c \in Calls |-> "parse"]
  /\ caller = [c \in Calls |-> None]
  /\ from = [c \in Calls |-> None]
  /\ session = [c \in Calls |-> None]
  /\ source = [c \in Calls |-> None]
  /\ lexing = [c \in Calls |-> None]
  /\ got = [c \in Calls |-> <<>>]
  /\ sourceFile \in [Sessions -> Files]
  /\ inUse = [s \in Sessions |-> FALSE]
  /\ cache = None
  /\ lexState = [c \in Calls |-> [file |-> None, at |-> 0]]
  /\ freed = FALSE
  /\ destroyed = FALSE

Live(c) == pc[c] \notin Ended

(* A call runs unless a call made from its callback has not returned. *)
Running(c) == Live(c) /\ \A d \in Calls : caller[d] = c => ~Live(d)

At(c, label) == pc[c] = label /\ Running(c)
Goto(c, label) == pc' = [pc EXCEPT ![c] = label]

(* A callback makes calls only while its own call is in it: mapFn, the     *)
(* nodePostProcessor of a parse, or the error hook.                        *)
MayBeMadeFrom(p) ==
  IF p = None THEN Serial => \A d \in Calls : ~Live(d)
              ELSE \/ At(p, "decode") \/ At(p, "hook")
                   \/ At(p, "consume") /\ kind[p] = "parse"

Entry == [parse |-> "alive", lex |-> "input", reset |-> "check", destroy |-> "free"]

Call(c, k, s, p) ==
  /\ pc[c] = "idle" /\ \A d \in 1..(c-1) : pc[d] # "idle"
  /\ MayBeMadeFrom(p)
  /\ k = "destroy" <=> s = None
  /\ Goto(c, Entry[k])
  /\ kind' = [kind EXCEPT ![c] = k]
  /\ session' = [session EXCEPT ![c] = s]
  /\ caller' = [caller EXCEPT ![c] = p]
  /\ from' = [from EXCEPT ![c] = IF p = None THEN None ELSE pc[p]]
  /\ UNCHANGED <<source, lexing, got, parserVars, sessionVars>>

(* Mutant: ParseFile does not check that the parser is alive. *)
AssumeAlive(c) ==
  /\ At(c, "alive")
  /\ Goto(c, "load")
  /\ UNCHANGED <<kind, caller, from, session, source, lexing, got, parserVars, sessionVars>>

EnsureAlive(c) ==
  /\ At(c, "alive")
  /\ Goto(c, IF destroyed THEN "panicked" ELSE "load")
  /\ UNCHANGED <<kind, caller, from, session, source, lexing, got, parserVars, sessionVars>>

(* Mutant: begin waits for the session instead of panicking. *)
BeginWait(c) ==
  /\ At(c, "load") /\ ~inUse[session[c]]
  /\ Goto(c, "store")
  /\ UNCHANGED <<kind, caller, from, session, source, lexing, got, parserVars, sessionVars>>

(* begin loads inUse and then stores it: two atomic operations. *)
BeginLoad(c) ==
  /\ At(c, "load")
  /\ Goto(c, IF inUse[session[c]] THEN "panicked" ELSE "store")
  /\ UNCHANGED <<kind, caller, from, session, source, lexing, got, parserVars, sessionVars>>

BeginStore(c) ==
  /\ At(c, "store")
  /\ inUse' = [inUse EXCEPT ![session[c]] = TRUE]
  /\ Goto(c, "input")
  /\ UNCHANGED <<kind, caller, from, session, source, lexing, got, parserVars, sourceFile>>

(* Mutant: the end of the session is not deferred, and errors skip it. *)
FinishWithoutEnd(c) == Goto(c, "done")

(* Where a call goes when it is over: ParseFile runs its deferred end. *)
Finish(c) == Goto(c, IF kind[c] = "parse" THEN "end" ELSE "done")

(* The file is absent or cannot be read, or mapFn fails or panics. *)
InputFails(c) ==
  /\ At(c, "input") \/ At(c, "decode")
  /\ Finish(c)
  /\ UNCHANGED <<kind, caller, from, session, source, lexing, got, parserVars, sessionVars>>

ReadInput(c) ==
  /\ At(c, "input")
  /\ source' = [source EXCEPT ![c] = sourceFile[session[c]]]
  /\ Goto(c, "decode")
  /\ UNCHANGED <<kind, caller, from, session, lexing, got, parserVars, sessionVars>>

(* mapFn, with the calls made from it, has returned. *)
InputDecoded(c) ==
  /\ At(c, "decode")
  /\ Goto(c, "obtain")
  /\ UNCHANGED <<kind, caller, from, session, source, lexing, got, parserVars, sessionVars>>

(* getLexerSession looks at the cache, then creates a lexing session and   *)
(* stores it, or rewinds the cached one to the new source.                 *)
LookAtCache(c) ==
  /\ At(c, "obtain")
  /\ Goto(c, IF cache = None THEN "create" ELSE "rewind")
  /\ UNCHANGED <<kind, caller, from, session, source, lexing, got, parserVars, sessionVars>>

Rewound(c, l) ==
  lexState' = [lexState EXCEPT ![l] = [file |-> source[c], at |-> 0]]

CreateLexing(c) ==
  /\ At(c, "create")
  /\ Rewound(c, c)
  /\ cache' = c
  /\ lexing' = [lexing EXCEPT ![c] = c]
  /\ Goto(c, "consume")
  /\ UNCHANGED <<kind, caller, from, session, source, got, freed, destroyed, sessionVars>>

(* Mutant: the cached lexing session is handed out as it was left. *)
ReuseLexing(c) ==
  /\ At(c, "rewind")
  /\ lexing' = [lexing EXCEPT ![c] = cache]
  /\ Goto(c, "consume")
  /\ UNCHANGED <<kind, caller, from, session, source, got, parserVars, sessionVars>>

RewindLexing(c) ==
  /\ At(c, "rewind")
  /\ Rewound(c, cache)
  /\ lexing' = [lexing EXCEPT ![c] = cache]
  /\ Goto(c, "consume")
  /\ UNCHANGED <<kind, caller, from, session, source, got, cache, freed, destroyed, sessionVars>>

Lexed(c) == lexState[lexing[c]]

MoreTokens(c) == Lexed(c).at < TokenCount

ConsumeToken(c) ==
  /\ At(c, "consume")
  /\ MoreTokens(c)
  /\ \E t \in {<<Lexed(c).file, Lexed(c).at>>, Garbage} :
       /\ t = Garbage => freed
       /\ got' = [got EXCEPT ![c] = Append(@, t)]
  /\ lexState' = [lexState EXCEPT ![lexing[c]].at = @ + 1]
  /\ UNCHANGED <<pc, kind, caller, from, session, source, lexing, cache, freed, destroyed, sessionVars>>

(* LexFile returns at EOF.  The parser may stop at any token, with syntax  *)
(* errors collected and its error hook still to run, or with an error; a   *)
(* panic of the nodePostProcessor or of a freed lexer ends a call as well. *)
StopLexing(c) ==
  /\ At(c, "consume")
  /\ kind[c] = "lex" => ~MoreTokens(c) \/ freed
  /\ \/ Finish(c)
     \/ kind[c] = "parse" /\ Goto(c, "hook")
  /\ UNCHANGED <<kind, caller, from, session, source, lexing, got, parserVars, sessionVars>>

LeaveHook(c) ==
  /\ At(c, "hook")
  /\ Goto(c, "end")
  /\ UNCHANGED <<kind, caller, from, session, source, lexing, got, parserVars, sessionVars>>

(* The deferred session.end, on a return and on a panic alike. *)
EndParse(c) ==
  /\ At(c, "end")
  /\ inUse' = [inUse EXCEPT ![session[c]] = FALSE]
  /\ Goto(c, "done")
  /\ UNCHANGED <<kind, caller, from, session, source, lexing, got, parserVars, sourceFile>>

ResetCheck(c) ==
  /\ At(c, "check")
  /\ Goto(c, IF inUse[session[c]] THEN "panicked" ELSE "assign")
  /\ UNCHANGED <<kind, caller, from, session, source, lexing, got, parserVars, sessionVars>>

ResetAssign(c) ==
  /\ At(c, "assign")
  /\ \E f \in Files : sourceFile' = [sourceFile EXCEPT ![session[c]] = f]
  /\ inUse' = [inUse EXCEPT ![session[c]] = FALSE]
  /\ Goto(c, "done")
  /\ UNCHANGED <<kind, caller, from, session, source, lexing, got, parserVars>>

FreeLexer(c) ==
  /\ At(c, "free")
  /\ freed' = TRUE
  /\ Goto(c, "mark")
  /\ UNCHANGED <<kind, caller, from, session, source, lexing, got, cache, lexState, destroyed, sessionVars>>

MarkDestroyed(c) ==
  /\ At(c, "mark")
  /\ destroyed' = TRUE
  /\ Goto(c, "done")
  /\ UNCHANGED <<kind, caller, from, session, source, lexing, got, cache, lexState, freed, sessionVars>>

Step(c) ==
  \/ EnsureAlive(c) \/ BeginLoad(c) \/ BeginStore(c)
  \/ InputFails(c) \/ ReadInput(c) \/ InputDecoded(c)
  \/ LookAtCache(c) \/ CreateLexing(c) \/ RewindLexing(c)
  \/ ConsumeToken(c) \/ StopLexing(c) \/ LeaveHook(c) \/ EndParse(c)
  \/ ResetCheck(c) \/ ResetAssign(c) \/ FreeLexer(c) \/ MarkDestroyed(c)

Next ==
  \/ \E c \in Calls : Step(c)
  \/ \E c \in Calls, k \in DOMAIN Entry, s \in Sessions \cup {None}, p \in Calls \cup {None} :
       Call(c, k, s, p)

(* A goroutine that is in a call is scheduled again; no call has to be made. *)
Spec == Init /\ [][Next]_vars /\ \A c \in Calls : WF_vars(Step(c))
-----------------------------------------------------------------------------
(* Nothing was parsed or lexed from the nodePostProcessor of call c. *)
Undisturbed(c) ==
  \A d \in Calls :
    caller[d] = c /\ from[d] = "consume" => kind[d] \notin {"parse", "lex"}

(* As long as the parser is not destroyed, each call sees the tokens of    *)
(* the file its own session named, in order and from the first, whatever   *)
(* calls came before it, however they ended, and whatever its callbacks    *)
(* parsed: "the LangParser is safe to re-use and use concurrently"         *)
(* (LangParserSession's comment).  The code keeps this only with the       *)
(* exception stated here: a call made from the nodePostProcessor rewinds   *)
(* the lexing session from which the outer parse still takes its tokens.   *)
OwnTokens ==
  ~freed =>
    \A c \in Calls :
      Undisturbed(c) => got[c] = [i \in 1..Len(got[c]) |-> <<source[c], i - 1>>]

(* A session's use flag is set exactly while one ParseFile call holds it:  *)
(* no exit of ParseFile, error or panic, leaves it set.                    *)
GuardExact ==
  \A s \in Sessions :
    /\ inUse[s] <=> \E c \in Calls : kind[c] = "parse" /\ session[c] = s /\ pc[c] \in Guarded
    /\ \A c, d \in Calls :
         /\ kind[c] = "parse" /\ session[c] = s /\ pc[c] \in Guarded
         /\ kind[d] = "parse" /\ session[d] = s /\ pc[d] \in Guarded
         => c = d

(* A parse that takes tokens was called before every destruction that has  *)
(* freed the lexer: ensureAlive refuses all later ones, also those made    *)
(* from the callbacks of a call under which the parser was destroyed.      *)
NoParseAfterFree ==
  [][\A c, d \in Calls :
       /\ kind[c] = "parse" /\ got'[c] # got[c]
       /\ kind[d] = "destroy" /\ pc[d] \in {"mark", "done"}
       => c < d]_vars

(* A call that was made ends: it returns or panics.                        *)
CallsEnd == \A c \in Calls : Live(c) ~> ~Live(c)
=============================================================================
