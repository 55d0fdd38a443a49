-------------------------- MODULE LangParserProofs --------------------------
(***************************************************************************)
(* Proofs about the langspec runtime, for any number of calls, sessions,   *)
(* files and tokens.  The state of the parser keeps its type however the   *)
(* calls interleave.  When clients do not overlap their calls (Serial; the *)
(* callbacks may still call the parser), the use flag of a session is      *)
(* exact, every call sees the tokens of its own file unless a call from    *)
(* its nodePostProcessor rewinds them, and no parse takes tokens that was  *)
(* called after the parser was destroyed.                                  *)
(*                                                                         *)
(* What makes the difference is Chain: the calls that have not returned    *)
(* are nested in one another, and all but the innermost wait in a          *)
(* callback.  So nothing else moves between the two steps of begin, and    *)
(* between the rewinding of the lexing session and the last token nothing  *)
(* but what was called from the nodePostProcessor in between.              *)
(***************************************************************************)
EXTENDS LangParser, TLAPS

Reading == {"decode", "obtain", "create", "rewind", "consume"}

Ready ==
  \A c \in Calls :
    /\ pc[c] # "idle" /\ kind[c] # "destroy" => session[c] \in Sessions
    /\ pc[c] \in Reading => source[c] \in Files
    /\ pc[c] = "rewind" => cache \in Calls
    /\ pc[c] = "consume" => lexing[c] \in Calls /\ lexState[lexing[c]].file \in Files

Sorted ==
  \A c \in Calls :
    /\ pc[c] \in {"alive", "load", "store", "hook", "end"} => kind[c] = "parse"
    /\ pc[c] \in {"input"} \cup Reading => kind[c] \in {"parse", "lex"}
    /\ pc[c] \in {"check", "assign"} => kind[c] = "reset"
    /\ pc[c] \in {"free", "mark"} => kind[c] = "destroy"

(* What is recorded of a nested call is where its caller still stands. *)
Origin ==
  \A c \in Calls :
    /\ pc[c] = "idle" => caller[c] = None
    /\ caller[c] \in Calls => pc[caller[c]] # "idle"
    /\ Live(c) /\ caller[c] \in Calls => from[c] = pc[caller[c]]

TypeInv == TypeOK /\ Ready /\ Sorted /\ Origin

LEMMA TypeInit == Init => TypeInv
<1> SUFFICES ASSUME Init PROVE TypeInv
  OBVIOUS
<1>1. TypeOK
  <2>1. lexState \in [Calls -> [file : Files \cup {None}, at : 0..TokenCount]]
    <3>1. 0 \in 0..TokenCount
      BY LangParserAssumption
    <3>2. [file |-> None, at |-> 0] \in [file : Files \cup {None}, at : 0..TokenCount]
      BY <3>1
    <3> QED
      BY <3>2 DEF Init
  <2>2. got \in [Calls -> Seq(Token)]
    <3>1. <<>> \in Seq(Token)
      OBVIOUS
    <3> QED
      BY <3>1 DEF Init
  <2>3. /\ pc \in [Calls -> Labels]
        /\ kind \in [Calls -> {"parse", "lex", "reset", "destroy"}]
    BY DEF Init, Labels, Ended
  <2>4. /\ caller \in [Calls -> Calls \cup {None}]
        /\ from \in [Calls -> Labels \cup {None}]
        /\ session \in [Calls -> Sessions \cup {None}]
        /\ source \in [Calls -> Files \cup {None}]
        /\ lexing \in [Calls -> Calls \cup {None}]
    BY DEF Init
  <2>5. /\ sourceFile \in [Sessions -> Files]
        /\ inUse \in [Sessions -> BOOLEAN]
        /\ cache \in Calls \cup {None}
        /\ freed \in BOOLEAN
        /\ destroyed \in BOOLEAN
    BY DEF Init
  <2> QED
    BY <2>1, <2>2, <2>3, <2>4, <2>5 DEF TypeOK
<1>2. Ready /\ Sorted /\ Origin
  BY LangParserAssumption DEF Init, Ready, Sorted, Reading, Origin, Live, Ended
<1> QED
  BY <1>1, <1>2 DEF TypeInv

(* A step belongs to a call that runs, and moves no other. *)
LEMMA StepFrame ==
  ASSUME TypeOK, NEW c \in Calls, Step(c)
  PROVE  /\ Running(c)
         /\ pc'[c] \in Labels \ {"idle"}
         /\ pc' = [pc EXCEPT ![c] = pc'[c]]
         /\ UNCHANGED <<kind, caller, from, session>>
<1> USE DEF Goto, At, TypeOK, Labels, Guarded, Ended
<1>1. CASE EnsureAlive(c) \/ BeginLoad(c) \/ BeginStore(c)
  BY <1>1 DEF EnsureAlive, BeginLoad, BeginStore
<1>2. CASE InputFails(c) \/ ReadInput(c) \/ InputDecoded(c)
  BY <1>2 DEF InputFails, ReadInput, InputDecoded, Finish
<1>3. CASE LookAtCache(c) \/ CreateLexing(c) \/ RewindLexing(c)
  BY <1>3 DEF LookAtCache, CreateLexing, RewindLexing
<1>4. CASE ConsumeToken(c) \/ StopLexing(c) \/ LeaveHook(c) \/ EndParse(c)
  BY <1>4 DEF ConsumeToken, StopLexing, LeaveHook, EndParse, Finish
<1>5. CASE ResetCheck(c) \/ ResetAssign(c) \/ FreeLexer(c) \/ MarkDestroyed(c)
  BY <1>5 DEF ResetCheck, ResetAssign, FreeLexer, MarkDestroyed
<1> QED
  BY <1>1, <1>2, <1>3, <1>4, <1>5 DEF Step

(* The steps that touch neither the tokens nor the lexing sessions. *)
Quiet(c) ==
  \/ EnsureAlive(c) \/ BeginLoad(c) \/ BeginStore(c)
  \/ InputFails(c) \/ InputDecoded(c) \/ LookAtCache(c)
  \/ StopLexing(c) \/ LeaveHook(c) \/ EndParse(c)
  \/ ResetCheck(c) \/ ResetAssign(c) \/ FreeLexer(c) \/ MarkDestroyed(c)

LEMMA QuietFrame ==
  ASSUME TypeInv, NEW c \in Calls, Quiet(c)
  PROVE  /\ UNCHANGED <<source, lexing, got, cache, lexState>>
         /\ sourceFile' \in [Sessions -> Files]
         /\ inUse' \in [Sessions -> BOOLEAN]
         /\ freed' \in BOOLEAN
         /\ destroyed' \in BOOLEAN
<1> USE DEF TypeInv, TypeOK, sessionVars, parserVars
<1>1. CASE EnsureAlive(c) \/ BeginLoad(c) \/ BeginStore(c)
  BY <1>1 DEF EnsureAlive, BeginLoad, BeginStore
<1>2. CASE InputFails(c) \/ InputDecoded(c) \/ LookAtCache(c)
  BY <1>2 DEF InputFails, InputDecoded, LookAtCache
<1>3. CASE StopLexing(c) \/ LeaveHook(c) \/ EndParse(c)
  BY <1>3 DEF StopLexing, LeaveHook, EndParse
<1>4. CASE ResetCheck(c)
  BY <1>4 DEF ResetCheck
<1>5. CASE ResetAssign(c)
  BY <1>5 DEF ResetAssign
<1>6. CASE FreeLexer(c) \/ MarkDestroyed(c)
  BY <1>6 DEF FreeLexer, MarkDestroyed
<1> QED
  BY <1>1, <1>2, <1>3, <1>4, <1>5, <1>6 DEF Quiet

LEMMA StepCases ==
  ASSUME NEW c \in Calls, Step(c)
  PROVE  Quiet(c) \/ ReadInput(c) \/ CreateLexing(c) \/ RewindLexing(c) \/ ConsumeToken(c)
  BY DEF Step, Quiet

(* The lexing session a call is handed starts at the first token of its file. *)
LEMMA RewoundType ==
  ASSUME TypeOK, NEW c \in Calls, NEW l \in Calls, source[c] \in Files, Rewound(c, l)
  PROVE  /\ lexState' \in [Calls -> [file : Files \cup {None}, at : 0..TokenCount]]
         /\ lexState'[l] = [file |-> source[c], at |-> 0]
         /\ \A k \in Calls : lexState[k].file \in Files => lexState'[k].file \in Files
<1>1. 0 \in 0..TokenCount
  BY LangParserAssumption
<1>2. [file |-> source[c], at |-> 0] \in [file : Files \cup {None}, at : 0..TokenCount]
  BY <1>1
<1> QED
  BY <1>2 DEF Rewound, TypeOK

LEMMA NextPlace ==
  ASSUME NEW F, NEW A, NEW r \in [file : F, at : A], NEW n
  PROVE  [r EXCEPT !.at = n] = [file |-> r.file, at |-> n]
  OBVIOUS

LEMMA ConsumedType ==
  ASSUME TypeInv, NEW c \in Calls, ConsumeToken(c)
  PROVE  /\ lexing[c] \in Calls
         /\ lexState[lexing[c]].file \in Files
         /\ lexState[lexing[c]].at \in 0..(TokenCount - 1)
         /\ lexState' = [lexState EXCEPT ![lexing[c]] =
                            [file |-> lexState[lexing[c]].file, at |-> lexState[lexing[c]].at + 1]]
         /\ lexState' \in [Calls -> [file : Files \cup {None}, at : 0..TokenCount]]
         /\ got' \in [Calls -> Seq(Token)]
<1> DEFINE l == lexing[c]
<1>1. l \in Calls /\ lexState[l].file \in Files
  BY DEF TypeInv, Ready, ConsumeToken, At
<1>2. lexState[l].at \in 0..(TokenCount - 1) /\ lexState[l].at + 1 \in 0..TokenCount
  <2>1. lexState[l].at \in 0..TokenCount /\ lexState[l].at < TokenCount
    BY <1>1 DEF TypeInv, TypeOK, ConsumeToken, MoreTokens, Lexed
  <2> QED
    BY <2>1, LangParserAssumption
<1>3. lexState' = [lexState EXCEPT ![l] = [file |-> lexState[l].file, at |-> lexState[l].at + 1]]
  <2>1. lexState' = [lexState EXCEPT ![l].at = lexState[l].at + 1]
    BY DEF ConsumeToken
  <2>2. lexState[l] \in [file : Files \cup {None}, at : 0..TokenCount]
    BY <1>1 DEF TypeInv, TypeOK
  <2>3. [lexState[l] EXCEPT !.at = lexState[l].at + 1]
          = [file |-> lexState[l].file, at |-> lexState[l].at + 1]
    BY <2>2, NextPlace
  <2> QED
    BY <2>1, <2>3, Zenon
<1>4. [file |-> lexState[l].file, at |-> lexState[l].at + 1] \in [file : Files \cup {None}, at : 0..TokenCount]
  BY <1>1, <1>2
<1>5. lexState' \in [Calls -> [file : Files \cup {None}, at : 0..TokenCount]]
  BY <1>1, <1>3, <1>4 DEF TypeInv, TypeOK
<1>6. /\ <<lexState[l].file, lexState[l].at>> \in Token
      /\ Garbage \in Token
  BY <1>1, <1>2 DEF Token
<1>7. \A t \in Token : Append(got[c], t) \in Seq(Token)
  BY DEF TypeInv, TypeOK
<1>8. got' \in [Calls -> Seq(Token)]
  <2>1. PICK t \in {<<lexState[l].file, lexState[l].at>>, Garbage} :
          got' = [got EXCEPT ![c] = Append(got[c], t)]
    BY DEF ConsumeToken, Lexed
  <2>2. Append(got[c], t) \in Seq(Token)
    BY <1>6, <1>7, <2>1
  <2> QED
    BY <2>1, <2>2 DEF TypeInv, TypeOK
<1> QED
  BY <1>1, <1>2, <1>3, <1>5, <1>8

LEMMA TypeOKStep ==
  ASSUME TypeInv, NEW c \in Calls, Step(c)
  PROVE  TypeOK'
<1>1. /\ pc' \in [Calls -> Labels]
      /\ UNCHANGED <<kind, caller, from, session>>
  BY StepFrame DEF TypeInv, TypeOK
<1>2. CASE Quiet(c)
  BY <1>1, <1>2, QuietFrame DEF TypeInv, TypeOK
<1>3. CASE ReadInput(c)
  <2>1. session[c] \in Sessions
    BY <1>3 DEF ReadInput, At, TypeInv, Ready, Sorted
  <2> QED
    BY <1>1, <1>3, <2>1 DEF ReadInput, TypeInv, TypeOK, sessionVars, parserVars
<1>4. CASE CreateLexing(c)
  <2>1. source[c] \in Files
    BY <1>4 DEF CreateLexing, At, TypeInv, Ready, Reading
  <2>2. lexState' \in [Calls -> [file : Files \cup {None}, at : 0..TokenCount]]
    BY <1>4, <2>1, RewoundType DEF CreateLexing, TypeInv
  <2> QED
    BY <1>1, <1>4, <2>2 DEF CreateLexing, TypeInv, TypeOK, sessionVars
<1>5. CASE RewindLexing(c)
  <2>1. source[c] \in Files /\ cache \in Calls
    BY <1>5 DEF RewindLexing, At, TypeInv, Ready, Reading
  <2>2. lexState' \in [Calls -> [file : Files \cup {None}, at : 0..TokenCount]]
    BY <1>5, <2>1, RewoundType DEF RewindLexing, TypeInv
  <2> QED
    BY <1>1, <1>5, <2>1, <2>2 DEF RewindLexing, TypeInv, TypeOK, sessionVars
<1>6. CASE ConsumeToken(c)
  BY <1>1, <1>6, ConsumedType DEF ConsumeToken, TypeInv, TypeOK, sessionVars
<1> QED
  BY <1>2, <1>3, <1>4, <1>5, <1>6, StepCases

LEMMA SortedStep ==
  ASSUME TypeInv, NEW c \in Calls, Step(c)
  PROVE  Sorted'
<1> SUFFICES ASSUME NEW d \in Calls
    PROVE /\ pc'[d] \in {"alive", "load", "store", "hook", "end"} => kind[d] = "parse"
          /\ pc'[d] \in {"input"} \cup Reading => kind[d] \in {"parse", "lex"}
          /\ pc'[d] \in {"check", "assign"} => kind[d] = "reset"
          /\ pc'[d] \in {"free", "mark"} => kind[d] = "destroy"
  BY StepFrame DEF Sorted, TypeInv
<1>1. CASE d # c
  BY <1>1, StepFrame DEF Sorted, TypeInv, TypeOK
<1>2. CASE d = c
  <2> USE <1>2 DEF Goto, At, TypeInv, TypeOK, Sorted, Reading
  <2>1. CASE EnsureAlive(c) \/ BeginLoad(c) \/ BeginStore(c)
    BY <2>1 DEF EnsureAlive, BeginLoad, BeginStore
  <2>2. CASE InputFails(c) \/ ReadInput(c) \/ InputDecoded(c)
    BY <2>2 DEF InputFails, ReadInput, InputDecoded, Finish
  <2>3. CASE LookAtCache(c) \/ CreateLexing(c) \/ RewindLexing(c)
    BY <2>3 DEF LookAtCache, CreateLexing, RewindLexing
  <2>4. CASE ConsumeToken(c) \/ StopLexing(c) \/ LeaveHook(c) \/ EndParse(c)
    BY <2>4 DEF ConsumeToken, StopLexing, LeaveHook, EndParse, Finish
  <2>5. CASE ResetCheck(c) \/ ResetAssign(c) \/ FreeLexer(c) \/ MarkDestroyed(c)
    BY <2>5 DEF ResetCheck, ResetAssign, FreeLexer, MarkDestroyed
  <2> QED
    BY <2>1, <2>2, <2>3, <2>4, <2>5 DEF Step
<1> QED
  BY <1>1, <1>2

(* How a quiet step of a call comes to a place where the source is read. *)
LEMMA QuietPlaces ==
  ASSUME TypeInv, NEW c \in Calls, Quiet(c)
  PROVE  /\ pc'[c] \in Reading => pc[c] \in Reading
         /\ pc'[c] = "rewind" => cache \in Calls
         /\ pc'[c] # "consume"
<1> USE DEF Goto, At, TypeInv, TypeOK, Reading
<1>1. CASE EnsureAlive(c) \/ BeginLoad(c) \/ BeginStore(c)
  BY <1>1 DEF EnsureAlive, BeginLoad, BeginStore
<1>2. CASE InputFails(c) \/ InputDecoded(c) \/ LookAtCache(c)
  BY <1>2 DEF InputFails, InputDecoded, LookAtCache, Finish
<1>3. CASE StopLexing(c) \/ LeaveHook(c) \/ EndParse(c)
  BY <1>3 DEF StopLexing, LeaveHook, EndParse, Finish
<1>4. CASE ResetCheck(c) \/ ResetAssign(c) \/ FreeLexer(c) \/ MarkDestroyed(c)
  BY <1>4 DEF ResetCheck, ResetAssign, FreeLexer, MarkDestroyed
<1> QED
  BY <1>1, <1>2, <1>3, <1>4 DEF Quiet

LEMMA ReadyStep ==
  ASSUME TypeInv, NEW c \in Calls, Step(c)
  PROVE  Ready'
<1> SUFFICES ASSUME NEW d \in Calls
    PROVE /\ pc'[d] # "idle" /\ kind'[d] # "destroy" => session'[d] \in Sessions
          /\ pc'[d] \in Reading => source'[d] \in Files
          /\ pc'[d] = "rewind" => cache' \in Calls
          /\ pc'[d] = "consume" => lexing'[d] \in Calls /\ lexState'[lexing'[d]].file \in Files
  BY DEF Ready
<1>0. /\ Running(c)
      /\ pc' = [pc EXCEPT ![c] = pc'[c]]
      /\ session' = session /\ kind' = kind
      /\ d # c => pc'[d] = pc[d]
      /\ pc[c] # "idle"
  BY StepFrame DEF TypeInv, TypeOK, Running, Live, Ended
<1>1. pc'[d] # "idle" /\ kind'[d] # "destroy" => session'[d] \in Sessions
  BY <1>0 DEF TypeInv, Ready
<1>2. CASE Quiet(c)
  BY <1>0, <1>1, <1>2, QuietFrame, QuietPlaces DEF TypeInv, Ready
<1>3. CASE ReadInput(c)
  <2>1. /\ pc'[c] = "decode"
        /\ source' = [source EXCEPT ![c] = sourceFile[session[c]]]
        /\ UNCHANGED <<lexing, cache, lexState>>
        /\ session[c] \in Sessions
    BY <1>0, <1>3 DEF ReadInput, At, Goto, TypeInv, TypeOK, Ready, Sorted, parserVars
  <2> QED
    BY <1>0, <1>1, <2>1 DEF TypeInv, TypeOK, Ready
<1>4. CASE CreateLexing(c)
  <2>1. source[c] \in Files /\ pc[c] = "create"
    BY <1>4 DEF CreateLexing, At, TypeInv, Ready, Reading
  <2>2. /\ lexState'[c] = [file |-> source[c], at |-> 0]
        /\ \A k \in Calls : lexState[k].file \in Files => lexState'[k].file \in Files
    BY <1>4, <2>1, RewoundType DEF CreateLexing, TypeInv
  <2>3. /\ pc'[c] = "consume"
        /\ lexing' = [lexing EXCEPT ![c] = c]
        /\ cache' = c
        /\ source' = source
    BY <1>4 DEF CreateLexing, Goto, TypeInv, TypeOK
  <2>4. CASE d = c
    BY <2>1, <2>2, <2>3, <2>4, <1>1 DEF TypeInv, TypeOK
  <2>5. CASE d # c
    BY <1>0, <1>1, <2>2, <2>3, <2>5 DEF TypeInv, TypeOK, Ready
  <2> QED
    BY <2>4, <2>5
<1>5. CASE RewindLexing(c)
  <2>1. source[c] \in Files /\ pc[c] = "rewind" /\ cache \in Calls
    BY <1>5 DEF RewindLexing, At, TypeInv, Ready, Reading
  <2>2. /\ lexState'[cache] = [file |-> source[c], at |-> 0]
        /\ \A k \in Calls : lexState[k].file \in Files => lexState'[k].file \in Files
    BY <1>5, <2>1, RewoundType DEF RewindLexing, TypeInv
  <2>3. /\ pc'[c] = "consume"
        /\ lexing' = [lexing EXCEPT ![c] = cache]
        /\ cache' = cache
        /\ source' = source
    BY <1>5 DEF RewindLexing, Goto, TypeInv, TypeOK
  <2>4. CASE d = c
    BY <2>1, <2>2, <2>3, <2>4, <1>1 DEF TypeInv, TypeOK
  <2>5. CASE d # c
    BY <1>0, <1>1, <2>2, <2>3, <2>5 DEF TypeInv, TypeOK, Ready
  <2> QED
    BY <2>4, <2>5
<1>6. CASE ConsumeToken(c)
  <2>1. /\ pc' = pc
        /\ UNCHANGED <<source, lexing, cache>>
    BY <1>6 DEF ConsumeToken
  <2>2. \A k \in Calls : lexState[k].file \in Files => lexState'[k].file \in Files
    <3>1. /\ lexing[c] \in Calls
          /\ lexState[lexing[c]].file \in Files
          /\ lexState' = [lexState EXCEPT ![lexing[c]] =
                            [file |-> lexState[lexing[c]].file, at |-> lexState[lexing[c]].at + 1]]
      BY <1>6, ConsumedType
    <3>2. lexState'[lexing[c]].file = lexState[lexing[c]].file
      BY <3>1 DEF TypeInv, TypeOK
    <3>3. \A k \in Calls \ {lexing[c]} : lexState'[k] = lexState[k]
      BY <3>1 DEF TypeInv, TypeOK
    <3> QED
      BY <3>1, <3>2, <3>3
  <2> QED
    BY <1>1, <2>1, <2>2 DEF TypeInv, Ready
<1> QED
  BY <1>2, <1>3, <1>4, <1>5, <1>6, StepCases

LEMMA OriginStep ==
  ASSUME TypeInv, NEW c \in Calls, Step(c)
  PROVE  Origin'
<1>1. /\ Running(c)
      /\ pc'[c] # "idle"
      /\ UNCHANGED <<caller, from>>
      /\ \A d \in Calls \ {c} : pc'[d] = pc[d]
  BY StepFrame DEF TypeInv, TypeOK
<1> SUFFICES ASSUME NEW d \in Calls
    PROVE /\ pc'[d] = "idle" => caller'[d] = None
          /\ caller'[d] \in Calls => pc'[caller'[d]] # "idle"
          /\ Live(d)' /\ caller'[d] \in Calls => from'[d] = pc'[caller'[d]]
  BY DEF Origin
<1>2. Live(d)' => Live(d)
  BY <1>1 DEF Running, Live
<1>3. Live(d) => caller[d] # c
  BY <1>1 DEF Running
<1> QED
  BY <1>1, <1>2, <1>3 DEF TypeInv, Origin

LEMMA TypeCall ==
  ASSUME TypeInv, NEW c \in Calls, NEW k \in DOMAIN Entry, NEW s \in Sessions \cup {None},
         NEW p \in Calls \cup {None}, Call(c, k, s, p)
  PROVE  TypeInv'
<1>1. k \in {"parse", "lex", "reset", "destroy"}
  BY DEF Entry
<1>2. /\ pc[c] = "idle" /\ MayBeMadeFrom(p)
      /\ k # "destroy" => s \in Sessions
      /\ pc' = [pc EXCEPT ![c] = Entry[k]]
      /\ kind' = [kind EXCEPT ![c] = k]
      /\ session' = [session EXCEPT ![c] = s]
      /\ caller' = [caller EXCEPT ![c] = p]
      /\ from' = [from EXCEPT ![c] = IF p = None THEN None ELSE pc[p]]
      /\ UNCHANGED <<source, lexing, got, cache, lexState, freed, destroyed, sourceFile, inUse>>
  BY DEF Call, Goto, parserVars, sessionVars
<1>3. /\ k = "parse" => Entry[k] = "alive"
      /\ k = "lex" => Entry[k] = "input"
      /\ k = "reset" => Entry[k] = "check"
      /\ k = "destroy" => Entry[k] = "free"
  BY DEF Entry
<1>4. (IF p = None THEN None ELSE pc[p]) \in Labels \cup {None}
  BY DEF TypeInv, TypeOK
<1>5. TypeOK'
  BY <1>1, <1>2, <1>3, <1>4 DEF TypeInv, TypeOK, Labels, Guarded
<1>6. Ready'
  BY <1>1, <1>2, <1>3 DEF TypeInv, TypeOK, Ready, Reading
<1>7. Sorted'
  BY <1>1, <1>2, <1>3 DEF TypeInv, TypeOK, Sorted, Reading
<1>8. Origin'
  <2> SUFFICES ASSUME NEW d \in Calls
      PROVE /\ pc'[d] = "idle" => caller'[d] = None
            /\ caller'[d] \in Calls => pc'[caller'[d]] # "idle"
            /\ Live(d)' /\ caller'[d] \in Calls => from'[d] = pc'[caller'[d]]
    BY DEF Origin
  <2>1. \A e \in Calls \ {c} : pc'[e] = pc[e] /\ caller'[e] = caller[e] /\ from'[e] = from[e]
    BY <1>2 DEF TypeInv, TypeOK
  <2>2. CASE d # c
    <3>1. caller[d] \in Calls => caller[d] # c
      BY <1>2 DEF TypeInv, Origin
    <3> QED
      BY <2>1, <2>2, <3>1 DEF TypeInv, Origin, Live
  <2>3. CASE d = c
    <3>1. /\ pc'[c] # "idle" /\ caller'[c] = p
          /\ from'[c] = IF p = None THEN None ELSE pc[p]
      BY <1>1, <1>2, <1>3 DEF TypeInv, TypeOK
    <3>2. p \in Calls => p # c /\ p # None /\ pc[p] # "idle"
      BY <1>2, LangParserAssumption DEF MayBeMadeFrom, At
    <3> QED
      BY <2>1, <2>3, <3>1, <3>2
  <2> QED
    BY <2>2, <2>3
<1> QED
  BY <1>5, <1>6, <1>7, <1>8 DEF TypeInv

LEMMA TypeNext == TypeInv /\ [Next]_vars => TypeInv'
<1> SUFFICES ASSUME TypeInv, [Next]_vars PROVE TypeInv'
  OBVIOUS
<1>1. CASE \E c \in Calls : Step(c)
  BY <1>1, TypeOKStep, ReadyStep, SortedStep, OriginStep DEF TypeInv
<1>2. CASE \E c \in Calls, k \in DOMAIN Entry, s \in Sessions \cup {None}, p \in Calls \cup {None} : Call(c, k, s, p)
  BY <1>2, TypeCall
<1>3. CASE UNCHANGED vars
  BY <1>3 DEF vars, callVars, parserVars, sessionVars, TypeInv, TypeOK, Ready, Sorted, Origin, Live
<1> QED
  BY <1>1, <1>2, <1>3 DEF Next

LEMMA TypeInvariant == Spec => []TypeInv
  BY TypeInit, TypeNext, PTL DEF Spec

(* However the calls interleave, callers that overlap included, the state  *)
(* of the parser, its lexing sessions and the sessions keeps its type: a   *)
(* call that reads has a file, a lexing session and a position in it.      *)
THEOREM TypeCorrect == Spec => []TypeOK
<1>1. TypeInv => TypeOK
  BY DEF TypeInv
<1> QED
  BY <1>1, TypeInvariant, PTL
-----------------------------------------------------------------------------
(* Clients that do not overlap their calls. *)

Waiting == {"decode", "consume", "hook"}

(* The calls that have not returned are nested: each but the innermost     *)
(* waits for one that was made from its callback.                          *)
Chain ==
  \A c, d \in Calls :
    Live(c) /\ Live(d) /\ c < d =>
      /\ pc[c] \in Waiting
      /\ \E e \in Calls : c < e /\ e <= d /\ Live(e) /\ caller[e] = c

(* Calls are made in the order of their numbers. *)
Numbered == \A c, d \in Calls : c < d /\ pc[c] = "idle" => pc[d] = "idle"

LEMMA CallNumbers == Calls \subseteq Nat
  BY LangParserAssumption DEF Calls

LEMMA Alone ==
  ASSUME Chain, NEW c \in Calls, Running(c), NEW d \in Calls, Live(d), d # c
  PROVE  d < c /\ pc[d] \in Waiting
<1>1. ~(c < d)
  BY DEF Chain, Running
<1>2. d < c
  BY <1>1, CallNumbers
<1> QED
  BY <1>2 DEF Chain, Running

LEMMA ChainInit == Init => Chain /\ Numbered
  BY DEF Init, Chain, Live, Ended, Numbered

LEMMA NumberedStep ==
  ASSUME TypeInv, Numbered, NEW c \in Calls, Step(c)
  PROVE  Numbered'
<1>1. /\ pc[c] # "idle" /\ pc'[c] # "idle"
      /\ \A d \in Calls \ {c} : pc'[d] = pc[d]
  BY StepFrame DEF TypeInv, TypeOK, Running, Live, Ended
<1> QED
  BY <1>1 DEF Numbered

(* Only the innermost call moves; if it ends, nobody else waited for it. *)
LEMMA ChainStep ==
  ASSUME TypeInv, Chain, NEW c \in Calls, Step(c)
  PROVE  Chain'
<1>1. /\ Running(c) /\ Live(c)
      /\ UNCHANGED <<kind, caller>>
      /\ \A d \in Calls \ {c} : pc'[d] = pc[d]
  BY StepFrame DEF TypeInv, TypeOK, Running
<1> SUFFICES ASSUME NEW a \in Calls, NEW b \in Calls, Live(a)', Live(b)', a < b
    PROVE /\ pc'[a] \in Waiting
          /\ \E e \in Calls : a < e /\ e <= b /\ Live(e)' /\ caller'[e] = a
  BY DEF Chain
<1>2. Live(a) /\ Live(b)
  BY <1>1 DEF Live
<1>3. a # c
  <2> SUFFICES ASSUME a = c PROVE FALSE
    OBVIOUS
  <2>1. b # c /\ ~(b < c)
    BY CallNumbers
  <2> QED
    BY <2>1, <1>1, <1>2, Alone
<1>4. PICK e \in Calls : a < e /\ e <= b /\ Live(e) /\ caller[e] = a
  BY <1>2 DEF Chain
<1>5. Live(e)'
  <2>1. CASE e = c
    <3>1. c <= b /\ ~(b < c)
      BY <1>4, <2>1, CallNumbers
    <3>2. b = c
      BY <3>1, <1>1, <1>2, Alone
    <3> QED
      BY <2>1, <3>2
  <2>2. CASE e # c
    BY <1>1, <1>4, <2>2 DEF Live
  <2> QED
    BY <2>1, <2>2
<1> QED
  BY <1>1, <1>2, <1>3, <1>4, <1>5 DEF Chain

(* A client calls when nothing is under way; a callback calls while its    *)
(* own call is the innermost.                                              *)
LEMMA ChainCall ==
  ASSUME TypeInv, Chain, Numbered, Serial, NEW c \in Calls, NEW k \in DOMAIN Entry, NEW s \in Sessions \cup {None},
         NEW p \in Calls \cup {None}, Call(c, k, s, p)
  PROVE  Chain'
<1>1. /\ pc[c] = "idle" /\ \A d \in 1..(c - 1) : pc[d] # "idle"
      /\ MayBeMadeFrom(p)
      /\ pc' = [pc EXCEPT ![c] = Entry[k]]
      /\ kind' = [kind EXCEPT ![c] = k]
      /\ caller' = [caller EXCEPT ![c] = p]
  BY DEF Call, Goto
<1>2. \A d \in Calls \ {c} : pc'[d] = pc[d] /\ kind'[d] = kind[d] /\ caller'[d] = caller[d]
  BY <1>1 DEF TypeInv, TypeOK
<1>3. kind'[c] = k /\ caller'[c] = p
  BY <1>1 DEF TypeInv, TypeOK
<1>4. ~Live(c)
  BY <1>1 DEF Live, Ended
<1>5. CASE \A d \in Calls : ~Live(d)
  BY <1>2, <1>5, CallNumbers DEF Chain, Live
<1>6. CASE p \in Calls /\ Running(p) /\ pc[p] \in Waiting
  <2>1. Live(p) /\ p # c /\ pc[p] # "idle"
    BY <1>4, <1>6 DEF Running, Live, Ended
  <2>2. p < c
    BY <1>1, <1>6, <2>1, CallNumbers DEF Numbered
  <2> SUFFICES ASSUME NEW a \in Calls, NEW b \in Calls, Live(a)', Live(b)', a < b
      PROVE /\ pc'[a] \in Waiting
            /\ \E e \in Calls : a < e /\ e <= b /\ Live(e)' /\ caller'[e] = a
    BY DEF Chain
  <2>4. \A d \in Calls : Live(d) => d <= p /\ Live(d)' /\ d # c
    BY <1>2, <1>4, <1>6, Alone, CallNumbers DEF Live
  <2>5. \A d \in Calls : Live(d)' => Live(d) \/ d = c
    BY <1>2 DEF Live
  <2>6. a # c
    BY <2>2, <2>4, <2>5, CallNumbers
  <2>7. Live(a)
    BY <2>5, <2>6
  <2>8. CASE b # c
    <3>1. Live(b)
      BY <2>5, <2>8
    <3>2. PICK e \in Calls : a < e /\ e <= b /\ Live(e) /\ caller[e] = a
      BY <2>7, <3>1 DEF Chain
    <3>3. Live(e)' /\ caller'[e] = a
      BY <3>2, <2>4, <1>2
    <3>4. pc'[a] \in Waiting
      BY <1>2, <2>6, <2>7, <3>1 DEF Chain
    <3> QED
      BY <3>2, <3>3, <3>4
  <2>9. CASE b = c /\ a = p
    BY <1>2, <1>3, <1>6, <2>2, <2>4, <2>6, <2>9, CallNumbers
  <2>10. CASE b = c /\ a # p
    <3>1. a < p
      BY <2>4, <2>7, <2>10, CallNumbers
    <3>2. PICK e \in Calls : a < e /\ e <= p /\ Live(e) /\ caller[e] = a
      BY <2>1, <1>6, <2>7, <3>1 DEF Chain
    <3>3. Live(e)' /\ caller'[e] = a /\ e <= b
      <4>1. Live(e)' /\ e # c
        BY <3>2, <2>4
      <4>2. caller'[e] = a
        BY <3>2, <4>1, <1>2
      <4>3. e <= b
        BY <3>2, <2>2, <2>10, <1>6, CallNumbers
      <4> QED
        BY <4>1, <4>2, <4>3
    <3>4. pc'[a] \in Waiting
      BY <1>2, <1>6, <2>1, <2>6, <2>7, <3>1 DEF Chain
    <3> QED
      BY <3>2, <3>3, <3>4
  <2> QED
    BY <2>8, <2>9, <2>10
<1> QED
  BY <1>1, <1>5, <1>6 DEF MayBeMadeFrom, At, Waiting

LEMMA NumberedCall ==
  ASSUME TypeInv, Numbered, NEW c \in Calls, NEW k \in DOMAIN Entry, NEW s \in Sessions \cup {None},
         NEW p \in Calls \cup {None}, Call(c, k, s, p)
  PROVE  Numbered'
<1>1. /\ \A d \in 1..(c - 1) : pc[d] # "idle"
      /\ pc' = [pc EXCEPT ![c] = Entry[k]]
  BY DEF Call, Goto
<1>2. \A d \in Calls \ {c} : pc'[d] = pc[d]
  BY <1>1 DEF TypeInv, TypeOK
<1>3. Entry[k] # "idle" /\ pc'[c] = Entry[k]
  BY <1>1 DEF Entry, TypeInv, TypeOK
<1>4. \A d \in Calls : d < c => pc[d] # "idle"
  BY <1>1, CallNumbers, LangParserAssumption DEF Calls
<1> QED
  BY <1>2, <1>3, <1>4 DEF Numbered
-----------------------------------------------------------------------------
(* The use flag.  Nobody else moves between the look at it and the store.  *)

Holds(c, s) == kind[c] = "parse" /\ session[c] = s /\ pc[c] \in Guarded

Flag(s) ==
  /\ inUse[s] <=> \E c \in Calls : Holds(c, s)
  /\ \A c, d \in Calls : Holds(c, s) /\ Holds(d, s) => c = d

Looked == \A c \in Calls : pc[c] \in {"store", "assign"} => ~inUse[session[c]]

Held == Looked /\ \A s \in Sessions : Flag(s)

LEMMA HeldGuard == (\A s \in Sessions : Flag(s)) <=> GuardExact
  BY DEF GuardExact, Flag, Holds

LEMMA HeldInit == Init => Held
  BY DEF Init, Held, Looked, Flag, Holds, Guarded

(* All steps but the two that move the flag keep it, and who holds it. *)
LEMMA FlagFrame ==
  ASSUME TypeInv, Looked, NEW c \in Calls, Step(c), ~BeginStore(c), ~EndParse(c)
  PROVE  /\ inUse' = inUse
         /\ kind[c] = "parse" => (pc'[c] \in Guarded <=> pc[c] \in Guarded)
         /\ pc'[c] \in {"store", "assign"} => ~inUse[session[c]]
<1> USE DEF Goto, At, TypeInv, TypeOK, Sorted, Reading, Guarded, sessionVars
<1>1. CASE EnsureAlive(c) \/ BeginLoad(c)
  BY <1>1 DEF EnsureAlive, BeginLoad
<1>2. CASE InputFails(c) \/ ReadInput(c) \/ InputDecoded(c)
  BY <1>2 DEF InputFails, ReadInput, InputDecoded, Finish
<1>3. CASE LookAtCache(c) \/ CreateLexing(c) \/ RewindLexing(c)
  BY <1>3 DEF LookAtCache, CreateLexing, RewindLexing
<1>4. CASE ConsumeToken(c) \/ StopLexing(c) \/ LeaveHook(c)
  BY <1>4 DEF ConsumeToken, StopLexing, LeaveHook, Finish
<1>5. CASE ResetCheck(c) \/ FreeLexer(c) \/ MarkDestroyed(c)
  BY <1>5 DEF ResetCheck, FreeLexer, MarkDestroyed
<1>6. CASE ResetAssign(c)
  <2>1. /\ pc[c] = "assign"
        /\ pc'[c] = "done"
        /\ kind[c] = "reset"
        /\ inUse' = [inUse EXCEPT ![session[c]] = FALSE]
    BY <1>6 DEF ResetAssign
  <2>2. inUse[session[c]] = FALSE
    BY <2>1 DEF Looked, Ready
  <2> QED
    BY <2>1, <2>2
<1> QED
  BY <1>1, <1>2, <1>3, <1>4, <1>5, <1>6 DEF Step

LEMMA HeldStep ==
  ASSUME TypeInv, Chain, Held, NEW c \in Calls, Step(c)
  PROVE  Held'
<1>1. /\ Running(c) /\ Live(c)
      /\ UNCHANGED <<kind, session>>
      /\ \A d \in Calls \ {c} : pc'[d] = pc[d]
  BY StepFrame DEF TypeInv, TypeOK, Running
<1>2. \A d \in Calls \ {c} : pc[d] \notin {"store", "assign"}
  BY <1>1, Alone DEF Live, Ended, Waiting
<1>3. \A d \in Calls \ {c}, s \in Sessions : Holds(d, s)' <=> Holds(d, s)
  BY <1>1 DEF Holds
<1>4. CASE BeginStore(c)
  <2>1. /\ pc[c] = "store" /\ pc'[c] = "input"
        /\ kind[c] = "parse"
        /\ session[c] \in Sessions
        /\ inUse' = [inUse EXCEPT ![session[c]] = TRUE]
    BY <1>4 DEF BeginStore, At, Goto, TypeInv, TypeOK, Sorted, Ready
  <2>2. ~inUse[session[c]]
    BY <2>1 DEF Held, Looked
  <2>3. Looked'
    BY <1>1, <1>2, <2>1 DEF Looked
  <2>4. ASSUME NEW s \in Sessions PROVE Flag(s)'
    <3>1. ~Holds(c, s)
      BY <2>1 DEF Holds, Guarded
    <3>2. Holds(c, s)' <=> s = session[c]
      BY <1>1, <2>1 DEF Holds, Guarded
    <3>3. s # session[c] => inUse'[s] = inUse[s]
      BY <2>1 DEF TypeInv, TypeOK
    <3>4. s = session[c] => inUse'[s] = TRUE
      BY <2>1 DEF TypeInv, TypeOK
    <3>5. Flag(s)
      BY DEF Held
    <3>6. CASE s = session[c]
      <4>1. \A d \in Calls : ~Holds(d, s)
        BY <2>2, <3>5, <3>6 DEF Flag
      <4> QED
        BY <1>3, <3>2, <3>4, <3>6, <4>1 DEF Flag
    <3>7. CASE s # session[c]
      BY <1>3, <3>1, <3>2, <3>3, <3>5, <3>7 DEF Flag
    <3> QED
      BY <3>6, <3>7
  <2> QED
    BY <2>3, <2>4 DEF Held
<1>5. CASE EndParse(c)
  <2>1. /\ pc[c] = "end" /\ pc'[c] = "done"
        /\ kind[c] = "parse"
        /\ session[c] \in Sessions
        /\ inUse' = [inUse EXCEPT ![session[c]] = FALSE]
    BY <1>5 DEF EndParse, At, Goto, TypeInv, TypeOK, Sorted, Ready
  <2>2. Looked'
    BY <1>1, <1>2, <2>1 DEF Looked
  <2>3. ASSUME NEW s \in Sessions PROVE Flag(s)'
    <3>1. Holds(c, s) <=> s = session[c]
      BY <2>1 DEF Holds, Guarded
    <3>2. ~Holds(c, s)'
      BY <2>1 DEF Holds, Guarded
    <3>3. s # session[c] => inUse'[s] = inUse[s]
      BY <2>1 DEF TypeInv, TypeOK
    <3>4. s = session[c] => inUse'[s] = FALSE
      BY <2>1 DEF TypeInv, TypeOK
    <3>5. Flag(s)
      BY DEF Held
    <3> QED
      BY <1>3, <3>1, <3>2, <3>3, <3>4, <3>5 DEF Flag
  <2> QED
    BY <2>2, <2>3 DEF Held
<1>6. CASE ~BeginStore(c) /\ ~EndParse(c)
  <2>1. /\ inUse' = inUse
        /\ kind[c] = "parse" => (pc'[c] \in Guarded <=> pc[c] \in Guarded)
        /\ pc'[c] \in {"store", "assign"} => ~inUse[session[c]]
    BY <1>6, FlagFrame DEF Held
  <2>2. \A s \in Sessions : Holds(c, s)' <=> Holds(c, s)
    BY <1>1, <2>1 DEF Holds
  <2>3. \A s \in Sessions : Flag(s)'
    BY <1>3, <2>1, <2>2 DEF Held, Flag
  <2>4. Looked'
    BY <1>1, <1>2, <2>1 DEF Looked
  <2> QED
    BY <2>3, <2>4 DEF Held
<1> QED
  BY <1>4, <1>5, <1>6

LEMMA HeldCall ==
  ASSUME TypeInv, Held, NEW c \in Calls, NEW k \in DOMAIN Entry, NEW s \in Sessions \cup {None},
         NEW p \in Calls \cup {None}, Call(c, k, s, p)
  PROVE  Held'
<1>1. /\ pc[c] = "idle"
      /\ pc' = [pc EXCEPT ![c] = Entry[k]]
      /\ kind' = [kind EXCEPT ![c] = k]
      /\ session' = [session EXCEPT ![c] = s]
      /\ inUse' = inUse
  BY DEF Call, Goto, sessionVars
<1>2. \A d \in Calls \ {c} : pc'[d] = pc[d] /\ kind'[d] = kind[d] /\ session'[d] = session[d]
  BY <1>1 DEF TypeInv, TypeOK
<1>3. /\ k = "parse" => pc'[c] = "alive"
      /\ kind'[c] = k
      /\ pc'[c] \notin {"store", "assign"}
  BY <1>1 DEF Entry, TypeInv, TypeOK
<1>4. \A t \in Sessions : ~Holds(c, t) /\ ~Holds(c, t)'
  BY <1>1, <1>3 DEF Holds, Guarded
<1>5. \A d \in Calls, t \in Sessions : Holds(d, t)' <=> Holds(d, t)
  BY <1>2, <1>4 DEF Holds
<1>6. \A t \in Sessions : Flag(t)'
  BY <1>1, <1>5 DEF Held, Flag
<1>7. Looked'
  BY <1>1, <1>2, <1>3 DEF Held, Looked
<1> QED
  BY <1>6, <1>7 DEF Held
-----------------------------------------------------------------------------
(* The tokens.  The lexing session stands where the innermost call left    *)
(* it, and that is where a waiting one left it unless it is disturbed.     *)

Before == {"idle", "alive", "load", "store", "input", "decode", "obtain", "create", "rewind"}

Empty(c) == pc[c] \in Before => got[c] = <<>>

Place(c) ==
  /\ pc[c] = "consume" => lexState[lexing[c]] = [file |-> source[c], at |-> Len(got[c])]
  /\ got[c] = [i \in 1..Len(got[c]) |-> <<source[c], i - 1>>]

Placed ==
  /\ \A c \in Calls : Empty(c)
  /\ ~freed => \A c \in Calls : Undisturbed(c) => Place(c)

LEMMA NoTokens ==
  ASSUME NEW f
  PROVE  <<>> = [i \in 1..Len(<<>>) |-> <<f, i - 1>>]
  OBVIOUS

LEMMA OneMore ==
  ASSUME NEW S, NEW q \in Seq(S), NEW f, q = [i \in 1..Len(q) |-> <<f, i - 1>>],
         <<f, Len(q)>> \in S
  PROVE  /\ Len(Append(q, <<f, Len(q)>>)) = Len(q) + 1
         /\ Append(q, <<f, Len(q)>>)
              = [i \in 1..Len(Append(q, <<f, Len(q)>>)) |-> <<f, i - 1>>]
<1> DEFINE r == Append(q, <<f, Len(q)>>)
<1>1. r \in Seq(S) /\ Len(r) = Len(q) + 1
  OBVIOUS
<1>2. \A i \in 1..Len(r) : r[i] = <<f, i - 1>>
  <2> SUFFICES ASSUME NEW i \in 1..(Len(q) + 1) PROVE r[i] = <<f, i - 1>>
    BY <1>1
  <2>1. CASE i \in 1..Len(q)
    <3>1. r[i] = q[i]
      BY <2>1
    <3>2. q[i] = <<f, i - 1>>
      BY <2>1
    <3> QED
      BY <3>1, <3>2
  <2>2. CASE i = Len(q) + 1
    BY <2>2
  <2> QED
    BY <2>1, <2>2
<1>3. r = [i \in 1..Len(r) |-> r[i]]
  BY <1>1
<1> QED
  BY <1>1, <1>2, <1>3

LEMMA PlacedInit == Init => Placed
<1> SUFFICES ASSUME Init, NEW c \in Calls PROVE Empty(c) /\ Place(c)
  BY DEF Placed
<1>1. pc[c] = "idle" /\ got[c] = <<>>
  BY DEF Init
<1> QED
  BY <1>1, NoTokens DEF Empty, Place

LEMMA BeforeFrame ==
  ASSUME TypeInv, NEW c \in Calls, Step(c), pc'[c] \in Before
  PROVE  pc[c] \in Before /\ got' = got
<1> USE DEF Goto, At, TypeInv, TypeOK, Before
<1>1. CASE EnsureAlive(c) \/ BeginLoad(c) \/ BeginStore(c)
  BY <1>1 DEF EnsureAlive, BeginLoad, BeginStore
<1>2. CASE InputFails(c) \/ ReadInput(c) \/ InputDecoded(c)
  BY <1>2 DEF InputFails, ReadInput, InputDecoded, Finish
<1>3. CASE LookAtCache(c) \/ CreateLexing(c) \/ RewindLexing(c)
  BY <1>3 DEF LookAtCache, CreateLexing, RewindLexing
<1>4. CASE ConsumeToken(c) \/ StopLexing(c) \/ LeaveHook(c) \/ EndParse(c)
  BY <1>4 DEF ConsumeToken, StopLexing, LeaveHook, EndParse, Finish
<1>5. CASE ResetCheck(c) \/ ResetAssign(c) \/ FreeLexer(c) \/ MarkDestroyed(c)
  BY <1>5 DEF ResetCheck, ResetAssign, FreeLexer, MarkDestroyed
<1> QED
  BY <1>1, <1>2, <1>3, <1>4, <1>5 DEF Step

(* A step touches no other call's file, lexing session or tokens. *)
LEMMA OthersFrame ==
  ASSUME TypeInv, NEW c \in Calls, Step(c), NEW d \in Calls \ {c}
  PROVE  source'[d] = source[d] /\ lexing'[d] = lexing[d] /\ got'[d] = got[d]
<1>1. CASE Quiet(c)
  BY <1>1, QuietFrame
<1>2. CASE ReadInput(c) \/ CreateLexing(c) \/ RewindLexing(c)
  BY <1>2 DEF ReadInput, CreateLexing, RewindLexing, TypeInv, TypeOK
<1>3. CASE ConsumeToken(c)
  <2>1. \E t : got' = [got EXCEPT ![c] = Append(got[c], t)]
    BY <1>3 DEF ConsumeToken
  <2> QED
    BY <1>3, <2>1 DEF ConsumeToken, TypeInv, TypeOK
<1> QED
  BY <1>1, <1>2, <1>3, StepCases

(* A freed lexer stays freed. *)
LEMMA FreedGrows ==
  ASSUME NEW c \in Calls, Step(c)
  PROVE  freed => freed'
<1> USE DEF parserVars
<1>1. CASE EnsureAlive(c) \/ BeginLoad(c) \/ BeginStore(c)
  BY <1>1 DEF EnsureAlive, BeginLoad, BeginStore
<1>2. CASE InputFails(c) \/ ReadInput(c) \/ InputDecoded(c)
  BY <1>2 DEF InputFails, ReadInput, InputDecoded
<1>3. CASE LookAtCache(c) \/ CreateLexing(c) \/ RewindLexing(c)
  BY <1>3 DEF LookAtCache, CreateLexing, RewindLexing
<1>4. CASE ConsumeToken(c) \/ StopLexing(c) \/ LeaveHook(c) \/ EndParse(c)
  BY <1>4 DEF ConsumeToken, StopLexing, LeaveHook, EndParse
<1>5. CASE ResetCheck(c) \/ ResetAssign(c) \/ FreeLexer(c) \/ MarkDestroyed(c)
  BY <1>5 DEF ResetCheck, ResetAssign, FreeLexer, MarkDestroyed
<1> QED
  BY <1>1, <1>2, <1>3, <1>4, <1>5 DEF Step

LEMMA EmptyStep ==
  ASSUME TypeInv, Placed, NEW c \in Calls, Step(c)
  PROVE  \A d \in Calls : Empty(d)'
<1> SUFFICES ASSUME NEW d \in Calls PROVE Empty(d)'
  OBVIOUS
<1>1. \A e \in Calls \ {c} : pc'[e] = pc[e]
  BY StepFrame DEF TypeInv, TypeOK
<1>2. CASE d = c
  BY <1>2, BeforeFrame DEF Placed, Empty
<1>3. CASE d # c
  <2>1. got'[d] = got[d]
    BY <1>3, OthersFrame
  <2> QED
    BY <1>1, <1>3, <2>1 DEF Placed, Empty
<1> QED
  BY <1>2, <1>3

(* Who waits in the middle of its tokens for a call that reads is disturbed. *)
LEMMA ReadersDisturb ==
  ASSUME TypeInv, Chain, NEW c \in Calls, Running(c), kind[c] \in {"parse", "lex"},
         NEW d \in Calls \ {c}, pc[d] = "consume"
  PROVE  ~Undisturbed(d)
<1>1. Live(d) /\ Live(c)
  BY DEF Live, Ended, Running
<1>2. d < c
  BY <1>1, Alone
<1>3. PICK e \in Calls : d < e /\ e <= c /\ Live(e) /\ caller[e] = d
  BY <1>1, <1>2 DEF Chain
<1>4. from[e] = "consume"
  BY <1>3 DEF TypeInv, Origin
<1>5. kind[e] \in {"parse", "lex"}
  <2>1. CASE e = c
    BY <2>1
  <2>2. CASE e # c
    <3>1. pc[e] \in Waiting
      BY <1>3, <2>2, Alone
    <3> QED
      BY <3>1 DEF Waiting, TypeInv, Sorted, Reading
  <2> QED
    BY <2>1, <2>2
<1> QED
  BY <1>3, <1>4, <1>5 DEF Undisturbed

(* A step leaves the place of the calls it does not disturb. *)
LEMMA OthersStay ==
  ASSUME TypeInv, Chain, NEW c \in Calls, Step(c), NEW d \in Calls \ {c},
         Undisturbed(d), Place(d)
  PROVE  Place(d)'
<1>1. /\ Running(c)
      /\ pc'[d] = pc[d]
  BY StepFrame DEF TypeInv, TypeOK
<1>2. source'[d] = source[d] /\ lexing'[d] = lexing[d] /\ got'[d] = got[d]
  BY OthersFrame
<1>3. CASE pc[d] # "consume"
  BY <1>1, <1>2, <1>3 DEF Place
<1>4. CASE pc[d] = "consume"
  <2>1. kind[c] \notin {"parse", "lex"}
    BY <1>1, <1>4, ReadersDisturb
  <2>2. Quiet(c)
    BY <2>1, StepCases DEF ReadInput, CreateLexing, RewindLexing, ConsumeToken, At, TypeInv, Sorted, Reading
  <2>3. lexState' = lexState
    BY <2>2, QuietFrame
  <2> QED
    BY <1>1, <1>2, <2>3 DEF Place
<1> QED
  BY <1>3, <1>4

LEMMA PlaceStep ==
  ASSUME TypeInv, Chain, Placed, NEW c \in Calls, Step(c), ~freed, Place(c)
  PROVE  Place(c)'
<1>1. Empty(c)
  BY DEF Placed
<1>2. CASE Quiet(c)
  <2>1. UNCHANGED <<source, got>> /\ pc'[c] # "consume"
    BY <1>2, QuietFrame, QuietPlaces
  <2> QED
    BY <2>1 DEF Place
<1>3. CASE ReadInput(c)
  <2>1. pc'[c] = "decode" /\ got' = got /\ pc[c] = "input"
    BY <1>3 DEF ReadInput, At, Goto, TypeInv, TypeOK
  <2>2. got'[c] = <<>>
    BY <1>1, <2>1 DEF Empty, Before
  <2> QED
    BY <2>1, <2>2, NoTokens DEF Place
<1>4. CASE CreateLexing(c) \/ RewindLexing(c)
  <2>1. /\ pc[c] \in {"create", "rewind"}
        /\ pc'[c] = "consume"
        /\ UNCHANGED <<source, got>>
        /\ lexing'[c] \in Calls
        /\ Rewound(c, lexing'[c])
        /\ source[c] \in Files
    BY <1>4 DEF CreateLexing, RewindLexing, At, Goto, TypeInv, TypeOK, Ready, Reading
  <2>2. lexState'[lexing'[c]] = [file |-> source[c], at |-> 0]
    BY <2>1, RewoundType DEF TypeInv
  <2>3. got[c] = <<>>
    BY <1>1, <2>1 DEF Empty, Before
  <2> QED
    BY <2>1, <2>2, <2>3, NoTokens DEF Place
<1>5. CASE ConsumeToken(c)
  <2> DEFINE l == lexing[c]
             q == got[c]
             f == source[c]
  <2>1. /\ pc[c] = "consume" /\ pc' = pc
        /\ UNCHANGED <<source, lexing>>
        /\ got' = [got EXCEPT ![c] = Append(got[c], <<lexState[l].file, lexState[l].at>>)]
    BY <1>5 DEF ConsumeToken, At, Lexed
  <2>2. /\ l \in Calls
        /\ lexState[l].file \in Files
        /\ lexState[l].at \in 0..(TokenCount - 1)
        /\ lexState' = [lexState EXCEPT ![l] = [file |-> lexState[l].file, at |-> lexState[l].at + 1]]
    BY <1>5, ConsumedType
  <2>3. lexState[l] = [file |-> f, at |-> Len(q)]
    BY <2>1 DEF Place
  <2>4. lexState[l].file = f /\ lexState[l].at = Len(q)
    BY <2>3
  <2>5. q \in Seq(Token) /\ <<f, Len(q)>> \in Token
    BY <2>2, <2>4 DEF TypeInv, TypeOK, Token
  <2>6. got'[c] = Append(q, <<f, Len(q)>>)
    BY <2>1, <2>4 DEF TypeInv, TypeOK
  <2>7. q = [i \in 1..Len(q) |-> <<f, i - 1>>]
    BY DEF Place
  <2>8. /\ Len(Append(q, <<f, Len(q)>>)) = Len(q) + 1
        /\ Append(q, <<f, Len(q)>>)
             = [i \in 1..Len(Append(q, <<f, Len(q)>>)) |-> <<f, i - 1>>]
    <3> HIDE DEF q, f
    <3> QED
      BY <2>5, <2>7, OneMore
  <2>9. lexState'[l] = [file |-> f, at |-> Len(q) + 1]
    BY <2>2, <2>4 DEF TypeInv, TypeOK
  <2>10. /\ lexState'[lexing'[c]] = [file |-> source'[c], at |-> Len(got'[c])]
         /\ got'[c] = [i \in 1..Len(got'[c]) |-> <<source'[c], i - 1>>]
    BY <2>1, <2>6, <2>8, <2>9
  <2> QED
    BY <2>10 DEF Place
<1> QED
  BY <1>2, <1>3, <1>4, <1>5, StepCases

LEMMA PlacedStep ==
  ASSUME TypeInv, Chain, Placed, NEW c \in Calls, Step(c)
  PROVE  Placed'
<1>1. \A d \in Calls : Empty(d)'
  BY EmptyStep
<1>2. ASSUME ~freed', NEW d \in Calls, Undisturbed(d)'
      PROVE  Place(d)'
  <2>1. ~freed
    BY <1>2, FreedGrows
  <2>2. Undisturbed(d)
    BY <1>2, StepFrame DEF Undisturbed, TypeInv
  <2>3. Place(d)
    BY <2>1, <2>2 DEF Placed
  <2>4. CASE d = c
    BY <2>1, <2>3, <2>4, PlaceStep
  <2>5. CASE d # c
    BY <2>2, <2>3, <2>5, OthersStay
  <2> QED
    BY <2>4, <2>5
<1> QED
  BY <1>1, <1>2 DEF Placed

LEMMA PlacedCall ==
  ASSUME TypeInv, Placed, NEW c \in Calls, NEW k \in DOMAIN Entry, NEW s \in Sessions \cup {None},
         NEW p \in Calls \cup {None}, Call(c, k, s, p)
  PROVE  Placed'
<1>1. /\ pc[c] = "idle"
      /\ pc' = [pc EXCEPT ![c] = Entry[k]]
      /\ UNCHANGED <<source, lexing, got, lexState, freed>>
  BY DEF Call, Goto, parserVars
<1>2. pc'[c] # "consume" /\ got[c] = <<>>
  <2>1. pc'[c] # "consume"
    BY <1>1 DEF Entry, TypeInv, TypeOK
  <2>2. Empty(c)
    BY DEF Placed
  <2> QED
    BY <1>1, <2>1, <2>2 DEF Empty, Before
<1>3. \A d \in Calls \ {c} : pc'[d] = pc[d]
  BY <1>1 DEF TypeInv, TypeOK
<1>4. \A d \in Calls : Empty(d)'
  BY <1>1, <1>2, <1>3 DEF Placed, Empty
<1>5. ASSUME ~freed', NEW d \in Calls, Undisturbed(d)'
      PROVE  Place(d)'
  <2>1. Undisturbed(d)
    <3>1. caller[c] = None
      BY <1>1 DEF TypeInv, Origin
    <3>2. \A e \in Calls \ {c} : caller'[e] = caller[e] /\ from'[e] = from[e] /\ kind'[e] = kind[e]
      BY DEF Call, TypeInv, TypeOK
    <3> QED
      BY <1>5, <3>1, <3>2, LangParserAssumption DEF Undisturbed
  <2>2. Place(d)
    BY <1>1, <1>5, <2>1 DEF Placed
  <2> QED
    BY <1>1, <1>2, <1>3, <2>2 DEF Place
<1> QED
  BY <1>4, <1>5 DEF Placed
-----------------------------------------------------------------------------
(* The destruction of the parser. *)

Freed(d) == kind[d] = "destroy" /\ pc[d] \in {"mark", "done"}

Safe ==
  /\ \A c, d \in Calls :
       kind[c] = "parse" /\ Live(c) /\ pc[c] # "alive" /\ Freed(d) => c < d
  /\ \A d \in Calls : kind[d] = "destroy" /\ pc[d] = "done" => destroyed

LEMMA SafeInit == Init => Safe
  BY DEF Init, Safe, Freed, Live, Ended

(* All steps but those of a destruction leave the lexer alone. *)
LEMMA FreedFrame ==
  ASSUME TypeInv, NEW c \in Calls, Step(c), ~FreeLexer(c), ~MarkDestroyed(c)
  PROVE  /\ destroyed' = destroyed
         /\ kind[c] # "destroy"
         /\ pc[c] = "alive" => pc'[c] = "panicked" \/ ~destroyed
<1> USE DEF Goto, At, TypeInv, TypeOK, Sorted, Reading, parserVars
<1>1. CASE EnsureAlive(c) \/ BeginLoad(c) \/ BeginStore(c)
  BY <1>1 DEF EnsureAlive, BeginLoad, BeginStore
<1>2. CASE InputFails(c) \/ ReadInput(c) \/ InputDecoded(c)
  BY <1>2 DEF InputFails, ReadInput, InputDecoded
<1>3. CASE LookAtCache(c) \/ CreateLexing(c) \/ RewindLexing(c)
  BY <1>3 DEF LookAtCache, CreateLexing, RewindLexing
<1>4. CASE ConsumeToken(c) \/ StopLexing(c) \/ LeaveHook(c) \/ EndParse(c)
  BY <1>4 DEF ConsumeToken, StopLexing, LeaveHook, EndParse
<1>5. CASE ResetCheck(c) \/ ResetAssign(c)
  BY <1>5 DEF ResetCheck, ResetAssign
<1> QED
  BY <1>1, <1>2, <1>3, <1>4, <1>5 DEF Step

LEMMA SafeStep ==
  ASSUME TypeInv, Chain, Safe, NEW c \in Calls, Step(c)
  PROVE  Safe'
<1>1. /\ Running(c) /\ Live(c)
      /\ kind' = kind
      /\ \A d \in Calls \ {c} : pc'[d] = pc[d]
  BY StepFrame DEF TypeInv, TypeOK, Running
<1>2. \A d \in Calls \ {c} : (Live(d)' <=> Live(d)) /\ (Freed(d)' <=> Freed(d))
  BY <1>1 DEF Live, Freed
<1>3. CASE FreeLexer(c)
  <2>1. kind[c] = "destroy" /\ pc'[c] = "mark" /\ destroyed' = destroyed
    BY <1>3 DEF FreeLexer, At, Goto, TypeInv, TypeOK, Sorted
  <2>2. \A d \in Calls \ {c} : Live(d) => d < c
    BY <1>1, Alone
  <2> QED
    BY <1>1, <1>2, <2>1, <2>2 DEF Safe
<1>4. CASE MarkDestroyed(c)
  <2>1. /\ kind[c] = "destroy" /\ pc[c] = "mark" /\ pc'[c] = "done"
        /\ destroyed' = TRUE
    BY <1>4 DEF MarkDestroyed, At, Goto, TypeInv, TypeOK, Sorted
  <2>2. Freed(c)
    BY <2>1 DEF Freed
  <2> QED
    BY <1>1, <1>2, <2>1, <2>2 DEF Safe
<1>5. CASE ~FreeLexer(c) /\ ~MarkDestroyed(c)
  <2>1. /\ destroyed' = destroyed
        /\ kind[c] # "destroy"
        /\ pc[c] = "alive" => pc'[c] = "panicked" \/ ~destroyed
    BY <1>5, FreedFrame
  <2>2. ~Freed(c) /\ ~Freed(c)'
    BY <1>1, <2>1 DEF Freed
  <2>3. ASSUME NEW d \in Calls \ {c}, Freed(d)
        PROVE  destroyed
    <3>1. pc[d] # "mark"
      <4>1. SUFFICES ASSUME pc[d] = "mark" PROVE FALSE
        OBVIOUS
      <4>2. Live(d) /\ pc[d] \notin Waiting
        BY <4>1 DEF Live, Ended, Waiting
      <4> QED
        BY <1>1, <4>2, Alone
    <3> QED
      BY <2>3, <3>1 DEF Freed, Safe
  <2>4. ASSUME NEW a \in Calls, NEW d \in Calls,
               kind'[a] = "parse", Live(a)', pc'[a] # "alive", Freed(d)'
        PROVE  a < d
    <3>1. d # c /\ Freed(d)
      BY <1>2, <2>2, <2>4
    <3>2. CASE a # c
      BY <1>1, <1>2, <2>4, <3>1, <3>2 DEF Safe
    <3>3. CASE a = c /\ pc[c] # "alive"
      BY <1>1, <2>4, <3>1, <3>3 DEF Safe
    <3>4. CASE a = c /\ pc[c] = "alive"
      BY <2>1, <2>3, <2>4, <3>1, <3>4 DEF Live, Ended
    <3> QED
      BY <3>2, <3>3, <3>4
  <2>5. \A d \in Calls : kind'[d] = "destroy" /\ pc'[d] = "done" => destroyed'
    BY <1>1, <2>1 DEF Safe
  <2> QED
    BY <2>4, <2>5 DEF Safe
<1> QED
  BY <1>3, <1>4, <1>5

LEMMA SafeCall ==
  ASSUME TypeInv, Safe, NEW c \in Calls, NEW k \in DOMAIN Entry, NEW s \in Sessions \cup {None},
         NEW p \in Calls \cup {None}, Call(c, k, s, p)
  PROVE  Safe'
<1>1. /\ pc[c] = "idle"
      /\ pc' = [pc EXCEPT ![c] = Entry[k]]
      /\ kind' = [kind EXCEPT ![c] = k]
      /\ UNCHANGED <<freed, destroyed>>
  BY DEF Call, Goto, parserVars
<1>2. \A d \in Calls \ {c} : pc'[d] = pc[d] /\ kind'[d] = kind[d] /\ (Live(d)' <=> Live(d))
  BY <1>1 DEF TypeInv, TypeOK, Live
<1>3. kind'[c] = k /\ pc'[c] = Entry[k]
  BY <1>1 DEF TypeInv, TypeOK
<1>4. (k = "parse" => Entry[k] = "alive") /\ Entry[k] \notin {"mark", "done"}
  BY DEF Entry
<1>5. ~Freed(c)' /\ \A d \in Calls \ {c} : Freed(d)' <=> Freed(d)
  BY <1>2, <1>3, <1>4 DEF Freed
<1> QED
  BY <1>1, <1>2, <1>3, <1>4, <1>5 DEF Safe
-----------------------------------------------------------------------------
SerialInv == TypeInv /\ Chain /\ Numbered /\ Held /\ Placed /\ Safe

LEMMA SerialInit == Init => SerialInv
  BY TypeInit, ChainInit, HeldInit, PlacedInit, SafeInit DEF SerialInv

LEMMA SerialNext ==
  ASSUME Serial
  PROVE  SerialInv /\ [Next]_vars => SerialInv'
<1> SUFFICES ASSUME SerialInv, [Next]_vars PROVE SerialInv'
  OBVIOUS
<1>0. TypeInv'
  BY TypeNext DEF SerialInv
<1>1. CASE \E c \in Calls : Step(c)
  BY <1>0, <1>1, ChainStep, NumberedStep, HeldStep, PlacedStep, SafeStep DEF SerialInv
<1>2. CASE \E c \in Calls, k \in DOMAIN Entry, s \in Sessions \cup {None}, p \in Calls \cup {None} : Call(c, k, s, p)
  BY <1>0, <1>2, ChainCall, NumberedCall, HeldCall, PlacedCall, SafeCall DEF SerialInv
<1>3. CASE UNCHANGED vars
  <2> USE <1>3 DEF vars, callVars, parserVars, sessionVars, SerialInv
  <2>1. Chain' /\ Numbered'
    BY DEF Chain, Numbered, Live
  <2>2. Held'
    BY DEF Held, Looked, Flag, Holds
  <2>3. Placed'
    BY DEF Placed, Empty, Place, Undisturbed
  <2>4. Safe'
    BY DEF Safe, Freed, Live
  <2> QED
    BY <1>0, <2>1, <2>2, <2>3, <2>4
<1> QED
  BY <1>1, <1>2, <1>3 DEF Next

LEMMA SerialInvariant ==
  ASSUME Serial
  PROVE  Spec => []SerialInv
<1>1. SerialInv /\ [Next]_vars => SerialInv'
  BY SerialNext
<1> QED
  BY SerialInit, <1>1, PTL DEF Spec

(* The use flag of a session is set exactly while one ParseFile call holds *)
(* it: begin and end pair on every exit, and although begin looks and      *)
(* stores in two steps, two calls never hold one session (api.go, begin).  *)
THEOREM GuardIsExact ==
  ASSUME Serial
  PROVE  Spec => []GuardExact
<1>1. SerialInv => GuardExact
  BY HeldGuard DEF SerialInv, Held
<1> QED
  BY <1>1, SerialInvariant, PTL

(* Until the parser is destroyed every call sees the tokens of its own     *)
(* file from the first, although all calls, nested ones included, share    *)
(* one lexing session (getLexerSession); the one exception is a call whose *)
(* nodePostProcessor parsed or lexed.                                      *)
THEOREM TokensAreOwn ==
  ASSUME Serial
  PROVE  Spec => []OwnTokens
<1>1. SerialInv => OwnTokens
  BY DEF SerialInv, Placed, Place, OwnTokens
<1> QED
  BY <1>1, SerialInvariant, PTL

(* No ParseFile call takes a token that was called after LangParserDestroy *)
(* freed the lexer, though that is one step before it marks the parser.    *)
THEOREM FreedIsNotParsed ==
  ASSUME Serial
  PROVE  Spec => NoParseAfterFree
<1> DEFINE A == \A c, d \in Calls :
                  /\ kind[c] = "parse" /\ got'[c] # got[c]
                  /\ kind[d] = "destroy" /\ pc[d] \in {"mark", "done"}
                  => c < d
<1>1. SerialInv /\ [Next]_vars => [A]_vars
  <2> SUFFICES ASSUME SerialInv, [Next]_vars, ~UNCHANGED vars,
                      NEW c \in Calls, NEW d \in Calls,
                      kind[c] = "parse", got'[c] # got[c], Freed(d)
      PROVE  c < d
    BY DEF Freed
  <2>1. CASE \E e \in Calls, k \in DOMAIN Entry, s \in Sessions \cup {None}, p \in Calls \cup {None} : Call(e, k, s, p)
    BY <2>1 DEF Call
  <2>2. CASE \E e \in Calls : Step(e)
    <3>1. PICK e \in Calls : Step(e)
      BY <2>2
    <3>2. e = c
      BY <3>1, OthersFrame DEF SerialInv
    <3>3. CASE ConsumeToken(c)
      <4>1. Live(c) /\ pc[c] # "alive"
        BY <3>3 DEF ConsumeToken, At, Running
      <4> QED
        BY <4>1 DEF SerialInv, Safe
    <3>4. CASE Quiet(c)
      BY <3>4, QuietFrame DEF SerialInv
    <3>5. CASE ReadInput(c) \/ CreateLexing(c) \/ RewindLexing(c)
      BY <3>5 DEF ReadInput, CreateLexing, RewindLexing
    <3> QED
      BY <3>1, <3>2, <3>3, <3>4, <3>5, StepCases
  <2> QED
    BY <2>1, <2>2 DEF Next
<1> QED
  BY <1>1, SerialInvariant, PTL DEF Spec, NoParseAfterFree
=============================================================================
