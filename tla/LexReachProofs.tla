--------------------------- MODULE LexReachProofs ---------------------------
(***************************************************************************)
(* What is proved of the walk over contexts and lexer stacks, and of what  *)
(* a token is bound to afterwards, for every state graph, every set of lex *)
(* rules, every maximal depth and every order of the stacks and states.    *)
(***************************************************************************)
EXTENDS LexReach, FiniteSetTheorems, WellFoundedInduction, TLAPS

(* A stack as the lexer has it: some frames, the start state at the bottom. *)
Grounded == {s \in Seq(Modes) : Len(s) > 0 /\ s[1] = Start}
Pairs == [ctx : Contexts, stack : Grounded]

TargetDone(l, R, item, i, g) ==
  l.transitions[item.ctx][i].targets[g] # NoContext =>
    [ctx |-> l.transitions[item.ctx][i].targets[g], stack |-> StackAfter(l, item, i)] \in R

StepDone(l, R, item, i) ==
  i \in Steps(l, item) =>
    /\ ~TooDeep(StackAfter(l, item, i))
    /\ \A g \in 1..Len(l.transitions[item.ctx][i].targets) : TargetDone(l, R, item, i, g)

Shape ==
  /\ lang \in Languages
  /\ lang \in LanguageSpace
  /\ queue \in Seq(Pairs)
  /\ reached = {queue[k] : k \in 1..Len(queue)}
  /\ head \in 1..(Len(queue) + 1)
  /\ tr \in Nat \ {0}
  /\ tg \in Nat \ {0}

(* The items before head, and of the one under way the transitions before   *)
(* tr and the targets before tg, are dealt with.                            *)
ItemsDone == \A k \in 1..(head - 1) : \A i \in Steps(lang, queue[k]) : StepDone(lang, reached, queue[k], i)
TransitionsDone == head <= Len(queue) => \A i \in 1..(tr - 1) : StepDone(lang, reached, queue[head], i)
TargetsDone ==
  head <= Len(queue) /\ tr \in Steps(lang, queue[head]) =>
    \A g \in 1..(tg - 1) :
      g \in 1..Len(lang.transitions[queue[head].ctx][tr].targets) =>
        TargetDone(lang, reached, queue[head], tr, g)
TargetsBegun == tg > 1 => head <= Len(queue) /\ tr \in Steps(lang, queue[head])
Progress == ItemsDone /\ TransitionsDone /\ TargetsDone /\ TargetsBegun

Rooted == lang.root # NoContext => Len(queue) > 0 /\ queue[1] = RootItem(lang)
Over == pc \notin {"walk", "failed"} => head = Len(queue) + 1
Shallow == \A k \in 1..Len(queue) : Len(queue[k].stack) <= MaxModes

Inv == Shape /\ Progress /\ Rooted /\ Over /\ Shallow /\ WalkIsSound /\ RefusedForDepth

-----------------------------------------------------------------------------
(* What makes a stack one that a lexer can have. *)
LEMMA GroundedIntro ==
  ASSUME NEW s \in Seq(Modes), Len(s) # 0, s[1] = Start
  PROVE  s \in Grounded
BY DEF Grounded

(* A stack that a lexer can have, some frames popped or pushed, is one too. *)
LEMMA PrefixGrounded ==
  ASSUME NEW s \in Grounded, NEW n \in 1..Len(s)
  PROVE  SubSeq(s, 1, n) \in Grounded
<1>1. s \in Seq(Modes) /\ Len(s) \in Nat /\ s[1] = Start
  BY DEF Grounded
<1>2. SubSeq(s, 1, n) \in Seq(Modes)
  BY <1>1
<1>3. Len(SubSeq(s, 1, n)) = n
  BY <1>1
<1>4. SubSeq(s, 1, n)[1] = s[1]
  BY <1>1
<1>5. Len(SubSeq(s, 1, n)) # 0
  BY <1>3
<1>6. SubSeq(s, 1, n)[1] = Start
  BY <1>1, <1>4
<1> QED
  BY <1>2, <1>5, <1>6, GroundedIntro

LEMMA ConcatGrounded ==
  ASSUME NEW s \in Grounded, NEW q \in Seq(Modes)
  PROVE  s \o q \in Grounded
<1>1. s \in Seq(Modes) /\ Len(s) \in Nat \ {0} /\ s[1] = Start /\ Len(q) \in Nat
  BY DEF Grounded
<1>2. s \o q \in Seq(Modes)
  BY <1>1
<1>3. Len(s \o q) = Len(s) + Len(q)
  BY <1>1
<1>4. (s \o q)[1] = s[1]
  BY <1>1
<1>5. Len(s \o q) # 0
  BY <1>1, <1>3
<1>6. (s \o q)[1] = Start
  BY <1>1, <1>4
<1> QED
  BY <1>2, <1>5, <1>6, GroundedIntro

LEMMA PopGrounded ==
  ASSUME NEW s \in Grounded, NEW k \in Nat
  PROVE  PopFrames(s, k) \in Grounded
<1>1. Len(s) \in Nat \ {0}
  BY DEF Grounded
<1> DEFINE j == IF k < 1 THEN 1 ELSE k
<1>2. j \in Nat \ {0}
  OBVIOUS
<1>3. PopFrames(s, k) = IF Len(s) - j < 1 THEN SubSeq(s, 1, 1) ELSE SubSeq(s, 1, Len(s) - j)
  BY DEF PopFrames, Frames
<1> HIDE DEF j
<1>4. CASE Len(s) - j < 1
  BY <1>1, <1>3, <1>4, PrefixGrounded
<1>5. CASE ~(Len(s) - j < 1)
  <2>1. Len(s) - j \in 1..Len(s)
    BY <1>1, <1>2, <1>5
  <2> QED
    BY <1>3, <1>5, <2>1, PrefixGrounded
<1> QED
  BY <1>4, <1>5

(* So is what every stack operation of a lex rule makes of it. *)
LEMMA AfterRuleGrounded ==
  ASSUME NEW s \in Grounded, NEW r \in LexRule
  PROVE  AfterRule(s, r) \in Grounded
<1>1. r.kind \in Kinds /\ r.states \in Seq(Modes) /\ r.amount \in Nat
  BY DEF LexRule
<1>2. PopFrames(s, 1) \in Grounded /\ PopFrames(s, r.amount) \in Grounded
  BY <1>1, PopGrounded
<1>3. s \o r.states \in Grounded /\ PopFrames(s, 1) \o r.states \in Grounded
  BY <1>1, <1>2, ConcatGrounded
<1> QED
  BY <1>1, <1>2, <1>3 DEF Kinds, AfterRule

(* The rule that is found is a rule of the lexer state. *)
LEMMA FoundIsRule ==
  ASSUME NEW l \in LanguageSpace, NEW m \in Modes, NEW t, HasRule(l, m, t)
  PROVE  FindRule(l, m, t) \in LexRule
<1>1. PICK i \in FirstRuleFor(l, m, t) : i = (CHOOSE j \in FirstRuleFor(l, m, t) : TRUE)
  BY DEF HasRule
<1>2. i \in 1..Len(l.rules[m]) /\ l.rules[m] \in Seq(LexRule)
  BY DEF FirstRuleFor, LanguageSpace
<1> QED
  BY <1>1, <1>2 DEF FindRule

(* A step of a pair leads to a stack that a lexer can have. *)
LEMMA StepGrounded ==
  ASSUME NEW l \in LanguageSpace, NEW item \in Pairs, NEW i \in Steps(l, item)
  PROVE  StackAfter(l, item, i) \in Grounded
<1>1. item.stack \in Grounded /\ TopMode(item.stack) \in Modes
  BY DEF Pairs, Grounded, TopMode
<1>2. HasRule(l, TopMode(item.stack), l.transitions[item.ctx][i].token)
  BY DEF Steps
<1>3. FindRule(l, TopMode(item.stack), l.transitions[item.ctx][i].token) \in LexRule
  BY <1>1, <1>2, FoundIsRule
<1> QED
  BY <1>1, <1>3, AfterRuleGrounded DEF StackAfter, NextStack

(* What the actions compute of the item under way is a step of it. *)
LEMMA CurrentStep ==
  ASSUME Shape, Walking, tr <= Len(Transitions)
  PROVE  /\ Work \in Pairs /\ Work \in reached
         /\ Transitions = lang.transitions[Work.ctx]
         /\ Transitions \in Seq(Transition)
         /\ tr \in 1..Len(Transitions)
         /\ Current.targets \in Seq(Contexts \cup {NoContext})
         /\ Lexed <=> tr \in Steps(lang, Work)
         /\ After = StackAfter(lang, Work, tr)
<1>1. head \in 1..Len(queue) /\ Work \in Pairs /\ Work \in reached
  BY DEF Shape, Walking, Work
<1>2. Work.ctx \in Contexts
  BY <1>1 DEF Pairs
<1>3. Transitions \in Seq(Transition) /\ tr \in 1..Len(Transitions)
  BY <1>2 DEF Shape, LanguageSpace, Transitions
<1>4. Current \in Transition
  BY <1>3 DEF Current
<1>5. Lexed <=> tr \in Steps(lang, Work)
  BY <1>3 DEF Lexed, Steps, Current, Transitions
<1>6. After = StackAfter(lang, Work, tr)
  BY DEF After, StackAfter, Current, Transitions
<1> QED
  BY <1>1, <1>3, <1>4, <1>5, <1>6 DEF Transition, Transitions
-----------------------------------------------------------------------------
(* What is done stays done while pairs are added. *)
LEMMA DoneKept ==
  ASSUME NEW l, NEW R, NEW T, R \subseteq T, NEW item, NEW i
  PROVE  /\ StepDone(l, R, item, i) => StepDone(l, T, item, i)
         /\ \A g : TargetDone(l, R, item, i, g) => TargetDone(l, T, item, i, g)
<1>1. \A g : TargetDone(l, R, item, i, g) => TargetDone(l, T, item, i, g)
  BY DEF TargetDone
<1> QED
  BY <1>1 DEF StepDone

(* A step that leaves the walk alone keeps the invariant, unless it begins  *)
(* or ends the walk.                                                        *)
LEMMA Aside ==
  ASSUME Inv, UNCHANGED <<lang, walkVars>>,
         \/ pc' = pc
         \/ pc' \notin {"walk", "failed"} /\ (pc \in {"walk", "failed"} => head > Len(queue))
  PROVE  Inv'
<1>1. /\ lang' = lang /\ reached' = reached /\ queue' = queue
      /\ head' = head /\ tr' = tr /\ tg' = tg
  BY DEF walkVars
<1>2. Shape' /\ Rooted' /\ Shallow'
  BY <1>1 DEF Inv, Shape, Rooted, Shallow
<1>3. WalkIsSound'
  <2>1. WalkIsSound /\ lang' = lang /\ queue' = queue
    BY <1>1 DEF Inv
  <2> QED
    BY <2>1 DEF WalkIsSound
<1>6. Progress'
  BY <1>1 DEF Inv, Progress, ItemsDone, TransitionsDone, TargetsDone, TargetsBegun
<1>4. RefusedForDepth'
  BY <1>1 DEF Inv, RefusedForDepth
<1>5. Over'
  BY <1>1 DEF Inv, Over, Shape
<1> QED
  BY <1>2, <1>3, <1>4, <1>5, <1>6 DEF Inv

(* A step that only moves the places of the walk keeps the invariant, if it *)
(* keeps the record of what is done.                                        *)
LEMMA Moved ==
  ASSUME Inv, UNCHANGED <<lang, pc, reached, queue>>, pc = "walk",
         head' \in 1..(Len(queue) + 1), tr' \in Nat \ {0}, tg' \in Nat \ {0}, Progress'
  PROVE  Inv'
<1>1. Shape' /\ Rooted' /\ Shallow' /\ RefusedForDepth' /\ Over'
  BY DEF Inv, Shape, Rooted, Shallow, RefusedForDepth, Over
<1>2. WalkIsSound'
  BY DEF Inv, WalkIsSound
<1> QED
  BY <1>1, <1>2 DEF Inv

LEMMA SkipKeeps == Inv /\ SkipTransition => Inv'
<1> SUFFICES ASSUME Inv, SkipTransition PROVE Inv'
  OBVIOUS
<1>1. /\ Walking /\ tr <= Len(Transitions) /\ ~Lexed /\ tr' = tr + 1
      /\ lang' = lang /\ pc' = pc /\ reached' = reached /\ queue' = queue
      /\ head' = head /\ tg' = tg
  BY DEF SkipTransition
<1>2. Shape /\ Progress /\ head <= Len(queue) /\ pc = "walk"
  BY <1>1 DEF Inv, Walking
<1>3. tr \notin Steps(lang, Work) /\ tr \in Nat \ {0}
  BY <1>1, <1>2, CurrentStep DEF Shape
<1>4. Progress'
  <2>1. StepDone(lang, reached, queue[head], tr)
    BY <1>3 DEF StepDone, Work
  <2>2. \A i \in 1..tr : StepDone(lang, reached, queue[head], i)
    BY <1>2, <1>3, <2>1 DEF Progress, TransitionsDone
  <2>3. TransitionsDone'
    <3> SUFFICES ASSUME NEW i \in 1..tr PROVE StepDone(lang', reached', queue[head], i)
      BY <1>1, <1>3 DEF TransitionsDone
    <3> QED
      BY <1>1, <2>2, DoneKept
  <2>4. TargetsDone' /\ TargetsBegun'
    <3>1. tg = 1
      BY <1>2, <1>3 DEF Progress, TargetsBegun, Shape, Work
    <3> QED
      BY <1>1, <3>1 DEF TargetsDone, TargetsBegun
  <2>5. ItemsDone'
    <3> SUFFICES ASSUME NEW k \in 1..(head - 1), NEW i \in Steps(lang, queue[k])
                 PROVE  StepDone(lang', reached', queue[k], i)
      BY <1>1 DEF ItemsDone
    <3> QED
      BY <1>1, <1>2, DoneKept DEF Progress, ItemsDone
  <2> QED
    BY <2>3, <2>4, <2>5 DEF Progress
<1> QED
  BY <1>1, <1>2, <1>3, <1>4, Moved DEF Shape

(* The next transition: every target of this one is done. *)
LEMMA NextTransitionKeeps == Inv /\ NextTransition => Inv'
<1> SUFFICES ASSUME Inv, NextTransition PROVE Inv'
  OBVIOUS
<1>1. /\ Walking /\ tr <= Len(Transitions) /\ Lexed /\ ~TooDeep(After)
      /\ tg > Len(Current.targets) /\ tr' = tr + 1 /\ tg' = 1
      /\ lang' = lang /\ pc' = pc /\ reached' = reached /\ queue' = queue
      /\ head' = head
  BY DEF NextTransition
<1>2. Shape /\ Progress /\ head <= Len(queue) /\ pc = "walk"
  BY <1>1 DEF Inv, Walking
<1>3. tr \in Nat \ {0} /\ tg \in Nat \ {0} /\ head \in Nat
  BY <1>2 DEF Shape
<1>4. /\ tr \in Steps(lang, Work) /\ After = StackAfter(lang, Work, tr)
      /\ Current.targets \in Seq(Contexts \cup {NoContext})
      /\ Current.targets = lang.transitions[Work.ctx][tr].targets
  BY <1>1, <1>2, CurrentStep DEF Current
<1>5. StepDone(lang, reached, queue[head], tr)
  <2>1. \A g \in 1..Len(Current.targets) : g \in 1..(tg - 1)
    BY <1>1, <1>3, <1>4
  <2>2. \A g \in 1..Len(Current.targets) : TargetDone(lang, reached, queue[head], tr, g)
    BY <1>2, <1>4, <2>1 DEF Progress, TargetsDone, Work
  <2> QED
    BY <1>1, <1>4, <2>2 DEF StepDone, Work
<1>6. \A i \in 1..tr : StepDone(lang, reached, queue[head], i)
  BY <1>2, <1>3, <1>5 DEF Progress, TransitionsDone
<1>7. TransitionsDone'
  <2> SUFFICES ASSUME NEW i \in 1..tr PROVE StepDone(lang', reached', queue[head], i)
    BY <1>1, <1>3 DEF TransitionsDone
  <2> QED
    BY <1>1, <1>6, DoneKept
<1>8. TargetsDone' /\ TargetsBegun'
  BY <1>1 DEF TargetsDone, TargetsBegun
<1>9. ItemsDone'
  <2> SUFFICES ASSUME NEW k \in 1..(head - 1), NEW i \in Steps(lang, queue[k])
               PROVE  StepDone(lang', reached', queue[k], i)
    BY <1>1 DEF ItemsDone
  <2> QED
    BY <1>1, <1>2, DoneKept DEF Progress, ItemsDone
<1> QED
  BY <1>1, <1>2, <1>3, <1>7, <1>8, <1>9, Moved DEF Progress, Shape

(* The next item: every transition of this one is done. *)
LEMMA NextItemKeeps == Inv /\ NextItem => Inv'
<1> SUFFICES ASSUME Inv, NextItem PROVE Inv'
  OBVIOUS
<1>1. /\ Walking /\ tr > Len(Transitions) /\ head' = head + 1 /\ tr' = 1 /\ tg' = 1
      /\ lang' = lang /\ pc' = pc /\ reached' = reached /\ queue' = queue
  BY DEF NextItem
<1>2. Shape /\ Progress /\ head \in 1..Len(queue) /\ pc = "walk" /\ tr \in Nat
  BY <1>1 DEF Inv, Walking, Shape
<1>3. \A i \in Steps(lang, queue[head]) : StepDone(lang, reached, queue[head], i)
  <2> SUFFICES ASSUME NEW i \in Steps(lang, queue[head]) PROVE StepDone(lang, reached, queue[head], i)
    OBVIOUS
  <2>1. i \in 1..Len(Transitions)
    BY DEF Steps, Transitions, Work
  <2>2. queue[head] \in Pairs
    BY <1>2 DEF Shape
  <2>3. Transitions \in Seq(Transition)
    BY <1>2, <2>2 DEF Shape, LanguageSpace, Transitions, Work, Pairs
  <2>4. i \in 1..(tr - 1)
    BY <1>1, <1>2, <2>1, <2>3
  <2> QED
    BY <1>2, <2>4 DEF Progress, TransitionsDone
<1>4. ItemsDone'
  <2> SUFFICES ASSUME NEW k \in 1..head, NEW i \in Steps(lang, queue[k])
               PROVE  StepDone(lang', reached', queue[k], i)
    BY <1>1, <1>2 DEF ItemsDone
  <2>1. StepDone(lang, reached, queue[k], i)
    BY <1>2, <1>3 DEF Progress, ItemsDone
  <2> QED
    BY <1>1, <2>1, DoneKept
<1>5. TransitionsDone' /\ TargetsDone' /\ TargetsBegun'
  BY <1>1 DEF TransitionsDone, TargetsDone, TargetsBegun
<1> QED
  BY <1>1, <1>2, <1>4, <1>5, Moved DEF Progress, Shape

(* The refusal: the stack that is too deep is a step of the pair under way. *)
LEMMA OverflowKeeps == Inv /\ StackOverflows => Inv'
<1> SUFFICES ASSUME Inv, StackOverflows PROVE Inv'
  OBVIOUS
<1>1. /\ Walking /\ tr <= Len(Transitions) /\ Lexed /\ TooDeep(After) /\ pc' = "failed"
      /\ lang' = lang /\ reached' = reached /\ queue' = queue
      /\ head' = head /\ tr' = tr /\ tg' = tg
  BY DEF StackOverflows, walkVars
<1>2. Overflows(lang, Work) /\ Work \in reached
  BY <1>1, CurrentStep DEF Inv, Overflows
<1>3. RefusedForDepth'
  BY <1>1, <1>2 DEF RefusedForDepth
<1>4. Shape' /\ Rooted' /\ Shallow' /\ Over'
  BY <1>1 DEF Inv, Shape, Rooted, Shallow, Over
<1>5. WalkIsSound'
  <2>1. WalkIsSound /\ lang' = lang /\ queue' = queue
    BY <1>1 DEF Inv
  <2> QED
    BY <2>1 DEF WalkIsSound
<1>6. Progress'
  BY <1>1 DEF Inv, Progress, ItemsDone, TransitionsDone, TargetsDone, TargetsBegun
<1> QED
  BY <1>3, <1>4, <1>5, <1>6 DEF Inv

(* Appending, as facts about indices. *)
LEMMA AppendFacts ==
  ASSUME NEW S, NEW q \in Seq(S), NEW e \in S
  PROVE  /\ Append(q, e) \in Seq(S)
         /\ Len(Append(q, e)) = Len(q) + 1
         /\ Append(q, e)[Len(q) + 1] = e
         /\ \A k \in 1..Len(q) : Append(q, e)[k] = q[k]
  OBVIOUS

(* What a call of editorLexerReachTryAdd makes of the worklist. *)
LEMMA Added ==
  ASSUME Inv, TryAdd
  PROVE  /\ After \in Grounded /\ tr \in Steps(lang, Work) /\ After = StackAfter(lang, Work, tr)
         /\ Work \in Pairs /\ head \in 1..Len(queue)
         /\ queue' \in Seq(Pairs)
         /\ Len(queue) \in Nat /\ Len(queue') \in Nat /\ Len(queue') >= Len(queue)
         /\ \A k \in 1..Len(queue) : queue'[k] = queue[k]
         /\ \A k \in 1..Len(queue') :
              k \in 1..Len(queue) \/ (queue'[k] = TargetItem /\ k > Len(queue))
         /\ reached' = {queue'[k] : k \in 1..Len(queue')}
         /\ reached \subseteq reached'
         /\ Target # NoContext => TargetItem \in reached'
<1>1. /\ Walking /\ tr <= Len(Transitions) /\ Lexed /\ tg <= Len(Current.targets)
      /\ reached' = IF Newly THEN reached \cup {TargetItem} ELSE reached
      /\ queue' = IF Newly THEN Append(queue, TargetItem) ELSE queue
  BY DEF TryAdd
<1>2. /\ queue \in Seq(Pairs) /\ Len(queue) \in Nat /\ head \in 1..Len(queue)
      /\ reached = {queue[k] : k \in 1..Len(queue)} /\ lang \in LanguageSpace
      /\ tg \in Nat \ {0}
  BY <1>1 DEF Inv, Shape, Walking
<1>3. /\ tr \in Steps(lang, Work) /\ After = StackAfter(lang, Work, tr) /\ Work \in Pairs
      /\ Current.targets \in Seq(Contexts \cup {NoContext})
  BY <1>1, CurrentStep DEF Inv
<1>4. After \in Grounded
  BY <1>2, <1>3, StepGrounded
<1>5. Target # NoContext => TargetItem \in Pairs
  <2>1. Target \in Contexts \cup {NoContext}
    BY <1>1, <1>2, <1>3 DEF Target
  <2> QED
    BY <2>1, <1>4 DEF TargetItem, Pairs
<1>6. CASE Newly
  <2>1. Target # NoContext /\ TargetItem \in Pairs
    BY <1>5, <1>6 DEF Newly
  <2>2. queue' = Append(queue, TargetItem) /\ reached' = reached \cup {TargetItem}
    BY <1>1, <1>6
  <2>3. /\ queue' \in Seq(Pairs) /\ Len(queue') = Len(queue) + 1
        /\ queue'[Len(queue) + 1] = TargetItem
        /\ \A k \in 1..Len(queue) : queue'[k] = queue[k]
    BY <1>2, <2>1, <2>2, AppendFacts
  <2>4. reached' = {queue'[k] : k \in 1..Len(queue')}
    BY <1>2, <2>2, <2>3
  <2>5. /\ Len(queue') \in Nat /\ Len(queue') >= Len(queue)
        /\ \A k \in 1..Len(queue') :
             k \in 1..Len(queue) \/ (queue'[k] = TargetItem /\ k > Len(queue))
    BY <1>2, <2>3
  <2>6. reached \subseteq reached' /\ TargetItem \in reached'
    BY <2>2
  <2> QED
    BY <1>2, <1>3, <1>4, <2>3, <2>4, <2>5, <2>6
<1>7. CASE ~Newly
  <2>1. queue' = queue /\ reached' = reached
    BY <1>1, <1>7
  <2>2. Target # NoContext => TargetItem \in reached'
    BY <1>7, <2>1 DEF Newly
  <2> QED
    BY <1>2, <1>3, <1>4, <2>1, <2>2
<1> QED
  BY <1>6, <1>7

LEMMA TryAddKeeps == Inv /\ TryAdd => Inv'
<1> SUFFICES ASSUME Inv, TryAdd PROVE Inv'
  OBVIOUS
<1>1. /\ pc = "walk" /\ ~TooDeep(After) /\ tg <= Len(Current.targets) /\ tg' = tg + 1
      /\ lang' = lang /\ pc' = pc /\ head' = head /\ tr' = tr
  BY DEF TryAdd, Walking
<1>2. /\ head \in Nat /\ tr \in Nat \ {0} /\ tg \in Nat \ {0}
      /\ queue \in Seq(Pairs) /\ reached = {queue[k] : k \in 1..Len(queue)}
  BY DEF Inv, Shape
<1>3. head \in 1..Len(queue) /\ head <= Len(queue') /\ queue'[head] = queue[head]
  BY <1>2, Added
<1>4. Shape'
  BY <1>1, <1>2, <1>3, Added DEF Inv, Shape
<1>5. Rooted' /\ Over'
  <2>1. Len(queue) > 0 => Len(queue') > 0 /\ queue'[1] = queue[1]
    BY Added
  <2> QED
    BY <1>1, <2>1 DEF Inv, Rooted, Over, RootItem
<1>6. RefusedForDepth'
  BY <1>1 DEF RefusedForDepth
<1>7. Shallow'
  <2> SUFFICES ASSUME NEW k \in 1..Len(queue') PROVE Len(queue'[k].stack) <= MaxModes
    BY DEF Shallow
  <2>1. CASE k \in 1..Len(queue)
    BY <2>1, Added DEF Inv, Shallow
  <2>2. CASE queue'[k] = TargetItem
    <3>1. Len(After) \in Nat
      BY Added DEF Grounded
    <3> QED
      BY <1>1, <2>2, <3>1, LexReachAssumption DEF TargetItem, TooDeep
  <2> QED
    BY <2>1, <2>2, Added
<1>8. ItemsDone'
  <2> SUFFICES ASSUME NEW k \in 1..(head - 1), NEW i \in Steps(lang, queue[k])
               PROVE  StepDone(lang', reached', queue[k], i)
    <3>1. \A k \in 1..(head - 1) : queue'[k] = queue[k]
      BY <1>2, <1>3, Added
    <3> QED
      BY <1>1, <3>1 DEF ItemsDone
  <2>1. StepDone(lang, reached, queue[k], i)
    BY DEF Inv, Progress, ItemsDone
  <2> QED
    BY <1>1, <2>1, Added, DoneKept
<1>9. TransitionsDone'
  <2> SUFFICES ASSUME NEW i \in 1..(tr - 1) PROVE StepDone(lang', reached', queue[head], i)
    BY <1>1, <1>3 DEF TransitionsDone
  <2>1. StepDone(lang, reached, queue[head], i)
    BY <1>3 DEF Inv, Progress, TransitionsDone
  <2> QED
    BY <1>1, <2>1, Added, DoneKept
<1>10. TargetsDone' /\ TargetsBegun'
  <2>1. PICK item \in Pairs, i \in Nat, n \in Nat : item = queue[head] /\ i = tr /\ n = tg
    BY <1>2, Added DEF Work
  <2>2. i \in Steps(lang, item)
    BY <2>1, Added DEF Work
  <2>3. TargetDone(lang', reached', item, i, n)
    <3>1. Target # NoContext => [ctx |-> Target, stack |-> StackAfter(lang, item, i)] \in reached'
      BY <2>1, Added DEF TargetItem, Work
    <3>2. Target = lang.transitions[item.ctx][i].targets[n]
      BY <2>1 DEF Target, Current, Transitions, Work
    <3> QED
      BY <1>1, <3>1, <3>2 DEF TargetDone
  <2>4. ASSUME NEW g \in 1..(n - 1), g \in 1..Len(lang.transitions[item.ctx][i].targets)
        PROVE  TargetDone(lang', reached', item, i, g)
    <3>1. TargetDone(lang, reached, item, i, g)
      BY <1>3, <2>1, <2>2, <2>4 DEF Inv, Progress, TargetsDone
    <3> QED
      BY <1>1, <3>1, Added, DoneKept
  <2>5. \A g \in 1..n : g \in 1..(n - 1) \/ g = n
    OBVIOUS
  <2>6. queue'[head'] = item /\ tr' = i /\ tg' - 1 = n
    BY <1>1, <1>2, <1>3, <2>1
  <2>7. TargetsDone'
    BY <1>1, <2>3, <2>4, <2>5, <2>6 DEF TargetsDone
  <2> QED
    BY <1>1, <1>3, <2>2, <2>6, <2>7 DEF TargetsBegun
<1>11. WalkIsSound'
  <2> SUFFICES ASSUME NEW k \in 1..Len(queue')
               PROVE  \/ k = 1 /\ queue'[1] = RootItem(lang)
                      \/ \E j \in 1..(k - 1) : \E i \in Steps(lang, queue'[j]) :
                           LET t == lang.transitions[queue'[j].ctx][i] IN
                           /\ \E g \in 1..Len(t.targets) : t.targets[g] = queue'[k].ctx
                           /\ StackAfter(lang, queue'[j], i) = queue'[k].stack
    BY <1>1 DEF WalkIsSound
  <2>1. CASE k \in 1..Len(queue)
    <3>1. \A j \in 1..k : queue'[j] = queue[j]
      BY <2>1, Added
    <3>2. CASE k = 1 /\ queue[1] = RootItem(lang)
      BY <3>1, <3>2
    <3>3. CASE ~(k = 1 /\ queue[1] = RootItem(lang))
      <4>1. PICK j \in 1..(k - 1) : \E i \in Steps(lang, queue[j]) :
              /\ \E g \in 1..Len(lang.transitions[queue[j].ctx][i].targets) :
                   lang.transitions[queue[j].ctx][i].targets[g] = queue[k].ctx
              /\ StackAfter(lang, queue[j], i) = queue[k].stack
        BY <2>1, <3>3 DEF Inv, WalkIsSound
      <4>2. j \in 1..k /\ k \in 1..k
        OBVIOUS
      <4>3. queue'[j] = queue[j] /\ queue'[k] = queue[k]
        BY <3>1, <4>2
      <4> QED
        BY <4>1, <4>3
    <3> QED
      BY <3>2, <3>3
  <2>2. CASE queue'[k] = TargetItem /\ k > Len(queue)
    <3>1. head \in 1..(k - 1) /\ queue'[head] = Work
      BY <1>2, <1>3, <2>2, Added DEF Work
    <3>2. tr \in Steps(lang, queue'[head]) /\ StackAfter(lang, queue'[head], tr) = queue'[k].stack
      BY <2>2, <3>1, Added DEF TargetItem
    <3>3. /\ lang.transitions[queue'[head].ctx][tr] = Current
          /\ Current.targets[tg] = queue'[k].ctx
      BY <2>2, <3>1 DEF TargetItem, Target, Current, Transitions
    <3>4. Current.targets \in Seq(Contexts \cup {NoContext})
      BY CurrentStep DEF TryAdd, Inv
    <3>5. tg \in 1..Len(Current.targets)
      BY <1>1, <1>2, <3>4
    <3> QED
      BY <3>1, <3>2, <3>3, <3>5
  <2> QED
    BY <2>1, <2>2, Added
<1> QED
  BY <1>4, <1>5, <1>6, <1>7, <1>8, <1>9, <1>10, <1>11 DEF Inv, Progress
-----------------------------------------------------------------------------
(* The walk starts with the root and the start stack, or with nothing. *)
LEMMA InvInit == Init => Inv
<1> SUFFICES ASSUME Init PROVE Inv
  OBVIOUS
<1>1. /\ lang \in Languages /\ lang \in LanguageSpace
      /\ pc = "walk" /\ head = 1 /\ tr = 1 /\ tg = 1
  BY LexReachAssumption DEF Init
<1>2. RootItem(lang).stack = <<Start>> /\ RootItem(lang).ctx = lang.root
  BY DEF RootItem, StartStack
<1>3. <<Start>> \in Grounded /\ Len(<<Start>>) = 1
  BY LexReachAssumption DEF Grounded
<1>4. lang.root # NoContext => RootItem(lang) \in Pairs
  <2>1. lang.root \in Contexts \cup {NoContext}
    BY <1>1 DEF LanguageSpace
  <2> QED
    BY <2>1, <1>3 DEF Pairs, RootItem, StartStack
<1>5. CASE lang.root = NoContext
  <2>1. queue = <<>> /\ reached = {}
    BY <1>5 DEF Init
  <2> QED
    BY <1>1, <1>5, <2>1 DEF Inv, Shape, Progress, ItemsDone, TransitionsDone, TargetsDone,
       TargetsBegun, Rooted, Over, Shallow, WalkIsSound, RefusedForDepth
<1>6. CASE lang.root # NoContext
  <2>1. queue = <<RootItem(lang)>> /\ reached = {RootItem(lang)}
    BY <1>6 DEF Init
  <2>2. queue \in Seq(Pairs) /\ Len(queue) = 1 /\ queue[1] = RootItem(lang)
    BY <1>4, <1>6, <2>1
  <2>3. Shape
    BY <1>1, <2>1, <2>2 DEF Shape
  <2>4. Progress
    BY <1>1, <2>2 DEF Progress, ItemsDone, TransitionsDone, TargetsDone, TargetsBegun
  <2>5. Rooted /\ Over /\ RefusedForDepth
    BY <1>1, <2>2 DEF Rooted, Over, RefusedForDepth
  <2>6. Shallow
    <3>1. queue[1].stack = <<Start>> /\ Len(queue[1].stack) = 1
      BY <1>2, <1>3, <2>2
    <3>2. 1 <= MaxModes
      BY LexReachAssumption
    <3>3. \A k \in 1..Len(queue) : k = 1
      BY <2>2
    <3> QED
      BY <3>1, <3>2, <3>3 DEF Shallow
  <2>7. WalkIsSound
    BY <2>2 DEF WalkIsSound
  <2> QED
    BY <2>3, <2>4, <2>5, <2>6, <2>7 DEF Inv
<1> QED
  BY <1>5, <1>6

(* Every step keeps the invariant; the resolution does not touch the walk. *)
LEMMA InvStep == Inv /\ [Next]_vars => Inv'
<1> SUFFICES ASSUME Inv, [Next]_vars PROVE Inv'
  OBVIOUS
<1>1. CASE SkipTransition \/ TryAdd \/ NextTransition \/ NextItem \/ StackOverflows
  BY <1>1, SkipKeeps, TryAddKeeps, NextTransitionKeeps, NextItemKeeps, OverflowKeeps
<1>2. CASE WalkEnds
  BY <1>2, Aside DEF WalkEnds
<1>3. CASE Ask
  BY <1>3, Aside DEF Ask
<1>4. CASE LookAtStack
  BY <1>4, Aside DEF LookAtStack, Consider, Settle
<1>5. CASE StacksAgree
  BY <1>5, Aside DEF StacksAgree, Settle
<1>6. CASE FallBack
  BY <1>6, Aside DEF FallBack
<1>7. CASE LookAtState
  BY <1>7, Aside DEF LookAtState
<1>8. CASE SkipRule \/ LookAtRule
  BY <1>8, Aside DEF SkipRule, LookAtRule, Consider, Settle
<1>9. CASE StatesAgree
  BY <1>9, Aside DEF StatesAgree, Settle
<1>10. CASE Ended \/ UNCHANGED vars
  BY <1>10, Aside DEF Ended, vars
<1> QED
  BY <1>1, <1>2, <1>3, <1>4, <1>5, <1>6, <1>7, <1>8, <1>9, <1>10 DEF Next

LEMMA Invariant == Spec => []Inv
BY InvInit, InvStep, PTL DEF Spec

(* Once the walk is over it has missed nothing: the pairs are closed under  *)
(* the steps of the grammar and the lexer, and none of them overflows       *)
(* (editorComputeLexerStackReachability).                                   *)
THEOREM WalkComplete == Spec => []WalkIsComplete
<1>1. Inv => WalkIsComplete
  <2> SUFFICES ASSUME Inv, pc \notin {"walk", "failed"}
               PROVE  ClosedUnder(lang, reached) /\ \A item \in reached : ~Overflows(lang, item)
    BY DEF WalkIsComplete
  <2>1. head = Len(queue) + 1 /\ reached = {queue[k] : k \in 1..Len(queue)} /\ Len(queue) \in Nat
    BY DEF Inv, Over, Shape
  <2>2. \A item \in reached : \A i \in Steps(lang, item) : StepDone(lang, reached, item, i)
    BY <2>1 DEF Inv, Progress, ItemsDone
  <2>3. lang.root # NoContext => RootItem(lang) \in reached
    BY <2>1 DEF Inv, Rooted
  <2>4. ClosedUnder(lang, reached)
    BY <2>2, <2>3 DEF ClosedUnder, StepDone, TargetDone
  <2> QED
    BY <2>2, <2>4 DEF Overflows, StepDone
<1> QED
  BY Invariant, <1>1, PTL

(* Nothing is reached without a reason: from the root or from a pair before. *)
THEOREM WalkSound == Spec => []WalkIsSound
<1>1. Inv => WalkIsSound
  BY DEF Inv
<1> QED
  BY Invariant, <1>1, PTL

(* A refusal names a stack that does grow beyond the maximum. *)
THEOREM DepthRefused == Spec => []RefusedForDepth
<1>1. Inv => RefusedForDepth
  BY DEF Inv
<1> QED
  BY Invariant, <1>1, PTL

(* Every stack the walk meets is one the lexer can have, and no operation of *)
(* a lex rule takes the start state away.                                    *)
THEOREM StacksMirror == Spec => []StacksMirrorTheLexer
<1>1. Inv => StacksMirrorTheLexer
  <2> SUFFICES ASSUME Inv, NEW k \in 1..Len(queue)
               PROVE  queue[k].stack[1] = Start /\ Len(queue[k].stack) \in 1..MaxModes
    BY DEF StacksMirrorTheLexer, Inv, Shape
  <2>1. queue[k] \in Pairs
    BY DEF Inv, Shape
  <2>2. queue[k].stack \in Grounded
    BY <2>1 DEF Pairs
  <2> QED
    BY <2>2, LexReachAssumption DEF Grounded, Inv, Shallow
<1> QED
  BY Invariant, <1>1, PTL

(* The pairs are the least that are closed under the steps: any family of   *)
(* sets closed in this way, one for each language, holds all of them.       *)
THEOREM ReachedIsLeast ==
  ASSUME NEW CONSTANT R, \A l \in Languages : ClosedUnder(l, R[l])
  PROVE  Spec => [](reached \subseteq R[lang])
<1> DEFINE Within == Inv /\ reached \subseteq R[lang]
<1>1. Init => Within
  <2> SUFFICES ASSUME Init PROVE Inv /\ reached \subseteq R[lang]
    OBVIOUS
  <2>1. Inv
    BY InvInit
  <2>2. ClosedUnder(lang, R[lang])
    BY DEF Init
  <2> QED
    BY <2>1, <2>2 DEF Init, ClosedUnder
<1>2. Within /\ [Next]_vars => Within'
  <2> SUFFICES ASSUME Inv, reached \subseteq R[lang], [Next]_vars
               PROVE  Inv' /\ reached' \subseteq R[lang']
    OBVIOUS
  <2>1. Inv' /\ lang' = lang
    BY InvStep DEF Next, SkipTransition, StackOverflows, TryAdd, NextTransition, NextItem, WalkEnds,
       Ask, LookAtStack, StacksAgree, FallBack, LookAtState, SkipRule, LookAtRule, StatesAgree, Ended, vars
  <2>2. CASE ~TryAdd
    <3>1. reached' = reached
      BY <2>2 DEF Next, SkipTransition, StackOverflows, NextTransition, NextItem, WalkEnds, Ask,
         LookAtStack, StacksAgree, FallBack, LookAtState, SkipRule, LookAtRule, StatesAgree, Ended, vars, walkVars
    <3> QED
      BY <2>1, <3>1
  <2>3. CASE TryAdd /\ Newly
    <3>1. ClosedUnder(lang, R[lang])
      BY DEF Inv, Shape
    <3>2. /\ Work \in R[lang] /\ tr \in Steps(lang, Work) /\ ~TooDeep(StackAfter(lang, Work, tr))
          /\ TargetItem.stack = StackAfter(lang, Work, tr)
      BY <2>3, Added, CurrentStep DEF TryAdd, Inv, TargetItem
    <3>3. tg \in 1..Len(lang.transitions[Work.ctx][tr].targets)
      <4>1. tg \in Nat \ {0} /\ tg <= Len(Current.targets) /\ Current.targets \in Seq(Contexts \cup {NoContext})
        BY <2>3, CurrentStep DEF TryAdd, Inv, Shape
      <4> QED
        BY <4>1 DEF Current, Transitions
    <3>4. TargetItem = [ctx |-> lang.transitions[Work.ctx][tr].targets[tg],
                        stack |-> StackAfter(lang, Work, tr)]
      BY <3>2 DEF TargetItem, Target, Current, Transitions
    <3>5. lang.transitions[Work.ctx][tr].targets[tg] # NoContext
      BY <2>3 DEF Newly, Target, Current, Transitions
    <3>6. TargetItem \in R[lang]
      BY <3>1, <3>2, <3>3, <3>4, <3>5 DEF ClosedUnder
    <3> QED
      BY <2>1, <2>3, <3>6 DEF TryAdd
  <2>4. CASE TryAdd /\ ~Newly
    BY <2>1, <2>4 DEF TryAdd
  <2> QED
    BY <2>2, <2>3, <2>4
<1>3. Within => reached \subseteq R[lang]
  OBVIOUS
<1> HIDE DEF Within
<1> QED
  BY <1>1, <1>2, <1>3, PTL DEF Spec

-----------------------------------------------------------------------------
(* The resolution of a token.  Its candidates agree with the first one until *)
(* it settles, are rules of the token, and come from where it looks; what    *)
(* has been looked at is among them.                                         *)
StacksHere == StacksOrStart(asked[1])
Alike(rs) == \A i \in 1..Len(rs) : Key(rs[i]) = Key(rs[1])

Unasked == pc \in {"walk", "failed", "walked"} => candidates = <<>> /\ list = <<>>

SettledLast == verdict = "open" <=> pc # "answered"

LookingAtStacks ==
  pc = "stacks" =>
    /\ Alike(candidates)
    /\ list = <<>>
    /\ rest \subseteq StacksHere
    /\ \A i \in 1..Len(candidates) : \E m \in MakersHere : candidates[i] = RuleOf(m)
    /\ \A s \in StacksHere \ rest :
         HasRule(lang, TopMode(s), Tok) =>
           \E i \in 1..Len(candidates) : candidates[i] = RuleOf(TopMode(s))

LookingAtStates ==
  pc = "states" =>
    /\ Alike(candidates)
    /\ MakersHere = {}
    /\ rest \subseteq Modes
    /\ \A i \in 1..Len(candidates) : candidates[i] \in AllRules
    /\ \A i \in 1..Len(list) : \E m \in Modes : \E j \in 1..Len(lang.rules[m]) :
         list[i] = lang.rules[m][j]
    /\ \A m \in Modes \ rest : \A j \in 1..Len(lang.rules[m]) :
         lang.rules[m][j].token = Tok =>
           \/ \E i \in 1..Len(candidates) : candidates[i] = lang.rules[m][j]
           \/ \E i \in 1..Len(list) : list[i] = lang.rules[m][j]

Resolving ==
  /\ candidates \in Seq(LexRule) /\ list \in Seq(LexRule)
  /\ Unasked
  /\ SettledLast
  /\ LookingAtStacks
  /\ LookingAtStates
  /\ TokenSettled

-----------------------------------------------------------------------------
(* Rules of one token with one emission key are one rule.                   *)
LEMMA KeyFacts ==
  ASSUME NEW a \in LexRule, NEW b \in LexRule, Key(a) = Key(b)
  PROVE  /\ a.regex = b.regex /\ a.priority = b.priority
         /\ a.token = b.token => a = b
BY DEF Key, LexRule

(* What is found for a token makes it.                                      *)
LEMMA FoundMakes ==
  ASSUME NEW l \in LanguageSpace, NEW m \in Modes, NEW t, HasRule(l, m, t)
  PROVE  /\ FindRule(l, m, t) \in LexRule /\ FindRule(l, m, t).token = t
         /\ \E j \in 1..Len(l.rules[m]) : FindRule(l, m, t) = l.rules[m][j]
<1>1. PICK i \in FirstRuleFor(l, m, t) : i = (CHOOSE j \in FirstRuleFor(l, m, t) : TRUE)
  BY DEF HasRule
<1>2. i \in 1..Len(l.rules[m]) /\ l.rules[m][i].token = t
  BY DEF FirstRuleFor
<1>3. FindRule(l, m, t) = l.rules[m][i]
  BY <1>1 DEF FindRule
<1> QED
  BY <1>2, <1>3, FoundIsRule

(* A set of numbers that is not empty has a least one.                      *)
LEMMA LeastRule ==
  ASSUME NEW T \in SUBSET Nat, T # {}
  PROVE  \E i \in T : \A k \in T : i <= k
<1>1. IsWellFoundedOn(OpToRel(<, Nat), Nat)
  BY NatLessThanWellFounded
<1>2. PICK i \in T : \A k \in T : <<k, i>> \notin OpToRel(<, Nat)
  BY <1>1, WFMin
<1>3. ASSUME NEW k \in T PROVE i <= k
  <2>1. ~(k < i)
    BY <1>2 DEF OpToRel
  <2> QED
    BY <2>1
<1> QED
  BY <1>3

(* A state with a rule for the token has a first one.                       *)
LEMMA RuleIsFound ==
  ASSUME NEW l \in LanguageSpace, NEW m \in Modes, NEW t,
         NEW j \in 1..Len(l.rules[m]), l.rules[m][j].token = t
  PROVE  HasRule(l, m, t)
<1> DEFINE T == {i \in 1..Len(l.rules[m]) : l.rules[m][i].token = t}
<1>1. l.rules[m] \in Seq(LexRule)
  BY DEF LanguageSpace
<1>2. T \in SUBSET Nat /\ T # {}
  BY <1>1
<1>3. PICK i \in T : \A k \in T : i <= k
  <2> HIDE DEF T
  <2> QED
    BY <1>2, LeastRule
<1>4. ASSUME NEW k \in 1..(i - 1) PROVE l.rules[m][k].token # t
  BY <1>1, <1>3
<1>5. i \in FirstRuleFor(l, m, t)
  BY <1>3, <1>4 DEF FirstRuleFor
<1> QED
  BY <1>5 DEF HasRule

(* The modes on top of the stacks looked at.                                *)
LEMMA Tops ==
  ASSUME Inv
  PROVE  /\ MakersHere = {m \in {TopMode(s) : s \in StacksHere} : HasRule(lang, m, Tok)}
         /\ \A s \in StacksHere : TopMode(s) \in Modes
         /\ MakersHere \subseteq Modes /\ IsFiniteSet(MakersHere)
         /\ \A m \in MakersHere : RuleOf(m) \in LexRule /\ RuleOf(m).token = Tok
<1>1. lang \in LanguageSpace /\ \A item \in reached : item \in Pairs
  BY DEF Inv, Shape
<1>2. \A item \in reached : TopMode(item.stack) \in Modes
  BY <1>1 DEF Pairs, Grounded, TopMode
<1>3. TopMode(StartStack) = Start /\ Start \in Modes
  BY LexReachAssumption DEF TopMode, StartStack
<1>4. {TopMode(s) : s \in StacksHere} = ModesHere
  BY <1>3 DEF StacksHere, StacksOrStart, StacksAt, ModesHere
<1>5. \A s \in StacksHere : TopMode(s) \in Modes
  BY <1>2, <1>3 DEF StacksHere, StacksOrStart, StacksAt
<1>6. MakersHere = {m \in {TopMode(s) : s \in StacksHere} : HasRule(lang, m, Tok)}
  BY <1>4 DEF MakersHere
<1>7. MakersHere \subseteq Modes /\ IsFiniteSet(MakersHere)
  BY <1>5, <1>6, FS_Subset, LexReachAssumption
<1>8. \A m \in MakersHere : RuleOf(m) \in LexRule /\ RuleOf(m).token = Tok
  BY <1>1, <1>6, <1>7, FoundMakes DEF RuleOf
<1> QED
  BY <1>5, <1>6, <1>7, <1>8

(* What a function makes of a finite set is finite.                         *)
LEMMA ImageFinite ==
  ASSUME NEW S, IsFiniteSet(S), NEW f, DOMAIN f = S
  PROVE  IsFiniteSet({f[x] : x \in S})
<1> DEFINE T == {f[x] : x \in S}
           g == [x \in S |-> f[x]]
<1>1. g \in Surjection(S, T)
  BY DEF Surjection
<1> QED
  BY <1>1, FS_Surjection

(* All rules of the token, as facts about a finite set.                     *)
LEMMA AllFinite ==
  ASSUME Inv
  PROVE  /\ IsFiniteSet(AllRules) /\ AllRules \subseteq LexRule
         /\ IsFiniteSet({q.regex : q \in AllRules})
         /\ \A q : q \in AllRules <=>
              q.token = Tok /\ \E m \in Modes : \E j \in 1..Len(lang.rules[m]) : q = lang.rules[m][j]
<1> DEFINE Of(m) == {lang.rules[m][i] : i \in 1..Len(lang.rules[m])}
<1>1. \A m \in Modes : lang.rules[m] \in Seq(LexRule)
  BY DEF Inv, Shape, LanguageSpace
<1>2. ASSUME NEW m \in Modes PROVE IsFiniteSet(Of(m))
  <2>1. IsFiniteSet(1..Len(lang.rules[m]))
    BY <1>1, FS_Interval
  <2>2. DOMAIN lang.rules[m] = 1..Len(lang.rules[m])
    BY <1>1
  <2> QED
    BY <2>1, <2>2, ImageFinite
<1> HIDE DEF Of
<1>3. IsFiniteSet({Of(m) : m \in Modes})
  <2> DEFINE f == [m \in Modes |-> Of(m)]
  <2>1. IsFiniteSet(Modes) /\ DOMAIN f = Modes
    BY LexReachAssumption
  <2>2. {Of(m) : m \in Modes} = {f[m] : m \in Modes}
    OBVIOUS
  <2> HIDE DEF f
  <2> QED
    BY <2>1, <2>2, ImageFinite
<1>4. IsFiniteSet(UNION {Of(m) : m \in Modes})
  BY <1>2, <1>3, FS_UNION
<1>5. AllRules \subseteq UNION {Of(m) : m \in Modes}
  BY DEF AllRules, Of
<1>6. IsFiniteSet(AllRules)
  BY <1>4, <1>5, FS_Subset
<1>7. AllRules \subseteq LexRule
  BY <1>1 DEF AllRules
<1>8. IsFiniteSet({q.regex : q \in AllRules})
  <2> DEFINE f == [q \in AllRules |-> q.regex]
  <2>1. DOMAIN f = AllRules /\ {q.regex : q \in AllRules} = {f[q] : q \in AllRules}
    OBVIOUS
  <2> HIDE DEF f
  <2> QED
    BY <1>6, <2>1, ImageFinite
<1>9. \A q : q \in AllRules <=>
        q.token = Tok /\ \E m \in Modes : \E j \in 1..Len(lang.rules[m]) : q = lang.rules[m][j]
  BY DEF AllRules
<1> QED
  BY <1>6, <1>7, <1>8, <1>9

(* A finite set by its size.                                                *)
LEMMA SizeFacts ==
  ASSUME NEW S, IsFiniteSet(S)
  PROVE  /\ Cardinality(S) = 0 => S = {}
         /\ Cardinality(S) = 1 => \A a, b \in S : a = b
         /\ Cardinality(S) = 2 => (\A a, b \in S : a # b => S = {a, b})
                                  /\ \E a, b \in S : a # b
<1>1. Cardinality(S) = 0 => S = {}
  BY FS_EmptySet
<1>2. \A a, b : IsFiniteSet({a, b}) /\ (a # b => Cardinality({a, b}) = 2)
  <2> SUFFICES ASSUME NEW a, NEW b PROVE IsFiniteSet({a, b}) /\ (a # b => Cardinality({a, b}) = 2)
    OBVIOUS
  <2>1. IsFiniteSet({b}) /\ Cardinality({b}) = 1
    BY FS_Singleton
  <2>2. IsFiniteSet({b} \cup {a}) /\ Cardinality({b} \cup {a}) = IF a \in {b} THEN 1 ELSE 2
    BY <2>1, FS_AddElement
  <2>3. {b} \cup {a} = {a, b}
    OBVIOUS
  <2> QED
    BY <2>2, <2>3
<1>3. ASSUME NEW a \in S, NEW b \in S, a # b
      PROVE  Cardinality(S) # 1 /\ (Cardinality(S) = 2 => S = {a, b})
  <2>1. {a, b} \in SUBSET S /\ Cardinality({a, b}) = 2
    BY <1>2, <1>3
  <2>2. Cardinality({a, b}) <= Cardinality(S) /\ Cardinality(S) \in Nat
    BY <2>1, FS_Subset, FS_CardinalityType
  <2>3. Cardinality({a, b}) = Cardinality(S) => {a, b} = S
    BY <2>1, FS_Subset
  <2> QED
    BY <2>1, <2>2, <2>3
<1>4. Cardinality(S) = 2 => \E a, b \in S : a # b
  <2> SUFFICES ASSUME Cardinality(S) = 2, \A a, b \in S : a = b PROVE FALSE
    OBVIOUS
  <2>1. S # {}
    BY FS_EmptySet
  <2>2. PICK a : a \in S
    BY <2>1
  <2>3. S = {a}
    BY <2>2
  <2> QED
    BY <2>3, FS_Singleton
<1> QED
  BY <1>1, <1>3, <1>4

(* A candidate that disagrees with those before it, which agree: the regular *)
(* expressions are one if it has that of the first, and the best of them is  *)
(* the first or the new one.                                                *)
LEMMA Disagreement ==
  ASSUME NEW cs \in Seq(LexRule), cs # <<>>, Alike(cs), NEW r \in LexRule
  PROVE  LET ds == Append(cs, r) IN
         /\ ds \in Seq(LexRule) /\ ds[1] = cs[1]
         /\ SameRegex(ds) <=> r.regex = cs[1].regex
         /\ Best(ds) \in 1..Len(ds)
         /\ ds[Best(ds)] = r \/ (Key(ds[Best(ds)]) = Key(cs[1]) /\ \E i \in 1..Len(cs) : ds[Best(ds)] = cs[i])
         /\ ds[Best(ds)].priority >= r.priority /\ ds[Best(ds)].priority >= cs[1].priority
<1> DEFINE ds == Append(cs, r)
<1>1. /\ Len(cs) \in Nat \ {0} /\ Len(ds) = Len(cs) + 1 /\ ds \in Seq(LexRule)
      /\ ds[Len(cs) + 1] = r /\ \A i \in 1..Len(cs) : ds[i] = cs[i] /\ cs[i] \in LexRule
  OBVIOUS
<1>2. \A i \in 1..Len(cs) : cs[i].regex = cs[1].regex /\ cs[i].priority = cs[1].priority
  <2> SUFFICES ASSUME NEW i \in 1..Len(cs)
               PROVE  cs[i].regex = cs[1].regex /\ cs[i].priority = cs[1].priority
    OBVIOUS
  <2>1. cs[i] \in LexRule /\ cs[1] \in LexRule /\ Key(cs[i]) = Key(cs[1])
    BY <1>1 DEF Alike
  <2> QED
    BY <2>1, KeyFacts
<1>3. cs[1].priority \in Nat /\ r.priority \in Nat
  BY <1>1 DEF LexRule
<1> HIDE DEF ds
<1>4. \A i \in 1..Len(ds) : i \in 1..Len(cs) \/ i = Len(ds)
  BY <1>1
<1>5. 1 \in 1..Len(cs) /\ ds[1] = cs[1] /\ Len(ds) \in 1..Len(ds) /\ 1 \in 1..Len(ds)
      /\ 1..Len(cs) \subseteq 1..Len(ds)
  BY <1>1
<1>6. SameRegex(ds) <=> r.regex = cs[1].regex
  BY <1>1, <1>2, <1>4, <1>5 DEF SameRegex
<1>7. \E i \in 1..Len(ds) : \A j \in 1..Len(ds) :
        ds[i].priority > ds[j].priority \/ (ds[i].priority = ds[j].priority /\ i <= j)
  <2>1. CASE r.priority > cs[1].priority
    <3>1. ds[Len(ds)] = r
      BY <1>1
    <3>2. ASSUME NEW j \in 1..Len(cs)  PROVE ds[Len(ds)].priority > ds[j].priority
      <4>1. ds[j] = cs[j] /\ cs[j].priority = cs[1].priority
        BY <1>1, <1>2
      <4> QED
        BY <2>1, <3>1, <4>1
    <3>3. \A j \in 1..Len(ds) :
            ds[Len(ds)].priority > ds[j].priority \/ (ds[Len(ds)].priority = ds[j].priority /\ Len(ds) <= j)
      <4>1. Len(ds) \in Nat
        BY <1>1
      <4> QED
        BY <1>4, <3>2, <4>1
    <3> QED
      BY <1>5, <3>3
  <2>2. CASE ~(r.priority > cs[1].priority)
    <3>1. \A j \in 1..Len(ds) :
            ds[1].priority > ds[j].priority \/ (ds[1].priority = ds[j].priority /\ 1 <= j)
      <4>1. ASSUME NEW j \in 1..Len(cs)  PROVE ds[1].priority = ds[j].priority /\ 1 <= j
        <5>1. ds[j] = cs[j] /\ cs[j].priority = cs[1].priority
          BY <1>1, <1>2
        <5> QED
          BY <1>5, <5>1
      <4>2. ds[Len(ds)] = r /\ ds[1] = cs[1] /\ 1 <= Len(ds)
        BY <1>1, <1>5
      <4>3. cs[1].priority > r.priority \/ cs[1].priority = r.priority
        BY <1>3, <2>2
      <4> QED
        BY <1>4, <4>1, <4>2, <4>3
    <3> QED
      BY <3>1, <1>5
  <2> QED
    BY <2>1, <2>2
<1>8. /\ Best(ds) \in 1..Len(ds)
      /\ \A j \in 1..Len(ds) : ds[Best(ds)].priority > ds[j].priority
            \/ (ds[Best(ds)].priority = ds[j].priority /\ Best(ds) <= j)
  BY <1>7 DEF Best
<1>9. PICK b \in 1..Len(ds) : b = Best(ds)
  BY <1>8
<1>10. ds[b].priority \in Nat
  <2>1. ds[b] \in LexRule
    BY <1>1
  <2> QED
    BY <2>1 DEF LexRule
<1>11. ds[b].priority >= r.priority /\ ds[b].priority >= cs[1].priority
  BY <1>1, <1>3, <1>5, <1>8, <1>9, <1>10
<1>12. ds[b] = r \/ (Key(ds[b]) = Key(cs[1]) /\ \E i \in 1..Len(cs) : ds[b] = cs[i])
  <2>1. CASE b = Len(ds)
    <3>1. Len(ds) = Len(cs) + 1 /\ ds[Len(cs) + 1] = r
      BY <1>1
    <3> QED
      BY <2>1, <3>1
  <2>2. CASE b \in 1..Len(cs)
    <3>1. ds[b] = cs[b] /\ Key(cs[b]) = Key(cs[1])
      BY <2>2, <1>1 DEF Alike
    <3> QED
      BY <2>2, <3>1
  <2> QED
    BY <2>1, <2>2, <1>4
<1> QED
  BY <1>1, <1>5, <1>6, <1>9, <1>11, <1>12 DEF ds

-----------------------------------------------------------------------------
(* What was asked, and what is looked at for it, stands while it is resolved. *)
LEMMA AskedKept ==
  ASSUME lang' = lang, reached' = reached, asked' = asked
  PROVE  /\ MakersHere' = MakersHere /\ AllRules' = AllRules /\ Tok' = Tok
         /\ StacksHere' = StacksHere
         /\ \A m : RuleOf(m)' = RuleOf(m)
<1>1. Tok' = Tok
  BY DEF Tok
<1>2. StacksHere' = StacksHere
  BY DEF StacksHere, StacksOrStart, StacksAt
<1>3. MakersHere' = MakersHere
  BY <1>1 DEF MakersHere, ModesHere
<1>4. AllRules' = AllRules
  BY <1>1 DEF AllRules
<1>5. \A m : RuleOf(m)' = RuleOf(m)
  BY <1>1 DEF RuleOf
<1> QED
  BY <1>1, <1>2, <1>3, <1>4, <1>5

(* Before it settles there is nothing to be right about.                    *)
LEMMA Unsettled ==
  ASSUME pc' # "answered", verdict' = "open"
  PROVE  SettledLast' /\ TokenSettled'
BY DEF SettledLast, TokenSettled, BoundWhereItIsLexed, TwoStatesSettled, FallbackIsUnique

(* The stacks disagree: two rules of the context's modes.                   *)
LEMMA StacksDisagree ==
  ASSUME Inv, Resolving, pc = "stacks",
         lang' = lang, reached' = reached, asked' = asked,
         NEW m \in MakersHere, candidates # <<>>, Key(RuleOf(m)) # Key(candidates[1]),
         candidates' = Append(candidates, RuleOf(m)), pc' = "answered",
         IF SameRegex(candidates') THEN verdict' = "rule" /\ picked' = Best(candidates')
                                   ELSE verdict' = "ambiguous"
  PROVE  TokenSettled'
<1> DEFINE r == RuleOf(m)
           cs == candidates
           ds == Append(cs, r)
<1>1. /\ cs \in Seq(LexRule) /\ Alike(cs) /\ cs # <<>>
      /\ \A i \in 1..Len(cs) : \E n \in MakersHere : cs[i] = RuleOf(n)
  BY DEF Resolving, LookingAtStacks
<1>2. \A n \in MakersHere : RuleOf(n) \in LexRule /\ RuleOf(n).token = Tok
  BY Tops
<1>3. r \in LexRule
  BY <1>2
<1> HIDE DEF r, cs
<1>4. /\ ds \in Seq(LexRule) /\ ds[1] = cs[1]
      /\ SameRegex(ds) <=> r.regex = cs[1].regex
      /\ Best(ds) \in 1..Len(ds)
      /\ ds[Best(ds)] = r \/ \E i \in 1..Len(cs) : ds[Best(ds)] = cs[i]
      /\ ds[Best(ds)].priority >= r.priority /\ ds[Best(ds)].priority >= cs[1].priority
  BY <1>1, <1>3, Disagreement
<1>5. PICK k \in MakersHere : cs[1] = RuleOf(k)
  <2>1. 1 \in 1..Len(cs)
    BY <1>1
  <2> QED
    BY <2>1, <1>1
<1>6. PICK p \in MakersHere : ds[Best(ds)] = RuleOf(p)
  BY <1>1, <1>4 DEF r
<1>7. k # m
  BY <1>5 DEF cs
<1>8. candidates' = ds
  BY DEF cs, r
<1> HIDE DEF ds
<1>9. BoundWhereItIsLexed'
  <2> SUFFICES ASSUME verdict' = "rule"
               PROVE  /\ candidates'[picked'].token = Tok
                      /\ \E n \in MakersHere : candidates'[picked'] = RuleOf(n)
    BY AskedKept DEF BoundWhereItIsLexed
  <2>1. candidates'[picked'] = RuleOf(p)
    BY <1>6, <1>8
  <2> QED
    BY <2>1, <1>2
<1>10. TwoStatesSettled'
  <2> SUFFICES ASSUME Cardinality(MakersHere) = 2, NEW x \in MakersHere, NEW y \in MakersHere
               PROVE  /\ RuleOf(x).regex # RuleOf(y).regex => verdict' = "ambiguous"
                      /\ RuleOf(x).regex = RuleOf(y).regex /\ RuleOf(x).priority > RuleOf(y).priority
                           => verdict' = "rule" /\ candidates'[picked'] = RuleOf(x)
    <3>1. MakersHere' = MakersHere /\ \A x : RuleOf(x)' = RuleOf(x)
      BY AskedKept
    <3> HIDE DEF RuleOf, MakersHere
    <3> QED
      BY <3>1 DEF TwoStatesSettled
  <2>1. MakersHere = {k, m}
    BY <1>7, Tops, SizeFacts
  <2>2. RuleOf(x).regex # RuleOf(y).regex => r.regex # cs[1].regex
    BY <2>1, <1>5 DEF r
  <2>3. ASSUME RuleOf(x).regex = RuleOf(y).regex, RuleOf(x).priority > RuleOf(y).priority
        PROVE  verdict' = "rule" /\ candidates'[picked'] = RuleOf(x)
    <3>1. RuleOf(x).priority \in Nat /\ RuleOf(y).priority \in Nat
      BY <1>2 DEF LexRule
    <3>2. {x, y} = {k, m}
      BY <2>1, <2>3, <3>1
    <3>3. r.regex = cs[1].regex
      BY <2>3, <3>2, <1>5 DEF r
    <3>4. verdict' = "rule" /\ candidates'[picked'] = RuleOf(p)
      BY <3>3, <1>4, <1>6, <1>8
    <3>5. RuleOf(p).priority >= RuleOf(x).priority
      BY <3>2, <1>4, <1>5, <1>6 DEF r
    <3>6. p # y
      BY <3>1, <3>5, <2>3
    <3> QED
      BY <3>2, <3>4, <3>6, <2>1
  <2> QED
    BY <2>2, <2>3, <1>4, <1>8
<1>11. FallbackIsUnique'
  BY AskedKept DEF FallbackIsUnique
<1> QED
  BY <1>9, <1>10, <1>11 DEF TokenSettled

(* The stacks agree: the first candidate stands for all of them.            *)
LEMMA StacksAgreed ==
  ASSUME Inv, Resolving, StacksAgree
  PROVE  Resolving'
<1>1. /\ pc = "stacks" /\ rest = {} /\ candidates # <<>>
      /\ pc' = "answered" /\ verdict' = "rule" /\ picked' = 1
      /\ lang' = lang /\ reached' = reached /\ asked' = asked
      /\ list' = list /\ candidates' = candidates
  BY DEF StacksAgree, Settle, walkVars
<1>2. /\ candidates \in Seq(LexRule) /\ Alike(candidates)
      /\ \A i \in 1..Len(candidates) : \E m \in MakersHere : candidates[i] = RuleOf(m)
      /\ \A s \in StacksHere : HasRule(lang, TopMode(s), Tok) =>
           \E i \in 1..Len(candidates) : candidates[i] = RuleOf(TopMode(s))
  BY <1>1 DEF Resolving, LookingAtStacks
<1>3. PICK k \in MakersHere : candidates[1] = RuleOf(k)
  <2>1. 1 \in 1..Len(candidates)
    BY <1>1, <1>2
  <2> QED
    BY <2>1, <1>2
<1>4. \A m \in MakersHere : RuleOf(m) \in LexRule /\ RuleOf(m).token = Tok
  BY Tops
<1>5. ASSUME NEW m \in MakersHere
      PROVE  RuleOf(m).regex = candidates[1].regex /\ RuleOf(m).priority = candidates[1].priority
  <2>1. PICK s \in StacksHere : m = TopMode(s) /\ HasRule(lang, TopMode(s), Tok)
    BY Tops
  <2>2. PICK i \in 1..Len(candidates) : candidates[i] = RuleOf(m)
    BY <2>1, <1>2
  <2>3. Key(RuleOf(m)) = Key(candidates[1])
    BY <2>2, <1>2 DEF Alike
  <2>4. RuleOf(m) \in LexRule /\ candidates[1] \in LexRule
    BY <1>3, <1>4
  <2> QED
    BY <2>3, <2>4, KeyFacts
<1>6. BoundWhereItIsLexed'
  BY <1>1, <1>3, <1>4, AskedKept DEF BoundWhereItIsLexed
<1>7. TwoStatesSettled'
  <2>1. \A x, y \in MakersHere : RuleOf(x).regex = RuleOf(y).regex /\ ~(RuleOf(x).priority > RuleOf(y).priority)
    <3> SUFFICES ASSUME NEW x \in MakersHere, NEW y \in MakersHere
                 PROVE  RuleOf(x).regex = RuleOf(y).regex /\ ~(RuleOf(x).priority > RuleOf(y).priority)
      OBVIOUS
    <3>1. RuleOf(x).priority \in Nat
      BY <1>4 DEF LexRule
    <3> QED
      BY <3>1, <1>5
  <2> QED
    BY <2>1, <1>1, AskedKept DEF TwoStatesSettled
<1>8. FallbackIsUnique'
  BY <1>1, <1>3, AskedKept DEF FallbackIsUnique
<1> QED
  BY <1>1, <1>2, <1>6, <1>7, <1>8 DEF Resolving, Unasked, SettledLast, LookingAtStacks,
     LookingAtStates, TokenSettled

(* A stack is looked at.                                                    *)
LEMMA StackLookedAt ==
  ASSUME Inv, Resolving, LookAtStack
  PROVE  Resolving'
<1>1. /\ pc = "stacks" /\ lang' = lang /\ reached' = reached /\ asked' = asked /\ list' = list
  BY DEF LookAtStack, walkVars
<1>2. PICK s \in rest :
        /\ rest' = rest \ {s}
        /\ IF HasRule(lang, TopMode(s), Tok)
             THEN Consider(RuleOf(TopMode(s)), "ambiguous")
             ELSE UNCHANGED <<candidates, pc, verdict, picked>>
  BY DEF LookAtStack, RuleOf
<1>3. /\ candidates \in Seq(LexRule) /\ Alike(candidates) /\ list = <<>> /\ verdict = "open"
      /\ rest \subseteq StacksHere
      /\ \A i \in 1..Len(candidates) : \E m \in MakersHere : candidates[i] = RuleOf(m)
      /\ \A q \in StacksHere \ rest : HasRule(lang, TopMode(q), Tok) =>
           \E i \in 1..Len(candidates) : candidates[i] = RuleOf(TopMode(q))
  BY <1>1 DEF Resolving, LookingAtStacks, SettledLast
<1>4. CASE ~HasRule(lang, TopMode(s), Tok)
  <2>1. candidates' = candidates /\ pc' = "stacks" /\ verdict' = "open" /\ rest' = rest \ {s}
    BY <1>1, <1>2, <1>3, <1>4
  <2>2. LookingAtStacks'
    BY <2>1, <1>1, <1>3, <1>4, AskedKept DEF LookingAtStacks
  <2> QED
    BY <2>1, <2>2, <1>1, <1>3, Unsettled DEF Resolving, Unasked, LookingAtStates
<1>5. CASE HasRule(lang, TopMode(s), Tok)
  <2> DEFINE m == TopMode(s)
  <2>1. m \in MakersHere
    BY <1>2, <1>3, <1>5, Tops
  <2>2. RuleOf(m) \in LexRule
    BY <2>1, Tops
  <2>3. /\ candidates' = Append(candidates, RuleOf(m))
        /\ rest' = rest \ {s}
    BY <1>2, <1>5 DEF Consider
  <2> HIDE DEF m
  <2>4. /\ candidates' \in Seq(LexRule) /\ Len(candidates) \in Nat
        /\ Len(candidates') = Len(candidates) + 1
        /\ candidates'[Len(candidates) + 1] = RuleOf(m)
        /\ \A i \in 1..Len(candidates) : candidates'[i] = candidates[i]
    BY <2>2, <2>3, <1>3
  <2>5. CASE candidates # <<>> /\ Key(RuleOf(m)) # Key(candidates[1])
    <3>1. /\ pc' = "answered"
          /\ IF SameRegex(candidates') THEN verdict' = "rule" /\ picked' = Best(candidates')
                                       ELSE verdict' = "ambiguous"
      BY <2>5, <1>2, <1>5 DEF Consider, Settle, m
    <3>2. TokenSettled'
      BY <3>1, <2>1, <2>3, <2>5, <1>1, StacksDisagree
    <3> QED
      BY <3>1, <3>2, <2>4, <1>1, <1>3 DEF Resolving, Unasked, SettledLast, LookingAtStacks, LookingAtStates
  <2>6. CASE ~(candidates # <<>> /\ Key(RuleOf(m)) # Key(candidates[1]))
    <3>1. pc' = "stacks" /\ verdict' = "open"
      BY <2>6, <1>1, <1>2, <1>3, <1>5 DEF Consider, m
    <3>2. \A i \in 1..Len(candidates') : i \in 1..Len(candidates) \/ i = Len(candidates) + 1
      BY <2>4
    <3>3. Alike(candidates')
      <4>1. CASE candidates = <<>>
        <5>1. \A i \in 1..Len(candidates') : i = 1
          BY <4>1, <2>4
        <5> QED
          BY <5>1 DEF Alike
      <4>2. CASE candidates # <<>>
        <5>1. 1 \in 1..Len(candidates)
          BY <4>2, <1>3
        <5>2. candidates'[1] = candidates[1] /\ Key(RuleOf(m)) = Key(candidates[1])
          BY <5>1, <4>2, <2>4, <2>6
        <5> QED
          BY <5>2, <3>2, <2>4, <1>3 DEF Alike
      <4> QED
        BY <4>1, <4>2
    <3>4. \A i \in 1..Len(candidates') : \E n \in MakersHere : candidates'[i] = RuleOf(n)
      BY <3>2, <2>1, <2>4, <1>3
    <3>5. ASSUME NEW q \in StacksHere \ rest', HasRule(lang, TopMode(q), Tok)
          PROVE  \E i \in 1..Len(candidates') : candidates'[i] = RuleOf(TopMode(q))
      <4>1. CASE q = s
        <5>1. Len(candidates) + 1 \in 1..Len(candidates')
          BY <2>4
        <5> QED
          BY <5>1, <4>1, <2>4 DEF m
      <4>2. CASE q # s
        <5>1. PICK i \in 1..Len(candidates) : candidates[i] = RuleOf(TopMode(q))
          BY <4>2, <3>5, <2>3, <1>3
        <5>2. i \in 1..Len(candidates')
          BY <2>4
        <5> QED
          BY <5>1, <5>2, <2>4
      <4> QED
        BY <4>1, <4>2
    <3>6. rest' \subseteq StacksHere
      BY <2>3, <1>3
    <3>7. LookingAtStacks'
      BY <3>3, <3>4, <3>5, <3>6, <1>1, <1>3, AskedKept DEF LookingAtStacks
    <3> QED
      BY <3>1, <3>7, <2>4, <1>1, <1>3, Unsettled DEF Resolving, Unasked, LookingAtStates
  <2> QED
    BY <2>5, <2>6
<1> QED
  BY <1>4, <1>5

(* A rule of the list under way, for the token, is one of all rules for it.  *)
LEMMA ListedRule ==
  ASSUME Inv, Resolving, pc = "states", list # <<>>, Head(list).token = Tok
  PROVE  Head(list) \in AllRules
<1>1. list \in Seq(LexRule)
  BY DEF Resolving
<1>2. 1 \in 1..Len(list) /\ Head(list) = list[1]
  BY <1>1
<1>3. PICK m \in Modes : \E j \in 1..Len(lang.rules[m]) : list[1] = lang.rules[m][j]
  BY <1>2 DEF Resolving, LookingAtStates
<1> QED
  BY <1>2, <1>3, AllFinite

(* Two of all the rules for the token disagree.                             *)
LEMMA StatesDisagree ==
  ASSUME Inv, Resolving, pc = "states",
         lang' = lang, reached' = reached, asked' = asked,
         NEW r \in AllRules, candidates # <<>>, Key(r) # Key(candidates[1]),
         candidates' = Append(candidates, r), pc' = "answered",
         IF SameRegex(candidates') THEN verdict' = "rule" /\ picked' = Best(candidates')
                                   ELSE verdict' = "missing"
  PROVE  TokenSettled'
<1> DEFINE cs == candidates
           ds == Append(cs, r)
           regexes == {q.regex : q \in AllRules}
<1>1. /\ cs \in Seq(LexRule) /\ Alike(cs) /\ cs # <<>> /\ MakersHere = {}
      /\ \A i \in 1..Len(cs) : cs[i] \in AllRules
  BY DEF Resolving, LookingAtStates
<1>2. /\ AllRules \subseteq LexRule /\ IsFiniteSet(AllRules) /\ IsFiniteSet(regexes)
      /\ \A q \in AllRules : q.token = Tok
  BY AllFinite
<1>3. r \in LexRule /\ candidates' = ds
  BY <1>2
<1> HIDE DEF cs
<1>4. /\ SameRegex(ds) <=> r.regex = cs[1].regex
      /\ Best(ds) \in 1..Len(ds)
      /\ ds[Best(ds)] = r \/ \E i \in 1..Len(cs) : ds[Best(ds)] = cs[i]
  BY <1>1, <1>3, Disagreement
<1>5. cs[1] \in AllRules
  <2>1. 1 \in 1..Len(cs)
    BY <1>1
  <2> QED
    BY <2>1, <1>1
<1>6. ds[Best(ds)] \in AllRules
  BY <1>1, <1>4
<1>7. r # cs[1]
  BY DEF cs
<1> HIDE DEF ds
<1>8. verdict' = IF r.regex = cs[1].regex THEN "rule" ELSE "missing"
  BY <1>3, <1>4
<1>9. verdict' = "rule" => candidates'[picked'] \in AllRules
  BY <1>3, <1>6
<1>10. Cardinality(regexes) = 1 => verdict' = "rule"
  <2>1. r.regex \in regexes /\ cs[1].regex \in regexes
    BY <1>5
  <2> QED
    BY <2>1, <1>2, <1>8, SizeFacts
<1>11. Cardinality(regexes) # 0
  <2>1. r.regex \in regexes
    OBVIOUS
  <2> HIDE DEF regexes
  <2> QED
    BY <2>1, <1>2, SizeFacts
<1>12. Cardinality(regexes) = 2 /\ Cardinality(AllRules) = 2 => verdict' = "missing"
  <2> SUFFICES ASSUME Cardinality(regexes) = 2, Cardinality(AllRules) = 2
               PROVE  r.regex # cs[1].regex
    BY <1>8
  <2>1. AllRules = {r, cs[1]}
    BY <1>2, <1>5, <1>7, SizeFacts
  <2>2. \E x, y \in regexes : x # y
    <3> HIDE DEF regexes
    <3> QED
      BY <1>2, SizeFacts
  <2> QED
    BY <2>1, <2>2
<1>13. MakersHere' = {} /\ AllRules' = AllRules /\ Tok' = Tok
  BY <1>1, AskedKept
<1>14. BoundWhereItIsLexed'
  BY <1>2, <1>9, <1>13 DEF BoundWhereItIsLexed
<1>15. TwoStatesSettled'
  BY <1>13 DEF TwoStatesSettled
<1>16. FallbackIsUnique'
  BY <1>10, <1>11, <1>12, <1>13 DEF FallbackIsUnique
<1> QED
  BY <1>14, <1>15, <1>16 DEF TokenSettled

(* The lexer states agree, or none has a rule for the token.                *)
LEMMA StatesAgreed ==
  ASSUME Inv, Resolving, StatesAgree
  PROVE  Resolving'
<1> DEFINE regexes == {q.regex : q \in AllRules}
<1>1. /\ pc = "states" /\ rest = {} /\ list = <<>> /\ pc' = "answered"
      /\ lang' = lang /\ reached' = reached /\ asked' = asked
      /\ list' = list /\ candidates' = candidates
      /\ IF candidates = <<>> THEN verdict' = "missing" ELSE verdict' = "rule" /\ picked' = 1
  BY DEF StatesAgree, Settle, walkVars
<1>2. /\ candidates \in Seq(LexRule) /\ Alike(candidates) /\ MakersHere = {}
      /\ \A i \in 1..Len(candidates) : candidates[i] \in AllRules
      /\ \A m \in Modes : \A j \in 1..Len(lang.rules[m]) : lang.rules[m][j].token = Tok =>
           \/ \E i \in 1..Len(candidates) : candidates[i] = lang.rules[m][j]
           \/ \E i \in 1..Len(list) : list[i] = lang.rules[m][j]
  BY <1>1 DEF Resolving, LookingAtStates
<1>3. /\ AllRules \subseteq LexRule /\ IsFiniteSet(AllRules) /\ IsFiniteSet(regexes)
      /\ \A q \in AllRules : q.token = Tok
  BY AllFinite
<1>4. \A i : i \notin 1..Len(list)
  BY <1>1
<1>5. ASSUME NEW q \in AllRules PROVE \E i \in 1..Len(candidates) : candidates[i] = q
  <2>1. PICK m \in Modes : \E j \in 1..Len(lang.rules[m]) : q = lang.rules[m][j]
    BY AllFinite
  <2>2. PICK j \in 1..Len(lang.rules[m]) : q = lang.rules[m][j]
    BY <2>1
  <2> QED
    BY <2>2, <1>2, <1>3, <1>4
<1>6. candidates = <<>> => AllRules = {}
  BY <1>5
<1>7. candidates # <<>> => candidates[1] \in AllRules
  <2>1. candidates # <<>> => 1 \in 1..Len(candidates)
    BY <1>2
  <2> QED
    BY <2>1, <1>2
<1>8. ASSUME NEW q \in AllRules PROVE candidates # <<>> /\ q = candidates[1]
  <2>1. PICK i \in 1..Len(candidates) : candidates[i] = q
    BY <1>5
  <2>2. candidates # <<>>
    BY <1>6
  <2>3. candidates[1] \in AllRules /\ Key(q) = Key(candidates[1])
    BY <2>1, <2>2, <1>2, <1>7 DEF Alike
  <2> QED
    BY <2>2, <2>3, <1>3, KeyFacts
<1>9. Cardinality(regexes) = 1 => verdict' = "rule"
  <2>1. Cardinality({}) # 1
    BY FS_EmptySet
  <2>2. candidates = <<>> => Cardinality(regexes) # 1
    <3>1. candidates = <<>> => regexes = {}
      BY <1>6
    <3> QED
      BY <2>1, <3>1
  <2> QED
    BY <2>2, <1>1
<1>10. Cardinality(regexes) = 0 => verdict' = "missing"
  <2>1. Cardinality(regexes) = 0 => AllRules = {}
    <3>1. Cardinality(regexes) = 0 => regexes = {}
      BY <1>3, SizeFacts
    <3> QED
      BY <3>1
  <2> QED
    BY <2>1, <1>1, <1>7
<1>11. Cardinality(AllRules) # 2
  BY <1>3, <1>8, SizeFacts
<1>12. MakersHere' = {} /\ AllRules' = AllRules /\ Tok' = Tok
  BY <1>1, <1>2, AskedKept
<1>13. BoundWhereItIsLexed'
  BY <1>1, <1>3, <1>7, <1>12 DEF BoundWhereItIsLexed
<1>14. TwoStatesSettled'
  BY <1>12 DEF TwoStatesSettled
<1>15. FallbackIsUnique'
  BY <1>9, <1>10, <1>11, <1>12 DEF FallbackIsUnique
<1> QED
  BY <1>1, <1>2, <1>13, <1>14, <1>15 DEF Resolving, Unasked, SettledLast, LookingAtStacks,
     LookingAtStates, TokenSettled

(* A rule of a lexer state is looked at.                                    *)
LEMMA RuleLookedAt ==
  ASSUME Inv, Resolving, LookAtRule
  PROVE  Resolving'
<1> DEFINE r == Head(list)
<1>1. /\ pc = "states" /\ list # <<>> /\ r.token = Tok /\ list' = Tail(list)
      /\ lang' = lang /\ reached' = reached /\ asked' = asked /\ rest' = rest
      /\ Consider(r, "missing")
  BY DEF LookAtRule, walkVars
<1>2. /\ candidates \in Seq(LexRule) /\ list \in Seq(LexRule) /\ Alike(candidates) /\ verdict = "open"
      /\ MakersHere = {} /\ rest \subseteq Modes
      /\ \A i \in 1..Len(candidates) : candidates[i] \in AllRules
      /\ \A i \in 1..Len(list) : \E m \in Modes : \E j \in 1..Len(lang.rules[m]) :
           list[i] = lang.rules[m][j]
      /\ \A m \in Modes \ rest : \A j \in 1..Len(lang.rules[m]) : lang.rules[m][j].token = Tok =>
           \/ \E i \in 1..Len(candidates) : candidates[i] = lang.rules[m][j]
           \/ \E i \in 1..Len(list) : list[i] = lang.rules[m][j]
  BY <1>1 DEF Resolving, LookingAtStates, SettledLast
<1>3. r \in AllRules /\ r \in LexRule
  BY <1>1, ListedRule, AllFinite
<1>4. /\ Len(list) \in Nat \ {0} /\ list' \in Seq(LexRule) /\ Len(list') = Len(list) - 1
      /\ r = list[1] /\ \A i \in 1..Len(list') : list'[i] = list[i + 1]
  BY <1>1, <1>2
<1> HIDE DEF r
<1>5. candidates' = Append(candidates, r)
  BY <1>1 DEF Consider
<1>6. /\ candidates' \in Seq(LexRule) /\ Len(candidates) \in Nat
      /\ Len(candidates') = Len(candidates) + 1
      /\ candidates'[Len(candidates) + 1] = r
      /\ \A i \in 1..Len(candidates) : candidates'[i] = candidates[i]
  BY <1>2, <1>3, <1>5
<1>7. CASE candidates # <<>> /\ Key(r) # Key(candidates[1])
  <2>1. /\ pc' = "answered"
        /\ IF SameRegex(candidates') THEN verdict' = "rule" /\ picked' = Best(candidates')
                                     ELSE verdict' = "missing"
    BY <1>1, <1>7 DEF Consider, Settle
  <2>2. TokenSettled'
    BY <2>1, <1>1, <1>3, <1>5, <1>7, StatesDisagree
  <2> QED
    BY <2>1, <2>2, <1>4, <1>6 DEF Resolving, Unasked, SettledLast, LookingAtStacks, LookingAtStates
<1>8. CASE ~(candidates # <<>> /\ Key(r) # Key(candidates[1]))
  <2>1. pc' = "states" /\ verdict' = "open"
    BY <1>1, <1>2, <1>8 DEF Consider
  <2>2. \A i \in 1..Len(candidates') : i \in 1..Len(candidates) \/ i = Len(candidates) + 1
    BY <1>6
  <2>3. Alike(candidates')
    <3>1. CASE candidates = <<>>
      <4>1. \A i \in 1..Len(candidates') : i = 1
        BY <3>1, <1>6
      <4> QED
        BY <4>1 DEF Alike
    <3>2. CASE candidates # <<>>
      <4>1. 1 \in 1..Len(candidates)
        BY <3>2, <1>2
      <4>2. candidates'[1] = candidates[1] /\ Key(r) = Key(candidates[1])
        BY <4>1, <3>2, <1>6, <1>8
      <4> QED
        BY <4>2, <2>2, <1>2, <1>6 DEF Alike
    <3> QED
      BY <3>1, <3>2
  <2>4. \A i \in 1..Len(candidates') : candidates'[i] \in AllRules
    BY <2>2, <1>2, <1>3, <1>6
  <2>5. \A i \in 1..Len(list') : \E m \in Modes : \E j \in 1..Len(lang.rules[m]) :
          list'[i] = lang.rules[m][j]
    <3>1. \A i \in 1..Len(list') : i + 1 \in 1..Len(list)
      BY <1>4
    <3> QED
      BY <3>1, <1>2, <1>4
  <2>6. ASSUME NEW m \in Modes \ rest, NEW j \in 1..Len(lang.rules[m]), lang.rules[m][j].token = Tok
        PROVE  \/ \E i \in 1..Len(candidates') : candidates'[i] = lang.rules[m][j]
               \/ \E i \in 1..Len(list') : list'[i] = lang.rules[m][j]
    <3>1. CASE \E i \in 1..Len(candidates) : candidates[i] = lang.rules[m][j]
      <4>1. PICK i \in 1..Len(candidates) : candidates[i] = lang.rules[m][j]
        BY <3>1
      <4>2. i \in 1..Len(candidates')
        BY <1>6
      <4> QED
        BY <4>1, <4>2, <1>6
    <3>2. CASE \E i \in 1..Len(list) : list[i] = lang.rules[m][j]
      <4>1. PICK i \in 1..Len(list) : list[i] = lang.rules[m][j]
        BY <3>2
      <4>2. CASE i = 1
        <5>1. Len(candidates) + 1 \in 1..Len(candidates')
          BY <1>6
        <5> QED
          BY <5>1, <4>1, <4>2, <1>4, <1>6
      <4>3. CASE i # 1
        <5>1. i - 1 \in 1..Len(list') /\ (i - 1) + 1 = i
          BY <4>3, <1>4
        <5> QED
          BY <5>1, <4>1, <1>4
      <4> QED
        BY <4>2, <4>3
    <3> QED
      BY <2>6, <1>2, <3>1, <3>2
  <2>7. LookingAtStates'
    <3>1. /\ lang' = lang /\ rest' = rest /\ rest \subseteq Modes
          /\ MakersHere' = {} /\ AllRules' = AllRules /\ Tok' = Tok
      BY <1>1, <1>2, AskedKept
    <3> QED
      BY <3>1, <2>3, <2>4, <2>5, <2>6 DEF LookingAtStates
  <2> QED
    BY <2>1, <2>7, <1>4, <1>6, Unsettled DEF Resolving, Unasked, LookingAtStacks
<1> QED
  BY <1>7, <1>8

(* A rule for another token is passed over.                                 *)
LEMMA RuleSkipped ==
  ASSUME Inv, Resolving, SkipRule
  PROVE  Resolving'
<1>1. /\ pc = "states" /\ list # <<>> /\ Head(list).token # Tok /\ list' = Tail(list)
      /\ lang' = lang /\ reached' = reached /\ asked' = asked /\ rest' = rest
      /\ pc' = pc /\ verdict' = verdict /\ candidates' = candidates
  BY DEF SkipRule, walkVars
<1>2. /\ candidates \in Seq(LexRule) /\ list \in Seq(LexRule) /\ Alike(candidates) /\ verdict = "open"
      /\ MakersHere = {} /\ rest \subseteq Modes
      /\ \A i \in 1..Len(candidates) : candidates[i] \in AllRules
      /\ \A i \in 1..Len(list) : \E m \in Modes : \E j \in 1..Len(lang.rules[m]) :
           list[i] = lang.rules[m][j]
      /\ \A m \in Modes \ rest : \A j \in 1..Len(lang.rules[m]) : lang.rules[m][j].token = Tok =>
           \/ \E i \in 1..Len(candidates) : candidates[i] = lang.rules[m][j]
           \/ \E i \in 1..Len(list) : list[i] = lang.rules[m][j]
  BY <1>1 DEF Resolving, LookingAtStates, SettledLast
<1>3. /\ Len(list) \in Nat \ {0} /\ list' \in Seq(LexRule) /\ Len(list') = Len(list) - 1
      /\ Head(list) = list[1] /\ \A i \in 1..Len(list') : list'[i] = list[i + 1]
  BY <1>1, <1>2
<1>4. \A i \in 1..Len(list') : \E m \in Modes : \E j \in 1..Len(lang.rules[m]) :
        list'[i] = lang.rules[m][j]
  <2>1. \A i \in 1..Len(list') : i + 1 \in 1..Len(list)
    BY <1>3
  <2> QED
    BY <2>1, <1>2, <1>3
<1>5. ASSUME NEW m \in Modes \ rest, NEW j \in 1..Len(lang.rules[m]), lang.rules[m][j].token = Tok,
             NEW i \in 1..Len(list), list[i] = lang.rules[m][j]
      PROVE  \E k \in 1..Len(list') : list'[k] = lang.rules[m][j]
  <2>1. i # 1
    BY <1>1, <1>3, <1>5
  <2>2. i - 1 \in 1..Len(list') /\ (i - 1) + 1 = i
    BY <2>1, <1>3
  <2> QED
    BY <2>2, <1>3, <1>5
<1>6. LookingAtStates'
  <2>1. /\ lang' = lang /\ rest' = rest /\ rest \subseteq Modes /\ candidates' = candidates
        /\ MakersHere' = {} /\ AllRules' = AllRules /\ Tok' = Tok
    BY <1>1, <1>2, AskedKept
  <2>2. Alike(candidates) /\ \A i \in 1..Len(candidates) : candidates[i] \in AllRules
    BY <1>2
  <2>3. \A m \in Modes \ rest : \A j \in 1..Len(lang.rules[m]) : lang.rules[m][j].token = Tok =>
          \/ \E i \in 1..Len(candidates) : candidates[i] = lang.rules[m][j]
          \/ \E i \in 1..Len(list') : list'[i] = lang.rules[m][j]
    BY <1>2, <1>5
  <2> QED
    BY <2>1, <2>2, <2>3, <1>4 DEF LookingAtStates
<1> QED
  BY <1>1, <1>2, <1>3, <1>6, Unsettled DEF Resolving, Unasked, LookingAtStacks

(* The rules of a lexer state are next.                                     *)
LEMMA StateLookedAt ==
  ASSUME Inv, Resolving, LookAtState
  PROVE  Resolving'
<1>1. PICK m \in rest : rest' = rest \ {m} /\ list' = lang.rules[m]
  BY DEF LookAtState
<1>2. /\ pc = "states" /\ list = <<>> /\ lang' = lang /\ reached' = reached /\ asked' = asked
      /\ pc' = pc /\ verdict' = verdict /\ candidates' = candidates
  BY DEF LookAtState, walkVars
<1>3. /\ candidates \in Seq(LexRule) /\ Alike(candidates) /\ verdict = "open"
      /\ MakersHere = {} /\ rest \subseteq Modes
      /\ \A i \in 1..Len(candidates) : candidates[i] \in AllRules
      /\ \A n \in Modes \ rest : \A j \in 1..Len(lang.rules[n]) : lang.rules[n][j].token = Tok =>
           \/ \E i \in 1..Len(candidates) : candidates[i] = lang.rules[n][j]
           \/ \E i \in 1..Len(list) : list[i] = lang.rules[n][j]
  BY <1>2 DEF Resolving, LookingAtStates, SettledLast
<1>4. m \in Modes /\ list' \in Seq(LexRule)
  BY <1>1, <1>3 DEF Inv, Shape, LanguageSpace
<1>5. ASSUME NEW n \in Modes \ rest', NEW j \in 1..Len(lang.rules[n]), lang.rules[n][j].token = Tok
      PROVE  \/ \E i \in 1..Len(candidates) : candidates[i] = lang.rules[n][j]
             \/ \E i \in 1..Len(list') : list'[i] = lang.rules[n][j]
  <2>1. CASE n = m
    BY <2>1, <1>1
  <2>2. CASE n # m
    <3>1. n \in Modes \ rest
      BY <2>2, <1>1
    <3>2. \A i : i \notin 1..Len(list)
      BY <1>2
    <3> QED
      BY <3>1, <3>2, <1>3, <1>5
  <2> QED
    BY <2>1, <2>2
<1>6. LookingAtStates'
  BY <1>1, <1>2, <1>3, <1>4, <1>5, AskedKept DEF LookingAtStates
<1> QED
  BY <1>2, <1>3, <1>4, <1>6, Unsettled DEF Resolving, Unasked, LookingAtStacks

(* No stack of the context lexes the token.                                 *)
LEMMA FellBack ==
  ASSUME Inv, Resolving, FallBack
  PROVE  Resolving'
<1>1. /\ pc = "stacks" /\ rest = {} /\ candidates = <<>> /\ pc' = "states" /\ rest' = Modes
      /\ lang' = lang /\ reached' = reached /\ asked' = asked
      /\ list' = list /\ verdict' = verdict /\ candidates' = candidates
  BY DEF FallBack, walkVars
<1>2. /\ list = <<>> /\ verdict = "open"
      /\ \A s \in StacksHere : HasRule(lang, TopMode(s), Tok) =>
           \E i \in 1..Len(candidates) : candidates[i] = RuleOf(TopMode(s))
  BY <1>1 DEF Resolving, LookingAtStacks, SettledLast
<1>3. \A i : i \notin 1..Len(candidates) /\ i \notin 1..Len(list)
  BY <1>1, <1>2
<1>4. MakersHere = {}
  BY <1>2, <1>3, Tops
<1>5. Alike(candidates)
  BY <1>3 DEF Alike
<1>6. LookingAtStates'
  BY <1>1, <1>2, <1>3, <1>4, <1>5, AskedKept DEF LookingAtStates
<1> QED
  BY <1>1, <1>2, <1>6, Unsettled DEF Resolving, Unasked, LookingAtStacks

(* A token of a context is asked for.                                       *)
LEMMA TokenAsked ==
  ASSUME Inv, Resolving, Ask
  PROVE  Resolving'
<1>1. PICK c \in Contexts : \E i \in 1..Len(lang.transitions[c]) :
        asked' = <<c, lang.transitions[c][i].token>> /\ rest' = StacksOrStart(c)
  BY DEF Ask
<1>2. /\ pc = "walked" /\ pc' = "stacks" /\ lang' = lang /\ reached' = reached
      /\ list' = list /\ candidates' = candidates /\ verdict' = verdict
  BY DEF Ask, walkVars
<1>3. candidates = <<>> /\ list = <<>> /\ verdict = "open"
  BY <1>2 DEF Resolving, Unasked, SettledLast
<1>4. rest' = StacksHere'
  BY <1>1, <1>2 DEF StacksHere, StacksOrStart, StacksAt
<1>5. \A i : i \notin 1..Len(candidates)
  BY <1>3
<1>6. Alike(candidates)
  BY <1>5 DEF Alike
<1>7. LookingAtStacks'
  BY <1>2, <1>3, <1>4, <1>5, <1>6 DEF LookingAtStacks
<1> QED
  BY <1>2, <1>3, <1>7, Unsettled DEF Resolving, Unasked, LookingAtStates

(* While the walk goes on nothing is resolved.                              *)
LEMMA WalkResolvesNothing ==
  ASSUME Resolving, pc = "walk", pc' \in {"walk", "walked", "failed"}, askVars' = askVars
  PROVE  Resolving'
<1>1. candidates' = <<>> /\ list' = <<>> /\ verdict' = "open"
  BY DEF Resolving, Unasked, SettledLast, askVars
<1> QED
  BY <1>1, Unsettled DEF Resolving, Unasked, LookingAtStacks, LookingAtStates

LEMMA ResolvingInit == Init => Resolving
<1> SUFFICES ASSUME Init PROVE Resolving
  OBVIOUS
<1>1. pc = "walk" /\ candidates = <<>> /\ list = <<>> /\ verdict = "open"
  BY DEF Init
<1> QED
  BY <1>1 DEF Resolving, Unasked, SettledLast, LookingAtStacks, LookingAtStates, TokenSettled,
     BoundWhereItIsLexed, TwoStatesSettled, FallbackIsUnique

LEMMA ResolvingStep == Inv /\ Resolving /\ [Next]_vars => Resolving'
<1> SUFFICES ASSUME Inv, Resolving, [Next]_vars PROVE Resolving'
  OBVIOUS
<1>1. CASE SkipTransition \/ StackOverflows \/ TryAdd \/ NextTransition \/ NextItem \/ WalkEnds
  <2>1. pc = "walk" /\ pc' \in {"walk", "walked", "failed"} /\ askVars' = askVars
    BY <1>1 DEF SkipTransition, StackOverflows, TryAdd, NextTransition, NextItem, WalkEnds, Walking, askVars
  <2> QED
    BY <2>1, WalkResolvesNothing
<1>2. CASE Ask
  BY <1>2, TokenAsked
<1>3. CASE LookAtStack
  BY <1>3, StackLookedAt
<1>4. CASE StacksAgree
  BY <1>4, StacksAgreed
<1>5. CASE FallBack
  BY <1>5, FellBack
<1>6. CASE LookAtState
  BY <1>6, StateLookedAt
<1>7. CASE SkipRule
  BY <1>7, RuleSkipped
<1>8. CASE LookAtRule
  BY <1>8, RuleLookedAt
<1>9. CASE StatesAgree
  BY <1>9, StatesAgreed
<1>10. CASE Ended \/ UNCHANGED vars
  <2>1. /\ pc' = pc /\ lang' = lang /\ reached' = reached /\ asked' = asked /\ rest' = rest
        /\ list' = list /\ candidates' = candidates /\ verdict' = verdict /\ picked' = picked
    BY <1>10 DEF Ended, vars, walkVars, askVars
  <2>2. LookingAtStacks'
    BY <2>1, AskedKept DEF Resolving, LookingAtStacks
  <2>3. LookingAtStates'
    BY <2>1, AskedKept DEF Resolving, LookingAtStates
  <2>4. TokenSettled'
    BY <2>1, AskedKept DEF Resolving, TokenSettled, BoundWhereItIsLexed, TwoStatesSettled, FallbackIsUnique
  <2> QED
    BY <2>1, <2>2, <2>3, <2>4 DEF Resolving, Unasked, SettledLast
<1> QED
  BY <1>1, <1>2, <1>3, <1>4, <1>5, <1>6, <1>7, <1>8, <1>9, <1>10 DEF Next

(* Whatever the order in which a Go map hands out the stacks and the lexer   *)
(* states, a token that a mode of its context lexes is bound to the rule of  *)
(* such a mode, two modes that disagree are told apart, and a token that no  *)
(* mode of the context lexes is bound only when its rules leave no choice    *)
(* (editorResolveLexingRuleForParseTransition).                              *)
THEOREM TokensSettled == Spec => []TokenSettled
<1>1. Init => Resolving
  BY ResolvingInit
<1>2. Inv /\ Resolving /\ [Next]_vars => Resolving'
  BY ResolvingStep
<1>3. Resolving => TokenSettled
  BY DEF Resolving
<1> QED
  BY <1>1, <1>2, <1>3, Invariant, PTL DEF Spec

=============================================================================
