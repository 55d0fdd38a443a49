------------------------------ MODULE LexReach ------------------------------
(***************************************************************************)
(* Which lexer stacks a parse context can meet, and which lex rule a       *)
(* grammar token is bound to there (editor/ir_lexer_reachability.go).  A   *)
(* worklist walks over the pairs of a context and a stack; afterwards one  *)
(* token of one context is resolved, the stacks and the lexer states being *)
(* ranged over in the order of a Go map, which is any order.  The state    *)
(* graph comes from the syntaxa library.                                   *)
(***************************************************************************)
EXTENDS LexerStack, FiniteSets

CONSTANTS
  Contexts,   \* ids of parse contexts
  NoContext,  \* the empty id
  Modes,      \* lexer states
  Start,      \* "INITIAL"
  Tokens,
  Regexes,    \* what ToRegEx makes of a pattern
  Languages   \* the state graphs with their lex rules

LexRule ==
  [mode : Modes, token : Tokens, regex : Regexes, priority : Nat,
   kind : Kinds, states : Seq(Modes), amount : Nat]

Transition == [token : Tokens, targets : Seq(Contexts \cup {NoContext})]

LanguageSpace ==
  [root : Contexts \cup {NoContext},
   transitions : [Contexts -> Seq(Transition)],
   rules : [Modes -> Seq(LexRule)]]

(* The rules of a state come by priority, the highest first. *)
Grouped(rs, m) ==
  /\ \A i \in 1..Len(rs) : rs[i].mode = m
  /\ \A i, j \in 1..Len(rs) : i < j => rs[i].priority >= rs[j].priority

ASSUME LexReachAssumption ==
  /\ NoContext \notin Contexts
  /\ Start \in Modes
  /\ IsFiniteSet(Modes)
  /\ MaxModes \in Nat \ {0}
  /\ Languages \subseteq LanguageSpace
  /\ \A l \in Languages : \A m \in Modes : Grouped(l.rules[m], m)

VARIABLES
  lang,        \* the state graph and the rules by lexer state; never changes
  pc,
  reached,     \* the pairs that were added
  queue, head, \* the worklist; items before head are done
  tr, tg,      \* the transition and the target under way of queue[head]
  asked,       \* the context and the token to resolve; <<>> before that
  rest,        \* stacks (then lexer states) not yet ranged over
  list,        \* rules of the lexer state under way that are still to see
  candidates,  \* rules seen for tok
  verdict,     \* of the resolution
  picked       \* which candidate it is; 0 for none

walkVars == <<reached, queue, head, tr, tg>>
askVars == <<asked, rest, list, candidates, verdict, picked>>
vars == <<lang, pc, walkVars, askVars>>

Stack == Seq(Modes)
Item == [ctx : Contexts, stack : Stack]
-----------------------------------------------------------------------------
(* The index of the first rule of the state that makes the token, if any. *)
FirstRuleFor(l, mode, token) ==
  {i \in 1..Len(l.rules[mode]) :
     /\ l.rules[mode][i].token = token
     /\ \A j \in 1..(i - 1) : l.rules[mode][j].token # token}

HasRule(l, mode, token) == FirstRuleFor(l, mode, token) # {}

FindRule(l, mode, token) ==
  l.rules[mode][CHOOSE i \in FirstRuleFor(l, mode, token) : TRUE]

NextStack(l, stack, token) == AfterRule(stack, FindRule(l, TopMode(stack), token))

StartStack == <<Start>>
RootItem(l) == [ctx |-> l.root, stack |-> StartStack]

Init ==
  /\ lang \in Languages
  /\ pc = "walk"
  /\ reached = IF lang.root = NoContext THEN {} ELSE {RootItem(lang)}
  /\ queue = IF lang.root = NoContext THEN <<>> ELSE <<RootItem(lang)>>
  /\ head = 1
  /\ tr = 1
  /\ tg = 1
  /\ asked = <<>>
  /\ rest = {}
  /\ list = <<>>
  /\ candidates = <<>>
  /\ verdict = "open"
  /\ picked = 0

Work == queue[head]
Walking == pc = "walk" /\ head <= Len(queue)
Transitions == lang.transitions[Work.ctx]
Current == Transitions[tr]
Lexed == HasRule(lang, TopMode(Work.stack), Current.token)
After == NextStack(lang, Work.stack, Current.token)

(* Mutant: the pair under way is not left. *)
SkipAndStay ==
  /\ Walking
  /\ tr <= Len(Transitions)
  /\ ~Lexed
  /\ UNCHANGED vars

(* The lexer cannot produce the token in this mode: the edge is not taken. *)
SkipTransition ==
  /\ Walking
  /\ tr <= Len(Transitions)
  /\ ~Lexed
  /\ tr' = tr + 1
  /\ UNCHANGED <<lang, pc, reached, queue, head, tg, askVars>>

StackOverflows ==
  /\ Walking
  /\ tr <= Len(Transitions)
  /\ Lexed
  /\ TooDeep(After)
  /\ pc' = "failed"
  /\ UNCHANGED <<lang, walkVars, askVars>>

Target == Current.targets[tg]

TargetItem == [ctx |-> Target, stack |-> After]

(* Mutant: a context is visited once, whatever the stack. *)
NewlyByContext == Target # NoContext /\ \A i \in reached : i.ctx # Target

Newly == Target # NoContext /\ TargetItem \notin reached

TryAdd ==
  /\ Walking
  /\ tr <= Len(Transitions)
  /\ Lexed
  /\ ~TooDeep(After)
  /\ tg <= Len(Current.targets)
  /\ reached' = IF Newly THEN reached \cup {TargetItem} ELSE reached
  /\ queue' = IF Newly THEN Append(queue, TargetItem) ELSE queue
  /\ tg' = tg + 1
  /\ UNCHANGED <<lang, pc, head, tr, askVars>>

NextTransition ==
  /\ Walking
  /\ tr <= Len(Transitions)
  /\ Lexed
  /\ ~TooDeep(After)
  /\ tg > Len(Current.targets)
  /\ tr' = tr + 1
  /\ tg' = 1
  /\ UNCHANGED <<lang, pc, reached, queue, head, askVars>>

NextItem ==
  /\ Walking
  /\ tr > Len(Transitions)
  /\ head' = head + 1
  /\ tr' = 1
  /\ tg' = 1
  /\ UNCHANGED <<lang, pc, reached, queue, askVars>>

WalkEnds ==
  /\ pc = "walk"
  /\ head > Len(queue)
  /\ pc' = "walked"
  /\ UNCHANGED <<lang, walkVars, askVars>>
-----------------------------------------------------------------------------
StacksAt(c) == {i.stack : i \in {j \in reached : j.ctx = c}}

(* Mutant: only the start state of the lexer is considered. *)
StartStackOnly(c) == {StartStack}

StacksOrStart(c) == IF StacksAt(c) = {} THEN {StartStack} ELSE StacksAt(c)

(* Each transition of the editor's states has its token resolved. *)
Ask ==
  /\ pc = "walked"
  /\ \E c \in Contexts : \E i \in 1..Len(lang.transitions[c]) :
       /\ asked' = <<c, lang.transitions[c][i].token>>
       /\ rest' = StacksOrStart(c)
  /\ pc' = "stacks"
  /\ UNCHANGED <<lang, walkVars, list, candidates, verdict, picked>>

Tok == asked[2]

(* The emission key: the token and its role are not part of it. *)
Key(r) == <<r.regex, r.priority, r.mode, r.kind, r.states, r.amount>>

SameRegex(rs) == \A i \in 1..Len(rs) : rs[i].regex = rs[1].regex

(* The first of the highest priority. *)
Best(rs) ==
  CHOOSE i \in 1..Len(rs) : \A j \in 1..Len(rs) :
    rs[i].priority > rs[j].priority \/ (rs[i].priority = rs[j].priority /\ i <= j)

Settle(v, i) ==
  /\ pc' = "answered"
  /\ verdict' = v
  /\ picked' = i

(* The first rule that disagrees with the first candidate ends the search. *)
Consider(r, otherwise) ==
  /\ candidates' = Append(candidates, r)
  /\ IF candidates # <<>> /\ Key(r) # Key(candidates[1])
       THEN IF SameRegex(candidates') THEN Settle("rule", Best(candidates'))
                                      ELSE Settle(otherwise, 0)
       ELSE UNCHANGED <<pc, verdict, picked>>

LookAtStack ==
  /\ pc = "stacks"
  /\ \E s \in rest :
       /\ rest' = rest \ {s}
       /\ IF HasRule(lang, TopMode(s), Tok)
            THEN Consider(FindRule(lang, TopMode(s), Tok), "ambiguous")
            ELSE UNCHANGED <<candidates, pc, verdict, picked>>
  /\ UNCHANGED <<lang, walkVars, asked, list>>

StacksAgree ==
  /\ pc = "stacks"
  /\ rest = {}
  /\ candidates # <<>>
  /\ Settle("rule", 1)
  /\ UNCHANGED <<lang, walkVars, asked, rest, list, candidates>>

(* No stack of the context lexes the token: any lexer state may. *)
FallBack ==
  /\ pc = "stacks"
  /\ rest = {}
  /\ candidates = <<>>
  /\ pc' = "states"
  /\ rest' = Modes
  /\ UNCHANGED <<lang, walkVars, asked, list, candidates, verdict, picked>>

LookAtState ==
  /\ pc = "states"
  /\ list = <<>>
  /\ \E m \in rest :
       /\ rest' = rest \ {m}
       /\ list' = lang.rules[m]
  /\ UNCHANGED <<lang, pc, walkVars, asked, candidates, verdict, picked>>

SkipRule ==
  /\ pc = "states"
  /\ list # <<>>
  /\ Head(list).token # Tok
  /\ list' = Tail(list)
  /\ UNCHANGED <<lang, pc, walkVars, asked, rest, candidates, verdict, picked>>

LookAtRule ==
  /\ pc = "states"
  /\ list # <<>>
  /\ Head(list).token = Tok
  /\ Consider(Head(list), "missing")
  /\ list' = Tail(list)
  /\ UNCHANGED <<lang, walkVars, asked, rest>>

StatesAgree ==
  /\ pc = "states"
  /\ rest = {}
  /\ list = <<>>
  /\ IF candidates = <<>> THEN Settle("missing", 0) ELSE Settle("rule", 1)
  /\ UNCHANGED <<lang, walkVars, asked, rest, list, candidates>>

Ended == pc \in {"failed", "answered"} /\ UNCHANGED vars

Next ==
  \/ SkipTransition
  \/ StackOverflows
  \/ TryAdd
  \/ NextTransition
  \/ NextItem
  \/ WalkEnds
  \/ Ask
  \/ LookAtStack
  \/ StacksAgree
  \/ FallBack
  \/ LookAtState
  \/ SkipRule
  \/ LookAtRule
  \/ StatesAgree
  \/ Ended

(* A loop of one goroutine. *)
Spec == Init /\ [][Next]_vars /\ WF_vars(Next)
-----------------------------------------------------------------------------
(* The steps of the grammar and the lexer together, without a worklist. *)
Steps(l, item) ==
  {i \in 1..Len(l.transitions[item.ctx]) :
     HasRule(l, TopMode(item.stack), l.transitions[item.ctx][i].token)}
StackAfter(l, item, i) == NextStack(l, item.stack, l.transitions[item.ctx][i].token)
Overflows(l, item) == \E i \in Steps(l, item) : TooDeep(StackAfter(l, item, i))

(* A set of pairs that holds the first one and is closed under the steps. *)
ClosedUnder(l, R) ==
  /\ l.root # NoContext => RootItem(l) \in R
  /\ \A item \in R : \A i \in Steps(l, item) :
       ~TooDeep(StackAfter(l, item, i)) =>
         \A g \in 1..Len(l.transitions[item.ctx][i].targets) :
           l.transitions[item.ctx][i].targets[g] # NoContext =>
             [ctx |-> l.transitions[item.ctx][i].targets[g],
              stack |-> StackAfter(l, item, i)] \in R

(* When the walk is over, no pair that a parse can reach is missing, and no *)
(* stack was too deep (editorComputeLexerStackReachability).                *)
WalkIsComplete ==
  pc \notin {"walk", "failed"} =>
    /\ ClosedUnder(lang, reached)
    /\ \A item \in reached : ~Overflows(lang, item)

(* Every pair was reached for a reason: the root, or a step from a pair that *)
(* was added before it.                                                      *)
WalkIsSound ==
  \A k \in 1..Len(queue) :
    \/ k = 1 /\ queue[1] = RootItem(lang)
    \/ \E j \in 1..(k - 1) : \E i \in Steps(lang, queue[j]) :
         LET t == lang.transitions[queue[j].ctx][i] IN
         /\ \E g \in 1..Len(t.targets) : t.targets[g] = queue[k].ctx
         /\ StackAfter(lang, queue[j], i) = queue[k].stack

(* The walk gives up only when a stack that can be reached grows beyond the *)
(* maximum (docs/sublime-syntax-generation.md, 8).                          *)
RefusedForDepth == pc = "failed" => \E item \in reached : Overflows(lang, item)

(* Every stack that is met is one a lexer can have: the start state is at    *)
(* the bottom, and the depth within the maximum (4.1 of the same document).  *)
StacksMirrorTheLexer ==
  \A item \in reached : item.stack[1] = Start /\ Len(item.stack) \in 1..MaxModes

(* The binding of a token is stated as the code makes it, which is not as    *)
(* its words have it: "those candidates must agree on the same emission      *)
(* (regex + metadata), or an error is returned. If no stack can lex tok,     *)
(* (false, nil) is returned" (ir_lexer_reachability.go:334-336, and 4.3 and  *)
(* 8 of the document).  The code takes the highest priority of candidates    *)
(* that share a regular expression, whatever else they differ in (as its     *)
(* comment at 381 says), and looks at all lexer states when no stack lexes   *)
(* the token.                                                                *)

(* A token is bound to its rule in a mode on top of a stack of its context,  *)
(* if there is one: the lexer pattern for the correct mode (4.3).            *)
ModesHere == {TopMode(i.stack) : i \in {j \in reached : j.ctx = asked[1]}}
               \cup {m \in {Start} : \A i \in reached : i.ctx # asked[1]}
MakersHere == {m \in ModesHere : HasRule(lang, m, Tok)}
RuleOf(m) == FindRule(lang, m, Tok)
BoundWhereItIsLexed ==
  verdict = "rule" =>
    /\ candidates[picked].token = Tok
    /\ MakersHere # {} => \E m \in MakersHere : candidates[picked] = RuleOf(m)

(* Two states that disagree are told apart, whatever the order they are      *)
(* looked at in: another regular expression is an error, and otherwise the   *)
(* rule of the higher priority is taken (not, as 334-336 say, an error).     *)
TwoStatesSettled ==
  pc = "answered" /\ Cardinality(MakersHere) = 2 =>
    \A m, n \in MakersHere :
      /\ RuleOf(m).regex # RuleOf(n).regex => verdict = "ambiguous"
      /\ RuleOf(m).regex = RuleOf(n).regex /\ RuleOf(m).priority > RuleOf(n).priority =>
           verdict = "rule" /\ candidates[picked] = RuleOf(m)

(* A token that no stack of the context lexes, which 336 calls not found, is *)
(* bound all the same (editorResolveUniqueLexRuleAcrossAllStates), but only  *)
(* where that is beyond doubt: to one of the rules for it if they have one   *)
(* regular expression, and to none of two that differ, in whatever order     *)
(* they come.                                                                *)
AllRules ==
  {q \in UNION {{lang.rules[m][i] : i \in 1..Len(lang.rules[m])} : m \in Modes} : q.token = Tok}
FallbackIsUnique ==
  pc = "answered" /\ MakersHere = {} =>
    LET regexes == {q.regex : q \in AllRules} IN
    /\ Cardinality(regexes) = 1 => verdict = "rule"
    /\ Cardinality(regexes) = 0 => verdict = "missing"
    /\ Cardinality(regexes) = 2 /\ Cardinality(AllRules) = 2 => verdict = "missing"

(* What a token of a context is bound to, taken together.                    *)
TokenSettled == BoundWhereItIsLexed /\ TwoStatesSettled /\ FallbackIsUnique

(* The walk and the resolution end, also for grammars whose stacks grow. *)
ReachTermination == <>(pc \in {"failed", "answered"})

(* editorResolveLexingRuleForParseTransition: "If all candidates share       *)
(* identical regex, prefer highest-priority rule."                           *)
HighestPriorityWins ==
  verdict = "rule" /\ (\A m, n \in MakersHere : RuleOf(m).regex = RuleOf(n).regex) =>
    \A m \in MakersHere : candidates[picked].priority >= RuleOf(m).priority
=============================================================================
