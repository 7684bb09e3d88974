----------------------------- MODULE Compaction -----------------------------
(* The context of one agent in one thread: what is kept of it for the next  *)
(* turn, how a turn makes it longer, and how it is reduced before a request *)
(* and after the provider has refused one as too long.  Sizes are in        *)
(* thousands of characters, and stand for tokens too.                       *)
EXTENDS Integers, FiniteSets, Sequences

CONSTANTS
    KeptTurns,      \* RETAINED_TAIL_TURNS (8)
    SqueezedTurns,  \* EMERGENCY_RETAINED_TAIL_TURNS (2)
    Windows,        \* what a provider may declare, 0 for nothing
    Inputs,         \* sizes of what users write, and of summaries
    Results,        \* [size, repeats] of what a call may return
    Screens,        \* whether a call may return a picture of the screen
    MaxTurns,       \* bound: turns
    MaxRounds,      \* bound: rounds of calls in all turns
    MaxLists        \* bound: checklists written in all turns

ASSUME CompactionAssumption ==
    /\ Windows \subseteq Nat /\ Inputs \subseteq Nat
    /\ Results \subseteq [size : Nat, repeats : BOOLEAN]

VARIABLES
    window,         \* usable tokens the provider declares
    stored,         \* the saved prompt and what was said since, as a turn loads it
    messages,       \* of the request at hand
    said,           \* by the turn at hand, as its row keeps it
    safe,           \* checkpoint_safe
    phase,          \* of the loop: idle, step, sent, rejected
    refused,        \* whether the last request was too long
    list,           \* the checklist the agent wrote last
    used            \* turns, rounds and checklists so far

contextVars == <<window, stored, messages, said, safe, phase, refused, list, used>>

MaxPinned == 4          \* MAX_PINNED_TASK_CHARS
MaxEarlier == 4         \* MAX_RETAINED_TOOL_RESULT_CHARS
MaxRecent == 8          \* TAIL_RETAINED_TOOL_RESULT_CHARS
PrunedSize == 3         \* PRUNE_HEAD_CHARS, PRUNE_TAIL_CHARS and the note between
Pressure(usable) == (usable * 75) \div 100
Emergency(usable) == (usable * 92) \div 100
Target(usable) == (usable * 55) \div 100
TailCeiling(usable) == (usable * 40) \div 100

NoList == -1
Cleared == 0

\* calls: tool calls an assistant makes; list: the checklist that can be read
\* in a message, of a TodoWrite result or restated by a summary.
Message(role, size) ==
    [role |-> role, calls |-> 0, size |-> size, repeats |-> FALSE, list |-> NoList]
Called(n) == [Message("assistant", 1) EXCEPT !.calls = n]
Result(r) == [Message("tool", r.size) EXCEPT !.repeats = r.repeats]
Checklist(l) == [Message("tool", 1) EXCEPT !.list = l]
Screen == Message("user", 1)

Tokens(ms) == Cardinality(UNION {{i} \X (1..ms[i].size) : i \in DOMAIN ms})

\* The same sequence, which TLC computes once.
Evaluated(ms) == ms \o <<>>

Greatest(S) == CHOOSE i \in S : \A j \in S : j <= i
Least(S) == CHOOSE i \in S : \A j \in S : i <= j
Rank(S, i) == Cardinality({j \in S : j <= i})
Nth(S, n) == CHOOSE i \in S : Rank(S, i) = n
-----------------------------------------------------------------------------
(* The reductions.                                                          *)

Silent(m) == m.role = "assistant" /\ m.calls = 0 /\ m.size = 0
Collapsed(m) == IF m.repeats THEN [m EXCEPT !.size = 1, !.repeats = FALSE] ELSE m
\* What is left of a context without its silent messages, in order.
Snipped(ms) ==
    LET loud == {i \in DOMAIN ms : ~Silent(ms[i])}
    IN  Evaluated([n \in 1..Cardinality(loud) |-> Collapsed(ms[Nth(loud, n)])])

\* Faulty: a turn may start at the result of a tool.
IsAnyHead(ms, i) == ms[i].role # "assistant" \/ ms[i].calls > 0

IsTurnHead(ms, i) ==
    \/ ms[i].role \in {"system", "user"}
    \/ ms[i].role = "assistant" /\ (ms[i].calls > 0 \/ i = 1 \/ ms[i - 1].role # "tool")

\* How many messages at the start are never touched.
PreservedPrefix(ms) ==
    IF Len(ms) >= 2 /\ ms[2].role = "user" /\ ms[2].size <= MaxPinned THEN 2 ELSE 1

Heads(ms) == {i \in (PreservedPrefix(ms) + 1)..Len(ms) : IsTurnHead(ms, i)}

RetainedTailStart(ms, turns) ==
    LET heads == Heads(ms)
    IN  IF Cardinality(heads) <= turns THEN PreservedPrefix(ms) + 1
        ELSE Nth(heads, Cardinality(heads) - turns + 1)

Prunable(m, max) == m.role = "tool" /\ m.list = NoList /\ m.size > max
Pruned(m, max) == IF Prunable(m, max) THEN [m EXCEPT !.size = PrunedSize] ELSE m

\* A result before the tail, and then a huge one in it while the tail is above
\* its ceiling, the oldest first.
PruneToolResults(ms, tail, usable) ==
    LET cut(n) == Evaluated([i \in DOMAIN ms |->
                      IF i < tail THEN Pruned(ms[i], MaxEarlier)
                      ELSE IF i < n THEN Pruned(ms[i], MaxRecent) ELSE ms[i]])
        fits == {n \in tail..(Len(ms) + 1) :
                     Tokens(SubSeq(cut(n), tail, Len(ms))) <= TailCeiling(usable)}
    IN  cut(Least(fits \cup {Len(ms) + 1}))

\* Where the tail begins after the boundary was moved to the head of a turn.
SpanEnd(ms, raw, usable) ==
    LET start == PreservedPrefix(ms) + 1
        retreat == Greatest({start} \cup {i \in Heads(ms) : i <= raw})
        advance == Least({Len(ms) + 1} \cup {i \in Heads(ms) : i >= raw})
    IN  IF retreat > start + 1 /\ Tokens(SubSeq(ms, retreat, Len(ms))) <= Target(usable)
        THEN retreat ELSE advance

LatestChecklist(ms) ==
    LET at == {i \in DOMAIN ms : ms[i].list # NoList}
    IN  IF at = {} THEN NoList ELSE ms[Greatest(at)].list

\* Faulty: a checklist is only found where it was written.
CarriedFromResults(ms, end) ==
    LET IsResult(m) == m.role = "tool"
        before == LatestChecklist(SelectSeq(SubSeq(ms, 1, end - 1), IsResult))
    IN  IF LatestChecklist(SubSeq(ms, end, Len(ms))) # NoList \/ before = Cleared THEN NoList
        ELSE before

CarriedChecklist(ms, end) ==
    LET before == LatestChecklist(SubSeq(ms, 1, end - 1))
    IN  IF LatestChecklist(SubSeq(ms, end, Len(ms))) # NoList \/ before = Cleared THEN NoList
        ELSE before

\* The model, or the host when the model fails, decides how long a summary is.
Summarized(ms, end, size) ==
    SubSeq(ms, 1, PreservedPrefix(ms))
        \o <<[Message("user", size) EXCEPT !.list = CarriedChecklist(ms, end)]>>
        \o SubSeq(ms, end, Len(ms))

\* A pass over a context: what is left of it, and whether that is less.
Compact(ms, usable, trigger, size) ==
    LET squeezed == trigger = "overflow" \/ Tokens(ms) > Emergency(usable)
        snipped == Snipped(ms)
        raw == RetainedTailStart(snipped, IF squeezed THEN SqueezedTurns ELSE KeptTurns)
        pruned == PruneToolResults(snipped, raw, usable)
        end == SpanEnd(pruned, raw, usable)
        enough == ~squeezed /\ Tokens(pruned) <= Target(usable)
        left == IF enough \/ end <= PreservedPrefix(pruned) + 2 THEN pruned
                ELSE Summarized(pruned, end, size)
    IN  IF trigger = "pressure" /\ Tokens(ms) <= Pressure(usable) THEN ms ELSE left

\* Faulty: a pass always counts.
MadeAPass(ms, left) == TRUE

MadeProgress(ms, left) == left # ms
-----------------------------------------------------------------------------
(* The loop of a turn.                                                      *)

ContextInit ==
    /\ window \in Windows
    /\ stored = <<>> /\ messages = <<>> /\ said = <<>>
    /\ safe = FALSE /\ refused = FALSE
    /\ phase = "idle"
    /\ list = NoList
    /\ used = [turns |-> 0, rounds |-> 0, lists |-> 0]

\* A message of the user starts a turn.  One that is delegated, resumed or
\* private keeps its prompt to itself.
StartTurn ==
    /\ phase = "idle" /\ used.turns < MaxTurns
    /\ \E size \in Inputs :
           /\ stored' = Append(stored, Message("user", size))
           /\ messages' = <<Message("system", 1)>> \o stored'
    /\ safe' \in BOOLEAN
    /\ said' = <<>>
    /\ phase' = "step"
    /\ used' = [used EXCEPT !.turns = @ + 1]
    /\ UNCHANGED <<window, refused, list>>

\* The prompt is saved without the system message.
SavePrompt(left) == IF safe THEN Tail(left) ELSE stored

\* Reductions before a request, which need a declared window.
PreStep ==
    /\ phase = "step"
    /\ \E size \in Inputs :
           LET left == IF window = 0 THEN messages
                       ELSE Compact(messages, window, "pressure", size)
           IN  /\ messages' = left
               /\ stored' = IF MadeProgress(messages, left) THEN SavePrompt(left) ELSE stored
    /\ phase' = "sent"
    /\ UNCHANGED <<window, said, safe, refused, list, used>>

\* The provider finds the request too long.
Reject ==
    /\ phase = "sent"
    /\ phase' = "rejected" /\ refused' = TRUE
    /\ UNCHANGED <<window, stored, messages, said, safe, list, used>>

\* A turn that ends leaves its row.
End(row) ==
    /\ stored' = stored \o row
    /\ phase' = "idle" /\ refused' = FALSE
    /\ messages' = <<>> /\ said' = <<>> /\ safe' = FALSE
    /\ UNCHANGED <<window, list, used>>

\* Reductions after a request was refused, which is sent again if they helped.
Reduce ==
    /\ phase = "rejected"
    /\ \E size \in Inputs :
           LET usable == IF window = 0 THEN Tokens(messages) ELSE window
               left == Compact(messages, usable, "overflow", size)
           IN  IF MadeProgress(messages, left)
               THEN /\ messages' = left
                    /\ stored' = SavePrompt(left)
                    /\ phase' = "step"
                    /\ UNCHANGED <<window, said, safe, refused, list, used>>
               ELSE End(said)

\* What a round of calls adds to the request, and to the row of the turn.
AddRound(request, row) ==
    /\ messages' = messages \o request
    /\ said' = said \o row
    /\ safe' = FALSE /\ refused' = FALSE
    /\ phase' = "step"
    /\ UNCHANGED <<window, stored>>

\* The model calls one tool or two, or a picture comes with the first result.
CallTools ==
    /\ phase = "sent" /\ used.rounds < MaxRounds
    /\ \E r \in Results, n \in 1..2, screen \in (IF Screens THEN BOOLEAN ELSE {FALSE}) :
           LET first == <<Called(n), Result(r)>>
               second == IF n = 2 THEN <<Result(r)>> ELSE <<>>
           IN  AddRound(first \o (IF screen THEN <<Screen>> ELSE <<>>) \o second, first \o second)
    /\ used' = [used EXCEPT !.rounds = @ + 1]
    /\ UNCHANGED list

\* The agent rewrites its checklist, or clears it.
WriteList ==
    /\ phase = "sent" /\ used.rounds < MaxRounds /\ used.lists < MaxLists
    /\ used' = [used EXCEPT !.rounds = @ + 1, !.lists = @ + 1]
    /\ list' \in {Cleared, used.lists + 1}
    /\ LET exchange == <<Called(1), Checklist(list')>> IN AddRound(exchange, exchange)

\* The model answers, perhaps with nothing to say.
Reply ==
    /\ phase = "sent"
    /\ \E size \in {0, 1} : End(Append(said, Message("assistant", size)))

ContextNext == StartTurn \/ PreStep \/ Reject \/ Reduce \/ CallTools \/ WriteList \/ Reply

\* The loop goes on by itself and a provider answers: of the phases of a turn
\* none lasts.  Each has one action or more that lead out of it, so this is weak
\* fairness of those.
LoopFairness == \A p \in {"step", "sent", "rejected"} : []<>(phase # p)

ContextSpec == ContextInit /\ [][ContextNext]_contextVars /\ LoopFairness
-----------------------------------------------------------------------------
\* Every result follows the call it answers, and every call keeps its results:
\* whatever is cut away, a provider accepts what is left (select_span,
\* is_turn_head).
CallsKeepResults ==
    LET results(j) == {i \in (j + 1)..Len(messages) :
                          /\ messages[i].role = "tool"
                          /\ \A k \in (j + 1)..(i - 1) : messages[k].calls = 0}
    IN  /\ \A j \in DOMAIN messages :
               messages[j].calls > 0 => Cardinality(results(j)) = messages[j].calls
        /\ \A i \in DOMAIN messages :
               messages[i].role = "tool" => \E j \in 1..(i - 1) : messages[j].calls > 0

\* However often the context is cut, in one turn or over many, the checklist
\* the agent reads last in it is the one it wrote last, unless the thread was
\* opened by a message too long to be pinned (carried_checklist).
ChecklistIsCurrent ==
    (messages # <<>> /\ PreservedPrefix(messages) = 2 /\ messages[2].list = NoList) =>
        \/ LatestChecklist(messages) = list
        \/ {LatestChecklist(messages), list} \subseteq {NoList, Cleared}

\* A request that was refused as too long is accepted in the end, or given up:
\* it is not reduced and sent again for ever (made_progress).
RejectionEnds == refused ~> ~refused
=============================================================================
