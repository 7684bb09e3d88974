----------------------------- MODULE GroupTurn -----------------------------
(* One turn of a group: the scheduler that decides which member speaks      *)
(* next, the delegation from member to member, the budgets that bound both, *)
(* and a cancellation that may come at any moment.  Members are numbered in *)
(* the order of their seats.  One turn of the thread runs at a time, which  *)
(* JobQueue shows.                                                          *)
EXTENDS Integers, FiniteSets, SequencesExt

CONSTANTS
    Members,        \* 1..n
    Groups          \* the settings a turn may run under.  Two of them are not
                    \* the group's: usage, the tokens that a model call may
                    \* cost, and the bound leavers on the members muted,
                    \* removed or deleted during the turn

Shapes == {"mesh", "led", "ring"}

ASSUME GroupsAssumption ==
    /\ 1 \in Members /\ IsFiniteSet(Members) /\ Members = 1..Cardinality(Members)
    /\ \A g \in Groups : /\ g.shape \in Shapes /\ g.mentions \in Seq(Members)
                         /\ g.usage \subseteq Nat
                         /\ {g.steps, g.hops, g.calls, g.ceiling} \subseteq Nat
                         /\ {g.perAgent, g.consec, g.failures, g.tokens} \subseteq Nat \ {0}

VARIABLES
    group,          \* the group's settings, read once when the turn begins
    state,          \* group_turns.status
    signal,         \* the turn's cancellation token has been signalled
    phase,          \* where the worker is
    outcome,        \* what the turn returns to its job
    verdict,        \* the status a finishing turn is about to get, or how the
                    \* moderator is consulted
    remaining,      \* selected members still in the turn's pool
    mentions,       \* members the user named who were not dispatched for it yet
    peers,          \* requests made by speakers who named another member
    previous,       \* who had the floor last, or 0
    spoke,          \* had_visible: a visible reply came back
    budget,         \* TurnBudget: what has been used up
    claims,         \* helper_claims: members that were delegated to
    dispatches,     \* agent_dispatches of the turn, in the order of creation
    chain,          \* the dispatches being executed, each delegated by the last
    result,         \* what the execution at the end of the chain came to
    said,           \* the replies of the turn in the transcript
    standing        \* each member's present standing in the group

stage == <<state, phase, outcome, verdict>>
floor == <<remaining, mentions, peers, previous, spoke>>
work == <<dispatches, chain, result, said>>
vars == <<group, signal, stage, floor, budget, claims, work, standing>>

Nothing == [kind |-> "none", via |-> FALSE, who |-> 0]
Of(kind) == [Nothing EXCEPT !.kind = kind]
Private == {"private", "private_waiting", "private_failed"}
Final == {"completed", "silence", "budget_exhausted", "failure_budget_exhausted",
          "cancelled", "failed"}

TypeOK ==
    /\ group \in Groups /\ signal \in BOOLEAN /\ spoke \in BOOLEAN
    /\ state \in Final \cup {"pending", "running", "waiting_for_user"}
    /\ phase \in {"accept", "prefilter", "choose", "moderate", "start", "run", "finish", "ended"}
    /\ outcome \in {"none", "completed", "silence", "waiting", "cancelled", "error"}
    /\ verdict \in Final \cup {"none", "ask", "fallback", "finished"}
    /\ remaining \subseteq Members /\ claims \subseteq Members
    /\ previous \in Members \cup {0}
    /\ mentions \subseteq ToSet(group.mentions) /\ said \in Seq(Members)
    /\ peers \in Seq([to : Members, hop : Nat])
    /\ budget \in [steps : Nat, per : [Members -> Nat], calls : Nat, consec : Nat,
                   failures : Nat, tokens : Nat]
    /\ dispatches \in Seq([agent : Members, hop : Nat, action : {"speak", "call", "handoff"},
           status : {"queued", "running", "completed", "silent", "failed",
                     "waiting_for_user", "interrupted", "cancelled"}])
    /\ chain \in Seq([row : 1..Len(dispatches), private : BOOLEAN])
    /\ result \in [kind : Private \cup {"none", "visible", "waiting", "quiet", "cancelled",
                                        "failed", "acp", "persistence"},
                   via : BOOLEAN, who : Members \cup {0}]
    /\ standing \in [Members -> {"active", "muted", "left", "deleted"}]
-----------------------------------------------------------------------------
(* Who takes part, and the limits                                          *)

Automatic == group.mode = "automatic"
Candidates == IF group.direct THEN {1} ELSE Members
Named == ToSet(group.mentions)
Selected ==
    IF group.wide
    THEN {a \in Candidates : /\ group.response[a] # "muted"
                             /\ a \in Named \/ group.response[a] = "default"}
    ELSE Named

MaxFanOut == 8
OnePass == group.perAgent = 1 /\ group.hops = 0
AutoSteps(n) == IF OnePass THEN n ELSE Max({8, Min({24, 3 * n})})

\* An automation's snapshot may only lower the group's own limit (ceiling).
MaxSteps ==
    LET own == IF group.direct THEN 1 + MaxFanOut
               ELSE IF group.steps # 0 THEN group.steps
               ELSE AutoSteps(Cardinality(IF OnePass THEN Selected ELSE Candidates))
    IN  IF group.ceiling = 0 THEN own ELSE Min({own, group.ceiling})

MaxHops == IF group.direct THEN 1 ELSE group.hops
MaxModeratorCalls == IF Automatic /\ group.calls = 0 THEN MaxSteps + 1 ELSE group.calls

Failing(b) == b.consec >= group.consec \/ b.failures >= group.failures

\* Why a dispatch is refused to a member that was dispatched n times.
Rejection(b, n, hop) ==
    IF b.steps >= MaxSteps THEN "steps"
    ELSE IF n >= group.perAgent THEN "per_agent"
    ELSE IF hop > MaxHops THEN "hops"
    ELSE IF b.tokens >= group.tokens THEN "tokens"
    ELSE IF Failing(b) THEN "failures"
    ELSE "none"

MayRun(b, a, hop) == Rejection(b, b.per[a], hop) = "none"

Spend(b, tokens) == [b EXCEPT !.tokens = @ + tokens]

\* Mutation: a helper's dispatch is charged to nobody.
ChargeSpeakersOnly(b, a) == IF chain = <<>> THEN [b EXCEPT !.steps = @ + 1, !.per[a] = @ + 1] ELSE b

RecordDispatch(b, a) == [b EXCEPT !.steps = @ + 1, !.per[a] = @ + 1]
RecordFailure(b) == [b EXCEPT !.consec = @ + 1, !.failures = @ + 1]
RecordCompletion(b) == [b EXCEPT !.consec = 0]

\* The hub of a star or the leaders of a hierarchy; the first seat stands in.
Leads == IF group.roles = {} THEN {1} ELSE group.roles
After(a) == IF a + 1 \in Members THEN a + 1 ELSE 1

Edge(a, b) ==
    /\ a # b
    /\ \/ group.shape = "mesh"
       \/ (group.shape = "led" /\ (a \in Leads \/ b \in Leads))
       \/ (group.shape = "ring" /\ b = After(a))

\* The members of pool that may speak after source, or first if it is 0.
Frontier(pool, source) ==
    CASE group.shape = "mesh" -> pool
      [] group.shape = "led" ->
            IF source # 0 THEN {a \in pool : Edge(source, a)}
            ELSE IF pool \cap Leads = {} THEN pool ELSE pool \cap Leads
      [] group.shape = "ring" ->
            LET others == {a \in pool : a # source}
                place(a) == IF a > source THEN a ELSE a + Cardinality(Members)
            IN  {a \in others : \A c \in others : place(a) <= place(c)}

SchedulesPeers ==
    /\ ~group.direct /\ ~Automatic /\ ~group.moderated
    /\ group.shape = "mesh" /\ group.hops > 0

Init ==
    /\ group \in Groups
    /\ state = "pending" /\ phase = "accept" /\ outcome = "none" /\ verdict = "none"
    /\ signal = FALSE
    /\ remaining = Selected /\ mentions = Named /\ peers = <<>>
    /\ previous = 0 /\ spoke = FALSE
    /\ budget = [steps |-> 0, per |-> [a \in Members |-> 0], calls |-> 0, consec |-> 0,
                 failures |-> 0, tokens |-> 0]
    /\ claims = {} /\ dispatches = <<>> /\ chain = <<>> /\ result = Nothing /\ said = <<>>
    /\ standing = [a \in Members |-> "active"]
-----------------------------------------------------------------------------
(* How a turn ends                                                         *)

\* transition_turn out of "running"; a turn that was cancelled meanwhile keeps
\* its status and its worker reports a failed write.
Close(status, out) ==
    /\ phase' = "ended" /\ verdict' = "none"
    /\ state' = IF state = "running" THEN status ELSE state
    /\ outcome' = IF state = "running" THEN out ELSE "error"

\* fail_scheduled_persistence
FailPersistence ==
    /\ phase' = "ended" /\ verdict' = "none" /\ outcome' = "error"
    /\ state' = IF state \in Final THEN state ELSE "failed"

\* What a cancellation does to the dispatches that are not over.
Interrupted(rows) ==
    [i \in DOMAIN rows |->
        [rows[i] EXCEPT !.status = CASE @ = "queued" -> "cancelled"
                                     [] @ = "running" -> "interrupted"
                                     [] OTHER -> @]]

\* cancel_scheduled_turn
CancelScheduled ==
    /\ phase' = "ended" /\ verdict' = "none" /\ outcome' = "cancelled"
    /\ state' = IF state \in Final THEN state ELSE "cancelled"
    /\ dispatches' = IF state \in Final THEN dispatches ELSE Interrupted(dispatches)
    /\ chain' = <<>> /\ result' = Nothing

\* The worker takes the turn; a turn cancelled before that is left alone.
Start ==
    /\ phase = "accept"
    /\ IF state = "pending"
       THEN state' = "running" /\ phase' = "prefilter" /\ UNCHANGED <<outcome, verdict>>
       ELSE phase' = "ended" /\ outcome' = "cancelled" /\ UNCHANGED <<state, verdict>>
    /\ UNCHANGED <<group, signal, floor, budget, claims, work, standing>>

\* The decision model may drop members the message does not call for.
Filters == group.decides /\ group.wide /\ ~group.direct /\ Cardinality(remaining) >= 2

\* Mutation: the user's mentions do not protect from it.
AnyoneLeft == remaining

Unnamed == remaining \ Named

Prefilter ==
    /\ phase = "prefilter" /\ phase' = "choose"
    /\ IF Filters
       THEN /\ ~signal
            /\ \E skipped \in SUBSET Unnamed : remaining' = remaining \ skipped
            /\ \E u \in group.usage : budget' = Spend(budget, u)
       ELSE UNCHANGED <<remaining, budget>>
    /\ UNCHANGED <<group, signal, state, outcome, verdict, mentions, peers, previous, spoke,
                   claims, work, standing>>

StopWhileAsking ==
    /\ signal /\ (phase = "moderate" \/ (phase = "prefilter" /\ Filters))
    /\ CancelScheduled
    /\ UNCHANGED <<group, signal, floor, budget, claims, said, standing>>
-----------------------------------------------------------------------------
(* Who speaks next                                                         *)

\* Mutation: a helper may still be scheduled.
WholePool == remaining

Pool == remaining \ claims
Wanted == mentions \cap Pool
Eligible ==
    {i \in DOMAIN group.mentions :
        /\ group.mentions[i] \in Wanted \ {previous}
        /\ MayRun(budget, group.mentions[i], 0)}
Open == Frontier(Pool, IF Automatic \/ group.shape = "ring" THEN previous ELSE 0)
Legal == {a \in Open : a # previous /\ MayRun(budget, a, 0)}

\* queue_dispatch inserts the row only for an agent that was not deleted.
Queue(a, hop, action) ==
    IF standing[a] = "deleted"
    THEN FailPersistence /\ UNCHANGED dispatches
    ELSE /\ dispatches' = Append(dispatches, [agent |-> a, hop |-> hop, action |-> action,
                                              status |-> "queued"])
         /\ phase' = "start" /\ verdict' = "none" /\ UNCHANGED <<state, outcome>>

\* Mutation: a candidate who is gone is not taken out of the turn.
NobodyAbsent(b, candidates) == {}

Absent(b, candidates) == {a \in candidates : MayRun(b, a, 0) /\ standing[a] # "active"}

\* take_revalidated_moderator_candidate: the first of candidates, preferred
\* first, that the budget b admits and that is still there; those met on the
\* way that are not are taken out of the turn.
Revalidate(b, preferred, candidates, consume) ==
    LET place(a) == IF a = preferred THEN 0 ELSE a
        there == {a \in candidates : MayRun(b, a, 0) /\ standing[a] = "active"}
        absent == Absent(b, candidates)
    IN  \/ /\ there = {}
           /\ remaining' = remaining \ absent
           /\ phase' = "choose" /\ verdict' = "none"
           /\ UNCHANGED <<state, outcome, dispatches>>
        \/ \E a \in there :
              /\ \A c \in there : place(a) <= place(c)
              /\ remaining' = remaining \ ({c \in absent : place(c) < place(a)}
                                           \cup IF consume THEN {a} ELSE {})
              /\ Queue(a, 0, "speak")

\* A peer's request, once no member the user named is left; requests that may
\* no longer run are dropped on the way.
Usable(m) ==
    /\ m.to \notin claims /\ MayRun(budget, m.to, m.hop) /\ standing[m.to] = "active"
    /\ group.response[m.to] \notin {"muted", "manual_only"}

UsablePeers == IF Wanted = {} THEN {i \in DOMAIN peers : Usable(peers[i])} ELSE {}

PeerSpeaks ==
    /\ phase = "choose"
    /\ \E i \in UsablePeers, a \in Members, hop \in 0..MaxHops :
       /\ \A j \in UsablePeers : i <= j
       /\ peers[i] = [to |-> a, hop |-> hop]
       /\ Queue(a, hop, "speak")
       /\ remaining' = remaining \ {a}
       /\ peers' = SubSeq(peers, i + 1, Len(peers))
    /\ UNCHANGED <<group, signal, mentions, previous, spoke, budget, claims, chain, result,
                   said, standing>>

\* A member the user named; its slot and what peers asked of it are used up.
MentionSpeaks ==
    /\ phase = "choose" /\ UsablePeers = {}
    /\ \E i \in Eligible :
       LET a == group.mentions[i] IN
       /\ \A j \in Eligible : i <= j
       /\ mentions' = mentions \ {a}
       /\ peers' = SelectSeq(peers, LAMBDA m : m.to # a)
       /\ IF Automatic
          THEN Revalidate(budget, a, {a}, FALSE)
          ELSE remaining' = remaining \ {a} /\ Queue(a, 0, "speak")
    /\ UNCHANGED <<group, signal, previous, spoke, budget, claims, chain, result, said, standing>>

\* What is left to choose from when no peer and no mention goes first.
Choosing ==
    /\ phase = "choose" /\ UsablePeers = {} /\ Eligible = {}
    /\ peers' = IF Wanted = {} THEN <<>> ELSE peers
    /\ UNCHANGED <<group, signal, mentions, previous, spoke, claims, chain, result, said, standing>>

Empty == Wanted = {} /\ Open = {}
Moderated == group.moderated /\ ~Empty /\ (Automatic \/ Cardinality(Legal) >= 2)
CallsSpent == budget.calls >= MaxModeratorCalls

AskModerator ==
    /\ Choosing /\ Moderated
    /\ IF CallsSpent THEN ~Automatic ELSE budget.tokens < group.tokens /\ ~Failing(budget)
    /\ phase' = "moderate" /\ verdict' = IF CallsSpent THEN "fallback" ELSE "ask"
    /\ UNCHANGED <<state, outcome, remaining, budget, dispatches>>

NextInOrder ==
    /\ Choosing /\ ~Moderated /\ ~Empty
    /\ \E a \in Legal :
       /\ \A c \in Legal : a <= c
       /\ IF Automatic THEN Revalidate(budget, a, {a}, FALSE)
          ELSE remaining' = remaining \ {a} /\ Queue(a, 0, "speak")
    /\ UNCHANGED budget

\* next_decision when it ends the turn.
Ending ==
    IF Moderated
    THEN IF CallsSpent \/ budget.tokens >= group.tokens THEN "budget_exhausted"
         ELSE "failure_budget_exhausted"
    ELSE LET why == Rejection(budget, 0, 0) IN
         CASE why = "failures" -> "failure_budget_exhausted"
           [] why = "tokens" \/ (why # "none" /\ ~Empty) -> "budget_exhausted"
           [] OTHER -> "silence"

Conclude ==
    /\ Choosing
    /\ IF Moderated
       THEN IF CallsSpent THEN Automatic ELSE budget.tokens >= group.tokens \/ Failing(budget)
       ELSE Empty \/ Legal = {}
    /\ phase' = "finish" /\ verdict' = Ending
    /\ UNCHANGED <<state, outcome, remaining, budget, dispatches>>
-----------------------------------------------------------------------------
(* The moderator                                                           *)

Consulted ==
    /\ phase = "moderate" /\ ~signal
    /\ UNCHANGED <<group, signal, mentions, peers, previous, spoke, claims, chain, result, said,
                   standing>>

\* It is not asked when its calls are used up: the first legal member speaks.
ModeratorSkipped ==
    /\ Consulted /\ verdict = "fallback"
    /\ UNCHANGED budget /\ Revalidate(budget, 0, Legal, TRUE)

\* The decision model finds the objective reached.
DecisionFinishes ==
    /\ Consulted /\ verdict = "ask" /\ group.decides /\ Automatic /\ budget.steps > 0
    /\ \E u \in group.usage : budget' = Spend(budget, u)
    /\ phase' = "finish" /\ verdict' = "finished"
    /\ UNCHANGED <<state, outcome, remaining, dispatches>>

DecisionPicks ==
    /\ Consulted /\ verdict = "ask" /\ group.decides
    /\ \E u \in group.usage, a \in Legal :
        /\ budget' = Spend(budget, u)
        /\ Revalidate(Spend(budget, u), a, Legal, ~Automatic)

\* What the decision model took before it left the choice to the moderator.
Judged == IF group.decides THEN group.usage ELSE {0}

\* The moderator names a member, or finishes an automatic turn, or its answer
\* is of no use.  The attempt counts; one that takes the tokens over the limit
\* decides nothing.  An automatic turn counts the failure.
Answers == {[pick |-> a, done |-> FALSE, bad |-> FALSE] : a \in Legal}
    \cup {[pick |-> 0, done |-> d, bad |-> ~d] : d \in IF Automatic THEN BOOLEAN ELSE {FALSE}}

ModeratorAnswers ==
    /\ Consulted /\ verdict = "ask" /\ group.ready
    /\ \E u \in group.usage, d \in Judged, answer \in Answers :
        LET counted == Spend([budget EXCEPT !.calls = @ + 1], u + d)
            b == IF answer.bad /\ Automatic THEN RecordFailure(counted) ELSE counted
        IN  /\ budget' = b
            /\ IF counted.tokens > group.tokens \/ answer.done
               THEN /\ UNCHANGED <<state, outcome, remaining, dispatches>>
                    /\ IF counted.tokens > group.tokens
                       THEN phase' = "choose" /\ verdict' = "none"
                       ELSE phase' = "finish" /\ verdict' = "finished"
               ELSE Revalidate(b, answer.pick, Legal, ~Automatic)

\* Its provider cannot be used, or was deleted after the group was configured.
ModeratorMissing ==
    /\ Consulted /\ verdict = "ask"
    /\ \E d \in Judged :
        LET spent == Spend(budget, d)
            b == IF Automatic THEN RecordFailure(spent) ELSE spent
        IN  budget' = b /\ Revalidate(b, 0, Legal, ~Automatic)

\* A turn that ends without a word because a dispatch failed is a failure.
Finish ==
    /\ phase = "finish"
    /\ IF verdict = "silence" /\ spoke THEN Close("completed", "completed")
       ELSE IF verdict = "silence" /\ budget.failures > 0 THEN Close("failed", "error")
       ELSE IF verdict = "finished" THEN Close("completed", "completed")
       ELSE Close(verdict, "silence")
    /\ UNCHANGED <<group, signal, floor, budget, claims, work, standing>>
-----------------------------------------------------------------------------
(* One execution                                                           *)

Here == Last(chain)
Row == dispatches[Here.row]
Newest == Len(dispatches)
CloseRow(i, status) == [dispatches EXCEPT ![i].status = status]
Running(i) == dispatches[i].status = "running"

\* A caller that hands off from a private call stays open until its helper ends.
Deferred(caller, action) ==
    action = "handoff" /\ caller.private /\ dispatches[caller.row].action = "call"

\* start_dispatch.  A caller that hands off ends here.  A row that a
\* cancellation closed fails the write.
StartDispatch ==
    /\ phase = "start"
    /\ LET new == dispatches[Newest]
           handsOff == /\ chain # <<>> /\ new.action = "handoff"
                       /\ ~Deferred(Here, "handoff")
           b == RecordDispatch(budget, new.agent)
       IN  IF new.status # "queued"
           THEN FailPersistence /\ UNCHANGED <<dispatches, chain, budget>>
           ELSE IF handsOff /\ ~Running(Here.row)
           THEN /\ FailPersistence /\ dispatches' = CloseRow(Newest, "running")
                /\ UNCHANGED <<chain, budget>>
           ELSE /\ dispatches' =
                     IF handsOff
                     THEN [CloseRow(Newest, "running") EXCEPT ![Here.row].status = "completed"]
                     ELSE CloseRow(Newest, "running")
                /\ budget' = IF handsOff THEN RecordCompletion(b) ELSE b
                /\ chain' = Append(chain, [row |-> Newest, private |->
                              chain # <<>> /\ (Here.private \/ new.action = "call")])
                /\ phase' = "run" /\ UNCHANGED <<state, outcome, verdict>>
    /\ UNCHANGED <<group, signal, floor, claims, result, said, standing>>

Executing == phase = "run" /\ result = Nothing
Executed ==
    /\ Executing /\ ~signal
    /\ \E u \in group.usage : budget' = Spend(budget, u)
    /\ UNCHANGED <<group, signal, stage, floor, claims, chain, standing>>

\* Mutation: only the dispatch is checked, not its turn.
RowRuns == Running(Here.row)

MayPublish == Running(Here.row) /\ state = "running"

\* finish_dispatch with an output: the reply, its event and the row in one
\* transaction, which rechecks that the turn is still running.
Reply(kind, status) ==
    /\ Executed /\ ~Here.private
    /\ IF MayPublish
       THEN /\ dispatches' = CloseRow(Here.row, status)
            /\ said' = Append(said, Row.agent)
            /\ result' = [kind |-> kind, via |-> FALSE, who |-> Row.agent]
       ELSE result' = Of("persistence") /\ UNCHANGED <<dispatches, said>>

Speak == Reply("visible", "completed")
AskUser == Reply("waiting", "waiting_for_user")

\* A silent reply, or the content of a private execution.
StaySilent ==
    /\ Executed /\ UNCHANGED <<dispatches, said>>
    /\ \E kind \in IF Here.private THEN {"private", "private_waiting"} ELSE {"quiet"} :
        result' = Of(kind)

\* The provider fails, or the agent's ACP process does.
ExecutionFails ==
    /\ Executed /\ UNCHANGED <<dispatches, said>>
    /\ \E kind \in {"failed", "acp"} : result' = Of(kind)

ExecutionStops ==
    /\ Executing /\ signal /\ result' = Of("cancelled")
    /\ UNCHANGED <<group, signal, stage, floor, budget, claims, dispatches, chain, said, standing>>

\* AgentAsTool: a call's helper answers its caller, a handoff's the user.  A
\* refused delegation changes nothing; a fan_out is calls one after another.
Delegate(a, action) ==
    /\ Executing /\ ~signal
    /\ action = "handoff" => ~Automatic /\ ~group.direct
    /\ a # Row.agent /\ standing[a] # "deleted" /\ (group.direct \/ standing[a] # "left")
    /\ budget.per[a] = 0 /\ a \notin claims
    /\ group.direct \/ Edge(Row.agent, a)
    /\ \E u \in group.usage :
        /\ MayRun(Spend(budget, u), a, Row.hop + 1)
        /\ budget' = Spend(budget, u)
    /\ Queue(a, Row.hop + 1, action)
    /\ claims' = claims \cup {a}
    /\ UNCHANGED <<group, signal, floor, chain, result, said, standing>>
-----------------------------------------------------------------------------
(* A helper comes back                                                     *)

Caller == chain[Len(chain) - 1]

Returning(kinds) ==
    /\ phase = "run" /\ result.kind \in kinds /\ Len(chain) > 1
    /\ chain' = Front(chain)
    /\ UNCHANGED <<group, signal, stage, floor, claims, said, standing>>

\* finish_dispatch by the caller, unless the helper's own handoff ended the row.
Settle(status, then) ==
    IF result.via THEN UNCHANGED dispatches /\ result' = then
    ELSE IF Running(Here.row)
    THEN dispatches' = CloseRow(Here.row, status) /\ result' = then
    ELSE UNCHANGED dispatches /\ result' = Of("persistence")

\* What a handoff makes of its caller.
HandedOff(kind, who) ==
    [kind |-> kind, via |-> kind \notin Private \/ ~Deferred(Caller, Row.action), who |-> who]

HelperStopped ==
    /\ Returning({"cancelled"}) /\ UNCHANGED <<budget, result>>
    /\ dispatches' = IF ~Running(Here.row) THEN dispatches
                     ELSE CloseRow(Here.row, IF Row.action = "call" THEN "completed"
                                             ELSE "interrupted")

HelperFailed ==
    /\ Returning({"failed", "acp"})
    /\ budget' = RecordFailure(budget)
    /\ dispatches' = IF Running(Here.row) THEN CloseRow(Here.row, "failed") ELSE dispatches
    /\ result' = IF Row.action = "call" THEN Nothing
                 ELSE HandedOff(IF Deferred(Caller, "handoff") THEN "private_failed"
                                ELSE "quiet", 0)

HelperLost == Returning({"persistence"}) /\ UNCHANGED <<budget, dispatches, result>>

Completed ==
    IF result.via \/ result.kind = "private_failed" THEN budget ELSE RecordCompletion(budget)

\* A call: only a private result goes back to the caller's model.
CallAnswered ==
    /\ Returning(Private \cup {"visible", "waiting", "quiet"})
    /\ Row.action = "call"
    /\ budget' = Completed
    /\ IF result.kind \in Private
       THEN Settle(IF result.kind = "private_failed" THEN "failed" ELSE "completed", Nothing)
       ELSE result' = Of("failed") /\ UNCHANGED dispatches

\* A handoff ends its caller with the helper's result.
HandoffEnds ==
    /\ Returning(Private \cup {"visible", "waiting", "quiet"})
    /\ Row.action = "handoff"
    /\ budget' = Completed
    /\ CASE result.kind \in Private -> Settle("completed", HandedOff(result.kind, 0))
         [] result.kind = "quiet" /\ Running(Here.row) -> Settle("silent", HandedOff("quiet", 0))
         [] OTHER -> UNCHANGED dispatches /\ result' = HandedOff(result.kind, result.who)
-----------------------------------------------------------------------------
(* A speaker comes back                                                    *)

Returned(kinds) ==
    /\ phase = "run" /\ result.kind \in kinds /\ Len(chain) = 1
    /\ UNCHANGED <<group, signal, claims, said, standing>>

Release == chain' = <<>> /\ result' = Nothing
Proceed == phase' = "choose" /\ UNCHANGED <<state, outcome, verdict>>

SpeakerStopped == Returned({"cancelled"}) /\ CancelScheduled /\ UNCHANGED <<floor, budget>>

SpeakerLost ==
    Returned({"persistence"}) /\ FailPersistence /\ Release /\ UNCHANGED <<floor, budget, dispatches>>

\* A provider's failure costs the turn one failure; an ACP failure ends it.
SpeakerFailed ==
    /\ Returned({"failed", "acp"}) /\ Release /\ UNCHANGED floor
    /\ budget' = RecordFailure(budget)
    /\ dispatches' = IF Running(Here.row) THEN CloseRow(Here.row, "failed") ELSE dispatches
    /\ IF result.kind = "acp" THEN Close("failed", "error") ELSE Proceed

SpeakerAsked ==
    /\ Returned({"waiting"}) /\ Release /\ UNCHANGED <<floor, dispatches>>
    /\ budget' = Completed /\ Close("waiting_for_user", "waiting")

\* Whoever stays silent in an automatic turn is not asked again.
SpeakerSilent ==
    /\ Returned({"quiet"}) /\ Release
    /\ IF result.via \/ Running(Here.row)
       THEN /\ dispatches' = IF result.via THEN dispatches ELSE CloseRow(Here.row, "silent")
            /\ Proceed /\ budget' = Completed
            /\ previous' = Row.agent
            /\ remaining' = IF Automatic /\ ~result.via THEN remaining \ {Row.agent}
                            ELSE remaining
       ELSE FailPersistence /\ UNCHANGED <<dispatches, budget, previous, remaining>>
    /\ UNCHANGED <<mentions, peers, spoke>>

\* The members a reply may name.
Namings == {<<>>} \cup {<<a>> : a \in Members} \cup {s \in Members \X Members : s[1] # s[2]}

Requests(names, b, hop) ==
    LET heard(a) == /\ a # result.who /\ group.response[a] \notin {"muted", "manual_only"}
                    /\ a \notin claims /\ Edge(result.who, a) /\ MayRun(b, a, hop)
                    /\ standing[a] \in {"active", "muted"}
                    /\ \A i \in DOMAIN peers : peers[i].to # a
        asked == SelectSeq(names, heard)
    IN  [i \in DOMAIN asked |-> [to |-> asked[i], hop |-> hop]]

\* The reply may name members, who are asked to follow in a bounded mesh.
SpeakerSpoke ==
    /\ Returned({"visible"}) /\ Release /\ UNCHANGED <<dispatches, remaining, mentions>>
    /\ signal => result.via \/ ~group.decides
    /\ spoke' = TRUE /\ previous' = result.who
    /\ \E u \in Judged : budget' = Spend(Completed, u)
    /\ Proceed
    /\ IF SchedulesPeers /\ ~result.via
       THEN \E names \in Namings : peers' = peers \o Requests(names, budget', Row.hop + 1)
       ELSE UNCHANGED peers

\* The decision model reads the reply as a question to the user, or is stopped
\* while it reads.
ReplyIsQuestion ==
    /\ Returned({"visible"}) /\ ~result.via /\ group.decides
    /\ spoke' = TRUE /\ UNCHANGED <<remaining, mentions, peers, previous>>
    /\ budget' = Completed
    /\ \/ ~signal /\ Release /\ UNCHANGED dispatches /\ Close("waiting_for_user", "waiting")
       \/ signal /\ CancelScheduled
-----------------------------------------------------------------------------
(* Around the turn                                                         *)

\* The user cancels: the turn's rows in one transaction, its token after it.
CancelTurn ==
    /\ state \notin Final /\ phase # "ended"
    /\ state' = "cancelled" /\ dispatches' = Interrupted(dispatches)
    /\ UNCHANGED <<group, signal, phase, outcome, verdict, floor, budget, claims, chain, result,
                   said, standing>>

\* After a cancellation, or by itself when an automation's time is up.
Signal ==
    /\ ~signal /\ phase # "ended" /\ signal' = TRUE
    /\ UNCHANGED <<group, stage, floor, budget, claims, work, standing>>

\* A member is muted, leaves the group or is deleted.
MemberLeaves ==
    /\ phase # "ended"
    /\ Cardinality({a \in Members : standing[a] # "active"}) < group.leavers
    /\ \E a \in Members, s \in {"muted", "left", "deleted"} :
        standing[a] = "active" /\ standing' = [standing EXCEPT ![a] = s]
    /\ UNCHANGED <<group, signal, stage, floor, budget, claims, work>>

Scheduling ==
    \/ Start \/ Prefilter \/ StopWhileAsking
    \/ PeerSpeaks \/ MentionSpeaks \/ AskModerator \/ NextInOrder \/ Conclude
    \/ ModeratorSkipped \/ DecisionFinishes \/ DecisionPicks \/ ModeratorAnswers \/ ModeratorMissing
    \/ Finish \/ StartDispatch

Replying ==
    \/ Speak \/ AskUser \/ StaySilent \/ ExecutionFails \/ ExecutionStops
    \/ \E a \in Members, action \in {"call", "handoff"} : Delegate(a, action)
    \/ HelperStopped \/ HelperFailed \/ HelperLost \/ CallAnswered \/ HandoffEnds
    \/ SpeakerStopped \/ SpeakerLost \/ SpeakerFailed \/ SpeakerAsked \/ SpeakerSilent
    \/ SpeakerSpoke \/ ReplyIsQuestion

Next == Scheduling \/ Replying \/ CancelTurn \/ Signal \/ MemberLeaves

\* The worker goes on, and an agent's execution comes to an end.
Fairness == WF_vars(Scheduling \/ Replying)
Spec == Init /\ [][Next]_vars /\ Fairness
-----------------------------------------------------------------------------
(* What a turn promises                                                    *)

\* Whoever was delegated to has had its turn: it is dispatched that once, and
\* neither a mention, nor a peer's request, nor the moderator, nor another
\* delegation gives it a second dispatch (docs/guide/groups.md: "claims its
\* scheduled slot so it does not run again later").
HelperRunsOnce ==
    \A i, j \in DOMAIN dispatches :
        i # j /\ dispatches[i].agent = dispatches[j].agent => dispatches[i].action = "speak"

\* A turn that ends in good order has dispatched every member the user named
\* who is still there: no filter, topology, moderator or peer request loses a
\* mention.  Only a budget, a failure or a question to the user may, and the
\* moderator of an automatic turn, which is asked once more when the steps are
\* spent and may call the turn completed.
MentionsAreAnswered ==
    state \in {"completed", "silence"} =>
        \A a \in Named \cap Selected :
            standing[a] = "active" =>
                \/ \E i \in DOMAIN dispatches : dispatches[i].agent = a
                \/ Automatic /\ state = "completed" /\ budget.steps >= MaxSteps

\* The turn is what the durable queue takes it for: see TurnPromise.  In
\* particular no reply reaches the transcript once the turn is cancelled,
\* wherever the cancellation met the worker, not even from a dispatch that is
\* queued after the cancellation closed the others; and no ending of the
\* scheduler writes over a cancellation or reports more than was settled.
Promise == INSTANCE TurnPromise WITH
    status <- IF state \in {"silence", "budget_exhausted", "failure_budget_exhausted"}
              THEN "completed" ELSE state,
    at <- IF phase = "accept" THEN "start" ELSE IF phase = "ended" THEN "over" ELSE "run",
    out <- CASE outcome \in {"completed", "silence"} -> "succeeded"
             [] outcome = "waiting" -> "waiting_for_user"
             [] outcome = "error" -> "failed"
             [] OTHER -> outcome

KeepsTurnPromise == Promise!Spec

DispatchesOf(a) == {i \in DOMAIN dispatches : dispatches[i].agent = a}
FailedBesides(action) ==
    {i \in DOMAIN dispatches : dispatches[i].status = "failed" /\ dispatches[i].action # action}

\* The budgets bound the rows themselves, whoever queued them: the scheduler,
\* a peer's request, or a delegation several levels down.  A private call that
\* handed off fails with the member it handed off to: of the two failed rows
\* one is counted, so that the failures are the rows without either kind.
LimitsKept ==
    [][Len(dispatches') > Len(dispatches) =>
         LET new == Last(dispatches') IN
         /\ Len(dispatches) < MaxSteps
         /\ Cardinality(DispatchesOf(new.agent)) < group.perAgent
         /\ new.hop <= MaxHops
         /\ \A action \in {"call", "handoff"} :
                Cardinality(FailedBesides(action)) < group.failures]_vars

\* Every turn ends, whatever is cancelled and whoever leaves while it runs:
\* the scheduler never turns in a circle among members it cannot dispatch.
TurnEnds == <>(phase = "ended")
=============================================================================
