-------------------------- MODULE GroupTurnProofs --------------------------
(***************************************************************************)
(* A helper runs once, the limits bound the rows, a mention is not lost,   *)
(* and what a turn promises its queue, for every number of members, every  *)
(* setting and every budget.                                               *)
(***************************************************************************)
EXTENDS GroupTurn, SequenceTheorems, FiniteSetTheorems, TLAPS

Dispatch == [agent : Members, hop : Nat, action : {"speak", "call", "handoff"},
             status : {"queued", "running", "completed", "silent", "failed",
                       "waiting_for_user", "interrupted", "cancelled"}]
Link == [row : Nat, private : BOOLEAN]
Budget == [steps : Nat, per : [Members -> Nat], calls : Nat, consec : Nat,
           failures : Nat, tokens : Nat]

\* Only the worker ends the turn, and only a cancellation ends it beside it.
Staged ==
    /\ group \in Groups
    /\ phase \in {"accept", "prefilter", "choose", "moderate", "start", "run", "finish", "ended"}
    /\ phase = "accept" => state \in {"pending", "cancelled"}
    /\ phase \notin {"accept", "ended"} => state \in {"running", "cancelled"}
    /\ phase # "ended" => outcome = "none"
    /\ phase = "finish" => verdict \in {"silence", "budget_exhausted",
                                        "failure_budget_exhausted", "finished"}
    /\ result.kind = "cancelled" => signal

\* The dispatches under way are rows of the turn.
Rows ==
    /\ remaining \subseteq Members
    /\ budget \in Budget
    /\ dispatches \in Seq(Dispatch)
    /\ said \in Seq(Members)
    /\ chain \in Seq(Link)
    /\ \A k \in DOMAIN chain : chain[k].row \in DOMAIN dispatches
    /\ phase = "run" => chain # <<>>
    /\ phase = "start" => dispatches # <<>>

\* A helper is claimed, and whoever was dispatched has been charged for it:
\* that is what keeps a second delegation away.  The newest row is charged
\* when it starts.
Claimed ==
    /\ \A i \in DOMAIN dispatches :
         dispatches[i].action # "speak" => dispatches[i].agent \in claims
    /\ phase # "ended" =>
         \A i \in DOMAIN dispatches :
            \/ phase = "start" /\ i = Len(dispatches)
            \/ budget.per[dispatches[i].agent] > 0
    /\ HelperRunsOnce

IInv == Staged /\ Rows /\ Claimed
-----------------------------------------------------------------------------
(* Who may be queued                                                       *)

LEMMA PoolIsThere == ASSUME Rows PROVE Pool \subseteq Members /\ Pool \cap claims = {}
BY DEF Rows, Pool

LEMMA FrontierInPool ==
    ASSUME group \in Groups, NEW pool, NEW source
    PROVE  Frontier(pool, source) \subseteq pool
BY GroupsAssumption DEF Frontier, Shapes

LEMMA LegalInPool == ASSUME Staged PROVE Legal \subseteq Pool
BY FrontierInPool DEF Legal, Open, Staged

\* What a step does to the rows: it keeps who was dispatched and how, or adds
\* one speaker who was not claimed, or adds one helper who is.
SameRows(rows) ==
    /\ rows \in Seq(Dispatch) /\ Len(rows) = Len(dispatches)
    /\ \A i \in DOMAIN dispatches : /\ rows[i].agent = dispatches[i].agent
                                    /\ rows[i].action = dispatches[i].action

Status == {"queued", "running", "completed", "silent", "failed",
           "waiting_for_user", "interrupted", "cancelled"}

\* A row whose status is written over.
LEMMA ClosingARow ==
    ASSUME NEW row \in Dispatch, NEW status \in Status
    PROVE  LET closed == [row EXCEPT !.status = status] IN
           closed \in Dispatch /\ closed.agent = row.agent /\ closed.action = row.action
BY DEF Dispatch, Status

LEMMA ClosingKeepsRows ==
    ASSUME NEW rows \in Seq(Dispatch), SameRows(rows), NEW i \in DOMAIN rows,
           NEW status \in Status
    PROVE  SameRows([rows EXCEPT ![i].status = status])
<1> DEFINE closed == [rows EXCEPT ![i].status = status]
<1>1. rows[i] \in Dispatch
  OBVIOUS
<1>2. [rows[i] EXCEPT !.status = status] \in Dispatch
  BY <1>1, ClosingARow
<1>3. closed \in Seq(Dispatch) /\ Len(closed) = Len(rows)
  BY <1>2
<1>4. \A j \in DOMAIN rows :
        closed[j].agent = rows[j].agent /\ closed[j].action = rows[j].action
  BY <1>1, ClosingARow
<1>5. DOMAIN rows = DOMAIN dispatches
  BY DEF SameRows
<1> QED
  BY <1>3, <1>4, <1>5 DEF SameRows

LEMMA InterruptingKeepsRows == ASSUME Rows PROVE SameRows(Interrupted(dispatches))
<1> DEFINE closed == Interrupted(dispatches)
<1>1. \A i \in DOMAIN dispatches :
        /\ closed[i] \in Dispatch
        /\ closed[i].agent = dispatches[i].agent /\ closed[i].action = dispatches[i].action
  <2>1. TAKE i \in DOMAIN dispatches
  <2>2. dispatches[i] \in Dispatch
    BY DEF Rows
  <2>3. PICK status \in Status : closed[i] = [dispatches[i] EXCEPT !.status = status]
    <3>1. dispatches[i].status \in Status
      BY <2>2 DEF Dispatch, Status
    <3> QED
      BY <3>1 DEF Interrupted, Status
  <2> QED
    BY <2>2, <2>3, ClosingARow
<1>2. closed \in [1..Len(dispatches) -> Dispatch]
  BY <1>1 DEF Interrupted, Rows
<1>3. closed \in Seq(Dispatch) /\ Len(closed) = Len(dispatches)
  <2> HIDE DEF closed
  <2>1. PICK n \in Nat : n = Len(dispatches) /\ closed \in [1..n -> Dispatch]
    BY <1>2, LenProperties DEF Rows
  <2>2. closed \in Seq(Dispatch)
    BY <2>1, SeqDef
  <2>3. Len(closed) \in Nat /\ DOMAIN closed = 1..Len(closed) /\ DOMAIN closed = 1..n
    BY <2>1, <2>2, LenProperties
  <2> QED
    BY <2>1, <2>2, <2>3
<1> QED
  BY <1>1, <1>3 DEF SameRows
-----------------------------------------------------------------------------
(* Who speaks next                                                         *)

Endings == {"silence", "budget_exhausted", "failure_budget_exhausted", "finished"}

\* What the budgets require of a dispatch when it is queued.
Admits(a, hop) ==
    /\ budget.steps < MaxSteps /\ budget.per[a] < group.perAgent
    /\ hop <= MaxHops /\ budget.failures < group.failures

Adds(a, action) ==
    \E hop \in Nat :
        /\ Admits(a, hop)
        /\ dispatches' = Append(dispatches, [agent |-> a, hop |-> hop, action |-> action,
                                            status |-> "queued"])

\* What the choice of the next speaker may do.
Chosen ==
    /\ remaining' \subseteq remaining
    /\ \/ /\ phase' \in {"choose", "moderate", "finish"}
          /\ phase' = "finish" => verdict' \in Endings
          /\ UNCHANGED <<state, outcome, dispatches>>
       \/ FailPersistence /\ UNCHANGED dispatches
       \/ /\ \E a \in Members \ claims : Adds(a, "speak")
          /\ phase' = "start" /\ UNCHANGED <<state, outcome>>

LEMMA Queueing ==
    ASSUME NEW a \in Members, NEW hop \in Nat, NEW action,
           Admits(a, hop), Queue(a, hop, action)
    PROVE  \/ FailPersistence /\ UNCHANGED dispatches
           \/ Adds(a, action) /\ phase' = "start" /\ UNCHANGED <<state, outcome>>
BY DEF Queue, Adds

Tried(candidates) ==
    \/ /\ remaining' \subseteq remaining
       /\ phase' = "choose" /\ UNCHANGED <<state, outcome, dispatches>>
    \/ \E a \in candidates :
          Admits(a, 0) /\ Queue(a, 0, "speak") /\ remaining' \subseteq remaining

LEMMA Trying ==
    ASSUME Rows, NEW candidates, candidates \subseteq Pool, Tried(candidates)
    PROVE  Chosen
<1>1. CASE \E a \in candidates :
             Admits(a, 0) /\ Queue(a, 0, "speak") /\ remaining' \subseteq remaining
  <2>1. PICK a \in candidates :
          Admits(a, 0) /\ Queue(a, 0, "speak") /\ remaining' \subseteq remaining
    BY <1>1
  <2>2. a \in Members \ claims
    BY PoolIsThere
  <2> QED
    BY <2>1, <2>2, Queueing DEF Chosen
<1>2. CASE /\ remaining' \subseteq remaining
           /\ phase' = "choose" /\ UNCHANGED <<state, outcome, dispatches>>
  BY <1>2 DEF Chosen
<1> QED
  BY <1>1, <1>2 DEF Tried

\* The dispatches charged stay what they are, and no failure is taken back.
Kept(b, c) == c.per = b.per /\ c.steps = b.steps /\ c.failures >= b.failures

\* The tokens of a model call are charged to nobody.
Untouched ==
    /\ UNCHANGED <<group, signal, claims, chain, result, said>>
    /\ budget' \in Budget /\ Kept(budget, budget')

LEMMA Spending ==
    ASSUME Staged, NEW b \in Budget, NEW u \in group.usage \cup {0}
    PROVE  Spend(b, u) \in Budget /\ Kept(b, Spend(b, u))
<1>1. u \in Nat
  BY GroupsAssumption DEF Staged
<1> QED
  BY <1>1 DEF Spend, Budget, Kept

LEMMA SumsOfUsage ==
    ASSUME Staged, NEW b \in Budget, NEW u \in group.usage, NEW d \in Judged
    PROVE  Spend(b, u + d) \in Budget /\ Kept(b, Spend(b, u + d))
<1>1. u \in Nat /\ d \in Nat
  BY GroupsAssumption DEF Staged, Judged
<1> QED
  BY <1>1 DEF Spend, Budget, Kept

LEMMA Failures ==
    ASSUME NEW b \in Budget
    PROVE  /\ RecordFailure(b) \in Budget /\ Kept(b, RecordFailure(b))
           /\ RecordFailure(b).failures = b.failures + 1
           /\ RecordCompletion(b) \in Budget /\ Kept(b, RecordCompletion(b))
           /\ RecordCompletion(b).failures = b.failures
<1>1. /\ RecordCompletion(b) \in Budget /\ Kept(b, RecordCompletion(b))
      /\ RecordCompletion(b).failures = b.failures
  BY DEF RecordCompletion, Budget, Kept
<1> DEFINE once == [b EXCEPT !.consec = @ + 1]
<1>2. once \in Budget /\ once.per = b.per /\ once.steps = b.steps /\ once.failures = b.failures
  BY DEF Budget
<1>3. RecordFailure(b) = [once EXCEPT !.failures = @ + 1]
  BY Zenon DEF RecordFailure
<1>4. \A c \in Budget : LET d == [c EXCEPT !.failures = @ + 1] IN
        d \in Budget /\ d.per = c.per /\ d.steps = c.steps /\ d.failures = c.failures + 1
  BY DEF Budget
<1>5. /\ RecordFailure(b) \in Budget /\ Kept(b, RecordFailure(b))
      /\ RecordFailure(b).failures = b.failures + 1
  <2> HIDE DEF once
  <2>1. b.failures \in Nat
    BY DEF Budget
  <2> QED
    BY <1>2, <1>3, <1>4, <2>1 DEF Kept
<1> QED
  BY ONLY <1>1, <1>5

\* Charges add up from call to call.
LEMMA KeptOn ==
    ASSUME NEW b \in Budget, NEW c \in Budget, NEW d \in Budget, Kept(b, c), Kept(c, d)
    PROVE  Kept(b, d)
<1>1. b.failures \in Nat /\ c.failures \in Nat /\ d.failures \in Nat
  BY DEF Budget
<1> QED
  BY <1>1 DEF Kept

LEMMA NamedAreMembers ==
    ASSUME group \in Groups
    PROVE  Named \subseteq Members /\ Candidates \subseteq Members /\ Selected \subseteq Members
<1>1. 1 \in Members /\ group.mentions \in Seq(Members)
  BY GroupsAssumption
<1>2. Named \subseteq Members
  BY <1>1 DEF Named, ToSet
<1> QED
  BY <1>1, <1>2 DEF Selected, Candidates

LEMMA Extremes ==
    ASSUME NEW m \in Nat, NEW n \in Nat PROVE Max({m, n}) \in Nat /\ Min({m, n}) \in Nat
<1>1. \E x \in {m, n} : \A y \in {m, n} : x >= y
  OBVIOUS
<1>2. \E x \in {m, n} : \A y \in {m, n} : x =< y
  OBVIOUS
<1> QED
  BY <1>1, <1>2 DEF Max, Min

\* What a group may be set to (the checks of migration 0003) leaves a turn
\* with limits that are numbers, two of them positive.
LEMMA Limits ==
    ASSUME group \in Groups
    PROVE  /\ MaxSteps \in Nat /\ MaxHops \in Nat
           /\ group.perAgent \in Nat \ {0} /\ group.failures \in Nat \ {0}
           /\ group.tokens \in Nat
<1>1. /\ group.steps \in Nat /\ group.hops \in Nat /\ group.ceiling \in Nat
      /\ group.perAgent \in Nat \ {0} /\ group.failures \in Nat \ {0}
      /\ group.tokens \in Nat /\ IsFiniteSet(Members)
  BY GroupsAssumption
<1> DEFINE able == IF OnePass THEN Selected ELSE Candidates
<1>2. Cardinality(able) \in Nat
  <2>1. able \in SUBSET Members
    BY NamedAreMembers
  <2>2. IsFiniteSet(able)
    BY <1>1, <2>1, FS_Subset
  <2> QED
    BY <2>2, FS_CardinalityType
<1>3. \A n \in Nat : AutoSteps(n) \in Nat
  <2> TAKE n \in Nat
  <2>1. Min({24, 3 * n}) \in Nat
    BY Extremes
  <2>2. Max({8, Min({24, 3 * n})}) \in Nat
    BY <2>1, Extremes
  <2> QED
    BY <2>2 DEF AutoSteps
<1>4. AutoSteps(Cardinality(able)) \in Nat
  BY <1>2, <1>3
<1> DEFINE own == IF group.direct THEN 1 + MaxFanOut
                  ELSE IF group.steps # 0 THEN group.steps ELSE AutoSteps(Cardinality(able))
<1>5. own \in Nat
  BY <1>1, <1>4 DEF MaxFanOut
<1>6. MaxSteps = IF group.ceiling = 0 THEN own ELSE Min({own, group.ceiling})
  BY DEF MaxSteps
<1>7. MaxSteps \in Nat
  <2> HIDE DEF own
  <2>1. Min({own, group.ceiling}) \in Nat
    BY <1>1, <1>5, Extremes
  <2> QED
    BY <1>5, <1>6, <2>1
<1> QED
  BY <1>1, <1>7 DEF MaxHops

\* A dispatch is admitted by the budget of its turn, before or after what the
\* choice of the speaker cost.
LEMMA Admitting ==
    ASSUME Staged, Rows, NEW b \in Budget, Kept(budget, b), NEW a \in Members, NEW hop \in Nat,
           MayRun(b, a, hop)
    PROVE  Admits(a, hop)
<1>1. /\ MaxSteps \in Nat /\ MaxHops \in Nat /\ group.perAgent \in Nat /\ group.failures \in Nat
  BY Limits DEF Staged
<1>2. /\ budget.steps \in Nat /\ budget.per[a] \in Nat /\ budget.failures \in Nat
      /\ b.steps = budget.steps /\ b.per[a] = budget.per[a]
      /\ b.failures \in Nat /\ b.failures >= budget.failures
  BY DEF Rows, Budget, Kept
<1>3. /\ ~(b.steps >= MaxSteps) /\ ~(b.per[a] >= group.perAgent) /\ ~(hop > MaxHops)
      /\ ~Failing(b)
  BY DEF MayRun, Rejection
<1>4. ~(b.failures >= group.failures)
  BY <1>3 DEF Failing
<1> QED
  BY <1>1, <1>2, <1>3, <1>4 DEF Admits

LEMMA KeptSame == ASSUME NEW b \in Budget PROVE Kept(b, b)
BY DEF Budget, Kept

\* take_revalidated_moderator_candidate admits whom it picks.
LEMMA Revalidating ==
    ASSUME Staged, Rows, NEW b \in Budget, Kept(budget, b), NEW preferred, NEW consume,
           NEW candidates, candidates \subseteq Pool,
           Revalidate(b, preferred, candidates, consume)
    PROVE  Tried(candidates)
<1>1. CASE \E a \in candidates : /\ MayRun(b, a, 0) /\ Queue(a, 0, "speak")
                                 /\ remaining' \subseteq remaining
  <2>1. PICK a \in candidates : /\ MayRun(b, a, 0) /\ Queue(a, 0, "speak")
                                /\ remaining' \subseteq remaining
    BY <1>1
  <2>2. a \in Members
    BY PoolIsThere
  <2>3. Admits(a, 0)
    BY <2>1, <2>2, Admitting
  <2> QED
    BY <2>1, <2>3 DEF Tried
<1>2. CASE /\ remaining' \subseteq remaining
           /\ phase' = "choose" /\ UNCHANGED <<state, outcome, dispatches>>
  BY <1>2 DEF Tried
<1> QED
  BY <1>1, <1>2 DEF Revalidate

LEMMA NextSpeaker ==
    ASSUME IInv, \/ PeerSpeaks \/ MentionSpeaks \/ AskModerator \/ NextInOrder \/ Conclude
    PROVE  Chosen /\ Untouched
<1> USE DEF IInv
<1>1. budget \in Budget /\ Kept(budget, budget)
  BY KeptSame DEF Rows
<1>2. CASE PeerSpeaks
  <2>1. PICK i \in UsablePeers, a \in Members, hop \in 0..MaxHops :
           /\ peers[i] = [to |-> a, hop |-> hop]
           /\ Queue(a, hop, "speak") /\ remaining' = remaining \ {a}
    BY <1>2 DEF PeerSpeaks
  <2>2. a \in Members \ claims /\ hop \in Nat /\ MayRun(budget, a, hop)
    BY <2>1 DEF UsablePeers, Usable
  <2>3. Admits(a, hop)
    BY <1>1, <2>2, Admitting
  <2> QED
    BY <1>1, <1>2, <2>1, <2>2, <2>3, Queueing DEF PeerSpeaks, Chosen, Untouched
<1>3. CASE MentionSpeaks
  <2>1. PICK i \in Eligible : LET a == group.mentions[i] IN
           IF Automatic THEN Revalidate(budget, a, {a}, FALSE)
           ELSE remaining' = remaining \ {a} /\ Queue(a, 0, "speak")
    BY <1>3 DEF MentionSpeaks
  <2>2. group.mentions[i] \in Pool /\ MayRun(budget, group.mentions[i], 0)
    BY DEF Eligible, Wanted
  <2>3. Chosen
    <3>1. CASE Automatic
      <4>1. {group.mentions[i]} \subseteq Pool
        BY <2>2
      <4>2. Tried({group.mentions[i]})
        BY <1>1, <2>1, <3>1, <4>1, Revalidating
      <4> QED
        BY <4>1, <4>2, Trying
    <3>2. CASE ~Automatic
      <4>1. group.mentions[i] \in Members \ claims
        BY <2>2, PoolIsThere
      <4>2. Queue(group.mentions[i], 0, "speak") /\ remaining' = remaining \ {group.mentions[i]}
        BY <2>1, <3>2
      <4>3. Admits(group.mentions[i], 0)
        BY <1>1, <2>2, <4>1, Admitting
      <4> QED
        BY <4>1, <4>2, <4>3, Queueing DEF Chosen
    <3> QED
      BY <3>1, <3>2
  <2> QED
    BY <1>1, <1>3, <2>3 DEF MentionSpeaks, Untouched
<1>4. CASE AskModerator
  BY <1>1, <1>4 DEF AskModerator, Choosing, Chosen, Untouched
<1>5. CASE NextInOrder
  <2>1. PICK a \in Legal :
           IF Automatic THEN Revalidate(budget, a, {a}, FALSE)
           ELSE remaining' = remaining \ {a} /\ Queue(a, 0, "speak")
    BY <1>5 DEF NextInOrder
  <2>2. a \in Pool /\ MayRun(budget, a, 0)
    BY LegalInPool DEF Legal
  <2>3. Chosen
    <3>1. CASE Automatic
      <4>1. {a} \subseteq Pool
        BY <2>2
      <4>2. Tried({a})
        BY <1>1, <2>1, <3>1, <4>1, Revalidating
      <4> QED
        BY <4>1, <4>2, Trying
    <3>2. CASE ~Automatic
      <4>1. a \in Members \ claims
        BY <2>2, PoolIsThere
      <4>2. Queue(a, 0, "speak") /\ remaining' = remaining \ {a}
        BY <2>1, <3>2
      <4>3. Admits(a, 0)
        BY <1>1, <2>2, <4>1, Admitting
      <4> QED
        BY <4>1, <4>2, <4>3, Queueing DEF Chosen
    <3> QED
      BY <3>1, <3>2
  <2> QED
    BY <1>1, <1>5, <2>3 DEF NextInOrder, Choosing, Untouched
<1>6. CASE Conclude
  <2>1. Ending \in Endings
    BY DEF Ending, Endings
  <2> QED
    BY <1>1, <1>6, <2>1 DEF Conclude, Choosing, Chosen, Untouched
<1> QED
  BY <1>2, <1>3, <1>4, <1>5, <1>6

LEMMA Moderating ==
    ASSUME IInv, \/ ModeratorSkipped \/ DecisionFinishes \/ DecisionPicks
                 \/ ModeratorAnswers \/ ModeratorMissing
    PROVE  Chosen /\ Untouched
<1> USE DEF IInv
<1>1. budget \in Budget /\ Legal \subseteq Pool /\ Kept(budget, budget)
  BY LegalInPool, KeptSame DEF Rows
<1>2. Consulted => UNCHANGED <<group, signal, claims, chain, result, said>>
  BY DEF Consulted
<1>3. Tried(Legal) => Chosen
  BY <1>1, Trying
<1>4. CASE ModeratorSkipped
  <2>1. Tried(Legal)
    BY <1>1, <1>4, Revalidating DEF ModeratorSkipped
  <2> QED
    BY <1>1, <1>2, <1>3, <1>4, <2>1 DEF ModeratorSkipped, Untouched
<1>5. CASE DecisionFinishes
  <2>1. PICK u \in group.usage : budget' = Spend(budget, u)
    BY <1>5 DEF DecisionFinishes
  <2>2. budget' \in Budget /\ Kept(budget, budget')
    BY <1>1, <2>1, Spending
  <2> QED
    BY <1>2, <1>5, <2>2 DEF DecisionFinishes, Chosen, Untouched, Endings
<1>6. CASE DecisionPicks
  <2>1. PICK u \in group.usage, a \in Legal :
           /\ budget' = Spend(budget, u)
           /\ Revalidate(Spend(budget, u), a, Legal, ~Automatic)
    BY <1>6 DEF DecisionPicks
  <2>2. budget' \in Budget /\ Kept(budget, budget')
    BY <1>1, <2>1, Spending
  <2>3. Tried(Legal)
    BY <1>1, <2>1, <2>2, Revalidating
  <2> QED
    BY <1>2, <1>3, <1>6, <2>2, <2>3 DEF DecisionPicks, Untouched
<1>7. CASE ModeratorAnswers
  <2> DEFINE asked == [budget EXCEPT !.calls = @ + 1]
  <2>1. PICK u \in group.usage, d \in Judged, answer \in Answers :
        LET counted == Spend(asked, u + d)
            b == IF answer.bad /\ Automatic THEN RecordFailure(counted) ELSE counted
        IN  /\ budget' = b
            /\ IF counted.tokens > group.tokens \/ answer.done
               THEN /\ UNCHANGED <<state, outcome, remaining, dispatches>>
                    /\ IF counted.tokens > group.tokens
                       THEN phase' = "choose" /\ verdict' = "none"
                       ELSE phase' = "finish" /\ verdict' = "finished"
               ELSE Revalidate(b, answer.pick, Legal, ~Automatic)
    BY <1>7 DEF ModeratorAnswers
  <2>2. asked \in Budget /\ Kept(budget, asked)
    BY <1>1 DEF Budget, Kept
  <2>3. Spend(asked, u + d) \in Budget /\ Kept(budget, Spend(asked, u + d))
    <3> HIDE DEF asked
    <3> QED
      BY <1>1, <2>2, SumsOfUsage, KeptOn
  <2>4. budget' \in Budget /\ Kept(budget, budget')
    <3>1. budget' = Spend(asked, u + d) \/ budget' = RecordFailure(Spend(asked, u + d))
      BY <2>1
    <3> HIDE DEF asked
    <3> QED
      BY <1>1, <2>3, <3>1, Failures, KeptOn
  <2>5. \/ /\ UNCHANGED <<state, outcome, remaining, dispatches>>
           /\ phase' = "choose" \/ (phase' = "finish" /\ verdict' = "finished")
        \/ Tried(Legal)
    BY <1>1, <2>1, <2>4, Revalidating
  <2>6. Chosen
    BY <1>3, <2>5 DEF Chosen, Endings
  <2> QED
    BY <1>2, <1>7, <2>4, <2>6 DEF ModeratorAnswers, Untouched
<1>8. CASE ModeratorMissing
  <2>1. PICK d \in Judged :
        LET spent == Spend(budget, d)
            b == IF Automatic THEN RecordFailure(spent) ELSE spent
        IN  budget' = b /\ Revalidate(b, 0, Legal, ~Automatic)
    BY <1>8 DEF ModeratorMissing
  <2>2. budget' = Spend(budget, d) \/ budget' = RecordFailure(Spend(budget, d))
    BY <2>1
  <2>3. d \in group.usage \cup {0}
    BY DEF Judged
  <2>4. budget' \in Budget /\ Kept(budget, budget')
    BY <1>1, <2>2, <2>3, Spending, Failures, KeptOn
  <2>5. Tried(Legal)
    BY <1>1, <2>1, <2>4, Revalidating
  <2> QED
    BY <1>2, <1>3, <1>8, <2>4, <2>5 DEF ModeratorMissing, Untouched
<1> QED
  BY <1>4, <1>5, <1>6, <1>7, <1>8
-----------------------------------------------------------------------------
(* The steps that dispatch nobody                                          *)

Busy == {"prefilter", "choose", "moderate", "start", "run", "finish"}

\* The rows and the budget stay what they are for whoever was dispatched.
Worked ==
    /\ UNCHANGED <<group, claims>>
    /\ SameRows(dispatches')
    /\ remaining' \subseteq remaining
    /\ budget' \in Budget /\ Kept(budget, budget')
    /\ \/ UNCHANGED chain /\ (phase' = phase \/ (phase # "run" /\ phase' # "run"))
       \/ chain' = <<>> /\ phase' # "run"
       \/ Len(chain) > 1 /\ chain' = Front(chain) /\ UNCHANGED phase
    /\ phase' = "start" => phase = "start"
    /\ phase' # "ended" => phase # "ended" /\ (phase = "start" => phase' = "start")

\* What the queue sees of a step: nothing, a reply, or how the turn ended.
Quiet ==
    /\ UNCHANGED <<state, outcome, signal, said>>
    /\ \/ UNCHANGED phase
       \/ phase \in Busy /\ phase' \in Busy

Says ==
    /\ phase = "run" /\ state = "running"
    /\ \E a \in Members : said' = Append(said, a)
    /\ UNCHANGED <<state, phase, outcome, signal>>

Closes ==
    \/ Close("completed", "completed") \/ Close("waiting_for_user", "waiting")
    \/ Close("failed", "error") \/ Close("silence", "silence")
    \/ Close("budget_exhausted", "silence") \/ Close("failure_budget_exhausted", "silence")

Ends ==
    /\ phase \in Busy /\ UNCHANGED <<signal, said>>
    /\ \/ Closes
       \/ FailPersistence
       \/ signal /\ CancelScheduled

Around ==
    \/ Start
    \/ CancelTurn
    \/ Signal

Seen == Quiet \/ Says \/ Ends \/ Around

Tidy ==
    /\ phase' = "finish" => verdict' \in Endings
    /\ result'.kind = "cancelled" => signal'

LEMMA SameRowsAsBefore == ASSUME Rows PROVE SameRows(dispatches) /\ Kept(budget, budget)
BY KeptSame DEF Rows, SameRows

LEMMA HereIsARow ==
    ASSUME Rows, chain # <<>>
    PROVE  /\ Here.row \in DOMAIN dispatches /\ Row \in Dispatch
           /\ \A status \in Status : SameRows(CloseRow(Here.row, status))
<1>1. Len(chain) \in DOMAIN chain
  BY DEF Rows
<1>2. Here.row \in DOMAIN dispatches
  BY <1>1 DEF Rows, Here, Last
<1>3. Row \in Dispatch
  BY <1>2 DEF Rows, Row
<1>4. dispatches \in Seq(Dispatch) /\ SameRows(dispatches)
  BY SameRowsAsBefore DEF Rows
<1> QED
  BY <1>2, <1>3, <1>4, ClosingKeepsRows DEF CloseRow

LEMMA CompletingKeepsBudget ==
    ASSUME Rows PROVE Completed \in Budget /\ Kept(budget, Completed)
BY Failures, KeptSame DEF Completed, Rows

LEMMA BeforeTheRun ==
    ASSUME IInv, Start \/ Prefilter \/ StopWhileAsking \/ Finish
    PROVE  Worked /\ Seen /\ Tidy /\ said' \in Seq(Members)
<1> USE DEF IInv
<1>1. /\ SameRows(dispatches) /\ SameRows(Interrupted(dispatches))
      /\ budget \in Budget /\ Kept(budget, budget)
  BY SameRowsAsBefore, InterruptingKeepsRows DEF Rows
<1>2. CASE Start
  BY <1>1, <1>2 DEF Start, Worked, Seen, Around, Tidy, Staged, Rows, floor, work
<1>3. CASE Prefilter
  <2>1. budget' \in Budget /\ Kept(budget, budget')
    BY <1>1, <1>3, Spending DEF Prefilter
  <2>2. remaining' \subseteq remaining
    BY <1>3 DEF Prefilter, Unnamed
  <2> QED
    BY <1>1, <1>3, <2>1, <2>2 DEF Prefilter, Worked, Seen, Quiet, Busy, Tidy, Staged, Rows, work
<1>4. CASE StopWhileAsking
  <2>1. phase \in Busy
    BY <1>4 DEF StopWhileAsking, Busy
  <2> QED
    BY <1>1, <1>4, <2>1 DEF StopWhileAsking, CancelScheduled, Worked, Seen, Ends, Tidy, Staged,
                            Rows, Nothing, floor
<1>5. CASE Finish
  <2>1. phase \in Busy /\ Closes
    <3>1. verdict \in Endings
      BY <1>5 DEF Finish, Staged, Endings
    <3> QED
      BY <1>5, <3>1 DEF Finish, Busy, Closes, Endings
  <2>2. phase' = "ended"
    BY <1>5 DEF Finish, Close
  <2>3. UNCHANGED <<group, signal, remaining, budget, claims, dispatches, chain, result, said>>
    BY <1>5 DEF Finish, floor, work
  <2>4. Worked
    BY <1>1, <1>5, <2>2, <2>3 DEF Finish, Worked
  <2>5. Seen
    BY <2>1, <2>3 DEF Seen, Ends
  <2> QED
    BY <2>2, <2>3, <2>4, <2>5 DEF Tidy, Staged, Rows
<1> QED
  BY <1>2, <1>3, <1>4, <1>5

LEMMA DuringTheRun ==
    ASSUME IInv, \/ Speak \/ AskUser \/ StaySilent \/ ExecutionFails \/ ExecutionStops
    PROVE  Worked /\ Seen /\ Tidy /\ said' \in Seq(Members)
<1> USE DEF IInv
<1>1. phase = "run" /\ chain # <<>>
  BY DEF Speak, AskUser, Reply, StaySilent, ExecutionFails, ExecutionStops, Executed, Executing,
         Rows
<1>2. /\ SameRows(dispatches) /\ budget \in Budget /\ Kept(budget, budget) /\ said \in Seq(Members)
      /\ Row \in Dispatch /\ \A status \in Status : SameRows(CloseRow(Here.row, status))
  BY <1>1, HereIsARow, SameRowsAsBefore DEF Rows
<1>3. CASE ExecutionStops
  <2>1. /\ signal /\ UNCHANGED <<group, signal, state, phase, outcome, verdict, remaining, budget,
                                 claims, dispatches, chain, said>>
    BY <1>3 DEF ExecutionStops, stage, floor
  <2> QED
    BY <1>1, <1>2, <2>1 DEF Worked, Seen, Quiet, Tidy
<1>4. ASSUME Executed
      PROVE  /\ UNCHANGED <<group, signal, state, phase, outcome, verdict, remaining, claims,
                            chain>>
             /\ budget' \in Budget /\ Kept(budget, budget')
  <2>1. PICK u \in group.usage : budget' = Spend(budget, u)
    BY <1>4 DEF Executed
  <2>2. budget' \in Budget /\ Kept(budget, budget')
    BY <1>2, <2>1, Spending
  <2> QED
    BY <1>4, <2>2 DEF Executed, stage, floor
<1>5. CASE StaySilent \/ ExecutionFails
  <2>1. Executed /\ UNCHANGED <<dispatches, said>>
    BY <1>5 DEF StaySilent, ExecutionFails
  <2>2. result'.kind # "cancelled"
    BY <1>5 DEF StaySilent, ExecutionFails, Of, Nothing
  <2> QED
    BY <1>1, <1>2, <1>4, <2>1, <2>2 DEF Worked, Seen, Quiet, Tidy
<1>6. ASSUME NEW kind \in {"visible", "waiting"}, NEW status \in Status, Reply(kind, status)
      PROVE  Worked /\ Seen /\ Tidy /\ said' \in Seq(Members)
  <2>1. /\ UNCHANGED <<group, signal, state, phase, outcome, verdict, remaining, claims, chain>>
        /\ budget' \in Budget /\ Kept(budget, budget')
    BY <1>4, <1>6 DEF Reply
  <2>2. CASE MayPublish
    <3>1. /\ state = "running" /\ dispatches' = CloseRow(Here.row, status)
          /\ said' = Append(said, Row.agent)
          /\ result' = [kind |-> kind, via |-> FALSE, who |-> Row.agent]
      BY <1>6, <2>2 DEF Reply, MayPublish
    <3>2. Row.agent \in Members
      BY <1>2 DEF Dispatch
    <3>3. said' \in Seq(Members)
      BY <3>1, <3>2 DEF Rows
    <3>4. Says /\ Worked
      BY <1>1, <1>2, <2>1, <3>1, <3>2 DEF Says, Worked
    <3> QED
      BY <1>1, <2>1, <3>1, <3>3, <3>4 DEF Seen, Tidy
  <2>3. CASE ~MayPublish
    <3>1. UNCHANGED <<dispatches, said>> /\ result' = Of("persistence")
      BY <1>6, <2>3 DEF Reply
    <3> QED
      BY <1>1, <1>2, <2>1, <3>1 DEF Of, Nothing, Worked, Seen, Quiet, Tidy
  <2> QED
    BY <2>2, <2>3
<1>7. CASE Speak \/ AskUser
  BY <1>6, <1>7 DEF Speak, AskUser, Status
<1> QED
  BY <1>3, <1>5, <1>7

LEMMA HelperReturning ==
    ASSUME IInv, \/ HelperStopped \/ HelperFailed \/ HelperLost \/ CallAnswered \/ HandoffEnds
    PROVE  Worked /\ Seen /\ Tidy /\ said' \in Seq(Members)
<1> USE DEF IInv
<1> DEFINE Kinds == Private \cup {"visible", "waiting", "quiet", "failed", "acp", "persistence"}
<1>1. /\ phase = "run" /\ Len(chain) > 1 /\ chain' = Front(chain)
      /\ UNCHANGED <<group, signal, state, phase, outcome, verdict, remaining, claims, said>>
      /\ result.kind \in Kinds \cup {"cancelled"}
  BY DEF HelperStopped, HelperFailed, HelperLost, CallAnswered, HandoffEnds, Returning, stage,
         floor
<1>2. /\ SameRows(dispatches) /\ budget \in Budget /\ Kept(budget, budget) /\ chain # <<>>
      /\ \A status \in Status : SameRows(CloseRow(Here.row, status))
  BY <1>1, HereIsARow, SameRowsAsBefore DEF Rows
<1>3. SameRows(dispatches')
  BY <1>2 DEF HelperStopped, HelperFailed, HelperLost, CallAnswered, HandoffEnds, Settle, Status
<1>4. budget' \in Budget /\ Kept(budget, budget')
  BY <1>2, Failures, CompletingKeepsBudget
     DEF HelperStopped, HelperFailed, HelperLost, CallAnswered, HandoffEnds
<1>5. result'.kind = "cancelled" => signal
  <2>1. CASE HelperStopped \/ HelperLost
    BY <2>1 DEF HelperStopped, HelperLost, Staged
  <2>2. CASE HelperFailed \/ CallAnswered
    BY <2>2 DEF HelperFailed, CallAnswered, Settle, HandedOff, Of, Nothing
  <2>3. CASE HandoffEnds
    <3>1. result.kind # "cancelled"
      BY <2>3 DEF HandoffEnds, Returning, Private
    <3> QED
      BY <2>3, <3>1 DEF HandoffEnds, Settle, HandedOff, Of, Nothing
  <2> QED
    BY <2>1, <2>2, <2>3
<1> QED
  <2>1. Worked
    BY <1>1, <1>3, <1>4 DEF Worked
  <2>2. Seen
    BY <1>1 DEF Seen, Quiet
  <2>3. Tidy
    BY <1>1, <1>5 DEF Tidy
  <2>4. said' \in Seq(Members)
    BY <1>1 DEF Rows
  <2> QED
    BY <2>1, <2>2, <2>3, <2>4

LEMMA SpeakerReturning ==
    ASSUME IInv, \/ SpeakerStopped \/ SpeakerLost \/ SpeakerFailed \/ SpeakerAsked
                 \/ SpeakerSilent \/ SpeakerSpoke \/ ReplyIsQuestion
    PROVE  Worked /\ Seen /\ Tidy /\ said' \in Seq(Members)
<1> USE DEF IInv
<1>1. /\ phase = "run" /\ Len(chain) = 1 /\ UNCHANGED <<group, signal, claims, said>>
      /\ phase \in Busy
  BY DEF SpeakerStopped, SpeakerLost, SpeakerFailed, SpeakerAsked, SpeakerSilent, SpeakerSpoke,
         ReplyIsQuestion, Returned, Busy
<1>2. /\ SameRows(dispatches) /\ budget \in Budget /\ Kept(budget, budget)
      /\ said \in Seq(Members) /\ chain # <<>>
      /\ \A status \in Status : SameRows(CloseRow(Here.row, status))
  BY <1>1, HereIsARow, SameRowsAsBefore DEF Rows
<1>3. Completed \in Budget /\ Kept(budget, Completed)
  BY CompletingKeepsBudget
<1>4. chain' = <<>> /\ result' = Nothing
  BY DEF SpeakerStopped, SpeakerLost, SpeakerFailed, SpeakerAsked, SpeakerSilent, SpeakerSpoke,
         ReplyIsQuestion, CancelScheduled, Release
<1>5. Tidy
  <2>1. phase' \in {"choose", "ended"}
    BY DEF SpeakerStopped, SpeakerLost, SpeakerFailed, SpeakerAsked, SpeakerSilent, SpeakerSpoke,
           ReplyIsQuestion, CancelScheduled, FailPersistence, Close, Proceed
  <2> QED
    BY <1>4, <2>1 DEF Tidy, Nothing
<1>6. ASSUME SameRows(dispatches'), budget' \in Budget, Kept(budget, budget'),
             remaining' \subseteq remaining, phase' \in {"choose", "ended"}
      PROVE  Worked
  BY <1>1, <1>4, <1>6 DEF Worked
<1>7. SameRows(Interrupted(dispatches))
  BY InterruptingKeepsRows
<1>8. Proceed => phase' = "choose" /\ Quiet
  BY <1>1 DEF Proceed, Quiet, Busy
<1>9. CASE SpeakerStopped
  <2>1. signal /\ CancelScheduled /\ UNCHANGED <<remaining, budget>>
    BY <1>9 DEF SpeakerStopped, Returned, Staged, floor
  <2>2. SameRows(dispatches') /\ phase' = "ended"
    BY <1>2, <1>7, <2>1 DEF CancelScheduled
  <2> QED
    BY <1>1, <1>2, <1>5, <1>6, <2>1, <2>2 DEF Seen, Ends
<1>10. CASE SpeakerLost
  <2>1. FailPersistence /\ phase' = "ended" /\ UNCHANGED <<remaining, budget, dispatches>>
    BY <1>10 DEF SpeakerLost, FailPersistence, floor
  <2> QED
    BY <1>1, <1>2, <1>5, <1>6, <2>1 DEF Seen, Ends
<1>11. CASE SpeakerFailed
  <2>1. /\ budget' = RecordFailure(budget) /\ UNCHANGED remaining
        /\ \/ Close("failed", "error") /\ phase' = "ended"
           \/ Proceed
    BY <1>11 DEF SpeakerFailed, Close, floor
  <2>2. SameRows(dispatches')
    BY <1>2, <1>11 DEF SpeakerFailed, Status
  <2>3. budget' \in Budget /\ Kept(budget, budget')
    BY <1>2, <2>1, Failures
  <2> QED
    BY <1>1, <1>2, <1>5, <1>6, <1>8, <2>1, <2>2, <2>3 DEF Seen, Ends, Closes
<1>12. CASE SpeakerAsked
  <2>1. /\ Close("waiting_for_user", "waiting") /\ phase' = "ended"
        /\ budget' = Completed /\ UNCHANGED <<remaining, dispatches>>
    BY <1>12 DEF SpeakerAsked, Close, floor
  <2> QED
    BY <1>1, <1>2, <1>3, <1>5, <1>6, <2>1 DEF Seen, Ends, Closes
<1>13. CASE SpeakerSilent
  <2>1. SameRows(dispatches')
    BY <1>2, <1>13 DEF SpeakerSilent, Status
  <2>2. budget' \in Budget /\ Kept(budget, budget') /\ remaining' \subseteq remaining
    BY <1>2, <1>3, <1>13 DEF SpeakerSilent
  <2>3. Proceed \/ (FailPersistence /\ phase' = "ended")
    BY <1>13 DEF SpeakerSilent, FailPersistence
  <2> QED
    BY <1>1, <1>2, <1>5, <1>6, <1>8, <2>1, <2>2, <2>3 DEF Seen, Ends
<1>14. CASE SpeakerSpoke
  <2>1. PICK u \in Judged : budget' = Spend(Completed, u)
    BY <1>14 DEF SpeakerSpoke
  <2>2. u \in group.usage \cup {0}
    BY DEF Judged
  <2>3. budget' \in Budget /\ Kept(budget, budget')
    BY <1>2, <1>3, <2>1, <2>2, Spending, KeptOn
  <2>4. Proceed /\ UNCHANGED <<dispatches, remaining>>
    BY <1>14 DEF SpeakerSpoke
  <2> QED
    BY <1>1, <1>2, <1>5, <1>6, <1>8, <2>3, <2>4 DEF Seen
<1>15. CASE ReplyIsQuestion
  <2>1. budget' = Completed /\ UNCHANGED remaining
    BY <1>15 DEF ReplyIsQuestion
  <2>2. \/ /\ Close("waiting_for_user", "waiting") /\ phase' = "ended" /\ UNCHANGED dispatches
        \/ signal /\ CancelScheduled
    BY <1>15 DEF ReplyIsQuestion, Close
  <2>3. SameRows(dispatches') /\ phase' = "ended"
    BY <1>2, <1>7, <2>2 DEF CancelScheduled
  <2> QED
    BY <1>1, <1>2, <1>3, <1>5, <1>6, <2>1, <2>2, <2>3 DEF Seen, Ends, Closes
<1> QED
  BY <1>9, <1>10, <1>11, <1>12, <1>13, <1>14, <1>15

LEMMA AroundTheTurn ==
    ASSUME IInv, CancelTurn \/ Signal \/ MemberLeaves
    PROVE  Worked /\ Seen /\ Tidy /\ said' \in Seq(Members)
<1> USE DEF IInv
<1>1. /\ SameRows(dispatches) /\ SameRows(Interrupted(dispatches))
      /\ budget \in Budget /\ Kept(budget, budget) /\ said \in Seq(Members)
      /\ phase = "finish" => verdict \in Endings
      /\ result.kind = "cancelled" => signal
  BY SameRowsAsBefore, InterruptingKeepsRows DEF Rows, Staged, Endings
<1>2. /\ UNCHANGED <<group, phase, verdict, remaining, budget, claims, chain, result, said>>
      /\ phase # "ended"
      /\ signal => signal'
      /\ dispatches' = dispatches \/ dispatches' = Interrupted(dispatches)
  BY DEF CancelTurn, Signal, MemberLeaves, stage, floor, work
<1>3. Seen
  <2>1. CASE MemberLeaves
    BY <2>1 DEF MemberLeaves, stage, work, Seen, Quiet
  <2> QED
    BY <2>1 DEF Seen, Around
<1>4. Worked
  BY <1>1, <1>2 DEF Worked
<1> QED
  BY <1>1, <1>2, <1>3, <1>4 DEF Tidy
-----------------------------------------------------------------------------
(* The steps that dispatch                                                 *)

\* What Delegate adds is claimed in the same step.
LEMMA Delegating ==
    ASSUME IInv, NEW a \in Members, NEW action \in {"call", "handoff"}, Delegate(a, action)
    PROVE  /\ UNCHANGED <<group, signal, remaining, chain, result, said>>
           /\ budget' \in Budget /\ Kept(budget, budget')
           /\ claims' = claims \cup {a} /\ a \notin claims /\ budget.per[a] = 0
           /\ phase = "run"
           /\ \/ FailPersistence /\ UNCHANGED dispatches
              \/ Adds(a, action) /\ phase' = "start" /\ UNCHANGED <<state, outcome>>
<1> USE DEF IInv
<1>1. phase = "run" /\ chain # <<>> /\ budget \in Budget
  BY DEF Delegate, Executing, Rows
<1>2. Row.hop + 1 \in Nat
  BY <1>1, HereIsARow DEF Dispatch
<1>3. PICK u \in group.usage :
        MayRun(Spend(budget, u), a, Row.hop + 1) /\ budget' = Spend(budget, u)
  BY DEF Delegate
<1>4. budget' \in Budget /\ Kept(budget, budget')
  BY <1>1, <1>3, Spending
<1>5. Queue(a, Row.hop + 1, action)
  BY DEF Delegate
<1>6. \/ FailPersistence /\ UNCHANGED dispatches
      \/ Adds(a, action) /\ phase' = "start" /\ UNCHANGED <<state, outcome>>
  <2>1. MayRun(budget', a, Row.hop + 1)
    BY <1>3
  <2>2. PICK b \in Budget : b = budget'
    BY <1>4
  <2>3. Admits(a, Row.hop + 1)
    BY <1>2, <1>4, <2>1, <2>2, Admitting
  <2> QED
    BY <1>2, <1>5, <2>3, Queueing
<1> QED
  BY <1>1, <1>4, <1>6 DEF Delegate, floor

\* A dispatch that starts is charged to its agent.
LEMMA Starting ==
    ASSUME IInv, StartDispatch
    PROVE  /\ UNCHANGED <<group, signal, remaining, claims, result, said>>
           /\ SameRows(dispatches') /\ budget' \in Budget
           /\ \/ FailPersistence /\ UNCHANGED <<chain, budget>>
              \/ /\ phase' = "run" /\ UNCHANGED <<state, outcome>>
                 /\ \E link \in Link : /\ link.row = Len(dispatches)
                                      /\ chain' = Append(chain, link)
                 /\ LET a == dispatches[Len(dispatches)].agent IN
                    budget'.per = [budget.per EXCEPT ![a] = @ + 1]
                 /\ budget'.steps = budget.steps + 1 /\ budget'.failures = budget.failures
<1> USE DEF IInv
<1> DEFINE new == dispatches[Newest]
           b == RecordDispatch(budget, new.agent)
           started == CloseRow(Newest, "running")
           handsOff == chain # <<>> /\ new.action = "handoff" /\ ~Deferred(Here, "handoff")
<1>1. /\ Newest \in DOMAIN dispatches /\ new \in Dispatch
      /\ dispatches \in Seq(Dispatch) /\ SameRows(dispatches) /\ budget \in Budget
  BY SameRowsAsBefore DEF StartDispatch, Rows, Newest
<1>2. SameRows(started) /\ started \in Seq(Dispatch) /\ DOMAIN started = DOMAIN dispatches
  <2>1. SameRows(started)
    BY <1>1, ClosingKeepsRows DEF CloseRow, Status
  <2> QED
    BY <2>1 DEF SameRows, Rows
<1>3. chain # <<>> => SameRows([started EXCEPT ![Here.row].status = "completed"])
  BY <1>2, HereIsARow, ClosingKeepsRows DEF Status
<1>4. new.agent \in Members
  BY <1>1 DEF Dispatch
<1>5. /\ b \in Budget /\ b.per = [budget.per EXCEPT ![new.agent] = @ + 1]
      /\ b.steps = budget.steps + 1 /\ b.failures = budget.failures
  <2> DEFINE stepped == [budget EXCEPT !.steps = @ + 1]
  <2>1. /\ stepped \in Budget /\ stepped.per = budget.per
        /\ stepped.steps = budget.steps + 1 /\ stepped.failures = budget.failures
    <3>1. /\ budget.per \in [Members -> Nat] /\ budget.steps \in Nat
          /\ stepped = [budget EXCEPT !.steps = budget.steps + 1]
      BY <1>1 DEF Budget
    <3> QED
      BY <1>1, <3>1, SMTT(30) DEF Budget
  <2>2. b = [stepped EXCEPT !.per[new.agent] = @ + 1]
    BY Zenon DEF RecordDispatch
  <2>3. \A c \in Budget : /\ [c EXCEPT !.per[new.agent] = @ + 1] \in Budget
                          /\ [c EXCEPT !.per[new.agent] = @ + 1].per
                                = [c.per EXCEPT ![new.agent] = @ + 1]
                          /\ [c EXCEPT !.per[new.agent] = @ + 1].steps = c.steps
                          /\ [c EXCEPT !.per[new.agent] = @ + 1].failures = c.failures
    BY <1>4 DEF Budget
  <2> HIDE DEF b, stepped
  <2> QED
    BY <2>1, <2>2, <2>3
<1>6. UNCHANGED <<group, signal, remaining, claims, result, said>>
  BY DEF StartDispatch, floor
<1>7. CASE FailPersistence /\ UNCHANGED <<chain, budget>>
  <2>1. SameRows(dispatches')
    BY <1>1, <1>2, <1>7 DEF StartDispatch
  <2> QED
    BY <1>1, <1>6, <1>7, <2>1
<1>8. CASE /\ phase' = "run" /\ UNCHANGED <<state, outcome, verdict>>
           /\ dispatches' = IF handsOff THEN [started EXCEPT ![Here.row].status = "completed"]
                            ELSE started
           /\ budget' = IF handsOff THEN RecordCompletion(b) ELSE b
           /\ chain' = Append(chain, [row |-> Newest, private |->
                         chain # <<>> /\ (Here.private \/ new.action = "call")])
  <2>1. SameRows(dispatches')
    BY <1>2, <1>3, <1>8
  <2>2. /\ budget' \in Budget /\ budget'.per = b.per
        /\ budget'.steps = b.steps /\ budget'.failures = b.failures
    <3> HIDE DEF b
    <3> QED
      BY <1>5, <1>8, Failures DEF Kept
  <2>3. \E link \in Link : link.row = Len(dispatches) /\ chain' = Append(chain, link)
    <3>1. Newest \in Nat
      BY <1>1
    <3>2. \A p \in BOOLEAN : [row |-> Newest, private |-> p] \in Link
      BY <3>1 DEF Link
    <3>3. PICK p \in BOOLEAN : chain' = Append(chain, [row |-> Newest, private |-> p])
      <4>1. (chain # <<>> /\ (Here.private \/ new.action = "call")) \in BOOLEAN
        BY Zenon
      <4> QED
        BY <1>8, <4>1, Zenon
    <3> QED
      BY <1>1, <3>2, <3>3 DEF Newest
  <2> QED
    BY <1>5, <1>6, <1>8, <2>1, <2>2, <2>3 DEF Newest
<1> QED
  <2>1. \/ FailPersistence /\ UNCHANGED <<chain, budget>>
        \/ /\ phase' = "run" /\ UNCHANGED <<state, outcome, verdict>>
           /\ dispatches' = IF handsOff THEN [started EXCEPT ![Here.row].status = "completed"]
                            ELSE started
           /\ budget' = IF handsOff THEN RecordCompletion(b) ELSE b
           /\ chain' = Append(chain, [row |-> Newest, private |->
                         chain # <<>> /\ (Here.private \/ new.action = "call")])
    BY DEF StartDispatch
  <2> QED
    BY <1>7, <1>8, <2>1
-----------------------------------------------------------------------------
(* The invariant                                                           *)

LEMMA AddedRow ==
    ASSUME Rows, NEW a \in Members, NEW action \in {"speak", "call", "handoff"}, Adds(a, action)
    PROVE  /\ dispatches' \in Seq(Dispatch) /\ Len(dispatches') = Len(dispatches) + 1
           /\ DOMAIN dispatches' = DOMAIN dispatches \cup {Len(dispatches')}
           /\ \A i \in DOMAIN dispatches : dispatches'[i] = dispatches[i]
           /\ dispatches'[Len(dispatches')].agent = a
           /\ dispatches'[Len(dispatches')].action = action
           /\ dispatches'[Len(dispatches')].status = "queued"
           /\ Admits(a, dispatches'[Len(dispatches')].hop)
<1>1. PICK hop \in Nat :
        /\ Admits(a, hop)
        /\ dispatches' = Append(dispatches, [agent |-> a, hop |-> hop, action |-> action,
                                            status |-> "queued"])
  BY DEF Adds
<1> DEFINE new == [agent |-> a, hop |-> hop, action |-> action, status |-> "queued"]
<1>2. /\ new \in Dispatch /\ new.agent = a /\ new.action = action
      /\ new.hop = hop /\ new.status = "queued"
  BY DEF Dispatch
<1>3. dispatches \in Seq(Dispatch) /\ dispatches' = Append(dispatches, new)
  BY <1>1 DEF Rows
<1>4. Admits(a, hop)
  BY <1>1
<1> HIDE DEF new
<1> QED
  BY <1>2, <1>3, <1>4

LEMMA WorkedKeepsRows ==
    ASSUME IInv, Worked, said' \in Seq(Members) PROVE Rows'
<1> USE DEF IInv
<1>1. /\ dispatches' \in Seq(Dispatch) /\ Len(dispatches') = Len(dispatches)
      /\ DOMAIN dispatches' = DOMAIN dispatches
  BY DEF Worked, SameRows, Rows
<1>2. /\ chain' \in Seq(Link)
      /\ \A k \in DOMAIN chain' : chain'[k].row \in DOMAIN dispatches
      /\ phase' = "run" => chain' # <<>>
  <2>1. CASE UNCHANGED chain /\ (phase' = "run" => phase = "run")
    BY <2>1 DEF Rows
  <2>2. CASE chain' = <<>> /\ phase' # "run"
    BY <2>2
  <2>3. CASE Len(chain) > 1 /\ chain' = Front(chain)
    <3>1. /\ chain' \in Seq(Link) /\ Len(chain') = Len(chain) - 1
          /\ \A k \in DOMAIN chain' : k \in DOMAIN chain /\ chain'[k] = chain[k]
      BY <2>3 DEF Front, Rows
    <3>2. chain' # <<>>
      BY <2>3, <3>1 DEF Rows
    <3> QED
      BY <3>1, <3>2 DEF Rows
  <2> QED
    BY <2>1, <2>2, <2>3 DEF Worked
<1>3. phase' = "start" => dispatches' # <<>>
  BY <1>1 DEF Worked, Rows
<1> QED
  BY <1>1, <1>2, <1>3 DEF Worked, Rows

LEMMA WorkedKeepsClaims == ASSUME IInv, Worked PROVE Claimed'
<1> USE DEF IInv
<1>1. /\ DOMAIN dispatches' = DOMAIN dispatches /\ Len(dispatches') = Len(dispatches)
      /\ \A i \in DOMAIN dispatches : /\ dispatches'[i].agent = dispatches[i].agent
                                      /\ dispatches'[i].action = dispatches[i].action
  BY DEF Worked, SameRows, Rows
<1>2. HelperRunsOnce'
  BY <1>1 DEF Claimed, HelperRunsOnce
<1> QED
  BY <1>1, <1>2 DEF Claimed, Worked, Kept

LEMMA SeenIsStaged == ASSUME IInv, Seen, Tidy, UNCHANGED group PROVE Staged'
<1> USE DEF IInv
<1>1. CASE Quiet
  BY <1>1 DEF Quiet, Busy, Tidy, Staged, Endings
<1>2. CASE Says
  BY <1>2 DEF Says, Tidy, Staged, Endings
<1>3. CASE Ends
  <2>1. phase' = "ended"
    BY <1>3 DEF Ends, Closes, Close, FailPersistence, CancelScheduled
  <2> QED
    BY <2>1 DEF Tidy, Staged
<1>4. CASE Start
  BY <1>4 DEF Start, Tidy, Staged
<1>5. CASE CancelTurn
  BY <1>5 DEF CancelTurn, Final, Tidy, Staged, Endings
<1>6. CASE Signal
  BY <1>6 DEF Signal, stage, Tidy, Staged, Endings
<1> QED
  BY <1>1, <1>2, <1>3, <1>4, <1>5, <1>6 DEF Seen, Around

LEMMA WorkedKeepsInvariant ==
    ASSUME IInv, Worked, Seen, Tidy, said' \in Seq(Members) PROVE IInv'
<1>1. UNCHANGED group
  BY DEF Worked
<1> QED
  BY <1>1, WorkedKeepsRows, WorkedKeepsClaims, SeenIsStaged DEF IInv

\* A speaker who is added was not claimed, so every earlier row of it spoke.
LEMMA ChosenKeepsInvariant ==
    ASSUME IInv, Chosen, Untouched, phase \in {"choose", "moderate"} PROVE IInv'
<1> USE DEF IInv
<1>1. CASE UNCHANGED dispatches /\ phase' \in {"choose", "moderate", "finish", "ended"}
  <2>1. SameRows(dispatches')
    BY <1>1, SameRowsAsBefore
  <2>2. Worked
    BY <1>1, <2>1 DEF Worked, Chosen, Untouched
  <2>3. Seen /\ Tidy
    <3>1. CASE FailPersistence
      BY <3>1 DEF FailPersistence, Seen, Ends, Busy, Tidy, Untouched, Staged
    <3>2. CASE /\ phase' \in {"choose", "moderate", "finish"}
               /\ phase' = "finish" => verdict' \in Endings
               /\ UNCHANGED <<state, outcome>>
      BY <3>2 DEF Seen, Quiet, Busy, Tidy, Untouched, Staged
    <3> QED
      BY <1>1, <3>1, <3>2 DEF Chosen
  <2>4. said' \in Seq(Members)
    BY DEF Untouched, Rows
  <2> QED
    BY <2>2, <2>3, <2>4, WorkedKeepsInvariant
<1>2. CASE /\ \E a \in Members \ claims : Adds(a, "speak")
           /\ phase' = "start" /\ UNCHANGED <<state, outcome>>
  <2>1. PICK a \in Members \ claims : Adds(a, "speak")
    BY <1>2
  <2>2. /\ dispatches' \in Seq(Dispatch) /\ Len(dispatches') = Len(dispatches) + 1
        /\ DOMAIN dispatches' = DOMAIN dispatches \cup {Len(dispatches')}
        /\ \A i \in DOMAIN dispatches : dispatches'[i] = dispatches[i]
        /\ dispatches'[Len(dispatches')].agent = a
        /\ dispatches'[Len(dispatches')].action = "speak"
    BY <2>1, AddedRow
  <2>3. Staged'
    BY <1>2 DEF Untouched, Staged
  <2>4. Rows'
    BY <1>2, <2>2 DEF Chosen, Untouched, Rows
  <2>5. HelperRunsOnce'
    BY <2>2 DEF Claimed, HelperRunsOnce
  <2>6. Claimed'
    BY <1>2, <2>2, <2>5 DEF Claimed, Untouched, Kept
  <2> QED
    BY <2>3, <2>4, <2>6
<1> QED
  <2>1. FailPersistence => phase' = "ended"
    BY DEF FailPersistence
  <2> QED
    BY <1>1, <1>2, <2>1 DEF Chosen

\* A helper is claimed by the step that adds it, and had no row before.
LEMMA DelegationKeepsInvariant ==
    ASSUME IInv, NEW a \in Members, NEW action \in {"call", "handoff"}, Delegate(a, action)
    PROVE  IInv'
<1> USE DEF IInv
<1>1. /\ UNCHANGED <<group, signal, remaining, chain, result, said>>
      /\ budget' \in Budget /\ Kept(budget, budget')
      /\ claims' = claims \cup {a} /\ a \notin claims /\ budget.per[a] = 0
      /\ phase = "run"
  BY Delegating
<1>2. \A i \in DOMAIN dispatches : dispatches[i].agent # a
  BY <1>1 DEF Claimed
<1>3. CASE FailPersistence /\ UNCHANGED dispatches
  <2>1. Staged'
    BY <1>1, <1>3 DEF FailPersistence, Staged
  <2>2. Rows'
    BY <1>1, <1>3 DEF FailPersistence, Rows
  <2>3. HelperRunsOnce'
    BY <1>3 DEF Claimed, HelperRunsOnce
  <2>4. Claimed'
    BY <1>1, <1>3, <2>3 DEF FailPersistence, Claimed
  <2> QED
    BY <2>1, <2>2, <2>4
<1>4. CASE Adds(a, action) /\ phase' = "start" /\ UNCHANGED <<state, outcome>>
  <2>1. /\ dispatches' \in Seq(Dispatch) /\ Len(dispatches') = Len(dispatches) + 1
        /\ DOMAIN dispatches' = DOMAIN dispatches \cup {Len(dispatches')}
        /\ \A i \in DOMAIN dispatches : dispatches'[i] = dispatches[i]
        /\ dispatches'[Len(dispatches')].agent = a
        /\ dispatches'[Len(dispatches')].action = action
    BY <1>4, AddedRow
  <2>2. Staged'
    BY <1>1, <1>4 DEF Staged
  <2>3. Rows'
    BY <1>1, <1>4, <2>1 DEF Rows
  <2>4. HelperRunsOnce'
    BY <1>2, <2>1 DEF Claimed, HelperRunsOnce
  <2>5. Claimed'
    BY <1>1, <1>4, <2>1, <2>4 DEF Claimed, Kept
  <2> QED
    BY <2>2, <2>3, <2>5
<1> QED
  BY <1>3, <1>4, Delegating

\* The dispatch that starts is charged, so that every row is again.
LEMMA StartKeepsInvariant == ASSUME IInv, StartDispatch PROVE IInv'
<1> USE DEF IInv
<1>1. /\ UNCHANGED <<group, signal, remaining, claims, result, said>>
      /\ SameRows(dispatches') /\ budget' \in Budget
  BY Starting
<1>2. /\ dispatches' \in Seq(Dispatch) /\ Len(dispatches') = Len(dispatches)
      /\ DOMAIN dispatches' = DOMAIN dispatches
      /\ \A i \in DOMAIN dispatches : /\ dispatches'[i].agent = dispatches[i].agent
                                      /\ dispatches'[i].action = dispatches[i].action
  BY <1>1 DEF SameRows, Rows
<1>3. HelperRunsOnce'
  BY <1>2 DEF Claimed, HelperRunsOnce
<1>4. CASE FailPersistence /\ UNCHANGED <<chain, budget>>
  <2>1. Staged'
    BY <1>1, <1>4 DEF FailPersistence, Staged
  <2>2. Rows'
    BY <1>1, <1>2, <1>4 DEF FailPersistence, Rows
  <2>3. Claimed'
    BY <1>1, <1>2, <1>3, <1>4 DEF FailPersistence, Claimed
  <2> QED
    BY <2>1, <2>2, <2>3
<1>5. CASE /\ phase' = "run" /\ UNCHANGED <<state, outcome>>
           /\ \E link \in Link : link.row = Len(dispatches) /\ chain' = Append(chain, link)
           /\ LET a == dispatches[Len(dispatches)].agent IN
              budget'.per = [budget.per EXCEPT ![a] = @ + 1]
  <2>1. phase = "start"
    BY DEF StartDispatch
  <2>2. Staged'
    BY <1>1, <1>5, <2>1 DEF Staged
  <2>3. PICK link \in Link : link.row = Len(dispatches) /\ chain' = Append(chain, link)
    BY <1>5
  <2>4. /\ chain' \in Seq(Link) /\ chain' # <<>>
        /\ \A k \in DOMAIN chain' : chain'[k].row \in DOMAIN dispatches
    <3>1. /\ chain \in Seq(Link) /\ \A k \in DOMAIN chain : chain[k].row \in DOMAIN dispatches
          /\ Len(dispatches) \in DOMAIN dispatches
      BY <2>1 DEF Rows
    <3> QED
      BY <2>3, <3>1
  <2>5. Rows'
    BY <1>1, <1>2, <1>5, <2>4 DEF Rows
  <2>6. budget.per \in [Members -> Nat]
    BY DEF Rows, Budget
  <2>7. \A i \in DOMAIN dispatches : dispatches[i].agent \in Members
    <3>1. \A i \in DOMAIN dispatches : dispatches[i] \in Dispatch
      BY DEF Rows
    <3> QED
      BY <3>1 DEF Dispatch
  <2>8. Len(dispatches) \in DOMAIN dispatches
    BY <2>1 DEF Rows
  <2>9. \A i \in DOMAIN dispatches : budget'.per[dispatches[i].agent] > 0
    <3> TAKE i \in DOMAIN dispatches
    <3>1. dispatches[i].agent \in Members /\ budget.per[dispatches[i].agent] \in Nat
      BY <2>6, <2>7
    <3>2. CASE i = Len(dispatches)
      BY <1>5, <2>6, <3>1, <3>2
    <3>3. CASE i # Len(dispatches)
      <4>1. budget.per[dispatches[i].agent] > 0
        BY <2>1, <3>3 DEF Claimed
      <4> QED
        BY <1>5, <2>6, <2>7, <2>8, <3>1, <4>1
    <3> QED
      BY <3>2, <3>3
  <2>10. Claimed'
    BY <1>1, <1>2, <1>3, <1>5, <2>9 DEF Claimed
  <2> QED
    BY <2>2, <2>5, <2>10
<1> QED
  BY <1>4, <1>5, Starting

LEMMA ChoicePhase ==
    ASSUME \/ PeerSpeaks \/ MentionSpeaks \/ AskModerator \/ NextInOrder \/ Conclude
           \/ ModeratorSkipped \/ DecisionFinishes \/ DecisionPicks
           \/ ModeratorAnswers \/ ModeratorMissing
    PROVE  phase \in {"choose", "moderate"}
BY DEF PeerSpeaks, MentionSpeaks, AskModerator, NextInOrder, Conclude, Choosing, ModeratorSkipped,
       DecisionFinishes, DecisionPicks, ModeratorAnswers, ModeratorMissing, Consulted

LEMMA InitKeepsInvariant == ASSUME Init PROVE IInv
<1>1. Selected \subseteq Members
  BY NamedAreMembers DEF Init
<1>2. Staged
  BY DEF Init, Staged, Nothing
<1>3. Rows
  BY <1>1 DEF Init, Rows, Budget
<1>4. Claimed
  BY DEF Init, Claimed, HelperRunsOnce
<1> QED
  BY <1>2, <1>3, <1>4 DEF IInv

LEMMA StepKeepsInvariant == ASSUME IInv, [Next]_vars PROVE IInv'
<1>1. ASSUME NEW a \in Members, NEW action \in {"call", "handoff"}, Delegate(a, action)
      PROVE  IInv'
  BY <1>1, DelegationKeepsInvariant
<1>2. CASE Start \/ Prefilter \/ StopWhileAsking \/ Finish
  BY <1>2, BeforeTheRun, WorkedKeepsInvariant
<1>3. CASE \/ PeerSpeaks \/ MentionSpeaks \/ AskModerator \/ NextInOrder \/ Conclude
           \/ ModeratorSkipped \/ DecisionFinishes \/ DecisionPicks
           \/ ModeratorAnswers \/ ModeratorMissing
  <2>1. phase \in {"choose", "moderate"}
    BY <1>3, ChoicePhase
  <2> QED
    BY <1>3, <2>1, NextSpeaker, Moderating, ChosenKeepsInvariant
<1>4. CASE StartDispatch
  BY <1>4, StartKeepsInvariant
<1>5. CASE Speak \/ AskUser \/ StaySilent \/ ExecutionFails \/ ExecutionStops
  BY <1>5, DuringTheRun, WorkedKeepsInvariant
<1>6. CASE HelperStopped \/ HelperFailed \/ HelperLost \/ CallAnswered \/ HandoffEnds
  BY <1>6, HelperReturning, WorkedKeepsInvariant
<1>7. CASE \/ SpeakerStopped \/ SpeakerLost \/ SpeakerFailed \/ SpeakerAsked
           \/ SpeakerSilent \/ SpeakerSpoke \/ ReplyIsQuestion
  BY <1>7, SpeakerReturning, WorkedKeepsInvariant
<1>8. CASE CancelTurn \/ Signal \/ MemberLeaves
  BY <1>8, AroundTheTurn, WorkedKeepsInvariant
<1>9. CASE UNCHANGED vars
  <2>1. /\ UNCHANGED <<group, claims, dispatches, remaining, budget, chain, phase, verdict>>
        /\ UNCHANGED <<state, outcome, signal, result, said>>
    BY <1>9 DEF vars, stage, floor, work
  <2>2. Staged'
    BY <2>1 DEF IInv, Staged
  <2>3. Rows'
    BY <2>1 DEF IInv, Rows
  <2>4. HelperRunsOnce'
    BY <2>1 DEF IInv, Claimed, HelperRunsOnce
  <2>5. Claimed'
    BY <2>1, <2>4 DEF IInv, Claimed
  <2> QED
    BY <2>2, <2>3, <2>5 DEF IInv
<1> QED
  BY <1>1, <1>2, <1>3, <1>4, <1>5, <1>6, <1>7, <1>8, <1>9 DEF Next, Scheduling, Replying

\* The rows, the claims and the charges agree, and the worker's phase agrees
\* with the status of its turn.
LEMMA Invariance == Spec => []IInv
BY InitKeepsInvariant, StepKeepsInvariant, PTL DEF Spec

\* A member that was delegated to has no other dispatch in its turn, whoever
\* asks for it afterwards (claims and RecordDispatch: helper_claims and
\* TurnBudget of group.rs), in every group and under every limit.
THEOREM HelpersRunOnce == Spec => []HelperRunsOnce
<1>1. IInv => HelperRunsOnce
  BY DEF IInv, Claimed
<1> QED
  BY <1>1, Invariance, PTL
-----------------------------------------------------------------------------
(* The limits: what has been charged and what has failed                   *)

\* A member in the chain below another was delegated to.
Linked == phase # "ended" =>
    /\ phase \notin {"start", "run"} => chain = <<>>
    /\ \A k \in DOMAIN chain : k > 1 => dispatches[chain[k].row].action # "speak"
    /\ phase = "start" /\ chain # <<>> => dispatches[Len(dispatches)].action # "speak"

\* The budget has counted every row, but for one that has not started.
Begun == IF phase = "start" THEN Len(dispatches) - 1 ELSE Len(dispatches)
BegunOf(a) == {i \in 1..Begun : dispatches[i].agent = a}

Charged == phase # "ended" =>
    /\ budget.steps = Begun
    /\ \A a \in Members : budget.per[a] = Cardinality(BegunOf(a))

FailedOf(rows, action) ==
    {i \in DOMAIN rows : rows[i].status = "failed" /\ rows[i].action # action}

\* A private call whose member handed off is about to fail with its helper,
\* whose failure was counted.
Pending == result.kind = "private_failed"

Counted == phase # "ended" =>
    /\ Cardinality(FailedOf(dispatches, "call")) <= budget.failures
    /\ Cardinality(FailedOf(dispatches, "handoff")) + (IF Pending THEN 1 ELSE 0)
         <= budget.failures

Bounded == Linked /\ Charged /\ Counted

\* What a step may do to the failed rows: nothing, or one more of them that is
\* counted, or the call that was pending.
FailsNoMore(action) == FailedOf(dispatches', action) \subseteq FailedOf(dispatches, action)
FailsAt(i, action) == FailedOf(dispatches', action) \subseteq FailedOf(dispatches, action) \cup {i}

Accounted ==
    \/ FailsNoMore("call") /\ FailsNoMore("handoff") /\ (Pending' => Pending)
    \/ \E i \in DOMAIN dispatches :
          /\ budget'.failures > budget.failures
          /\ FailsAt(i, "call") /\ FailsAt(i, "handoff") /\ (Pending' => FailsNoMore("handoff"))
    \/ \E i \in DOMAIN dispatches :
          Pending /\ ~Pending' /\ FailsNoMore("call") /\ FailsAt(i, "handoff")

LEMMA ClosingFails ==
    ASSUME NEW rows \in Seq(Dispatch), NEW i \in DOMAIN rows, NEW status \in Status, NEW action
    PROVE  LET closed == FailedOf([rows EXCEPT ![i].status = status], action) IN
           /\ closed \subseteq FailedOf(rows, action) \cup {i}
           /\ status # "failed" \/ rows[i].action = action =>
                closed \subseteq FailedOf(rows, action)
<1> DEFINE later == [rows EXCEPT ![i].status = status]
<1>1. rows[i] \in Dispatch /\ DOMAIN later = DOMAIN rows
  OBVIOUS
<1>2. later[i] = [rows[i] EXCEPT !.status = status]
  OBVIOUS
<1>3. later[i].status = status /\ later[i].action = rows[i].action
  BY <1>1, <1>2 DEF Dispatch
<1>4. \A j \in DOMAIN rows : j # i => later[j] = rows[j]
  OBVIOUS
<1> HIDE DEF later
<1>5. FailedOf(later, action) \subseteq FailedOf(rows, action) \cup {i}
  BY <1>1, <1>4 DEF FailedOf
<1>6. status # "failed" \/ rows[i].action = action => i \notin FailedOf(later, action)
  BY <1>3 DEF FailedOf
<1> QED
  BY <1>5, <1>6 DEF later

LEMMA InterruptingFails ==
    ASSUME Rows, NEW action
    PROVE  FailedOf(Interrupted(dispatches), action) \subseteq FailedOf(dispatches, action)
<1> DEFINE closed == Interrupted(dispatches)
<1>1. ASSUME NEW i \in DOMAIN dispatches, closed[i].status = "failed"
      PROVE  dispatches[i].status = "failed"
  <2>1. dispatches[i] \in Dispatch
    BY DEF Rows
  <2>2. closed[i] = [dispatches[i] EXCEPT !.status = CASE @ = "queued" -> "cancelled"
                                                       [] @ = "running" -> "interrupted"
                                                       [] OTHER -> @]
    BY DEF Interrupted
  <2>3. closed[i].status = CASE dispatches[i].status = "queued" -> "cancelled"
                             [] dispatches[i].status = "running" -> "interrupted"
                             [] OTHER -> dispatches[i].status
    BY <2>1, <2>2 DEF Dispatch
  <2> QED
    BY <1>1, <2>3
<1>2. DOMAIN closed = DOMAIN dispatches
  BY DEF Interrupted
<1>3. \A i \in DOMAIN dispatches : closed[i].action = dispatches[i].action
  BY InterruptingKeepsRows DEF SameRows
<1> QED
  BY <1>1, <1>2, <1>3 DEF FailedOf

LEMMA ClosingHere ==
    ASSUME Rows, chain # <<>>, NEW status \in Status, dispatches' = CloseRow(Here.row, status)
    PROVE  /\ FailsAt(Here.row, "call") /\ FailsAt(Here.row, "handoff")
           /\ status # "failed" => FailsNoMore("call") /\ FailsNoMore("handoff")
           /\ \A action \in {"call", "handoff"} : Row.action = action => FailsNoMore(action)
           /\ Here.row \in DOMAIN dispatches
<1>1. Here.row \in DOMAIN dispatches /\ dispatches \in Seq(Dispatch)
  BY HereIsARow DEF Rows
<1> QED
  BY <1>1, ClosingFails DEF CloseRow, FailsAt, FailsNoMore, Row

LEMMA BeforeAccounts ==
    ASSUME IInv, Start \/ Prefilter \/ StopWhileAsking \/ Finish, phase' # "ended"
    PROVE  Accounted
<1>1. UNCHANGED <<dispatches, result>>
  BY DEF Start, Prefilter, StopWhileAsking, CancelScheduled, Finish, Close, work
<1> QED
  BY <1>1 DEF Accounted, FailsNoMore, Pending

LEMMA DuringAccounts ==
    ASSUME IInv, \/ Speak \/ AskUser \/ StaySilent \/ ExecutionFails \/ ExecutionStops
    PROVE  Accounted
<1> USE DEF IInv
<1>1. Rows /\ phase = "run" /\ chain # <<>>
  BY DEF Speak, AskUser, Reply, StaySilent, ExecutionFails, ExecutionStops, Executed, Executing,
         Rows
<1>2. \/ UNCHANGED dispatches
      \/ \E status \in Status \ {"failed"} : dispatches' = CloseRow(Here.row, status)
  BY DEF Speak, AskUser, Reply, StaySilent, ExecutionFails, ExecutionStops, Status
<1>3. ~Pending'
  BY DEF Speak, AskUser, Reply, StaySilent, ExecutionFails, ExecutionStops, Of, Nothing, Pending
<1>4. FailsNoMore("call") /\ FailsNoMore("handoff")
  <2>1. CASE UNCHANGED dispatches
    BY <2>1 DEF FailsNoMore
  <2>2. CASE \E status \in Status \ {"failed"} : dispatches' = CloseRow(Here.row, status)
    BY <1>1, <2>2, ClosingHere
  <2> QED
    BY <1>2, <2>1, <2>2
<1> QED
  BY <1>3, <1>4 DEF Accounted

\* A failure is counted where it happens.  What a call makes of a helper that
\* handed off and failed is not counted again.
LEMMA HelperAccounts ==
    ASSUME IInv, Linked,
           \/ HelperStopped \/ HelperFailed \/ HelperLost \/ CallAnswered \/ HandoffEnds
    PROVE  Accounted
<1> USE DEF IInv
<1>1. Rows /\ phase = "run" /\ Len(chain) > 1 /\ chain # <<>> /\ budget \in Budget
  BY DEF HelperStopped, HelperFailed, HelperLost, CallAnswered, HandoffEnds, Returning, Rows
<1>2. Row.action \in {"call", "handoff"}
  <2>1. Row.action # "speak"
    BY <1>1 DEF Linked, Row, Here, Last, Rows
  <2> QED
    BY <1>1, <2>1, HereIsARow DEF Dispatch
<1>3. ASSUME NEW status \in Status \ {"failed"},
             UNCHANGED dispatches \/ dispatches' = CloseRow(Here.row, status)
      PROVE  FailsNoMore("call") /\ FailsNoMore("handoff")
  <2>1. CASE UNCHANGED dispatches
    BY <2>1 DEF FailsNoMore
  <2> QED
    BY <1>1, <1>3, <2>1, ClosingHere
<1>4. CASE HelperStopped \/ HelperLost
  <2>1. Pending' => Pending
    BY <1>4 DEF HelperStopped, HelperLost, Pending
  <2>2. FailsNoMore("call") /\ FailsNoMore("handoff")
    BY <1>3, <1>4 DEF HelperStopped, HelperLost, Status
  <2> QED
    BY <2>1, <2>2 DEF Accounted
<1>5. CASE HelperFailed
  <2>1. budget'.failures > budget.failures
    <3>1. budget' = RecordFailure(budget) /\ budget.failures \in Nat
      BY <1>1, <1>5 DEF HelperFailed, Budget
    <3> QED
      BY <1>1, <3>1, Failures
  <2>2. UNCHANGED dispatches \/ dispatches' = CloseRow(Here.row, "failed")
    BY <1>5 DEF HelperFailed
  <2>3. /\ FailsAt(Here.row, "call") /\ FailsAt(Here.row, "handoff")
        /\ Here.row \in DOMAIN dispatches
        /\ Row.action = "handoff" => FailsNoMore("handoff")
    <3>1. CASE UNCHANGED dispatches
      BY <1>1, <3>1, HereIsARow DEF FailsAt, FailsNoMore
    <3>2. CASE dispatches' = CloseRow(Here.row, "failed")
      BY <1>1, <3>2, ClosingHere DEF Status
    <3> QED
      BY <2>2, <3>1, <3>2
  <2>4. Row.action = "call" => ~Pending'
    BY <1>5 DEF HelperFailed, Nothing, Pending
  <2> QED
    BY <1>2, <2>1, <2>3, <2>4 DEF Accounted
<1>6. CASE CallAnswered
  <2>1. ~Pending' /\ Row.action = "call"
    BY <1>6 DEF CallAnswered, Settle, Of, Nothing, Pending
  <2>2. CASE result.kind = "private_failed"
    <3>1. UNCHANGED dispatches \/ dispatches' = CloseRow(Here.row, "failed")
      BY <1>6, <2>2 DEF CallAnswered, Settle, Private
    <3>2. /\ FailsAt(Here.row, "handoff") /\ FailsNoMore("call") /\ Here.row \in DOMAIN dispatches
      <4>1. CASE UNCHANGED dispatches
        BY <1>1, <4>1, HereIsARow DEF FailsAt, FailsNoMore
      <4>2. CASE dispatches' = CloseRow(Here.row, "failed")
        BY <1>1, <2>1, <4>2, ClosingHere DEF Status
      <4> QED
        BY <3>1, <4>1, <4>2
    <3> QED
      BY <2>1, <2>2, <3>2 DEF Accounted, Pending
  <2>3. CASE result.kind # "private_failed"
    <3>1. UNCHANGED dispatches \/ dispatches' = CloseRow(Here.row, "completed")
      BY <1>6, <2>3 DEF CallAnswered, Settle
    <3>2. FailsNoMore("call") /\ FailsNoMore("handoff")
      BY <1>3, <3>1 DEF Status
    <3> QED
      BY <2>1, <3>2 DEF Accounted
  <2> QED
    BY <2>2, <2>3
<1>7. CASE HandoffEnds
  <2>1. Pending' => Pending
    BY <1>7 DEF HandoffEnds, Settle, HandedOff, Of, Nothing, Pending
  <2>2. \/ UNCHANGED dispatches
        \/ \E status \in {"completed", "silent"} : dispatches' = CloseRow(Here.row, status)
    BY <1>7 DEF HandoffEnds, Settle
  <2>3. FailsNoMore("call") /\ FailsNoMore("handoff")
    BY <1>3, <2>2 DEF Status
  <2> QED
    BY <2>1, <2>3 DEF Accounted
<1> QED
  BY <1>4, <1>5, <1>6, <1>7

LEMMA SpeakerAccounts ==
    ASSUME IInv, \/ SpeakerStopped \/ SpeakerLost \/ SpeakerFailed \/ SpeakerAsked
                 \/ SpeakerSilent \/ SpeakerSpoke \/ ReplyIsQuestion,
           phase' # "ended"
    PROVE  Accounted
<1> USE DEF IInv
<1>1. Rows /\ phase = "run" /\ chain # <<>> /\ budget \in Budget
  BY DEF SpeakerStopped, SpeakerLost, SpeakerFailed, SpeakerAsked, SpeakerSilent, SpeakerSpoke,
         ReplyIsQuestion, Returned, Rows
<1>2. ~Pending'
  BY DEF SpeakerStopped, SpeakerLost, SpeakerFailed, SpeakerAsked, SpeakerSilent, SpeakerSpoke,
         ReplyIsQuestion, CancelScheduled, Release, Nothing, Pending
<1>3. CASE SpeakerFailed
  <2>1. budget'.failures > budget.failures
    <3>1. budget' = RecordFailure(budget) /\ budget.failures \in Nat
      BY <1>1, <1>3 DEF SpeakerFailed, Budget
    <3> QED
      BY <1>1, <3>1, Failures
  <2>2. UNCHANGED dispatches \/ dispatches' = CloseRow(Here.row, "failed")
    BY <1>3 DEF SpeakerFailed
  <2>3. FailsAt(Here.row, "call") /\ FailsAt(Here.row, "handoff") /\ Here.row \in DOMAIN dispatches
    <3>1. CASE UNCHANGED dispatches
      BY <1>1, <3>1, HereIsARow DEF FailsAt
    <3>2. CASE dispatches' = CloseRow(Here.row, "failed")
      BY <1>1, <3>2, ClosingHere DEF Status
    <3> QED
      BY <2>2, <3>1, <3>2
  <2> QED
    BY <1>2, <2>1, <2>3 DEF Accounted
<1>4. CASE ~SpeakerFailed
  <2>1. UNCHANGED dispatches \/ dispatches' = CloseRow(Here.row, "silent")
    BY <1>4 DEF SpeakerStopped, SpeakerLost, SpeakerAsked, SpeakerSilent, SpeakerSpoke,
                ReplyIsQuestion, CancelScheduled, FailPersistence, Close
  <2>2. FailsNoMore("call") /\ FailsNoMore("handoff")
    <3>1. CASE UNCHANGED dispatches
      BY <3>1 DEF FailsNoMore
    <3>2. CASE dispatches' = CloseRow(Here.row, "silent")
      BY <1>1, <3>2, ClosingHere DEF Status
    <3> QED
      BY <2>1, <3>1, <3>2
  <2> QED
    BY <1>2, <2>2 DEF Accounted
<1> QED
  BY <1>3, <1>4

LEMMA AroundAccounts ==
    ASSUME IInv, CancelTurn \/ Signal \/ MemberLeaves PROVE Accounted
<1>1. /\ UNCHANGED result
      /\ dispatches' = dispatches \/ dispatches' = Interrupted(dispatches)
  BY DEF CancelTurn, Signal, MemberLeaves, work
<1> QED
  BY <1>1, InterruptingFails DEF IInv, Accounted, FailsNoMore, Pending

LEMMA RowSetsAreFinite ==
    ASSUME NEW rows \in Seq(Dispatch), NEW S \in SUBSET DOMAIN rows
    PROVE  IsFiniteSet(S) /\ Cardinality(S) \in Nat
<1>1. DOMAIN rows = 1..Len(rows) /\ Len(rows) \in Nat
  OBVIOUS
<1>2. IsFiniteSet(1..Len(rows))
  BY <1>1, FS_Interval
<1>3. IsFiniteSet(S)
  BY <1>1, <1>2, FS_Subset
<1> QED
  BY <1>3, FS_CardinalityType

\* One row more, or none, and what that does to the count.
LEMMA OneMore ==
    ASSUME NEW rows \in Seq(Dispatch), NEW S \in SUBSET DOMAIN rows, NEW T, NEW i
    PROVE  /\ T \subseteq S => Cardinality(T) <= Cardinality(S) /\ Cardinality(T) \in Nat
           /\ T \subseteq S \cup {i} =>
                Cardinality(T) <= Cardinality(S) + 1 /\ Cardinality(T) \in Nat
<1>1. IsFiniteSet(S) /\ Cardinality(S) \in Nat
  BY RowSetsAreFinite
<1>2. /\ IsFiniteSet(S \cup {i})
      /\ Cardinality(S \cup {i}) <= Cardinality(S) + 1 /\ Cardinality(S \cup {i}) \in Nat
  <2>1. /\ IsFiniteSet(S \cup {i})
        /\ Cardinality(S \cup {i}) = Cardinality(S) \/ Cardinality(S \cup {i}) = Cardinality(S) + 1
    BY <1>1, FS_AddElement, Zenon
  <2> QED
    BY <1>1, <2>1
<1>3. ASSUME T \subseteq S PROVE Cardinality(T) <= Cardinality(S) /\ Cardinality(T) \in Nat
  <2>1. T \in SUBSET S
    BY <1>3
  <2> QED
    BY <1>1, <2>1, FS_Subset, FS_CardinalityType
<1>4. ASSUME T \subseteq S \cup {i}
      PROVE  Cardinality(T) <= Cardinality(S) + 1 /\ Cardinality(T) \in Nat
  <2>1. T \in SUBSET (S \cup {i})
    BY <1>4
  <2>2. Cardinality(T) <= Cardinality(S \cup {i}) /\ Cardinality(T) \in Nat
    BY <1>2, <2>1, FS_Subset, FS_CardinalityType
  <2> QED
    BY <1>1, <1>2, <2>2
<1> QED
  BY <1>3, <1>4

LEMMA AccountedKeepsCount ==
    ASSUME Rows, Counted, Accounted, phase # "ended", budget' \in Budget,
           budget'.failures >= budget.failures
    PROVE  Counted'
<1> DEFINE Fc == FailedOf(dispatches, "call")
           Fh == FailedOf(dispatches, "handoff")
           Gc == FailedOf(dispatches', "call")
           Gh == FailedOf(dispatches', "handoff")
<1>1. /\ dispatches \in Seq(Dispatch)
      /\ Fc \in SUBSET DOMAIN dispatches /\ Fh \in SUBSET DOMAIN dispatches
  BY DEF Rows, FailedOf
<1>2. Cardinality(Fc) \in Nat /\ Cardinality(Fh) \in Nat
  BY <1>1, RowSetsAreFinite
<1>3. budget.failures \in Nat /\ budget'.failures \in Nat
  BY DEF Rows, Budget
<1>4. /\ Cardinality(Fc) <= budget.failures /\ Cardinality(Fh) <= budget.failures
      /\ Pending => Cardinality(Fh) + 1 <= budget.failures
  <2>1. /\ Cardinality(Fc) <= budget.failures
        /\ Cardinality(Fh) + (IF Pending THEN 1 ELSE 0) <= budget.failures
    BY DEF Counted
  <2> HIDE DEF Fc, Fh
  <2> QED
    BY <1>2, <1>3, <2>1
<1> HIDE DEF Fc, Fh, Gc, Gh
<1>5. SUFFICES /\ Cardinality(Gc) <= budget'.failures
               /\ Cardinality(Gh) + (IF Pending' THEN 1 ELSE 0) <= budget'.failures
  BY DEF Counted, Gc, Gh
<1>6. CASE Gc \subseteq Fc /\ Gh \subseteq Fh /\ (Pending' => Pending)
  <2>1. /\ Cardinality(Gc) <= Cardinality(Fc) /\ Cardinality(Gc) \in Nat
        /\ Cardinality(Gh) <= Cardinality(Fh) /\ Cardinality(Gh) \in Nat
    BY <1>1, <1>6, OneMore
  <2> QED
    BY <1>2, <1>3, <1>4, <1>6, <2>1
<1>7. CASE \E i \in DOMAIN dispatches :
             /\ budget'.failures > budget.failures
             /\ Gc \subseteq Fc \cup {i} /\ Gh \subseteq Fh \cup {i}
             /\ Pending' => Gh \subseteq Fh
  <2>1. PICK i \in DOMAIN dispatches :
             /\ budget'.failures > budget.failures
             /\ Gc \subseteq Fc \cup {i} /\ Gh \subseteq Fh \cup {i}
             /\ Pending' => Gh \subseteq Fh
    BY <1>7
  <2>2. /\ Cardinality(Gc) <= Cardinality(Fc) + 1 /\ Cardinality(Gc) \in Nat
        /\ Cardinality(Gh) <= Cardinality(Fh) + 1 /\ Cardinality(Gh) \in Nat
        /\ Pending' => Cardinality(Gh) <= Cardinality(Fh)
    BY <1>1, <2>1, OneMore
  <2> QED
    BY <1>2, <1>3, <1>4, <2>1, <2>2
<1>8. CASE \E i \in DOMAIN dispatches :
             Pending /\ ~Pending' /\ Gc \subseteq Fc /\ Gh \subseteq Fh \cup {i}
  <2>1. PICK i \in DOMAIN dispatches :
             Pending /\ ~Pending' /\ Gc \subseteq Fc /\ Gh \subseteq Fh \cup {i}
    BY <1>8
  <2>2. /\ Cardinality(Gc) <= Cardinality(Fc) /\ Cardinality(Gc) \in Nat
        /\ Cardinality(Gh) <= Cardinality(Fh) + 1 /\ Cardinality(Gh) \in Nat
    BY <1>1, <2>1, OneMore
  <2> QED
    BY <1>2, <1>3, <1>4, <2>1, <2>2
<1> QED
  BY <1>6, <1>7, <1>8 DEF Accounted, FailsNoMore, FailsAt, Fc, Fh, Gc, Gh

LEMMA WorkedKeepsBounds ==
    ASSUME IInv, Bounded, Worked, phase' # "ended" => Accounted
    PROVE  Bounded'
<1> USE DEF IInv
<1>1. SUFFICES ASSUME phase' # "ended" PROVE Bounded'
  BY DEF Bounded, Linked, Charged, Counted
<1>2. /\ phase # "ended" /\ (phase' = "start" <=> phase = "start")
      /\ Rows /\ dispatches \in Seq(Dispatch) /\ dispatches' \in Seq(Dispatch)
      /\ Len(dispatches') = Len(dispatches) /\ DOMAIN dispatches' = DOMAIN dispatches
      /\ \A i \in DOMAIN dispatches : /\ dispatches'[i].agent = dispatches[i].agent
                                      /\ dispatches'[i].action = dispatches[i].action
  BY <1>1 DEF Worked, SameRows, Rows
<1>3. Linked'
  <2>1. CASE UNCHANGED chain /\ (phase' = phase \/ (phase # "run" /\ phase' # "run"))
    <3>1. chain \in Seq(Link) /\ \A k \in DOMAIN chain : chain[k].row \in DOMAIN dispatches
      BY DEF Rows
    <3>2. phase = "start" => Len(dispatches) \in DOMAIN dispatches
      BY <1>2 DEF Rows
    <3> QED
      BY <1>2, <2>1, <3>1, <3>2 DEF Bounded, Linked
  <2>2. CASE chain' = <<>> /\ phase' # "run"
    BY <2>2 DEF Linked
  <2>3. CASE Len(chain) > 1 /\ chain' = Front(chain) /\ UNCHANGED phase
    <3>1. /\ chain \in Seq(Link) /\ \A k \in DOMAIN chain : chain[k].row \in DOMAIN dispatches
          /\ \A k \in DOMAIN chain' : k \in DOMAIN chain /\ chain'[k] = chain[k]
      BY <2>3 DEF Front, Rows
    <3>2. phase = "start" => Len(dispatches) \in DOMAIN dispatches
      BY <1>2 DEF Rows
    <3>3. chain # <<>>
      BY <2>3, <3>1
    <3> QED
      BY <1>2, <2>3, <3>1, <3>2, <3>3 DEF Bounded, Linked
  <2> QED
    BY <2>1, <2>2, <2>3 DEF Worked
<1>4. Charged'
  <2>1. Begun' = Begun /\ 1..Begun \subseteq DOMAIN dispatches
    BY <1>2 DEF Begun
  <2>2. \A a : BegunOf(a)' = BegunOf(a)
    BY <1>2, <2>1 DEF BegunOf
  <2> QED
    BY <1>2, <2>1, <2>2 DEF Bounded, Charged, Worked, Kept
<1>5. Counted'
  BY <1>1, <1>2, AccountedKeepsCount DEF Bounded, Worked, Kept
<1> QED
  BY <1>3, <1>4, <1>5 DEF Bounded

\* A row that is added has not failed.
LEMMA AddingFails ==
    ASSUME Rows, NEW a \in Members, NEW action \in {"speak", "call", "handoff"}, Adds(a, action)
    PROVE  FailsNoMore("call") /\ FailsNoMore("handoff")
<1>1. /\ DOMAIN dispatches' = DOMAIN dispatches \cup {Len(dispatches')}
      /\ \A i \in DOMAIN dispatches : dispatches'[i] = dispatches[i]
      /\ dispatches'[Len(dispatches')].status = "queued"
  BY AddedRow
<1> QED
  BY <1>1 DEF FailsNoMore, FailedOf

LEMMA AddingKeepsCharges ==
    ASSUME Rows, Charged, phase \notin {"start", "ended"}, phase' = "start", Kept(budget, budget'),
           NEW a \in Members, NEW action \in {"speak", "call", "handoff"}, Adds(a, action)
    PROVE  Charged'
<1>1. /\ Len(dispatches') = Len(dispatches) + 1 /\ Len(dispatches) \in Nat
      /\ DOMAIN dispatches = 1..Len(dispatches)
      /\ \A i \in DOMAIN dispatches : dispatches'[i] = dispatches[i]
  BY AddedRow DEF Rows
<1>2. Begun' = Begun /\ 1..Begun = DOMAIN dispatches
  <2>1. Begun = Len(dispatches) /\ Begun' = Len(dispatches') - 1
    BY DEF Begun
  <2> QED
    BY <1>1, <2>1
<1>3. \A b : BegunOf(b)' = BegunOf(b)
  BY <1>1, <1>2 DEF BegunOf
<1> QED
  BY <1>2, <1>3 DEF Charged, Kept

LEMMA ChosenKeepsBounds ==
    ASSUME IInv, Bounded, Chosen, Untouched, phase \in {"choose", "moderate"} PROVE Bounded'
<1> USE DEF IInv
<1>1. Rows /\ SameRows(dispatches) /\ chain = <<>> /\ Linked /\ Charged /\ Counted
  BY SameRowsAsBefore DEF Bounded, Linked
<1>2. CASE UNCHANGED dispatches /\ phase' \in {"choose", "moderate", "finish", "ended"}
  <2>1. Worked
    BY <1>1, <1>2 DEF Worked, Chosen, Untouched
  <2>2. Accounted
    BY <1>2 DEF Untouched, Accounted, FailsNoMore, Pending
  <2> QED
    BY <2>1, <2>2, WorkedKeepsBounds
<1>3. CASE /\ \E a \in Members \ claims : Adds(a, "speak")
           /\ phase' = "start" /\ UNCHANGED <<state, outcome>>
  <2>1. PICK a \in Members : Adds(a, "speak")
    BY <1>3
  <2>2. Charged'
    BY <1>1, <1>3, <2>1, AddingKeepsCharges DEF Untouched
  <2>3. Linked'
    BY <1>1, <1>3 DEF Untouched, Linked
  <2>4. Counted'
    <3>1. Accounted
      BY <1>1, <2>1, AddingFails DEF Untouched, Accounted, Pending
    <3> QED
      BY <1>1, <3>1, AccountedKeepsCount DEF Untouched, Kept
  <2> QED
    BY <2>2, <2>3, <2>4 DEF Bounded
<1> QED
  <2>1. FailPersistence => phase' = "ended"
    BY DEF FailPersistence
  <2> QED
    BY <1>2, <1>3, <2>1 DEF Chosen

LEMMA DelegationKeepsBounds ==
    ASSUME IInv, Bounded, NEW a \in Members, NEW action \in {"call", "handoff"},
           Delegate(a, action)
    PROVE  Bounded'
<1> USE DEF IInv
<1>1. /\ UNCHANGED <<chain, result>> /\ phase = "run"
      /\ budget' \in Budget /\ Kept(budget, budget')
      /\ \/ FailPersistence /\ UNCHANGED dispatches
         \/ Adds(a, action) /\ phase' = "start"
  BY Delegating
<1>2. CASE FailPersistence
  BY <1>2 DEF FailPersistence, Bounded, Linked, Charged, Counted
<1>3. CASE Adds(a, action) /\ phase' = "start"
  <2>1. Rows /\ Linked /\ Charged /\ Counted
    BY DEF Bounded
  <2>2. Charged'
    BY <1>1, <1>3, <2>1, AddingKeepsCharges
  <2>3. Counted'
    <3>1. Accounted
      BY <1>1, <1>3, <2>1, AddingFails DEF Accounted, Pending
    <3> QED
      BY <1>1, <2>1, <3>1, AccountedKeepsCount DEF Kept
  <2>4. Linked'
    <3>1. /\ \A i \in DOMAIN dispatches : dispatches'[i] = dispatches[i]
          /\ dispatches'[Len(dispatches')].action = action
      BY <1>3, <2>1, AddedRow
    <3>2. \A k \in DOMAIN chain : chain[k].row \in DOMAIN dispatches
      BY DEF Rows
    <3> QED
      BY <1>1, <1>3, <2>1, <3>1, <3>2 DEF Linked
  <2> QED
    BY <2>2, <2>3, <2>4 DEF Bounded
<1> QED
  BY <1>1, <1>2, <1>3

\* Starting a dispatch fails none.
LEMMA StartingFails ==
    ASSUME Rows, StartDispatch PROVE FailsNoMore("call") /\ FailsNoMore("handoff")
<1> DEFINE started == CloseRow(Newest, "running")
<1>1. Newest \in DOMAIN dispatches /\ dispatches \in Seq(Dispatch)
  BY DEF StartDispatch, Rows, Newest
<1>2. \A action : FailedOf(started, action) \subseteq FailedOf(dispatches, action)
  BY <1>1, ClosingFails DEF CloseRow, Status
<1>3. started \in Seq(Dispatch) /\ DOMAIN started = DOMAIN dispatches
  <2>1. SameRows(started)
    BY <1>1, SameRowsAsBefore, ClosingKeepsRows DEF CloseRow, Status
  <2> QED
    BY <1>1, <2>1 DEF SameRows
<1>4. ASSUME chain # <<>>, NEW action
      PROVE  FailedOf([started EXCEPT ![Here.row].status = "completed"], action)
               \subseteq FailedOf(dispatches, action)
  <2>1. Here.row \in DOMAIN started
    BY <1>3, <1>4, HereIsARow
  <2> HIDE DEF started
  <2>2. \A i \in DOMAIN started :
          FailedOf([started EXCEPT ![i].status = "completed"], action)
            \subseteq FailedOf(started, action)
    <3>1. "completed" \in Status /\ "completed" # "failed"
      BY DEF Status
    <3> QED
      BY <1>3, <3>1, ClosingFails
  <2> QED
    BY <1>2, <2>1, <2>2
<1>5. \/ dispatches' = dispatches \/ dispatches' = started
      \/ chain # <<>> /\ dispatches' = [started EXCEPT ![Here.row].status = "completed"]
  BY DEF StartDispatch
<1> HIDE DEF started
<1> QED
  BY <1>2, <1>4, <1>5 DEF FailsNoMore

LEMMA StartKeepsBounds == ASSUME IInv, Bounded, StartDispatch PROVE Bounded'
<1> USE DEF IInv
<1>1. /\ Rows /\ UNCHANGED result /\ SameRows(dispatches') /\ budget' \in Budget
      /\ phase = "start" /\ Linked /\ Charged /\ Counted
  BY Starting DEF StartDispatch, Bounded
<1>2. CASE FailPersistence
  BY <1>2 DEF FailPersistence, Bounded, Linked, Charged, Counted
<1>3. CASE /\ phase' = "run"
           /\ \E link \in Link : link.row = Len(dispatches) /\ chain' = Append(chain, link)
           /\ LET a == dispatches[Len(dispatches)].agent IN
              budget'.per = [budget.per EXCEPT ![a] = @ + 1]
           /\ budget'.steps = budget.steps + 1 /\ budget'.failures = budget.failures
  <2>1. /\ Len(dispatches') = Len(dispatches) /\ Len(dispatches) \in Nat \ {0}
        /\ DOMAIN dispatches = 1..Len(dispatches)
        /\ \A i \in DOMAIN dispatches : /\ dispatches'[i].agent = dispatches[i].agent
                                        /\ dispatches'[i].action = dispatches[i].action
        /\ dispatches[Len(dispatches)] \in Dispatch
    BY <1>1 DEF SameRows, Rows
  <2>2. Linked'
    <3>1. PICK link \in Link : link.row = Len(dispatches) /\ chain' = Append(chain, link)
      BY <1>3
    <3>2. chain \in Seq(Link) /\ \A k \in DOMAIN chain : chain[k].row \in DOMAIN dispatches
      BY DEF Rows
    <3>3. ASSUME NEW k \in DOMAIN chain', k > 1
          PROVE  dispatches'[chain'[k].row].action # "speak"
      <4>1. CASE k \in DOMAIN chain
        BY <1>1, <2>1, <3>1, <3>2, <3>3, <4>1 DEF Linked
      <4>2. CASE k \notin DOMAIN chain
        <5>1. chain'[k] = link /\ chain # <<>>
          BY <3>1, <3>2, <3>3, <4>2
        <5> QED
          BY <1>1, <2>1, <3>1, <5>1 DEF Linked
      <4> QED
        BY <4>1, <4>2
    <3> QED
      BY <1>3, <3>3 DEF Linked
  <2>3. Charged'
    <3> DEFINE n == Len(dispatches)
               who == dispatches[n].agent
    <3>1. Begun = n - 1 /\ Begun' = n
      BY <1>1, <1>3, <2>1 DEF Begun
    <3>2. budget'.steps = Begun'
      BY <1>1, <1>3, <2>1, <3>1 DEF Charged
    <3>3. ASSUME NEW b \in Members
          PROVE  budget'.per[b] = Cardinality(BegunOf(b)')
      <4>1. BegunOf(b)' = IF b = who THEN BegunOf(b) \cup {n} ELSE BegunOf(b)
        BY <2>1, <3>1 DEF BegunOf
      <4>2. BegunOf(b) \in SUBSET DOMAIN dispatches /\ n \notin BegunOf(b)
        BY <2>1, <3>1 DEF BegunOf
      <4>3. IsFiniteSet(BegunOf(b)) /\ Cardinality(BegunOf(b)) \in Nat
        BY <4>2, RowSetsAreFinite DEF Rows
      <4>4. Cardinality(BegunOf(b) \cup {n}) = Cardinality(BegunOf(b)) + 1
        BY <4>2, <4>3, FS_AddElement
      <4>5. budget.per \in [Members -> Nat] /\ budget.per[b] = Cardinality(BegunOf(b))
        BY <1>1 DEF Charged, Rows, Budget
      <4>6. who \in Members
        BY <2>1 DEF Dispatch
      <4>7. budget'.per[b] = IF b = who THEN budget.per[b] + 1 ELSE budget.per[b]
        BY <1>3, <4>5, <4>6
      <4> QED
        BY <4>1, <4>4, <4>5, <4>7
    <3> QED
      BY <3>2, <3>3 DEF Charged
  <2>4. Counted'
    <3>1. Accounted
      BY <1>1, StartingFails DEF Accounted, Pending
    <3>2. budget'.failures >= budget.failures
      BY <1>3 DEF Rows, Budget
    <3> QED
      BY <1>1, <3>1, <3>2, AccountedKeepsCount
  <2> QED
    BY <2>2, <2>3, <2>4 DEF Bounded
<1> QED
  BY <1>2, <1>3, Starting

LEMMA InitKeepsBounds == ASSUME Init PROVE Bounded
<1>1. /\ dispatches = <<>> /\ chain = <<>> /\ phase = "accept"
      /\ budget.steps = 0 /\ budget.failures = 0
  BY DEF Init
<1>2. Linked
  BY <1>1 DEF Linked
<1>3. Charged
  <2>1. Begun = 0 /\ \A a : BegunOf(a) = {}
    BY <1>1 DEF Begun, BegunOf
  <2>2. \A a \in Members : budget.per[a] = 0
    BY DEF Init
  <2> QED
    BY <1>1, <2>1, <2>2, FS_EmptySet DEF Charged
<1>4. Counted
  <2>1. FailedOf(dispatches, "call") = {} /\ FailedOf(dispatches, "handoff") = {}
    BY <1>1 DEF FailedOf
  <2>2. ~Pending
    BY DEF Init, Nothing, Pending
  <2>3. Cardinality({}) = 0
    BY FS_EmptySet
  <2>4. /\ Cardinality(FailedOf(dispatches, "call")) = 0
        /\ Cardinality(FailedOf(dispatches, "handoff")) = 0
    BY <2>1, <2>3, Zenon
  <2>5. budget.failures = 0
    BY <1>1
  <2> HIDE DEF Pending, FailedOf
  <2> QED
    BY <2>2, <2>4, <2>5 DEF Counted
<1> QED
  BY <1>2, <1>3, <1>4 DEF Bounded

LEMMA StepKeepsBounds == ASSUME IInv, Bounded, [Next]_vars PROVE Bounded'
<1>1. ASSUME NEW a \in Members, NEW action \in {"call", "handoff"}, Delegate(a, action)
      PROVE  Bounded'
  BY <1>1, DelegationKeepsBounds
<1>2. CASE Start \/ Prefilter \/ StopWhileAsking \/ Finish
  BY <1>2, BeforeTheRun, BeforeAccounts, WorkedKeepsBounds
<1>3. CASE \/ PeerSpeaks \/ MentionSpeaks \/ AskModerator \/ NextInOrder \/ Conclude
           \/ ModeratorSkipped \/ DecisionFinishes \/ DecisionPicks
           \/ ModeratorAnswers \/ ModeratorMissing
  <2>1. phase \in {"choose", "moderate"}
    BY <1>3, ChoicePhase
  <2> QED
    BY <1>3, <2>1, NextSpeaker, Moderating, ChosenKeepsBounds
<1>4. CASE StartDispatch
  BY <1>4, StartKeepsBounds
<1>5. CASE Speak \/ AskUser \/ StaySilent \/ ExecutionFails \/ ExecutionStops
  BY <1>5, DuringTheRun, DuringAccounts, WorkedKeepsBounds
<1>6. CASE HelperStopped \/ HelperFailed \/ HelperLost \/ CallAnswered \/ HandoffEnds
  BY <1>6, HelperReturning, HelperAccounts, WorkedKeepsBounds DEF Bounded
<1>7. CASE \/ SpeakerStopped \/ SpeakerLost \/ SpeakerFailed \/ SpeakerAsked
           \/ SpeakerSilent \/ SpeakerSpoke \/ ReplyIsQuestion
  BY <1>7, SpeakerReturning, SpeakerAccounts, WorkedKeepsBounds
<1>8. CASE CancelTurn \/ Signal \/ MemberLeaves
  BY <1>8, AroundTheTurn, AroundAccounts, WorkedKeepsBounds
<1>9. CASE UNCHANGED vars
  <2>1. UNCHANGED <<phase, chain, dispatches, budget, result>>
    BY <1>9 DEF vars, stage, work
  <2>2. Linked' /\ Charged' /\ Counted'
    BY <2>1 DEF Bounded, Linked, Charged, Counted, Begun, BegunOf, Pending
  <2> QED
    BY <2>2 DEF Bounded
<1> QED
  BY <1>1, <1>2, <1>3, <1>4, <1>5, <1>6, <1>7, <1>8, <1>9 DEF Next, Scheduling, Replying

LEMMA BoundsInvariance == Spec => [](IInv /\ Bounded)
<1>1. Init => IInv /\ Bounded
  BY InitKeepsInvariant, InitKeepsBounds
<1>2. IInv /\ Bounded /\ [Next]_vars => (IInv /\ Bounded)'
  BY StepKeepsInvariant, StepKeepsBounds
<1> QED
  BY <1>1, <1>2, PTL DEF Spec

\* Only the choice of a speaker and a delegation add a row.
LEMMA OnlyAdmitted ==
    ASSUME IInv, [Next]_vars, Len(dispatches') > Len(dispatches)
    PROVE  /\ phase \in {"choose", "moderate", "run"}
           /\ \E a \in Members, action \in {"speak", "call", "handoff"} : Adds(a, action)
<1>1. Len(dispatches) \in Nat
  BY DEF IInv, Rows
<1>2. Worked => FALSE
  BY <1>1 DEF Worked, SameRows
<1>3. UNCHANGED dispatches => FALSE
  BY <1>1
<1>4. CASE \/ PeerSpeaks \/ MentionSpeaks \/ AskModerator \/ NextInOrder \/ Conclude
           \/ ModeratorSkipped \/ DecisionFinishes \/ DecisionPicks
           \/ ModeratorAnswers \/ ModeratorMissing
  <2>1. phase \in {"choose", "moderate"} /\ Chosen
    BY <1>4, ChoicePhase, NextSpeaker, Moderating
  <2> QED
    BY <1>3, <2>1 DEF Chosen
<1>5. ASSUME NEW a \in Members, NEW action \in {"call", "handoff"}, Delegate(a, action)
      PROVE  phase = "run" /\ Adds(a, action)
  BY <1>3, <1>5, Delegating
<1>6. CASE StartDispatch
  BY <1>1, <1>6, Starting DEF SameRows
<1>7. CASE UNCHANGED vars
  BY <1>3, <1>7 DEF vars, work
<1>8. ASSUME \/ Start \/ Prefilter \/ StopWhileAsking \/ Finish
             \/ Speak \/ AskUser \/ StaySilent \/ ExecutionFails \/ ExecutionStops
             \/ HelperStopped \/ HelperFailed \/ HelperLost \/ CallAnswered \/ HandoffEnds
             \/ SpeakerStopped \/ SpeakerLost \/ SpeakerFailed \/ SpeakerAsked
             \/ SpeakerSilent \/ SpeakerSpoke \/ ReplyIsQuestion
             \/ CancelTurn \/ Signal \/ MemberLeaves
      PROVE  FALSE
  BY <1>2, <1>8, BeforeTheRun, DuringTheRun, HelperReturning, SpeakerReturning, AroundTheTurn
<1> QED
  BY <1>4, <1>5, <1>6, <1>7, <1>8 DEF Next, Scheduling, Replying

\* No path to a dispatch goes round a limit of the group, whatever its
\* settings and however deep the delegation: the steps of the turn, the
\* dispatches of each agent, the hops, and the failed rows (TurnBudget's
\* record_dispatch and record_failure against agent_dispatches).
THEOREM LimitsAreKept == Spec => LimitsKept
<1> DEFINE new == Last(dispatches')
           Within == /\ Len(dispatches) < MaxSteps
                     /\ Cardinality(DispatchesOf(new.agent)) < group.perAgent
                     /\ new.hop <= MaxHops
                     /\ \A action \in {"call", "handoff"} :
                            Cardinality(FailedBesides(action)) < group.failures
<1>1. ASSUME IInv, Bounded, [Next]_vars, Len(dispatches') > Len(dispatches)
      PROVE  Within
  <2>1. /\ phase \in {"choose", "moderate", "run"}
        /\ \E a \in Members, action \in {"speak", "call", "handoff"} : Adds(a, action)
    BY <1>1, OnlyAdmitted
  <2>2. PICK a \in Members, action \in {"speak", "call", "handoff"} : Adds(a, action)
    BY <2>1
  <2>3. new.agent = a /\ Admits(a, new.hop)
    BY <1>1, <2>2, AddedRow DEF IInv, Last
  <2>4. Begun = Len(dispatches) /\ budget.steps = Begun /\ budget.per[a] = Cardinality(BegunOf(a))
    BY <1>1, <2>1 DEF Bounded, Charged, Begun
  <2>5. DispatchesOf(a) = BegunOf(a)
    BY <1>1, <2>4 DEF DispatchesOf, BegunOf, IInv, Rows
  <2>6. \A kind : FailedBesides(kind) = FailedOf(dispatches, kind)
    BY DEF FailedBesides, FailedOf
  <2>7. /\ Cardinality(FailedOf(dispatches, "call")) \in Nat
        /\ Cardinality(FailedOf(dispatches, "handoff")) \in Nat
    <3>1. /\ FailedOf(dispatches, "call") \in SUBSET DOMAIN dispatches
          /\ FailedOf(dispatches, "handoff") \in SUBSET DOMAIN dispatches
      BY DEF FailedOf
    <3> QED
      BY <1>1, <3>1, RowSetsAreFinite DEF IInv, Rows
  <2>8. /\ Cardinality(FailedOf(dispatches, "call")) <= budget.failures
        /\ Cardinality(FailedOf(dispatches, "handoff")) + (IF Pending THEN 1 ELSE 0)
             <= budget.failures
    BY <1>1, <2>1 DEF Bounded, Counted
  <2>9. budget.failures \in Nat /\ group.failures \in Nat
    BY <1>1, Limits DEF IInv, Staged, Rows, Budget
  <2>10. /\ Cardinality(FailedOf(dispatches, "call")) < group.failures
         /\ Cardinality(FailedOf(dispatches, "handoff")) < group.failures
    BY <2>3, <2>7, <2>8, <2>9 DEF Admits
  <2> QED
    BY <2>3, <2>4, <2>5, <2>6, <2>10 DEF Admits
<1>2. IInv /\ Bounded /\ [Next]_vars => [Len(dispatches') > Len(dispatches) => Within]_vars
  BY <1>1
<1> QED
  BY <1>2, BoundsInvariance, PTL DEF Spec, LimitsKept
-----------------------------------------------------------------------------
(* The user's mentions                                                     *)

HasRow(a) == \E i \in DOMAIN dispatches : dispatches[i].agent = a

\* Who was named, is still there, and was not dispatched yet.
Unheard == {a \in Named \cap Selected : standing[a] = "active" /\ ~HasRow(a)}

\* Whoever was delegated to or had the floor was dispatched.
Met == phase # "ended" =>
    /\ \A a \in claims : HasRow(a)
    /\ previous # 0 => HasRow(previous)
    /\ result.who # 0 => HasRow(result.who)

\* Nobody who waits is lost from the pool or from the mentions.
Awaited == phase # "ended" => Unheard \subseteq remaining \cap mentions

\* The scheduler turns away from a mention only when the steps are spent.
Heeded ==
    /\ phase = "moderate" /\ verdict = "ask" => Unheard = {} \/ budget.steps >= MaxSteps
    /\ phase = "finish" /\ verdict = "silence" => Unheard = {}
    /\ phase = "finish" /\ verdict = "finished" =>
         Automatic /\ (Unheard = {} \/ budget.steps >= MaxSteps)

Heard == Met /\ Awaited /\ Heeded

\* What a step may do to whoever waits.
Listens ==
    /\ UNCHANGED group
    /\ \A a \in Members : standing'[a] = "active" => standing[a] = "active"
    /\ \A a : HasRow(a) => HasRow(a)'
    /\ \A a \in claims' : HasRow(a)'
    /\ previous' # 0 => HasRow(previous)'
    /\ result'.who # 0 => HasRow(result.who)'
    /\ \A a \in Named \cap remaining \cap mentions :
          a \in remaining' \cap mentions' \/ HasRow(a)' \/ standing'[a] # "active"

LEMMA SameGroup ==
    ASSUME UNCHANGED group
    PROVE  UNCHANGED <<MaxSteps, Named, Selected, Automatic>>
BY DEF MaxSteps, AutoSteps, OnePass, Selected, Candidates, Named, Automatic

LEMMA FewerUnheard == ASSUME Staged, Listens PROVE Unheard' \subseteq Unheard
<1>1. Named \subseteq Members
  BY NamedAreMembers DEF Staged
<1> QED
  BY <1>1, SameGroup DEF Listens, Unheard

LEMMA ListeningKeepsWaiting ==
    ASSUME Staged, Awaited, phase # "ended", Listens PROVE Met' /\ Awaited'
<1>1. Met'
  BY DEF Listens, Met
<1>2. Unheard' \subseteq remaining' \cap mentions'
  <2>1. Unheard' \subseteq remaining \cap mentions
    BY FewerUnheard DEF Awaited
  <2>2. \A a \in Unheard' : a \in Named /\ ~HasRow(a)' /\ standing'[a] = "active"
    BY SameGroup DEF Unheard, Listens
  <2> QED
    BY <2>1, <2>2 DEF Listens
<1> QED
  BY <1>1, <1>2 DEF Awaited

LEMMA SameRowsAreHeard ==
    ASSUME Rows, SameRows(dispatches') PROVE \A a : HasRow(a)' <=> HasRow(a)
<1>1. DOMAIN dispatches' = DOMAIN dispatches
  BY DEF Rows, SameRows
<1> QED
  BY <1>1 DEF SameRows, HasRow

LEMMA AddedIsHeard ==
    ASSUME Rows, NEW a \in Members, NEW action \in {"speak", "call", "handoff"}, Adds(a, action)
    PROVE  HasRow(a)' /\ \A b : HasRow(b) => HasRow(b)'
<1>1. /\ DOMAIN dispatches' = DOMAIN dispatches \cup {Len(dispatches')}
      /\ \A i \in DOMAIN dispatches : dispatches'[i] = dispatches[i]
      /\ dispatches'[Len(dispatches')].agent = a
  BY AddedRow
<1>2. HasRow(a)'
  BY <1>1 DEF HasRow
<1>3. \A b : HasRow(b) => HasRow(b)'
  BY <1>1 DEF HasRow
<1> QED
  BY <1>2, <1>3

LEMMA RowIsHeard == ASSUME Rows, chain # <<>> PROVE HasRow(Row.agent)
BY HereIsARow DEF HasRow, Row

\* Most steps leave the floor alone.
LEMMA LeavingTheFloor ==
    ASSUME Rows, Met, phase # "ended", SameRows(dispatches'),
           UNCHANGED <<group, remaining, mentions, claims, standing>>,
           previous' \in {0, previous} \/ HasRow(previous'),
           result'.who \in {0, result.who} \/ HasRow(result'.who)
    PROVE  Listens
<1>1. \A a : HasRow(a)' <=> HasRow(a)
  BY SameRowsAreHeard
<1>2. /\ DOMAIN dispatches' = DOMAIN dispatches
      /\ \A i \in DOMAIN dispatches : dispatches'[i].agent = dispatches[i].agent
  BY DEF SameRows, Rows
<1>3. /\ HasRow(previous)' <=> HasRow(previous')
      /\ HasRow(result.who)' <=> HasRow(result'.who)
  BY <1>2 DEF HasRow
<1> QED
  BY <1>1, <1>2, <1>3 DEF Met, Listens

LEMMA BeforeListens ==
    ASSUME IInv, Met, Start \/ Prefilter, phase' # "ended" PROVE Listens
<1> USE DEF IInv
<1>1. Rows /\ SameRows(dispatches) /\ phase # "ended"
  BY SameRowsAsBefore DEF Start, Prefilter
<1>2. CASE Start
  BY <1>1, <1>2, LeavingTheFloor DEF Start, floor, work
<1>3. CASE Prefilter
  <2>1. UNCHANGED <<group, mentions, previous, claims, dispatches, result, standing>>
    BY <1>3 DEF Prefilter, work
  <2>2. \A a \in Named \cap remaining : a \in remaining'
    BY <1>3 DEF Prefilter, Unnamed
  <2> QED
    BY <1>1, <2>1, <2>2 DEF Listens, Met, HasRow
<1> QED
  BY <1>2, <1>3

LEMMA DuringListens ==
    ASSUME IInv, Met, \/ Speak \/ AskUser \/ StaySilent \/ ExecutionFails \/ ExecutionStops
    PROVE  Listens
<1> USE DEF IInv
<1>1. Rows /\ phase = "run" /\ chain # <<>>
  BY DEF Speak, AskUser, Reply, StaySilent, ExecutionFails, ExecutionStops, Executed, Executing,
         Rows
<1>2. SameRows(dispatches')
  BY DuringTheRun DEF Worked
<1>3. UNCHANGED <<group, remaining, mentions, previous, claims, standing>>
  BY DEF Speak, AskUser, Reply, StaySilent, ExecutionFails, ExecutionStops, Executed, floor
<1>4. result'.who \in {0, Row.agent}
  BY DEF Speak, AskUser, Reply, StaySilent, ExecutionFails, ExecutionStops, Of, Nothing
<1> QED
  BY <1>1, <1>2, <1>3, <1>4, RowIsHeard, LeavingTheFloor

LEMMA HelperListens ==
    ASSUME IInv, Met, \/ HelperStopped \/ HelperFailed \/ HelperLost \/ CallAnswered \/ HandoffEnds
    PROVE  Listens
<1> USE DEF IInv
<1>1. Rows /\ phase = "run"
  BY DEF HelperStopped, HelperFailed, HelperLost, CallAnswered, HandoffEnds, Returning
<1>2. SameRows(dispatches')
  BY HelperReturning DEF Worked
<1>3. UNCHANGED <<group, remaining, mentions, previous, claims, standing>>
  BY DEF HelperStopped, HelperFailed, HelperLost, CallAnswered, HandoffEnds, Returning, floor
<1>4. result'.who \in {0, result.who}
  BY DEF HelperStopped, HelperFailed, HelperLost, CallAnswered, HandoffEnds, Settle, HandedOff,
         Of, Nothing
<1> QED
  BY <1>1, <1>2, <1>3, <1>4, LeavingTheFloor

LEMMA SpeakerListens ==
    ASSUME IInv, Met, SpeakerFailed \/ SpeakerSilent \/ SpeakerSpoke, phase' # "ended"
    PROVE  Listens
<1> USE DEF IInv
<1>1. Rows /\ phase = "run" /\ phase # "ended" /\ chain # <<>>
  BY DEF SpeakerFailed, SpeakerSilent, SpeakerSpoke, Returned, Rows
<1>2. SameRows(dispatches') /\ result'.who = 0 /\ \A a : HasRow(a)' <=> HasRow(a)
  <2>1. SameRows(dispatches')
    BY SpeakerReturning DEF Worked
  <2>2. result' = Nothing
    BY DEF SpeakerFailed, SpeakerSilent, SpeakerSpoke, Release
  <2> QED
    BY <1>1, <2>1, <2>2, SameRowsAreHeard DEF Nothing
<1>3. UNCHANGED <<group, mentions, claims, standing>>
  BY DEF SpeakerFailed, SpeakerSilent, SpeakerSpoke, Returned, floor
<1>4. CASE SpeakerFailed
  <2>1. UNCHANGED <<remaining, previous>>
    BY <1>4 DEF SpeakerFailed, floor
  <2> QED
    BY <1>1, <1>2, <1>3, <2>1, LeavingTheFloor
<1>5. CASE SpeakerSilent
  <2>1. previous' = Row.agent /\ remaining \subseteq remaining' \cup {Row.agent}
    BY <1>5 DEF SpeakerSilent, FailPersistence
  <2>2. PICK b : b = Row.agent
    OBVIOUS
  <2>3. HasRow(b)'
    BY <1>1, <1>2, <2>2, RowIsHeard
  <2>4. HasRow(previous)'
    BY <2>1, <2>2, <2>3 DEF HasRow
  <2>5. \A a \in remaining : a \in remaining' \/ a = b
    BY <2>1, <2>2
  <2> QED
    BY <1>1, <1>2, <1>3, <2>3, <2>4, <2>5 DEF Listens, Met
<1>6. CASE SpeakerSpoke
  <2>1. previous' = result.who /\ UNCHANGED remaining
    BY <1>6 DEF SpeakerSpoke
  <2> QED
    BY <1>1, <1>2, <1>3, <2>1, LeavingTheFloor DEF Met
<1> QED
  BY <1>4, <1>5, <1>6

LEMMA AroundListens ==
    ASSUME IInv, Met, CancelTurn \/ Signal \/ MemberLeaves PROVE Listens
<1> USE DEF IInv
<1>1. /\ Rows /\ phase # "ended"
      /\ UNCHANGED <<group, remaining, mentions, claims, previous, result>>
      /\ \A a \in Members : standing'[a] = "active" => standing[a] = "active"
  <2>1. CASE CancelTurn \/ Signal
    BY <2>1 DEF CancelTurn, Signal, floor, work
  <2>2. CASE MemberLeaves
    <3>1. PICK a \in Members, s \in {"muted", "left", "deleted"} :
             standing[a] = "active" /\ standing' = [standing EXCEPT ![a] = s]
      BY <2>2 DEF MemberLeaves
    <3>2. ASSUME NEW b \in Members, standing'[b] = "active" PROVE standing[b] = "active"
      <4>1. CASE b = a
        BY <3>1, <4>1
      <4>2. CASE b # a
        BY <3>1, <3>2, <4>2
      <4> QED
        BY <4>1, <4>2
    <3> QED
      BY <2>2, <3>2 DEF MemberLeaves, stage, floor, work
  <2> QED
    BY <2>1, <2>2
<1>2. \A a : HasRow(a)' <=> HasRow(a)
  <2>1. SameRows(dispatches')
    BY AroundTheTurn DEF Worked
  <2> QED
    BY <1>1, <2>1, SameRowsAreHeard
<1> QED
  BY <1>1, <1>2 DEF Listens, Met

LEMMA StartListens ==
    ASSUME IInv, Met, StartDispatch, phase' # "ended" PROVE Listens
<1>1. /\ Rows /\ SameRows(dispatches') /\ phase # "ended"
      /\ UNCHANGED <<group, remaining, mentions, previous, claims, result, standing>>
  BY Starting DEF IInv, StartDispatch, floor
<1> QED
  BY <1>1, LeavingTheFloor

LEMMA DelegationListens ==
    ASSUME IInv, Met, NEW a \in Members, NEW action \in {"call", "handoff"}, Delegate(a, action),
           phase' # "ended"
    PROVE  Listens
<1>1. Adds(a, action) /\ claims' = claims \cup {a} /\ phase = "run"
  BY Delegating DEF FailPersistence
<1>2. HasRow(a)' /\ \A b : HasRow(b) => HasRow(b)'
  BY <1>1, AddedIsHeard DEF IInv
<1>3. UNCHANGED <<group, remaining, mentions, previous, result, standing>>
  BY DEF Delegate, floor
<1>4. (previous # 0 => HasRow(previous)') /\ (result.who # 0 => HasRow(result.who)')
  <2>1. \A b : HasRow(b) => \E i \in DOMAIN dispatches' : dispatches'[i].agent = b
    BY <1>2 DEF HasRow
  <2>2. /\ previous # 0 => \E i \in DOMAIN dispatches' : dispatches'[i].agent = previous
        /\ result.who # 0 => \E i \in DOMAIN dispatches' : dispatches'[i].agent = result.who
    BY <1>1, <2>1 DEF Met
  <2> QED
    BY <1>3, <2>2 DEF HasRow
<1> QED
  BY <1>1, <1>2, <1>3, <1>4 DEF Listens, Met

LEMMA QueuedIsHeard ==
    ASSUME Rows, NEW a \in Members, NEW hop \in Nat, Queue(a, hop, "speak"), phase' # "ended"
    PROVE  HasRow(a)'
<1> DEFINE new == [agent |-> a, hop |-> hop, action |-> "speak", status |-> "queued"]
<1>1. dispatches' = Append(dispatches, new) /\ dispatches \in Seq(Dispatch)
  BY DEF Queue, FailPersistence, Rows
<1>2. new \in Dispatch /\ new.agent = a
  BY DEF Dispatch
<1> HIDE DEF new
<1>3. Len(dispatches) + 1 \in DOMAIN dispatches' /\ dispatches'[Len(dispatches) + 1] = new
  BY <1>1, <1>2
<1> QED
  BY <1>2, <1>3 DEF HasRow

\* Only who is gone, and who is dispatched, leaves the pool.
LEMMA RevalidatingListens ==
    ASSUME Rows, NEW b, NEW preferred, NEW consume, NEW candidates, candidates \subseteq Members,
           Revalidate(b, preferred, candidates, consume), phase' # "ended"
    PROVE  /\ \A c \in remaining : c \in remaining' \/ HasRow(c)' \/ standing[c] # "active"
           /\ \A c \in candidates :
                candidates = {c} /\ MayRun(b, c, 0) => HasRow(c)' \/ standing[c] # "active"
<1> DEFINE there == {a \in candidates : MayRun(b, a, 0) /\ standing[a] = "active"}
           absent == Absent(b, candidates)
<1>1. \A c \in absent : standing[c] # "active"
  BY DEF Absent
<1>2. CASE there = {} /\ remaining' = remaining \ absent
  BY <1>1, <1>2
<1>3. CASE \E a \in there : /\ remaining \ (absent \cup {a}) \subseteq remaining'
                            /\ Queue(a, 0, "speak")
  <2>1. PICK a \in there : /\ remaining \ (absent \cup {a}) \subseteq remaining'
                           /\ Queue(a, 0, "speak")
    BY <1>3
  <2>2. HasRow(a)'
    BY <2>1, QueuedIsHeard
  <2> QED
    BY <1>1, <2>1, <2>2
<1> QED
  BY <1>2, <1>3 DEF Revalidate

LEMMA ChoosingListens ==
    ASSUME IInv, Met, Chosen, phase # "ended", phase' # "ended",
           UNCHANGED <<group, claims, previous, result, standing>>,
           \A a \in Named \cap remaining \cap mentions :
              a \in remaining' \cap mentions' \/ HasRow(a)' \/ standing[a] # "active"
    PROVE  Listens
<1>1. \A b : HasRow(b) => HasRow(b)'
  <2>1. CASE UNCHANGED dispatches
    BY <2>1 DEF HasRow
  <2>2. CASE \E a \in Members \ claims : Adds(a, "speak")
    BY <2>2, AddedIsHeard DEF IInv
  <2> QED
    BY <2>1, <2>2 DEF Chosen
<1>2. (previous # 0 => HasRow(previous)') /\ (result.who # 0 => HasRow(result.who)')
  <2>1. PICK b, c : b = previous /\ c = result.who
    OBVIOUS
  <2>2. (b # 0 => HasRow(b)') /\ (c # 0 => HasRow(c)')
    BY <1>1, <2>1 DEF Met
  <2> QED
    BY <2>1, <2>2 DEF HasRow
<1> QED
  BY <1>1, <1>2 DEF Listens, Met

LEMMA ChoiceListens ==
    ASSUME IInv, Met,
           \/ PeerSpeaks \/ MentionSpeaks \/ AskModerator \/ NextInOrder \/ Conclude
           \/ ModeratorSkipped \/ DecisionFinishes \/ DecisionPicks
           \/ ModeratorAnswers \/ ModeratorMissing,
           phase' # "ended"
    PROVE  Listens
<1> USE DEF IInv
<1>1. Rows /\ Chosen /\ phase # "ended" /\ Legal \subseteq Members /\ Pool \subseteq Members
  BY NextSpeaker, Moderating, ChoicePhase, LegalInPool, PoolIsThere
<1>2. UNCHANGED <<group, claims, previous, result, standing>>
  BY DEF PeerSpeaks, MentionSpeaks, AskModerator, NextInOrder, Conclude, Choosing, ModeratorSkipped,
         DecisionFinishes, DecisionPicks, ModeratorAnswers, ModeratorMissing, Consulted
<1> DEFINE Stays(a) == a \in remaining' \cap mentions' \/ HasRow(a)' \/ standing[a] # "active"
<1>3. SUFFICES \A a \in Named \cap remaining \cap mentions : Stays(a)
  BY <1>1, <1>2, ChoosingListens
<1>4. CASE PeerSpeaks
  <2>1. PICK a \in Members, hop \in 0..MaxHops :
           Queue(a, hop, "speak") /\ remaining' = remaining \ {a}
    BY <1>4 DEF PeerSpeaks
  <2>2. HasRow(a)'
    BY <1>1, <2>1, QueuedIsHeard
  <2> QED
    BY <1>4, <2>1, <2>2 DEF PeerSpeaks
<1>5. CASE MentionSpeaks
  <2>1. PICK i \in Eligible : LET a == group.mentions[i] IN
           /\ mentions' = mentions \ {a}
           /\ IF Automatic THEN Revalidate(budget, a, {a}, FALSE)
              ELSE remaining' = remaining \ {a} /\ Queue(a, 0, "speak")
    BY <1>5 DEF MentionSpeaks
  <2>2. PICK a \in Members : a = group.mentions[i] /\ MayRun(budget, a, 0)
    BY <1>1 DEF Eligible, Wanted
  <2>3. HasRow(a)' \/ standing[a] # "active"
    <3>1. CASE Automatic
      <4>1. Revalidate(budget, a, {a}, FALSE)
        BY <2>1, <2>2, <3>1
      <4> QED
        BY <1>1, <2>2, <4>1, RevalidatingListens
    <3>2. CASE ~Automatic
      BY <1>1, <2>1, <2>2, <3>2, QueuedIsHeard
    <3> QED
      BY <3>1, <3>2
  <2>4. \A c \in remaining : c \in remaining' \/ HasRow(c)' \/ standing[c] # "active"
    <3>1. CASE Automatic
      <4>1. Revalidate(budget, a, {a}, FALSE)
        BY <2>1, <2>2, <3>1
      <4> QED
        BY <1>1, <4>1, RevalidatingListens
    <3>2. CASE ~Automatic
      BY <2>1, <2>2, <2>3, <3>2
    <3> QED
      BY <3>1, <3>2
  <2> QED
    BY <2>1, <2>2, <2>3, <2>4
<1>6. CASE AskModerator \/ Conclude \/ DecisionFinishes
  <2>1. UNCHANGED <<remaining, mentions>>
    BY <1>6 DEF AskModerator, Conclude, Choosing, DecisionFinishes, Consulted
  <2> QED
    BY <2>1
<1>7. CASE NextInOrder
  <2>1. PICK a \in Legal :
           IF Automatic THEN Revalidate(budget, a, {a}, FALSE)
           ELSE remaining' = remaining \ {a} /\ Queue(a, 0, "speak")
    BY <1>7 DEF NextInOrder
  <2>2. UNCHANGED mentions
    BY <1>7 DEF NextInOrder, Choosing
  <2>3. \A c \in remaining : c \in remaining' \/ HasRow(c)' \/ standing[c] # "active"
    <3>1. CASE Automatic
      BY <1>1, <2>1, <3>1, RevalidatingListens
    <3>2. CASE ~Automatic
      BY <1>1, <2>1, <3>2, QueuedIsHeard
    <3> QED
      BY <3>1, <3>2
  <2> QED
    BY <2>2, <2>3
<1>8. CASE ModeratorSkipped \/ DecisionPicks \/ ModeratorAnswers \/ ModeratorMissing
  <2>1. UNCHANGED mentions
    BY <1>8 DEF ModeratorSkipped, DecisionPicks, ModeratorAnswers, ModeratorMissing, Consulted
  <2>2. \/ UNCHANGED remaining
        \/ \E b, preferred : Revalidate(b, preferred, Legal, TRUE)
        \/ \E b, preferred : Revalidate(b, preferred, Legal, ~Automatic)
    BY <1>8 DEF ModeratorSkipped, DecisionPicks, ModeratorAnswers, ModeratorMissing
  <2>3. \A c \in remaining : c \in remaining' \/ HasRow(c)' \/ standing[c] # "active"
    BY <1>1, <2>2, RevalidatingListens
  <2> QED
    BY <2>1, <2>3
<1> QED
  BY <1>4, <1>5, <1>6, <1>7, <1>8

\* A member who was named and is still waiting is wanted, and could only be
\* passed over by a budget.
LEMMA PassedOver ==
    ASSUME IInv, Bounded, Heard, phase = "choose", Eligible = {}, NEW a \in Unheard
    PROVE  a \in Wanted /\ Rejection(budget, 0, 0) # "none"
<1> USE DEF IInv
<1>1. a \in Named /\ a \in Members /\ ~HasRow(a) /\ a \in remaining /\ a \in mentions
  BY NamedAreMembers DEF Unheard, Heard, Awaited, Staged
<1>2. a # 0
  <2>1. Cardinality(Members) \in Nat
    BY GroupsAssumption, FS_CardinalityType
  <2> QED
    BY <1>1, <2>1, GroupsAssumption
<1>3. a \in Wanted /\ a # previous
  BY <1>1, <1>2 DEF Heard, Met, Wanted, Pool
<1>4. budget.per[a] = 0
  <2>1. BegunOf(a) = {}
    <3>1. Begun = Len(dispatches) /\ DOMAIN dispatches = 1..Len(dispatches)
      BY DEF Begun, Rows
    <3> QED
      BY <1>1, <3>1 DEF BegunOf, HasRow
  <2> QED
    BY <1>1, <2>1, FS_EmptySet DEF Bounded, Charged
<1>5. PICK i \in DOMAIN group.mentions : group.mentions[i] = a
  BY <1>1 DEF Named, ToSet
<1>6. ~MayRun(budget, a, 0)
  BY <1>3, <1>5 DEF Eligible
<1> QED
  BY <1>3, <1>4, <1>6 DEF MayRun

\* The moderator of a turn with a mention left is asked for the sake of the
\* steps alone: every other budget ends the turn instead.
LEMMA AskingHeeds ==
    ASSUME IInv, Bounded, Heard, AskModerator, verdict' = "ask", NEW a \in Unheard
    PROVE  budget.steps >= MaxSteps
<1>1. phase = "choose" /\ Eligible = {}
  BY DEF AskModerator, Choosing
<1>2. budget.tokens < group.tokens /\ ~Failing(budget)
  BY DEF AskModerator
<1>3. Rejection(budget, 0, 0) # "none"
  BY <1>1, PassedOver
<1>4. /\ group.perAgent \in Nat \ {0} /\ MaxHops \in Nat
      /\ budget.tokens \in Nat /\ group.tokens \in Nat
  BY Limits DEF IInv, Staged, Rows, Budget
<1> QED
  BY <1>2, <1>3, <1>4 DEF Rejection

LEMMA ConcludingHeeds ==
    ASSUME IInv, Bounded, Heard, Conclude, verdict' = "silence" PROVE Unheard = {}
<1>1. phase = "choose" /\ Eligible = {} /\ Ending = "silence"
  BY DEF Conclude, Choosing
<1>2. SUFFICES ASSUME NEW a \in Unheard PROVE FALSE
  OBVIOUS
<1>3. Rejection(budget, 0, 0) # "none" /\ ~Empty
  BY <1>1, PassedOver DEF Empty
<1>4. Rejection(budget, 0, 0) \in {"none", "steps", "per_agent", "hops", "tokens", "failures"}
  BY DEF Rejection
<1> QED
  BY <1>1, <1>3, <1>4 DEF Ending

LEMMA HeedingAsBefore ==
    ASSUME IInv, Heard, Listens, UNCHANGED <<phase, verdict, budget>> PROVE Heeded'
<1>1. Unheard' \subseteq Unheard
  BY FewerUnheard DEF IInv
<1>2. UNCHANGED <<MaxSteps, Automatic>>
  BY SameGroup DEF Listens
<1> QED
  BY <1>1, <1>2 DEF Heard, Heeded

LEMMA ChoiceHeeds ==
    ASSUME IInv, Bounded, Heard, phase # "ended", phase' # "ended", Listens,
           \/ PeerSpeaks \/ MentionSpeaks \/ AskModerator \/ NextInOrder \/ Conclude
           \/ ModeratorSkipped \/ DecisionFinishes \/ DecisionPicks
           \/ ModeratorAnswers \/ ModeratorMissing
    PROVE  Heeded'
<1>1. Unheard' \subseteq Unheard /\ UNCHANGED <<MaxSteps, Automatic>>
  BY FewerUnheard, SameGroup DEF IInv, Listens
<1>2. budget'.steps = budget.steps
  BY NextSpeaker, Moderating DEF Untouched, Kept
<1>3. CASE PeerSpeaks \/ MentionSpeaks \/ NextInOrder \/ ModeratorSkipped \/ DecisionPicks
           \/ ModeratorMissing
  <2>1. phase' \in {"start", "choose"}
    BY <1>3 DEF PeerSpeaks, MentionSpeaks, NextInOrder, ModeratorSkipped, DecisionPicks,
                ModeratorMissing, Revalidate, Queue, FailPersistence
  <2> QED
    BY <2>1 DEF Heeded
<1>4. CASE AskModerator
  <2>1. phase' = "moderate"
    BY <1>4 DEF AskModerator
  <2> QED
    BY <1>1, <1>2, <1>4, <2>1, AskingHeeds DEF Heeded
<1>5. CASE Conclude
  <2>1. phase' = "finish" /\ verdict' # "finished"
    BY <1>5 DEF Conclude, Ending
  <2> QED
    BY <1>1, <1>5, <2>1, ConcludingHeeds DEF Heeded
<1>6. CASE DecisionFinishes \/ ModeratorAnswers
  <2>1. phase = "moderate" /\ verdict = "ask"
    BY <1>6 DEF DecisionFinishes, ModeratorAnswers, Consulted
  <2>2. \/ phase' \in {"start", "choose"}
        \/ phase' = "finish" /\ verdict' = "finished" /\ Automatic
    <3>1. CASE DecisionFinishes
      BY <3>1 DEF DecisionFinishes
    <3>2. CASE ModeratorAnswers
      <4>1. PICK answer \in Answers :
              \/ phase' = "choose"
              \/ phase' = "finish" /\ verdict' = "finished" /\ answer.done
              \/ \E b : Revalidate(b, answer.pick, Legal, ~Automatic)
        BY <3>2 DEF ModeratorAnswers
      <4>2. answer.done => Automatic
        <5>1. CASE \E a \in Legal : answer = [pick |-> a, done |-> FALSE, bad |-> FALSE]
          BY <5>1
        <5>2. CASE \E d \in IF Automatic THEN BOOLEAN ELSE {FALSE} :
                     answer = [pick |-> 0, done |-> d, bad |-> ~d]
          <6>1. PICK d \in IF Automatic THEN BOOLEAN ELSE {FALSE} :
                     answer = [pick |-> 0, done |-> d, bad |-> ~d]
            BY <5>2
          <6>2. answer.done = d
            BY <6>1
          <6>3. d => Automatic
            BY Zenon
          <6> QED
            BY <6>2, <6>3
        <5> QED
          BY <5>1, <5>2 DEF Answers
      <4> QED
        BY <4>1, <4>2 DEF Revalidate, Queue, FailPersistence
    <3> QED
      BY <1>6, <3>1, <3>2
  <2> QED
    BY <1>1, <1>2, <2>1, <2>2 DEF Heard, Heeded
<1> QED
  BY <1>3, <1>4, <1>5, <1>6

LEMMA InitKeepsHeard == ASSUME Init PROVE Heard
<1>1. /\ remaining = Selected /\ mentions = Named /\ claims = {} /\ previous = 0
      /\ result.who = 0 /\ phase = "accept"
  BY DEF Init, Nothing
<1> QED
  BY <1>1 DEF Heard, Met, Awaited, Heeded, Unheard

LEMMA StepKeepsHeard == ASSUME IInv, Bounded, Heard, [Next]_vars PROVE Heard'
<1> USE DEF IInv
<1>1. CASE phase' = "ended"
  BY <1>1 DEF Heard, Met, Awaited, Heeded
<1>2. CASE UNCHANGED vars
  <2>1. UNCHANGED <<group, phase, verdict, remaining, mentions, previous, budget, claims,
                    dispatches, result, standing>>
    BY <1>2 DEF vars, stage, floor, work
  <2>2. UNCHANGED <<MaxSteps, Named, Selected, Automatic>>
    BY <2>1, SameGroup
  <2>3. Unheard' = Unheard
    BY <2>1, <2>2 DEF Unheard, HasRow
  <2>4. Met'
    BY <2>1 DEF Heard, Met, HasRow
  <2>5. Awaited' /\ Heeded'
    BY <2>1, <2>2, <2>3 DEF Heard, Awaited, Heeded
  <2> QED
    BY <2>4, <2>5 DEF Heard
<1>3. ASSUME phase # "ended", Listens, Heeded' PROVE Heard'
  BY <1>3, ListeningKeepsWaiting DEF Heard
<1>4. ASSUME phase' \notin {"moderate", "finish"} PROVE Heeded'
  BY <1>4 DEF Heeded
<1>5. Met
  BY DEF Heard
<1> SUFFICES ASSUME Next, phase' # "ended" PROVE Heard'
  BY <1>1, <1>2
<1>6. CASE Start \/ Prefilter \/ StopWhileAsking \/ Finish
  <2>1. Start \/ Prefilter
    BY <1>6 DEF StopWhileAsking, CancelScheduled, Finish, Close
  <2>2. phase # "ended" /\ phase' \notin {"moderate", "finish"}
    BY <2>1 DEF Start, Prefilter
  <2> QED
    BY <1>3, <1>4, <1>5, <2>1, <2>2, BeforeListens
<1>7. CASE \/ PeerSpeaks \/ MentionSpeaks \/ AskModerator \/ NextInOrder \/ Conclude
           \/ ModeratorSkipped \/ DecisionFinishes \/ DecisionPicks
           \/ ModeratorAnswers \/ ModeratorMissing
  <2>1. phase # "ended"
    BY <1>7, ChoicePhase
  <2>2. Listens
    BY <1>5, <1>7, ChoiceListens
  <2> QED
    BY <1>3, <1>7, <2>1, <2>2, ChoiceHeeds
<1>8. CASE StartDispatch
  <2>1. phase # "ended" /\ phase' \notin {"moderate", "finish"}
    BY <1>8 DEF StartDispatch, FailPersistence
  <2> QED
    BY <1>3, <1>4, <1>5, <1>8, <2>1, StartListens
<1>9. CASE Speak \/ AskUser \/ StaySilent \/ ExecutionFails \/ ExecutionStops
  <2>1. phase = "run" /\ phase' = "run"
    BY <1>9 DEF Speak, AskUser, Reply, StaySilent, ExecutionFails, ExecutionStops, Executed,
                Executing, stage
  <2> QED
    BY <1>3, <1>4, <1>5, <1>9, <2>1, DuringListens
<1>10. ASSUME NEW a \in Members, NEW action \in {"call", "handoff"}, Delegate(a, action)
       PROVE  Heard'
  <2>1. phase = "run" /\ phase' \notin {"moderate", "finish"}
    BY <1>10, Delegating DEF FailPersistence
  <2> QED
    BY <1>3, <1>4, <1>5, <1>10, <2>1, DelegationListens
<1>11. CASE HelperStopped \/ HelperFailed \/ HelperLost \/ CallAnswered \/ HandoffEnds
  <2>1. phase = "run" /\ phase' = "run"
    BY <1>11 DEF HelperStopped, HelperFailed, HelperLost, CallAnswered, HandoffEnds, Returning,
                 stage
  <2> QED
    BY <1>3, <1>4, <1>5, <1>11, <2>1, HelperListens
<1>12. CASE \/ SpeakerStopped \/ SpeakerLost \/ SpeakerFailed \/ SpeakerAsked
            \/ SpeakerSilent \/ SpeakerSpoke \/ ReplyIsQuestion
  <2>1. SpeakerFailed \/ SpeakerSilent \/ SpeakerSpoke
    BY <1>12 DEF SpeakerStopped, SpeakerLost, SpeakerAsked, ReplyIsQuestion, CancelScheduled,
                 FailPersistence, Close
  <2>2. phase = "run" /\ phase' = "choose"
    BY <2>1 DEF SpeakerFailed, SpeakerSilent, SpeakerSpoke, Returned, Proceed, Close,
                FailPersistence
  <2> QED
    BY <1>3, <1>4, <1>5, <2>1, <2>2, SpeakerListens
<1>13. CASE CancelTurn \/ Signal \/ MemberLeaves
  <2>1. phase # "ended" /\ UNCHANGED <<phase, verdict, budget>>
    BY <1>13 DEF CancelTurn, Signal, MemberLeaves, stage
  <2>2. Listens
    BY <1>5, <1>13, AroundListens
  <2> QED
    BY <1>3, <2>1, <2>2, HeedingAsBefore
<1> QED
  BY <1>6, <1>7, <1>8, <1>9, <1>10, <1>11, <1>12, <1>13 DEF Next, Scheduling, Replying

\* A turn that is over stays as it is.
LEMMA OverIsOver == ASSUME Next, phase = "ended" PROVE FALSE
<1>1. CASE Start \/ Prefilter \/ StopWhileAsking \/ Finish \/ StartDispatch
  BY <1>1 DEF Start, Prefilter, StopWhileAsking, Finish, StartDispatch
<1>2. CASE \/ PeerSpeaks \/ MentionSpeaks \/ AskModerator \/ NextInOrder \/ Conclude
           \/ ModeratorSkipped \/ DecisionFinishes \/ DecisionPicks
           \/ ModeratorAnswers \/ ModeratorMissing
  BY <1>2, ChoicePhase
<1>3. CASE Replying
  BY <1>3 DEF Replying, Speak, AskUser, Reply, StaySilent, ExecutionFails, ExecutionStops, Executed,
              Executing, Delegate, HelperStopped, HelperFailed, HelperLost, CallAnswered,
              HandoffEnds, Returning, SpeakerStopped, SpeakerLost, SpeakerFailed, SpeakerAsked,
              SpeakerSilent, SpeakerSpoke, ReplyIsQuestion, Returned
<1>4. CASE CancelTurn \/ Signal \/ MemberLeaves
  BY <1>4 DEF CancelTurn, Signal, MemberLeaves
<1> QED
  BY <1>1, <1>2, <1>3, <1>4 DEF Next, Scheduling

\* Only the scheduler's own end makes a turn completed or silent.
LEMMA OnlyFinishCompletes ==
    ASSUME IInv, Next, ~Finish, phase # "ended" PROVE state' \notin {"completed", "silence"}
<1> USE DEF IInv
<1>1. state \notin {"completed", "silence"}
  BY DEF Staged
<1>2. /\ FailPersistence => state' \notin {"completed", "silence"}
      /\ CancelScheduled => state' \notin {"completed", "silence"}
  BY <1>1 DEF FailPersistence, CancelScheduled
<1>3. CASE Start \/ Prefilter \/ StopWhileAsking
  BY <1>1, <1>2, <1>3 DEF Start, Prefilter, StopWhileAsking
<1>4. CASE \/ PeerSpeaks \/ MentionSpeaks \/ AskModerator \/ NextInOrder \/ Conclude
           \/ ModeratorSkipped \/ DecisionFinishes \/ DecisionPicks
           \/ ModeratorAnswers \/ ModeratorMissing
  BY <1>1, <1>2, <1>4, NextSpeaker, Moderating DEF Chosen
<1>5. CASE StartDispatch
  BY <1>1, <1>2, <1>5, Starting
<1>6. ASSUME NEW a \in Members, NEW action \in {"call", "handoff"}, Delegate(a, action)
      PROVE  state' \notin {"completed", "silence"}
  BY <1>1, <1>2, <1>6, Delegating
<1>7. CASE \/ Speak \/ AskUser \/ StaySilent \/ ExecutionFails \/ ExecutionStops
           \/ HelperStopped \/ HelperFailed \/ HelperLost \/ CallAnswered \/ HandoffEnds
  BY <1>1, <1>7 DEF Speak, AskUser, Reply, StaySilent, ExecutionFails, ExecutionStops, Executed,
                    HelperStopped, HelperFailed, HelperLost, CallAnswered, HandoffEnds, Returning,
                    stage
<1>8. CASE \/ SpeakerStopped \/ SpeakerLost \/ SpeakerFailed \/ SpeakerAsked
           \/ SpeakerSilent \/ SpeakerSpoke \/ ReplyIsQuestion
  BY <1>1, <1>2, <1>8 DEF SpeakerStopped, SpeakerLost, SpeakerFailed, SpeakerAsked, SpeakerSilent,
                          SpeakerSpoke, ReplyIsQuestion, Close, Proceed
<1>9. CASE CancelTurn \/ Signal \/ MemberLeaves
  BY <1>1, <1>9 DEF CancelTurn, Signal, MemberLeaves, stage
<1> QED
  BY <1>3, <1>4, <1>5, <1>6, <1>7, <1>8, <1>9 DEF Next, Scheduling, Replying

\* What next_decision heeded is what the end of the turn reports.
LEMMA FinishingAnswers == ASSUME IInv, Heard, Finish PROVE MentionsAreAnswered'
<1>1. SUFFICES ASSUME state' \in {"completed", "silence"} PROVE MentionsAreAnswered'
  BY DEF MentionsAreAnswered
<1>2. phase = "finish" /\ UNCHANGED <<group, budget, dispatches, standing>>
  BY DEF Finish, work
<1>3. UNCHANGED <<MaxSteps, Named, Selected, Automatic>>
  BY <1>2, SameGroup
<1>4. \/ verdict = "silence"
      \/ verdict = "finished" /\ state' = "completed"
  BY <1>1, <1>2 DEF Finish, Close, IInv, Staged
<1>5. \/ Unheard = {}
      \/ Automatic /\ state' = "completed" /\ budget.steps >= MaxSteps
  BY <1>2, <1>4 DEF Heard, Heeded
<1>6. \A a \in Named \cap Selected :
        standing[a] = "active" =>
           \/ \E i \in DOMAIN dispatches : dispatches[i].agent = a
           \/ Automatic /\ state' = "completed" /\ budget.steps >= MaxSteps
  BY <1>5 DEF Unheard, HasRow
<1> QED
  BY <1>2, <1>3, <1>6 DEF MentionsAreAnswered

\* In every group a turn that ends in good order has dispatched whom the user
\* named, but for the moderator's last word in an automatic turn
\* (next_decision of group_scheduler/mod.rs, in whatever order mentions,
\* peers' requests, the filter and the moderator come).
THEOREM MentionsHeard == Spec => []MentionsAreAnswered
<1> DEFINE Answering == IInv /\ Bounded /\ Heard /\ MentionsAreAnswered
<1>1. Init => Answering
  <2>1. Init => MentionsAreAnswered
    BY DEF Init, MentionsAreAnswered
  <2> QED
    BY <2>1, InitKeepsInvariant, InitKeepsBounds, InitKeepsHeard
<1>2. ASSUME Answering, [Next]_vars PROVE Answering'
  <2>1. IInv' /\ Bounded' /\ Heard'
    BY <1>2, StepKeepsInvariant, StepKeepsBounds, StepKeepsHeard
  <2>2. MentionsAreAnswered'
    <3>1. CASE UNCHANGED vars
      <4>1. UNCHANGED <<group, state, budget, dispatches, standing>>
        BY <3>1 DEF vars, stage, work
      <4>2. UNCHANGED <<MaxSteps, Named, Selected, Automatic>>
        BY <4>1, SameGroup
      <4> QED
        BY <1>2, <4>1, <4>2 DEF MentionsAreAnswered
    <3>2. CASE Finish
      BY <1>2, <3>2, FinishingAnswers
    <3>3. CASE Next /\ ~Finish
      <4>1. state' \notin {"completed", "silence"}
        BY <1>2, <3>3, OverIsOver, OnlyFinishCompletes
      <4> QED
        BY <4>1 DEF MentionsAreAnswered
    <3> QED
      BY <1>2, <3>1, <3>2, <3>3
  <2> QED
    BY <2>1, <2>2
<1> QED
  BY <1>1, <1>2, PTL DEF Spec
-----------------------------------------------------------------------------
(* The promise                                                             *)

LEMMA PromisedInit == ASSUME Init PROVE Promise!Init
BY DEF Init, Promise!Init

LEMMA SeenIsPromised ==
    ASSUME Staged, said \in Seq(Members), Seen PROVE [Promise!Next]_(Promise!vars)
<1> USE DEF Promise!Terminal, Promise!Over
<1>1. CASE Quiet
  BY <1>1 DEF Quiet, Busy, Promise!vars
<1>2. CASE Says
  <2>1. Len(said') = Len(said) + 1
    BY <1>2 DEF Says
  <2> QED
    BY <1>2, <2>1 DEF Says, Promise!Next, Promise!Say
<1>3. CASE Ends
  <2>1. phase \in Busy /\ UNCHANGED <<signal, said>> /\ state \in {"running", "cancelled"}
    BY <1>3 DEF Ends, Busy, Staged
  <2>2. CASE Closes /\ state = "running"
    BY <2>1, <2>2 DEF Busy, Closes, Close, Promise!Next, Promise!Settle, Promise!Fail
  <2>3. CASE Closes /\ state = "cancelled"
    BY <2>1, <2>3 DEF Busy, Closes, Close, Promise!Next, Promise!Fail
  <2>4. CASE FailPersistence
    BY <2>1, <2>4 DEF Busy, FailPersistence, Final, Promise!Next, Promise!Fail
  <2>5. CASE signal /\ CancelScheduled
    BY <2>1, <2>5 DEF Busy, CancelScheduled, Final, Promise!Next, Promise!Stop
  <2> QED
    BY <1>3, <2>1, <2>2, <2>3, <2>4, <2>5 DEF Ends
<1>4. CASE Start
  BY <1>4 DEF Start, Staged, work, Promise!Next, Promise!Begin, Promise!Skip
<1>5. CASE CancelTurn
  BY <1>5 DEF CancelTurn, Final, Staged, Promise!Next, Promise!Cancel
<1>6. CASE Signal
  BY <1>6 DEF Signal, stage, work, Promise!Next, Promise!Signal
<1> QED
  BY <1>1, <1>2, <1>3, <1>4, <1>5, <1>6 DEF Seen, Around

LEMMA StepIsPromised == ASSUME IInv, [Next]_vars PROVE [Promise!Next]_(Promise!vars)
<1>1. Staged /\ said \in Seq(Members)
  BY DEF IInv, Rows
<1>2. Seen => [Promise!Next]_(Promise!vars)
  BY <1>1, SeenIsPromised
<1>3. CASE Seen
  BY <1>2, <1>3
<1>4. CASE \/ PeerSpeaks \/ MentionSpeaks \/ AskModerator \/ NextInOrder \/ Conclude
           \/ ModeratorSkipped \/ DecisionFinishes \/ DecisionPicks
           \/ ModeratorAnswers \/ ModeratorMissing
  <2>1. phase \in {"choose", "moderate"}
    BY <1>4, ChoicePhase
  <2>2. Chosen /\ Untouched
    BY <1>4, NextSpeaker, Moderating
  <2>3. Seen
    BY <2>1, <2>2 DEF Chosen, Untouched, Seen, Quiet, Ends, Busy
  <2> QED
    BY <1>2, <2>3
<1>5. ASSUME NEW a \in Members, NEW action \in {"call", "handoff"}, Delegate(a, action)
      PROVE  [Promise!Next]_(Promise!vars)
  <2>1. Seen
    BY <1>5, Delegating DEF Seen, Quiet, Ends, Busy
  <2> QED
    BY <1>2, <2>1
<1>6. CASE StartDispatch
  <2>1. phase = "start"
    BY <1>6 DEF StartDispatch
  <2>2. Seen
    BY <1>6, <2>1, Starting DEF Seen, Quiet, Ends, Busy
  <2> QED
    BY <1>2, <2>2
<1>7. CASE UNCHANGED vars
  <2>1. Seen
    BY <1>7 DEF vars, stage, work, Seen, Quiet
  <2> QED
    BY <1>2, <2>1
<1> QED
  BY <1>3, <1>4, <1>5, <1>6, <1>7, BeforeTheRun, DuringTheRun, HelperReturning,
     SpeakerReturning, AroundTheTurn DEF Next, Scheduling, Replying

\* The scheduler, its delegations and its cancellations are the turn that the
\* durable queue takes for granted, whatever the group: no reply after a
\* cancellation, no ending over another, no report that differs from the
\* status that was written.
THEOREM TurnKeepsPromise == Spec => KeepsTurnPromise
<1>1. Init => Promise!Init
  BY PromisedInit
<1>2. IInv /\ [Next]_vars => [Promise!Next]_(Promise!vars)
  BY StepIsPromised
<1> QED
  BY <1>1, <1>2, Invariance, PTL DEF Spec, KeepsTurnPromise, Promise!Spec
=============================================================================
