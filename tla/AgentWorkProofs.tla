--------------------------- MODULE AgentWorkProofs ---------------------------
(***************************************************************************)
(* Theorems about what an agent works with: its tool calls (ToolJournal),  *)
(* for any plans, number of calls, handlers, answers and crashes, without  *)
(* an assumption on a constant; and its context (Compaction), for any      *)
(* windows, sizes, limits and bounds.                                      *)
(*                                                                         *)
(* What a worker does rests on a copy of the journal it read earlier.  The *)
(* argument is that the copy of a worker at its tools is the journal       *)
(* itself, and that a copy which is not is in doubt about some call, so    *)
(* that the worker refuses to go on.                                       *)
(*                                                                         *)
(* A context is cut and put together in many ways.  The argument is that   *)
(* each of them keeps what can be seen from one message to the next: a     *)
(* call is followed by its results, a result follows its call (Paired).    *)
(***************************************************************************)
EXTENDS ToolJournal, Compaction, TLAPS, FiniteSetTheorems, WellFoundedInduction

\* TypeOK without the bounds, which nothing below depends on
AnAnswer == [say : Sayings, call : Nat, journal : Journals]
AWorker ==
    [pc : {"none", "claimed", "reserved", "journal", "refused", "tools", "running", "ask",
           "asking", "model", "asked", "ending", "parked"},
     turn : Nat, resume : BOOLEAN, token : {"none", "live", "signalled"},
     journal : Journals, say : Sayings, call : Nat, grant : BOOLEAN,
     batch : SUBSET Calls, ran : SUBSET Calls,
     out : {"none", "completed", "waiting_for_user", "cancelled", "failed"}]

Typed ==
    /\ journal \in Journals
    /\ question \in [Calls -> {"none", "pending", "cancelled", "once", "thread", "decline"}]
    /\ remembered \in BOOLEAN /\ up \in BOOLEAN
    /\ effects \in [Calls -> Nat]
    /\ turn \in Nat
    /\ payload \in AnAnswer /\ prep \in [Handlers -> AnAnswer]
    /\ worker \in AWorker

\* A worker that has not ended its run
Busy == up /\ worker.pc \notin {"none", "ending", "parked"}

\* A worker that works keeps its thread from being continued or reopened.
Engaged ==
    /\ Busy => thread = IF worker.resume THEN "running" ELSE "active"
    /\ job = "queued" => thread = "running" /\ ~Busy
    /\ worker.resume => worker.pc \notin {"none", "parked"}
    /\ worker.pc \in {"ending", "parked"} => worker.out # "none"

\* A copy that is the journal, or is behind it and in doubt
Current(copy) ==
    copy = journal \/ (copy.ver < journal.ver /\ Uncertain(copy.calls) # {})

Early == {"claimed", "reserved", "journal"}
Late == {"tools", "running", "ask", "asking", "model", "asked"}

Copies ==
    /\ up /\ worker.pc \in Early => Current(worker.journal)
    /\ up /\ worker.pc \in Late => worker.journal = journal
    /\ job = "queued" => Current(payload.journal)

\* What is written down of the calls while a worker is at them
AtWork ==
    /\ worker.pc \in Late \ {"running"} => Uncertain(journal.calls) = {}
    /\ worker.pc \in {"model", "asked"} => Open(journal.calls) = {}
    /\ worker.pc \in Early \cup (Late \ {"running"}) => worker.ran = {}
    /\ worker.pc = "running" =>
         /\ Uncertain(journal.calls) = worker.batch
         /\ worker.ran \subseteq worker.batch
         /\ \A c \in worker.batch :
              /\ journal.calls[c] = "started"
              /\ c \notin worker.ran \/ Gated(c) => effects[c] = 0

Rounds ==
    /\ up => AtWork
    /\ \A c \in Calls :
         journal.calls[c] \in {"absent", "pending", "approval_required"} => effects[c] = 0

Answering(answer) ==
    answer.say \in {"once", "thread", "decline"} =>
        answer.call \in Calls /\ question[answer.call] = answer.say

Prepared ==
    \A h \in Handlers :
        /\ prep[h].say \in {"once", "thread", "decline"} => prep[h].call \in Calls
        /\ prep[h].say = "none" => prep[h] = NoAnswer

Allowed == \E c \in Calls : question[c] \in Approvals

\* What the user has said of the calls
Spoken ==
    /\ remembered \/ worker.grant => Allowed
    /\ Answering(payload) /\ Answering(worker)
    /\ Prepared
    /\ \A c \in Calls :
         /\ journal.calls[c] \in {"absent", "pending"} => question[c] = "none"
         /\ journal.calls[c] = "started" => question[c] \in {"none", "once", "thread"}
    /\ RefusalHolds

JournalInv == Typed /\ Engaged /\ Copies /\ Rounds /\ Spoken

-----------------------------------------------------------------------------
(* What a step of the worker may do                                        *)

\* The worker stays who it is: the turn, the answer and the grant it acts on.
SameWorker ==
    /\ worker' \in AWorker
    /\ worker'.resume = worker.resume /\ worker'.grant = worker.grant
    /\ worker'.say = worker.say /\ worker'.call = worker.call

\* Nobody but the worker does anything.
OthersKept ==
    /\ UNCHANGED <<kind, job, payload, prep, turn, up>>
    /\ remembered' \in BOOLEAN /\ (remembered' => remembered \/ Allowed)

\* The worker goes over to its end; at most it asks what the journal waits for.
Stops ==
    /\ SameWorker /\ OthersKept
    /\ worker'.pc = "ending" /\ worker'.out # "none"
    /\ UNCHANGED <<journal, effects>>
    /\ question' = question \/ question' = Questioned(journal.calls)

\* The worker writes the journal down, and goes on from what it wrote.
Writes(S, status, pc) ==
    /\ SameWorker /\ OthersKept
    /\ worker'.pc = pc /\ worker'.journal = journal'
    /\ journal' \in Journals /\ journal'.ver = journal.ver + 1
    /\ journal'.calls = Mark(journal.calls, S, status)
    /\ question' = Questioned(journal'.calls)
    /\ UNCHANGED <<effects, thread>>

\* The calls a write may concern
Permitted(S, status) ==
    \/ /\ status = "pending"
       /\ \A c \in Calls : journal.calls[c] \in {"absent", "settled"}
       /\ \A c \in S : journal.calls[c] = "absent"
    \/ /\ status = "started"
       /\ \A c \in S : /\ journal.calls[c] \in {"pending", "approval_required"}
                       /\ question[c] \in {"none", "once", "thread"}
    \/ /\ status = "approval_required"
       /\ \E c \in Calls : /\ S = {c} /\ journal.calls[c] = "started"
                           /\ effects[c] = 0
    \/ /\ status = "settled"
       /\ \E c \in Calls : S = {c} /\ journal.calls[c] = "started"
    \/ /\ status = "settled"
       /\ \A c \in S : journal.calls[c] \in {"pending", "approval_required"}
    \/ /\ status = "outcome_unknown"
       /\ S = Uncertain(journal.calls)

\* Questions are only asked of calls that wait for approval.
LEMMA QuestionsAsked ==
    ASSUME Typed, NEW calls
    PROVE  /\ Questioned(calls) \in
                [Calls -> {"none", "pending", "cancelled", "once", "thread", "decline"}]
           /\ \A c \in Calls :
                \/ Questioned(calls)[c] = question[c]
                \/ /\ calls[c] = "approval_required" /\ question[c] = "none"
                   /\ Questioned(calls)[c] = "pending"
  BY DEF Typed, Questioned, Asking

\* Answers are final, so what was allowed and what was answered stays so.
LEMMA AnswersStay ==
    ASSUME Typed,
           \A c \in Calls : question[c] \in {"once", "thread", "decline"} =>
                              question'[c] = question[c]
    PROVE  /\ Allowed => Allowed'
           /\ Answering(payload) /\ payload' = payload => Answering(payload)'
           /\ /\ Answering(worker)
              /\ worker'.say = worker.say /\ worker'.call = worker.call
              => Answering(worker)'
  BY DEF Allowed, Answering, Approvals

\* What an end leaves behind
LEMMA StopsKeep ==
    ASSUME JournalInv, Busy, Stops
    PROVE  JournalInv'
<1>1. /\ worker' \in AWorker /\ worker'.pc = "ending" /\ worker'.out # "none"
      /\ worker'.resume = worker.resume /\ worker'.grant = worker.grant
      /\ worker'.say = worker.say /\ worker'.call = worker.call
      /\ UNCHANGED <<journal, effects, kind, job, payload, prep, turn, up>>
      /\ remembered' \in BOOLEAN /\ (remembered' => remembered \/ Allowed)
      /\ question' = question \/ question' = Questioned(journal.calls)
  BY DEF Stops, SameWorker, OthersKept
<1>2. Typed
  BY DEF JournalInv
<1>3. /\ question' \in
           [Calls -> {"none", "pending", "cancelled", "once", "thread", "decline"}]
      /\ \A c \in Calls :
           \/ question'[c] = question[c]
           \/ /\ journal.calls[c] = "approval_required" /\ question[c] = "none"
              /\ question'[c] = "pending"
  BY <1>1, <1>2, QuestionsAsked DEF Typed
<1>4. Typed'
  BY <1>1, <1>2, <1>3 DEF Typed
<1>5. Engaged'
  BY <1>1 DEF JournalInv, Engaged, Busy
<1>6. Copies'
  BY <1>1 DEF JournalInv, Engaged, Copies, Current, Early, Late, Uncertain
<1>7. Rounds'
  BY <1>1 DEF JournalInv, Rounds, AtWork, Early, Late
<1>8. Spoken'
  <2>1. (Allowed => Allowed') /\ Answering(payload)' /\ Answering(worker)'
    BY <1>1, <1>2, <1>3, AnswersStay DEF JournalInv, Spoken
  <2>2. remembered' \/ worker'.grant => Allowed'
    BY <1>1, <2>1 DEF JournalInv, Spoken
  <2>3. \A c \in Calls :
          /\ journal'.calls[c] \in {"absent", "pending"} => question'[c] = "none"
          /\ journal'.calls[c] = "started" => question'[c] \in {"none", "once", "thread"}
    BY <1>1, <1>3 DEF JournalInv, Spoken
  <2>4. RefusalHolds'
    <3>1. ASSUME NEW c \in RanGated' PROVE question'[c] \notin {"pending", "decline", "cancelled"}
      BY <1>1, <1>3, <3>1 DEF JournalInv, Spoken, RefusalHolds, RanGated, Rounds
    <3>2. RanGated' # {} => Allowed'
      BY <1>1, <2>1 DEF JournalInv, Spoken, RefusalHolds, RanGated, Allowed
    <3> QED
      BY <3>1, <3>2 DEF RefusalHolds, Allowed
  <2> QED
    BY <1>1, <2>1, <2>2, <2>3, <2>4 DEF JournalInv, Spoken, Prepared
<1> QED
  BY <1>4, <1>5, <1>6, <1>7, <1>8 DEF JournalInv

\* What a call is after a write
LEMMA Written ==
    ASSUME Typed, NEW S \in SUBSET Calls, NEW status, NEW pc, Writes(S, status, pc),
           NEW c \in Calls
    PROVE  journal'.calls[c] = IF c \in S THEN status ELSE journal.calls[c]
  BY DEF Writes, Mark

\* A write a worker may make keeps the rest, if the worker is then at work as
\* its new place says.
LEMMA WritesKeep ==
    ASSUME JournalInv, Busy, NEW S \in SUBSET Calls, NEW status, NEW pc,
           Writes(S, status, pc), Permitted(S, status),
           pc \in Late \cup {"refused"}, AtWork'
    PROVE  JournalInv'
<1>1. /\ worker' \in AWorker /\ worker'.pc = pc /\ worker'.journal = journal'
      /\ worker'.resume = worker.resume /\ worker'.grant = worker.grant
      /\ worker'.say = worker.say /\ worker'.call = worker.call
      /\ UNCHANGED <<effects, thread, kind, job, payload, prep, turn, up>>
      /\ remembered' \in BOOLEAN /\ (remembered' => remembered \/ Allowed)
      /\ journal' \in Journals /\ journal'.ver = journal.ver + 1
      /\ question' = Questioned(journal'.calls)
  BY DEF Writes, SameWorker, OthersKept
<1>2. Typed
  BY DEF JournalInv
<1>3. /\ question' \in
           [Calls -> {"none", "pending", "cancelled", "once", "thread", "decline"}]
      /\ \A c \in Calls :
           \/ question'[c] = question[c]
           \/ /\ journal'.calls[c] = "approval_required" /\ question[c] = "none"
              /\ question'[c] = "pending"
  BY <1>1, <1>2, QuestionsAsked
<1>4. \A c \in Calls :
        journal'.calls[c] = IF c \in S THEN status ELSE journal.calls[c]
  BY <1>2, Written
<1>5. /\ status = "pending" => \A c \in S : journal.calls[c] = "absent"
      /\ status = "started" => \A c \in S : question[c] \in {"none", "once", "thread"}
      /\ status = "started" =>
           \A c \in S : journal.calls[c] \in {"pending", "approval_required"}
      /\ status = "approval_required" => \A c \in S : effects[c] = 0
      /\ status # "absent"
  BY DEF Permitted
<1>6. Typed'
  BY <1>1, <1>2, <1>3 DEF Typed
<1>7. Engaged'
  BY <1>1 DEF JournalInv, Engaged, Busy, Late
<1>8. Copies'
  BY <1>1 DEF JournalInv, Engaged, Copies, Busy, Early, Late
<1>9. Rounds'
  BY <1>1, <1>4, <1>5 DEF JournalInv, Rounds
<1>10. Spoken'
  <2>1. (Allowed => Allowed') /\ Answering(payload)' /\ Answering(worker)'
    BY <1>1, <1>2, <1>3, AnswersStay DEF JournalInv, Spoken
  <2>2. remembered' \/ worker'.grant => Allowed'
    BY <1>1, <2>1 DEF JournalInv, Spoken
  <2>3. ASSUME NEW c \in Calls
        PROVE  /\ journal'.calls[c] \in {"absent", "pending"} => question'[c] = "none"
               /\ journal'.calls[c] = "started" =>
                    question'[c] \in {"none", "once", "thread"}
    <3>1. /\ journal.calls[c] \in {"absent", "pending"} => question[c] = "none"
          /\ journal.calls[c] = "started" => question[c] \in {"none", "once", "thread"}
      BY DEF JournalInv, Spoken
    <3> QED
      BY <1>3, <1>4, <1>5, <3>1
  <2>4. RefusalHolds'
    <3>1. ASSUME NEW c \in RanGated'
          PROVE  question'[c] \notin {"pending", "decline", "cancelled"}
      <4>1. c \in Calls /\ effects[c] # 0 /\ effects'[c] # 0 /\ c \in RanGated
        BY <1>1, <1>2 DEF RanGated, Typed
      <4>2. journal'.calls[c] # "approval_required"
        BY <1>9, <4>1 DEF Rounds
      <4> QED
        BY <1>3, <4>1, <4>2 DEF JournalInv, Spoken, RefusalHolds
    <3>2. RanGated' # {} => Allowed'
      BY <1>1, <2>1 DEF JournalInv, Spoken, RefusalHolds, RanGated, Allowed
    <3> QED
      BY <3>1, <3>2 DEF RefusalHolds, Allowed
  <2> QED
    BY <1>1, <2>1, <2>2, <2>3, <2>4 DEF JournalInv, Spoken, Prepared
<1> QED
  BY <1>6, <1>7, <1>8, <1>9, <1>10 DEF JournalInv

\* Every write is one the promise allows.
LEMMA WritesPromised ==
    ASSUME JournalInv, NEW S \in SUBSET Calls, NEW status, NEW pc,
           Writes(S, status, pc), Permitted(S, status)
    PROVE  [Promise!Next]_(Promise!promise)
<1>1. /\ effects' = effects /\ journal \in Journals
      /\ journal'.calls = Mark(journal.calls, S, status)
  BY DEF Writes, JournalInv, Typed
<1>2. ASSUME NEW T \in SUBSET Calls, NEW from, \A c \in T : journal.calls[c] \in from,
             \A c \in S \ T : journal.calls[c] = status, T \subseteq S
      PROVE  Promise!Becomes(T, from, status)
  <2>1. Mark(journal.calls, S, status) =
          [c \in Calls |-> IF c \in T THEN status ELSE journal.calls[c]]
    BY <1>2 DEF Mark
  <2> QED
    BY <1>1, <1>2, <2>1 DEF Promise!Becomes
<1>3. CASE /\ status = "pending"
           /\ \A c \in Calls : journal.calls[c] \in {"absent", "settled"}
           /\ \A c \in S : journal.calls[c] = "absent"
  <2>1. Promise!Becomes(S, {"absent"}, "pending")
    BY <1>2, <1>3
  <2>2. Promise!Offer(S)
    BY <1>1, <1>3, <2>1 DEF Promise!Offer, Promise!Closed
  <2> QED
    BY <2>2 DEF Promise!Next
<1>4. CASE /\ status = "started"
           /\ \A c \in S : /\ journal.calls[c] \in {"pending", "approval_required"}
                           /\ question[c] \in {"none", "once", "thread"}
  <2>1. Promise!Becomes(S, {"pending", "approval_required"}, "started")
    BY <1>2, <1>4
  <2> QED
    BY <1>1, <2>1 DEF Promise!Next, Promise!Start
<1>5. CASE /\ status = "approval_required"
           /\ \E c \in Calls : /\ S = {c} /\ journal.calls[c] = "started"
                               /\ effects[c] = 0
  <2>1. PICK c \in Calls : S = {c} /\ journal.calls[c] = "started" /\ effects[c] = 0
    BY <1>5
  <2>2. Promise!Becomes({c}, {"started"}, "approval_required")
    BY <1>2, <1>5, <2>1
  <2> QED
    BY <1>1, <2>1, <2>2 DEF Promise!Next, Promise!AskFirst
<1>6. CASE /\ status = "settled"
           /\ \E c \in Calls : S = {c} /\ journal.calls[c] = "started"
  <2>1. PICK c \in Calls : S = {c} /\ journal.calls[c] = "started"
    BY <1>6
  <2>2. Promise!Becomes({c}, {"started"}, "settled")
    BY <1>2, <1>6, <2>1
  <2> QED
    BY <1>1, <2>2 DEF Promise!Next, Promise!Settle
<1>7. CASE /\ status = "settled"
           /\ \A c \in S : journal.calls[c] \in {"pending", "approval_required"}
  <2>1. Promise!Becomes(S, {"pending", "approval_required"}, "settled")
    BY <1>2, <1>7
  <2>2. \A c \in S : effects[c] = 0
    BY <1>7 DEF JournalInv, Rounds
  <2> QED
    BY <1>1, <2>1, <2>2 DEF Promise!Next, Promise!Refuse
<1>8. CASE status = "outcome_unknown" /\ S = Uncertain(journal.calls)
  <2> DEFINE T == {c \in Calls : journal.calls[c] = "started"}
  <2>1. /\ T \in SUBSET Calls /\ T \subseteq S
        /\ \A c \in T : journal.calls[c] \in {"started"}
        /\ \A c \in S \ T : journal.calls[c] = status
    BY <1>8 DEF Uncertain
  <2> HIDE DEF T
  <2>2. Promise!Becomes(T, {"started"}, "outcome_unknown")
    BY <1>2, <1>8, <2>1
  <2> QED
    BY <1>1, <2>1, <2>2 DEF Promise!Next, Promise!Lose
<1> QED
  BY <1>3, <1>4, <1>5, <1>6, <1>7, <1>8 DEF Permitted

\* What Persist comes to: the write, or an end of the worker.
LEMMA PersistCases ==
    ASSUME JournalInv, Busy, NEW calls \in [Calls -> Statuses], NEW next \in AWorker,
           Persist(calls, next),
           next.resume = worker.resume, next.grant = worker.grant,
           next.say = worker.say, next.call = worker.call, OthersKept, effects' = effects
    PROVE  \/ Stops
           \/ /\ worker.journal.ver = journal.ver
              /\ worker' = [next EXCEPT !.journal = journal']
              /\ \A S, status : calls = Mark(journal.calls, S, status) =>
                                  Writes(S, status, next.pc)
<1>1. worker \in AWorker /\ journal \in Journals
  BY DEF JournalInv, Typed
<1>2. CASE Signalled \/ ~MayWrite
  <2>1. PICK out \in {"cancelled", "failed"} :
          worker' = [worker EXCEPT !.pc = "ending", !.out = out, !.batch = {}, !.ran = {}]
    BY <1>2 DEF Persist, Leave
  <2>2. SameWorker /\ worker'.pc = "ending" /\ worker'.out # "none"
    BY <1>1, <2>1 DEF SameWorker, AWorker
  <2> QED
    BY <1>2, <2>2 DEF Persist, Stops
<1>3. CASE ~(Signalled \/ ~MayWrite)
  <2>1. /\ journal' = [calls |-> calls, ver |-> journal.ver + 1]
        /\ question' = Questioned(calls)
        /\ worker' = [next EXCEPT !.journal = journal']
        /\ UNCHANGED thread
        /\ worker.journal.ver = journal.ver
    BY <1>3 DEF Persist, MayWrite
  <2>2. /\ journal' \in Journals /\ journal'.calls = calls
        /\ journal'.ver = journal.ver + 1
    BY <1>1, <2>1 DEF Journals
  <2>3. /\ SameWorker /\ worker'.pc = next.pc /\ worker'.journal = journal'
    BY <2>1, <2>2 DEF SameWorker, AWorker
  <2> QED
    BY <2>1, <2>2, <2>3 DEF Writes
<1> QED
  BY <1>2, <1>3

-----------------------------------------------------------------------------
(* The steps of a worker                                                   *)

\* The journal, and the promise on it, survive the step.
Sound == JournalInv' /\ [Promise!Next]_(Promise!promise)

LEMMA StopsSound ==
    ASSUME JournalInv, Busy, Stops
    PROVE  Sound
<1>1. UNCHANGED Promise!promise
  BY DEF Stops, Promise!promise
<1> QED
  BY <1>1, StopsKeep DEF Sound

\* A step that persists what it may: nothing is left to show but that the
\* worker is at work where it goes on.
LEMMA PersistSound ==
    ASSUME JournalInv, Busy, worker.pc # "refused",
           NEW S \in SUBSET Calls, NEW status \in Statuses, NEW next \in AWorker,
           Persist(Mark(worker.journal.calls, S, status), next),
           next.resume = worker.resume, next.grant = worker.grant,
           next.say = worker.say, next.call = worker.call, OthersKept, effects' = effects,
           worker.journal = journal => Permitted(S, status),
           next.pc \in Late \cup {"refused"},
           /\ worker.journal = journal /\ worker' = [next EXCEPT !.journal = journal']
           /\ Writes(S, status, next.pc)
           => AtWork'
    PROVE  Sound
<1>1. worker.journal \in Journals /\ worker.journal.calls \in [Calls -> Statuses]
  BY DEF JournalInv, Typed, AWorker, Journals
<1>2. Mark(worker.journal.calls, S, status) \in [Calls -> Statuses]
  BY <1>1 DEF Mark
<1>3. CASE Stops
  BY <1>3, StopsSound
<1>4. CASE /\ worker.journal.ver = journal.ver
           /\ worker' = [next EXCEPT !.journal = journal']
           /\ \A T, s : Mark(worker.journal.calls, S, status) = Mark(journal.calls, T, s)
                          => Writes(T, s, next.pc)
  <2>1. up /\ worker.pc \in Early \cup Late
    BY DEF Busy, JournalInv, Typed, AWorker, Early, Late
  <2>2. worker.journal = journal
    BY <1>1, <1>4, <2>1 DEF JournalInv, Copies, Current, Typed, Journals
  <2>3. Writes(S, status, next.pc)
    BY <1>4, <2>2
  <2>4. AtWork' /\ Permitted(S, status)
    BY <1>4, <2>2, <2>3
  <2> QED
    BY <2>3, <2>4, WritesKeep, WritesPromised DEF Sound
<1> QED
  BY <1>2, <1>3, <1>4, PersistCases

\* What every step of a worker may rely on
LEMMA WorkerFacts ==
    ASSUME JournalInv, NEW pc, At(pc), pc \notin {"none", "ending", "parked"}
    PROVE  /\ Busy /\ worker \in AWorker /\ worker.pc = pc /\ up
           /\ pc \in Late => worker.journal = journal
           /\ job # "queued"
  BY DEF JournalInv, Typed, At, Busy, Copies, Engaged

\* The place a worker is sent to
LEMMA Entered ==
    ASSUME NEW w \in AWorker, NEW pc \in {"refused", "tools", "asking", "asked"},
           NEW next, next = [w EXCEPT !.pc = pc]
    PROVE  /\ next \in AWorker /\ next.pc = pc
           /\ next.resume = w.resume /\ next.grant = w.grant
           /\ next.say = w.say /\ next.call = w.call
           /\ pc \in Late \cup {"refused"}
  BY DEF AWorker, Late

LEMMA RefuseSound == ASSUME JournalInv, Refuse PROVE Sound
<1> DEFINE S == Uncertain(worker.journal.calls)
<1>1. /\ At("journal") /\ UNCHANGED <<remembered, queue, clients, process, kind, effects>>
      /\ Persist(Mark(worker.journal.calls, S, "outcome_unknown"), Enter("refused"))
  BY DEF Refuse
<1>2. Busy /\ worker \in AWorker /\ worker.pc = "journal"
  BY <1>1, WorkerFacts
<1>3. OthersKept
  BY <1>1 DEF OthersKept, queue, clients, process, JournalInv, Typed
<1>4. S \in SUBSET Calls /\ (worker.journal = journal => Permitted(S, "outcome_unknown"))
  BY DEF Uncertain, Permitted
<1>5. Writes(S, "outcome_unknown", "refused") => AtWork'
  BY DEF Writes, AtWork, Early, Late
<1>6. "outcome_unknown" \in Statuses
  BY DEF Statuses
<1> DEFINE next == Enter("refused")
<1>7. /\ next \in AWorker /\ next.pc = "refused"
      /\ next.resume = worker.resume /\ next.grant = worker.grant
      /\ next.say = worker.say /\ next.call = worker.call
      /\ "refused" \in Late \cup {"refused"}
  BY <1>2, Entered DEF Enter
<1>8. Persist(Mark(worker.journal.calls, S, "outcome_unknown"), next) /\ effects' = effects
  BY <1>1
<1>9. worker.pc # "refused" /\ (Writes(S, "outcome_unknown", next.pc) => AtWork')
  BY <1>2, <1>5, <1>7
<1> HIDE DEF S, next
<1> QED
  BY <1>2, <1>3, <1>4, <1>6, <1>7, <1>8, <1>9, PersistSound

\* A write that closes calls which wait, and leaves the worker where no call is
\* under way
LEMMA CloseSound ==
    ASSUME JournalInv, Busy, worker.pc \notin {"refused", "running"},
           NEW S \in SUBSET Calls, NEW pc \in {"tools", "asking"},
           Persist(Mark(worker.journal.calls, S, "settled"), Enter(pc)),
           UNCHANGED <<remembered, queue, clients, process, kind, effects>>,
           \A c \in S : worker.journal.calls[c] \in {"pending", "approval_required"},
           worker.journal = journal => Uncertain(journal.calls) = {}
    PROVE  Sound
<1>1. worker \in AWorker /\ journal \in Journals
  BY DEF JournalInv, Typed
<1>2. OthersKept
  BY DEF OthersKept, queue, clients, process, JournalInv, Typed
<1>3. worker.journal = journal => Permitted(S, "settled")
  BY DEF Permitted
<1>4. ASSUME worker.journal = journal, worker' = [Enter(pc) EXCEPT !.journal = journal'],
             Writes(S, "settled", pc)
      PROVE  AtWork'
  <2>1. \A c \in Calls :
          journal'.calls[c] = IF c \in S THEN "settled" ELSE journal.calls[c]
    BY <1>4, Written DEF JournalInv
  <2>2. Uncertain(journal'.calls) = {}
    BY <1>4, <2>1 DEF Uncertain
  <2>3. worker.ran = {}
    BY DEF JournalInv, Rounds, AtWork, Busy, Typed, AWorker, Early, Late
  <2>4. worker'.ran = {}
    BY <1>1, <1>4, <2>3 DEF Enter, AWorker
  <2> QED
    BY <1>4, <2>2, <2>4 DEF AtWork, Writes
<1>5. "settled" \in Statuses
  BY DEF Statuses
<1> DEFINE next == Enter(pc)
<1>6. /\ next \in AWorker /\ next.pc = pc
      /\ next.resume = worker.resume /\ next.grant = worker.grant
      /\ next.say = worker.say /\ next.call = worker.call
      /\ pc \in Late \cup {"refused"}
  BY <1>1, Entered DEF Enter
<1>7. Persist(Mark(worker.journal.calls, S, "settled"), next) /\ effects' = effects
  OBVIOUS
<1>8. /\ worker.journal = journal /\ worker' = [next EXCEPT !.journal = journal']
      /\ Writes(S, "settled", next.pc)
      => AtWork'
  BY <1>4, <1>6
<1> HIDE DEF next
<1> QED
  BY <1>2, <1>3, <1>5, <1>6, <1>7, <1>8, PersistSound

LEMMA SkipSound == ASSUME JournalInv, Skip PROVE Sound
<1>1. Busy /\ worker.pc \notin {"refused", "running"}
  BY WorkerFacts DEF Skip, Clear
<1>2. Asking(worker.journal.calls) \in SUBSET Calls
  BY DEF Asking
<1>3. /\ Uncertain(worker.journal.calls) = {}
      /\ UNCHANGED <<remembered, queue, clients, process, kind, effects>>
      /\ Persist(Mark(worker.journal.calls, Asking(worker.journal.calls), "settled"),
                 Enter("tools"))
  BY DEF Skip, Clear
<1>4. \A c \in Asking(worker.journal.calls) :
        worker.journal.calls[c] \in {"pending", "approval_required"}
  BY DEF Asking
<1> HIDE DEF Skip
<1> QED
  BY <1>1, <1>2, <1>3, <1>4, CloseSound

LEMMA ReplayDeclinedSound == ASSUME JournalInv, ReplayDeclined PROVE Sound
<1> DEFINE S == {worker.call}
<1>1. Busy /\ worker.pc \notin {"refused", "running"}
  BY WorkerFacts DEF ReplayDeclined, Answered, Clear
<1>2. /\ worker.call \in Calls
      /\ \A c \in S : worker.journal.calls[c] \in {"pending", "approval_required"}
  BY DEF ReplayDeclined, Answered, Asking
<1>3. /\ Uncertain(worker.journal.calls) = {}
      /\ UNCHANGED <<remembered, queue, clients, process, kind, effects>>
      /\ Persist(Mark(worker.journal.calls, S, "settled"), Enter("tools"))
  BY DEF ReplayDeclined, Answered, Clear
<1>4. S \in SUBSET Calls
  BY <1>2
<1> HIDE DEF S
<1> QED
  BY <1>1, <1>2, <1>3, <1>4, CloseSound

LEMMA CloseRoundSound == ASSUME JournalInv, CloseRound PROVE Sound
<1>1. Busy /\ worker.pc = "ask" /\ up /\ worker.journal = journal
  BY WorkerFacts DEF CloseRound, Late
<1>2. Uncertain(journal.calls) = {}
  BY <1>1 DEF JournalInv, Rounds, AtWork, Late
<1>3. Open(worker.journal.calls) \in SUBSET Calls
  BY DEF Open
<1>4. \A c \in Open(worker.journal.calls) :
        worker.journal.calls[c] \in {"pending", "approval_required"}
  BY DEF Open
<1>5. /\ UNCHANGED <<remembered, queue, clients, process, kind, effects>>
      /\ Persist(Mark(worker.journal.calls, Open(worker.journal.calls), "settled"),
                 Enter("asking"))
  BY DEF CloseRound
<1> QED
  BY <1>1, <1>2, <1>3, <1>4, <1>5, CloseSound

LEMMA ReplayApprovedSound == ASSUME JournalInv, ReplayApproved PROVE Sound
<1> DEFINE S == {worker.call}
           next == [worker EXCEPT !.pc = "running", !.batch = S]
<1>1. /\ Busy /\ worker \in AWorker /\ worker.pc = "journal"
      /\ Uncertain(worker.journal.calls) = {} /\ worker.call \in Calls
      /\ worker.journal.calls[worker.call] = "approval_required"
      /\ worker.say \in Approvals /\ question[worker.call] = worker.say
  BY WorkerFacts DEF ReplayApproved, Answered, Clear, Asking
<1>2. /\ remembered' = (remembered \/ worker.say = "thread")
      /\ UNCHANGED <<queue, clients, process, kind, effects>>
      /\ Persist(Mark(worker.journal.calls, S, "started"), next)
  BY DEF ReplayApproved
<1>3. OthersKept
  <2>1. Allowed
    BY <1>1 DEF Allowed
  <2> QED
    BY <1>2, <2>1 DEF OthersKept, queue, clients, process, JournalInv, Typed
<1>4. /\ next \in AWorker /\ next.pc = "running" /\ next.batch = S /\ next.ran = worker.ran
      /\ next.resume = worker.resume /\ next.grant = worker.grant
      /\ next.say = worker.say /\ next.call = worker.call
      /\ "running" \in Late \cup {"refused"}
  BY <1>1 DEF AWorker, Late
<1>5. worker.journal = journal => Permitted(S, "started")
  BY <1>1 DEF Permitted, Approvals
<1>6. ASSUME worker.journal = journal, worker' = [next EXCEPT !.journal = journal'],
             Writes(S, "started", "running")
      PROVE  AtWork'
  <2>1. \A c \in Calls :
          journal'.calls[c] = IF c \in S THEN "started" ELSE journal.calls[c]
    BY <1>1, <1>6, Written DEF JournalInv
  <2>2. Uncertain(journal'.calls) = S
    BY <1>1, <1>6, <2>1 DEF Uncertain
  <2>3. worker'.batch = S /\ worker'.ran = {} /\ worker'.pc = "running"
    <3>1. worker.ran = {}
      BY <1>1 DEF JournalInv, Rounds, AtWork, Busy, Early
    <3> QED
      BY <1>4, <1>6, <3>1 DEF AWorker
  <2>4. effects' = effects /\ effects[worker.call] = 0
    BY <1>1, <1>2, <1>6 DEF JournalInv, Rounds
  <2> QED
    BY <1>1, <2>1, <2>2, <2>3, <2>4 DEF AtWork, Late, Early
<1>7. "started" \in Statuses /\ S \in SUBSET Calls /\ worker.pc # "refused"
  BY <1>1 DEF Statuses
<1>8. /\ worker.journal = journal /\ worker' = [next EXCEPT !.journal = journal']
      /\ Writes(S, "started", next.pc)
      => AtWork'
  BY <1>4, <1>6
<1>9. effects' = effects
  BY <1>2
<1> HIDE DEF S, next
<1> QED
  BY <1>1, <1>2, <1>3, <1>4, <1>5, <1>7, <1>8, <1>9, PersistSound

LEMMA StartBatchSound == ASSUME JournalInv, StartBatch PROVE Sound
<1> DEFINE S == Batch(worker.journal.calls)
           next == [worker EXCEPT !.pc = "running", !.batch = S]
<1>1. /\ Busy /\ worker \in AWorker /\ worker.pc = "tools" /\ worker.journal = journal /\ up
  BY WorkerFacts DEF StartBatch, Late
<1>2. /\ UNCHANGED <<remembered, queue, clients, process, kind, effects>>
      /\ Persist(Mark(worker.journal.calls, S, "started"), next)
      /\ S \cap Asking(worker.journal.calls) = {}
  BY DEF StartBatch
<1>3. OthersKept
  BY <1>2 DEF OthersKept, queue, clients, process, JournalInv, Typed
<1>4. S \in SUBSET Calls /\ \A c \in S : journal.calls[c] = "pending"
  BY <1>1, <1>2 DEF Batch, Open, Asking
<1>5. /\ next \in AWorker /\ next.pc = "running" /\ next.batch = S /\ next.ran = worker.ran
      /\ next.resume = worker.resume /\ next.grant = worker.grant
      /\ next.say = worker.say /\ next.call = worker.call
      /\ "running" \in Late \cup {"refused"}
  <2> HIDE DEF S
  <2> QED
    BY <1>1, <1>4 DEF AWorker, Late
<1>6. Permitted(S, "started")
  <2>1. \A c \in S : question[c] = "none"
    BY <1>4 DEF JournalInv, Spoken
  <2> QED
    BY <1>4, <2>1 DEF Permitted
<1> HIDE DEF S
<1>7. ASSUME worker' = [next EXCEPT !.journal = journal'], Writes(S, "started", "running")
      PROVE  AtWork'
  <2>1. \A c \in Calls :
          journal'.calls[c] = IF c \in S THEN "started" ELSE journal.calls[c]
    BY <1>4, <1>7, Written DEF JournalInv
  <2>2. Uncertain(journal.calls) = {} /\ worker.ran = {}
    BY <1>1 DEF JournalInv, Rounds, AtWork, Busy, Late
  <2>3. Uncertain(journal'.calls) = S
    BY <1>4, <2>1, <2>2 DEF Uncertain
  <2>4. worker'.batch = S /\ worker'.ran = {} /\ worker'.pc = "running"
    BY <1>5, <1>7, <2>2 DEF AWorker
  <2>5. effects' = effects /\ \A c \in S : effects[c] = 0
    BY <1>2, <1>4 DEF JournalInv, Rounds
  <2> QED
    BY <1>4, <2>1, <2>3, <2>4, <2>5 DEF AtWork, Late, Early
<1>8. "started" \in Statuses /\ worker.pc # "refused" /\ effects' = effects
  BY <1>1, <1>2 DEF Statuses
<1>9. /\ worker.journal = journal /\ worker' = [next EXCEPT !.journal = journal']
      /\ Writes(S, "started", next.pc)
      => AtWork'
  BY <1>5, <1>7
<1> HIDE DEF next
<1> QED
  BY <1>1, <1>2, <1>3, <1>4, <1>5, <1>6, <1>8, <1>9, PersistSound

LEMMA RecordSound == ASSUME JournalInv, NEW c \in Calls, Record(c) PROVE Sound
<1> DEFINE rest == worker.batch \ {c}
           S == {c}
           status == IF Gated(c) THEN "approval_required" ELSE "settled"
           pc == IF rest # {} THEN "running" ELSE IF kind[c] = "ask" THEN "ask" ELSE "tools"
           next == [worker EXCEPT !.batch = rest, !.ran = @ \ {c}, !.pc = pc]
<1>1. /\ Busy /\ worker \in AWorker /\ worker.pc = "running" /\ worker.journal = journal
      /\ up /\ c \in worker.ran
  BY WorkerFacts DEF Record, Late
<1>2. /\ UNCHANGED <<remembered, queue, clients, process, kind, effects>>
      /\ Persist(Mark(worker.journal.calls, S, status), next)
  BY DEF Record
<1>3. OthersKept
  BY <1>2 DEF OthersKept, queue, clients, process, JournalInv, Typed
<1>4. /\ Uncertain(journal.calls) = worker.batch /\ worker.ran \subseteq worker.batch
      /\ \A b \in worker.batch :
           /\ journal.calls[b] = "started"
           /\ b \notin worker.ran \/ Gated(b) => effects[b] = 0
  BY <1>1 DEF JournalInv, Rounds, AtWork
<1>5. c \in worker.batch /\ journal.calls[c] = "started" /\ (Gated(c) => effects[c] = 0)
  BY <1>1, <1>4
<1>6. Permitted(S, status) /\ status \in Statuses /\ status \in {"approval_required", "settled"}
  <2>1. CASE Gated(c)
    BY <1>5, <2>1 DEF Permitted, Statuses
  <2>2. CASE ~Gated(c)
    BY <1>5, <2>2 DEF Permitted, Statuses
  <2> QED
    BY <2>1, <2>2
<1>7. pc \in {"running", "ask", "tools"} /\ (pc = "running" <=> rest # {})
  OBVIOUS
<1> HIDE DEF status, pc
<1>8. /\ next \in AWorker /\ next.pc = pc /\ next.batch = rest /\ next.ran = worker.ran \ {c}
      /\ next.resume = worker.resume /\ next.grant = worker.grant
      /\ next.say = worker.say /\ next.call = worker.call
  <2>1. rest \in SUBSET Calls /\ worker.ran \ {c} \in SUBSET Calls
    BY <1>1 DEF AWorker
  <2> HIDE DEF rest
  <2> QED
    BY <1>1, <1>7, <2>1 DEF AWorker
<1>9. ASSUME worker' = [next EXCEPT !.journal = journal'], Writes(S, status, pc)
      PROVE  AtWork'
  <2>1. \A b \in Calls :
          journal'.calls[b] = IF b \in S THEN status ELSE journal.calls[b]
    BY <1>9, Written DEF JournalInv
  <2>2. Uncertain(journal'.calls) = rest
    BY <1>4, <1>6, <2>1 DEF Uncertain
  <2>3. worker'.batch = rest /\ worker'.ran = worker.ran \ {c} /\ worker'.pc = pc
    BY <1>8, <1>9 DEF AWorker
  <2>4. effects' = effects /\ kind' = kind /\ worker'.grant = worker.grant
    BY <1>2, <1>9 DEF Writes, SameWorker
  <2>5. rest = {} => worker.ran \ {c} = {}
    BY <1>4
  <2>6. worker.ran \ {c} \subseteq rest
    BY <1>4
  <2>7. ASSUME NEW b \in rest
        PROVE  /\ journal'.calls[b] = "started"
               /\ b \notin worker.ran \ {c} \/ Gated(b) => effects[b] = 0
    <3>1. b \in Calls /\ b \in worker.batch /\ b # c
      BY <1>1 DEF AWorker
    <3> QED
      BY <1>4, <2>1, <3>1
  <2>8. \A b : Gated(b)' <=> Gated(b)
    BY <2>4 DEF Gated
  <2> HIDE DEF rest
  <2> QED
    BY <1>7, <2>2, <2>3, <2>4, <2>5, <2>6, <2>7, <2>8 DEF AtWork, Late, Early
<1>10. pc \in Late \cup {"refused"} /\ worker.pc # "refused" /\ effects' = effects
  BY <1>1, <1>2, <1>7 DEF Late
<1>11. /\ worker.journal = journal /\ worker' = [next EXCEPT !.journal = journal']
       /\ Writes(S, status, next.pc)
       => AtWork'
  BY <1>8, <1>9
<1> HIDE DEF next
<1> QED
  BY <1>1, <1>2, <1>3, <1>6, <1>8, <1>10, <1>11, PersistSound

LEMMA RequestSound == ASSUME JournalInv, Request PROVE Sound
<1> DEFINE S == {}
           next == Enter("asked")
<1>1. Busy /\ worker \in AWorker /\ worker.pc = "model" /\ worker.journal = journal /\ up
  BY WorkerFacts DEF Request, Late
<1>2. /\ UNCHANGED <<remembered, queue, clients, process, kind, effects>>
      /\ Persist(worker.journal.calls, next)
  BY DEF Request
<1>3. OthersKept
  BY <1>2 DEF OthersKept, queue, clients, process, JournalInv, Typed
<1>4. Mark(worker.journal.calls, S, "settled") = worker.journal.calls
  BY <1>1 DEF Mark, AWorker, Journals
<1>5. /\ next \in AWorker /\ next.pc = "asked"
      /\ next.resume = worker.resume /\ next.grant = worker.grant
      /\ next.say = worker.say /\ next.call = worker.call
      /\ "asked" \in Late \cup {"refused"}
  BY <1>1, Entered DEF Enter
<1>6. Permitted(S, "settled") /\ "settled" \in Statuses
  BY DEF Permitted, Statuses
<1>7. ASSUME worker' = [next EXCEPT !.journal = journal'], Writes(S, "settled", "asked")
      PROVE  AtWork'
  <2>1. journal'.calls = journal.calls
    BY <1>1, <1>4, <1>7 DEF Writes
  <2>2. worker'.ran = {} /\ worker'.pc = "asked"
    <3>1. worker.ran = {}
      BY <1>1 DEF JournalInv, Rounds, AtWork, Busy, Late
    <3>2. next.ran = worker.ran
      BY <1>1 DEF Enter, AWorker
    <3> QED
      BY <1>5, <1>7, <3>1, <3>2 DEF AWorker
  <2>3. Uncertain(journal.calls) = {} /\ Open(journal.calls) = {}
    BY <1>1 DEF JournalInv, Rounds, AtWork, Late
  <2> QED
    BY <2>1, <2>2, <2>3 DEF AtWork
<1>8. S \in SUBSET Calls /\ worker.pc # "refused" /\ effects' = effects
  BY <1>1, <1>2
<1>9. /\ worker.journal = journal /\ worker' = [next EXCEPT !.journal = journal']
      /\ Writes(S, "settled", next.pc)
      => AtWork'
  BY <1>5, <1>7
<1>10. Persist(Mark(worker.journal.calls, S, "settled"), next)
  BY <1>2, <1>4
<1> HIDE DEF S, next
<1> QED
  BY <1>1, <1>3, <1>5, <1>6, <1>8, <1>9, <1>10, PersistSound

LEMMA RoundSound == ASSUME JournalInv, NEW n, Round(n) PROVE Sound
<1> DEFINE next == Enter("tools")
<1>1. Busy /\ worker \in AWorker /\ worker.pc = "asked" /\ worker.journal = journal /\ up
  BY WorkerFacts DEF Round, Late
<1>2. PICK S \in SUBSET Calls :
        /\ \A c \in S : c \notin Issued(worker.journal.calls)
        /\ Persist(Mark(worker.journal.calls, S, "pending"), next)
  BY DEF Round
<1>3. UNCHANGED <<remembered, queue, clients, process, kind, effects>>
  BY DEF Round
<1>4. OthersKept
  BY <1>3 DEF OthersKept, queue, clients, process, JournalInv, Typed
<1>5. /\ next \in AWorker /\ next.pc = "tools"
      /\ next.resume = worker.resume /\ next.grant = worker.grant
      /\ next.say = worker.say /\ next.call = worker.call
      /\ "tools" \in Late \cup {"refused"}
  BY <1>1, Entered DEF Enter
<1>6. Uncertain(journal.calls) = {} /\ Open(journal.calls) = {} /\ worker.ran = {}
  BY <1>1 DEF JournalInv, Rounds, AtWork, Late
<1>7. Permitted(S, "pending") /\ "pending" \in Statuses
  <2>1. \A c \in Calls : journal.calls[c] \in Statuses
    BY DEF JournalInv, Typed, Journals
  <2>2. \A c \in Calls : journal.calls[c] \in {"absent", "settled"}
    BY <1>6, <2>1 DEF Uncertain, Open, Statuses
  <2>3. \A c \in S : journal.calls[c] = "absent"
    BY <1>1, <1>2 DEF Issued
  <2> QED
    BY <2>2, <2>3 DEF Permitted, Statuses
<1>8. ASSUME worker' = [next EXCEPT !.journal = journal'], Writes(S, "pending", "tools")
      PROVE  AtWork'
  <2>1. \A c \in Calls :
          journal'.calls[c] = IF c \in S THEN "pending" ELSE journal.calls[c]
    BY <1>8, Written DEF JournalInv
  <2>2. Uncertain(journal'.calls) = {}
    BY <1>6, <2>1 DEF Uncertain
  <2>3. worker'.ran = {} /\ worker'.pc = "tools"
    <3>1. next.ran = worker.ran
      BY <1>1 DEF Enter, AWorker
    <3> QED
      BY <1>5, <1>6, <1>8, <3>1 DEF AWorker
  <2> QED
    BY <2>2, <2>3 DEF AtWork
<1>9. worker.pc # "refused" /\ effects' = effects
  BY <1>1, <1>3
<1>10. /\ worker.journal = journal /\ worker' = [next EXCEPT !.journal = journal']
       /\ Writes(S, "pending", next.pc)
       => AtWork'
  BY <1>5, <1>8
<1> HIDE DEF next
<1> QED
  BY <1>1, <1>2, <1>4, <1>5, <1>7, <1>9, <1>10, PersistSound

\* A call that runs was written down as started, has not run yet, and if it is
\* gated the user allowed it.
LEMMA ExecuteSound ==
    ASSUME JournalInv, NEW c \in Calls, NEW acts \in BOOLEAN, Execute(c, acts)
    PROVE  Sound
<1>1. /\ Busy /\ worker \in AWorker /\ worker.pc = "running" /\ worker.journal = journal
      /\ up /\ c \in worker.batch /\ c \notin worker.ran
  BY WorkerFacts DEF Execute, Late
<1>2. /\ UNCHANGED <<rows, thread, queue, clients, process, kind>>
      /\ effects' = IF acts THEN [effects EXCEPT ![c] = @ + 1] ELSE effects
      /\ worker' = [worker EXCEPT !.ran = @ \cup {c}]
      /\ acts => ~Gated(c)
  BY DEF Execute
<1>3. /\ UNCHANGED <<journal, question, remembered, job, payload, prep, turn, up, thread, kind>>
      /\ UNCHANGED <<row>>
  BY <1>2 DEF rows, queue, clients, process
<1>4. Uncertain(journal.calls) = worker.batch /\ worker.ran \subseteq worker.batch
  BY <1>1 DEF JournalInv, Rounds, AtWork
<1>5. /\ \A b \in worker.batch : journal.calls[b] = "started"
      /\ \A b \in worker.batch : b \notin worker.ran \/ Gated(b) => effects[b] = 0
  BY <1>1 DEF JournalInv, Rounds, AtWork
<1>6. effects \in [Calls -> Nat] /\ effects[c] = 0 /\ journal.calls[c] = "started"
  BY <1>1, <1>5 DEF JournalInv, Typed
<1>7. /\ effects' \in [Calls -> Nat]
      /\ \A b \in Calls : effects'[b] = IF acts /\ b = c THEN 1 ELSE effects[b]
  BY <1>2, <1>6
<1>8. /\ worker' \in AWorker /\ worker'.pc = "running" /\ worker'.batch = worker.batch
      /\ worker'.ran = worker.ran \cup {c} /\ worker'.journal = worker.journal
      /\ worker'.resume = worker.resume /\ worker'.grant = worker.grant
      /\ worker'.say = worker.say /\ worker'.call = worker.call
  <2>1. worker.ran \cup {c} \in SUBSET Calls
    BY <1>1 DEF AWorker
  <2> QED
    BY <1>1, <1>2, <2>1 DEF AWorker
<1>9. Typed'
  BY <1>3, <1>7, <1>8 DEF JournalInv, Typed
<1>10. Engaged' /\ Copies'
  BY <1>1, <1>3, <1>8 DEF JournalInv, Engaged, Copies, Busy, Current, Early, Late
<1>11. Rounds'
  <2>1. ASSUME NEW b \in worker.batch, b \notin worker'.ran \/ Gated(b)
        PROVE  effects'[b] = 0
    <3>1. b \in Calls /\ ~(acts /\ b = c)
      BY <1>1, <1>2, <1>8, <2>1 DEF AWorker
    <3> QED
      BY <1>5, <1>7, <1>8, <2>1, <3>1
  <2>2. \A b : Gated(b)' <=> Gated(b)
    BY <1>3, <1>8 DEF Gated
  <2>3. AtWork'
    BY <1>1, <1>3, <1>4, <1>5, <1>8, <2>1, <2>2 DEF AtWork, Late, Early
  <2> QED
    BY <1>3, <1>6, <1>7, <2>3 DEF JournalInv, Rounds
<1>12. Spoken'
  <2>1. (Allowed' <=> Allowed) /\ (Answering(payload)' <=> Answering(payload))
        /\ (Answering(worker)' <=> Answering(worker))
    BY <1>3, <1>8 DEF Allowed, Answering
  <2>2. ASSUME NEW b \in RanGated'
        PROVE  question[b] \notin {"pending", "decline", "cancelled"} /\ Allowed
    <3>1. b \in Calls /\ kind[b] = "gated" /\ effects'[b] > 0
      BY <1>3 DEF RanGated
    <3>2. CASE acts /\ b = c
      <4>1. worker.grant
        BY <1>2, <3>1, <3>2 DEF Gated
      <4>2. question[b] \in {"none", "once", "thread"} /\ Allowed
        BY <1>6, <3>1, <3>2, <4>1 DEF JournalInv, Spoken
      <4> QED
        BY <4>2
    <3>3. CASE ~(acts /\ b = c)
      BY <1>7, <3>1, <3>3 DEF JournalInv, Spoken, RefusalHolds, RanGated, Allowed
    <3> QED
      BY <3>2, <3>3
  <2>3. RefusalHolds'
    BY <1>3, <2>2 DEF RefusalHolds, Allowed
  <2> QED
    BY <1>3, <1>8, <2>1, <2>3 DEF JournalInv, Spoken, Prepared
<1>13. [Promise!Next]_(Promise!promise)
  <2>1. CASE acts
    <3>1. effects' = [effects EXCEPT ![c] = 1]
      BY <1>2, <1>6, <2>1
    <3>2. Promise!Run(c)
      BY <1>3, <1>6, <3>1 DEF Promise!Run
    <3> QED
      BY <3>2 DEF Promise!Next
  <2>2. CASE ~acts
    BY <1>2, <1>3, <2>2 DEF Promise!promise
  <2> QED
    BY <2>1, <2>2
<1> QED
  BY <1>9, <1>10, <1>11, <1>12, <1>13 DEF Sound, JournalInv

\* What the worker leaves without a write
LEMMA LeaveStops ==
    ASSUME JournalInv, Busy, NEW out \in {"cancelled", "failed"}, Leave(out),
           UNCHANGED <<journal, question, remembered, queue, clients, process, kind, effects>>
    PROVE  Sound
<1>1. worker \in AWorker
  BY DEF JournalInv, Typed
<1>2. worker' = [worker EXCEPT !.pc = "ending", !.out = out, !.batch = {}, !.ran = {}]
  BY DEF Leave
<1>3. SameWorker /\ worker'.pc = "ending" /\ worker'.out # "none"
  BY <1>1, <1>2 DEF SameWorker, AWorker
<1>4. OthersKept
  BY DEF OthersKept, queue, clients, process, JournalInv, Typed
<1> QED
  BY <1>3, <1>4, StopsSound DEF Stops

\* An end that may pause the row, with the journal as the worker knows it
LEMMA EndingStops ==
    ASSUME JournalInv, Busy, NEW out \in {"waiting_for_user", "completed", "failed"},
           Ending(out), Interrupt \/ UNCHANGED <<journal, question>>,
           worker.journal = journal,
           UNCHANGED <<remembered, queue, clients, process, kind, effects>>
    PROVE  Sound
<1>1. worker \in AWorker
  BY DEF JournalInv, Typed
<1>2. worker' = [worker EXCEPT !.pc = "ending", !.out = out]
  BY DEF Ending
<1>3. SameWorker /\ worker'.pc = "ending" /\ worker'.out # "none"
  BY <1>1, <1>2 DEF SameWorker, AWorker
<1>4. OthersKept
  BY DEF OthersKept, queue, clients, process, JournalInv, Typed
<1>5. /\ journal' = journal
      /\ question' = question \/ question' = Questioned(journal.calls)
  BY DEF Interrupt
<1> QED
  BY <1>3, <1>4, <1>5, StopsSound DEF Stops

LEMMA EndsSound ==
    ASSUME JournalInv, Refused \/ Abandon \/ Pause \/ WaitForUser \/ Finish \/ ProviderFails
    PROVE  Sound
<1>1. CASE Refused
  <2>1. Busy /\ UNCHANGED <<journal, question, remembered, queue, clients, process, kind, effects>>
    BY <1>1, WorkerFacts DEF Refused, rows
  <2> QED
    BY <1>1, <2>1, LeaveStops DEF Refused
<1>2. CASE Abandon
  <2>1. Busy /\ UNCHANGED <<journal, question, remembered, queue, clients, process, kind, effects>>
    BY <1>2, WorkerFacts DEF Abandon, rows
  <2> QED
    BY <1>2, <2>1, LeaveStops DEF Abandon
<1>3. CASE Pause
  <2>1. Busy /\ worker.journal = journal
    BY <1>3, WorkerFacts DEF Pause, Late
  <2> QED
    BY <1>3, <2>1, EndingStops DEF Pause
<1>4. CASE WaitForUser
  <2>1. Busy /\ worker.journal = journal
    BY <1>4, WorkerFacts DEF WaitForUser, Late
  <2>2. UNCHANGED <<remembered, queue, clients, process, kind, effects>>
    BY <1>4 DEF WaitForUser
  <2>3. \/ Interrupt /\ Ending("waiting_for_user")
        \/ Ending("waiting_for_user") /\ UNCHANGED <<journal, question>>
        \/ Leave("failed") /\ UNCHANGED <<journal, question>>
    BY <1>4 DEF WaitForUser
  <2> QED
    BY <2>1, <2>2, <2>3, EndingStops, LeaveStops
<1>5. CASE Finish
  <2>1. Busy /\ worker.journal = journal
    BY <1>5, WorkerFacts DEF Finish, Late
  <2>2. UNCHANGED <<journal, question, remembered, queue, clients, process, kind, effects>>
    BY <1>5 DEF Finish
  <2>3. Ending("completed") \/ Leave("failed")
    BY <1>5 DEF Finish
  <2> QED
    BY <2>1, <2>2, <2>3, EndingStops, LeaveStops
<1>6. CASE ProviderFails
  <2>1. Busy /\ worker.journal = journal
    BY <1>6, WorkerFacts DEF ProviderFails, Late
  <2> QED
    BY <1>6, <2>1, EndingStops DEF ProviderFails
<1> QED
  BY <1>1, <1>2, <1>3, <1>4, <1>5, <1>6

-----------------------------------------------------------------------------
(* Steps that leave the journal as it is                                   *)

\* Of the questions, only open ones change.
QuestionsKept ==
    \A c \in Calls :
        \/ question'[c] = question[c]
        \/ /\ question[c] = "pending"
           /\ question'[c] \in {"cancelled", "once", "thread", "decline"}

LEMMA QuietSound ==
    ASSUME JournalInv, UNCHANGED <<journal, effects, kind, remembered>>, QuestionsKept,
           Typed', Engaged', Copies', up' => AtWork',
           worker'.grant => worker.grant \/ Allowed,
           Answering(payload)', Answering(worker)', Prepared'
    PROVE  Sound
<1>1. Allowed => Allowed'
  BY DEF Allowed, Approvals, QuestionsKept
<1>2. \A c \in Calls :
        /\ journal'.calls[c] \in {"absent", "pending"} => question'[c] = "none"
        /\ journal'.calls[c] = "started" => question'[c] \in {"none", "once", "thread"}
  BY DEF JournalInv, Spoken, QuestionsKept
<1>3. RefusalHolds'
  <2>1. RanGated' = RanGated
    BY DEF RanGated
  <2>2. \A c \in RanGated : question'[c] \notin {"pending", "decline", "cancelled"}
    BY DEF JournalInv, Spoken, RefusalHolds, RanGated, QuestionsKept
  <2>3. RanGated # {} => Allowed'
    BY <1>1 DEF JournalInv, Spoken, RefusalHolds, Allowed
  <2> QED
    BY <2>1, <2>2, <2>3 DEF RefusalHolds, Allowed
<1>4. Spoken'
  BY <1>1, <1>2, <1>3 DEF JournalInv, Spoken
<1>5. Rounds'
  BY DEF JournalInv, Rounds
<1>6. UNCHANGED Promise!promise
  BY DEF Promise!promise
<1> QED
  BY <1>4, <1>5, <1>6 DEF JournalInv, Sound

\* A step of the worker alone
LEMMA MoveSound ==
    ASSUME JournalInv,
           UNCHANGED <<journal, question, remembered, effects, kind, payload, prep, turn, up>>,
           worker' \in AWorker, Engaged', Copies', up => AtWork',
           worker'.grant => worker.grant \/ Allowed,
           Answering(worker)'
    PROVE  Sound
<1>1. QuestionsKept
  BY DEF QuestionsKept
<1>2. Typed'
  BY DEF JournalInv, Typed
<1>3. Answering(payload)'
  BY DEF JournalInv, Spoken, Answering
<1>4. Prepared'
  BY DEF JournalInv, Spoken, Prepared
<1> QED
  BY <1>1, <1>2, <1>3, <1>4, QuietSound

LEMMA ClaimSound == ASSUME JournalInv, Claim PROVE Sound
<1>1. /\ job = "queued" /\ job' = "running" /\ up
      /\ UNCHANGED <<journal, question, remembered, effects, kind, payload, prep, turn, up, thread>>
  BY DEF Claim, rows, clients, process
<1>2. /\ payload \in AnAnswer /\ turn \in Nat
      /\ worker' = [NoWorker EXCEPT !.pc = "claimed", !.turn = turn, !.resume = TRUE,
                      !.journal = payload.journal, !.say = payload.say,
                      !.call = payload.call]
  BY DEF Claim, JournalInv, Typed
<1>3. /\ worker' \in AWorker /\ worker'.pc = "claimed" /\ worker'.resume = TRUE
      /\ worker'.journal = payload.journal /\ worker'.say = payload.say
      /\ worker'.call = payload.call /\ worker'.grant = FALSE /\ worker'.ran = {}
  BY <1>2 DEF NoWorker, AnAnswer, AWorker, Journals
<1>4. Engaged'
  BY <1>1, <1>3 DEF JournalInv, Engaged, Busy
<1>5. Copies'
  BY <1>1, <1>3 DEF JournalInv, Copies, Current, Early, Late
<1>6. AtWork'
  BY <1>3 DEF AtWork, Early, Late
<1>7. Answering(worker)'
  BY <1>1, <1>3 DEF JournalInv, Spoken, Answering
<1> QED
  BY <1>1, <1>3, <1>4, <1>5, <1>6, <1>7, MoveSound

\* The worker goes on to another place, or to its end; it may learn a signal or
\* the approvals it was built with.
LEMMA GoesOn ==
    ASSUME JournalInv, Busy, worker' \in AWorker,
           UNCHANGED <<journal, question, remembered, effects, kind, payload, prep, turn, up,
                       thread, job>>,
           worker'.journal = worker.journal, worker'.resume = worker.resume,
           worker'.say = worker.say, worker'.call = worker.call,
           worker'.ran = worker.ran, worker'.batch = worker.batch,
           worker'.grant => worker.grant \/ Allowed,
           \/ worker'.pc = worker.pc /\ worker'.grant = worker.grant
           \/ worker.pc \in Early /\ worker'.pc \in Early
           \/ worker'.pc = "ending" /\ worker'.out # "none"
           \/ /\ worker.pc \in Early /\ Uncertain(worker.journal.calls) = {}
              /\ worker'.pc = "tools"
           \/ /\ worker.pc = "tools" /\ Open(worker.journal.calls) = {}
              /\ worker'.pc = "model"
    PROVE  Sound
<1>1. Engaged'
  BY DEF JournalInv, Engaged, Busy, Early
<1>2. Copies'
  BY DEF JournalInv, Copies, Current, Early, Late, Engaged, Busy
<1>3. AtWork'
  <2>1. AtWork /\ (worker.pc \in Late => worker.journal = journal)
    BY DEF JournalInv, Rounds, Copies, Busy
  <2>2. CASE worker'.pc = worker.pc /\ worker'.grant = worker.grant
    <3>1. \A b : Gated(b)' <=> Gated(b)
      BY <2>2 DEF Gated
    <3> QED
      BY <2>1, <2>2, <3>1 DEF AtWork
  <2>3. CASE worker.pc \in Early /\ worker'.pc \in Early
    BY <2>1, <2>3 DEF AtWork, Early, Late
  <2>4. CASE worker'.pc = "ending"
    BY <2>4 DEF AtWork, Early, Late
  <2>5. CASE /\ worker.pc \in Early /\ Uncertain(worker.journal.calls) = {}
             /\ worker'.pc = "tools"
    <3>1. worker.journal = journal
      BY <2>5 DEF JournalInv, Copies, Current, Busy
    <3> QED
      BY <2>1, <2>5, <3>1 DEF AtWork, Early, Late
  <2>6. CASE /\ worker.pc = "tools" /\ Open(worker.journal.calls) = {}
             /\ worker'.pc = "model"
    BY <2>1, <2>6 DEF AtWork, Early, Late
  <2> QED
    BY <2>2, <2>3, <2>4, <2>5, <2>6
<1>4. Answering(worker)'
  BY DEF JournalInv, Spoken, Answering
<1> QED
  BY <1>1, <1>2, <1>3, <1>4, MoveSound

LEMMA PlaceSound ==
    ASSUME JournalInv, Start \/ Nothing \/ RoundDone
    PROVE  Sound
<1>1. /\ Busy /\ worker \in AWorker
      /\ UNCHANGED <<journal, question, remembered, effects, kind, payload, prep, turn, up,
                     thread, job>>
  BY WorkerFacts DEF Start, Nothing, Clear, RoundDone, rows, queue, clients, process
<1>2. CASE Start
  <2>1. worker.pc = "claimed" /\ \/ worker' = [worker EXCEPT !.pc = "reserved"]
                                 \/ worker' = [worker EXCEPT !.pc = "ending", !.out = "cancelled"]
    BY <1>2 DEF Start, At, Enter, Ending
  <2>2. /\ worker' \in AWorker /\ worker'.journal = worker.journal
        /\ worker'.resume = worker.resume /\ worker'.grant = worker.grant
        /\ worker'.say = worker.say /\ worker'.call = worker.call
        /\ worker'.ran = worker.ran /\ worker'.batch = worker.batch
        /\ \/ worker'.pc = "reserved"
           \/ worker'.pc = "ending" /\ worker'.out # "none"
    BY <1>1, <2>1 DEF AWorker
  <2> QED
    BY <1>1, <2>1, <2>2, GoesOn DEF Early
<1>3. CASE Nothing \/ RoundDone
  <2>1. PICK pc \in {"tools", "model"} :
          /\ worker' = [worker EXCEPT !.pc = pc]
          /\ \/ pc = "tools" /\ worker.pc = "journal" /\ Uncertain(worker.journal.calls) = {}
             \/ pc = "model" /\ worker.pc = "tools" /\ Open(worker.journal.calls) = {}
    BY <1>3 DEF Nothing, Clear, RoundDone, At, Enter
  <2>2. /\ worker' \in AWorker /\ worker'.journal = worker.journal
        /\ worker'.resume = worker.resume /\ worker'.grant = worker.grant
        /\ worker'.say = worker.say /\ worker'.call = worker.call
        /\ worker'.ran = worker.ran /\ worker'.batch = worker.batch
        /\ worker'.pc = pc
    BY <1>1, <2>1 DEF AWorker
  <2> QED
    BY <1>1, <2>1, <2>2, GoesOn DEF Early
<1> QED
  BY <1>2, <1>3

LEMMA RegisterSound == ASSUME JournalInv, Register PROVE Sound
<1>1. /\ Busy /\ worker \in AWorker /\ worker.pc = "reserved"
      /\ UNCHANGED <<journal, question, remembered, effects, kind, payload, prep, turn, up,
                     thread, job>>
  BY WorkerFacts DEF Register, rows, queue, clients, process
<1>2. worker' = [worker EXCEPT !.pc = "journal", !.token = "live", !.grant = Granted]
  BY DEF Register
<1>3. Granted \in BOOLEAN
  BY DEF Granted, JournalInv, Typed
<1>4. /\ worker' \in AWorker /\ worker'.journal = worker.journal
      /\ worker'.resume = worker.resume /\ worker'.grant = Granted
      /\ worker'.say = worker.say /\ worker'.call = worker.call
      /\ worker'.ran = worker.ran /\ worker'.batch = worker.batch
      /\ worker'.pc = "journal"
  BY <1>1, <1>2, <1>3 DEF AWorker
<1>5. Granted => Allowed
  BY DEF Granted, JournalInv, Spoken, Answering, Allowed, Approvals
<1> QED
  BY <1>1, <1>4, <1>5, GoesOn DEF Early

LEMMA JobEndsSound == ASSUME JournalInv, Park \/ EndJob PROVE Sound
<1>1. /\ worker \in AWorker /\ worker.pc \in {"ending", "parked"} /\ up
      /\ UNCHANGED <<journal, question, remembered, effects, kind, payload, prep, turn, up, thread>>
  BY DEF Park, EndJob, At, rows, clients, process, JournalInv, Typed
<1>2. CASE Park
  <2>1. worker' = [worker EXCEPT !.pc = "parked"] /\ job' = job /\ ~worker.resume
    BY <1>2 DEF Park, Enter
  <2>2. /\ worker' \in AWorker /\ worker'.pc = "parked" /\ worker'.resume = worker.resume
        /\ worker'.out = worker.out /\ worker'.grant = worker.grant
        /\ worker'.say = worker.say /\ worker'.call = worker.call
    BY <1>1, <2>1 DEF AWorker
  <2>3. Engaged'
    BY <1>1, <2>1, <2>2 DEF JournalInv, Engaged, Busy
  <2>4. Copies'
    BY <1>1, <2>1, <2>2 DEF JournalInv, Copies, Current, Early, Late
  <2>5. AtWork' /\ Answering(worker)'
    BY <1>1, <2>2 DEF AtWork, Early, Late, JournalInv, Spoken, Answering
  <2> QED
    BY <1>1, <2>2, <2>3, <2>4, <2>5, MoveSound
<1>3. CASE EndJob
  <2>1. worker' = NoWorker /\ (job' = worker.out \/ job' = job)
    BY <1>3 DEF EndJob
  <2>2. /\ worker' \in AWorker /\ worker'.pc = "none" /\ worker'.resume = FALSE
        /\ worker'.grant = FALSE /\ worker'.say = "none"
    <3>1. Blank \in Journals
      BY DEF Blank, Journals, Statuses
    <3> QED
      BY <2>1, <3>1 DEF NoWorker, AWorker, Sayings
  <2>3. job' = "queued" => job = "queued"
    BY <1>1, <2>1 DEF AWorker
  <2>4. Engaged'
    BY <1>1, <2>2, <2>3 DEF JournalInv, Engaged, Busy
  <2>5. Copies'
    BY <1>1, <2>2, <2>3 DEF JournalInv, Copies, Current, Early, Late
  <2>6. AtWork' /\ Answering(worker)'
    BY <2>2 DEF AtWork, Early, Late, Answering
  <2> QED
    BY <1>1, <2>2, <2>4, <2>5, <2>6, MoveSound
<1> QED
  BY <1>2, <1>3

-----------------------------------------------------------------------------
(* Clients, and the process                                                *)

\* The worker, if at work, is not disturbed by what the step changes.
LEMMA WorkKept ==
    ASSUME JournalInv, UNCHANGED <<journal, effects, kind, worker, up>>
    PROVE  up' => AtWork'
<1>1. \A b : Gated(b)' <=> Gated(b)
  BY DEF Gated
<1> QED
  BY <1>1 DEF JournalInv, Rounds, AtWork

\* A handler remembers the journal it read, and what the user says of a call.
LEMMA PrepareSound ==
    ASSUME JournalInv, NEW h \in Handlers, NEW say \in Sayings, NEW call \in 0..MaxCalls,
           (call = 0) = (say = "continue"), Prepare(h, say, call)
    PROVE  Sound
<1>1. /\ UNCHANGED <<journal, question, remembered, thread, turn, job, payload, up, kind,
                     effects, worker>>
      /\ prep' = [prep EXCEPT ![h] = [say |-> say, call |-> call, journal |-> journal]]
  BY DEF Prepare, rows, queue, process
<1>2. call \in Nat /\ (say # "continue" => call \in Calls)
  BY DEF Calls
<1>3. [say |-> say, call |-> call, journal |-> journal] \in AnAnswer
  BY <1>2 DEF AnAnswer, JournalInv, Typed
<1>4. /\ prep \in [Handlers -> AnAnswer]
      /\ \A g \in Handlers :
           prep'[g] = IF g = h THEN [say |-> say, call |-> call, journal |-> journal]
                      ELSE prep[g]
  BY <1>1 DEF JournalInv, Typed
<1>5. prep' \in [Handlers -> AnAnswer]
  BY <1>1, <1>3, <1>4
<1>6. Typed'
  BY <1>1, <1>5 DEF JournalInv, Typed
<1>7. Prepared'
  <2>1. say # "none"
    BY DEF Prepare
  <2> QED
    BY <1>2, <1>4, <2>1 DEF JournalInv, Spoken, Prepared
<1>8. Engaged' /\ Copies'
  BY <1>1 DEF JournalInv, Engaged, Busy, Copies, Current
<1>9. QuestionsKept /\ (up' => AtWork') /\ Answering(payload)' /\ Answering(worker)'
  BY <1>1, WorkKept DEF QuestionsKept, JournalInv, Spoken, Answering
<1> QED
  BY <1>1, <1>6, <1>7, <1>8, <1>9, QuietSound DEF JournalInv, Spoken

\* A continuation is accepted only while nobody works, and for the journal as
\* it stands.
LEMMA CommitSound == ASSUME JournalInv, NEW h \in Handlers, Commit(h) PROVE Sound
<1> DEFINE answer == prep[h]
           accepted == /\ row = "interrupted" /\ journal = answer.journal
                       /\ answer.say = "continue" \/ question[answer.call] = "pending"
                       /\ thread = "paused"
                       /\ turnStatus # "running"
<1>1. /\ UNCHANGED <<journal, remembered, up, kind, effects, worker>>
      /\ answer # NoAnswer /\ prep' = [prep EXCEPT ![h] = NoAnswer]
      /\ IF accepted
         THEN /\ question' = QuestionsAfter(answer)
              /\ thread' = "running" /\ (turn' = turn \/ turn' = turn + 1)
              /\ job' = "queued" /\ payload' = answer
         ELSE UNCHANGED <<question, thread, turn, turnStatus, job, payload>>
  BY DEF Commit, process
<1>2. /\ answer \in AnAnswer /\ NoAnswer \in AnAnswer
      /\ answer.say \in {"once", "thread", "decline"} => answer.call \in Calls
      /\ answer.say # "none"
  <2>1. Blank \in Journals
    BY DEF Blank, Journals, Statuses
  <2> QED
    BY <1>1, <2>1 DEF JournalInv, Typed, Spoken, Prepared, NoAnswer, AnAnswer, Sayings
<1>3. prep' \in [Handlers -> AnAnswer]
  BY <1>1, <1>2 DEF JournalInv, Typed
<1>4. Prepared'
  <2>1. \A g \in Handlers : prep'[g] = IF g = h THEN NoAnswer ELSE prep[g]
    BY <1>1 DEF JournalInv, Typed
  <2> QED
    BY <2>1 DEF NoAnswer, JournalInv, Spoken, Prepared
<1>5. ASSUME accepted PROVE Sound
  <2>1. ~Busy
    BY <1>5 DEF JournalInv, Engaged
  <2>2. \A c \in Calls :
          question'[c] = IF question[c] # "pending" THEN question[c]
                         ELSE IF answer.say = "continue" THEN "cancelled"
                         ELSE IF c = answer.call THEN answer.say ELSE question[c]
    BY <1>1, <1>5 DEF QuestionsAfter
  <2>3. answer.say \in {"continue", "once", "thread", "decline"}
    BY <1>2 DEF AnAnswer, Sayings
  <2>4. QuestionsKept
    BY <2>2, <2>3 DEF QuestionsKept
  <2>5. question' \in
          [Calls -> {"none", "pending", "cancelled", "once", "thread", "decline"}]
    <3>1. question' = [c \in Calls |-> question'[c]]
      BY <1>1, <1>5 DEF QuestionsAfter
    <3>2. \A c \in Calls : question'[c] \in
            {"none", "pending", "cancelled", "once", "thread", "decline"}
      BY <2>4 DEF QuestionsKept, JournalInv, Typed
    <3> QED
      BY <3>1, <3>2
  <2>6. Typed'
    BY <1>1, <1>2, <1>3, <1>5, <2>5 DEF JournalInv, Typed
  <2>7. Engaged'
    BY <1>1, <1>5, <2>1 DEF JournalInv, Engaged, Busy
  <2>8. Copies'
    BY <1>1, <1>5 DEF JournalInv, Copies, Current
  <2>9. Answering(payload)'
    <3>1. ASSUME answer.say \in {"once", "thread", "decline"}
          PROVE  answer.call \in Calls /\ question'[answer.call] = answer.say
      BY <1>2, <1>5, <2>2, <3>1
    <3>2. payload' = answer
      BY <1>1, <1>5
    <3> QED
      BY <3>1, <3>2 DEF Answering
  <2>10. Answering(worker)'
    BY <1>1, <2>4 DEF JournalInv, Spoken, Answering, QuestionsKept
  <2>11. up' => AtWork'
    BY <1>1, WorkKept
  <2> QED
    BY <1>1, <1>4, <2>4, <2>6, <2>7, <2>8, <2>9, <2>10, <2>11, QuietSound
    DEF JournalInv, Spoken
<1>6. CASE ~accepted
  <2>1. UNCHANGED <<question, thread, turn, job, payload>>
    BY <1>1, <1>6
  <2>2. Typed'
    BY <1>1, <1>3, <2>1 DEF JournalInv, Typed
  <2>3. Engaged' /\ Copies'
    BY <1>1, <2>1 DEF JournalInv, Engaged, Busy, Copies, Current
  <2>4. QuestionsKept /\ (up' => AtWork') /\ Answering(payload)' /\ Answering(worker)'
    BY <1>1, <2>1, WorkKept DEF QuestionsKept, JournalInv, Spoken, Answering
  <2> QED
    BY <1>1, <1>4, <2>2, <2>3, <2>4, QuietSound DEF JournalInv, Spoken
<1> QED
  BY <1>5, <1>6

LEMMA CancelSound == ASSUME JournalInv, CancelCommit \/ AcknowledgeStopped PROVE Sound
<1>1. /\ UNCHANGED <<journal, question, remembered, effects, kind, payload, prep, turn, up,
                     worker, thread>>
      /\ job' = job \/ job' = "cancelled"
  BY DEF CancelCommit, AcknowledgeStopped, rows, clients, process
<1>2. worker \in AWorker
  BY DEF JournalInv, Typed
<1>3. Engaged' /\ Copies'
  BY <1>1 DEF JournalInv, Engaged, Busy, Copies, Current
<1>4. Answering(worker)' /\ (up' => AtWork')
  BY <1>1, WorkKept DEF JournalInv, Spoken, Answering
<1> QED
  BY <1>1, <1>2, <1>3, <1>4, MoveSound DEF JournalInv, Spoken

LEMMA SignalSound == ASSUME JournalInv, CancelSignal \/ TimeLimit PROVE Sound
<1>1. /\ UNCHANGED <<journal, question, remembered, effects, kind, payload, prep, turn, up,
                     thread, job>>
      /\ worker' = worker \/ worker' = [worker EXCEPT !.token = "signalled"]
  BY DEF CancelSignal, TimeLimit, rows, queue, clients, process
<1>2. worker \in AWorker
  BY DEF JournalInv, Typed
<1>3. /\ worker' \in AWorker /\ worker'.journal = worker.journal /\ worker'.pc = worker.pc
      /\ worker'.resume = worker.resume /\ worker'.grant = worker.grant
      /\ worker'.say = worker.say /\ worker'.call = worker.call
      /\ worker'.ran = worker.ran /\ worker'.batch = worker.batch /\ worker'.out = worker.out
  BY <1>1, <1>2 DEF AWorker
<1>4. Engaged' /\ Copies'
  BY <1>1, <1>3 DEF JournalInv, Engaged, Busy, Copies, Current
<1>5. AtWork' <=> AtWork
  <2>1. \A b : Gated(b)' <=> Gated(b)
    BY <1>1, <1>3 DEF Gated
  <2> QED
    BY <1>1, <1>3, <2>1 DEF AtWork
<1>6. Answering(worker)'
  BY <1>1, <1>3 DEF JournalInv, Spoken, Answering
<1> QED
  BY <1>1, <1>3, <1>4, <1>5, <1>6, MoveSound DEF JournalInv, Spoken, Rounds

LEMMA NewMessageSound == ASSUME JournalInv, NewMessage PROVE Sound
<1>1. /\ UNCHANGED <<journal, remembered, effects, kind, payload, prep, turn, up, worker>>
      /\ thread = "paused" /\ thread' = "active" /\ (job' = job \/ job' = "completed")
      /\ \/ question' = question
         \/ question' = [c \in Calls |-> IF question[c] = "pending" THEN "cancelled"
                                         ELSE question[c]]
  BY DEF NewMessage, Reopenable, clients, process
<1>2. QuestionsKept
  BY <1>1 DEF QuestionsKept
<1>3. Typed'
  BY <1>1 DEF JournalInv, Typed
<1>4. Engaged' /\ Copies'
  BY <1>1 DEF JournalInv, Engaged, Busy, Copies, Current
<1>5. Answering(payload)' /\ Answering(worker)'
  BY <1>1, <1>2 DEF JournalInv, Spoken, Answering, QuestionsKept
<1>6. (up' => AtWork') /\ Prepared'
  BY <1>1, WorkKept DEF JournalInv, Spoken, Prepared
<1> QED
  BY <1>1, <1>2, <1>3, <1>4, <1>5, <1>6, QuietSound DEF JournalInv, Spoken

LEMMA CrashSound == ASSUME JournalInv, Crash PROVE Sound
<1>1. /\ UNCHANGED <<journal, question, remembered, effects, kind, payload, turn, worker,
                     thread, job>>
      /\ up' = FALSE /\ prep' = [h \in Handlers |-> NoAnswer]
  BY DEF Crash, rows, queue
<1>2. NoAnswer \in AnAnswer
  BY DEF Blank, Journals, Statuses, NoAnswer, AnAnswer, Sayings
<1>3. Typed'
  BY <1>1, <1>2 DEF JournalInv, Typed
<1>4. Engaged' /\ Copies'
  BY <1>1 DEF JournalInv, Engaged, Busy, Copies, Current
<1>5. Prepared'
  BY <1>1 DEF Prepared, NoAnswer
<1>6. QuestionsKept /\ Answering(payload)' /\ Answering(worker)'
  BY <1>1 DEF QuestionsKept, JournalInv, Spoken, Answering
<1> QED
  BY <1>1, <1>3, <1>4, <1>5, <1>6, QuietSound DEF JournalInv, Spoken

\* A start of the server puts in doubt what was started and not settled; whoever
\* read the journal before it is then behind it, and in doubt as well.
LEMMA RecoverSound == ASSUME JournalInv, Recover PROVE Sound
<1> DEFINE lost == {c \in Calls : journal.calls[c] = "started"}
           open == row \in {"interrupted", "running_checkpoint"}
<1>1. /\ UNCHANGED <<question, remembered, effects, kind, payload, prep, turn>>
      /\ ~up /\ up' = TRUE /\ worker' = NoWorker
      /\ journal' = IF open /\ lost # {}
                    THEN [calls |-> Mark(journal.calls, lost, "outcome_unknown"),
                          ver |-> journal.ver + 1]
                    ELSE journal
      /\ job' = "queued" => job = "queued"
      /\ thread' = thread \/ (thread = "running" /\ job # "queued")
  BY DEF Recover, RecoverJournal, clients
<1>2. /\ worker' \in AWorker /\ worker'.pc = "none" /\ worker'.resume = FALSE
      /\ worker'.grant = FALSE /\ worker'.say = "none"
  <2>1. Blank \in Journals
    BY DEF Blank, Journals, Statuses
  <2> QED
    BY <1>1, <2>1 DEF NoWorker, AWorker, Sayings
<1>3. /\ journal \in Journals /\ journal' \in Journals
      /\ \/ journal' = journal
         \/ journal'.ver = journal.ver + 1 /\ lost # {}
      /\ \A c \in Calls : \/ journal'.calls[c] = journal.calls[c]
                         \/ /\ c \in lost
                            /\ journal'.calls[c] = "outcome_unknown"
  <2>1. journal \in Journals /\ journal.calls \in [Calls -> Statuses]
    BY DEF JournalInv, Typed, Journals
  <2>2. /\ Mark(journal.calls, lost, "outcome_unknown") \in [Calls -> Statuses]
        /\ \A c \in Calls : Mark(journal.calls, lost, "outcome_unknown")[c] =
                              IF c \in lost THEN "outcome_unknown" ELSE journal.calls[c]
    BY <2>1 DEF Mark, Statuses
  <2> HIDE DEF lost, open
  <2> QED
    BY <1>1, <2>1, <2>2 DEF Journals
<1>4. Typed'
  BY <1>1, <1>2, <1>3 DEF JournalInv, Typed
<1>5. Engaged'
  BY <1>1, <1>2 DEF JournalInv, Engaged, Busy
<1>6. Copies'
  <2>1. ASSUME Current(payload.journal) PROVE Current(payload.journal)'
    <3>1. lost \subseteq Uncertain(journal.calls)
      BY DEF Uncertain
    <3>2. payload.journal \in Journals /\ payload' = payload
      BY <1>1 DEF JournalInv, Typed, AnAnswer
    <3>3. CASE journal' = journal
      BY <2>1, <3>2, <3>3 DEF Current
    <3>4. CASE journal'.ver = journal.ver + 1 /\ lost # {}
      <4>1. Uncertain(payload.journal.calls) # {}
        BY <2>1, <3>1, <3>4 DEF Current
      <4>2. payload.journal.ver < journal'.ver
        BY <1>3, <2>1, <3>2, <3>4 DEF Current, Journals
      <4> QED
        BY <3>2, <4>1, <4>2 DEF Current, Uncertain
    <3> QED
      BY <1>3, <3>3, <3>4
  <2> QED
    BY <1>1, <1>2, <2>1 DEF JournalInv, Copies, Early, Late
<1>7. Rounds'
  <2>1. AtWork'
    BY <1>2 DEF AtWork, Early, Late
  <2> QED
    BY <1>1, <1>3, <2>1 DEF JournalInv, Rounds
<1>8. Spoken'
  <2>1. (Allowed' <=> Allowed) /\ Answering(payload)' /\ Answering(worker)' /\ Prepared'
    BY <1>1, <1>2 DEF JournalInv, Spoken, Allowed, Answering, Prepared
  <2>2. RefusalHolds' /\ (remembered' \/ worker'.grant => Allowed')
    BY <1>1, <1>2, <2>1 DEF JournalInv, Spoken, RefusalHolds, RanGated
  <2> QED
    BY <1>1, <1>3, <2>1, <2>2 DEF JournalInv, Spoken
<1>9. [Promise!Next]_(Promise!promise)
  <2>1. CASE journal' = journal
    BY <1>1, <2>1 DEF Promise!promise
  <2>2. CASE journal' # journal
    <3>1. journal'.calls = [c \in Calls |-> IF c \in lost THEN "outcome_unknown"
                                            ELSE journal.calls[c]]
      BY <1>1, <2>2 DEF Mark
    <3>2. Promise!Becomes(lost, {"started"}, "outcome_unknown")
      BY <3>1 DEF Promise!Becomes
    <3>3. Promise!Lose(lost) /\ lost \in SUBSET Calls
      BY <1>1, <3>2 DEF Promise!Lose
    <3> QED
      BY <3>3 DEF Promise!Next
  <2> QED
    BY <2>1, <2>2
<1> QED
  BY <1>4, <1>5, <1>6, <1>7, <1>8, <1>9 DEF Sound, JournalInv
-----------------------------------------------------------------------------
(* The theorems *)

LEMMA JournalInit == Init => JournalInv /\ Promise!Init
<1> SUFFICES ASSUME Init PROVE JournalInv /\ Promise!Init
  OBVIOUS
<1>1. Blank \in Journals /\ Blank.calls = [c \in Calls |-> "absent"]
  BY DEF Blank, Journals, Statuses
<1>2. NoAnswer \in AnAnswer /\ NoAnswer.say = "none"
  BY <1>1 DEF NoAnswer, AnAnswer, Sayings
<1>3. /\ worker \in AWorker /\ worker.pc = "model" /\ worker.journal = Blank
      /\ worker.resume = FALSE /\ worker.grant = FALSE /\ worker.say = "none"
      /\ worker.ran = {} /\ worker.batch = {}
  BY <1>1 DEF Init, NoWorker, AWorker, Sayings
<1>4. Typed
  BY <1>1, <1>2, <1>3 DEF Init, Typed
<1>5. Engaged
  BY <1>3 DEF Init, Engaged, Busy
<1>6. Copies
  BY <1>3 DEF Init, Copies, Early, Late
<1>7. Rounds
  <2>1. Uncertain(journal.calls) = {} /\ Open(journal.calls) = {}
    BY <1>1 DEF Init, Uncertain, Open
  <2>2. AtWork
    BY <1>3, <2>1 DEF AtWork
  <2> QED
    BY <2>2 DEF Init, Rounds
<1>8. Spoken
  <2>1. Answering(payload) /\ Answering(worker) /\ Prepared
    BY <1>2, <1>3 DEF Init, Answering, Prepared
  <2>2. RanGated = {}
    BY DEF Init, RanGated
  <2> QED
    BY <1>1, <1>3, <2>1, <2>2 DEF Init, Spoken, RefusalHolds
<1>9. Promise!Init
  BY <1>1 DEF Init, Promise!Init
<1> QED
  BY <1>4, <1>5, <1>6, <1>7, <1>8, <1>9 DEF JournalInv

LEMMA IdleSound == ASSUME JournalInv, UNCHANGED vars PROVE Sound
<1>1. UNCHANGED <<row, journal, question, remembered, thread, job, payload, worker, prep, turn, up,
                  kind, effects>>
  BY DEF vars, rows, queue, clients, process
<1>2. Typed' /\ Engaged' /\ Copies'
  BY <1>1 DEF JournalInv, Typed, Engaged, Busy, Copies, Current
<1>3. (up' => AtWork') /\ Answering(payload)' /\ Answering(worker)' /\ Prepared'
  BY <1>1, WorkKept DEF JournalInv, Spoken, Answering, Prepared
<1>4. QuestionsKept
  BY <1>1 DEF QuestionsKept
<1> QED
  BY <1>1, <1>2, <1>3, <1>4, QuietSound DEF JournalInv, Spoken

\* Every step keeps the invariant, and is a step of the promise or a stutter.
LEMMA JournalStep == JournalInv /\ [Next]_vars => Sound
<1> SUFFICES ASSUME JournalInv, [Next]_vars PROVE Sound
  OBVIOUS
<1>1. CASE Continue
  BY <1>1, ClaimSound, PlaceSound, RegisterSound, RefuseSound, EndsSound, SkipSound,
     ReplayApprovedSound, ReplayDeclinedSound DEF Continue
<1>2. CASE Tools
  <2>1. CASE \E c \in Calls : Record(c) \/ Execute(c, TRUE) \/ Execute(c, FALSE)
    BY <2>1, RecordSound, ExecuteSound
  <2> QED
    BY <1>2, <2>1, StartBatchSound, EndsSound, CloseRoundSound, PlaceSound DEF Tools
<1>3. CASE Model
  BY <1>3, RequestSound, EndsSound, RoundSound DEF Model
<1>4. CASE Park \/ EndJob
  BY <1>4, JobEndsSound
<1>5. CASE Client
  <2>1. CASE \E h \in Handlers : Commit(h) \/ \E say \in Sayings, call \in 0..MaxCalls :
                (call = 0) = (say = "continue") /\ Prepare(h, say, call)
    BY <2>1, CommitSound, PrepareSound
  <2> QED
    BY <1>5, <2>1, CancelSound, SignalSound, NewMessageSound DEF Client
<1> QED
  BY <1>1, <1>2, <1>3, <1>4, <1>5, CrashSound, RecoverSound, IdleSound DEF Next, Worker

LEMMA AlwaysJournalInv == Spec => []JournalInv
<1>1. Init => JournalInv
  BY JournalInit
<1>2. JournalInv /\ [Next]_vars => JournalInv'
  BY JournalStep DEF Sound
<1> QED
  BY <1>1, <1>2, PTL DEF Spec

(* The user's word on a gated call holds, whatever handlers read before     *)
(* their transactions, however late the worker is, and across restarts: a   *)
(* call that was declined, skipped or not answered never runs.              *)
THEOREM UserWordHolds == Spec => []RefusalHolds
<1>1. JournalInv => RefusalHolds
  BY DEF JournalInv, Spoken
<1> QED
  BY <1>1, AlwaysJournalInv, PTL

(* A continuation at work is alone: its thread is marked running until it   *)
(* ends, so that no request continues or reopens it (accept_resume).        *)
THEOREM ContinuedOnce == Spec => []OneContinuation
<1>1. JournalInv => OneContinuation
  BY DEF JournalInv, Engaged, Busy, OneContinuation
<1> QED
  BY <1>1, AlwaysJournalInv, PTL

(* The journal of an execution implements ToolPromise: every call is        *)
(* written down before it may run, runs at most once, and is never tried    *)
(* again once its outcome is in doubt.                                      *)
THEOREM CallsKeepPromise == Spec => KeepsPromise
<1>1. Init => Promise!Init
  BY JournalInit
<1>2. JournalInv /\ [Next]_vars => [Promise!Next]_(Promise!promise)
  BY JournalStep DEF Sound
<1> QED
  BY <1>1, <1>2, AlwaysJournalInv, PTL DEF Spec, KeepsPromise, Promise!Spec

\* A dispatch whose turn is not running writes nothing.
LEMMA Fenced ==
    ASSUME turnStatus # "running", ~worker.resume, NEW calls, NEW next,
           Persist(calls, next) \/ Interrupt
    PROVE  UNCHANGED journal
  BY DEF Persist, Interrupt, MayWrite, OwnsDispatch

LEMMA StartsNothing ==
    ASSUME [Next]_vars, turnStatus = "cancelled", ~worker.resume
    PROVE  \A c \in Calls : journal'.calls[c] = "started" => journal.calls[c] = "started"
<1>1. CASE Recover
  BY <1>1 DEF Recover, RecoverJournal, Mark
<1>2. CASE Continue
  BY <1>2, Fenced DEF Continue, Claim, Start, Register, Refuse, Refused, Skip, Nothing,
     ReplayApproved, ReplayDeclined, rows
<1>3. CASE Tools
  <2>1. ASSUME NEW c \in Calls, Record(c) PROVE UNCHANGED journal
    BY <2>1, Fenced DEF Record
  <2>2. ASSUME NEW c \in Calls, Execute(c, TRUE) \/ Execute(c, FALSE) PROVE UNCHANGED journal
    BY <2>2 DEF Execute, rows
  <2>3. CASE StartBatch \/ CloseRound
    BY <2>3, Fenced DEF StartBatch, CloseRound
  <2>4. CASE Pause \/ WaitForUser
    BY <2>4, Fenced DEF Pause, WaitForUser
  <2>5. CASE RoundDone \/ Abandon
    BY <2>5 DEF RoundDone, Abandon, rows
  <2> QED
    BY <1>3, <2>1, <2>2, <2>3, <2>4, <2>5 DEF Tools
<1>4. CASE Model
  <2>1. ASSUME NEW n \in Calls, Round(n) PROVE UNCHANGED journal
    BY <2>1, Fenced DEF Round
  <2> QED
    BY <1>4, <2>1, Fenced DEF Model, Request, Finish, ProviderFails
<1>5. CASE Park \/ EndJob \/ Crash \/ UNCHANGED vars
  BY <1>5 DEF Park, EndJob, Crash, vars, rows
<1>6. CASE Client
  BY <1>6 DEF Client, Commit, Prepare, CancelCommit, CancelSignal, TimeLimit, NewMessage,
     AcknowledgeStopped, rows
<1> QED
  BY <1>1, <1>2, <1>3, <1>4, <1>5, <1>6 DEF Next, Worker

(* Once a cancellation is committed the turn's own dispatch starts no call, *)
(* though the signal may come late or be lost: checkpoint_native_execution  *)
(* writes for a running turn only.                                          *)
THEOREM CancelledStartsNothing == Spec => CancelledDispatchStartsNothing
<1>1. [Next]_vars =>
        [turnStatus = "cancelled" /\ ~worker.resume =>
           \A c \in Calls : journal'.calls[c] = "started" => journal.calls[c] = "started"]_vars
  BY StartsNothing
<1> QED
  BY <1>1, PTL DEF Spec, CancelledDispatchStartsNothing
-----------------------------------------------------------------------------
(***************************************************************************)
(* Numbers of a set                                                        *)
(***************************************************************************)

\* Greatest and Least of a bounded set that is not empty are in it, and bound it.
LEMMA GreatestIn ==
    ASSUME NEW N \in Nat, NEW S \in SUBSET (1..N), S # {}
    PROVE  Greatest(S) \in S /\ \A j \in S : j <= Greatest(S)
<1> DEFINE above == {n \in Nat : \A j \in S : j <= n}
<1>1. N \in above
    OBVIOUS
<1>2. PICK n \in above : \A m \in Nat : <<m, n>> \in OpToRel(<, Nat) => m \notin above
    BY <1>1, NatLessThanWellFounded, WFMin, Zenon
<1>3. \A m \in Nat : m < n => m \notin above
    BY <1>2 DEF OpToRel
<1>4. n \in S
    <2> SUFFICES ASSUME n \notin S PROVE FALSE
        OBVIOUS
    <2>1. n # 0
        <3>1. PICK j \in S : j <= n
            OBVIOUS
        <3> QED
            BY <3>1
    <2>2. n - 1 \in above
        BY <2>1
    <2> QED
        BY <1>3, <2>1, <2>2
<1>5. \E i \in S : \A j \in S : j <= i
    BY <1>4
<1> QED
    BY <1>5 DEF Greatest

LEMMA LeastIn ==
    ASSUME NEW N \in Nat, NEW S \in SUBSET (1..N), S # {}
    PROVE  Least(S) \in S
<1>0. S \subseteq Nat
    OBVIOUS
<1>1. PICK n \in S : \A m \in Nat : <<m, n>> \in OpToRel(<, Nat) => m \notin S
    BY <1>0, NatLessThanWellFounded, WFMin, Zenon
<1>2. \A m \in Nat : m < n => m \notin S
    BY <1>0, <1>1 DEF OpToRel
<1>3. \A j \in S : n <= j
    BY <1>0, <1>2
<1> QED
    BY <1>3 DEF Least

\* The rank of a number in a set counts up by one from number to number.
LEMMA RankIn ==
    ASSUME NEW N \in Nat, NEW S \in SUBSET (1..N)
    PROVE  /\ IsFiniteSet(S) /\ Cardinality(S) \in Nat
           /\ \A i \in S : Rank(S, i) \in 1..Cardinality(S)
           /\ \A i, j \in S : i < j => Rank(S, i) < Rank(S, j)
           /\ \A i \in S : i + 1 \in S => Rank(S, i + 1) = Rank(S, i) + 1
<1> DEFINE upto(i) == {j \in S : j <= i}
<1>0. \A i \in S : i \in Nat
    OBVIOUS
<1>1. IsFiniteSet(S) /\ Cardinality(S) \in Nat
    BY FS_Interval, FS_Subset, FS_CardinalityType, 1 \in Int, N \in Int
<1>2. \A i \in S : IsFiniteSet(upto(i)) /\ Cardinality(upto(i)) \in 1..Cardinality(S)
    <2> TAKE i \in S
    <2>1. upto(i) \in SUBSET S
        OBVIOUS
    <2>2. i \in upto(i)
        OBVIOUS
    <2>3. IsFiniteSet(upto(i)) /\ Cardinality(upto(i)) <= Cardinality(S)
        BY <1>1, <2>1, FS_Subset
    <2>4. Cardinality(upto(i)) \in Nat /\ Cardinality(upto(i)) # 0
        BY <2>2, <2>3, FS_CardinalityType, FS_EmptySet
    <2> QED
        BY <1>1, <2>3, <2>4
<1>3. ASSUME NEW i \in S, NEW j \in S, i < j
      PROVE  Cardinality(upto(i)) < Cardinality(upto(j))
    <2>1. upto(i) \in SUBSET upto(j) /\ upto(i) # upto(j)
        <3>1. j \in upto(j) /\ j \notin upto(i)
            BY <1>0, <1>3
        <3>2. \A k \in S : k <= i => k <= j
            BY <1>0, <1>3
        <3> QED
            BY <3>1, <3>2
    <2>2. Cardinality(upto(i)) <= Cardinality(upto(j)) /\ Cardinality(upto(i)) # Cardinality(upto(j))
        BY <1>2, <2>1, FS_Subset
    <2> QED
        BY <1>2, <2>2
<1>4. ASSUME NEW i \in S, i + 1 \in S
      PROVE  Cardinality(upto(i + 1)) = Cardinality(upto(i)) + 1
    <2>1. upto(i + 1) = upto(i) \cup {i + 1} /\ i + 1 \notin upto(i)
        <3>1. \A k \in S : k <= i + 1 <=> k <= i \/ k = i + 1
            BY <1>0
        <3>2. ~(i + 1 <= i)
            BY <1>0
        <3> QED
            BY <1>4, <3>1, <3>2
    <2> QED
        BY <1>2, <2>1, FS_AddElement
<1> QED
    BY <1>1, <1>2, <1>3, <1>4 DEF Rank

\* Every rank is that of one number.
LEMMA NthIn ==
    ASSUME NEW N \in Nat, NEW S \in SUBSET (1..N)
    PROVE  /\ \A n \in 1..Cardinality(S) : Nth(S, n) \in S /\ Rank(S, Nth(S, n)) = n
           /\ \A i \in S : Nth(S, Rank(S, i)) = i
<1> DEFINE K == Cardinality(S)
           rank == [i \in S |-> Rank(S, i)]
<1>1. /\ IsFiniteSet(S) /\ K \in Nat
      /\ \A i \in S : Rank(S, i) \in 1..K
      /\ \A i, j \in S : i < j => Rank(S, i) < Rank(S, j)
    BY RankIn
<1>2. \A i, j \in S : Rank(S, i) = Rank(S, j) => i = j
    BY <1>1
<1>3. ASSUME NEW n \in 1..K
      PROVE  \E i \in S : Rank(S, i) = n
    <2> SUFFICES ASSUME \A i \in S : Rank(S, i) # n PROVE FALSE
        OBVIOUS
    <2> DEFINE T == (1..K) \ {n}
    <2>1. IsFiniteSet(1..K) /\ Cardinality(1..K) = K
        BY <1>1, FS_Interval, 1 \in Int, K \in Int
    <2>2. IsFiniteSet(T) /\ Cardinality(T) = K - 1
        BY <1>1, <2>1, FS_RemoveElement
    <2>3. rank \in [S -> T]
        BY <1>1
    <2>4. Cardinality(T) < Cardinality(S)
        BY <1>1, <2>2
    <2> HIDE DEF T, rank
    <2>5. \E i, j \in S : i # j /\ rank[i] = rank[j]
        BY <1>1, <2>2, <2>3, <2>4, FS_PigeonHole, Zenon
    <2> QED
        BY <1>2, <2>5 DEF rank
<1>4. \A n \in 1..K : Nth(S, n) \in S /\ Rank(S, Nth(S, n)) = n
    BY <1>3 DEF Nth
<1>5. \A i \in S : Nth(S, Rank(S, i)) = i
    BY <1>1, <1>2, <1>4
<1> QED
    BY <1>4, <1>5
-----------------------------------------------------------------------------
(***************************************************************************)
(* Contexts                                                                *)
(***************************************************************************)

Messages ==
    {m \in [role : {"system", "user", "assistant", "tool"}, calls : 0..2, size : Nat,
            repeats : BOOLEAN, list : Int] :
        /\ m.calls > 0 => m.role = "assistant"
        /\ m.role = "user" => ~m.repeats
        /\ m.list # NoList => m.role \in {"user", "tool"}}
Contexts == Seq(Messages)

\* A call is followed by its results, and a result follows its call.
Followed(ms) ==
    \A i \in DOMAIN ms : \A k \in 1..ms[i].calls :
        i + k \in DOMAIN ms /\ ms[i + k].role = "tool"
Preceded(ms) ==
    \A i \in DOMAIN ms : ms[i].role = "tool" =>
        \/ i > 1 /\ ms[i - 1].calls > 0
        \/ i > 2 /\ ms[i - 2].calls = 2
Paired(ms) == Followed(ms) /\ Preceded(ms)

\* What is known of each message of a context.
LEMMA AContext ==
    ASSUME NEW ms \in Contexts
    PROVE  /\ Len(ms) \in Nat /\ DOMAIN ms = 1..Len(ms)
           /\ \A i \in 1..Len(ms) :
                 /\ ms[i] \in Messages
                 /\ ms[i].role \in {"system", "user", "assistant", "tool"}
                 /\ ms[i].calls \in 0..2 /\ ms[i].size \in Nat
                 /\ ms[i].repeats \in BOOLEAN /\ ms[i].list \in Int
                 /\ ms[i].calls > 0 => ms[i].role = "assistant"
                 /\ ms[i].role = "user" => ~ms[i].repeats
                 /\ ms[i].list # NoList => ms[i].role \in {"user", "tool"}
<1>1. Len(ms) \in Nat /\ DOMAIN ms = 1..Len(ms) /\ \A i \in 1..Len(ms) : ms[i] \in Messages
    BY DEF Contexts
<1> QED
    BY <1>1 DEF Messages

\* Evaluated leaves a context as it is.
LEMMA EvaluatedIs ==
    ASSUME NEW ms \in Contexts
    PROVE  Evaluated(ms) = ms
BY DEF Contexts, Evaluated

\* What is said one after the other.
LEMMA Joined ==
    ASSUME NEW a \in Contexts, NEW b \in Contexts
    PROVE  /\ a \o b \in Contexts /\ Len(a \o b) = Len(a) + Len(b)
           /\ \A i \in 1..Len(a) : (a \o b)[i] = a[i]
           /\ \A i \in 1..Len(b) : (a \o b)[Len(a) + i] = b[i]
           /\ \A i \in 1..(Len(a) + Len(b)) :
                 i \in 1..Len(a) \/ \E k \in 1..Len(b) : i = Len(a) + k
<1>1. Len(a) \in Nat /\ Len(b) \in Nat
    BY AContext
<1>2. \A i \in 1..(Len(a) + Len(b)) : i > Len(a) => i - Len(a) \in 1..Len(b)
    BY <1>1
<1>3. \A i \in 1..Len(b) : (a \o b)[Len(a) + i] = b[i]
    BY <1>1 DEF Contexts
<1> QED
    BY <1>1, <1>2, <1>3 DEF Contexts

\* Two contexts in pairs are in pairs together.
LEMMA JoinedPaired ==
    ASSUME NEW a \in Contexts, NEW b \in Contexts, Paired(a), Paired(b)
    PROVE  Paired(a \o b)
<1> DEFINE ab == a \o b
<1>1. /\ ab \in Contexts /\ Len(ab) = Len(a) + Len(b)
      /\ \A i \in 1..Len(a) : ab[i] = a[i]
      /\ \A i \in 1..Len(b) : ab[Len(a) + i] = b[i]
      /\ \A i \in 1..(Len(a) + Len(b)) :
            i \in 1..Len(a) \/ \E k \in 1..Len(b) : i = Len(a) + k
    BY Joined
<1> HIDE DEF ab
<1>2. /\ Len(a) \in Nat /\ DOMAIN a = 1..Len(a)
      /\ Len(b) \in Nat /\ DOMAIN b = 1..Len(b)
      /\ DOMAIN ab = 1..Len(ab)
      /\ \A i \in 1..Len(a) : a[i].calls \in 0..2
      /\ \A i \in 1..Len(b) : b[i].calls \in 0..2
    BY <1>1, AContext
<1>3. Followed(ab)
    <2> SUFFICES ASSUME NEW i \in 1..Len(ab), NEW k \in 1..ab[i].calls
                 PROVE  i + k \in 1..Len(ab) /\ ab[i + k].role = "tool"
        BY <1>2 DEF Followed
    <2>1. CASE i \in 1..Len(a)
        <3>1. i + k \in 1..Len(a) /\ a[i + k].role = "tool"
            BY <1>1, <1>2, <2>1 DEF Paired, Followed
        <3> QED
            BY <1>1, <1>2, <3>1
    <2>2. ASSUME NEW j \in 1..Len(b), i = Len(a) + j
          PROVE  i + k \in 1..Len(ab) /\ ab[i + k].role = "tool"
        <3>1. ab[i] = b[j]
            BY <1>1, <2>2
        <3>2. j + k \in 1..Len(b) /\ b[j + k].role = "tool"
            BY <1>2, <3>1 DEF Paired, Followed
        <3>3. k \in Int /\ i + k = Len(a) + (j + k)
            BY <1>2, <2>2, <3>1
        <3> QED
            BY <1>1, <1>2, <3>2, <3>3
    <2> QED
        BY <1>1, <2>1, <2>2
<1>4. Preceded(ab)
    <2> SUFFICES ASSUME NEW i \in 1..Len(ab), ab[i].role = "tool"
                 PROVE  \/ i > 1 /\ ab[i - 1].calls > 0
                        \/ i > 2 /\ ab[i - 2].calls = 2
        BY <1>2 DEF Preceded
    <2>1. CASE i \in 1..Len(a)
        <3>1. \/ i > 1 /\ a[i - 1].calls > 0
              \/ i > 2 /\ a[i - 2].calls = 2
            BY <1>1, <1>2, <2>1 DEF Paired, Preceded
        <3>2. /\ i > 1 => i - 1 \in 1..Len(a)
              /\ i > 2 => i - 2 \in 1..Len(a)
            BY <1>2, <2>1
        <3> QED
            BY <1>1, <3>1, <3>2
    <2>2. ASSUME NEW j \in 1..Len(b), i = Len(a) + j
          PROVE  \/ i > 1 /\ ab[i - 1].calls > 0
                 \/ i > 2 /\ ab[i - 2].calls = 2
        <3>1. \/ j > 1 /\ b[j - 1].calls > 0
              \/ j > 2 /\ b[j - 2].calls = 2
            BY <1>1, <1>2, <2>2 DEF Paired, Preceded
        <3>2. /\ j > 1 => j - 1 \in 1..Len(b) /\ i - 1 = Len(a) + (j - 1) /\ i > 1
              /\ j > 2 => j - 2 \in 1..Len(b) /\ i - 2 = Len(a) + (j - 2) /\ i > 2
            BY <1>2, <2>2
        <3> QED
            BY <1>1, <3>1, <3>2
    <2> QED
        BY <1>1, <2>1, <2>2
<1> QED
    BY <1>3, <1>4 DEF Paired, ab

\* A context cut in two
LEMMA EndOf ==
    ASSUME NEW ms \in Contexts, NEW e \in 1..(Len(ms) + 1)
    PROVE  /\ SubSeq(ms, e, Len(ms)) \in Contexts
           /\ Len(SubSeq(ms, e, Len(ms))) = Len(ms) + 1 - e
           /\ \A i \in 1..(Len(ms) + 1 - e) : SubSeq(ms, e, Len(ms))[i] = ms[e - 1 + i]
           /\ SubSeq(ms, 1, e - 1) \in Contexts
           /\ Len(SubSeq(ms, 1, e - 1)) = e - 1
           /\ \A i \in 1..(e - 1) : SubSeq(ms, 1, e - 1)[i] = ms[i]
<1>1. Len(ms) \in Nat
    BY AContext
<1>2. \A i \in 1..(Len(ms) + 1 - e) : e - 1 + i = i + e - 1 /\ e - 1 + i \in 1..Len(ms)
    BY <1>1
<1> QED
    BY <1>1, <1>2 DEF Contexts

\* The two parts make the whole.
LEMMA Split ==
    ASSUME NEW ms \in Contexts, NEW e \in 1..(Len(ms) + 1)
    PROVE  ms = SubSeq(ms, 1, e - 1) \o SubSeq(ms, e, Len(ms))
<1> DEFINE past == SubSeq(ms, 1, e - 1)
           rest == SubSeq(ms, e, Len(ms))
           both == past \o rest
<1>1. /\ rest \in Contexts /\ past \in Contexts
      /\ Len(past) = e - 1 /\ \A i \in 1..(e - 1) : past[i] = ms[i]
      /\ Len(rest) = Len(ms) + 1 - e
      /\ \A i \in 1..(Len(ms) + 1 - e) : rest[i] = ms[e - 1 + i]
      /\ Len(ms) \in Nat
    BY EndOf, AContext
<1> HIDE DEF past, rest
<1>2. /\ both \in Contexts /\ Len(both) = Len(past) + Len(rest)
      /\ \A i \in 1..Len(past) : both[i] = past[i]
      /\ \A i \in 1..Len(rest) : both[Len(past) + i] = rest[i]
      /\ \A i \in 1..(Len(past) + Len(rest)) :
            i \in 1..Len(past) \/ \E k \in 1..Len(rest) : i = Len(past) + k
    BY <1>1, Joined
<1> HIDE DEF both
<1>3. Len(both) = Len(ms)
    BY <1>1, <1>2
<1>4. \A i \in 1..Len(ms) : both[i] = ms[i]
    <2> TAKE i \in 1..Len(ms)
    <2>1. CASE i \in 1..Len(past)
        BY <1>1, <1>2, <2>1
    <2>2. ASSUME NEW k \in 1..Len(rest), i = Len(past) + k
          PROVE  both[i] = ms[i]
        BY <1>1, <1>2, <2>2
    <2> QED
        BY <1>2, <1>3, <2>1, <2>2
<1>5. both \in Seq(Messages) /\ ms \in Seq(Messages)
    BY <1>2 DEF Contexts
<1>6. both = [i \in 1..Len(both) |-> both[i]] /\ ms = [i \in 1..Len(ms) |-> ms[i]]
    BY <1>5
<1>7. both = ms
    BY <1>3, <1>4, <1>6
<1> QED
    BY <1>7 DEF both, past, rest

\* The part that begins with a message which is no result is in pairs.
LEMMA EndPaired ==
    ASSUME NEW ms \in Contexts, Paired(ms), NEW e \in 1..(Len(ms) + 1),
           e \in DOMAIN ms => ms[e].role # "tool"
    PROVE  Paired(SubSeq(ms, e, Len(ms)))
<1> DEFINE end == SubSeq(ms, e, Len(ms))
<1>1. /\ end \in Contexts /\ Len(end) = Len(ms) + 1 - e
      /\ \A i \in 1..(Len(ms) + 1 - e) : end[i] = ms[e - 1 + i]
    BY EndOf
<1> HIDE DEF end
<1>2. /\ Len(ms) \in Nat /\ DOMAIN ms = 1..Len(ms)
      /\ DOMAIN end = 1..(Len(ms) + 1 - e)
      /\ \A i \in 1..Len(ms) : ms[i].calls \in 0..2
    BY <1>1, AContext
<1>3. Followed(end)
    <2> SUFFICES ASSUME NEW i \in DOMAIN end, NEW k \in 1..end[i].calls
                 PROVE  i + k \in DOMAIN end /\ end[i + k].role = "tool"
        BY DEF Followed
    <2>1. e - 1 + i \in 1..Len(ms) /\ end[i] = ms[e - 1 + i]
        BY <1>1, <1>2
    <2>2. k \in Nat /\ (e - 1 + i) + k \in 1..Len(ms) /\ ms[(e - 1 + i) + k].role = "tool"
        BY <1>2, <2>1 DEF Paired, Followed
    <2>3. i + k \in 1..(Len(ms) + 1 - e) /\ e - 1 + (i + k) = (e - 1 + i) + k
        <3>1. i \in Nat \ {0} /\ e \in Nat /\ Len(ms) \in Nat /\ k \in Nat
            BY <1>2, <2>2
        <3>2. (e - 1 + i) + k <= Len(ms)
            BY <2>2
        <3> QED
            BY <3>1, <3>2
    <2> QED
        BY <1>1, <1>2, <2>2, <2>3
<1>4. Preceded(end)
    <2> SUFFICES ASSUME NEW i \in DOMAIN end, end[i].role = "tool"
                 PROVE  \/ i > 1 /\ end[i - 1].calls > 0
                        \/ i > 2 /\ end[i - 2].calls = 2
        BY DEF Preceded
    <2> DEFINE p == e - 1 + i
    <2>1. p \in 1..Len(ms) /\ end[i] = ms[p]
        <3>1. i \in 1..(Len(ms) + 1 - e)
            BY <1>2
        <3>2. end[i] = ms[p]
            BY <1>1, <3>1
        <3> QED
            BY <1>2, <3>1, <3>2
    <2>2. i # 1
        <3>1. i = 1 => p = e /\ e \in 1..Len(ms)
            BY <1>2, <2>1
        <3> QED
            BY <1>2, <2>1, <3>1
    <2>3. \/ ms[p - 1].calls > 0
          \/ p > 2 /\ ms[p - 2].calls = 2
        BY <1>2, <2>1 DEF Paired, Preceded
    <2>4. i - 1 \in 1..(Len(ms) + 1 - e) /\ p - 1 = e - 1 + (i - 1) /\ i > 1
        <3>1. i \in 1..(Len(ms) + 1 - e) /\ e \in Nat /\ Len(ms) \in Nat
            BY <1>2
        <3>2. i > 1
            BY <2>2, <3>1
        <3> QED
            BY <3>1, <3>2
    <2>5. CASE ms[p - 1].calls > 0
        BY <1>1, <2>4, <2>5
    <2>6. CASE p > 2 /\ ms[p - 2].calls = 2
        <3>1. i # 2
            <4> SUFFICES ASSUME i = 2 PROVE FALSE
                OBVIOUS
            <4>1. p - 2 \in 1..Len(ms) /\ (p - 2) + 1 = e /\ 1 \in 1..2
                BY <1>2, <2>1, <2>6
            <4>2. e \in DOMAIN ms /\ ms[e].role = "tool"
                BY <1>2, <2>6, <4>1 DEF Paired, Followed
            <4> QED
                BY <4>2
        <3>2. i - 2 \in 1..(Len(ms) + 1 - e) /\ p - 2 = e - 1 + (i - 2) /\ i > 2
            BY <1>2, <2>4, <3>1
        <3> QED
            BY <1>1, <2>6, <3>2
    <2> QED
        BY <2>3, <2>5, <2>6
<1> QED
    BY <1>3, <1>4 DEF Paired, end
-----------------------------------------------------------------------------
(***************************************************************************)
(* The checklist that is read last                                         *)
(***************************************************************************)

Listless(ms) == \A i \in 1..Len(ms) : ms[i].list = NoList
ReadLast(ms, g) ==
    /\ g \in 1..Len(ms) /\ ms[g].list # NoList
    /\ \A j \in 1..Len(ms) : j > g => ms[j].list = NoList

\* The latest checklist is that of the last message that has one.
LEMMA LatestIs ==
    ASSUME NEW ms \in Contexts
    PROVE  /\ Listless(ms) => LatestChecklist(ms) = NoList
           /\ \A g : ReadLast(ms, g) => LatestChecklist(ms) = ms[g].list
           /\ Listless(ms) \/ \E g \in 1..Len(ms) : ReadLast(ms, g)
<1> DEFINE at == {i \in DOMAIN ms : ms[i].list # NoList}
<1>1. Len(ms) \in Nat /\ DOMAIN ms = 1..Len(ms)
    BY AContext
<1>2. LatestChecklist(ms) = IF at = {} THEN NoList ELSE ms[Greatest(at)].list
    BY DEF LatestChecklist
<1>3. at \in SUBSET (1..Len(ms)) /\ \A i \in 1..Len(ms) : i \in at <=> ms[i].list # NoList
    BY <1>1
<1> HIDE DEF at
<1>4. at # {} => Greatest(at) \in at /\ \A j \in at : j <= Greatest(at)
    BY <1>1, <1>3, GreatestIn
<1>5. ASSUME NEW g, ReadLast(ms, g)
      PROVE  LatestChecklist(ms) = ms[g].list
    <2>1. g \in at /\ \A j \in at : ~(j > g)
        BY <1>3, <1>5 DEF ReadLast
    <2>2. Greatest(at) = g
        <3>1. PICK x : x = Greatest(at)
            OBVIOUS
        <3>2. x \in at /\ g <= x
            BY <1>4, <2>1, <3>1
        <3>3. x \in Nat /\ g \in Nat
            BY <1>1, <1>3, <2>1, <3>2
        <3> QED
            BY <2>1, <3>1, <3>2, <3>3
    <2> QED
        BY <1>2, <2>1, <2>2
<1>6. at # {} => ReadLast(ms, Greatest(at))
    <2> SUFFICES ASSUME at # {} PROVE ReadLast(ms, Greatest(at))
        OBVIOUS
    <2>1. \A j \in 1..Len(ms) : j > Greatest(at) => j \notin at
        <3>1. PICK x : x = Greatest(at)
            OBVIOUS
        <3>2. x \in at /\ \A j \in at : j <= x
            BY <1>4, <3>1
        <3>3. x \in Nat /\ \A j \in 1..Len(ms) : j \in Nat
            BY <1>1, <1>3, <3>2
        <3> QED
            BY <3>1, <3>2, <3>3
    <2> QED
        BY <1>3, <1>4, <2>1 DEF ReadLast
<1>7. at = {} <=> Listless(ms)
    BY <1>3 DEF Listless
<1> QED
    BY <1>2, <1>3, <1>4, <1>5, <1>6, <1>7

\* Of what is said one after the other, the later list counts.
LEMMA JoinedLatest ==
    ASSUME NEW a \in Contexts, NEW b \in Contexts
    PROVE  LatestChecklist(a \o b) =
               IF LatestChecklist(b) # NoList THEN LatestChecklist(b) ELSE LatestChecklist(a)
<1> DEFINE ab == a \o b
<1>1. /\ ab \in Contexts /\ Len(ab) = Len(a) + Len(b)
      /\ \A i \in 1..Len(a) : ab[i] = a[i]
      /\ \A i \in 1..Len(b) : ab[Len(a) + i] = b[i]
      /\ \A i \in 1..(Len(a) + Len(b)) :
            i \in 1..Len(a) \/ \E k \in 1..Len(b) : i = Len(a) + k
    BY Joined
<1> HIDE DEF ab
<1>2. Len(a) \in Nat /\ Len(b) \in Nat
    BY AContext
<1>3. ASSUME NEW g \in 1..Len(b), ReadLast(b, g)
      PROVE  LatestChecklist(ab) = LatestChecklist(b) /\ LatestChecklist(b) # NoList
    <2>1. Len(a) + g \in 1..Len(ab) /\ ab[Len(a) + g] = b[g]
        BY <1>1, <1>2
    <2>2. ASSUME NEW j \in 1..Len(ab), j > Len(a) + g
          PROVE  ab[j].list = NoList
        <3>1. PICK k \in 1..Len(b) : j = Len(a) + k
            BY <1>1, <1>2, <2>2
        <3>2. k > g
            BY <1>2, <2>2, <3>1
        <3> QED
            BY <1>1, <1>3, <3>1, <3>2 DEF ReadLast
    <2>3. ReadLast(ab, Len(a) + g)
        BY <1>3, <2>1, <2>2 DEF ReadLast
    <2>4. LatestChecklist(ab) = ab[Len(a) + g].list
        BY <1>1, <2>3, LatestIs
    <2>5. LatestChecklist(b) = b[g].list
        BY <1>3, LatestIs
    <2> QED
        BY <1>3, <2>1, <2>4, <2>5 DEF ReadLast
<1>4. ASSUME Listless(b), NEW g \in 1..Len(a), ReadLast(a, g)
      PROVE  LatestChecklist(ab) = LatestChecklist(a)
    <2>1. g \in 1..Len(ab) /\ ab[g] = a[g]
        BY <1>1, <1>2
    <2>2. ASSUME NEW j \in 1..Len(ab), j > g
          PROVE  ab[j].list = NoList
        <3>1. CASE j \in 1..Len(a)
            BY <1>1, <1>4, <2>2, <3>1 DEF ReadLast
        <3>2. ASSUME NEW k \in 1..Len(b), j = Len(a) + k
              PROVE  ab[j].list = NoList
            BY <1>1, <1>4, <3>2 DEF Listless
        <3> QED
            BY <1>1, <3>1, <3>2
    <2>3. ReadLast(ab, g)
        BY <1>4, <2>1, <2>2 DEF ReadLast
    <2> QED
        BY <1>1, <1>4, <2>1, <2>3, LatestIs
<1>5. ASSUME Listless(b), Listless(a)
      PROVE  LatestChecklist(ab) = LatestChecklist(a)
    <2>1. Listless(ab)
        <3> SUFFICES ASSUME NEW j \in 1..Len(ab) PROVE ab[j].list = NoList
            BY DEF Listless
        <3>1. CASE j \in 1..Len(a)
            BY <1>1, <1>5, <3>1 DEF Listless
        <3>2. ASSUME NEW k \in 1..Len(b), j = Len(a) + k
              PROVE  ab[j].list = NoList
            BY <1>1, <1>5, <3>2 DEF Listless
        <3> QED
            BY <1>1, <3>1, <3>2
    <2> QED
        BY <1>1, <1>5, <2>1, LatestIs
<1>6. Listless(b) => LatestChecklist(b) = NoList
    BY LatestIs
<1>7. LatestChecklist(ab) =
          IF LatestChecklist(b) # NoList THEN LatestChecklist(b) ELSE LatestChecklist(a)
    BY <1>3, <1>4, <1>5, <1>6, LatestIs
<1> QED
    BY <1>7 DEF ab

\* Two contexts that differ in the size of their messages
Alike(a, b) ==
    /\ Len(a) = Len(b)
    /\ \A i \in 1..Len(a) :
          a[i].role = b[i].role /\ a[i].calls = b[i].calls /\ a[i].list = b[i].list

\* They are in pairs alike and read alike.
LEMMA AlikePaired ==
    ASSUME NEW a \in Contexts, NEW b \in Contexts, Alike(a, b)
    PROVE  /\ Paired(a) => Paired(b)
           /\ LatestChecklist(a) = LatestChecklist(b)
<1>1. /\ Len(a) \in Nat /\ Len(b) = Len(a) /\ DOMAIN a = 1..Len(a) /\ DOMAIN b = 1..Len(a)
      /\ \A i \in 1..Len(a) :
            a[i].role = b[i].role /\ a[i].calls = b[i].calls /\ a[i].list = b[i].list
    BY AContext DEF Alike
<1>2. Followed(a) => Followed(b)
    BY <1>1 DEF Followed
<1>3. Preceded(a) => Preceded(b)
    <2> SUFFICES ASSUME Preceded(a), NEW i \in 1..Len(a), b[i].role = "tool"
                 PROVE  \/ i > 1 /\ b[i - 1].calls > 0
                        \/ i > 2 /\ b[i - 2].calls = 2
        BY <1>1 DEF Preceded
    <2>1. \/ i > 1 /\ a[i - 1].calls > 0
          \/ i > 2 /\ a[i - 2].calls = 2
        BY <1>1 DEF Preceded
    <2>2. (i > 1 => i - 1 \in 1..Len(a)) /\ (i > 2 => i - 2 \in 1..Len(a))
        BY <1>1
    <2> QED
        BY <1>1, <2>1, <2>2
<1>4. ASSUME NEW g \in 1..Len(a), ReadLast(a, g)
      PROVE  ReadLast(b, g) /\ a[g].list = b[g].list
    BY <1>1, <1>4 DEF ReadLast
<1>5. Listless(a) => Listless(b)
    BY <1>1 DEF Listless
<1>6. LatestChecklist(a) = LatestChecklist(b)
    BY <1>4, <1>5, LatestIs
<1> QED
    BY <1>2, <1>3, <1>6 DEF Paired
-----------------------------------------------------------------------------
(***************************************************************************)
(* The reductions                                                          *)
(***************************************************************************)

\* Collapsing repeated lines and pruning change the size of a result only.
LEMMA CollapsedIs ==
    ASSUME NEW m \in Messages
    PROVE  /\ Collapsed(m) \in Messages
           /\ Collapsed(m).role = m.role /\ Collapsed(m).calls = m.calls
           /\ Collapsed(m).list = m.list
           /\ ~m.repeats => Collapsed(m) = m
BY DEF Messages, Collapsed

LEMMA PrunedIs ==
    ASSUME NEW m \in Messages, NEW max
    PROVE  /\ Pruned(m, max) \in Messages
           /\ Pruned(m, max).role = m.role /\ Pruned(m, max).calls = m.calls
           /\ Pruned(m, max).list = m.list
           /\ m.role # "tool" => Pruned(m, max) = m
BY DEF Messages, Pruned, Prunable, PrunedSize

\* Results are made shorter and nothing else.
LEMMA PruneKeeps ==
    ASSUME NEW ms \in Contexts, NEW tail, NEW usable
    PROVE  /\ PruneToolResults(ms, tail, usable) \in Contexts
           /\ Alike(ms, PruneToolResults(ms, tail, usable))
           /\ \A i \in 1..Len(ms) : ms[i].role # "tool" =>
                 PruneToolResults(ms, tail, usable)[i] = ms[i]
<1> DEFINE cut(n) == [i \in DOMAIN ms |->
                         IF i < tail THEN Pruned(ms[i], MaxEarlier)
                         ELSE IF i < n THEN Pruned(ms[i], MaxRecent) ELSE ms[i]]
<1>1. Len(ms) \in Nat /\ DOMAIN ms = 1..Len(ms) /\ \A i \in 1..Len(ms) : ms[i] \in Messages
    BY AContext
<1>2. ASSUME NEW n
      PROVE  /\ cut(n) \in Contexts /\ Alike(ms, cut(n))
             /\ \A i \in 1..Len(ms) : ms[i].role # "tool" => cut(n)[i] = ms[i]
    <2> DEFINE c == cut(n)
    <2>1. \A i \in 1..Len(ms) :
             /\ c[i] \in Messages
             /\ c[i].role = ms[i].role /\ c[i].calls = ms[i].calls /\ c[i].list = ms[i].list
             /\ ms[i].role # "tool" => c[i] = ms[i]
        BY <1>1, PrunedIs
    <2>2. c \in Contexts /\ Len(c) = Len(ms)
        <3>1. c = [i \in 1..Len(ms) |-> c[i]]
            BY <1>1
        <3> HIDE DEF c
        <3> QED
            BY <1>1, <2>1, <3>1 DEF Contexts
    <2> QED
        BY <2>1, <2>2 DEF Alike
<1>3. \A n : cut(n) \in Contexts => Evaluated(cut(n)) = cut(n)
    BY EvaluatedIs
<1>4. \E n : PruneToolResults(ms, tail, usable) = Evaluated(cut(n))
    BY DEF PruneToolResults
<1> HIDE DEF cut
<1> QED
    BY <1>2, <1>3, <1>4

Loud(ms) == {i \in DOMAIN ms : ~Silent(ms[i])}

\* The messages that are not silent, one by one.
LEMMA SnippedIs ==
    ASSUME NEW ms \in Contexts
    PROVE  /\ Snipped(ms) \in Contexts
           /\ \A n \in 1..Len(Snipped(ms)) : \E i \in Loud(ms) : Rank(Loud(ms), i) = n
           /\ \A i \in Loud(ms) : /\ i \in 1..Len(ms)
                                  /\ Rank(Loud(ms), i) \in 1..Len(Snipped(ms))
                                  /\ Snipped(ms)[Rank(Loud(ms), i)] = Collapsed(ms[i])
           /\ \A i, j \in Loud(ms) : i < j => Rank(Loud(ms), i) < Rank(Loud(ms), j)
           /\ \A i \in Loud(ms) : i + 1 \in Loud(ms) =>
                 Rank(Loud(ms), i + 1) = Rank(Loud(ms), i) + 1
<1> DEFINE L == Loud(ms)
           K == Cardinality(L)
           s == [n \in 1..K |-> Collapsed(ms[Nth(L, n)])]
<1>1. Len(ms) \in Nat /\ DOMAIN ms = 1..Len(ms) /\ \A i \in 1..Len(ms) : ms[i] \in Messages
    BY AContext
<1>2. L \in SUBSET (1..Len(ms))
    BY <1>1 DEF Loud
<1>3. Snipped(ms) = Evaluated(s)
    BY DEF Snipped, Loud
<1> HIDE DEF L
<1>4. /\ K \in Nat
      /\ \A i \in L : Rank(L, i) \in 1..K
      /\ \A i, j \in L : i < j => Rank(L, i) < Rank(L, j)
      /\ \A i \in L : i + 1 \in L => Rank(L, i + 1) = Rank(L, i) + 1
    BY <1>1, <1>2, RankIn
<1>5. /\ \A n \in 1..K : Nth(L, n) \in L /\ Rank(L, Nth(L, n)) = n
      /\ \A i \in L : Nth(L, Rank(L, i)) = i
    BY <1>1, <1>2, NthIn
<1>6. \A n \in 1..K : s[n] \in Messages
    BY <1>1, <1>2, <1>5, CollapsedIs
<1>7. s \in Contexts /\ Len(s) = K
    BY <1>4, <1>6 DEF Contexts
<1>8. Snipped(ms) = s
    BY <1>3, <1>7, EvaluatedIs
<1>9. \A i \in L : s[Rank(L, i)] = Collapsed(ms[i])
    BY <1>4, <1>5
<1> HIDE DEF s
<1> QED
    BY <1>2, <1>4, <1>5, <1>7, <1>8, <1>9 DEF L

\* No silent message stands between a call and its results.
LEMMA SnippedPaired ==
    ASSUME NEW ms \in Contexts, Paired(ms)
    PROVE  Paired(Snipped(ms))
<1> DEFINE L == Loud(ms)
           s == Snipped(ms)
<1>1. /\ Len(ms) \in Nat /\ DOMAIN ms = 1..Len(ms)
      /\ \A i \in 1..Len(ms) : ms[i] \in Messages /\ ms[i].calls \in 0..2
      /\ \A i \in 1..Len(ms) : ms[i].calls > 0 => ms[i].role = "assistant"
    BY AContext
<1>2. /\ s \in Contexts
      /\ \A n \in 1..Len(s) : \E i \in L : Rank(L, i) = n
      /\ \A i \in L : i \in 1..Len(ms) /\ Rank(L, i) \in 1..Len(s)
                      /\ s[Rank(L, i)] = Collapsed(ms[i])
      /\ \A i \in L : i + 1 \in L => Rank(L, i + 1) = Rank(L, i) + 1
    BY SnippedIs
<1>3. \A i \in 1..Len(ms) : ms[i].calls > 0 \/ ms[i].role = "tool" => i \in L
    BY <1>1 DEF Loud, Silent
<1> HIDE DEF L, s
<1>4. \A i \in L : s[Rank(L, i)].role = ms[i].role /\ s[Rank(L, i)].calls = ms[i].calls
    BY <1>1, <1>2, CollapsedIs
<1>5. DOMAIN s = 1..Len(s) /\ Len(s) \in Nat
    BY <1>2, AContext
<1>6. Followed(s)
    <2> SUFFICES ASSUME NEW n \in 1..Len(s), NEW k \in 1..s[n].calls
                 PROVE  n + k \in 1..Len(s) /\ s[n + k].role = "tool"
        BY <1>5 DEF Followed
    <2>1. PICK i \in L : Rank(L, i) = n
        BY <1>2
    <2>2. /\ i \in 1..Len(ms) /\ ms[i].calls \in 0..2 /\ k \in 1..ms[i].calls
          /\ k \in 1..2
        BY <1>1, <1>2, <1>4, <2>1
    <2>3. \A x \in 1..ms[i].calls : i + x \in L /\ ms[i + x].role = "tool"
        BY <1>1, <1>3, <2>2 DEF Paired, Followed
    <2>4. 1 \in 1..ms[i].calls
        BY <2>2
    <2>5. i + 1 \in L /\ ms[i + 1].role = "tool" /\ Rank(L, i + 1) = n + 1
        BY <1>2, <2>1, <2>3, <2>4
    <2>6. CASE k = 1
        BY <1>2, <1>4, <2>5, <2>6
    <2>7. CASE k = 2
        <3>1. i + 2 \in L /\ ms[i + 2].role = "tool" /\ i + 2 = (i + 1) + 1
            BY <2>2, <2>3, <2>7
        <3>2. Rank(L, i + 2) = n + 2
            BY <1>2, <2>5, <3>1
        <3> QED
            BY <1>2, <1>4, <2>7, <3>1, <3>2
    <2> QED
        BY <2>2, <2>6, <2>7
<1>7. Preceded(s)
    <2> SUFFICES ASSUME NEW n \in 1..Len(s), s[n].role = "tool"
                 PROVE  \/ n > 1 /\ s[n - 1].calls > 0
                        \/ n > 2 /\ s[n - 2].calls = 2
        BY <1>5 DEF Preceded
    <2>1. PICK i \in L : Rank(L, i) = n
        BY <1>2
    <2>2. i \in 1..Len(ms) /\ ms[i].role = "tool"
        BY <1>2, <1>4, <2>1
    <2>3. \/ i > 1 /\ ms[i - 1].calls > 0
          \/ i > 2 /\ ms[i - 2].calls = 2
        BY <1>1, <2>2 DEF Paired, Preceded
    <2>4. ASSUME NEW j \in L, j + 1 \in L
          PROVE  Rank(L, j + 1) > 1 /\ Rank(L, j + 1) - 1 = Rank(L, j)
        BY <1>2, <1>5, <2>4
    <2>5. CASE i > 1 /\ ms[i - 1].calls > 0
        <3>1. i - 1 \in L /\ (i - 1) + 1 = i
            BY <1>1, <1>3, <2>2, <2>5
        <3> QED
            BY <1>4, <2>1, <2>4, <2>5, <3>1
    <2>6. CASE i > 2 /\ ms[i - 2].calls = 2
        <3>1. /\ i - 2 \in L /\ (i - 2) + 1 = i - 1 /\ (i - 1) + 1 = i
              /\ i - 2 \in 1..Len(ms) /\ 1 \in 1..2
            BY <1>1, <1>3, <2>2, <2>6
        <3>2. i - 1 \in 1..Len(ms) /\ ms[i - 1].role = "tool"
            BY <1>1, <2>6, <3>1 DEF Paired, Followed
        <3>3. i - 1 \in L
            BY <1>3, <3>2
        <3>4. n > 1 /\ n - 1 = Rank(L, i - 1)
            BY <2>1, <2>4, <3>1, <3>3
        <3>5. n - 1 > 1 /\ n - 2 = Rank(L, i - 2)
            <4>1. Rank(L, i - 1) > 1 /\ Rank(L, i - 1) - 1 = Rank(L, i - 2)
                BY <2>4, <3>1, <3>3
            <4> QED
                BY <1>5, <3>4, <4>1
        <3> QED
            BY <1>4, <1>5, <2>6, <3>1, <3>5
    <2> QED
        BY <2>3, <2>5, <2>6
<1> QED
    BY <1>6, <1>7 DEF Paired, s

\* No silent message has a checklist.
LEMMA SnippedLatest ==
    ASSUME NEW ms \in Contexts
    PROVE  LatestChecklist(Snipped(ms)) = LatestChecklist(ms)
<1> DEFINE L == Loud(ms)
           s == Snipped(ms)
<1>1. /\ Len(ms) \in Nat /\ DOMAIN ms = 1..Len(ms)
      /\ \A i \in 1..Len(ms) : ms[i] \in Messages
      /\ \A i \in 1..Len(ms) : ms[i].list # NoList => ms[i].role \in {"user", "tool"}
    BY AContext
<1>2. /\ s \in Contexts
      /\ \A n \in 1..Len(s) : \E i \in L : Rank(L, i) = n
      /\ \A i \in L : i \in 1..Len(ms) /\ Rank(L, i) \in 1..Len(s)
                      /\ s[Rank(L, i)] = Collapsed(ms[i])
      /\ \A i, j \in L : i < j => Rank(L, i) < Rank(L, j)
    BY SnippedIs
<1>3. \A i \in 1..Len(ms) : ms[i].list # NoList => i \in L
    BY <1>1 DEF Loud, Silent
<1> HIDE DEF L, s
<1>4. \A i \in L : s[Rank(L, i)].list = ms[i].list
    BY <1>1, <1>2, CollapsedIs
<1>5. ASSUME Listless(ms)
      PROVE  Listless(s)
    <2> SUFFICES ASSUME NEW n \in 1..Len(s) PROVE s[n].list = NoList
        BY DEF Listless
    <2>1. PICK i \in L : Rank(L, i) = n
        BY <1>2
    <2> QED
        BY <1>2, <1>4, <1>5, <2>1 DEF Listless
<1>6. ASSUME NEW g \in 1..Len(ms), ReadLast(ms, g)
      PROVE  ReadLast(s, Rank(L, g)) /\ s[Rank(L, g)].list = ms[g].list
    <2>1. g \in L
        BY <1>3, <1>6 DEF ReadLast
    <2>2. ASSUME NEW n \in 1..Len(s), n > Rank(L, g)
          PROVE  s[n].list = NoList
        <3>1. PICK i \in L : Rank(L, i) = n
            BY <1>2
        <3>2. i \in Nat /\ g \in Nat /\ Rank(L, g) \in Nat /\ n \in Nat
            BY <1>1, <1>2, <2>1, <3>1
        <3>3. i > g
            <4>1. i < g => n < Rank(L, g)
                BY <1>2, <2>1, <3>1
            <4>2. i # g
                BY <2>2, <3>1, <3>2
            <4> QED
                BY <2>2, <3>2, <4>1, <4>2
        <3> QED
            BY <1>2, <1>4, <1>6, <3>1, <3>3 DEF ReadLast
    <2> QED
        BY <1>2, <1>4, <1>6, <2>1, <2>2 DEF ReadLast
<1>7. LatestChecklist(s) = LatestChecklist(ms)
    <2>1. CASE Listless(ms)
        BY <1>2, <1>5, <2>1, LatestIs
    <2>2. ASSUME NEW g \in 1..Len(ms), ReadLast(ms, g)
          PROVE  LatestChecklist(s) = LatestChecklist(ms)
        <3>1. LatestChecklist(ms) = ms[g].list
            BY <2>2, LatestIs
        <3>2. LatestChecklist(s) = s[Rank(L, g)].list
            BY <1>2, <1>6, <2>2, LatestIs
        <3> QED
            BY <1>6, <2>2, <3>1, <3>2
    <2> QED
        BY <2>1, <2>2, LatestIs
<1> QED
    BY <1>7 DEF s

\* A context begins with the system message.
Fronted(ms) == Len(ms) >= 1 /\ ms[1].role = "system"

\* The opening of a context that is never touched states a checklist.
OpensWithList(ms) ==
    Len(ms) >= 2 /\ ms[2].role = "user" /\ ms[2].size <= MaxPinned /\ ms[2].list # NoList

\* The system message and the message of a user after it stay where they are.
LEMMA SnippedFront ==
    ASSUME NEW ms \in Contexts, Fronted(ms)
    PROVE  /\ Fronted(Snipped(ms))
           /\ OpensWithList(ms) => OpensWithList(Snipped(ms))
<1> DEFINE L == Loud(ms)
           s == Snipped(ms)
<1>1. /\ Len(ms) \in Nat /\ DOMAIN ms = 1..Len(ms)
      /\ \A i \in 1..Len(ms) : ms[i] \in Messages /\ (ms[i].role = "user" => ~ms[i].repeats)
    BY AContext
<1>2. /\ s \in Contexts
      /\ \A n \in 1..Len(s) : \E i \in L : Rank(L, i) = n
      /\ \A i \in L : i \in 1..Len(ms) /\ Rank(L, i) \in 1..Len(s)
                      /\ s[Rank(L, i)] = Collapsed(ms[i])
      /\ \A i, j \in L : i < j => Rank(L, i) < Rank(L, j)
      /\ \A i \in L : i + 1 \in L => Rank(L, i + 1) = Rank(L, i) + 1
    BY SnippedIs
<1>3. \A i \in 1..Len(ms) : ms[i].role # "assistant" => i \in L
    BY <1>1 DEF Loud, Silent
<1> HIDE DEF L, s
<1>4. Len(s) \in Nat
    BY <1>2, AContext
<1>5. 1 \in L
    BY <1>1, <1>3 DEF Fronted
<1>6. Rank(L, 1) = 1
    <2>1. Rank(L, 1) \in 1..Len(s) /\ 1 \in 1..Len(s)
        BY <1>2, <1>4, <1>5
    <2>2. PICK i \in L : Rank(L, i) = 1
        BY <1>2, <2>1
    <2>3. i > 1 => Rank(L, 1) < 1
        BY <1>2, <1>5, <2>2
    <2> QED
        BY <1>1, <1>2, <2>1, <2>2, <2>3
<1>7. Fronted(s)
    <2>1. s[1].role = ms[1].role /\ 1 \in 1..Len(s)
        BY <1>1, <1>2, <1>5, <1>6, CollapsedIs
    <2> QED
        BY <1>4, <2>1 DEF Fronted
<1>8. ASSUME OpensWithList(ms)
      PROVE  OpensWithList(s)
    <2>1. 2 \in L /\ 2 = 1 + 1 /\ 2 \in 1..Len(ms)
        BY <1>1, <1>3, <1>8 DEF OpensWithList
    <2>2. Rank(L, 2) = 2
        BY <1>2, <1>5, <1>6, <2>1
    <2>3. 2 \in 1..Len(s) /\ s[2] = ms[2]
        BY <1>1, <1>2, <1>8, <2>1, <2>2, CollapsedIs DEF OpensWithList
    <2> QED
        BY <1>4, <1>8, <2>3 DEF OpensWithList
<1> QED
    BY <1>7, <1>8 DEF s

\* The prefix that is never touched
LEMMA PrefixIs ==
    ASSUME NEW ms \in Contexts, Fronted(ms)
    PROVE  /\ PreservedPrefix(ms) \in {1, 2} /\ PreservedPrefix(ms) <= Len(ms)
           /\ PreservedPrefix(ms) = 2 => ms[2].role = "user" /\ ms[2].size <= MaxPinned
           /\ Len(ms) >= 2 /\ ms[2].role = "user" /\ ms[2].size <= MaxPinned =>
                 PreservedPrefix(ms) = 2
BY AContext DEF PreservedPrefix, Fronted

\* A head is past the prefix, and no result.
LEMMA HeadIs ==
    ASSUME NEW ms \in Contexts, Fronted(ms), NEW h \in Heads(ms)
    PROVE  h \in (PreservedPrefix(ms) + 1)..Len(ms) /\ ms[h].role # "tool"
BY PrefixIs DEF Heads, IsTurnHead

\* The cut is at a head, or behind everything.
LEMMA SpanEndIs ==
    ASSUME NEW ms \in Contexts, Fronted(ms), NEW raw, NEW usable
    PROVE  SpanEnd(ms, raw, usable) \in Heads(ms) \cup {Len(ms) + 1}
<1> DEFINE start == PreservedPrefix(ms) + 1
           behind == {i \in Heads(ms) : i <= raw}
           ahead == {i \in Heads(ms) : i >= raw}
           retreat == Greatest({start} \cup behind)
           advance == Least({Len(ms) + 1} \cup ahead)
           N == Len(ms) + 1
<1>1. Len(ms) \in Nat /\ PreservedPrefix(ms) \in {1, 2} /\ PreservedPrefix(ms) <= Len(ms)
    BY AContext, PrefixIs
<1>2. N \in Nat /\ \A h \in Heads(ms) : h \in 1..N
    BY <1>1, HeadIs
<1>3. start \in 1..N
    BY <1>1
<1>4. {start} \cup behind \in SUBSET (1..N) /\ {start} \cup behind # {}
    <2> HIDE DEF start, N
    <2> QED
        BY <1>2, <1>3
<1>5. {N} \cup ahead \in SUBSET (1..N) /\ {N} \cup ahead # {}
    <2>1. N \in 1..N
        BY <1>1
    <2> HIDE DEF N
    <2> QED
        BY <1>2, <2>1
<1>6. retreat \in {start} \cup behind
    BY <1>2, <1>4, GreatestIn
<1>7. advance \in {N} \cup ahead
    BY <1>2, <1>5, LeastIn
<1>8. ~(start > start + 1)
    BY <1>1
<1>9. \/ SpanEnd(ms, raw, usable) = advance
      \/ SpanEnd(ms, raw, usable) = retreat /\ retreat > start + 1
    BY DEF SpanEnd
<1> HIDE DEF retreat, advance, start
<1> QED
    BY <1>6, <1>7, <1>8, <1>9

\* A context of one message
LEMMA One ==
    ASSUME NEW m \in Messages
    PROVE  /\ <<m>> \in Contexts
           /\ m.calls = 0 /\ m.role # "tool" => Paired(<<m>>)
           /\ LatestChecklist(<<m>>) = m.list
<1>1. <<m>> \in Contexts /\ Len(<<m>>) = 1 /\ DOMAIN <<m>> = 1..1 /\ <<m>>[1] = m
    BY DEF Contexts
<1>2. m.calls = 0 /\ m.role # "tool" => Paired(<<m>>)
    BY <1>1 DEF Paired, Followed, Preceded
<1>3. CASE m.list = NoList
    BY <1>1, <1>2, <1>3, LatestIs DEF Listless
<1>4. CASE m.list # NoList
    BY <1>1, <1>2, <1>4, LatestIs DEF ReadLast
<1> QED
    BY <1>1, <1>2, <1>3, <1>4

\* Two readings of the checklist an agent takes for the same
SameReading(a, b) == a = b \/ {a, b} \subseteq {NoList, Cleared}

LEMMA LatestType ==
    ASSUME NEW ms \in Contexts
    PROVE  LatestChecklist(ms) \in Int
BY LatestIs, AContext DEF NoList

\* A summary between the prefix and the head of a turn keeps what is behind it
\* in pairs, and hands on the checklist of what it stands for.
LEMMA SummaryKeeps ==
    ASSUME NEW ms \in Contexts, Fronted(ms), NEW size \in Nat,
           NEW end \in Heads(ms) \cup {Len(ms) + 1}
    PROVE  /\ Summarized(ms, end, size) \in Contexts
           /\ Fronted(Summarized(ms, end, size))
           /\ Paired(ms) => Paired(Summarized(ms, end, size))
           /\ OpensWithList(ms) => OpensWithList(Summarized(ms, end, size))
           /\ \/ OpensWithList(ms)
              \/ SameReading(LatestChecklist(Summarized(ms, end, size)), LatestChecklist(ms))
<1> DEFINE p == PreservedPrefix(ms)
           front == SubSeq(ms, 1, p)
           past == SubSeq(ms, 1, end - 1)
           rest == SubSeq(ms, end, Len(ms))
           m == [Message("user", size) EXCEPT !.list = CarriedChecklist(ms, end)]
<1>1. /\ Len(ms) \in Nat /\ DOMAIN ms = 1..Len(ms)
      /\ \A i \in 1..Len(ms) : /\ ms[i] \in Messages /\ ms[i].calls \in 0..2
                               /\ ms[i].calls > 0 => ms[i].role = "assistant"
                               /\ ms[i].list # NoList => ms[i].role \in {"user", "tool"}
    BY AContext
<1>2. /\ p \in {1, 2} /\ p <= Len(ms)
      /\ p = 2 => ms[2].role = "user" /\ ms[2].size <= MaxPinned
      /\ Len(ms) >= 2 /\ ms[2].role = "user" /\ ms[2].size <= MaxPinned => p = 2
    BY PrefixIs
<1>3. end \in (p + 1)..(Len(ms) + 1) /\ (end \in DOMAIN ms => ms[end].role # "tool")
    BY <1>1, <1>2, HeadIs
<1>4. /\ rest \in Contexts /\ past \in Contexts
      /\ Len(past) = end - 1 /\ \A i \in 1..(end - 1) : past[i] = ms[i]
      /\ Len(rest) = Len(ms) + 1 - end
      /\ \A i \in 1..(Len(ms) + 1 - end) : rest[i] = ms[end - 1 + i]
    BY <1>1, <1>2, <1>3, EndOf
<1>5. front \in Contexts /\ Len(front) = p /\ \A i \in 1..p : front[i] = ms[i]
    <2>1. p + 1 \in 1..(Len(ms) + 1) /\ (p + 1) - 1 = p
        BY <1>1, <1>2
    <2> HIDE DEF p
    <2> QED
        BY <2>1, EndOf
<1>6. Paired(ms) => Paired(rest)
    BY <1>1, <1>2, <1>3, EndPaired
<1>7. Paired(front)
    <2>1. DOMAIN front = 1..p
        BY <1>5, AContext
    <2>2. \A i \in 1..p : front[i].calls = 0 /\ front[i].role # "tool"
        <3>1. \A i \in 1..Len(ms) : ms[i].role \in {"system", "user"} =>
                 ms[i].calls = 0 /\ ms[i].role # "tool"
            BY <1>1
        <3>2. 1 \in 1..Len(ms) /\ ms[1].role = "system"
            BY <1>1 DEF Fronted
        <3>3. \A i \in 1..p : i = 1 \/ (i = 2 /\ p = 2)
            BY <1>2
        <3>4. p = 2 => 2 \in 1..Len(ms) /\ ms[2].role = "user"
            BY <1>1, <1>2
        <3> HIDE DEF front, p
        <3> QED
            BY <1>5, <3>1, <3>2, <3>3, <3>4
    <2> HIDE DEF front, p
    <2> QED
        BY <2>1, <2>2 DEF Paired, Followed, Preceded
<1>8. /\ m \in Messages /\ m.calls = 0 /\ m.role = "user"
      /\ m.list = CarriedChecklist(ms, end)
    <2>1. CarriedChecklist(ms, end) \in Int
        BY <1>4, LatestType DEF CarriedChecklist, NoList
    <2>2. PICK c \in Int : c = CarriedChecklist(ms, end)
        BY <2>1
    <2>3. PICK x : x = Message("user", size)
        OBVIOUS
    <2>4. x \in Messages /\ x.role = "user" /\ x.calls = 0
        BY <2>3 DEF Message, Messages, NoList
    <2>5. m = [x EXCEPT !.list = c]
        BY <2>2, <2>3
    <2> HIDE DEF m
    <2>6. m \in Messages /\ m.role = "user" /\ m.calls = 0 /\ m.list = c
        BY <2>4, <2>5 DEF Messages
    <2> QED
        BY <2>2, <2>6
<1>9. /\ <<m>> \in Contexts /\ Paired(<<m>>) /\ LatestChecklist(<<m>>) = m.list
      /\ Len(<<m>>) = 1
    <2> HIDE DEF m
    <2> QED
        BY <1>8, One
<1>10. Summarized(ms, end, size) = (front \o <<m>>) \o rest
    BY DEF Summarized
<1>11. ms = past \o rest
    <2>1. end \in 1..(Len(ms) + 1)
        BY <1>1, <1>2, <1>3
    <2> QED
        BY <2>1, Split
<1> DEFINE fm == front \o <<m>>
           out == fm \o rest
<1> HIDE DEF front, past, rest, m, p
<1>12. /\ fm \in Contexts /\ Paired(fm) /\ Len(fm) = p + 1
       /\ \A i \in 1..p : fm[i] = ms[i]
       /\ LatestChecklist(fm) = IF m.list # NoList THEN m.list ELSE LatestChecklist(front)
    BY <1>5, <1>7, <1>9, Joined, JoinedPaired, JoinedLatest
<1> HIDE DEF fm
<1>13. /\ out \in Contexts /\ Len(out) = p + 1 + Len(rest)
       /\ Paired(ms) => Paired(out)
       /\ \A i \in 1..p : out[i] = ms[i]
       /\ LatestChecklist(out) = IF LatestChecklist(rest) # NoList THEN LatestChecklist(rest)
                                 ELSE LatestChecklist(fm)
    <2>1. \A i \in 1..p : i \in 1..(p + 1)
        BY <1>2
    <2>2. /\ out \in Contexts /\ Len(out) = Len(fm) + Len(rest)
          /\ \A i \in 1..Len(fm) : out[i] = fm[i]
        BY <1>4, <1>12, Joined
    <2>3. Paired(ms) => Paired(out)
        BY <1>4, <1>6, <1>12, JoinedPaired
    <2>4. LatestChecklist(out) = IF LatestChecklist(rest) # NoList THEN LatestChecklist(rest)
                                 ELSE LatestChecklist(fm)
        BY <1>4, <1>12, JoinedLatest
    <2> HIDE DEF out
    <2> QED
        BY <1>12, <2>1, <2>2, <2>3, <2>4
<1>14. LatestChecklist(ms) = IF LatestChecklist(rest) # NoList THEN LatestChecklist(rest)
                             ELSE LatestChecklist(past)
    BY <1>4, <1>11, JoinedLatest
<1>15. m.list = IF LatestChecklist(rest) # NoList \/ LatestChecklist(past) = Cleared THEN NoList
                ELSE LatestChecklist(past)
    BY <1>8 DEF CarriedChecklist, past, rest
<1>16. Len(rest) \in Nat /\ p \in Nat
    BY <1>2, <1>4, AContext
<1> HIDE DEF out
<1>17. Fronted(out)
    <2>1. 1 \in 1..p /\ Len(out) >= 1
        BY <1>2, <1>13, <1>16
    <2> QED
        BY <1>13, <2>1 DEF Fronted
<1>18. ASSUME OpensWithList(ms)
       PROVE  OpensWithList(out)
    <2>1. p = 2 /\ Len(out) >= 2
        BY <1>1, <1>2, <1>13, <1>16, <1>18 DEF OpensWithList
    <2>2. 2 \in 1..p
        BY <2>1
    <2> QED
        BY <1>13, <1>18, <2>1, <2>2 DEF OpensWithList
<1>19. ASSUME ~OpensWithList(ms)
       PROVE  SameReading(LatestChecklist(out), LatestChecklist(ms))
    <2>1. Listless(front)
        <3>1. ms[1].list = NoList
            BY <1>1, <1>2 DEF Fronted
        <3>2. p = 2 => ms[2].list = NoList
            BY <1>2, <1>19 DEF OpensWithList
        <3> QED
            BY <1>2, <1>5, <3>1, <3>2 DEF Listless
    <2>2. LatestChecklist(front) = NoList
        BY <1>5, <2>1, LatestIs
    <2> QED
        BY <1>12, <1>13, <1>14, <1>15, <2>2 DEF SameReading, NoList, Cleared
<1> QED
    BY <1>10, <1>13, <1>17, <1>18, <1>19 DEF out, fm

\* A pass keeps a context in pairs, and what the agent reads in it.
LEMMA CompactKeeps ==
    ASSUME NEW ms \in Contexts, Fronted(ms), NEW size \in Nat,
           NEW usable, NEW trigger
    PROVE  /\ Compact(ms, usable, trigger, size) \in Contexts
           /\ Fronted(Compact(ms, usable, trigger, size))
           /\ Paired(ms) => Paired(Compact(ms, usable, trigger, size))
           /\ OpensWithList(ms) => OpensWithList(Compact(ms, usable, trigger, size))
           /\ \/ OpensWithList(Compact(ms, usable, trigger, size))
              \/ SameReading(LatestChecklist(Compact(ms, usable, trigger, size)),
                             LatestChecklist(ms))
<1> DEFINE squeezed == trigger = "overflow" \/ Tokens(ms) > Emergency(usable)
           snipped == Snipped(ms)
           raw == RetainedTailStart(snipped, IF squeezed THEN SqueezedTurns ELSE KeptTurns)
           pruned == PruneToolResults(snipped, raw, usable)
           end == SpanEnd(pruned, raw, usable)
<1>1. \/ Compact(ms, usable, trigger, size) = ms
      \/ Compact(ms, usable, trigger, size) = pruned
      \/ Compact(ms, usable, trigger, size) = Summarized(pruned, end, size)
    BY DEF Compact
<1>2. /\ snipped \in Contexts /\ Fronted(snipped) /\ (Paired(ms) => Paired(snipped))
      /\ OpensWithList(ms) => OpensWithList(snipped)
      /\ LatestChecklist(snipped) = LatestChecklist(ms)
    BY SnippedIs, SnippedPaired, SnippedFront, SnippedLatest
<1> HIDE DEF snipped, raw
<1>3. /\ pruned \in Contexts /\ Alike(snipped, pruned)
      /\ \A i \in 1..Len(snipped) : snipped[i].role # "tool" => pruned[i] = snipped[i]
    BY <1>2, PruneKeeps
<1> HIDE DEF pruned
<1>4. (Paired(ms) => Paired(pruned)) /\ LatestChecklist(pruned) = LatestChecklist(ms)
    BY <1>2, <1>3, AlikePaired
<1>5. Fronted(pruned) /\ (OpensWithList(ms) => OpensWithList(pruned))
    <2>1. Len(pruned) = Len(snipped) /\ Len(snipped) \in Nat
        BY <1>2, <1>3, AContext DEF Alike
    <2>2. Fronted(pruned)
        BY <1>2, <1>3, <2>1 DEF Fronted
    <2>3. ASSUME OpensWithList(ms)
          PROVE  OpensWithList(pruned)
        <3>1. OpensWithList(snipped) /\ 2 \in 1..Len(snipped)
            BY <1>2, <2>1, <2>3 DEF OpensWithList
        <3> QED
            BY <1>3, <2>1, <3>1 DEF OpensWithList
    <2> QED
        BY <2>2, <2>3
<1>6. end \in Heads(pruned) \cup {Len(pruned) + 1}
    BY <1>3, <1>5, SpanEndIs
<1> HIDE DEF end
<1>7. /\ Summarized(pruned, end, size) \in Contexts
      /\ Fronted(Summarized(pruned, end, size))
      /\ Paired(pruned) => Paired(Summarized(pruned, end, size))
      /\ OpensWithList(pruned) => OpensWithList(Summarized(pruned, end, size))
      /\ \/ OpensWithList(pruned)
         \/ SameReading(LatestChecklist(Summarized(pruned, end, size)), LatestChecklist(pruned))
    BY <1>3, <1>4, <1>5, <1>6, SummaryKeeps
<1>8. SameReading(LatestChecklist(ms), LatestChecklist(ms))
    BY DEF SameReading
<1> QED
    BY <1>1, <1>3, <1>4, <1>5, <1>7, <1>8

\* The context as it is saved, without the system message
LEMMA TailKeeps ==
    ASSUME NEW ms \in Contexts, Fronted(ms)
    PROVE  /\ Tail(ms) \in Contexts
           /\ Paired(ms) => Paired(Tail(ms))
           /\ LatestChecklist(Tail(ms)) = LatestChecklist(ms)
           /\ Len(Tail(ms)) = Len(ms) - 1
           /\ Len(ms) >= 2 => Tail(ms)[1] = ms[2]
<1>1. /\ Len(ms) \in Nat /\ Len(ms) >= 1 /\ DOMAIN ms = 1..Len(ms)
      /\ ms[1] \in Messages /\ ms[1].calls \in 0..2 /\ ms[1].role = "system"
      /\ ms[1].calls > 0 => ms[1].role = "assistant"
      /\ ms[1].list # NoList => ms[1].role \in {"user", "tool"}
    BY AContext DEF Fronted
<1>2. 2 \in 1..(Len(ms) + 1) /\ 2 - 1 = 1
    BY <1>1
<1> DEFINE rest == SubSeq(ms, 2, Len(ms))
           one == SubSeq(ms, 1, 1)
<1>3. /\ rest \in Contexts /\ Len(rest) = Len(ms) - 1
      /\ \A i \in 1..(Len(ms) + 1 - 2) : rest[i] = ms[2 - 1 + i]
      /\ one \in Contexts /\ Len(one) = 1 /\ one[1] = ms[1]
    BY <1>1, <1>2, EndOf
<1>4. Tail(ms) = rest
    <2>1. Len(Tail(ms)) = Len(ms) - 1 /\ Tail(ms) \in Seq(Messages)
        BY <1>1 DEF Contexts
    <2>2. \A i \in 1..(Len(ms) - 1) : Tail(ms)[i] = ms[i + 1]
        BY <1>1 DEF Contexts
    <2>3. \A i \in 1..(Len(ms) - 1) : rest[i] = ms[i + 1]
        <3>1. \A i \in 1..(Len(ms) - 1) : i \in 1..(Len(ms) + 1 - 2) /\ 2 - 1 + i = i + 1
            BY <1>1
        <3> HIDE DEF rest
        <3> QED
            BY <1>3, <3>1
    <2> DEFINE t == Tail(ms)
    <2>4. t \in Seq(Messages) /\ rest \in Seq(Messages)
        BY <1>3, <2>1 DEF Contexts
    <2> HIDE DEF t, rest
    <2>5. t = [i \in 1..Len(t) |-> t[i]] /\ rest = [i \in 1..Len(rest) |-> rest[i]]
        BY <2>4
    <2>6. t = rest
        BY <1>3, <2>1, <2>2, <2>3, <2>5 DEF t
    <2> QED
        BY <2>6 DEF t
<1>5. Paired(ms) => Paired(rest)
    <2>1. Paired(ms) /\ 2 \in DOMAIN ms => ms[2].role # "tool"
        BY <1>1 DEF Paired, Preceded
    <2> QED
        BY <1>2, <2>1, EndPaired
<1>6. LatestChecklist(rest) = LatestChecklist(ms)
    <2>1. ms = one \o rest
        BY <1>2, Split
    <2>2. LatestChecklist(one) = NoList
        <3>1. ms[1].list = NoList
            BY <1>1
        <3> HIDE DEF one
        <3>2. Listless(one)
            BY <1>3, <3>1 DEF Listless
        <3> QED
            BY <1>3, <3>2, LatestIs
    <2> HIDE DEF one, rest
    <2>3. LatestChecklist(one \o rest) = IF LatestChecklist(rest) # NoList
                                         THEN LatestChecklist(rest) ELSE LatestChecklist(one)
        BY <1>3, JoinedLatest
    <2> QED
        BY <2>1, <2>2, <2>3
<1>7. Len(ms) >= 2 => rest[1] = ms[2]
    <2>1. Len(ms) >= 2 => 1 \in 1..(Len(ms) + 1 - 2) /\ 2 - 1 + 1 = 2
        BY <1>1
    <2> HIDE DEF rest
    <2> QED
        BY <1>3, <2>1
<1> QED
    BY <1>3, <1>4, <1>5, <1>6, <1>7

\* The empty context
LEMMA NothingSaid ==
    /\ <<>> \in Contexts /\ Paired(<<>>) /\ LatestChecklist(<<>>) = NoList
<1>1. <<>> \in Contexts /\ Len(<<>>) = 0 /\ DOMAIN <<>> = {}
    BY DEF Contexts
<1> QED
    BY <1>1, LatestIs DEF Listless, Paired, Followed, Preceded

LEMMA AppendIs ==
    ASSUME NEW ms \in Contexts, NEW m \in Messages
    PROVE  Append(ms, m) = ms \o <<m>>
BY DEF Contexts

\* The messages of a round
LEMMA CalledIs ==
    ASSUME NEW n \in 1..2
    PROVE  Called(n) \in Messages /\ Called(n).calls = n /\ Called(n).list = NoList
<1>1. PICK a : a = Message("assistant", 1)
    OBVIOUS
<1>2. a \in Messages /\ a.role = "assistant" /\ a.list = NoList
    BY <1>1 DEF Message, Messages, NoList
<1>3. Called(n) = [a EXCEPT !.calls = n]
    BY <1>1 DEF Called
<1> QED
    BY <1>2, <1>3 DEF Messages

LEMMA ResultIs ==
    ASSUME NEW r \in Results
    PROVE  Result(r) \in Messages /\ Result(r).role = "tool" /\ Result(r).list = NoList
<1>1. PICK b : b = Message("tool", r.size)
    OBVIOUS
<1>2. r.size \in Nat /\ r.repeats \in BOOLEAN
    BY CompactionAssumption
<1>3. b \in Messages /\ b.role = "tool" /\ b.list = NoList
    BY <1>1, <1>2 DEF Message, Messages, NoList
<1>4. Result(r) = [b EXCEPT !.repeats = r.repeats]
    BY <1>1 DEF Result
<1> QED
    BY <1>2, <1>3, <1>4 DEF Messages

LEMMA ChecklistIs ==
    ASSUME NEW l \in Int
    PROVE  Checklist(l) \in Messages /\ Checklist(l).role = "tool" /\ Checklist(l).list = l
<1>1. PICK c : c = Message("tool", 1)
    OBVIOUS
<1>2. c \in Messages /\ c.role = "tool"
    BY <1>1 DEF Message, Messages, NoList
<1>3. Checklist(l) = [c EXCEPT !.list = l]
    BY <1>1 DEF Checklist
<1> QED
    BY <1>2, <1>3 DEF Messages

LEMMA ScreenIs ==
    Screen \in Messages /\ Screen.list = NoList
BY DEF Screen, Message, Messages, NoList

LEMMA PlainIs ==
    ASSUME NEW size \in Nat, NEW role \in {"system", "user", "assistant"}
    PROVE  /\ Message(role, size) \in Messages /\ Message(role, size).calls = 0
           /\ Message(role, size).role = role /\ Message(role, size).list = NoList
BY DEF Message, Messages, NoList

\* A round of one call, and of two
LEMMA Two ==
    ASSUME NEW a \in Messages, NEW b \in Messages
    PROVE  /\ <<a, b>> \in Contexts
           /\ a.calls = 1 /\ b.role = "tool" => Paired(<<a, b>>)
           /\ b.list # NoList => LatestChecklist(<<a, b>>) = b.list
           /\ a.list = NoList /\ b.list = NoList => LatestChecklist(<<a, b>>) = NoList
<1> DEFINE s == <<a, b>>
<1>1. s \in Contexts /\ Len(s) = 2 /\ DOMAIN s = 1..2 /\ s[1] = a /\ s[2] = b
    BY DEF Contexts
<1> HIDE DEF s
<1>2. b.role = "tool" => b.calls = 0
    BY DEF Messages
<1>3. a.calls > 0 => a.role = "assistant"
    BY DEF Messages
<1>4. a.calls = 1 /\ b.role = "tool" => Paired(s)
    <2> SUFFICES ASSUME a.calls = 1, b.role = "tool" PROVE Paired(s)
        OBVIOUS
    <2>1. Followed(s)
        BY <1>1, <1>2 DEF Followed
    <2>2. Preceded(s)
        BY <1>1, <1>3 DEF Preceded
    <2> QED
        BY <2>1, <2>2 DEF Paired
<1>5. b.list # NoList => ReadLast(s, 2)
    BY <1>1 DEF ReadLast
<1>6. a.list = NoList /\ b.list = NoList => Listless(s)
    BY <1>1 DEF Listless
<1>7. b.list # NoList => LatestChecklist(s) = b.list
    BY <1>1, <1>5, LatestIs
<1>8. a.list = NoList /\ b.list = NoList => LatestChecklist(s) = NoList
    BY <1>1, <1>6, LatestIs
<1> QED
    BY <1>1, <1>4, <1>7, <1>8 DEF s

LEMMA Three ==
    ASSUME NEW a \in Messages, NEW b \in Messages, NEW c \in Messages,
           a.calls = 2, b.role = "tool", c.role = "tool"
    PROVE  Paired(<<a, b>> \o <<c>>)
<1> DEFINE s == <<a, b>> \o <<c>>
<1>1. /\ s \in Contexts /\ Len(s) = 3 /\ DOMAIN s = 1..3
      /\ s[1] = a /\ s[2] = b /\ s[3] = c
    <2> DEFINE x == <<a, b>>
               y == <<c>>
    <2>1. /\ x \in Contexts /\ Len(x) = 2 /\ x[1] = a /\ x[2] = b
          /\ y \in Contexts /\ Len(y) = 1 /\ y[1] = c
        BY DEF Contexts
    <2> HIDE DEF x, y
    <2>2. /\ x \o y \in Contexts /\ Len(x \o y) = 3
          /\ \A i \in 1..2 : (x \o y)[i] = x[i]
          /\ \A i \in 1..1 : (x \o y)[2 + i] = y[i]
        <3>1. /\ x \o y \in Contexts /\ Len(x \o y) = Len(x) + Len(y)
              /\ \A i \in 1..Len(x) : (x \o y)[i] = x[i]
              /\ \A i \in 1..Len(y) : (x \o y)[Len(x) + i] = y[i]
            BY <2>1, Joined
        <3> QED
            BY <2>1, <3>1
    <2>3. DOMAIN (x \o y) = 1..3
        BY <2>2, AContext
    <2>4. (x \o y)[2 + 1] = c
        BY <2>1, <2>2
    <2> QED
        BY <2>1, <2>2, <2>3, <2>4 DEF x, y
<1> HIDE DEF s
<1>2. b.calls = 0 /\ c.calls = 0 /\ a.role = "assistant"
    BY DEF Messages
<1>3. Followed(s)
    BY <1>1, <1>2 DEF Followed
<1>4. Preceded(s)
    BY <1>1, <1>2 DEF Preceded
<1> QED
    BY <1>1, <1>3, <1>4 DEF Paired, s
-----------------------------------------------------------------------------
(***************************************************************************)
(* The loop                                                                *)
(***************************************************************************)

\* A prompt is saved before the first round of its turn only.
ContextTyped ==
    /\ window \in Nat /\ list \in Int /\ safe \in BOOLEAN
    /\ used \in [turns : Nat, rounds : Nat, lists : Nat]
    /\ stored \in Contexts /\ messages \in Contexts /\ said \in Contexts
    /\ phase = "idle" => messages = <<>> /\ said = <<>>
    /\ phase # "idle" => Fronted(messages)
    /\ safe => said = <<>>

\* Every part of a context is in pairs.
InPairs == Paired(stored) /\ Paired(messages) /\ Paired(said)

\* What is stored opens with a list once a context that was saved does.
StartsWithList(st) ==
    Len(st) >= 1 /\ st[1].role = "user" /\ st[1].size <= MaxPinned /\ st[1].list # NoList

\* The list is read in the request and in what the next turn will load: what is
\* stored and what the turn at hand has said.
ListIsRead ==
    /\ phase # "idle" =>
          OpensWithList(messages) \/ SameReading(LatestChecklist(messages), list)
    /\ StartsWithList(stored) \/ SameReading(LatestChecklist(stored \o said), list)

LEMMA Equivalence ==
    ASSUME NEW a, NEW b, NEW c
    PROVE  /\ SameReading(a, a)
           /\ SameReading(a, b) /\ SameReading(b, c) => SameReading(a, c)
BY DEF SameReading, NoList, Cleared

\* What is appended to a saved prompt leaves its first message.
LEMMA StartKept ==
    ASSUME NEW st \in Contexts, NEW entry \in Contexts
    PROVE  StartsWithList(st) => StartsWithList(st \o entry)
<1> SUFFICES ASSUME StartsWithList(st) PROVE StartsWithList(st \o entry)
    OBVIOUS
<1>1. Len(st) \in Nat /\ Len(entry) \in Nat
    BY AContext
<1>2. Len(st \o entry) = Len(st) + Len(entry) /\ \A i \in 1..Len(st) : (st \o entry)[i] = st[i]
    BY Joined
<1>3. 1 \in 1..Len(st)
    BY <1>1 DEF StartsWithList
<1>4. (st \o entry)[1] = st[1] /\ Len(st \o entry) >= 1
    BY <1>1, <1>2, <1>3
<1> QED
    BY <1>4 DEF StartsWithList

LEMMA SaidNothing ==
    ASSUME NEW st \in Contexts
    PROVE  st \o <<>> = st
BY DEF Contexts

\* The request is replaced by what a pass left of it, which may be saved.
LEMMA PassStep ==
    ASSUME ContextTyped, ListIsRead, phase # "idle",
           NEW left \in Contexts, Fronted(left),
           OpensWithList(messages) => OpensWithList(left),
           OpensWithList(left) \/ SameReading(LatestChecklist(left), LatestChecklist(messages)),
           messages' = left, stored' = stored \/ stored' = SavePrompt(left),
           UNCHANGED <<window, said, safe, list, used>>, phase' # "idle"
    PROVE  /\ ContextTyped' /\ ListIsRead'
           /\ InPairs /\ Paired(left) => InPairs'
<1>1. /\ Tail(left) \in Contexts /\ (Paired(left) => Paired(Tail(left)))
      /\ LatestChecklist(Tail(left)) = LatestChecklist(left)
      /\ Len(Tail(left)) = Len(left) - 1
      /\ Len(left) >= 2 => Tail(left)[1] = left[2]
      /\ Len(left) \in Nat
    BY TailKeeps, AContext
<1>2. stored' = stored \/ (stored' = Tail(left) /\ said = <<>>)
    BY DEF SavePrompt, ContextTyped
<1>3. ContextTyped'
    BY <1>1, <1>2 DEF ContextTyped
<1>4. OpensWithList(left) \/ SameReading(LatestChecklist(left), list)
    BY Equivalence DEF ListIsRead
<1>5. StartsWithList(stored') \/ SameReading(LatestChecklist(stored' \o said), list)
    <2>1. CASE stored' = stored
        BY <2>1 DEF ListIsRead
    <2>2. CASE stored' = Tail(left) /\ said = <<>>
        <3>1. OpensWithList(left) => StartsWithList(Tail(left))
            BY <1>1 DEF OpensWithList, StartsWithList
        <3>2. Tail(left) \o <<>> = Tail(left)
            BY <1>1, SaidNothing
        <3> QED
            BY <1>1, <1>4, <2>2, <3>1, <3>2
    <2> QED
        BY <1>2, <2>1, <2>2
<1>6. ListIsRead'
    BY <1>4, <1>5 DEF ListIsRead
<1>7. InPairs /\ Paired(left) => InPairs'
    BY <1>1, <1>2 DEF InPairs
<1> QED
    BY <1>3, <1>6, <1>7

\* The turn ends and leaves its row.
LEMMA EndStep ==
    ASSUME ContextTyped, ListIsRead, NEW entry \in Contexts,
           LatestChecklist(entry) = LatestChecklist(said), End(entry)
    PROVE  /\ ContextTyped' /\ ListIsRead'
           /\ InPairs /\ Paired(entry) => InPairs'
<1>1. /\ stored' = stored \o entry /\ phase' = "idle" /\ messages' = <<>> /\ said' = <<>>
      /\ safe' = FALSE /\ window' = window /\ list' = list /\ used' = used
    BY DEF End
<1>2. stored \in Contexts /\ said \in Contexts
    BY DEF ContextTyped
<1>3. stored \o entry \in Contexts
    BY <1>2, Joined
<1>4. ContextTyped'
    BY <1>1, <1>3, NothingSaid DEF ContextTyped
<1>5. LatestChecklist(stored \o entry) = LatestChecklist(stored \o said)
    BY <1>2, JoinedLatest
<1>6. stored' \o said' = stored \o entry
    BY <1>1, <1>3, SaidNothing
<1>7. StartsWithList(stored) => StartsWithList(stored')
    BY <1>1, <1>2, StartKept
<1>8. ListIsRead'
    BY <1>1, <1>5, <1>6, <1>7 DEF ListIsRead
<1>9. InPairs /\ Paired(entry) => InPairs'
    BY <1>1, <1>2, NothingSaid, JoinedPaired DEF InPairs
<1> QED
    BY <1>4, <1>8, <1>9

\* A round of calls is added to the request and to the row.
LEMMA RoundStep ==
    ASSUME ContextTyped, ListIsRead, phase # "idle",
           NEW request \in Contexts, NEW entry \in Contexts,
           \/ /\ LatestChecklist(request) = NoList /\ LatestChecklist(entry) = NoList
              /\ list' = list
           \/ /\ LatestChecklist(request) = list' /\ LatestChecklist(entry) = list'
              /\ list' \in Int /\ list' # NoList,
           used' \in [turns : Nat, rounds : Nat, lists : Nat],
           AddRound(request, entry)
    PROVE  /\ ContextTyped' /\ ListIsRead'
           /\ InPairs /\ Paired(request) /\ Paired(entry) => InPairs'
<1>1. /\ messages' = messages \o request /\ said' = said \o entry /\ safe' = FALSE
      /\ phase' = "step" /\ window' = window /\ stored' = stored
    BY DEF AddRound
<1>2. /\ stored \in Contexts /\ messages \in Contexts /\ said \in Contexts
      /\ Fronted(messages) /\ list \in Int
    BY DEF ContextTyped
<1>3. /\ messages \o request \in Contexts
      /\ Len(messages \o request) = Len(messages) + Len(request)
      /\ \A i \in 1..Len(messages) : (messages \o request)[i] = messages[i]
      /\ said \o entry \in Contexts /\ stored \o said \in Contexts
    BY <1>2, Joined
<1>4. Len(messages) \in Nat /\ Len(request) \in Nat
    BY <1>2, AContext
<1>5. Fronted(messages \o request)
    <2>1. 1 \in 1..Len(messages)
        BY <1>2, <1>4 DEF Fronted
    <2> QED
        BY <1>2, <1>3, <1>4, <2>1 DEF Fronted
<1>6. ContextTyped'
    BY <1>1, <1>2, <1>3, <1>5 DEF ContextTyped
<1>7. OpensWithList(messages) => OpensWithList(messages \o request)
    <2> SUFFICES ASSUME OpensWithList(messages) PROVE OpensWithList(messages \o request)
        OBVIOUS
    <2>1. 2 \in 1..Len(messages)
        BY <1>4 DEF OpensWithList
    <2>2. (messages \o request)[2] = messages[2] /\ Len(messages \o request) >= 2
        BY <1>3, <1>4, <2>1
    <2> QED
        BY <2>2 DEF OpensWithList
<1>8. LatestChecklist(messages \o request) =
          IF LatestChecklist(request) # NoList THEN LatestChecklist(request)
          ELSE LatestChecklist(messages)
    BY <1>2, JoinedLatest
<1>9. LatestChecklist(said \o entry) =
          IF LatestChecklist(entry) # NoList THEN LatestChecklist(entry) ELSE LatestChecklist(said)
    BY <1>2, JoinedLatest
<1>10. /\ LatestChecklist(stored \o said) =
             IF LatestChecklist(said) # NoList THEN LatestChecklist(said)
             ELSE LatestChecklist(stored)
       /\ LatestChecklist(stored \o (said \o entry)) =
             IF LatestChecklist(said \o entry) # NoList THEN LatestChecklist(said \o entry)
             ELSE LatestChecklist(stored)
    BY <1>2, <1>3, JoinedLatest
<1>11. ListIsRead'
    BY <1>1, <1>7, <1>8, <1>9, <1>10, Equivalence DEF ListIsRead
<1>12. InPairs /\ Paired(request) /\ Paired(entry) => InPairs'
    BY <1>1, <1>2, JoinedPaired DEF InPairs
<1> QED
    BY <1>6, <1>11, <1>12

\* The three parts of the invariant hold at first, and every step keeps them.
LEMMA ContextBegins ==
    ContextInit => ContextTyped /\ ListIsRead /\ InPairs
<1> SUFFICES ASSUME ContextInit PROVE ContextTyped /\ ListIsRead /\ InPairs
    OBVIOUS
<1>1. ContextTyped
    <2>1. window \in Nat
        BY CompactionAssumption DEF ContextInit
    <2>2. used \in [turns : Nat, rounds : Nat, lists : Nat]
        BY DEF ContextInit
    <2>3. list \in Int
        BY DEF ContextInit, NoList
    <2>4. /\ stored = <<>> /\ messages = <<>> /\ said = <<>>
          /\ safe = FALSE /\ phase = "idle"
        BY DEF ContextInit
    <2> QED
        BY <2>1, <2>2, <2>3, <2>4, NothingSaid DEF ContextTyped
<1>2. <<>> \o <<>> = <<>>
    BY NothingSaid, SaidNothing
<1>3. ListIsRead
    BY <1>2, NothingSaid, Equivalence DEF ContextInit, ListIsRead
<1>4. InPairs
    BY NothingSaid DEF ContextInit, InPairs
<1> QED
    BY <1>1, <1>3, <1>4

LEMMA ContextGoesOn ==
    ASSUME ContextTyped, ListIsRead, [ContextNext]_contextVars
    PROVE  ContextTyped' /\ ListIsRead' /\ (InPairs /\ ~Screens => InPairs')
<1>1. CASE StartTurn
    <2>1. PICK size \in Inputs :
             /\ stored' = Append(stored, Message("user", size))
             /\ messages' = <<Message("system", 1)>> \o stored'
        BY <1>1 DEF StartTurn
    <2>2. /\ phase = "idle" /\ phase' = "step" /\ said' = <<>> /\ safe' \in BOOLEAN
          /\ UNCHANGED <<window, list>> /\ used' = [used EXCEPT !.turns = @ + 1]
        BY <1>1 DEF StartTurn
    <2>3. /\ stored \in Contexts /\ said = <<>>
          /\ used' \in [turns : Nat, rounds : Nat, lists : Nat]
        BY <2>2 DEF ContextTyped
    <2>4. PICK u \in Messages :
             u = Message("user", size) /\ u.calls = 0 /\ u.role = "user" /\ u.list = NoList
        BY CompactionAssumption, PlainIs
    <2>5. PICK m \in Messages :
             m = Message("system", 1) /\ m.calls = 0 /\ m.role = "system" /\ m.list = NoList
        BY PlainIs
    <2>6. stored' = stored \o <<u>>
        BY <2>1, <2>3, <2>4, AppendIs
    <2>7. /\ <<u>> \in Contexts /\ Paired(<<u>>) /\ LatestChecklist(<<u>>) = NoList
          /\ <<m>> \in Contexts /\ Paired(<<m>>) /\ LatestChecklist(<<m>>) = NoList
          /\ Len(<<m>>) = 1 /\ <<m>>[1] = m
        BY <2>4, <2>5, One
    <2> DEFINE one == <<m>>
               st == stored \o <<u>>
    <2>8. /\ st \in Contexts /\ LatestChecklist(st) = LatestChecklist(stored)
          /\ StartsWithList(stored) => StartsWithList(st)
          /\ Paired(stored) => Paired(st)
        BY <2>3, <2>7, Joined, JoinedLatest, StartKept, JoinedPaired
    <2>9. /\ stored' = st /\ messages' = one \o st
        BY <2>1, <2>5, <2>6
    <2>10. /\ one \in Contexts /\ Paired(one) /\ LatestChecklist(one) = NoList
           /\ Len(one) = 1 /\ one[1] = m
        BY <2>7
    <2> HIDE DEF one, st
    <2>11. /\ one \o st \in Contexts /\ Len(one \o st) = 1 + Len(st)
           /\ (one \o st)[1] = m /\ (Len(st) >= 1 => (one \o st)[2] = st[1])
           /\ Len(st) \in Nat
        <3>1. Len(st) \in Nat /\ 1 \in 1..Len(one)
            BY <2>8, <2>10, AContext
        <3>2. /\ one \o st \in Contexts /\ Len(one \o st) = Len(one) + Len(st)
              /\ \A i \in 1..Len(one) : (one \o st)[i] = one[i]
              /\ \A i \in 1..Len(st) : (one \o st)[Len(one) + i] = st[i]
            BY <2>8, <2>10, Joined
        <3>3. Len(st) >= 1 => 1 \in 1..Len(st) /\ 1 + 1 = 2
            BY <3>1
        <3>4. Len(st) >= 1 => (one \o st)[1 + 1] = st[1]
            BY <2>10, <3>2, <3>3
        <3>5. (one \o st)[1] = m
            BY <2>10, <3>1, <3>2
        <3> QED
            BY <2>10, <3>1, <3>2, <3>4, <3>5
    <2>12. Fronted(one \o st) /\ (StartsWithList(st) => OpensWithList(one \o st))
        BY <2>5, <2>11 DEF Fronted, StartsWithList, OpensWithList
    <2>13. LatestChecklist(one \o st) = LatestChecklist(st)
        BY <2>8, <2>10, JoinedLatest
    <2>14. st \o <<>> = st /\ stored \o <<>> = stored
        BY <2>3, <2>8, SaidNothing
    <2>15. ContextTyped'
        BY <2>2, <2>3, <2>8, <2>9, <2>11, <2>12, NothingSaid DEF ContextTyped
    <2>16. ListIsRead'
        BY <2>2, <2>3, <2>8, <2>9, <2>12, <2>13, <2>14 DEF ListIsRead
    <2>17. InPairs => InPairs'
        BY <2>2, <2>8, <2>9, <2>10, NothingSaid, JoinedPaired DEF InPairs
    <2> QED
        BY <2>15, <2>16, <2>17
<1>2. CASE PreStep
    <2>1. PICK size, left :
             /\ size \in Inputs
             /\ left = IF window = 0 THEN messages
                       ELSE Compact(messages, window, "pressure", size)
             /\ messages' = left
             /\ stored' = IF MadeProgress(messages, left) THEN SavePrompt(left) ELSE stored
        BY <1>2 DEF PreStep
    <2>2. phase = "step" /\ phase' = "sent" /\ UNCHANGED <<window, said, safe, list, used>>
        BY <1>2 DEF PreStep
    <2>3. messages \in Contexts /\ Fronted(messages) /\ size \in Nat
        BY <2>1, <2>2, CompactionAssumption DEF ContextTyped
    <2>4. /\ left \in Contexts /\ Fronted(left) /\ (Paired(messages) => Paired(left))
          /\ OpensWithList(messages) => OpensWithList(left)
          /\ OpensWithList(left) \/ SameReading(LatestChecklist(left), LatestChecklist(messages))
        BY <2>1, <2>3, CompactKeeps, Equivalence
    <2>5. ContextTyped' /\ ListIsRead' /\ (InPairs /\ Paired(left) => InPairs')
        BY <2>1, <2>2, <2>4, PassStep
    <2> QED
        BY <2>4, <2>5 DEF InPairs
<1>3. CASE Reject
    BY <1>3 DEF Reject, ContextTyped, ListIsRead, InPairs
<1>4. CASE Reduce
    <2>1. PICK size, left, usable :
             /\ size \in Inputs
             /\ left = Compact(messages, usable, "overflow", size)
             /\ IF MadeProgress(messages, left)
                THEN /\ messages' = left
                     /\ stored' = SavePrompt(left)
                     /\ phase' = "step"
                     /\ UNCHANGED <<window, said, safe, refused, list, used>>
                ELSE End(said)
        BY <1>4 DEF Reduce
    <2>2. phase = "rejected"
        BY <1>4 DEF Reduce
    <2>3. messages \in Contexts /\ Fronted(messages) /\ size \in Nat /\ said \in Contexts
        BY <2>1, <2>2, CompactionAssumption DEF ContextTyped
    <2>4. /\ left \in Contexts /\ Fronted(left) /\ (Paired(messages) => Paired(left))
          /\ OpensWithList(messages) => OpensWithList(left)
          /\ OpensWithList(left) \/ SameReading(LatestChecklist(left), LatestChecklist(messages))
        BY <2>1, <2>3, CompactKeeps
    <2>5. CASE MadeProgress(messages, left)
        <3>1. ContextTyped' /\ ListIsRead' /\ (InPairs /\ Paired(left) => InPairs')
            BY <2>1, <2>2, <2>4, <2>5, PassStep
        <3> QED
            BY <2>4, <3>1 DEF InPairs
    <2>6. CASE ~MadeProgress(messages, left)
        <3>1. ContextTyped' /\ ListIsRead' /\ (InPairs /\ Paired(said) => InPairs')
            BY <2>1, <2>3, <2>6, EndStep
        <3> QED
            BY <3>1 DEF InPairs
    <2> QED
        BY <2>5, <2>6
<1>5. CASE CallTools
    <2>1. PICK r \in Results, n \in 1..2, screen \in (IF Screens THEN BOOLEAN ELSE {FALSE}) :
             AddRound((<<Called(n), Result(r)>> \o (IF screen THEN <<Screen>> ELSE <<>>))
                          \o (IF n = 2 THEN <<Result(r)>> ELSE <<>>),
                      <<Called(n), Result(r)>> \o (IF n = 2 THEN <<Result(r)>> ELSE <<>>))
        BY <1>5 DEF CallTools
    <2>2. /\ phase = "sent" /\ list' = list
          /\ used' \in [turns : Nat, rounds : Nat, lists : Nat]
        BY <1>5 DEF CallTools, ContextTyped
    <2>3. PICK c \in Messages, t \in Messages :
             /\ c = Called(n) /\ c.calls = n /\ c.list = NoList
             /\ t = Result(r) /\ t.role = "tool" /\ t.list = NoList
        BY CalledIs, ResultIs
    <2> DEFINE first == <<c, t>>
               shown == IF screen THEN <<Screen>> ELSE <<>>
               second == IF n = 2 THEN <<t>> ELSE <<>>
    <2>4. /\ first \in Contexts /\ LatestChecklist(first) = NoList
          /\ n = 1 => Paired(first)
        BY <2>3, Two
    <2>5. shown \in Contexts /\ LatestChecklist(shown) = NoList
        BY ScreenIs, One, NothingSaid
    <2>6. second \in Contexts /\ LatestChecklist(second) = NoList
        BY <2>3, One, NothingSaid
    <2>7. ~Screens => first \o shown = first
        <3>1. ~Screens => shown = <<>>
            OBVIOUS
        <3> QED
            BY <2>4, <3>1, SaidNothing
    <2>8. Paired(first \o second)
        <3>1. CASE n = 1
            BY <2>4, <3>1, SaidNothing
        <3>2. CASE n = 2
            <4>1. second = <<t>>
                BY <3>2
            <4> QED
                BY <2>3, <3>2, <4>1, Three
        <3> QED
            BY <3>1, <3>2
    <2>9. AddRound((first \o shown) \o second, first \o second)
        BY <2>1, <2>3
    <2> HIDE DEF first, shown, second
    <2>10. /\ first \o shown \in Contexts /\ LatestChecklist(first \o shown) = NoList
           /\ first \o second \in Contexts /\ LatestChecklist(first \o second) = NoList
        BY <2>4, <2>5, <2>6, Joined, JoinedLatest
    <2>11. (first \o shown) \o second \in Contexts
        BY <2>6, <2>10, Joined
    <2>12. LatestChecklist((first \o shown) \o second) = NoList
        BY <2>6, <2>10, JoinedLatest
    <2>13. /\ ContextTyped' /\ ListIsRead'
           /\ InPairs /\ Paired((first \o shown) \o second) /\ Paired(first \o second) => InPairs'
        BY <2>2, <2>9, <2>10, <2>11, <2>12, RoundStep
    <2> QED
        BY <2>7, <2>8, <2>13
<1>6. CASE WriteList
    <2>1. /\ phase = "sent" /\ list' \in {Cleared, used.lists + 1}
          /\ used' = [used EXCEPT !.rounds = @ + 1, !.lists = @ + 1]
          /\ AddRound(<<Called(1), Checklist(list')>>, <<Called(1), Checklist(list')>>)
        BY <1>6 DEF WriteList
    <2>2. /\ used' \in [turns : Nat, rounds : Nat, lists : Nat]
          /\ list' \in Int /\ list' # NoList
        <3>1. PICK u \in [turns : Nat, rounds : Nat, lists : Nat] : u = used
            BY DEF ContextTyped
        <3>2. used' = [u EXCEPT !.rounds = @ + 1, !.lists = @ + 1]
            BY <2>1, <3>1
        <3>3. used' \in [turns : Nat, rounds : Nat, lists : Nat]
            <4>1. PICK v \in [turns : Nat, rounds : Nat, lists : Nat] :
                     v = [u EXCEPT !.rounds = @ + 1]
                <5>1. [u EXCEPT !.rounds = u.rounds + 1] \in
                          [turns : Nat, rounds : Nat, lists : Nat]
                    OBVIOUS
                <5> QED
                    BY <5>1, Zenon
            <4>2. [v EXCEPT !.lists = v.lists + 1] \in [turns : Nat, rounds : Nat, lists : Nat]
                OBVIOUS
            <4>3. v.lists = u.lists
                BY <4>1
            <4> QED
                BY <3>2, <4>1, <4>2, <4>3
        <3>4. u.lists + 1 \in Nat /\ u.lists + 1 # NoList
            BY DEF NoList
        <3> QED
            BY <2>1, <3>1, <3>3, <3>4 DEF NoList, Cleared
    <2>3. PICK l \in Int : l = list'
        BY <2>2
    <2>4. PICK c : c = Called(1) /\ c \in Messages /\ c.calls = 1
        <3>1. Called(1) \in Messages /\ Called(1).calls = 1
            BY CalledIs, 1 \in 1..2
        <3> QED
            BY <3>1
    <2>5. PICK t : t = Checklist(l) /\ t \in Messages /\ t.role = "tool" /\ t.list = l
        BY ChecklistIs
    <2> DEFINE both == <<c, t>>
    <2>6. both \in Contexts /\ Paired(both) /\ LatestChecklist(both) = l
        BY <2>2, <2>3, <2>4, <2>5, Two
    <2>7. AddRound(both, both)
        BY <2>1, <2>3, <2>4, <2>5
    <2> HIDE DEF both
    <2>8. /\ ContextTyped' /\ ListIsRead'
          /\ InPairs /\ Paired(both) /\ Paired(both) => InPairs'
        BY <2>1, <2>2, <2>3, <2>6, <2>7, RoundStep
    <2> QED
        BY <2>6, <2>8
<1>7. CASE Reply
    <2>1. PICK size \in {0, 1} : End(Append(said, Message("assistant", size)))
        BY <1>7 DEF Reply
    <2>2. PICK m \in Messages :
             m = Message("assistant", size) /\ m.calls = 0 /\ m.role = "assistant"
             /\ m.list = NoList
        BY PlainIs
    <2>3. said \in Contexts
        BY DEF ContextTyped
    <2>4. Append(said, m) = said \o <<m>>
        BY <2>2, <2>3, AppendIs
    <2>5. /\ <<m>> \in Contexts /\ Paired(<<m>>) /\ LatestChecklist(<<m>>) = NoList
        BY <2>2, One
    <2> DEFINE entry == said \o <<m>>
    <2>6. /\ entry \in Contexts /\ LatestChecklist(entry) = LatestChecklist(said)
          /\ Paired(said) => Paired(entry)
        BY <2>3, <2>5, Joined, JoinedLatest, JoinedPaired
    <2>7. End(entry)
        BY <2>1, <2>2, <2>4
    <2> HIDE DEF entry
    <2>8. ContextTyped' /\ ListIsRead' /\ (InPairs /\ Paired(entry) => InPairs')
        BY <2>6, <2>7, EndStep
    <2> QED
        BY <2>6, <2>8 DEF InPairs
<1>8. CASE UNCHANGED contextVars
    BY <1>8 DEF contextVars, ContextTyped, ListIsRead, InPairs
<1> QED
    BY <1>1, <1>2, <1>3, <1>4, <1>5, <1>6, <1>7, <1>8 DEF ContextNext

\* In pairs, each call has as many results behind it as it made calls.
LEMMA PairsKeepResults ==
    ASSUME messages \in Contexts, Paired(messages)
    PROVE  CallsKeepResults
<1> DEFINE results(j) == {i \in (j + 1)..Len(messages) :
                             /\ messages[i].role = "tool"
                             /\ \A k \in (j + 1)..(i - 1) : messages[k].calls = 0}
<1>1. /\ Len(messages) \in Nat /\ DOMAIN messages = 1..Len(messages)
      /\ \A i \in 1..Len(messages) : /\ messages[i].calls \in 0..2
                                     /\ messages[i].calls > 0 => messages[i].role = "assistant"
    BY AContext
<1>2. ASSUME NEW j \in DOMAIN messages, messages[j].calls > 0
      PROVE  Cardinality(results(j)) = messages[j].calls
    <2>1. PICK n \in 1..2 : n = messages[j].calls
        BY <1>1, <1>2
    <2>2. j \in 1..Len(messages)
        BY <1>1
    <2>3. \A k \in 1..n : j + k \in 1..Len(messages) /\ messages[j + k].role = "tool"
        BY <1>1, <2>1, <2>2 DEF Paired, Followed
    <2>4. ASSUME NEW i \in (j + 1)..(j + n)
          PROVE  i \in 1..Len(messages) /\ messages[i].role = "tool" /\ messages[i].calls = 0
        <3>1. i - j \in 1..n /\ j + (i - j) = i
            BY <2>2
        <3> QED
            BY <1>1, <2>3, <3>1
    <2>5. ASSUME NEW i \in (j + 1)..(j + n)
          PROVE  i \in results(j)
        <3>1. \A k \in (j + 1)..(i - 1) : k \in (j + 1)..(j + n)
            BY <2>2
        <3>2. i \in (j + 1)..Len(messages)
            BY <2>2, <2>4
        <3> QED
            BY <2>4, <3>1, <3>2
    <2>6. ASSUME NEW i \in results(j)
          PROVE  i \in (j + 1)..(j + n)
        <3>1. /\ i \in 1..Len(messages) /\ i > j /\ messages[i].role = "tool"
              /\ \A k \in (j + 1)..(i - 1) : messages[k].calls = 0
            BY <1>1, <2>2
        <3>2. \/ i > 1 /\ messages[i - 1].calls > 0
              \/ i > 2 /\ messages[i - 2].calls = 2
            BY <1>1, <3>1 DEF Paired, Preceded
        <3>3. CASE i > 1 /\ messages[i - 1].calls > 0
            <4>1. i - 1 \notin (j + 1)..(i - 1)
                BY <3>1, <3>3
            <4> QED
                BY <2>2, <3>1, <4>1
        <3>4. CASE i > 2 /\ messages[i - 2].calls = 2
            <4>1. i - 2 \notin (j + 1)..(i - 1)
                BY <3>1, <3>4
            <4>2. i <= j + 2
                BY <2>2, <3>1, <4>1
            <4>3. i = j + 2 => n = 2
                <5>1. i = j + 2 => i - 2 = j
                    BY <2>2
                <5> QED
                    BY <2>1, <3>4, <5>1
            <4> QED
                BY <2>2, <3>1, <4>2, <4>3
        <3> QED
            BY <3>2, <3>3, <3>4
    <2>7. results(j) = (j + 1)..(j + n)
        BY <2>5, <2>6
    <2>8. Cardinality((j + 1)..(j + n)) = n
        <3>1. j + 1 \in Int /\ j + n \in Int /\ n \in 1..2
            BY <2>2
        <3> DEFINE a == j + 1
                   b == j + n
        <3>2. b - a + 1 = n /\ ~(a > b)
            BY <2>2
        <3> HIDE DEF a, b
        <3>3. Cardinality(a..b) = n
            BY <3>1, <3>2, FS_Interval DEF a, b
        <3> QED
            BY <3>3 DEF a, b
    <2> QED
        BY <2>1, <2>7, <2>8
<1>3. ASSUME NEW i \in DOMAIN messages, messages[i].role = "tool"
      PROVE  \E j \in 1..(i - 1) : messages[j].calls > 0
    <2>1. \/ i > 1 /\ messages[i - 1].calls > 0
          \/ i > 2 /\ messages[i - 2].calls = 2
        BY <1>3 DEF Paired, Preceded
    <2>2. (i > 1 => i - 1 \in 1..(i - 1)) /\ (i > 2 => i - 2 \in 1..(i - 1))
        BY <1>1
    <2> QED
        BY <2>1, <2>2
<1> QED
    BY <1>2, <1>3 DEF CallsKeepResults

(* However a context is cut, over any number of turns and in any window,    *)
(* every call in the request keeps all its results and every result its     *)
(* call: select_span cuts at the head of a turn only (is_turn_head).  It    *)
(* takes that no picture of a screen comes between two results of a round,  *)
(* which is where the code loses one.                                       *)
THEOREM CallsStayWithResults ==
    ASSUME ~Screens
    PROVE  ContextSpec => []CallsKeepResults
<1> DEFINE Inv == ContextTyped /\ ListIsRead /\ InPairs
<1>1. ContextInit => Inv
    BY ContextBegins
<1>2. Inv /\ [ContextNext]_contextVars => Inv'
    BY ContextGoesOn
<1>3. Inv => CallsKeepResults
    BY PairsKeepResults DEF ContextTyped, InPairs
<1> QED
    BY <1>1, <1>2, <1>3, PTL DEF ContextSpec

\* The invariant says which list is read, unless the opening states one.
LEMMA ListsAreCurrent ==
    ASSUME ContextTyped, ListIsRead
    PROVE  ChecklistIsCurrent
<1> SUFFICES ASSUME messages # <<>>, PreservedPrefix(messages) = 2, messages[2].list = NoList
             PROVE  \/ LatestChecklist(messages) = list
                    \/ {LatestChecklist(messages), list} \subseteq {NoList, Cleared}
    BY DEF ChecklistIsCurrent
<1>1. phase # "idle"
    BY DEF ContextTyped
<1>2. ~OpensWithList(messages)
    BY DEF OpensWithList
<1> QED
    BY <1>1, <1>2 DEF ListIsRead, SameReading

(* However often a context is cut, the checklist an agent reads last in it  *)
(* is the one it wrote last (carried_checklist), pictures or not, unless    *)
(* the opening that is never touched states one.                            *)
THEOREM AgentReadsItsList ==
    ContextSpec => []ChecklistIsCurrent
<1> DEFINE Inv == ContextTyped /\ ListIsRead
<1>1. ContextInit => Inv
    BY ContextBegins
<1>2. Inv /\ [ContextNext]_contextVars => Inv'
    BY ContextGoesOn
<1>3. Inv => ChecklistIsCurrent
    BY ListsAreCurrent
<1> QED
    BY <1>1, <1>2, <1>3, PTL DEF ContextSpec
=============================================================================
