---------------------------- MODULE ToolJournal ----------------------------
(* The journal one native agent execution keeps of the model's tool calls   *)
(* (the content_json of its message row), the approval gate, and the        *)
(* continuations, cancellations and restarts that interrupt it.  The        *)
(* execution is followed from the dispatch that begins it until its row is  *)
(* closed.  JobQueue guarantees the one thing taken from it here: a job is  *)
(* claimed only while no other worker holds the thread.                     *)
EXTENDS Integers, FiniteSets, FiniteSetsExt

CONSTANTS
    MaxCalls,       \* bound: tool calls the model makes
    Plans,          \* the calls the model may come to make: [Calls -> Kinds]
    Handlers,       \* request handlers that may be continuing the thread
    MaxAnswers,     \* bound: continuations begun
    MaxCrashes      \* bound: process crashes

Calls == 1..MaxCalls
Kinds == {"read", "write", "gated", "ask"}

VARIABLES
    kind,           \* the kind of each call the model makes: see Kinds
    row,            \* the status of the execution's message row
    journal,        \* its content: each call's status and checkpoint_version
    question,       \* pending_approvals: what became of each call's question
    remembered,     \* tool_approvals holds a remembered approval of the rule
    thread,         \* threads.status
    turn,           \* the number of the thread's newest turn
    turnStatus,     \* its status
    job,            \* the status of that turn's job
    payload,        \* the continuation the job carries
    held,           \* an interrupted job nobody has confirmed as stopped
    worker,         \* the worker of the thread, if any
    owed,           \* a committed cancellation still to be signalled, or 0
    prep,           \* what each handler has read before its transaction
    answers,        \* continuations begun so far
    up, crashes,
    effects         \* history: how often each call has really run

rows == <<row, journal, question, remembered>>
queue == <<turn, turnStatus, job, payload, held>>
clients == <<owed, prep, answers>>
process == <<up, crashes>>
vars == <<rows, thread, queue, worker, clients, process, kind, effects>>

Statuses == {"absent", "pending", "started", "approval_required", "settled", "outcome_unknown"}
Sayings == {"none", "continue", "once", "thread", "decline"}
Approvals == {"once", "thread"}

\* "settled" stands for the statuses that come with a result.
Open(calls) == {c \in Calls : calls[c] \in {"pending", "approval_required"}}
Asking(calls) == {c \in Calls : calls[c] = "approval_required"}

\* Mutation: only what a start of the server has marked is in doubt.
MarkedUncertain(calls) == {c \in Calls : calls[c] = "outcome_unknown"}

Uncertain(calls) == {c \in Calls : calls[c] \in {"started", "outcome_unknown"}}
Issued(calls) == {c \in Calls : calls[c] # "absent"}
Mark(calls, S, status) == [c \in Calls |-> IF c \in S THEN status ELSE calls[c]]

Blank == [calls |-> [c \in Calls |-> "absent"], ver |-> 0]
NoAnswer == [say |-> "none", call |-> 0, journal |-> Blank]
NoWorker == [pc |-> "none", turn |-> 0, resume |-> FALSE, token |-> "none",
             journal |-> Blank, say |-> "none", call |-> 0, grant |-> FALSE,
             batch |-> {}, ran |-> {}, out |-> "none"]

Journals == [calls : [Calls -> Statuses], ver : Nat]
Answers == [say : Sayings, call : 0..MaxCalls, journal : Journals]
Workers ==
    [pc : {"none", "claimed", "reserved", "journal", "refused", "tools", "running", "ask",
           "asking", "model", "asked", "ending", "parked"},
     turn : Nat, resume : BOOLEAN, token : {"none", "live", "signalled"},
     journal : Journals, say : Sayings, call : 0..MaxCalls, grant : BOOLEAN,
     batch : SUBSET Calls, ran : SUBSET Calls,
     out : {"none", "completed", "waiting_for_user", "cancelled", "failed"}]

TypeOK ==
    /\ kind \in Plans
    /\ row \in {"none", "running_checkpoint", "interrupted", "visible"}
    /\ journal \in Journals
    /\ question \in [Calls -> {"none", "pending", "cancelled", "once", "thread", "decline"}]
    /\ remembered \in BOOLEAN
    /\ thread \in {"active", "running", "paused"}
    /\ turn \in Nat
    /\ turnStatus \in {"running", "waiting_for_user", "completed", "cancelled", "failed"}
    /\ job \in {"queued", "running", "waiting_for_user", "completed", "cancelled", "failed",
                "interrupted"}
    /\ payload \in Answers /\ held \in BOOLEAN
    /\ worker \in Workers
    /\ owed \in 0..turn /\ prep \in [Handlers -> Answers] /\ answers \in 0..MaxAnswers
    /\ up \in BOOLEAN /\ crashes \in 0..MaxCrashes
    /\ effects \in [Calls -> Nat]

\* A dispatch has begun and its agent is about to ask the model.
Init ==
    /\ kind \in Plans
    /\ row = "none" /\ journal = Blank
    /\ question = [c \in Calls |-> "none"] /\ remembered = FALSE
    /\ thread = "active"
    /\ turn = 1 /\ turnStatus = "running" /\ job = "running"
    /\ payload = NoAnswer /\ held = FALSE
    /\ worker = [NoWorker EXCEPT !.pc = "model", !.turn = 1, !.token = "live"]
    /\ owed = 0 /\ prep = [h \in Handlers |-> NoAnswer] /\ answers = 0
    /\ up = TRUE /\ crashes = 0
    /\ effects = [c \in Calls |-> 0]
-----------------------------------------------------------------------------
(* Writing the journal *)

At(pc) == up /\ worker.pc = pc
Signalled == worker.token = "signalled"
Enter(pc) == [worker EXCEPT !.pc = pc]

\* A continuation that ends badly pauses its thread again.
Leave(out) ==
    /\ worker' = [worker EXCEPT !.pc = "ending", !.out = out, !.batch = {}, !.ran = {}]
    /\ thread' = IF worker.resume THEN "paused" ELSE thread

\* sync_pending_in_tx: a waiting call without a question gets one.
Questioned(calls) ==
    [c \in Calls |-> IF c \in Asking(calls) /\ question[c] = "none" THEN "pending"
                     ELSE question[c]]

\* Mutation: a worker writes as long as its row is its own.
OwnsRow == TRUE

\* Only a dispatch ties a checkpoint to its turn; a continuation has none.
OwnsDispatch == worker.resume \/ turnStatus = "running"

\* The checks of checkpoint_native_execution.
MayWrite ==
    /\ OwnsDispatch
    /\ row \in {"none", "running_checkpoint", "interrupted"}
    /\ worker.journal.ver = journal.ver

\* persist_turn_checkpoint, and what the worker goes on as once it is written.
Persist(calls, next) ==
    IF Signalled \/ ~MayWrite
    THEN /\ Leave(IF Signalled THEN "cancelled" ELSE "failed")
         /\ UNCHANGED <<row, journal, question>>
    ELSE /\ journal' = [calls |-> calls, ver |-> journal.ver + 1]
         /\ row' = IF row = "none" THEN "running_checkpoint" ELSE row
         /\ question' = Questioned(calls)
         /\ worker' = [next EXCEPT !.journal = journal']
         /\ UNCHANGED thread
\* A pausing checkpoint asks for neither the version nor the cancellation; of a
\* dispatch whose turn is over it writes nothing.
Interrupt ==
    IF OwnsDispatch
    THEN /\ row' = "interrupted" /\ thread' = "paused"
         /\ journal' = worker.journal
         /\ question' = Questioned(worker.journal.calls)
    ELSE UNCHANGED <<row, thread, journal, question>>

Ending(out) == worker' = [worker EXCEPT !.pc = "ending", !.out = out]
-----------------------------------------------------------------------------
(* A worker takes up a continuation *)

Claim ==
    /\ up /\ job = "queued" /\ worker = NoWorker /\ ~held
    /\ job' = "running"
    /\ worker' = [NoWorker EXCEPT !.pc = "claimed", !.turn = turn, !.resume = TRUE,
                    !.journal = payload.journal, !.say = payload.say, !.call = payload.call]
    /\ UNCHANGED <<rows, thread, turn, turnStatus, payload, held, clients, process, kind, effects>>

\* A job cancelled before this leaves its thread marked running.
Start ==
    /\ At("claimed")
    /\ IF job = "running" THEN worker' = Enter("reserved") ELSE Ending("cancelled")
    /\ UNCHANGED <<rows, thread, queue, clients, process, kind, effects>>

\* Mutation: whatever the answer is, it stands for the rule.
GrantedByAnswer == remembered \/ worker.call \in Asking(worker.journal.calls)

\* The approvals the executor is built with: the remembered ones and the one
\* being given.
Granted ==
    \/ remembered
    \/ worker.say \in Approvals /\ worker.call \in Asking(worker.journal.calls)

Register ==
    /\ At("reserved")
    /\ worker' = [worker EXCEPT !.pc = "journal", !.token = "live", !.grant = Granted]
    /\ UNCHANGED <<rows, thread, queue, clients, process, kind, effects>>

\* A call that was started and never settled stops the continuation.
Refuse ==
    /\ At("journal") /\ Uncertain(worker.journal.calls) # {}
    /\ Persist(Mark(worker.journal.calls, Uncertain(worker.journal.calls), "outcome_unknown"),
               Enter("refused"))
    /\ UNCHANGED <<remembered, queue, clients, process, kind, effects>>

Refused ==
    /\ At("refused") /\ Leave("failed")
    /\ UNCHANGED <<rows, queue, clients, process, kind, effects>>

Clear == At("journal") /\ Uncertain(worker.journal.calls) = {}

\* Continue closes the call whose question it leaves unanswered.
Skip ==
    /\ Clear /\ worker.say = "continue"
    /\ Asking(worker.journal.calls) # {}
    /\ Persist(Mark(worker.journal.calls, Asking(worker.journal.calls), "settled"),
               Enter("tools"))
    /\ UNCHANGED <<remembered, queue, clients, process, kind, effects>>

Nothing ==
    /\ Clear /\ worker.say = "continue"
    /\ Asking(worker.journal.calls) = {}
    /\ worker' = Enter("tools")
    /\ UNCHANGED <<rows, thread, queue, clients, process, kind, effects>>

\* Mutation: the answer must still be open.
AnsweredWhilePending ==
    /\ Clear /\ worker.call \in Asking(worker.journal.calls)
    /\ question[worker.call] = "pending"

\* verify_resolved_action and pending_approval of the call being answered.
Answered ==
    /\ Clear /\ worker.call \in Asking(worker.journal.calls)
    /\ question[worker.call] = worker.say

ReplayApproved ==
    /\ Answered /\ worker.say \in Approvals
    /\ remembered' = (remembered \/ worker.say = "thread")
    /\ Persist(Mark(worker.journal.calls, {worker.call}, "started"),
               [worker EXCEPT !.pc = "running", !.batch = {worker.call}])
    /\ UNCHANGED <<queue, clients, process, kind, effects>>

ReplayDeclined ==
    /\ Answered /\ worker.say = "decline"
    /\ Persist(Mark(worker.journal.calls, {worker.call}, "settled"), Enter("tools"))
    /\ UNCHANGED <<remembered, queue, clients, process, kind, effects>>
-----------------------------------------------------------------------------
(* The batches of a round *)

\* Read-only calls that follow one another run together, any other call alone.
Batch(calls) ==
    LET first == Min(Open(calls))
    IN  {c \in Open(calls) : c = first \/ \A d \in first..c : kind[d] = "read"}

StartBatch ==
    /\ At("tools") /\ Open(worker.journal.calls) # {}
    /\ LET batch == Batch(worker.journal.calls)
       IN  /\ batch \cap Asking(worker.journal.calls) = {}
           /\ Persist(Mark(worker.journal.calls, batch, "started"),
                      [worker EXCEPT !.pc = "running", !.batch = batch])
    /\ UNCHANGED <<remembered, queue, clients, process, kind, effects>>

Gated(c) == kind[c] = "gated" /\ ~worker.grant

\* A hook or the tool itself may answer without an effect; the gate always does.
Execute(c, acts) ==
    /\ At("running") /\ c \in worker.batch \ worker.ran
    /\ acts => ~Gated(c)
    /\ effects' = IF acts THEN [effects EXCEPT ![c] = @ + 1] ELSE effects
    /\ worker' = [worker EXCEPT !.ran = @ \cup {c}]
    /\ UNCHANGED <<rows, thread, queue, clients, process, kind>>

Record(c) ==
    /\ At("running") /\ c \in worker.ran
    /\ LET rest == worker.batch \ {c}
       IN  Persist(Mark(worker.journal.calls, {c},
                        IF Gated(c) THEN "approval_required" ELSE "settled"),
                   [worker EXCEPT !.batch = rest, !.ran = @ \ {c},
                      !.pc = IF rest # {} THEN "running"
                             ELSE IF kind[c] = "ask" THEN "ask" ELSE "tools"])
    /\ UNCHANGED <<remembered, queue, clients, process, kind, effects>>

\* A signalled worker stops waiting for its tools or for the model.
Abandon ==
    /\ At("running") \/ At("asked")
    /\ Signalled
    /\ Leave("cancelled")
    /\ UNCHANGED <<rows, queue, clients, process, kind, effects>>

Pause ==
    /\ At("tools") /\ Open(worker.journal.calls) # {}
    /\ Batch(worker.journal.calls) \cap Asking(worker.journal.calls) # {}
    /\ Interrupt
    /\ Ending("waiting_for_user")
    /\ UNCHANGED <<remembered, queue, clients, process, kind, effects>>

\* The tool asked the user something: the rest of the round is closed.
CloseRound ==
    /\ At("ask")
    /\ Persist(Mark(worker.journal.calls, Open(worker.journal.calls), "settled"),
               Enter("asking"))
    /\ UNCHANGED <<remembered, queue, clients, process, kind, effects>>

WaitForUser ==
    /\ At("asking")
    /\ \/ /\ worker.resume
          /\ Interrupt
          /\ Ending("waiting_for_user")
       \/ /\ ~worker.resume /\ OwnsDispatch
          /\ row' = "visible"
          /\ Ending("waiting_for_user")
          /\ UNCHANGED <<thread, journal, question>>
       \/ /\ ~OwnsDispatch
          /\ Leave("failed")
          /\ UNCHANGED <<row, journal, question>>
    /\ UNCHANGED <<remembered, queue, clients, process, kind, effects>>
-----------------------------------------------------------------------------
(* The model *)

RoundDone ==
    /\ At("tools") /\ Open(worker.journal.calls) = {}
    /\ worker' = Enter("model")
    /\ UNCHANGED <<rows, thread, queue, clients, process, kind, effects>>

Request ==
    /\ At("model")
    /\ Persist(worker.journal.calls, Enter("asked"))
    /\ UNCHANGED <<remembered, queue, clients, process, kind, effects>>

\* prepare_tool_round: the whole round is written before any of it is started.
Round(n) ==
    /\ At("asked")
    /\ LET old == Issued(worker.journal.calls)
           new == {c \in Calls \ old : c <= Cardinality(old) + n}
       IN  /\ Cardinality(new) = n
           /\ Persist(Mark(worker.journal.calls, new, "pending"), Enter("tools"))
    /\ UNCHANGED <<remembered, queue, clients, process, kind, effects>>

Finish ==
    /\ At("asked")
    /\ IF OwnsDispatch
       THEN /\ row' = "visible"
            /\ thread' = IF worker.resume THEN "active" ELSE thread
            /\ Ending("completed")
       ELSE Leave("failed") /\ UNCHANGED row
    /\ UNCHANGED <<journal, question, remembered, queue, clients, process, kind, effects>>

ProviderFails ==
    /\ At("asked") /\ ~Signalled
    /\ Interrupt
    /\ Ending("failed")
    /\ UNCHANGED <<remembered, queue, clients, process, kind, effects>>
-----------------------------------------------------------------------------
(* The end of a job *)

\* The scheduler parks the turn of a waiting dispatch before the job ends.
Park ==
    /\ At("ending") /\ worker.out = "waiting_for_user" /\ ~worker.resume
    /\ worker.turn = turn /\ turnStatus = "running"
    /\ turnStatus' = "waiting_for_user"
    /\ worker' = Enter("parked")
    /\ UNCHANGED <<rows, thread, turn, job, payload, held, clients, process, kind, effects>>

\* A job that was cancelled, queued again or replaced meanwhile is only let go.
EndJob ==
    /\ \/ At("parked")
       \/ /\ At("ending")
          /\ worker.out = "waiting_for_user" /\ ~worker.resume =>
                worker.turn # turn \/ turnStatus # "running"
    /\ worker' = NoWorker
    /\ IF worker.turn = turn /\ job = "running"
       THEN /\ job' = worker.out
            /\ turnStatus' = IF turnStatus = "running" THEN worker.out ELSE turnStatus
       ELSE UNCHANGED <<job, turnStatus>>
    /\ UNCHANGED <<rows, thread, turn, payload, held, clients, process, kind, effects>>
-----------------------------------------------------------------------------
(* Requests *)

\* resolve_resume_target and the reads of the pending question.
Prepare(h, say, call) ==
    /\ up /\ prep[h] = NoAnswer /\ answers < MaxAnswers
    /\ thread = "paused" /\ row = "interrupted"
    /\ say \in Sayings \ {"none"}
    /\ IF say = "continue" THEN call = 0 ELSE question[call] = "pending"
    /\ prep' = [prep EXCEPT ![h] = [say |-> say, call |-> call, journal |-> journal]]
    /\ answers' = answers + 1
    /\ UNCHANGED <<rows, thread, queue, worker, owed, process, kind, effects>>

QuestionsAfter(answer) ==
    [c \in Calls |->
        IF question[c] # "pending" THEN question[c]
        ELSE IF answer.say = "continue" THEN "cancelled"
        ELSE IF c = answer.call THEN answer.say ELSE question[c]]

\* The transaction of accept_resume; it reuses the turn and the job that wait.
Commit(h) ==
    LET answer == prep[h]
        waiting == turnStatus = "waiting_for_user"
    IN  /\ up /\ answer # NoAnswer
        /\ prep' = [prep EXCEPT ![h] = NoAnswer]
        /\ IF /\ row = "interrupted" /\ journal = answer.journal
              /\ answer.say = "continue" \/ question[answer.call] = "pending"
              /\ thread = "paused"
              /\ turnStatus # "running"
           THEN /\ question' = QuestionsAfter(answer)
                /\ thread' = "running"
                /\ turn' = IF waiting THEN turn ELSE turn + 1
                /\ turnStatus' = "running" /\ job' = "queued"
                /\ payload' = answer
           ELSE UNCHANGED <<question, thread, turn, turnStatus, job, payload>>
        /\ UNCHANGED <<row, journal, remembered, held, worker, owed, answers, process, kind, effects>>

\* The question is cancelled only of a message that names the turn, which no
\* checkpoint of a native execution does.
CancelCommit ==
    /\ up /\ owed = 0 /\ turnStatus \in {"running", "waiting_for_user"}
    /\ turnStatus' = "cancelled"
    /\ job' = IF job \in {"queued", "running", "waiting_for_user"} THEN "cancelled" ELSE job
    /\ owed' = turn
    /\ UNCHANGED <<rows, thread, turn, payload, held, worker, prep, answers, process, kind, effects>>

\* Lost on a worker that has not registered its turn.
CancelSignal ==
    /\ up /\ owed # 0
    /\ owed' = 0
    /\ worker' = IF worker.turn = owed /\ worker.token = "live"
                 THEN [worker EXCEPT !.token = "signalled"] ELSE worker
    /\ UNCHANGED <<rows, thread, queue, prep, answers, process, kind, effects>>

\* The time limit of an automation's turn only signals.
TimeLimit ==
    /\ up /\ worker.token = "live" /\ worker.pc \notin {"ending", "parked"}
    /\ worker' = [worker EXCEPT !.token = "signalled"]
    /\ UNCHANGED <<rows, thread, queue, clients, process, kind, effects>>

\* Mutation: the row decides.
ReopenableRow == row = "interrupted"

Reopenable == thread = "paused" /\ row = "interrupted"

\* The next message closes the interrupted row; only the answer to a waiting
\* job also closes its question.
NewMessage ==
    /\ up /\ Reopenable
    /\ row' = "visible" /\ thread' = "active"
    /\ IF job = "waiting_for_user"
       THEN /\ turnStatus' = IF turnStatus = "waiting_for_user" THEN "cancelled" ELSE turnStatus
            /\ question' = [c \in Calls |-> IF question[c] = "pending" THEN "cancelled"
                                            ELSE question[c]]
            /\ job' = "completed"
       ELSE UNCHANGED <<turnStatus, question, job>>
    /\ UNCHANGED <<journal, remembered, turn, payload, held, worker, clients, process, kind, effects>>

AcknowledgeStopped ==
    /\ up /\ held
    /\ held' = FALSE
    /\ UNCHANGED <<rows, thread, turn, turnStatus, job, payload, worker, clients, process, kind, effects>>
-----------------------------------------------------------------------------
(* Crash and startup *)

\* The dead worker stays behind as the worker_active mark of its job.
Crash ==
    /\ up /\ crashes < MaxCrashes
    /\ up' = FALSE /\ crashes' = crashes + 1
    /\ prep' = [h \in Handlers |-> NoAnswer] /\ owed' = 0
    /\ UNCHANGED <<rows, thread, queue, worker, answers, kind, effects>>

\* recover_native_checkpoints_in_tx
RecoverJournal ==
    LET lost == {c \in Calls : journal.calls[c] = "started"}
        open == row \in {"interrupted", "running_checkpoint"}
    IN  /\ journal' = IF open /\ lost # {}
                      THEN [calls |-> Mark(journal.calls, lost, "outcome_unknown"),
                            ver |-> journal.ver + 1]
                      ELSE journal
        /\ row' = IF open THEN "interrupted" ELSE row

\* The two transactions of a start: the turns and threads, then the jobs.
Recover ==
    LET queued == job = "queued"
        own == worker.pc # "none" /\ worker.turn = turn
        settled == own /\ job = "running" /\ turnStatus = "waiting_for_user"
    IN  /\ ~up /\ up' = TRUE
        /\ RecoverJournal
        /\ turnStatus' = IF turnStatus = "running" /\ ~queued THEN "failed" ELSE turnStatus
        /\ thread' = IF thread = "running" /\ ~queued
                     THEN IF row' = "interrupted" THEN "paused" ELSE "active"
                     ELSE thread
        /\ job' = IF settled THEN "waiting_for_user"
                  ELSE IF own /\ job \in {"running", "queued", "cancelled"} THEN "interrupted"
                  ELSE job
        /\ held' = (held \/ (worker.pc # "none" /\ ~settled))
        /\ worker' = NoWorker
        /\ UNCHANGED <<question, remembered, turn, payload, clients, crashes, kind, effects>>
-----------------------------------------------------------------------------
Continue == Claim \/ Start \/ Register \/ Refuse \/ Refused \/ Skip \/ Nothing
            \/ ReplayApproved \/ ReplayDeclined
Tools == StartBatch \/ Pause \/ CloseRound \/ WaitForUser \/ RoundDone \/ Abandon
         \/ \E c \in Calls : Record(c) \/ Execute(c, TRUE) \/ Execute(c, FALSE)
Model == Request \/ Finish \/ ProviderFails \/ \E n \in Calls : Round(n)
Worker == Continue \/ Tools \/ Model \/ Park \/ EndJob

Client ==
    \/ \E h \in Handlers : Commit(h) \/ \E say \in Sayings, call \in 0..MaxCalls :
            (call = 0) = (say = "continue") /\ Prepare(h, say, call)
    \/ CancelCommit \/ CancelSignal \/ TimeLimit \/ NewMessage \/ AcknowledgeStopped

Next == Worker \/ Client \/ Crash \/ Recover

Spec == Init /\ [][Next]_vars
-----------------------------------------------------------------------------
(* Every call keeps what ToolPromise states, across crashes, cancellations  *)
(* and continuations: it is written down before it may run, runs at most    *)
(* once, is never tried again once its outcome is in doubt, and the model   *)
(* hears nothing of a round before all of it is settled.                    *)
Promise == INSTANCE ToolPromise WITH state <- journal.calls
KeepsPromise == Promise!Spec

RanGated == {c \in Calls : kind[c] = "gated" /\ effects[c] > 0}

(* The user's word on a gated call holds: one that was declined, or whose   *)
(* question a continuation or the next message skipped, never runs, and     *)
(* none runs before some question was approved.                             *)
RefusalHolds ==
    /\ \A c \in RanGated : question[c] \notin {"pending", "decline", "cancelled"}
    /\ RanGated # {} => \E c \in Calls : question[c] \in Approvals

(* The journal and the questions, two tables written by five transactions,  *)
(* agree: what is asked is what waits, and what waits was asked.            *)
QuestionsMatchJournal ==
    \A c \in Calls :
        /\ question[c] = "pending" => journal.calls[c] = "approval_required"
        /\ journal.calls[c] = "approval_required" => question[c] # "none"

(* While a continuation works its thread is marked running, whatever        *)
(* handlers and cancellations do meanwhile: it can neither be continued a   *)
(* second time nor be reopened by a message.                                *)
OneContinuation ==
    up /\ worker.resume /\ worker.pc # "ending" => thread = "running"

(* A cancellation whose signal is late or lost: the turn's own dispatch     *)
(* starts no call once the cancellation is committed.                       *)
CancelledDispatchStartsNothing ==
    [][turnStatus = "cancelled" /\ ~worker.resume =>
         \A c \in Calls : journal'.calls[c] = "started" => journal.calls[c] = "started"]_vars

Fairness ==
    /\ WF_vars(Worker) /\ WF_vars(Recover) /\ WF_vars(CancelSignal)
    /\ WF_vars(AcknowledgeStopped)

FairSpec == Spec /\ Fairness

(* An answer given to a question is used: unless the turn is cancelled or   *)
(* times out, or the process stops, the call it was given for is settled.   *)
AnswerIsUsed ==
    []<>(\/ turnStatus = "cancelled" \/ crashes > 0
         \/ \A c \in Calls : question[c] \in Approvals \cup {"decline"} =>
                journal.calls[c] \in {"settled", "outcome_unknown"})

(* approval.rs: "A one-time approval authorised one call and nothing else". *)
OneTimeApprovalIsOneCall ==
    ~remembered => \A c \in RanGated : question[c] \in Approvals

(* The guide: "Waiting turns/questions survive startup recovery"            *)
(* (realtime.md).  A question nobody is at work on can be answered.         *)
QuestionSurvives ==
    \A c \in Calls :
        up /\ worker = NoWorker /\ row = "interrupted" /\ question[c] = "pending"
            => thread = "paused"

(* commands.rs, of the questions turn.cancel withdraws: "The checkpoint     *)
(* identifies the question's own turn".                                     *)
CancelledTurnAsksNothing ==
    turnStatus = "cancelled" => \A c \in Calls : question[c] # "pending"
=============================================================================
