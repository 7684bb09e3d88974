------------------------------ MODULE JobQueue ------------------------------
(***************************************************************************)
(* The durable job queue of the backend: api/commands.rs, with the parts   *)
(* of the scheduler store, the group runtime, the sequence allocator and   *)
(* the computer client that read or write the same rows.                   *)
(*                                                                         *)
(* Every accepted command mints at most one job, one turn and one stream.  *)
(* The model gives all three the number of the request that minted them,   *)
(* so 1, 2, 3, ... is also the order of created_at.  A continuation moves  *)
(* an older job to the new request's stream and keeps its turn.            *)
(*                                                                         *)
(* One action is one database transaction, or one await-free stretch of a  *)
(* worker between two of them.  SQLite has a single writer (begin_write),  *)
(* so transactions do not interleave; everything between them does.        *)
(***************************************************************************)
EXTENDS Naturals, FiniteSets

CONSTANTS
    Threads,        \* task threads of one owner; none is archived or cleared
    Automations,    \* automations whose occurrences become jobs
    Commands,       \* the commands clients of this instance send
    MaxRequests,    \* bound: accepted messages, continuations, occurrences
    MaxCrashes      \* bound: server stops

NoThread == "no thread"
NoAutomation == "manual"
Requests == 1 .. MaxRequests

AllCommands == {"message.send", "thread.resume", "turn.cancel",
                "turn.acknowledge_stopped"}

ASSUME ConstantsAssumption ==
    /\ NoThread \notin Threads
    /\ NoAutomation \notin Automations
    /\ Commands \subseteq AllCommands
    /\ MaxRequests \in Nat
    /\ MaxCrashes \in Nat

VARIABLES
    job,        \* execution_jobs: one row per minted job
    turn,       \* group_turns: status and thread
    thread,     \* threads.status
    ckpt,       \* the thread has a message with status 'interrupted'
    op,         \* unsettled computer_operations of a turn, by status
    done,       \* number of `done` events of a stream
    receipts,   \* command_receipts
    workers,    \* tokio tasks inside run_job; memory only
    executed,   \* history: streams a worker was ever launched for
    phase,      \* "up", "down", "recovering" (between the two startup steps)
    crashes     \* server stops so far

vars == <<job, turn, thread, ckpt, op, done, receipts, workers, executed,
          phase, crashes>>

-----------------------------------------------------------------------------
JobStatus == {"none", "queued", "running", "waiting_for_user", "succeeded",
              "failed", "cancelled", "interrupted"}

\* "completed" also stands for silence, budget_exhausted and
\* failure_budget_exhausted: every reader treats the four alike.
TurnStatus == {"none", "queued", "pending", "running", "waiting_for_user",
               "completed", "failed", "cancelled", "superseded"}
ActiveTurn == {"pending", "running", "waiting_for_user"}
TerminalTurn == {"completed", "failed", "cancelled", "superseded"}

\* TurnOutcome, named by the job status finish_job derives from it.
Outcome == {"succeeded", "waiting_for_user", "cancelled", "failed"}

Job == [status : JobStatus, thread : Threads \cup {NoThread},
        turn : Requests \cup {0}, stream : Requests \cup {0},
        cmd : {"message.send", "thread.resume"},
        auto : Automations \cup {NoAutomation},
        occ : BOOLEAN,       \* occupies_thread
        wkr : BOOLEAN,       \* worker_active
        gen : Nat,           \* generation
        verified : BOOLEAN]  \* error = 'effects_verified_stopped'

NoJob == [status |-> "none", thread |-> NoThread, turn |-> 0, stream |-> 0,
          cmd |-> "message.send", auto |-> NoAutomation, occ |-> FALSE,
          wkr |-> FALSE, gen |-> 0, verified |-> FALSE]

Turn == [status : TurnStatus, thread : Threads \cup {NoThread}]

\* A worker remembers the row claim_next returned to it.  pc is where it
\* stands: "start" before its turn runs, "run" while agents execute, "emit"
\* when it still owes its stream the terminal event, "finish" in finish_job.
Worker == [job : Requests, gen : Nat, thread : Threads,
           turn : Requests, stream : Requests,
           cmd : {"message.send", "thread.resume"},
           auto : Automations \cup {NoAutomation},
           pc : {"start", "run", "emit", "finish"}, out : Outcome]

TypeOK ==
    /\ job \in [Requests -> Job]
    /\ turn \in [Requests -> Turn]
    /\ thread \in [Threads -> {"active", "running", "paused"}]
    /\ ckpt \in [Threads -> BOOLEAN]
    /\ op \in [Requests -> SUBSET {"running", "uncertain"}]
    /\ done \in [Requests -> Nat]
    /\ receipts \subseteq Requests
    /\ workers \subseteq Worker
    /\ executed \subseteq Requests
    /\ phase \in {"up", "down", "recovering"}
    /\ crashes \in Nat

Init ==
    /\ job = [r \in Requests |-> NoJob]
    /\ turn = [r \in Requests |-> [status |-> "none", thread |-> NoThread]]
    /\ thread = [t \in Threads |-> "active"]
    /\ ckpt = [t \in Threads |-> FALSE]
    /\ op = [r \in Requests |-> {}]
    /\ done = [r \in Requests |-> 0]
    /\ receipts = {}
    /\ workers = {}
    /\ executed = {}
    /\ phase = "up"
    /\ crashes = 0

-----------------------------------------------------------------------------
(* Reads the transactions share.                                           *)

JobsOn(t) == {j \in Requests : job[j].thread = t}
ActiveTurnsOn(t) ==
    {u \in Requests : turn[u].thread = t /\ turn[u].status \in ActiveTurn}

Least(S) == CHOOSE x \in S : \A y \in S : x <= y

Unconfirmed(j) == job[j].status = "interrupted" /\ ~job[j].verified

\* Faulty: a cancelled job no longer holds its thread.
HoldsByStatus(j) ==
    job[j].status \in {"running", "waiting_for_user"} \/ Unconfirmed(j)

\* Faulty: occupancy is not looked at.
HoldsUnlessOccupied(j) ==
    job[j].wkr \/ job[j].status = "waiting_for_user" \/ Unconfirmed(j)

\* Faulty: a confirmed interruption still holds.
HoldsAfterConfirmation(j) ==
    \/ job[j].occ \/ job[j].wkr
    \/ job[j].status \in {"waiting_for_user", "interrupted"}

\* A job that keeps every other job off its thread and its automation.
Holds(j) == \/ job[j].occ
            \/ job[j].wkr
            \/ job[j].status = "waiting_for_user"
            \/ Unconfirmed(j)

\* ensure_computer_effects_settled
Settled(t) == \A u \in Requests : turn[u].thread = t => op[u] = {}

\* Request ids are handed out in order, and a retry repeats one of them.
Receipt(r) == r \in receipts
\* Faulty: the receipt of a retried request is not looked up.
FreshAgain(r) == \A q \in Requests : q < r => q \in receipts

Fresh(r) == ~Receipt(r) /\ \A q \in Requests : q < r => q \in receipts

\* Faulty: `done` is inserted without looking for an earlier one.
ClosedAgain(streams) ==
    [s \in Requests |-> IF s \in streams THEN done[s] + 1 ELSE done[s]]

\* append_stream_terminal and the guarded `done` of finish_job and recover
Closed(streams) ==
    [s \in Requests |->
        IF s \in streams /\ done[s] = 0 THEN 1 ELSE done[s]]

\* A row as insert_job writes it
QueuedJob(r, t, u, cmd, auto) ==
    [status |-> "queued", thread |-> t, turn |-> u, stream |-> r,
     cmd |-> cmd, auto |-> auto, occ |-> FALSE, wkr |-> FALSE, gen |-> 0,
     verified |-> FALSE]

\* Faulty: the turn is pending whatever else the thread does.
ReservedPending(turns, t) == [status |-> "pending", thread |-> t]

\* The turn a message reserves: queued behind the thread's active turn, or
\* pending at once; turns are those left after a supersede or a withdrawal.
ReservedTurn(turns, t) ==
    [status |-> IF \E u \in Requests : /\ turns[u].thread = t
                                       /\ turns[u].status \in ActiveTurn
                THEN "queued" ELSE "pending",
     thread |-> t]

-----------------------------------------------------------------------------
(* Command acceptance.  Each action is the transaction of one command; a   *)
(* refused command changes nothing and has no action.                      *)

\* accept_message when the thread has no waiting job: reopen a paused
\* thread, reserve a turn and a job.
QueueMessage(r, t) ==
    /\ phase = "up" /\ "message.send" \in Commands
    /\ Fresh(r)
    /\ \A j \in JobsOn(t) : job[j].status # "waiting_for_user"
    /\ turn' = [turn EXCEPT ![r] = ReservedTurn(turn, t)]
    /\ job' = [job EXCEPT ![r] =
                  QueuedJob(r, t, r, "message.send", NoAutomation)]
    /\ thread' = [thread EXCEPT ![t] = IF @ = "paused" THEN "active" ELSE @]
    /\ ckpt' = [ckpt EXCEPT ![t] = @ /\ thread[t] # "paused"]
    /\ receipts' = receipts \cup {r}
    /\ UNCHANGED <<op, done, workers, executed, phase, crashes>>

\* accept_message when the thread has a waiting job: the message supersedes
\* the waiting turn and reuses the job, occupancy and generation included.
AnswerWaiting(r, t) ==
    LET waiting == {j \in JobsOn(t) : job[j].status = "waiting_for_user"}
        turns == IF ActiveTurnsOn(t) = {} THEN turn
                 ELSE [turn EXCEPT ![Least(ActiveTurnsOn(t))].status =
                          "superseded"]
    IN  /\ phase = "up" /\ "message.send" \in Commands
        /\ Fresh(r)
        /\ waiting # {}
        /\ Settled(t)
        /\ turn' = [turns EXCEPT ![r] = ReservedTurn(turns, t)]
        /\ job' = [job EXCEPT ![Least(waiting)] =
                      [@ EXCEPT !.status = "queued", !.turn = r,
                                !.stream = r, !.cmd = "message.send",
                                !.verified = FALSE]]
        /\ thread' = [thread EXCEPT ![t] = "active"]
        /\ ckpt' = [ckpt EXCEPT ![t] = FALSE]
        /\ receipts' = receipts \cup {r}
        /\ UNCHANGED <<op, done, workers, executed, phase, crashes>>

\* Jobs an automation's timer occurrence or edit withdraws: cancel_queued
\* picks them, cancel_queued_job_in_tx skips those whose turn moved on.
Withdrawn(a) ==
    {j \in Requests : /\ job[j].auto = a /\ job[j].status = "queued"
                      /\ ~job[j].wkr /\ ~job[j].occ
                      /\ turn[job[j].turn].status \in {"queued", "pending"}}

WithdrawnTurns(W) ==
    [u \in Requests |-> IF \E j \in W : job[j].turn = u
                        THEN [turn[u] EXCEPT !.status = "cancelled"]
                        ELSE turn[u]]

WithdrawnJobs(W) ==
    [j \in Requests |-> IF j \in W
                        THEN [job[j] EXCEPT !.status = "cancelled"]
                        ELSE job[j]]

\* enqueue: an occurrence runs on a thread of its own, or again on the
\* thread its automation keeps (watchdog, topic home).  A timer withdraws
\* the automation's unstarted jobs first; a webhook does not.
AcceptOccurrence(r, a, t, timer) ==
    LET W == IF timer THEN Withdrawn(a) ELSE {}
        turns == WithdrawnTurns(W)
    IN  /\ phase = "up"
        /\ Fresh(r)
        /\ JobsOn(t) = {} \/ \E j \in JobsOn(t) : job[j].auto = a
        /\ turn' = [turns EXCEPT ![r] = ReservedTurn(turns, t)]
        /\ job' = [WithdrawnJobs(W) EXCEPT ![r] =
                      QueuedJob(r, t, r, "message.send", a)]
        /\ thread' = [thread EXCEPT ![t] =
                         IF @ = "paused" THEN "active" ELSE @]
        /\ ckpt' = [ckpt EXCEPT ![t] = @ /\ thread[t] # "paused"]
        /\ done' = Closed({job[j].stream : j \in W})
        /\ receipts' = receipts \cup {r}
        /\ UNCHANGED <<op, workers, executed, phase, crashes>>

\* update: editing or pausing an automation withdraws its unstarted jobs.
EditAutomation(a) ==
    /\ phase = "up"
    /\ Withdrawn(a) # {}
    /\ turn' = WithdrawnTurns(Withdrawn(a))
    /\ job' = WithdrawnJobs(Withdrawn(a))
    /\ done' = Closed({job[j].stream : j \in Withdrawn(a)})
    /\ UNCHANGED <<thread, ckpt, op, receipts, workers, executed, phase,
                   crashes>>

\* accept_resume (thread.resume and approval.resolve): claim the paused
\* thread, continue its waiting turn or open a running one, and move the
\* turn's live job to the new stream or mint a job.
ResumeWith(r, t, u, turns) ==
    LET live == {j \in Requests : /\ job[j].turn = u
                                  /\ job[j].status \in {"running",
                                                        "waiting_for_user"}}
    IN  /\ phase = "up" /\ "thread.resume" \in Commands
        /\ Fresh(r)
        /\ thread[t] = "paused" /\ ckpt[t]
        /\ Settled(t)
        /\ turn' = turns
        /\ job' = IF live # {}
                  THEN [job EXCEPT ![Least(live)] =
                           [@ EXCEPT !.status = "queued", !.stream = r,
                                     !.cmd = "thread.resume",
                                     !.verified = FALSE]]
                  ELSE [job EXCEPT ![r] =
                           QueuedJob(r, t, u, "thread.resume", NoAutomation)]
        /\ thread' = [thread EXCEPT ![t] = "running"]
        /\ receipts' = receipts \cup {r}
        /\ UNCHANGED <<ckpt, op, done, workers, executed, phase, crashes>>

WaitingTurnsOn(t) ==
    {u \in ActiveTurnsOn(t) : turn[u].status = "waiting_for_user"}

ResumeWaitingTurn(r, t) ==
    \E u \in WaitingTurnsOn(t) :
        /\ \A v \in WaitingTurnsOn(t) : v <= u      \* the newest
        /\ ResumeWith(r, t, u, [turn EXCEPT ![u].status = "running"])

\* Without a waiting turn the insert of a running one must pass
\* ux_group_turns_one_active_thread, or the command is refused.
ResumeNewTurn(r, t) ==
    /\ ActiveTurnsOn(t) = {}
    /\ ResumeWith(r, t, r, [turn EXCEPT ![r] = [status |-> "running",
                                                thread |-> t]])

\* Faulty: a cancellation ends a job that awaits confirmation, too.
CancellableWithInterrupted(u) ==
    {j \in Requests : /\ job[j].turn = u
                      /\ job[j].status \in {"queued", "running",
                                            "waiting_for_user",
                                            "interrupted"}}

Cancellable(u) ==
    {j \in Requests : /\ job[j].turn = u
                      /\ job[j].status \in {"queued", "running",
                                            "waiting_for_user"}}

\* accept_cancel: end the turn unless it is terminal, cancel its live jobs,
\* keep the thread of a job whose worker still runs, and close the streams
\* of the jobs no worker will close.
CancelTurn(u) ==
    LET live == Cancellable(u)
        queued == {j \in live : job[j].status = "queued"}
    IN  /\ phase = "up" /\ "turn.cancel" \in Commands
        /\ turn[u].status # "none"
        /\ turn[u].status \notin TerminalTurn \/ live # {}
        /\ turn' = [turn EXCEPT ![u].status =
                       IF @ \in TerminalTurn THEN @ ELSE "cancelled"]
        /\ job' = [j \in Requests |->
                      IF j \in live
                      THEN [job[j] EXCEPT !.status = "cancelled",
                                          !.occ = @ /\ job[j].wkr]
                      ELSE job[j]]
        /\ done' = Closed({job[j].stream : j \in queued})
        /\ UNCHANGED <<thread, ckpt, op, receipts, workers, executed, phase,
                       crashes>>

\* accept_acknowledge_stopped: a human confirms the interrupted work of a
\* turn has stopped; its thread is released and nothing is retried.
AcknowledgeStopped(u) ==
    LET stopped == {j \in Requests : job[j].turn = u /\ Unconfirmed(j)}
    IN  /\ phase = "up" /\ "turn.acknowledge_stopped" \in Commands
        /\ stopped # {}
        /\ job' = [j \in Requests |->
                      IF j \in stopped
                      THEN [job[j] EXCEPT !.verified = TRUE, !.occ = FALSE,
                                          !.wkr = FALSE]
                      ELSE job[j]]
        /\ op' = [op EXCEPT ![u] = @ \ {"uncertain"}]
        /\ UNCHANGED <<turn, thread, ckpt, done, receipts, workers, executed,
                       phase, crashes>>

-----------------------------------------------------------------------------
(* claim_next                                                              *)

\* Faulty: a continuation does not wait for the worker of its old stream.
ClaimableBesideOwnWorker(q) ==
    /\ job[q].status = "queued"
    /\ \A a \in JobsOn(job[q].thread) \ {q} : ~Holds(a)
    /\ job[q].auto # NoAutomation =>
         \A a \in Requests \ {q} : job[a].auto = job[q].auto => ~Holds(a)
    /\ ActiveTurnsOn(job[q].thread) \subseteq {job[q].turn}

\* Faulty: occurrences of one automation may overlap.
ClaimableOverlapping(q) ==
    /\ job[q].status = "queued" /\ ~job[q].wkr
    /\ \A a \in JobsOn(job[q].thread) \ {q} : ~Holds(a)
    /\ ActiveTurnsOn(job[q].thread) \subseteq {job[q].turn}

Claimable(q) ==
    /\ job[q].status = "queued" /\ ~job[q].wkr
    /\ \A a \in JobsOn(job[q].thread) \ {q} : ~Holds(a)
    /\ job[q].auto # NoAutomation =>
         \A a \in Requests \ {q} : job[a].auto = job[q].auto => ~Holds(a)
    /\ ActiveTurnsOn(job[q].thread) \subseteq {job[q].turn}

\* ORDER BY occupies_thread DESC, manual first, created_at
Before(p, q) ==
    IF job[p].occ # job[q].occ THEN job[p].occ
    ELSE IF (job[p].auto = NoAutomation) # (job[q].auto = NoAutomation)
         THEN job[p].auto = NoAutomation
         ELSE p < q

\* The first UPDATE of claim_next: the oldest waiting job of a thread nobody
\* occupies takes it back.  A call that claims nothing commits it alone; by
\* ContinuationKeepsThread it then finds no such job.
Reoccupied ==
    [j \in Requests |->
        IF /\ job[j].status = "waiting_for_user"
           /\ \A a \in JobsOn(job[j].thread) :
                 /\ ~job[a].occ
                 /\ job[a].status = "waiting_for_user" => j <= a
        THEN [job[j] EXCEPT !.occ = TRUE]
        ELSE job[j]]

NewWorker(q) ==
    [job |-> q, gen |-> job[q].gen + 1, thread |-> job[q].thread,
     turn |-> job[q].turn, stream |-> job[q].stream, cmd |-> job[q].cmd,
     auto |-> job[q].auto, pc |-> "start", out |-> "failed"]

ClaimNext(q) ==
    /\ phase = "up"
    /\ Claimable(q)
    /\ \A p \in Requests \ {q} : Claimable(p) => Before(q, p)
    /\ job' = [Reoccupied EXCEPT ![q] =
                  [@ EXCEPT !.status = "running", !.occ = TRUE,
                            !.wkr = TRUE, !.gen = job[q].gen + 1]]
    /\ turn' = [turn EXCEPT ![job[q].turn].status =
                   IF @ = "queued" THEN "pending" ELSE @]
    /\ workers' = workers \cup {NewWorker(q)}
    /\ executed' = executed \cup {job[q].stream}
    /\ UNCHANGED <<thread, ckpt, op, done, receipts, phase, crashes>>

-----------------------------------------------------------------------------
(* A worker: run_job up to finish_job.                                     *)

Goto(w, pc, out) ==
    workers' = (workers \ {w}) \cup {[w EXCEPT !.pc = pc, !.out = out]}

Emitted(w) == [done EXCEPT ![w.stream] = @ + 1]

Runnable(w) == turn[w.turn].status \in {"pending", "running"}

\* run_job finds the turn already ended: nothing runs.
StartCancelled(w) ==
    /\ w.pc = "start"
    /\ ~Runnable(w)
    /\ Goto(w, "finish", "cancelled")
    /\ UNCHANGED <<job, turn, thread, ckpt, op, done, receipts, executed,
                   phase, crashes>>

\* resolve_or_create_thread refuses to run a message on a thread that is
\* not active; its error and done events are sent but never stored.
StartRefused(w) ==
    /\ w.pc = "start" /\ w.cmd = "message.send"
    /\ Runnable(w) /\ thread[w.thread] # "active"
    /\ Goto(w, "finish", "failed")
    /\ UNCHANGED <<job, turn, thread, ckpt, op, done, receipts, executed,
                   phase, crashes>>

StartMessage(w) ==
    /\ w.pc = "start" /\ w.cmd = "message.send"
    /\ thread[w.thread] = "active"
    /\ turn[w.turn].status = "pending"     \* a compare-and-set
    /\ turn' = [turn EXCEPT ![w.turn].status = "running"]
    /\ Goto(w, "run", w.out)
    /\ UNCHANGED <<job, thread, ckpt, op, done, receipts, executed, phase,
                   crashes>>

StartResume(w) ==
    /\ w.pc = "start" /\ w.cmd = "thread.resume" /\ Runnable(w)
    /\ Goto(w, "run", w.out)
    /\ UNCHANGED <<job, turn, thread, ckpt, op, done, receipts, executed,
                   phase, crashes>>

Running(w, cmd) == w.pc = "run" /\ w.cmd = cmd
\* Faulty: the transition does not compare the status it replaces.
OwnsAnyTurn(w) == Running(w, "message.send")

OwnsRunningTurn(w) ==
    Running(w, "message.send") /\ turn[w.turn].status = "running"

\* The registry flag of a cancelled turn, or the automation's turn timeout.
Signalled(w) ==
    turn[w.turn].status = "cancelled" \/ w.auto # NoAutomation

\* persist_interrupted_message: a provider failure or a gated call leaves a
\* checkpoint, unless the turn has been taken away.
Interrupt(w) ==
    /\ OwnsRunningTurn(w)
    /\ thread[w.thread] # "paused"
    /\ thread' = [thread EXCEPT ![w.thread] = "paused"]
    /\ ckpt' = [ckpt EXCEPT ![w.thread] = TRUE]
    /\ UNCHANGED <<job, turn, op, done, receipts, workers, executed, phase,
                   crashes>>

CompleteTurn(w) ==
    /\ OwnsRunningTurn(w)
    /\ turn' = [turn EXCEPT ![w.turn].status = "completed"]
    /\ Goto(w, "emit", "succeeded")
    /\ UNCHANGED <<job, thread, ckpt, op, done, receipts, executed, phase,
                   crashes>>

\* The turn waits; its stream and its job learn so in two later steps.
AskUser(w) ==
    /\ OwnsRunningTurn(w)
    /\ turn' = [turn EXCEPT ![w.turn].status = "waiting_for_user"]
    /\ Goto(w, "emit", "waiting_for_user")
    /\ UNCHANGED <<job, thread, ckpt, op, done, receipts, executed, phase,
                   crashes>>

\* StreamCtx::fail, with or without fail_scheduled_persistence before it;
\* a raised cancellation flag suppresses the two events.
FailTurn(w, persisted, told) ==
    /\ Running(w, "message.send")
    /\ turn' = [turn EXCEPT ![w.turn].status =
                   IF persisted /\ @ \notin TerminalTurn THEN "failed" ELSE @]
    /\ done' = IF told THEN Emitted(w) ELSE done
    /\ Goto(w, "finish", "failed")
    /\ UNCHANGED <<job, thread, ckpt, op, receipts, executed, phase, crashes>>

\* cancel_scheduled_turn
CancelRun(w) ==
    /\ Running(w, "message.send") /\ Signalled(w)
    /\ turn' = [turn EXCEPT ![w.turn].status =
                   IF @ \in TerminalTurn THEN @ ELSE "cancelled"]
    /\ Goto(w, "emit", "cancelled")
    /\ UNCHANGED <<job, thread, ckpt, op, done, receipts, executed, phase,
                   crashes>>

\* A resumed run stops at a second gate: checkpoint_interrupted_message
\* pauses the thread again; the turn stays running until finish_job.
AskAgain(w) ==
    /\ Running(w, "thread.resume") /\ ckpt[w.thread]
    /\ thread' = [thread EXCEPT ![w.thread] = "paused"]
    /\ Goto(w, "emit", "waiting_for_user")
    /\ UNCHANGED <<job, turn, ckpt, op, done, receipts, executed, phase,
                   crashes>>

\* complete_interrupted_message_with_events never reads the turn.
CompleteResume(w, out) ==
    /\ Running(w, "thread.resume") /\ ckpt[w.thread]
    /\ thread' = [thread EXCEPT ![w.thread] = "active"]
    /\ ckpt' = [ckpt EXCEPT ![w.thread] = FALSE]
    /\ done' = Emitted(w)
    /\ Goto(w, "finish", out)
    /\ UNCHANGED <<job, turn, op, receipts, executed, phase, crashes>>

\* fail_resume, and the cancelled branch of run_resume_inner
FailResume(w, told) ==
    /\ Running(w, "thread.resume")
    /\ thread' = [thread EXCEPT ![w.thread] = "paused"]
    /\ done' = IF told THEN Emitted(w) ELSE done
    /\ Goto(w, "finish", "failed")
    /\ UNCHANGED <<job, turn, ckpt, op, receipts, executed, phase, crashes>>

CancelResume(w) ==
    /\ Running(w, "thread.resume") /\ Signalled(w)
    /\ thread' = [thread EXCEPT ![w.thread] = "paused"]
    /\ Goto(w, "finish", "cancelled")
    /\ UNCHANGED <<job, turn, ckpt, op, done, receipts, executed, phase,
                   crashes>>

\* The terminal event of a turn that has already ended or waits.
EmitDone(w) ==
    /\ w.pc = "emit"
    /\ done' = Emitted(w)
    /\ Goto(w, "finish", w.out)
    /\ UNCHANGED <<job, turn, thread, ckpt, op, receipts, executed, phase,
                   crashes>>

\* A computer operation of the turn: an ACP session inserts it without a look
\* at the turn (request_owned has one), and its task outlives the worker.
StartOperation(w) ==
    /\ w.pc = "run" /\ "running" \notin op[w.turn]
    /\ op' = [op EXCEPT ![w.turn] = @ \cup {"running"}]
    /\ UNCHANGED <<job, turn, thread, ckpt, done, receipts, workers,
                   executed, phase, crashes>>

\* One operation ends, definitely or not, the last of its turn or not.
EndOperation(u) ==
    /\ phase = "up" /\ "running" \in op[u]
    /\ \E left \in SUBSET {"running", "uncertain"} :
          /\ left # op[u] /\ op[u] \ {"running"} \subseteq left
          /\ op' = [op EXCEPT ![u] = left]
    /\ UNCHANGED <<job, turn, thread, ckpt, done, receipts, workers,
                   executed, phase, crashes>>

-----------------------------------------------------------------------------
(* finish_job waits for the turn's operations, then ends in one of three   *)
(* ways.  report_in_tx is left out: it writes nothing without a router.    *)

Finishing(w) == w.pc = "finish" /\ "running" \notin op[w.turn]
OwnsGeneration(w) == job[w.job].gen = w.gen

OwnsStream(w) == job[w.job].stream = w.stream

\* Faulty: the thread is given up with the mark.
FinishReleasing(w) ==
    /\ Finishing(w) /\ OwnsGeneration(w) /\ ~OwnsStream(w)
    /\ job' = [job EXCEPT ![w.job] = [@ EXCEPT !.wkr = FALSE, !.occ = FALSE]]
    /\ workers' = workers \ {w}
    /\ UNCHANGED <<turn, thread, ckpt, op, done, receipts, executed, phase,
                   crashes>>

\* Faulty: returns without clearing the mark.
FinishUnmarked(w) ==
    /\ Finishing(w) /\ OwnsGeneration(w) /\ ~OwnsStream(w)
    /\ workers' = workers \ {w}
    /\ UNCHANGED <<job, turn, thread, ckpt, op, done, receipts, executed,
                   phase, crashes>>

\* A continuation took the job over: only give up the worker mark.
FinishSuperseded(w) ==
    /\ Finishing(w) /\ OwnsGeneration(w) /\ ~OwnsStream(w)
    /\ job' = [job EXCEPT ![w.job].wkr = FALSE]
    /\ workers' = workers \ {w}
    /\ UNCHANGED <<turn, thread, ckpt, op, done, receipts, executed, phase,
                   crashes>>

\* Faulty: the stream of uncertain work is left open.
FinishUntold(w) ==
    /\ Finishing(w) /\ OwnsGeneration(w) /\ OwnsStream(w)
    /\ op[w.turn] # {}
    /\ job' = [job EXCEPT ![w.job] =
                  [@ EXCEPT !.status = "interrupted", !.verified = FALSE,
                            !.wkr = FALSE, !.occ = TRUE]]
    /\ turn' = [turn EXCEPT ![w.turn].status =
                   IF @ \in {"pending", "running"} THEN "failed" ELSE @]
    /\ workers' = workers \ {w}
    /\ UNCHANGED <<thread, ckpt, op, done, receipts, executed, phase,
                   crashes>>

\* An operation ended uncertain: keep the thread until a human confirms.
FinishUncertain(w) ==
    /\ Finishing(w) /\ OwnsGeneration(w) /\ OwnsStream(w)
    /\ op[w.turn] # {}
    /\ job' = [job EXCEPT ![w.job] =
                  [@ EXCEPT !.status = "interrupted", !.verified = FALSE,
                            !.wkr = FALSE, !.occ = TRUE]]
    /\ turn' = [turn EXCEPT ![w.turn].status =
                   IF @ \in {"pending", "running"} THEN "failed" ELSE @]
    /\ done' = Closed({w.stream})
    /\ workers' = workers \ {w}
    /\ UNCHANGED <<thread, ckpt, op, receipts, executed, phase, crashes>>

TurnAfter(out) == IF out = "succeeded" THEN "completed" ELSE out

FinishSettled(w) ==
    LET live == job[w.job].status = "running"
        status == IF live THEN w.out ELSE job[w.job].status
    IN  /\ Finishing(w) /\ OwnsGeneration(w) /\ OwnsStream(w)
        /\ op[w.turn] = {}
        /\ job' = [job EXCEPT ![w.job] =
                      [@ EXCEPT !.status = status, !.wkr = FALSE,
                                !.occ = (status = "waiting_for_user")]]
        /\ turn' = [turn EXCEPT ![w.turn].status =
                       IF live /\ @ \in {"pending", "running"}
                       THEN TurnAfter(w.out) ELSE @]
        /\ done' = Closed({w.stream})
        /\ workers' = workers \ {w}
        /\ UNCHANGED <<thread, ckpt, op, receipts, executed, phase, crashes>>

-----------------------------------------------------------------------------
(* The server stops, and starts again in two transactions before it serves *)
(* a command or claims a job.                                              *)

Crash ==
    /\ phase # "down" /\ crashes < MaxCrashes
    /\ phase' = "down"
    /\ crashes' = crashes + 1
    /\ workers' = {}
    /\ UNCHANGED <<job, turn, thread, ckpt, op, done, receipts, executed>>

QueuedJobOf(u) ==
    \E j \in Requests : job[j].turn = u /\ job[j].status = "queued"
QueuedJobOn(t) ==
    \E j \in JobsOn(t) : job[j].status = "queued"

\* recover_incomplete_turns.  A message's own running checkpoint becomes
\* interrupted here too, but its thread is active and stays so.
RecoverTurns ==
    /\ phase = "down"
    /\ phase' = "recovering"
    /\ turn' = [u \in Requests |->
                  IF /\ turn[u].status \in {"pending", "running"}
                     /\ ~QueuedJobOf(u)
                  THEN [turn[u] EXCEPT !.status = "failed"]
                  ELSE turn[u]]
    /\ thread' = [t \in Threads |->
                    IF thread[t] = "running" /\ ~QueuedJobOn(t)
                    THEN IF ckpt[t] THEN "paused" ELSE "active"
                    ELSE thread[t]]
    /\ UNCHANGED <<job, ckpt, op, done, receipts, workers, executed, crashes>>

Uncertain(u) == u # 0 /\ op[u] # {}     \* running ones become uncertain

\* Faulty: the third UPDATE does not look at worker_active.
InterruptsQueued(j) ==
    IF job[j].status \in {"queued", "running"} THEN "interrupted"
    ELSE job[j].status

\* The three UPDATEs of recover over execution_jobs, in their order: a job
\* whose worker was cancelled passes through "cancelled" and ends interrupted.
RecoveredStatus(j) ==
    LET u == job[j].turn
        first == IF job[j].status # "running" THEN job[j].status
                 ELSE CASE turn[u].status = "waiting_for_user" ->
                             "waiting_for_user"
                        [] turn[u].status = "cancelled" -> "cancelled"
                        [] turn[u].status = "completed"
                             /\ done[job[j].stream] > 0 -> "succeeded"
                        [] OTHER -> "interrupted"
    IN  IF \/ Uncertain(u)
           \/ first \in {"queued", "cancelled"} /\ job[j].wkr
        THEN "interrupted" ELSE first

\* Occupancy while the job rows are rewritten, before finished rows let go.
RecoveredOccupants(t) ==
    {j \in JobsOn(t) : job[j].occ \/ Uncertain(job[j].turn)}

\* commands::recover.  ux_execution_jobs_thread_owner fails the transaction,
\* and with it the startup, when two jobs of one thread would occupy it.
RecoverJobs ==
    LET rewritten(j) == \/ Uncertain(job[j].turn)
                        \/ RecoveredStatus(j) # job[j].status
        verified(j) == job[j].verified /\ ~rewritten(j)
        interrupted == {j \in Requests : /\ RecoveredStatus(j) = "interrupted"
                                         /\ ~verified(j)}
    IN  /\ phase = "recovering"
        /\ \A t \in Threads : \A j, k \in RecoveredOccupants(t) : j = k
        /\ phase' = "up"
        /\ job' = [j \in Requests |->
                     [job[j] EXCEPT
                        !.status = RecoveredStatus(j),
                        !.verified = verified(j),
                        !.wkr = FALSE,
                        !.occ = /\ @ \/ Uncertain(job[j].turn)
                                /\ RecoveredStatus(j) \notin
                                     {"succeeded", "failed", "cancelled"}]]
        /\ op' = [u \in Requests |-> IF op[u] = {} THEN {} ELSE {"uncertain"}]
        /\ done' = Closed({job[j].stream : j \in interrupted})
        /\ UNCHANGED <<turn, thread, ckpt, receipts, workers, executed,
                       crashes>>

-----------------------------------------------------------------------------
Accept(r) ==
    \/ \E t \in Threads : \/ QueueMessage(r, t)
                          \/ AnswerWaiting(r, t)
                          \/ ResumeWaitingTurn(r, t)
                          \/ ResumeNewTurn(r, t)
    \/ \E t \in Threads, a \in Automations, timer \in BOOLEAN :
          AcceptOccurrence(r, a, t, timer)

Client ==
    \/ \E r \in Requests : Accept(r) \/ CancelTurn(r) \/ AcknowledgeStopped(r)
    \/ \E a \in Automations : EditAutomation(a)

Claim == \E q \in Requests : ClaimNext(q)

\* What moves a worker towards its end
Advance(w) ==
    \/ StartCancelled(w) \/ StartRefused(w) \/ StartMessage(w)
    \/ StartResume(w) \/ CompleteTurn(w) \/ AskUser(w) \/ CancelRun(w)
    \/ AskAgain(w) \/ CancelResume(w) \/ EmitDone(w)
    \/ \E told \in BOOLEAN : \/ FailResume(w, told)
                             \/ \E p \in BOOLEAN : FailTurn(w, p, told)
    \/ \E out \in {"succeeded", "waiting_for_user"} : CompleteResume(w, out)

Finish(w) == FinishSuperseded(w) \/ FinishUncertain(w) \/ FinishSettled(w)

Work == \E w \in workers :
           Advance(w) \/ Finish(w) \/ Interrupt(w) \/ StartOperation(w)

EndOperations == \E u \in Requests : EndOperation(u)

Next == \/ Client \/ Claim \/ Work \/ EndOperations
        \/ Crash \/ RecoverTurns \/ RecoverJobs

Spec == Init /\ [][Next]_vars

\* The 5 s loop of server.rs and every transaction that frees a thread call
\* launch; run_job ends because budgets and timeouts bound a run; finish_job
\* polls; a computer request has a timeout; the server is started again.
\* Clients, provider failures and crashes are owed nothing.
Fairness ==
    /\ WF_vars(Claim)
    /\ \A t \in Threads :
          /\ WF_vars(\E w \in workers : w.thread = t /\ Advance(w))
          /\ WF_vars(\E w \in workers : w.thread = t /\ Finish(w))
    /\ \A u \in Requests : WF_vars(EndOperation(u) /\ "running" \notin op'[u])
    /\ WF_vars(RecoverTurns)
    /\ WF_vars(RecoverJobs)

FairSpec == Spec /\ Fairness

-----------------------------------------------------------------------------
(* Safety                                                                  *)

\* A job has a thread, a turn and a stream from the transaction that accepts
\* its request on; before it the row is blank.
JobsAreMinted ==
    \A j \in Requests :
        IF job[j].status = "none"
        THEN job[j].turn = 0 /\ job[j].stream = 0 /\ ~job[j].wkr
        ELSE /\ job[j].thread \in Threads
             /\ job[j].turn \in Requests
             /\ job[j].stream \in Requests
             /\ j \in receipts

\* The row a worker started from is still its own: marked worker_active, of
\* the worker's generation, and neither waiting nor ended by anybody else.
\* The early return of finish_job on a foreign generation is never taken.
WorkersOwnTheirJobs ==
    \A w \in workers :
        /\ phase = "up"
        /\ job[w.job].wkr
        /\ job[w.job].gen = w.gen
        /\ job[w.job].thread = w.thread
        /\ job[w.job].status \in {"running", "queued", "cancelled"}

\* No two workers act on one thread, whatever was cancelled, resumed or
\* interrupted in between: claim_next, finish_job and the worker_active mark.
OneWorkerPerThread ==
    \A v, w \in workers : v.thread = w.thread => v = w

\* One job occupies a thread and one turn is active on it: no transaction but
\* the startup one relies on the unique indexes of execution_jobs and
\* group_turns to stop it.
OneOwnerPerThread ==
    \A t \in Threads :
        /\ \A j, k \in JobsOn(t) : job[j].occ /\ job[k].occ => j = k
        /\ \A u, v \in ActiveTurnsOn(t) : u = v

\* While a job waits for stop confirmation nothing runs beside it.
NothingRunsBesideInterrupted ==
    \A w \in workers : \A j \in JobsOn(w.thread) : ~Unconfirmed(j)

\* Occurrences of one automation never overlap, on whatever threads they run.
AutomationSequential ==
    \A v, w \in workers :
        v.auto = w.auto /\ v.auto # NoAutomation => v = w

\* A job that asked its user, and the continuation that answers it, keep the
\* thread reserved: no other job slips in between question and answer.
ContinuationKeepsThread ==
    \A j \in Requests :
        /\ phase = "up"
        /\ \/ job[j].status = "waiting_for_user"
           \/ job[j].status = "queued" /\ job[j].gen > 0
        => job[j].occ

\* Four writers append the terminal event of a stream.  None does it twice, and
\* a job that ended without being cancelled has left its stream with one.
OneTerminalEvent ==
    /\ \A s \in Requests : done[s] <= 1
    /\ \A j \in Requests :
        /\ phase = "up"
        /\ job[j].status \in {"succeeded", "failed", "interrupted"}
        => done[job[j].stream] > 0

-----------------------------------------------------------------------------
(* Steps                                                                   *)

Claimed(j) == job'[j].gen # job[j].gen

\* An accepted command is executed at most once: a stream whose worker died
\* or was interrupted is never handed to another worker.
ExecutedAtMostOnce ==
    [][\A j \in Requests : Claimed(j) => job[j].stream \notin executed]_vars

\* A queued job leaves the queue because a worker claimed it, its turn was
\* cancelled, or the server stopped while its previous worker was alive.
\* In particular the previous worker's late finish_job cannot end it.
QueuedWorkIsKept ==
    [][\A j \in Requests :
          job[j].status = "queued" /\ job'[j].status # "queued" =>
            \/ job'[j].status = "running" /\ job'[j].stream \in executed'
            \/ /\ job'[j].status = "cancelled"
               /\ turn'[job[j].turn].status = "cancelled"
            \/ job'[j].status = "interrupted" /\ phase = "recovering"
                                             /\ job[j].wkr]_vars

\* An interrupted job is never retried and never silently confirmed: only a
\* human confirmation ends its hold on the thread.
InterruptedNeedsHuman ==
    [][\A j \in Requests :
          Unconfirmed(j) /\ (~Unconfirmed(j))' =>
            job'[j].status = "interrupted" /\ job'[j].verified]_vars

\* A turn that ended stays ended, whichever of the worker, the user and the
\* recovery ended it first.
TerminalTurnIsFinal ==
    [][\A u \in Requests :
          turn[u].status \in TerminalTurn => turn'[u] = turn[u]]_vars

-----------------------------------------------------------------------------
(* Liveness                                                                *)

\* Work that only a person can release: a question, or a confirmation.
HeldForUser(t) ==
    \/ \E j \in JobsOn(t) : \/ job[j].status = "waiting_for_user"
                             \/ Unconfirmed(j)
    \/ \E u \in ActiveTurnsOn(t) : turn[u].status = "waiting_for_user"

\* Accepted means committed: all queued work is claimed or withdrawn, or a
\* person is asked for something that stands in its way.  Commands are bounded,
\* so it is enough that again and again none is left.
QueuedIsServed ==
    []<>(\/ \A j \in Requests : job[j].status # "queued"
         \/ \E t \in Threads : HeldForUser(t))

\* A client that follows the stream of a command somebody started working on
\* is told the end of it.
StartedStreamEnds == []<>(\A s \in executed : done[s] > 0)
=============================================================================
