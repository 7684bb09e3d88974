---------------------------- MODULE TaskThreads ----------------------------
(***************************************************************************)
(* Task threads of a group in router mode: runtime/router.rs, the topic     *)
(* delivery of api/automations/service.rs, and what they need of            *)
(* api/commands.rs.  A topic's events open the thread Home, whose router    *)
(* hands work to task threads; a task follows its conversation's topic, and *)
(* the end of each of its runs is reported back to Home.                    *)
(*                                                                         *)
(* The queue is that of JobQueue with less detail: a run checkpoints and    *)
(* sets its turn in one step, the stream of a run is only remembered as     *)
(* moved or not, and there are no computers.  One action is one             *)
(* transaction; jobs are numbered in the order of created_at.               *)
(***************************************************************************)
EXTENDS Naturals, FiniteSets, Sequences, FiniteSetsExt

CONSTANTS
    MaxOpened,      \* bound: task threads the router opens
    MaxTasks,       \* max_router_tasks of the group
    MaxPerRequest,  \* MAX_TASKS_PER_REQUEST
    MaxBatch,       \* MAX_BATCHED_EVENTS
    MaxDeliveries,  \* MAX_TOPIC_DELIVERIES
    Commands,       \* what clients send: messages, resumptions, cancellations
    MaxTopicEvents, \* bound: events of the topic
    MaxSent,        \* bound: commands of clients
    MaxOrders,      \* bound: instructions of the router
    MaxClaims,      \* bound: runs of one job that may end in a question
    MaxCrashes,     \* bound: server stops
    MaxTogether     \* bound: all four together

ASSUME TaskAssumption ==
    /\ MaxOpened \in Nat /\ MaxTasks \in Nat /\ MaxPerRequest \in Nat
    /\ MaxBatch \in Nat /\ MaxDeliveries \in Nat
    /\ MaxTopicEvents \in Nat /\ MaxSent \in Nat /\ MaxOrders \in Nat
    /\ MaxClaims \in Nat /\ MaxCrashes \in Nat /\ MaxTogether \in Nat

Home == 0
Tasks == 1 .. MaxOpened         \* in the order they are opened
AllThreads == Tasks \cup {Home}

VARIABLES
    job,        \* execution_jobs with the turn and the message of each
    thread,     \* threads.status; "none" before the thread is opened
    ckpt,       \* the thread has a message with status 'interrupted'
    followers,  \* thread_topics of the tasks, in the order of created_at
    instructed, \* instructions since the newest user message of Home
    spent,      \* bounds used up: events, sent, orders, crashes
    delivered   \* history: the inputs accepted for some thread

taskVars == <<job, thread, ckpt, followers, instructed, spent, delivered>>

-----------------------------------------------------------------------------
(* An input is an event delivered to a thread or the report of one run.     *)

Event(t, e) == [kind |-> "event", thread |-> t, of |-> e, run |-> 0]
Report(j, n) == [kind |-> "report", thread |-> Home, of |-> j, run |-> n]

\* A job keeps the turn it last had; "ended" stands for every terminal
\* status.  at is where its worker stands, "idle" without one.
NewJob(t, kind, auto, inputs, turn) ==
    [status |-> "queued", thread |-> t, kind |-> kind, auto |-> auto,
     turn |-> turn, at |-> "idle", occ |-> FALSE, moved |-> FALSE, gen |-> 0,
     verified |-> FALSE, inputs |-> inputs, read |-> {}]

ActiveTurn == {"pending", "running", "waiting"}
JobsOn(jobs, t) == {j \in DOMAIN jobs : jobs[j].thread = t}

Busy(jobs, t) == \E j \in JobsOn(jobs, t) : jobs[j].turn \in ActiveTurn
Waiting(t) == {j \in JobsOn(job, t) : job[j].status = "waiting"}
LiveThread(t) == thread[t] \in {"active", "running", "paused"}

\* insert_message_in_tx without a job to reuse
Post(jobs, t, kind, auto, inputs) ==
    Append(jobs, NewJob(t, kind, auto, inputs,
                        IF Busy(jobs, t) THEN "queued" ELSE "pending"))

\* reopen_paused_thread_in_tx
Reopened(threads, t) ==
    [threads EXCEPT ![t] = IF @ = "paused" THEN "active" ELSE @]
Superseded(ckpts, t) == [ckpts EXCEPT ![t] = @ /\ thread[t] # "paused"]

TaskInit ==
    /\ job = <<>>
    /\ thread = [t \in AllThreads |-> "none"]
    /\ ckpt = [t \in AllThreads |-> FALSE]
    /\ followers = <<>>
    /\ instructed = 0
    /\ spent = [events |-> 0, sent |-> 0, orders |-> 0, crashes |-> 0]
    /\ delivered = {}

-----------------------------------------------------------------------------
(* route_topic and deliver                                                  *)

\* Faulty: a run that has been claimed takes another event.
BatchesOfClaimed(jobs, t) ==
    {j \in JobsOn(jobs, t) : /\ jobs[j].status \in {"queued", "running"}
                             /\ jobs[j].kind = "event"
                             /\ Cardinality(jobs[j].inputs) < MaxBatch}

\* A queued run of the thread that carries events and has room for one more.
Batches(jobs, t) ==
    {j \in JobsOn(jobs, t) : /\ jobs[j].status = "queued" /\ jobs[j].at = "idle"
                             /\ jobs[j].kind = "event"
                             /\ Cardinality(jobs[j].inputs) < MaxBatch}

Deliver(jobs, t, e, auto) ==
    IF Batches(jobs, t) # {}
    THEN [jobs EXCEPT ![Max(Batches(jobs, t))].inputs = @ \cup {Event(t, e)}]
    ELSE Post(jobs, t, "event", auto, {Event(t, e)})

\* The tasks an event goes to: those that have followed the topic longest.
Subscribers == SubSeq(followers, 1, Min({MaxDeliveries, Len(followers)}))

NextEvent == spent.events + 1
Spend(name) ==
    /\ spent.events + spent.sent + spent.orders + spent.crashes < MaxTogether
    /\ spent' = [spent EXCEPT ![name] = @ + 1]

TakeEvent(targets) ==
    /\ spent.events < MaxTopicEvents
    /\ Spend("events")
    /\ delivered' = delivered \cup {Event(t, NextEvent) : t \in targets}
    /\ thread' = [t \in AllThreads |->
                     IF t \in targets /\ thread[t] \in {"none", "paused"}
                     THEN "active" ELSE thread[t]]
    /\ ckpt' = [t \in AllThreads |-> ckpt[t] /\ (t \in targets => thread[t] # "paused")]
    /\ UNCHANGED followers

\* The jobs after an event was delivered to the first n of them.
Delivered[n \in 0 .. Len(Subscribers)] ==
    IF n = 0 THEN job ELSE Deliver(Delivered[n - 1], Subscribers[n], NextEvent, FALSE)

EventToTasks ==
    /\ Subscribers # <<>>
    /\ TakeEvent({Subscribers[i] : i \in DOMAIN Subscribers})
    /\ job' = Delivered[Len(Subscribers)]
    /\ UNCHANGED instructed

\* The first event opens Home.  An event that starts a message of its own is
\* a user message of Home, one that joins a batch changes an older message.
EventToHome ==
    /\ Subscribers = <<>>
    /\ TakeEvent({Home})
    /\ job' = Deliver(job, Home, NextEvent, TRUE)
    /\ instructed' = IF Batches(job, Home) = {} THEN 0 ELSE instructed

-----------------------------------------------------------------------------
(* Commands of clients, as in JobQueue.                                     *)

Sends(what) == what \in Commands /\ spent.sent < MaxSent /\ Spend("sent")

\* accept_message on a thread without a waiting job
QueueMessage(t) ==
    /\ Sends("message") /\ LiveThread(t) /\ Waiting(t) = {}
    /\ job' = Post(job, t, "message", FALSE, {})
    /\ thread' = Reopened(thread, t)
    /\ ckpt' = Superseded(ckpt, t)
    /\ instructed' = IF t = Home THEN 0 ELSE instructed
    /\ UNCHANGED <<followers, delivered>>

\* accept_message on a thread with one: the job is reused for the message.
AnswerWaiting(t) ==
    /\ Sends("message") /\ Waiting(t) # {}
    /\ LET w == Min(Waiting(t))
           ended == [job EXCEPT ![w].turn = "ended"]
       IN  job' = [ended EXCEPT ![w] =
                      [@ EXCEPT !.status = "queued", !.kind = "message", !.inputs = {},
                                !.turn = IF Busy(ended, t) THEN "queued" ELSE "pending"]]
    /\ thread' = [thread EXCEPT ![t] = "active"]
    /\ ckpt' = [ckpt EXCEPT ![t] = FALSE]
    /\ instructed' = IF t = Home THEN 0 ELSE instructed
    /\ UNCHANGED <<followers, delivered>>

\* accept_resume (approval.resolve and thread.resume): the newest waiting turn
\* goes on in its job; without an active turn a job is minted.
CanResume(t) == thread[t] = "paused" /\ ckpt[t]

Resume(t) ==
    LET asked == {j \in JobsOn(job, t) : job[j].turn = "waiting"}
        kept == {j \in asked : job[j].status \in {"running", "waiting"}}
    IN  /\ Sends("resume") /\ CanResume(t)
        /\ \/ /\ kept # {}
              /\ job' = [job EXCEPT ![Max(kept)] =
                            [@ EXCEPT !.status = "queued", !.kind = "resume",
                                      !.inputs = {}, !.turn = "running",
                                      !.moved = (job[Max(kept)].at # "idle"),
                                      !.verified = FALSE]]
           \/ /\ ~Busy(job, t)
              /\ job' = Append(job, NewJob(t, "resume", FALSE, {}, "running"))
        /\ thread' = [thread EXCEPT ![t] = "running"]
        /\ UNCHANGED <<ckpt, followers, instructed, delivered>>

\* cancel_turn_effects_in_tx for the turns of some jobs
InLine(j) == job[j].status \in {"queued", "running", "waiting"}

Cancelled(turns) ==
    [j \in DOMAIN job |->
        IF j \notin turns THEN job[j]
        ELSE IF ~InLine(j) THEN [job[j] EXCEPT !.turn = "ended"]
        ELSE [job[j] EXCEPT !.turn = "ended", !.status = "cancelled",
                            !.occ = @ /\ job[j].at # "idle"]]

Unfinished(t) == {j \in JobsOn(job, t) : job[j].turn \in ActiveTurn \cup {"queued"}}

CancelTurn(j) ==
    /\ Sends("cancel")
    /\ j \in Unfinished(job[j].thread) \/ InLine(j)
    /\ job' = Cancelled({j})
    /\ UNCHANGED <<thread, ckpt, followers, instructed, delivered>>

\* accept_acknowledge_stopped
Acknowledge(j) ==
    /\ job[j].status = "interrupted" /\ ~job[j].verified
    /\ job' = [job EXCEPT ![j].verified = TRUE, ![j].occ = FALSE]
    /\ UNCHANGED <<thread, ckpt, followers, instructed, spent, delivered>>

-----------------------------------------------------------------------------
(* claim_next                                                               *)

Holds(j) == \/ job[j].occ \/ job[j].at # "idle" \/ job[j].status = "waiting"
            \/ job[j].status = "interrupted" /\ ~job[j].verified

Claimable(q) ==
    /\ job[q].status = "queued" /\ job[q].at = "idle"
    /\ \A a \in JobsOn(job, job[q].thread) \ {q} :
          ~Holds(a) /\ job[a].turn \notin ActiveTurn
    /\ job[q].auto => \A a \in DOMAIN job \ {q} : job[a].auto => ~Holds(a)

Before(p, q) ==
    IF job[p].occ # job[q].occ THEN job[p].occ
    ELSE IF job[p].auto # job[q].auto THEN job[q].auto
    ELSE p < q

\* The worker starts with what the row carries now; a message is refused on
\* a thread that is not active.
Claim(q) ==
    /\ Claimable(q)
    /\ \A p \in DOMAIN job \ {q} : Claimable(p) => Before(q, p)
    /\ LET runs == job[q].kind = "resume" \/ thread[job[q].thread] = "active"
       IN  job' = [job EXCEPT ![q] =
                      [@ EXCEPT !.status = "running", !.occ = TRUE,
                                !.at = IF runs THEN "run" ELSE "failed",
                                !.turn = IF runs THEN "running" ELSE "pending",
                                !.moved = FALSE, !.gen = job[q].gen + 1,
                                !.read = job[q].read \cup job[q].inputs]]
    /\ UNCHANGED <<thread, ckpt, followers, instructed, spent, delivered>>

-----------------------------------------------------------------------------
(* The router's tools, called while Home runs.                              *)

\* active_task_count
ActiveTasks == {t \in Tasks : \E j \in JobsOn(job, t) : InLine(j)}

\* Faulty: a follow-up is not counted with the instructions of the request.
OrdersUncounted(j) ==
    /\ job[j].thread = Home /\ job[j].at = "run"
    /\ spent.orders < MaxOrders
    /\ instructed' = instructed
    /\ Spend("orders")

\* check_request_budget, and what post_in_tx adds to it
Orders(j) ==
    /\ job[j].thread = Home /\ job[j].at = "run"
    /\ spent.orders < MaxOrders
    /\ instructed < MaxPerRequest
    /\ instructed' = instructed + 1
    /\ Spend("orders")

\* DispatchTask: a thread of its own, which follows Home's topic unless told
\* not to.
Dispatch(j, t, follows) ==
    /\ Cardinality(ActiveTasks) < MaxTasks
    /\ Orders(j)
    /\ thread[t] = "none" /\ \A u \in 1 .. t - 1 : thread[u] # "none"
    /\ thread' = [thread EXCEPT ![t] = "active"]
    /\ job' = Post(job, t, "instruction", FALSE, {})
    /\ followers' = IF follows THEN Append(followers, t) ELSE followers
    /\ UNCHANGED <<ckpt, delivered>>

\* admit_follow_up
Admitted(t) ==
    /\ Waiting(t) = {}
    /\ \/ job[Max(JobsOn(job, t))].status \in {"queued", "running"}
       \/ Cardinality(ActiveTasks) < MaxTasks

Unfollowed(t) ==
    LET at == {i \in DOMAIN followers : followers[i] = t}
    IN  IF at = {} THEN followers
        ELSE SubSeq(followers, 1, Min(at) - 1)
                 \o SubSeq(followers, Min(at) + 1, Len(followers))

\* SendToTask, and DispatchTask with a task_id; only the latter may change
\* what the task follows.
FollowUp(j, t) ==
    /\ LiveThread(t) /\ Admitted(t)
    /\ Orders(j)
    /\ thread' = Reopened(thread, t)
    /\ ckpt' = Superseded(ckpt, t)
    /\ job' = Post(job, t, "instruction", FALSE, {})
    /\ followers' \in {followers, Unfollowed(t), Append(Unfollowed(t), t)}
    /\ UNCHANGED delivered

\* CancelTask; a watchdog's StopTask is the same transaction and a message
\* nobody runs.
CancelTask(j, t) ==
    /\ job[j].thread = Home /\ job[j].at = "run"
    /\ spent.orders < MaxOrders /\ Spend("orders")
    /\ thread[t] # "none"
    /\ job' = Cancelled(Unfinished(t))
    /\ followers' = Unfollowed(t)
    /\ UNCHANGED <<thread, ckpt, instructed, delivered>>

-----------------------------------------------------------------------------
(* A run, up to finish_job.                                                 *)

Leave(j, at, turn) == job' = [job EXCEPT ![j].at = at, ![j].turn = turn]
Owns(j) == job[j].at = "run" /\ job[j].turn = "running"
RunEnds == UNCHANGED <<followers, instructed, spent, delivered>>

\* The run asks the user: a checkpoint, a paused thread, a waiting turn.
AskUser(j) ==
    /\ Owns(j) /\ job[j].gen < MaxClaims
    /\ Leave(j, "asked", "waiting")
    /\ thread' = [thread EXCEPT ![job[j].thread] = "paused"]
    /\ ckpt' = [ckpt EXCEPT ![job[j].thread] = TRUE]
    /\ RunEnds

\* The turn completes and its `done` event is stored.
Complete(j) ==
    /\ Owns(j)
    /\ Leave(j, "done", "ended")
    /\ thread' = [thread EXCEPT ![job[j].thread] = "active"]
    /\ ckpt' = [ckpt EXCEPT ![job[j].thread] = @ /\ job[j].kind # "resume"]
    /\ RunEnds

\* It fails, or notices its cancellation; a continuation leaves its thread
\* paused.
Break(j) ==
    /\ job[j].at = "run"
    /\ \E at \in {"failed", "cancelled"} :
          /\ at = "cancelled" <=> job[j].turn = "ended"
          /\ Leave(j, at, "ended")
    /\ thread' = IF job[j].kind = "resume"
                 THEN [thread EXCEPT ![job[j].thread] = "paused"] ELSE thread
    /\ UNCHANGED ckpt
    /\ RunEnds

-----------------------------------------------------------------------------
(* finish_job and report_in_tx                                              *)

Outcome == [asked |-> "waiting", done |-> "succeeded", failed |-> "failed",
            cancelled |-> "cancelled"]

\* Faulty: a report joins one a worker has been given.
GivenReports(jobs) ==
    {r \in JobsOn(jobs, Home) : /\ jobs[r].status \in {"queued", "running"}
                                /\ jobs[r].kind = "report"}

\* An earlier report that no worker has been given yet.
OpenReports(jobs) ==
    {r \in JobsOn(jobs, Home) : /\ jobs[r].status = "queued" /\ jobs[r].at = "idle"
                                /\ jobs[r].kind = "report"}

\* Faulty: only results are reported.
ReportableResult(t, status) ==
    t \in Tasks /\ LiveThread(Home) /\ status \in {"succeeded", "waiting"}

Reportable(t, status) ==
    t \in Tasks /\ LiveThread(Home) /\ status \in {"succeeded", "failed", "waiting"}

ReportIn(jobs, entry) ==
    IF OpenReports(jobs) # {}
    THEN [jobs EXCEPT ![Min(OpenReports(jobs))].inputs = @ \cup {entry}]
    ELSE Post(jobs, Home, "report", FALSE, {entry})

Finishing(j) == job[j].at \in DOMAIN Outcome

\* A continuation took the job over while the worker was ending.
FinishMoved(j) ==
    /\ Finishing(j) /\ job[j].moved
    /\ job' = [job EXCEPT ![j].at = "idle", ![j].moved = FALSE]
    /\ UNCHANGED <<thread, ckpt, followers, instructed, spent, delivered>>

Finish(j) ==
    LET live == job[j].status = "running"
        status == IF live THEN Outcome[job[j].at] ELSE job[j].status
        entry == Report(j, job[j].gen)
        ended == [job EXCEPT ![j] =
                     [@ EXCEPT !.status = status, !.at = "idle",
                               !.occ = (status = "waiting"),
                               !.turn = IF job[j].turn = "pending" THEN "ended"
                                        ELSE job[j].turn]]
        reports == Reportable(job[j].thread, status)
    IN  /\ Finishing(j) /\ ~job[j].moved
        /\ job' = IF reports THEN ReportIn(ended, entry) ELSE ended
        /\ delivered' = IF reports THEN delivered \cup {entry} ELSE delivered
        /\ UNCHANGED <<thread, ckpt, followers, instructed, spent>>

-----------------------------------------------------------------------------
(* The server stops and recovers before it serves anyone again.             *)

RecoveredStatus(j) ==
    CASE job[j].status = "running" ->
           (CASE job[j].turn = "waiting" -> "waiting"
              [] job[j].at = "done" -> "succeeded"
              [] OTHER -> "interrupted")
      [] job[j].status \in {"queued", "cancelled"} /\ job[j].at # "idle" ->
           "interrupted"
      [] OTHER -> job[j].status

Restart ==
    /\ spent.crashes < MaxCrashes /\ Spend("crashes")
    /\ job' = [j \in DOMAIN job |->
                  [job[j] EXCEPT
                     !.status = RecoveredStatus(j), !.at = "idle",
                     !.occ = @ /\ RecoveredStatus(j) \notin
                                     {"succeeded", "failed", "cancelled"},
                     !.turn = IF /\ @ \in {"pending", "running"}
                                 /\ job[j].status # "queued"
                              THEN "ended" ELSE @]]
    /\ thread' = [t \in AllThreads |->
                     IF /\ thread[t] = "running"
                        /\ \A j \in JobsOn(job, t) : job[j].status # "queued"
                     THEN IF ckpt[t] THEN "paused" ELSE "active"
                     ELSE thread[t]]
    /\ UNCHANGED <<ckpt, followers, instructed, delivered>>

-----------------------------------------------------------------------------
Clients ==
    \/ EventToTasks \/ EventToHome
    \/ \E t \in AllThreads : QueueMessage(t) \/ AnswerWaiting(t) \/ Resume(t)
    \/ \E j \in DOMAIN job : CancelTurn(j) \/ Acknowledge(j)

Router(j) ==
    \E t \in Tasks : \/ \E follows \in BOOLEAN : Dispatch(j, t, follows)
                     \/ FollowUp(j, t) \/ CancelTask(j, t)

Ends(j) == AskUser(j) \/ Complete(j) \/ Break(j)
Finishes(j) == FinishMoved(j) \/ Finish(j)

TaskNext ==
    \/ Clients \/ Restart
    \/ \E j \in DOMAIN job : Claim(j) \/ Router(j) \/ Ends(j) \/ Finishes(j)

\* launch follows every transaction that frees a thread, a run's budgets and
\* timeouts bound it, and finish_job is its last step.
TaskFairness ==
    /\ WF_taskVars(\E j \in DOMAIN job : Claim(j))
    /\ \A t \in AllThreads :
          /\ WF_taskVars(\E j \in JobsOn(job, t) : Ends(j))
          /\ WF_taskVars(\E j \in JobsOn(job, t) : Finishes(j))

TaskSpec == TaskInit /\ [][TaskNext]_taskVars
FairTaskSpec == TaskSpec /\ TaskFairness

-----------------------------------------------------------------------------
(* Properties                                                               *)

Carriers(i) == {j \in DOMAIN job : i \in job[j].inputs \cup job[j].read}

\* An event or a report is in exactly one run's input, and a run that has been
\* given to a worker has been given all of it: batching loses and repeats
\* nothing, however deliveries, claims, answers and cancellations interleave.
InputsReadOnce ==
    \A i \in delivered :
        \E j \in DOMAIN job : /\ Carriers(i) = {j}
                              /\ job[j].gen > 0 => i \in job[j].read

\* A request sets off at most MaxPerRequest instructions, whatever reports
\* and follow-ups it leads to (the comment on MAX_TASKS_PER_REQUEST).
InstructionsAreBounded ==
    Cardinality({j \in DOMAIN job : job[j].kind = "instruction"})
        <= MaxPerRequest * (spent.events + spent.sent)

\* "Callers answering a waiting job take their own branch, so this never
\* silently answers an approval gate" (commands.rs, of the reopening of a paused
\* thread): a question is there to be answered until the run that asked goes on
\* or ends.
QuestionStays ==
    [][\A j \in DOMAIN job :
          /\ job[j].status = "waiting" /\ CanResume(job[j].thread)
          /\ job'[j].status = "waiting"
          => CanResume(job[j].thread)']_taskVars

\* "The report commits with the job's terminal state, so a crash can neither
\* lose a finished task's result nor report it twice" (commands.rs).
EndedRunIsReported ==
    \A j \in DOMAIN job :
        job[j].status = "succeeded" /\ job[j].thread \in Tasks =>
            Carriers(Report(j, job[j].gen)) # {}

\* The router hears of every instruction, unless someone is asked or a run is
\* cancelled: instructions are bounded and what was heard stays heard, so it is
\* enough that again and again none is left.
Heard(n) == \E j \in DOMAIN job : \E i \in job[j].read : i.kind = "report" /\ i.of = n
Excused == \E j \in DOMAIN job : job[j].status \in {"waiting", "cancelled"}
TasksAreHeard ==
    []<>(Excused \/ \A n \in DOMAIN job : job[n].kind = "instruction" => Heard(n))
=============================================================================
