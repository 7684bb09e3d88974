# A verification project for qunica

qunica is a self-hosted workspace in which people talk to groups of agents.
The server (`backend-rs/crates/backend`, Rust, SQLite) accepts commands from
several clients, runs agent turns as tokio tasks, drives controlled computers
through a separate supervisor process (`backend-rs/crates/computer-supervisor`)
and publishes what happens as replayable event streams. This directory holds
TLA+ modules of its core logic, the TLC configurations that check them and the
proofs that TLAPS checks. Paths below are relative to `src/`; `B/` stands for
`backend-rs/crates/backend/src/`.

    tlc -config service.cfg    MCService.tla      # and, likewise,
    tlc -config group_turn.cfg MCGroupTurn.tla
    tlc -config agent_work.cfg MCAgentWork.tla
    tlc -config control.cfg    MCSupervisor.tla
    tlc -config feeds.cfg      MCFeeds.tla
    tlapm JobQueueProofs.tla                      # and the other *Proofs modules

`PROJECT.json` names the module of every other configuration, maps every
definition to the lines it translates, and lists under `hazards` where in the
code each of the things below can go wrong and which property would show it.

## 1. Inventory

| Part | State | Operations | Talks to |
|---|---|---|---|
| **Durable command and job queue** `B/api/commands.rs` | `execution_jobs`, `command_receipts`, `stream_events`; tokio tasks in memory | `accept` (`message.send`, `thread.resume`, `approval.resolve`, `turn.cancel`, `turn.acknowledge_stopped`), `claim_next`, `run_job`, `finish_job`, `recover` | every other part of the server |
| **Scheduler store and active-turn registry** `B/runtime/group_scheduler/{store,state,cancellation}.rs` | `group_turns`, `group_dispatches`; a map of cancellation tokens in memory | begin, transition, cancel, supersede, record dispatch, `recover_incomplete_turns`; register, cancel, drop | queue, group runtime |
| **Turn decisions** `B/runtime/group_scheduler/{budget,topology,mod,moderator}.rs` | none (pure) over a budget of steps, hops, moderator calls, failures | `next_decision`, `resolve_topology`, `consume_*` | group runtime |
| **Group runtime** `B/runtime/{group,sequence}.rs` | turn, thread and message rows; the stream's sequence allocator | scheduled turn, thread resume, persist or complete a checkpoint, terminal events | store, approval gate, tools, computers |
| **Automations** `B/api/automations/` | automations, occurrences | tick, webhook, topic delivery, `enqueue`, update, `cancel_queued` | queue |
| **Tool approval gate** `B/runtime/approval.rs`, `B/tools/approval.rs` | pending approvals with a version | gate, resolve, expire | group runtime, `accept_resume` |
| **Router and task threads** `B/runtime/{router,watchdog}.rs` | task threads, reports | route, report, nudge | queue (reports commit with the job that ends) |
| **Context and compaction** `B/runtime/{compaction,conversation_context,recall}.rs` | checkpoints over admitted messages | compact, assemble, recall | group runtime |
| **Threads and groups** `B/api/{threads,groups,group_turns,messages}.rs` | `threads`, `groups` | create, archive, clear, delete, cancel, resume | queue |
| **Event feeds** `B/api/{realtime,account,sse_replay,workspace_events}.rs` | `account_events`, `run_events`, `stream_events`; subscriptions in memory | subscribe, replay after a cursor, publish, prune | clients |
| **Computers, backend side** `B/computers.rs`, `B/computers/idle.rs`, `B/acp/computer.rs`, `B/api/computer*.rs` | `computers`, `computer_operations`, leases | acquire, request, idle sweep, wake, proxy | supervisor, group runtime |
| **Computer supervisor** `backend-rs/crates/computer-supervisor/src/` | one status and generation per computer, in memory and on disk; a human-control record beside it | create, start, stop, rebuild, destroy, execute, call, control | Docker, backend |
| **Mobile link** `mobile-link/src/` | pairing offers, device grants | offer, authorize, revoke, tunnel | mobile clients |
| **Terminals and shell jobs** `B/terminal.rs`, `B/tools/shell/jobs.rs` | processes | open, write, resize, poll, kill | operating system |
| **Providers, MCP, ACP, git, decision model** | connections | request, stream | external services |
| **Authentication, settings, agents** `B/api/*.rs` | single rows | create, read, update, delete | - |
| **Front ends** `frontend/`, `android/` | views | the realtime protocol | server |

What makes this system hard is not one algorithm but the number of writers of
the same few rows. A job is written by the client that creates it, by the
worker that runs it, by a cancellation, by a continuation that arrives while
the worker is still cleaning up, by an automation that withdraws it, and by a
startup that finds it in any of these states. SQLite serialises transactions
(`begin_write`), but a worker lives through many of them, remembers in memory
what it read in the first, and can disappear between any two. Effects on
computers outlive both the worker and the server.

Correctness, part by part:

* *Queue.* One worker per task thread, whatever was cancelled, resumed or
  interrupted in between. Accepted work is never lost, never executed twice
  and never ended by a worker it does not belong to. Work whose effects are
  unknown blocks its thread until a person confirms. Streams end, once.
* *Scheduler.* Nobody speaks twice because of a delegation, a user's mention is
  not lost between filters, topology and moderator, the budgets bound what is
  dispatched however it came about, and a turn ends.
* *Automations.* Occurrences of one automation do not overlap; every time of
  the calendar is accounted for; an edit withdraws what has not started.
* *Approvals and tools.* What a person refused never runs, a call whose outcome
  is unknown is never tried again, a cancelled dispatch starts nothing.
* *Router and tasks.* What is sent to a thread is read once; the router hears
  of every task.
* *Context.* The history has the order in which turns ran; a shortened prompt
  lacks nothing, keeps calls with their results and keeps the checklist.
* *Event feeds.* A cursor never skips an event that was not pruned, and a
  pruned cursor is told so.
* *Computers.* At most one turn acts on a computer; a human who has control has
  it alone; nothing starts before a verified stop once the state is unknown;
  what is in use is not stopped for idleness.

## 2. Modules

| Module | Models |
|---|---|
| `CommandService` | abstract: what the queue promises a client |
| `JobQueue` | the queue with the turns, threads, checkpoints, operations and stream ends it shares with its neighbours |
| `JobQueueService` | refinement mapping from `JobQueue` to `CommandService` |
| `JobQueueClaims` | statements of guide and comments that the queue does not keep |
| `TurnPromise` | abstract: what `JobQueue` takes for granted of a scheduled turn |
| `GroupTurn` | one scheduled turn of a group: selection, delegation, budgets, cancellation |
| `ToolPromise` | abstract: what the journal promises of a tool call |
| `ToolJournal` | one native agent execution: its journal of tool calls, approvals, continuations, cancellations, restarts |
| `HistoryAdmission` | the order of a thread's history, and when a saved prompt is stale |
| `Compaction` | the reductions of an agent's context, before a request and after a refused one |
| `Occurrences` | one automation: calendar, webhooks, limits, edits |
| `TaskThreads` | router mode: tasks, their reports, topic events |
| `AccountFeed` | the account's event log, its pruning, workspace intents, and a client that follows it |
| `RunReplay` | the log of one run, its pruning and its two readers |
| `ComputerUse` | one computer as the backend uses it: reservation, calls, ACP sessions, desktops, idle sweep |
| `Supervisor` | one computer as the supervisor runs it: journal, human control, Docker |
| `JobQueueProofs`, `GroupTurnProofs`, `AgentWorkProofs` (tool calls and context), `HistoryAdmissionProofs`, `BackgroundProofs` (automations and task threads), `FeedProofs` (both feeds), `ComputerUseProofs`, `SupervisorProofs` | theorems |
| `MCService`, `MCGroupTurn`, `MCAgentWork`, `MCSupervisor`, `MCFeeds` with `MCBackground` | the passing runs |
| `MCJobQueue`, `MCExecution`, `MCCompaction` | instances for the runs that end in a violation |

How they fit together. A message becomes a job (`JobQueue`), gets its place in
the history when the job is claimed (`HistoryAdmission`), and its turn is run by
the scheduler (`GroupTurn`), of which the queue uses no more than `TurnPromise`.
Each dispatched member executes (`ToolJournal`) on a context (`Compaction`), and
may use a computer (`ComputerUse`, `Supervisor`). Automations create jobs
(`Occurrences`), tasks report to a router's thread by jobs (`TaskThreads`), and
everything is published (`AccountFeed`, `RunReplay`). The interfaces are the
abstract modules; where there is none, each module repeats what it needs of the
neighbour with less detail and says so in its header.

### The job queue

State. `job` is `execution_jobs`, `turn` is `group_turns`, `thread` is
`threads.status`, `ckpt` says whether the thread has a message with status
`interrupted`, `op` holds the unsettled `computer_operations` of a turn,
`done` counts the `done` events of a stream, `receipts` is
`command_receipts`. `workers` is the set of tokio tasks inside `run_job`, with
the row `claim_next` returned to each and the place it has reached; it is the
only state a server stop erases. `executed` is a history variable. `phase` is
where the server is between a stop and the two startup transactions of
`server.rs`.

Actions. One action is one transaction, or one await-free stretch between two.

| Actions | Code |
|---|---|
| `QueueMessage`, `AnswerWaiting` | `accept_message`, `insert_message_in_tx`, `insert_job` |
| `ResumeWaitingTurn`, `ResumeNewTurn` | `accept_resume` (`thread.resume` and `approval.resolve`) |
| `CancelTurn`, `AcknowledgeStopped` | `accept_cancel`, `accept_acknowledge_stopped` |
| `AcceptOccurrence`, `EditAutomation` | automations' `enqueue`, `update`, `cancel_queued` |
| `ClaimNext` | `claim_next` and the spawn after it |
| `StartCancelled`, `StartRefused`, `StartMessage`, `StartResume` | the first half of `run_job` |
| `Interrupt`, `AskUser`, `CompleteTurn`, `FailTurn`, `CancelRun` | a scheduled turn in `group.rs` |
| `AskAgain`, `CompleteResume`, `FailResume`, `CancelResume` | a resumed run |
| `EmitDone` | the terminal event of a turn that has already ended or waits |
| `StartOperation`, `EndOperation` | a computer operation, which outlives its worker |
| `FinishSuperseded`, `FinishUncertain`, `FinishSettled` | the three ends of `finish_job` |
| `Crash`, `RecoverTurns`, `RecoverJobs` | a server stop; `recover_incomplete_turns`; `recover` |

A request, the job, the turn and the stream it mints share one number. That is
sound because each acceptance mints at most one of each and nothing compares
them except by identity and by creation time; a continuation, which reuses a
job, is exactly where the numbers of one row come apart.

Abstractions:

* All threads belong to one owner, and none is archived or cleared. (The
  owner is a conjunct of every query; archiving refuses threads with work.)
* `report_in_tx` is in `TaskThreads`, the order of messages in
  `HistoryAdmission`, the version of an approval and the preparation
  `accept_resume` does before its transaction in `ToolJournal`, deduplication
  and the limits of `enqueue` in `Occurrences`.
* `completed` stands for the four turn statuses that every reader treats as
  completed: completed, silence and the two exhausted budgets.
* What an agent does inside a model or tool call is one step with a
  nondeterministic result.
* The error and done events of a refused start are only sent to the live
  channel, not stored, so `StartRefused` leaves `done` alone and `finish_job`
  writes the terminal.
* `finish_job` returns early when its job has a newer generation. There is no
  action for that: `WorkersOwnTheirJobs`, proved below, says it is never taken.

`CommandService` knows commands that are unknown, accepted, executing or
ended, and the thread each runs on. A command moves forward only, and starts
executing only when none executes on its thread. `JobQueueService` maps a
command to the stream it minted: executing while some worker writes to it,
otherwise accepted while some queued job carries it. Cancelling a running
command does not end it there; its worker's last step does.

### The scheduled turn

State of `GroupTurn`. `state` is `group_turns.status`, `signal` the turn's
cancellation token, `phase` where the worker is, `outcome` what it returns to
its job, `dispatches` the rows of `agent_dispatches` in order of creation,
`budget` the `TurnBudget` in memory, `claims` the members that were delegated
to, `chain` the dispatches under way, each delegated by the one before it,
`said` the replies in the transcript, `standing` what a member is in the group
by now. The settings are read once, when the turn begins (`group`).

| Actions | Code (`B/runtime/group.rs`, `group_scheduler/`) |
|---|---|
| `Start`, `Prefilter`, `StopWhileAsking` | the beginning of `run_scheduled_turn`, and the decision model that selects |
| `PeerSpeaks`, `MentionSpeaks`, `AskModerator`, `NextInOrder`, `Conclude` | `next_decision` |
| `ModeratorSkipped`, `DecisionFinishes`, `DecisionPicks`, `ModeratorAnswers`, `ModeratorMissing` | what comes of consulting the moderator |
| `StartDispatch`, `Finish` | `start_dispatch`, the finishing transaction |
| `Speak`, `AskUser`, `StaySilent`, `ExecutionFails`, `ExecutionStops` | how an agent's execution ends |
| `Delegate` | a private call or a hand-off |
| `HelperStopped`, `HelperFailed`, `HelperLost`, `CallAnswered`, `HandoffEnds` | how a helper returns |
| `SpeakerStopped` ... `SpeakerSpoke`, `ReplyIsQuestion` | what the scheduler does with a speaker's result |
| `CancelTurn`, `Signal`, `MemberLeaves` | others |

Topologies are a mesh, a leader with a team (a star is one leader) and a ring.
The text of replies is reduced to whom they name, the moderator's answer to
whom it picks; tokens to one amount per turn (`usage`). `TurnPromise` is a
worker that begins, says, settles, fails or stops, and a cancellation that may
come at any moment.

### The tool calls of an execution

State of `ToolJournal`. `row` and `journal` are the execution's message row and
its content (the status of each call and a version), `question` the rows of
`pending_approvals`, `remembered` an approval kept for the thread, `turn`,
`turnStatus`, `job`, `payload` and `held` what it needs of the queue, `worker`
the task with the copy of the journal it read, `prep` what each request handler
read before its transaction, `owed` a cancellation that is committed and not
yet signalled, `effects` how often each call really ran.

| Actions | Code |
|---|---|
| `Claim`, `Start`, `Register`, `Refuse`, `Refused`, `Skip`, `Nothing`, `ReplayApproved`, `ReplayDeclined` | the start of a dispatch or of a continuation |
| `StartBatch`, `Execute`, `Record`, `Abandon`, `Pause`, `CloseRound`, `WaitForUser`, `RoundDone` | a round of calls, run side by side where the code does |
| `Request`, `Round`, `Finish`, `ProviderFails` | the model |
| `Park`, `EndJob` | the end of the worker |
| `Prepare`, `Commit` | `accept_resume`, before and in its transaction |
| `CancelCommit`, `CancelSignal`, `TimeLimit`, `NewMessage`, `AcknowledgeStopped` | other clients |
| `Crash`, `Recover` | a server stop and its recovery |

A call is one of four kinds (a read, a write, a gated call, a question to the
user); a plan says which the model makes. `ToolPromise` is the life of a call
seen from outside: written down before it may run, run at most once, never
tried again once in doubt; and no new round before the old one is closed.

### History and context

`HistoryAdmission`: `rows` of a thread with the sequence number each has now,
`queue` of messages whose jobs are queued, `saved` the context checkpoint of
each agent, `read` the prompt the agent at work was given. A message gets one
number when accepted and another when a job claims it after other rows came in
between (`claim_next`); saved prompts are deleted by the triggers of the
migrations. `Compaction`: the `messages` of a request, reduced to a role, a
size, the number of calls and the checklist that can be read in them. A
reduction is, in the code's order, snipping of repeated lines, pruning of old
results, choice of a span and its summary (`Compact`); it happens before a
request (`PreStep`) and after the provider has refused one (`Reject`,
`Reduce`). What a summary says is reduced to its size and the checklist.

### Automations and task threads

`Occurrences`: a trigger is the set of minutes its calendar names, or a kind of
webhook. `Tick` plans missed times and enqueues one occurrence, `Receive` and
`AnswerAgain` are webhooks, new and repeated, `Update` and `SwitchGroup` edits,
`QueueOther` and `ServeOther` the owner's other work, which shares the limit of
queued jobs. `TaskThreads`: `Dispatch`, `FollowUp` and `CancelTask` are the
router's tools, `EventToTasks` and `EventToHome` a topic's events, the rest is
the queue with less detail (its header says which), with `report_in_tx` in the
step that ends a job.

### Feeds

`AccountFeed`: `WriteRow` is any transaction whose trigger appends an event;
`OpenIntent`, `ChangeFile`, `SettleIntent`, `DropIntent`, `LeaveIntent` a
workspace request, whose file changes outside of the database; `Expire`,
`SelectVictims`, `DeleteVictims` pruning, which reads before it deletes;
`RestartServer` the settling of abandoned intents; the client takes a snapshot,
fetches, subscribes, is told of events or that it must resync, and may lose its
connection at any of these. `RunReplay`: `Emit`, `Engage`, `Rest`, `Age` and the
pruning of a run, beside a realtime subscription that reads in one transaction
and a replay that reads floor, anchor and rows one after the other.

### The computer, from the backend

State of `ComputerUse`. `turn` and `stage` are the turn and its worker, `bound`
is `computer_run_bindings`, `call`, `sessionOp` and `unsure` the operations of
a turn, `lock` and `seen` the lifecycle lock and what its holder has read,
`leases` the open desktops, `idle` what the sweep observed, `computer`, `left`
and `session` what the supervisor and the container hold.

| Actions | Code |
|---|---|
| `Resolve`, `Wake`, `Bind` | `computers.rs`, `resolve` |
| `Admit`, `Refused`, `LoseAnswer`, `Execute`, `ExecEnds` | `request_owned` and the supervisor's `execute` |
| `StartAcp`, `StoreSession`, `LeaveSession`, `StopDriver` | `acp/computer.rs` |
| `Accept`, `Cancel`, `Leave`, `Close`, `Continue`, `FinishJob`, `AcknowledgeStopped` | `api/commands.rs`, as far as a computer is concerned |
| `OpenDesktop`, `CloseDesktop` | `active_use` in `computer_desktop.rs` |
| `Sweep`, `Notice`, `Choose`, `StopIdle`, `Swept`, `Elapse` | `computers/idle.rs` |
| `PersonActs`, `LifecycleEnds`, `LeftoverEnds`, `Restart` | lifecycle requests, Docker, a server stop |

A person confirms a stop only when nothing of that turn acts any more: that is
what the confirmation says. Nobody takes the computer over here; that is in
`Supervisor`.

### The computer supervisor

State. `mem` and `saved` are the `Computer` behind its mutex and in its
journal file, reduced to status and generation. `op` is the request that holds
the mutex, with the Docker call it has reached; `reqs` are control requests
that have read the journal and do not hold it yet. `ctl` is the entry of the
control table. `box`, `execs`, `acp` and `late` belong to Docker: the
container, by the generation that created it; how many agents' and humans'
execs run in it; whether an ACP session an agent started is left in it; and
the requests Docker has received and nobody waits for any more. `used` and
`held` are history variables.

Actions. One action is what happens between two answers of Docker, or between
two awaits of a control request. A request is a task of its own (`detached`),
so a client that goes away changes nothing.

| Actions | Code |
|---|---|
| `BeginLifecycle` | `Store::insert`, `Supervisor::action` up to the journal write, with the `only_if_idle` check |
| `BeginCall`, `BeginInput` | `execute` and `computer_call` up to Docker; writable RFB |
| `Halt`, `Remove`, `CreateBox`, `Boot` | `stop_all`, `remove_stopped`, `create_container` |
| `Exec`, `ExecEnds` | `DockerProvider::run` |
| `Complete`, `CompleteInput`, `Fail`, `TimeOut` | `finish`, or what a request does in its place |
| `ReadControl`, `ReportControl`, `Fence`, `TakeLock`, `GiveUp`, `Grant` | `control_action` for `status` and `request` |
| `Release`, `Resume`, `Lapse` | the other control actions; a lease that runs out |
| `Unwatched` | Docker carries out an abandoned request, an exec or a session ends, a container exits |
| `Crash`, `Restart` | a stop of the process; `Store::open` and `Controls::open` |

Abstractions:

* Computers share nothing but the bound of 128, so there is one. Repeating
  `create` returns the existing computer and changes nothing.
* The home volume, `purge_home`, networks, the egress and the initialising
  container are part of the Docker step they belong to: each of them can only
  make that step fail.
* Of the credentials only the latest matches, so a human's request is one that
  finds `user_controlled` and not lapsed. `renew` puts `Lapse` off. A read-only
  RFB request changes nothing that a `status` query would not.
* Clients know the generations that were journalled (`Known`): they learn them
  from answers and from `read`, which reads the file.
* A journal write may fail before or after the rename. A control file may be
  behind the table in any way, since every control is read back as released.
* Docker refuses a second container under a name, removing one that runs, and
  mutations of containers that are gone. A stop or a quiesce that takes effect
  late is a container or a session that ends by itself.
* What runs in an exec dies with it (`exec_guard.py`), except the ACP session,
  which is what a quiesce ends.

## 3. Runs

A run may check several small systems side by side: its state space is their
sum, a behaviour follows one of them (the variable `part`), and the properties
of each hold of it beside the others.

| Run | What it follows | Distinct states |
|---|---|---|
| `service` | the queue with one thread, all commands, 3 requests and 2 stops; occurrences of one automation on two threads; the history of a thread (2 messages with a deletion, 3 without), with a stop | 882 868 |
| `group_turn` | one turn in each of six groups of three members; a computer that an ACP and a native turn share, that two native turns share over a stop, and that one turn uses beside a desktop | 1 320 324 |
| `agent_work` | an execution with two calls, four plans, two handlers and a stop; the same with one handler, no stop and fairness; an agent's context over two turns of all kinds and three of one | 1 089 621 |
| `control` | the supervisor without takeovers (4 generations, a failed write, 2 stops), with takeovers and a human's input, with takeovers and a failed write (2 generations, 1 stop each); under fairness the queue with three kinds of clients | 328 409 |
| `feeds` | a client that follows the account log; a run and its readers; a calendar; webhooks; task threads under a topic's events alone, and with clients and a stop | 347 299 |

Larger instances were also run once and hold: the queue with four requests and one stop (7.1 million
states) and with two threads, an automation, cancellations and three requests
(9.5 million), the supervisor with takeovers and three generations (2 million,
without liveness), the turn in 384 groups of three members (8 million) and in
groups of four.

### What the properties say

Queue (`JobQueue`):

* `OneWorkerPerThread`, `AutomationSequential`, `NothingRunsBesideInterrupted`:
  mutual exclusion, as `claim_next` promises it, including cancelled workers
  that are still cleaning up and work that awaits confirmation.
* `OneOwnerPerThread`: the two unique indexes are never what stops a
  transaction of a running server.
* `ContinuationKeepsThread`: no job slips in between a question and its answer.
* `OneTerminalEvent`: four writers append terminals; together they append one.
* `QueuedWorkIsKept`: a queued job leaves the queue by its claim, by the
  cancellation of its turn, or by a startup that finds its previous worker was
  alive. No late step of another worker takes it out.
* `ImplementsService`: the refinement.
* `QueueIsServed`, `StreamEnds`: liveness.

The turn (`GroupTurn`):

* `HelperRunsOnce`: who was delegated to is not dispatched again by mention,
  peer, moderator, order or another delegation.
* `MentionsAreAnswered`: a turn that ends in good order has dispatched every
  member the user named who is still there.
* `LimitsKept`: the limits hold of the rows themselves, not of the counters
  that are meant to keep them.
* `KeepsTurnPromise`: the turn is what the queue takes it for; nothing is
  published once it is cancelled, no ending writes over a cancellation.
* `BegunTurnEnds`: the scheduler does not circle among members it cannot run.

An agent's work:

* `RefusalHolds`, `OneContinuation`, `KeepsPromise`,
  `CancelledDispatchStartsNothing` and, live, `AnswersAreUsed`: tools and
  approvals over continuations, cancellations and stops (`ToolJournal`).
* `CallsKeepResults`, `ChecklistIsCurrent`, `RejectionEnds`: what reductions
  leave, and that they end (`Compaction`).
* `HistoryInOrder`: turns in the order they ran, each with its message first;
  `HistoryIsComplete`: a saved prompt lacks nothing up to its place
  (`HistoryAdmission`).
* `OneTurnActs`, `SweepSparesWork` (`ComputerUse`).

The supervisor: `StoppedMeansStopped` is what `Store::open` trusts: a container
left under way, created but not started, or abandoned by a timeout does not
come to life behind a journal that says stopped. `OneAgentActs`: a call that
timed out may go on in its container, so the computer must not be called
running again under that generation. `HumanActsAlone`: takeover, agent,
timeout, late Docker request and restart, in any order. `GenerationsAreFresh`:
labels and ids in Docker tell actions apart only as long as no generation is
used twice. `TakeoverIsAnswered`: liveness of the takeover.

Background and feeds: `TimesAccounted` (every time of a calendar is run once or
lies in one skipped range), `EventsRunOnce` (a repetition is answered with the
job that took that content), `DueInstantIsServed`; `InputsReadOnce`
(an event or a report is in exactly one run's input), `RouterHears`;
`NothingMissed` (what a following client shows is current, or something will
tell it), `ClientCatchesUp`, `LiveHasNoGap`.

Some statements are defined and not in a configuration, because another covers
them or because they were of use once: `TypeOK` and `WorkersOwnTheirJobs`
(proved), `WindowIsWhole` (proved), `ExecutedAtMostOnce`, `TerminalTurnIsFinal`,
`InterruptedNeedsHuman`, `OneTimerWaits` and `EditedWorkNeverStarts` (proved),
`InstructionsAreBounded` (proved), `QuestionsMatchJournal`, `BusyThreadIsKept`,
`HistoryIsReclaimed`, `ExpiredIsNotMissing`, `ReplayHasNoGap`,
`IdleComputerStops`. Those the code does not keep are listed below.

### Bounds

* Queue: `MaxRequests` bounds acceptances and `MaxCrashes` server stops;
  everything else is finite because of them. Three requests on one thread are
  the patterns the code worries about: a worker still cleaning up, the
  continuation that took its job, and another message behind both. Two stops
  recover from a state that a recovery produced. A thread's rows are read and
  written without looking at other threads, except through the automation that
  owns a job, so two threads are needed only there, and two requests overlap.
* Turn: three members are a speaker, a helper and a third who is left over;
  each group makes one limit or one topology bite.
* Execution: two calls are a round of two and two rounds; two handlers race.
* History: two agents, so that one answers while the other's saved prompt is
  behind. Context: sizes are in thousands of characters; 3 turns stand for the
  8 that are kept of the tail, the emergency keeps 2 as in the code.
* Computers: two turns compete; generations 2 and 3 are a wake and another.
* Supervisor: four generations are a create, an action that is abandoned, the
  stop after it and a start. What an older generation left in Docker meets a
  newer one from the third on. A control request of each kind is in flight at
  most once; the fence makes a second takeover of one generation fail.
* Account: two changes, no event kept for its age only, one row per poll and
  pruning pass, one lost connection or stop: cut off, pruned past, resynced.
  Run: three events, three jobs.
* Calendar: a horizon of four minutes, of which two may pass unserved; queue
  limits of two and three for 128. Task threads: two tasks, two events.

The theorems of section 5 have no bounds.

### Fairness

`Claim` is fair because every transaction that frees a thread calls `launch`
and a loop in `server.rs` calls it every five seconds. A worker's way to its end
is fair because step and hop budgets, provider timeouts and the automation's
own timeout bound a run. `finish_job` polls every 100 ms until the turn's
operations end, and these end because every request to the supervisor has a
timeout. The startup transactions are fair because the server is started
again. Nothing is assumed of clients, of provider failures, of operations that
begin, or of stops. `StreamEnds` is checked without stops: a stop after the last
execution may leave a stream open. `QueueIsServed` excuses a thread that waits
for a person, and no other.

In the supervisor Docker's answers are fair because every call to it is under a
timeout, after which the request ends as well; and a waiting `lock_owned` is
fair because tokio's mutex hands itself to the first waiter, while `try_lock`
never waits. Releasing the mutex and handing it over are one step (`Free`).

`GroupTurn` assumes that the worker or the execution at the end of the chain
goes on, not that a cancellation or a leaving member ever comes. `ToolJournal`
assumes the same of its worker, of the recovery, of the signal after a
committed cancellation (no await between them can be refused) and, for a thread
that waits for it, of the confirmation. `Occurrences`: the tick of the server's
loop, the queue that serves other work, and a continuation of each waiting job.
`TaskThreads`: claiming, and per thread the run's end and `finish_job`.
`AccountFeed`: settling of intents by the request itself, the second half of a
pruning pass, and the client's and server's steps; not that connections hold.
`Compaction`: the loop leaves each of its phases, which each end in one
provider call. `RunReplay` and `ComputerUse` state fairness for
`HistoryIsReclaimed` and `IdleComputerStops` only.

## 4. Where the code differs from its documentation

Each of these runs checks one statement and ends in a trace that breaks it.

| Run | Statement | What happens |
|---|---|---|
| `cancelled_worker` | a cancelled worker keeps its reservation *until cleanup finishes* | a resume accepted while the asking worker is in `finish_job`, then cancelled: the worker clears `worker_active` only and the cancelled job occupies its thread until a restart |
| `confirmation` | `turn.acknowledge_stopped` *explicitly releases the interrupted thread* | a stop while a continuation is queued behind its live worker leaves the turn running; the confirmation releases the job, and the running turn still blocks the thread |
| `startup` | *startup executes queued work and marks already started jobs interrupted* | two jobs of one turn with an uncertain operation are both made occupants of their thread, which the unique index refuses; the error ends the startup |
| `one_time_approval` | *a one-time approval authorised one call and nothing else* | the answer puts the whole policy rule into the grants of the executor that serves the rest of the execution, so the next gated call of the rule runs unasked |
| `lost_report` | *a crash can neither lose a finished task's result nor report it twice* | a stop between the end of a task's turn and `finish_job`: the startup transaction ends the job, without a report |
| `orphaned_result` | a span boundary never leaves *an orphan tool result at the head of the retained tail* | a picture of the screen stands between the two results of one message and counts as a turn head: the reduction cuts there |
| `deleted_history` | rewriting or hiding a message deletes the prompts that cover it, *otherwise deleted or resumed content could survive* | a row deleted while the shortened prompt is being made is in the prompt that is saved afterwards |

Three more statements of `JobQueueClaims` are not kept. They have no
configuration of their own; `startup.cfg` with the invariant's name replaced
finds each trace.

| Invariant | Statement | What happens |
|---|---|---|
| `WaitingStreamIsDone` | *the later `done` event still performs transport cleanup* | a stop between the question and its `done` event leaves the stream without one, since `recover` closes interrupted jobs only |
| `MessageFindsThreadActive` | a message returns its thread to active *so the new turn starts cleanly* | a message accepted just before its thread is paused is claimed afterwards and refused |
| `RunningThreadHasWork` | a resume is refused because the *thread is already resuming* | cancelling a queued resume leaves the thread marked running with no work |

Further observations, found while translating and not made into runs:

* *Queue and approvals.* A gated call's question is stored as pending while its
  row is still a running checkpoint; a stop before `Pause` leaves the row
  interrupted and the thread active, and the resume is refused
  (`QuestionSurvives`, `docs/guide/realtime.md:164`). `commands.rs:685` looks for
  checkpoints by `turn_id`, which they never carry, so a cancellation leaves the
  question pending (`CancelledTurnAsksNothing`). A continuation has no dispatch
  row, so a cancelled continuation is not fenced. A user's cancellation after
  the turn completed and before `finish_job` leaves the task unreported.
  Deleting a queued message leaves its job queued, and it is run.
* *The turn.* `queue_dispatch` does not look at the status of its turn; after a
  call, a hand-off, another hand-off and a failure the row in the middle stays
  running; a turn whose budget ran out after visible replies ends with the
  outcome of silence; an automatic moderator's finish reports completed even if
  every dispatch failed. A private call that handed off and fails with its
  helper leaves two failed rows for one counted failure
  (`defer_private_call_parent`), so that the failed rows of a turn may exceed
  `max_total_failures`. An automatic turn whose steps are spent asks its
  moderator once more, and may end completed with a mention of the user that
  was never dispatched, although a turn ends *when any one is spent*
  (`README.md`).
* *Router.* `max_router_tasks` *caps the tasks running at once*; topic events
  and messages of users start tasks beyond it. A topic event that reaches a
  thread waiting for an answer strands the question (`QuestionStays`,
  `automations/service.rs:787` against `commands.rs:396`). A GitHub delivery
  with a known id and another body is a conflict, unless the first was itself
  answered by its content.
* *Context.* An opening message of more than 4000 characters is not pinned; the
  first summary takes its place and is, with a checklist the agent may have
  cleared since (`compaction.rs:452`). Collapsing short repeated lines can make
  a text longer, and `snipped_chars += original - collapsed`
  (`compaction.rs:347`) then underflows. With turns that go on after a failed
  agent, an interrupted answer made visible between reading and saving is in no
  later prompt (`HistoryIsComplete` with `GoesOn = TRUE`). Incremental ACP
  prompts miss what was said while the agent was silent or its session was
  saved before its prompt arrived (`conversation_context.rs:572`).
* *Computers.* `control_action` reads the generation from the journal without
  the computer's lock and enters the control table later
  (`computer-supervisor/src/control.rs:124`): a status query that read an older
  generation replaces the entry of a newer one, and an agent acts without a
  resume (`AgentWaitsForReturn`). A release waits ten seconds for a human's
  input, whose exec may last longer (`ReleaseWaitsForInput`, `lib.rs:417`). A
  cancelled ACP run calls `stop_driver` although its grants were refused, and
  may end the session of the next turn. A session operation is inserted without
  looking at its turn, and may stay uncertain with no interrupted job to
  confirm. A saved ACP session that cannot be loaded is not forgotten, so every
  later run fails like the first. Rows of `external_agent_runs` stay running
  after a server stop.

## 5. Proofs

Eight modules hold theorems. All are about the specifications above, with their
constants free: any set of threads, members, groups, handlers, agents, calendars
or events, any number of requests, calls, deletions, stops. The only assumptions
are the named ones of the modules, which TLC evaluates on every run:

| Module | Assumption |
|---|---|
| `JobQueue` | names differ, bounds are numbers |
| `GroupTurn` | members are numbered; limits are numbers, and those the schema checks to be positive are |
| `HistoryAdmission` | no agent has the name that stands for the user; bounds are numbers |
| `Compaction` | windows and sizes are numbers |
| `Occurrences` | a trigger has one of three kinds, instants that are numbers, none but for a timer, and one of two policies; limits are numbers |
| `TaskThreads` | bounds are numbers |
| `AccountFeed` | each intent has a target, a page has a row, bounds are numbers |
| `RunReplay` | a page has at least one row, bounds are numbers |
| `ComputerUse` | no turn has the name of nobody or of the sweep; the first generation exists |
| `Supervisor` | bounds are numbers, and there is a first generation |

`ToolJournal` needs none. Two theorems have a hypothesis, and each for a case in
which the code does not keep the property, see section 4. `HistoryLacksNothing`
holds where no turn goes on after an agent failed (`GoesOn = FALSE`, as in the
run `service`). `CallsStayWithResults` holds where no tool answers with a
picture of the screen (`Screens = FALSE`, as in `agent_work`); with one the run
`orphaned_result` ends in its violation.

| Module | Theorems | Property |
|---|---|---|
| `JobQueueProofs` | `TypeCorrect`, `MintedCorrect`, `WorkersKeepTheirRows`, `MutualExclusion`, `InterruptedExclusion` | types, `JobsAreMinted`, `WorkersOwnTheirJobs`, `OneWorkerPerThread`, `NothingRunsBesideInterrupted` |
| | `OneOwner`, `ThreadReserved`, `ToldOnce`, `AutomationsTakeTurns` | `OneOwnerPerThread`, `ContinuationKeepsThread`, `OneTerminalEvent`, `AutomationSequential` |
| | `QueueImplementsService`, `QueuedIsKept` | `ImplementsService`, `QueuedWorkIsKept` |
| `GroupTurnProofs` | `HelpersRunOnce`, `TurnKeepsPromise`, `LimitsAreKept`, `MentionsHeard` | `HelperRunsOnce`, `KeepsTurnPromise`, `LimitsKept`, `MentionsAreAnswered` |
| `AgentWorkProofs` | `UserWordHolds`, `ContinuedOnce`, `CallsKeepPromise`, `CancelledStartsNothing` | `RefusalHolds`, `OneContinuation`, `KeepsPromise`, `CancelledDispatchStartsNothing` |
| | `CallsStayWithResults`, `AgentReadsItsList` | `CallsKeepResults`, `ChecklistIsCurrent` |
| `HistoryAdmissionProofs` | `HistoryTypes`, `HistoryKeepsOrder`, `HistoryLacksNothing` | types, `HistoryInOrder`, `HistoryIsComplete` |
| `BackgroundProofs` | `AutomationTypes`, `InstantsAreAccounted`, `EventsAreTakenOnce`, `TimersDoNotPileUp`, `ReplacedWorkNeverStarts` | types, `TimesAccounted`, `EventsRunOnce`, `OneTimerWaits`, `EditedWorkNeverStarts` |
| | `TaskTypes`, `InputsAreReadOnce`, `RequestsAreBounded` | types, `InputsReadOnce`, `InstructionsAreBounded` |
| `FeedProofs` | `TypeCorrect`, `ReplayWindow`, `ChangesAreTold`, `LiveReplayHasNoGap` | types, `WindowIsWhole`, `NothingMissed`, `LiveHasNoGap` |
| `ComputerUseProofs` | `TypeCorrect`, `OneTurnAtATime`, `SweepSparesUse` | types, `OneTurnActs`, `SweepSparesWork` |
| `SupervisorProofs` | `TypeCorrect`, `VerifiedStop`, `OneAgent`, `HumanExclusion`, `FreshGenerations` | types, `StoppedMeansStopped`, `OneAgentActs`, `HumanActsAlone`, `GenerationsAreFresh` |

So every invariant and every step property that the passing runs check is proved
too, and so are the three refinements.

### The queue

None of the last three is inductive alone. Two workers on one thread are
excluded because `claim_next` looks for `worker_active`, and that mark stands
for a worker only as long as no other writer clears it: so mutual exclusion
needs ownership. Ownership in turn needs mutual exclusion, since a worker's
last step would otherwise clear the mark of another worker of the same job;
and a person's confirmation, which clears the mark as well, is harmless only
because nothing runs beside an interrupted job. The inductive invariant is the
conjunction of the three with `TypeOK` and `JobsAreMinted`. The proof has one
lemma per action; the actions that write only the job of a live worker, only
an accepted row, or no job at all share three lemmas about what they preserve.

The second part of `JobQueueProofs` builds on that. That one job occupies a thread is not
inductive: a claim must find no occupant, which it concludes from `occ`, so
whatever runs, waits or is to be continued must have kept that mark
(`Reserved`); a resume reuses a row, so job, turn and worker must agree on what
belongs together (`Matched`); and that a stream gets one terminal event needs
that a stream number is never shared (`OwnStreams`) and that the stream of
queued work, and of a worker that still owes its event, has none yet (`Told`).
`OwnerInv` is the conjunction with the invariant of the first part and
`OneOwnerPerThread`; `AutomationSequential` follows the same way, from the
conjunct of `Holds` that a claim reads of all jobs of the automation.

The third part shows the refinement. The mapping chooses a worker or
queued job of a stream, so the proof first says where a command is without the
choice (`Placed`, from `OwnStreams`), then that every action leaves each
command where it is or ends it (`Stays`), but for the one it accepts or
executes. `QueuedWorkIsKept` needs more (`LiveInv`): a queued job has a turn that
can start and no operation to settle, else a claim would cancel it and a startup
interrupt it; and a turn has one live job and waits when that job waits.

### The turn

The invariant of `HelperRunsOnce` says that a helper is claimed and that whoever
was dispatched has been charged (`Claimed`): a second delegation is refused by
either. `LimitsKept` speaks of rows; its invariant `Bounded` ties the counters to
them: steps are the rows that began, the count of a member its rows that began,
and the failures at least the failed rows without those of private calls (or
without those of hand-offs, and then with the private call that is still
pending): a call that handed off is where rows and counter part. `Linked` says
that what is below another dispatch in the chain was delegated.
`MentionsAreAnswered` needs that a member who was named is dispatched, or still
awaited in the pool and in the list of mentions, or gone (`Met`, `Awaited`), and
that the decision to end looks at that list (`Heeded`). Each was checked with
TLC on 384 groups of three members, and on groups of four, before it was proved.

Two properties were wrong beyond the first instances that had been checked, and
only their proofs showed it. `LimitsKept` counted every failed row, which a
private call that hands off exceeds; `MentionsAreAnswered` did not know the last
word of an automatic moderator. Both are corrected, and what the code does in
these two cases is among the observations of section 4. `mentions` became a set,
because nothing can be proved here about `SelectSeq`; the order in which
mentions are served is that of the list in `group`, as before.

### The tool calls

A worker acts on a copy of the journal it read earlier, while a cancellation, a
crash and another handler write the journal itself. The invariant is that the
copy of a worker at its tools is the journal, and that an earlier copy, or the
one a queued continuation carries, is the journal or is behind it and in doubt
about some call (`Current`, `Copies`), so that `Refuse` stops whoever holds it.
That needs that a working worker keeps its thread from being continued or
reopened (`Engaged`), what is written down of the calls while it works
(`Rounds`), and what the user has said of each (`Spoken`). `KeepsPromise` is then
one step of `ToolPromise` for each action.

### The context of an agent

`CallsKeepResults` counts calls and results behind every message, which no step
of a proof can follow through the reductions. Its invariant says the same of
neighbours (`InPairs`): a message with calls is followed by as many results
(`Followed`), and a result follows its call or another result of it
(`Preceded`). A reduction keeps what can be said of neighbours unless it parts
them. Snipping removes messages of the agent without calls or text, which stand
in no pair; what is left is numbered anew in its order (`Rank`, `Nth`). Pruned
results stay, as shorter messages. The tail begins at the head of a turn or
there is none (`SpanEndIs`), and no result is a head. A picture of the screen is,
and may stand between two results of one message: hence the hypothesis.

`ChecklistIsCurrent` is about a reading, the last message that states the list.
The invariant (`ListIsRead`) follows it round the agent's loop: the request reads
as the agent's list, and so does what the next turn will load, which is what is
stored followed by what was said since. What a summary replaces had a reading,
and the summary carries it (`SummaryKeeps`). The exception of the property, an
opening message that is pinned and states a list, is kept by every reduction
once it is there (`OpensWithList`, `StartsWithList`). A reduced prompt is stored
before the first round only, so it never lacks what the turn said after it.

### The history of a thread

`HistoryInOrder` compares places with turns. A message keeps the place it was
accepted at only if nothing admitted and no saved prompt is beyond it, and else
takes the next one (`Overtaken`); so what is admitted is at a place below the
next (`Placed`), and what a worker writes belongs to the last turn that was
started (`AtWork`). `OrderInv` is their conjunction with the types.

`HistoryIsComplete` needs `CompleteInv`: of every saved prompt, and of the one a
worker has read, that it has each visible row up to its place and none that is
not history (`SavedComplete`, `ReadComplete`), and that an agent at work has read
the message it answers (`KnowsItsMessage`). A prompt stays so because the
triggers delete it when a row at or before its place changes (`Kept`), which
covers saved prompts and not the one in a worker's hands. There the proof needs
that no interrupted row becomes visible while an agent works: rows are reopened
on a paused thread only, and a paused thread is at rest (`RestsWhenPaused`),
unless a turn goes on after an agent failed. TLC finds the trace for that case,
and it is why the theorem has its hypothesis. That a deleted row survives in the
prompt of a worker is the run `deleted_history`; a deleted row is still admitted,
so completeness does not speak of it.

### Automations

`TimesAccounted` is a conjunct of its own invariant (`AutomationInv`) with two
facts more: what the automation waits for is an instant of its calendar, after
the configuration was made (`Waits`), and no row is of a configuration to come
(`Versions`). The step is the tick. `Schedule::due` walks at most one instant a
minute over a closed window of 24 hours; the lemma `LastWalkedIs` shows that
`Window + 1` steps reach the last instant that has come, because a window of
minutes has no more of them (with one step fewer, the mutant `ShortSteps`, they
do not). So the plan of a tick is one of three (`PlanIs`): skip everything to
now, run the one instant that is due, or run the last and skip from the first to
the minute before it; the lemma `TickAdds` shows that the rows of each account
exactly once for what lies between the instant awaited and now. An edit starts a
new version, for which no row accounts and no instant is due.

`EventsRunOnce` holds because rows of events are never removed, no two have one
identity, and no two of GitHub one content (`EventRows`); what a sender was told
is the row with that content and, of a webhook, that identity (`Answered`). The
owner may change the trigger's kind in between: a row's key and hash carry the
kind they were taken under.

### Task threads

`InputsReadOnce` says where an input is; its invariant (`TasksInv`) says of each
job what it may carry. A job that was given to no worker has been read nothing
of, of another all was read, and only a job of the first kind is ever in the
queue with events or reports (`WellRead`): an answer or a continuation puts a job
back into the queue, but as a message or a resumption and without its inputs,
which were read. So the jobs an input may join, the open batch of a thread and
the open report of the router, have no worker yet. That no two jobs carry one
input (`CarriedOnce`) then needs that each accepted input is new. An event is,
because it is later than those delivered and a task follows the topic once
(`FollowOnce`); a report is, because a run is reported by its worker's last step,
and what was reported is a run whose worker is gone (`Happened`). An event goes
to its subscribers one after the other, which the model writes as a function of
how many have it (`Delivered`); the proof goes by the least number for which the
invariant would fail.

`InstructionsAreBounded` counts the instructions there are against the requests
there were. Its invariant (`BudgetKept`) adds what is left of the newest
request's budget to the count: an instruction takes from the one what it adds to
the other, and the budget is renewed only by a user message of the router's
thread, each of which is an event or a command. An event that joins an open
batch is counted and renews nothing.

### The account log

`Inv` says that the log after the floor has no gap (`WindowIsWhole`), that only a
following client has a connection (`Connected`), that what is between the
client's cursor and an event under way is under way with it or before it
(`FramesFollow`), and that whatever changed after a snapshot's watermark has an
event after it that replay delivers or refuses (`RepliesCover`). The last is why
a snapshot must read its cursor before its rows, which the mutant
`ReadSnapshotLate` turns round.

### The log of a run

`LiveHasNoGap` needs that every event beyond the floor still has its row
(`Unpruned`), and that what a subscription passed it has handed over (`Handed`,
the property without its bound). A page that begins behind the floor is refused,
and one that does not has no gap (`PageHasNoGap`): it has the first rows after
the cursor, however many its limit lets through, so no row before one of the
page is left out.

### The use of a computer

The lease is no lock: a turn loses it when it is over, and what it began goes
on. A second turn is kept out because whatever still acts in the container has
an operation that is open (`ActsOpenly`): the call itself, the session that was
stored before its process was started, or one that became uncertain when an
answer was lost or the server was killed. So among the turns that have bound the
computer one at most goes on, has a call under way, or acts (`OneClaim`), and
`bind` is the only step that could add another, which `Reserved` excludes. That
two turns never both have an open operation would be simpler and is false: an
ACP task whose turn was cancelled may store its session beside the next turn's
call, and then does not start it.

`SweepSparesWork` speaks of a moment after the sweep looked. What it chose stays
free (`ChosenIsFree`) because a call is admitted, a desktop is opened and the
computer is bound only under the lock that the sweep holds (`Locked`); a turn
that is accepted meanwhile has not bound it. The invariant was checked with TLC
on an ACP and a native turn with three generations, a desktop and a stop (6.3
million states) before it was proved.

### The supervisor

The properties speak of what acts in the container; what keeps them is what
may still arrive there. `IInv` therefore says of every abandoned request that
its generation is journalled, that it is older than the lifecycle action under
way, and that no generation has both its create and its start outstanding
(`Abandoned`); that the container is older than an action that has not created
its own yet (`NotYetCreated`), and fresh after it did (`Fresh`); that a
running computer has no abandoned agent request of its own generation
(`InUse`), nor has one a human took over (`TakenOver`); and that a verified
stop leaves no container an outstanding start could bring to life (`Quiet`).
`Journalled` and `Behind` tie all of it to the journal, the only thing that
survives. `IInv` was checked with TLC on instances of the run `control` before it was
proved. The proof has one step per action and under it
one for each conjunct the action can disturb.

### What is not proved

Liveness under fairness and `ENABLED` are outside the prover's reach: the nine
liveness properties (`QueueIsServed`, `StreamEnds`, `BegunTurnEnds`,
`AnswersAreUsed`, `RejectionEnds`, `TakeoverIsAnswered`, `ClientCatchesUp`,
`DueInstantIsServed`, `RouterHears`) are model-checked only.

## 6. Not modelled

* Archiving, clearing and resetting a thread: single transactions that refuse a
  thread with work.
* The watchdog's alerts and the listing of tasks, secrets and signatures of
  webhooks, digests of rules and actions, attachments, the wording of prompts.
* The ACP wire protocol, its permission requests and its sessions on the
  server's own machine (of a session on a computer `ComputerUse` has its life).
* Several computers: they share a bound and nothing else. The notes and model
  proxies of a computer, artifacts and publication.
* Provider clients, MCP, git and the decision model: conversions around external
  services, of which the modules take the possible results.
* Mobile link, terminals and shell jobs: framing, keys and processes.
* Authentication and settings: single transactions on single rows.
* The front ends: views of what the feeds deliver.
