---------------------------- MODULE Occurrences ----------------------------
(***************************************************************************)
(* The occurrences of one automation: api/automations/service.rs (create,   *)
(* update, tick, webhook, enqueue, cancel_queued) and the plan of           *)
(* api/automations/schedule.rs.                                             *)
(*                                                                         *)
(* A trigger is the set of instants its calendar names, in minutes, or a    *)
(* kind of webhook.  A job is known by its status only: the queue that runs *)
(* it is JobQueue, and where a topic's events go is TaskThreads.            *)
(***************************************************************************)
EXTENDS Integers, FiniteSets, Sequences, FiniteSetsExt

CONSTANTS
    Triggers,       \* what an owner may configure: [kind, times, policy], kind one of
                    \* "timer", "webhook", "github", times empty but for a timer, and
                    \* policy one of "coalesce", "skip"
    Events,         \* [id, body] senders deliver, each any number of times
    Late,           \* minutes after which an instant is missed (60 s)
    Window,         \* minutes a late instant may be run after (24 h)
    QueueLimit,     \* queued jobs of an owner (128)
    RateLimit,      \* webhook occurrences of an owner in a minute (120)
    Horizon,        \* bound: the last minute
    MaxEdits,       \* bound: updates by the owner
    MaxOthers,      \* bound: jobs the owner's other work queues
    MaxAsked,       \* bound: questions the jobs ask
    MaxStops        \* bound: server stops

ASSUME AutomationAssumption ==
    /\ Triggers \subseteq [kind : {"timer", "webhook", "github"}, times : SUBSET Nat,
                           policy : {"coalesce", "skip"}]
    /\ \A g \in Triggers : g.kind # "timer" => g.times = {}
    /\ Late \in Nat /\ Window \in Nat /\ QueueLimit \in Nat /\ RateLimit \in Nat
    /\ Horizon \in Nat /\ MaxEdits \in Nat /\ MaxOthers \in Nat
    /\ MaxAsked \in Nat /\ MaxStops \in Nat

Never == -1

VARIABLES
    trigger,    \* trigger_json and missed_policy
    enabled,    \* automations.enabled
    version,    \* automations.version
    next,       \* automations.next_run_at, or Never
    rows,       \* automation_occurrences in the order of their insertion
    open,       \* the automation's group is active
    others,     \* queued jobs of the owner that are not this automation's
    now,        \* the clock
    server,     \* "up", or "starting" until the recovering tick
    counts,     \* bounds used up: edits, others, asked, stops
    since,      \* history: when next was last computed from a configuration
    answers     \* history: what senders were told, <<event, row>>

automationVars == <<trigger, enabled, version, next, rows, open, others, now, server,
          counts, since, answers>>

owner == <<trigger, enabled, version, since>>

-----------------------------------------------------------------------------
(* schedule.rs                                                              *)

NextAfter(times, t) ==
    LET later == {c \in times : c > t} IN IF later = {} THEN Never ELSE Min(later)

\* Faulty: the loop stops one instant short.
ShortSteps == Window

\* The loop of Schedule::due: one instant a minute over a closed Window.
Steps == Window + 1

\* The last of the first Steps instants from first to t.
LastWalked(times, first, t) ==
    LET due == {c \in times : c \in first .. t}
        walked == {c \in due : Cardinality({d \in due : d <= c}) <= Steps}
    IN  IF walked = {} THEN Never ELSE Max(walked)

\* Schedule::due once scheduled is not in the future
DuePlan(g, scheduled, t, recovering) ==
    LET missed == recovering \/ t - scheduled > Late
        latest == LastWalked(g.times, Max({scheduled, t - Window}), t)
    IN  IF missed /\ g.policy = "skip"
        THEN [run |-> Never, next |-> NextAfter(g.times, t), skipped |-> t]
        ELSE [run |-> latest, next |-> NextAfter(g.times, t),
              skipped |-> IF latest = scheduled THEN Never
                          ELSE IF latest = Never THEN t ELSE latest - 1]

-----------------------------------------------------------------------------
(* Rows of automation_occurrences.  from .. at is what a skipped row covers; *)
(* of a timer both are its instant.                                         *)

Row(source, key, hash, from, at, job) ==
    [source |-> source, key |-> key, hash |-> hash, from |-> from, at |-> at,
     job |-> job, version |-> version,
     created |-> IF source = "webhook" THEN now ELSE 0]

QueuedOf(rs) == {i \in DOMAIN rs : rs[i].job = "queued"}

\* cancel_queued
Withdrawn(rs) ==
    [i \in DOMAIN rs |-> IF i \in QueuedOf(rs) THEN [rs[i] EXCEPT !.job = "cancelled"]
                         ELSE rs[i]]

AutomationInit ==
    /\ trigger \in Triggers
    /\ enabled = TRUE
    /\ version = 1
    /\ next = NextAfter(trigger.times, 0)
    /\ rows = <<>>
    /\ open = TRUE
    /\ others = 0
    /\ now = 0
    /\ server = "up"
    /\ counts = [edits |-> 0, others |-> 0, asked |-> 0, stops |-> 0]
    /\ since = 0
    /\ answers = {}

Count(name, bound) == counts[name] < bound /\ counts' = [counts EXCEPT ![name] = @ + 1]

-----------------------------------------------------------------------------
(* enqueue                                                                  *)

\* Faulty: a job that waits for the user counts as queued.
FullOfWaiting(source) ==
    others + Cardinality({i \in DOMAIN rows : rows[i].job \in {"queued", "waiting"}})
        >= QueueLimit

\* The owner has too many jobs queued, or a sender is too fast.  An answered
\* job is queued again and counts.
Full(source) ==
    \/ others + Cardinality({i \in DOMAIN rows : rows[i].job \in {"queued", "resumed"}})
         >= QueueLimit
    \/ /\ source = "webhook"
       /\ Cardinality({i \in DOMAIN rows : /\ rows[i].source = "webhook"
                                           /\ rows[i].created >= now - 1}) >= RateLimit

\* The rows an event is a repetition of: by its identity, or of GitHub also by
\* its content.
SameKey(e) == {i \in DOMAIN rows : /\ rows[i].source = "webhook"
                                   /\ rows[i].key = <<trigger.kind, e.id>>}
\* Faulty: a GitHub delivery is known by its delivery header alone.
NoSameBody(e) == {}

SameBody(e) == {i \in DOMAIN rows : /\ trigger.kind = "github"
                                    /\ rows[i].source = "webhook"
                                    /\ rows[i].hash = <<trigger.kind, e.body>>}

Known(e) ==
    IF SameKey(e) # {}
    THEN {i \in SameKey(e) : rows[i].hash = <<trigger.kind, e.body>>}
    ELSE SameBody(e)

\* The answer to an event that was accepted before, whatever happened to the
\* automation since.  The same identity with another body is refused.
AnswerAgain(e) ==
    /\ server = "up" /\ trigger.kind \in {"webhook", "github"}
    /\ Known(e) # {}
    /\ answers' = answers \cup {<<e, Min(Known(e))>>}
    /\ UNCHANGED <<owner, next, rows, open, others, now, server, counts>>

Receive(e) ==
    /\ server = "up" /\ trigger.kind \in {"webhook", "github"}
    /\ SameKey(e) \cup SameBody(e) = {}
    /\ enabled /\ open /\ ~Full("webhook")
    /\ rows' = Append(rows, Row("webhook", <<trigger.kind, e.id>>,
                                <<trigger.kind, e.body>>, now, now, "queued"))
    /\ answers' = answers \cup {<<e, Len(rows) + 1>>}
    /\ UNCHANGED <<owner, next, open, others, now, server, counts>>

-----------------------------------------------------------------------------
(* tick                                                                     *)

Due == enabled /\ next # Never /\ next <= now

\* The row of a skipped range.
Skipped(plan, rs) ==
    IF plan.skipped = Never THEN rs
    ELSE Append(rs, Row("skipped", <<version, next, plan.skipped>>, <<>>, next,
                        plan.skipped, "none"))

\* A timer replaces the occurrence that has not started.
Ran(plan, rs) ==
    IF plan.run = Never THEN rs
    ELSE Append(Withdrawn(rs), Row("timer", <<version, plan.run>>, <<>>, plan.run,
                                   plan.run, "queued"))

TickRuns(plan) ==
    /\ plan.run # Never => open /\ ~Full("timer")
    /\ rows' = Skipped(plan, Ran(plan, rows))
    /\ next' = plan.next
    /\ UNCHANGED enabled

\* The queue is full: the savepoint is rolled back and next_run_at stays.
TickWaits(plan) ==
    /\ plan.run # Never /\ open /\ Full("timer")
    /\ UNCHANGED <<rows, next, enabled>>

\* disable_automation: the group is gone.
TickDisables(plan) ==
    /\ plan.run # Never /\ ~open
    /\ enabled' = FALSE /\ next' = Never
    /\ UNCHANGED rows

\* The 5 s loop; after a start the first call treats every due instant as
\* missed.
Tick ==
    LET plan == DuePlan(trigger, next, now, server = "starting")
    IN  /\ server' = "up"
        /\ \/ Due /\ (TickRuns(plan) \/ TickWaits(plan) \/ TickDisables(plan))
           \/ ~Due /\ server = "starting" /\ UNCHANGED <<rows, next, enabled>>
        /\ UNCHANGED <<trigger, version, since, open, others, now, counts, answers>>

-----------------------------------------------------------------------------
(* The owner                                                                *)

\* update and toggle; a `once` in the past cannot be enabled.
Update(g, on) ==
    LET first == NextAfter(g.times, now)
    IN  /\ server = "up" /\ open /\ Count("edits", MaxEdits)
        /\ on /\ g.kind = "timer" => first # Never
        /\ trigger' = g /\ enabled' = on
        /\ version' = version + 1
        /\ next' = IF on THEN first ELSE Never
        /\ since' = now
        /\ rows' = Withdrawn(rows)
        /\ UNCHANGED <<open, others, now, server, answers>>

\* The group is archived, or restored.
SwitchGroup ==
    /\ server = "up" /\ Count("edits", MaxEdits)
    /\ open' = ~open
    /\ UNCHANGED <<owner, next, rows, others, now, server, answers>>

\* The owner's other messages, which no limit refuses, and their service.
QueueOther ==
    /\ server = "up" /\ Count("others", MaxOthers)
    /\ others' = others + 1
    /\ UNCHANGED <<owner, next, rows, open, now, server, answers>>

ServeOther ==
    /\ server = "up" /\ others > 0
    /\ others' = others - 1
    /\ UNCHANGED <<owner, next, rows, open, now, server, counts, answers>>

-----------------------------------------------------------------------------
(* The jobs of the automation, one at a time (JobQueue.AutomationSequential). *)

Held == {"running", "waiting", "resumed"}

Move(i, from, to) ==
    /\ server = "up" /\ rows[i].job \in from
    /\ rows' = [rows EXCEPT ![i].job = to]
    /\ UNCHANGED <<owner, next, open, others, now, server, answers>>

Start(i) ==
    /\ \A k \in DOMAIN rows : rows[k].job \notin Held
    /\ \A k \in QueuedOf(rows) : i <= k
    /\ Move(i, {"queued"}, "running") /\ UNCHANGED counts

\* It asks, is answered, and goes on; or it ends.
Ask(i) == Move(i, {"running"}, "waiting") /\ Count("asked", MaxAsked)
Answer(i) == Move(i, {"waiting"}, "resumed") /\ UNCHANGED counts
GoOn(i) == Move(i, {"resumed"}, "running") /\ UNCHANGED counts
End(i) == Move(i, {"running"}, "done") /\ UNCHANGED counts

Advance ==
    /\ now < Horizon /\ now' = now + 1
    /\ UNCHANGED <<owner, next, rows, open, others, server, counts, answers>>

\* The server stops; jobs that ran then are confirmed to have stopped.
Stop ==
    /\ server = "up" /\ Count("stops", MaxStops)
    /\ server' = "starting"
    /\ rows' = [i \in DOMAIN rows |->
                   IF rows[i].job = "running" THEN [rows[i] EXCEPT !.job = "done"]
                   ELSE rows[i]]
    /\ UNCHANGED <<owner, next, open, others, now, answers>>

Jobs == \E i \in DOMAIN rows : Start(i) \/ Ask(i) \/ Answer(i) \/ GoOn(i) \/ End(i)

AutomationNext ==
    \/ \E e \in Events : AnswerAgain(e) \/ Receive(e)
    \/ Tick \/ Advance \/ Stop
    \/ \E g \in Triggers, on \in BOOLEAN : Update(g, on)
    \/ SwitchGroup \/ QueueOther \/ ServeOther \/ Jobs

AutomationSpec == AutomationInit /\ [][AutomationNext]_automationVars
\* The server's loop ticks, and the queue serves the owner's other work and
\* continuations.
Continues == \E i \in DOMAIN rows : GoOn(i)
AutomationFairness ==
    /\ WF_automationVars(Tick) /\ WF_automationVars(ServeOther)
    /\ WF_automationVars(Continues)
FairAutomationSpec == AutomationSpec /\ AutomationFairness

-----------------------------------------------------------------------------
(* Properties                                                               *)

\* Every instant of the calendar since the configuration was made is run once
\* or lies in one skipped range, up to the instant the automation waits for.
Accounts(i, c) ==
    /\ rows[i].version = version /\ rows[i].source # "webhook"
    /\ c \in rows[i].from .. rows[i].at

TimesAccounted ==
    enabled => \A c \in trigger.times :
        IF c > since /\ (next = Never \/ c < next)
        THEN \E i \in DOMAIN rows : {k \in DOMAIN rows : Accounts(k, c)} = {i}
        ELSE \A i \in DOMAIN rows : ~Accounts(i, c)

\* What a sender repeats is done once: a repetition is answered with the job
\* that took that very content.  A webhook's event is known by its id, GitHub's
\* by its content, since the delivery header is not signed.
EventsRunOnce ==
    \A a, b \in answers :
        LET s == rows[a[2]]  u == rows[b[2]]
            field == IF s.key[1] = "github" THEN "body" ELSE "id"
        IN  /\ s.hash = <<s.key[1], a[1].body>>
            /\ (s.key[1] = u.key[1] /\ a[1][field] = b[1][field]) => a[2] = b[2]

\* At most one occurrence of a timer waits to start.
OneTimerWaits ==
    \A i, k \in QueuedOf(rows) :
        rows[i].source = "timer" /\ rows[k].source = "timer" => i = k

\* Nothing starts under a configuration that has been replaced.
EditedWorkNeverStarts ==
    [][\A i \in DOMAIN rows :
          (rows[i].job = "queued" /\ rows'[i].job = "running")
              => rows[i].version = version]_automationVars

\* An instant that has come is run or skipped, however full the queue was.
DueIsServed == Due ~> ~Due
=============================================================================
