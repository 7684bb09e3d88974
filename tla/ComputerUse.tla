---------------------------- MODULE ComputerUse ----------------------------
(* What the backend does with one computer: turns of several threads that   *)
(* reserve it, wake it and act in it, sessions of an ACP agent, desktops     *)
(* that are watched, and the sweep that stops it when it is idle.  The       *)
(* supervisor is that of Supervisor with less detail: nobody takes the       *)
(* computer over, and it does not stop itself.                               *)
EXTENDS Integers, FiniteSets

CONSTANTS
    Turns,          \* turns whose agents have selected the computer
    AcpTurns,       \* those whose agent is an ACP agent
    MaxGen,         \* bound: generations
    MaxLeases,      \* bound: desktops open at once
    MaxCrashes      \* bound: server stops

VARIABLES
    managed,        \* QUNICA_COMPUTER_IDLE_SECONDS is not 0
    turn,           \* group_turns.status: "none", "active", "over"
    stages,         \* the worker of a turn, and then its job
    gen,            \* the generation its ComputerExecution carries, or 0
    bound,          \* computer_run_bindings
    call,           \* the request of a turn that has a running operation
    acp,            \* the task of a turn's ACP run
    sessionOp,      \* turns with a running operation for an ACP session
    unsure,         \* turns with an uncertain operation
    lock,           \* who holds the lifecycle lock: a turn, Sweeper or Nobody
    seen,           \* what the holder has read of the computer
    leases,         \* active_uses
    idle,           \* the generation observed, and whether the last activity is
                    \* longer ago than the threshold
    computer,       \* status, generation and whose exec runs
    left,           \* turns with an exec in the container nobody waits for
    session,        \* the turn whose ACP process runs in it, or Nobody
    crashes

workers == <<turn, stages, gen, bound, acp>>
operations == <<call, sessionOp, unsure>>
locking == <<lock, seen>>
box == <<computer, left, session>>
useVars == <<managed, workers, operations, locking, leases, idle, box, crashes>>

Nobody == "nobody"
Sweeper == "sweeper"

ASSUME UseAssumption ==
    /\ Nobody \notin Turns /\ Sweeper \notin Turns
    /\ MaxGen \in Nat \ {0} /\ MaxLeases \in Nat /\ MaxCrashes \in Nat

UseTypeOK ==
    /\ managed \in BOOLEAN
    /\ turn \in [Turns -> {"none", "active", "over"}]
    /\ stages \in [Turns -> {"none", "ready", "reading", "waking", "woken", "bound", "leaving",
                            "ended", "interrupted", "verified"}]
    /\ gen \in [Turns -> 0..MaxGen] /\ bound \subseteq Turns
    /\ call \in [Turns -> {"none", "sent", "working"}]
    /\ acp \in [Turns -> {"none", "granted", "stored", "starting", "live", "stopping"}]
    /\ sessionOp \subseteq Turns /\ unsure \subseteq Turns
    /\ lock \in Turns \cup {Nobody, Sweeper}
    /\ seen \in [status : {"none", "running", "executing", "starting", "stopping", "stopped",
                           "uncertain", "chosen"}, gen : 0..MaxGen]
    /\ leases \in 0..MaxLeases
    /\ idle \in [gen : 0..MaxGen, elapsed : BOOLEAN]
    /\ computer \in [status : {"running", "executing", "starting", "stopping", "stopped",
                               "uncertain"}, gen : 1..MaxGen, by : Turns \cup {Nobody}]
    /\ left \subseteq Turns /\ session \in Turns \cup {Nobody}
    /\ crashes \in 0..MaxCrashes

Unseen == [status |-> "none", gen |-> 0]
UseInit ==
    /\ managed \in BOOLEAN
    /\ turn = [t \in Turns |-> "none"] /\ stages = [t \in Turns |-> "none"]
    /\ gen = [t \in Turns |-> 0] /\ bound = {}
    /\ call = [t \in Turns |-> "none"] /\ acp = [t \in Turns |-> "none"]
    /\ sessionOp = {} /\ unsure = {}
    /\ lock = Nobody /\ seen = Unseen /\ leases = 0
    /\ idle = [gen |-> 0, elapsed |-> FALSE]
    /\ \E status \in {"running", "stopped"} :
            computer = [status |-> status, gen |-> 1, by |-> Nobody]
    /\ left = {} /\ session = Nobody /\ crashes = 0
-----------------------------------------------------------------------------
(* The records the backend keeps                                           *)

OpenOperation(t) == call[t] # "none" \/ t \in sessionOp \/ t \in unsure

\* Every change of an operation is activity of the computer.
Touched == idle' = [idle EXCEPT !.elapsed = FALSE]

RecordActivity(g) == idle' = IF managed THEN [gen |-> g, elapsed |-> FALSE] ELSE idle

Unlocked == lock' = Nobody /\ seen' = Unseen
Elapse ==
    /\ managed /\ ~idle.elapsed /\ idle' = [idle EXCEPT !.elapsed = TRUE]
    /\ UNCHANGED <<managed, workers, operations, locking, leases, box, crashes>>
-----------------------------------------------------------------------------
(* The supervisor                                                          *)

Busy == computer.status \in {"executing", "starting", "stopping"}

MayBegin(action) ==
    /\ ~Busy /\ computer.gen < MaxGen
    /\ action = "starting" => computer.status = "stopped"

Begin(action) ==
    computer' = [status |-> action, gen |-> computer.gen + 1, by |-> Nobody]

\* A person's request for a stop or a start takes the lifecycle lock, but a
\* client that goes away gives it back while the supervisor goes on: the lock
\* is not held to its end.
PersonActs ==
    /\ lock = Nobody
    /\ \E action \in {"starting", "stopping"} : MayBegin(action) /\ Begin(action)
    /\ UNCHANGED <<managed, workers, operations, locking, leases, idle, left, session, crashes>>

\* A stop takes along whatever acts in the container; the backend may still be
\* there to note the new generation.
LifecycleEnds ==
    /\ computer.status \in {"starting", "stopping"}
    /\ \E done \in BOOLEAN :
        /\ computer' = [computer EXCEPT !.status = IF ~done THEN "uncertain"
                                                   ELSE IF @ = "starting" THEN "running"
                                                   ELSE "stopped"]
        /\ IF done /\ computer.status = "stopping"
           THEN left' = {} /\ session' = Nobody
           ELSE UNCHANGED <<left, session>>
    /\ UNCHANGED idle \/ RecordActivity(computer.gen)
    /\ IF lock \in Turns /\ stages[lock] = "waking"
       THEN /\ seen' = [status |-> computer'.status, gen |-> computer.gen]
            /\ stages' = [stages EXCEPT ![lock] = "woken"]
       ELSE UNCHANGED <<seen, stages>>
    /\ UNCHANGED <<managed, turn, gen, bound, acp, operations, lock, leases, crashes>>

\* What was abandoned in the container, and an ACP process, end by themselves.
LeftoverEnds ==
    /\ \/ \E t \in left : left' = left \ {t} /\ UNCHANGED session
       \/ session # Nobody /\ session' = Nobody /\ UNCHANGED left
    /\ UNCHANGED <<managed, workers, operations, locking, leases, idle, computer, crashes>>
-----------------------------------------------------------------------------
(* A turn and its worker                                                   *)

\* "active" is pending, running or waiting for the user.
Accept(t) ==
    /\ turn[t] = "none"
    /\ turn' = [turn EXCEPT ![t] = "active"] /\ stages' = [stages EXCEPT ![t] = "ready"]
    /\ UNCHANGED <<managed, gen, bound, acp, operations, locking, leases, idle, box, crashes>>

Cancel(t) ==
    /\ turn[t] = "active" /\ turn' = [turn EXCEPT ![t] = "over"]
    /\ UNCHANGED <<managed, stages, gen, bound, acp, operations, locking, leases, idle, box, crashes>>

\* The execution is over, or its token is signalled: then requests it sent and
\* its ACP task go on without it.
Leave(t) ==
    /\ stages[t] \in {"ready", "reading", "waking", "woken", "bound"}
    /\ stages' = [stages EXCEPT ![t] = "leaving"]
    /\ IF lock = t THEN Unlocked ELSE UNCHANGED locking
    /\ UNCHANGED <<managed, turn, gen, bound, acp, operations, leases, idle, box, crashes>>

CloseTurn(t) ==
    /\ stages[t] = "leaving" /\ turn[t] = "active"
    /\ turn' = [turn EXCEPT ![t] = "over"]
    /\ UNCHANGED <<managed, stages, gen, bound, acp, operations, locking, leases, idle, box, crashes>>

\* The turn waits for the user instead, and goes on with another worker.
Continue(t) ==
    /\ stages[t] = "leaving" /\ turn[t] = "active" /\ ~OpenOperation(t)
    /\ stages' = [stages EXCEPT ![t] = "ready"]
    /\ UNCHANGED <<managed, turn, gen, bound, acp, operations, locking, leases, idle, box, crashes>>

\* finish_job waits for the turn's operations; an uncertain one interrupts the
\* job also when its turn waits for the user.
FinishJob(t) ==
    /\ stages[t] = "leaving" /\ call[t] = "none" /\ t \notin sessionOp
    /\ turn[t] = "over" \/ t \in unsure
    /\ stages' = [stages EXCEPT ![t] = IF t \in unsure THEN "interrupted" ELSE "ended"]
    /\ UNCHANGED <<managed, turn, gen, bound, acp, operations, locking, leases, idle, box, crashes>>

Acting == left \cup ({computer.by, session} \ {Nobody})

\* accept_acknowledge_stopped: a person confirms what is so.
AcknowledgeStopped(t) ==
    /\ stages[t] = "interrupted" /\ t \notin Acting
    /\ stages' = [stages EXCEPT ![t] = "verified"] /\ unsure' = unsure \ {t}
    /\ Touched
    /\ UNCHANGED <<managed, turn, gen, bound, acp, call, sessionOp, locking, leases, box, crashes>>
-----------------------------------------------------------------------------
(* resolve                                                                 *)

Resolve(t) ==
    /\ stages[t] \in {"ready", "bound"} /\ lock = Nobody
    /\ lock' = t /\ seen' = [status |-> computer.status, gen |-> computer.gen]
    /\ stages' = [stages EXCEPT ![t] = "reading"]
    /\ UNCHANGED <<managed, turn, gen, bound, acp, operations, leases, idle, box, crashes>>

Refuse(t) == Unlocked /\ stages' = [stages EXCEPT ![t] = "ready"]

Uncertain == managed /\ (unsure # {} \/ seen.status = "uncertain")
RunningOperation == sessionOp # {} \/ \E t \in Turns : call[t] # "none"

Wakes == managed /\ seen.status = "stopped"

\* A stopped computer is started, once, under the generation that was read.
Wake(t) ==
    /\ stages[t] = "reading" /\ ~Uncertain /\ Wakes
    /\ IF ~RunningOperation /\ MayBegin("starting") /\ computer.gen = seen.gen
       THEN /\ Begin("starting") /\ stages' = [stages EXCEPT ![t] = "waking"]
            /\ UNCHANGED locking
       ELSE Refuse(t) /\ UNCHANGED computer
    /\ UNCHANGED <<managed, turn, gen, bound, acp, operations, leases, idle, left, session, crashes>>

\* Mutation: a turn lets go of the computer when it is over.
ReservedByTurns(t) == \E u \in bound \ {t} : turn[u] = "active"

\* The computer needs its own lease: independent threads run in parallel.
Reserved(t) == \E u \in bound \ {t} : turn[u] = "active" \/ OpenOperation(u)

Bind(t) ==
    /\ stages[t] = "woken" \/ (stages[t] = "reading" /\ (Uncertain \/ ~Wakes))
    /\ IF (stages[t] = "reading" /\ Uncertain) \/ seen.status # "running" \/ Reserved(t)
       THEN Refuse(t) /\ UNCHANGED <<bound, gen, idle>>
       ELSE /\ bound' = bound \cup {t} /\ gen' = [gen EXCEPT ![t] = seen.gen]
            /\ RecordActivity(seen.gen)
            /\ Unlocked /\ stages' = [stages EXCEPT ![t] = "bound"]
    /\ UNCHANGED <<managed, turn, acp, operations, leases, box, crashes>>
-----------------------------------------------------------------------------
(* request_owned: a task of its own                                        *)

Authorized(t) == turn[t] = "active"

\* The intent is stored under the lock, after the turn was checked.
Admit(t) ==
    /\ gen[t] # 0 /\ call[t] = "none" /\ lock = Nobody
    /\ IF t \in AcpTurns THEN acp[t] \in {"stored", "live"} ELSE stages[t] \in {"bound", "leaving"}
    /\ Authorized(t)
    /\ call' = [call EXCEPT ![t] = "sent"]
    /\ acp' = [acp EXCEPT ![t] = IF @ = "stored" THEN "starting" ELSE @]
    /\ Touched
    /\ UNCHANGED <<managed, turn, stages, gen, bound, sessionOp, unsure, locking, leases, box, crashes>>

\* The ACP task does not get its session.
Unstarted(t) == acp' = [acp EXCEPT ![t] = IF @ = "starting" THEN "stopping" ELSE @]

\* A refusal is definite, but for one code the backend does not know: that the
\* computer is not running.
Refused(t) ==
    /\ call[t] = "sent" /\ (Busy \/ computer.gen # gen[t] \/ computer.status # "running")
    /\ call' = [call EXCEPT ![t] = "none"]
    /\ unsure' = IF Busy \/ computer.gen # gen[t] THEN unsure ELSE unsure \cup {t}
    /\ Unstarted(t) /\ Touched
    /\ UNCHANGED <<managed, turn, stages, gen, bound, sessionOp, locking, leases, box, crashes>>

Execute(t) ==
    /\ call[t] = "sent" /\ computer.status = "running" /\ computer.gen = gen[t]
    /\ computer' = [computer EXCEPT !.status = "executing", !.by = t]
    /\ call' = [call EXCEPT ![t] = "working"]
    /\ session' = IF acp[t] = "starting" THEN t ELSE session
    /\ UNCHANGED <<managed, workers, sessionOp, unsure, locking, leases, idle, left, crashes>>

\* The answer is lost and the exec goes on in the supervisor.
LoseAnswer(t) ==
    /\ call[t] = "working"
    /\ call' = [call EXCEPT ![t] = "none"] /\ unsure' = unsure \cup {t}
    /\ Unstarted(t) /\ Touched
    /\ UNCHANGED <<managed, turn, stages, gen, bound, sessionOp, locking, leases, box, crashes>>

\* The exec ends, or is abandoned when its time is up.
ExecEnds ==
    /\ computer.status = "executing"
    /\ \E done \in BOOLEAN, t \in Turns :
        /\ t = computer.by
        /\ computer' = [computer EXCEPT !.status = IF done THEN "running" ELSE "uncertain",
                                        !.by = Nobody]
        /\ left' = IF done THEN left ELSE left \cup {t}
        /\ IF call[t] = "working"
           THEN /\ call' = [call EXCEPT ![t] = "none"]
                /\ unsure' = IF done THEN unsure ELSE unsure \cup {t}
                /\ IF done THEN acp' = [acp EXCEPT ![t] = IF @ = "starting" THEN "live" ELSE @]
                   ELSE Unstarted(t)
                /\ Touched
           ELSE UNCHANGED <<call, unsure, acp, idle>>
    /\ UNCHANGED <<managed, turn, stages, gen, bound, sessionOp, locking, leases, session, crashes>>
-----------------------------------------------------------------------------
(* The ACP task, which outlives a cancelled worker                         *)

Acp(t, from, to) == acp[t] = from /\ acp' = [acp EXCEPT ![t] = to]

\* Its grants are given to an active turn only; without them it stops.
StartAcp(t) ==
    /\ t \in AcpTurns /\ stages[t] = "bound"
    /\ Acp(t, "none", IF turn[t] = "active" THEN "granted" ELSE "stopping")
    /\ UNCHANGED <<managed, turn, stages, gen, bound, operations, locking, leases, idle, box, crashes>>

\* One operation for the whole life of the process, before it is started.
StoreSession(t) ==
    /\ Acp(t, "granted", "stored")
    /\ sessionOp' = sessionOp \cup {t} /\ Touched
    /\ UNCHANGED <<managed, turn, stages, gen, bound, call, unsure, locking, leases, box, crashes>>

\* The start is refused, or the session ends: by itself, after a cancellation,
\* or because an exchange failed.
LeaveSession(t) ==
    /\ \/ Acp(t, "stored", "stopping") /\ ~Authorized(t)
       \/ Acp(t, "live", "stopping")
    /\ UNCHANGED <<managed, turn, stages, gen, bound, operations, locking, leases, idle, box, crashes>>

\* stop_driver takes neither the lock nor a look at the turn.
StopDriver(t) ==
    /\ Acp(t, "stopping", "none")
    /\ \E stopped \in BOOLEAN, timeout \in BOOLEAN :
        LET reached == computer.status = "running" /\ computer.gen = gen[t] IN
        /\ stopped \/ timeout => reached
        /\ ~(stopped /\ timeout)
        /\ session' = IF stopped THEN Nobody ELSE session
        /\ computer' = [computer EXCEPT !.status = IF timeout THEN "uncertain" ELSE @]
        /\ unsure' = IF stopped THEN unsure ELSE unsure \cup ({t} \cap sessionOp)
    /\ sessionOp' = sessionOp \ {t} /\ Touched
    /\ UNCHANGED <<managed, turn, stages, gen, bound, call, locking, leases, left, crashes>>
-----------------------------------------------------------------------------
(* Desktops and the idle sweep                                             *)

\* Mutation: a desktop does not wait for a sweep.
AnyTime == TRUE

\* active_use: registered under the lock and then held without it.
LockFree == lock = Nobody

OpenDesktop ==
    /\ LockFree /\ leases < MaxLeases /\ leases' = leases + 1
    /\ UNCHANGED <<managed, workers, operations, locking, idle, box, crashes>>

\* While it is open it is activity, under the generation its client names.
CloseDesktop ==
    /\ leases > 0 /\ leases' = leases - 1
    /\ UNCHANGED idle \/ \E g \in 1..computer.gen : RecordActivity(g)
    /\ UNCHANGED <<managed, workers, operations, locking, box, crashes>>

Sweep ==
    /\ managed /\ lock = Nobody /\ leases = 0 /\ computer.status = "running"
    /\ lock' = Sweeper /\ seen' = [status |-> "running", gen |-> computer.gen]
    /\ UNCHANGED <<managed, workers, operations, leases, idle, box, crashes>>

\* A generation not seen before is given the whole time.
Notice ==
    /\ lock = Sweeper /\ seen.status = "running" /\ idle.gen # seen.gen
    /\ RecordActivity(seen.gen) /\ Unlocked
    /\ UNCHANGED <<managed, workers, operations, leases, box, crashes>>

\* Also turns that have not reserved it yet.
Occupied == \E t \in Turns : turn[t] = "active" \/ OpenOperation(t)

\* One snapshot of what uses the computer and when it was used last.
Choose ==
    /\ lock = Sweeper /\ seen.status = "running" /\ idle.gen = seen.gen
    /\ IF Occupied \/ ~idle.elapsed THEN Unlocked
       ELSE seen' = [seen EXCEPT !.status = "chosen"] /\ UNCHANGED lock
    /\ UNCHANGED <<managed, workers, operations, leases, idle, box, crashes>>

StopIdle ==
    /\ lock = Sweeper /\ seen.status = "chosen"
    /\ IF computer.status = "running" /\ computer.gen = seen.gen /\ computer.gen < MaxGen
       THEN Begin("stopping") /\ seen' = [seen EXCEPT !.status = "stopping"] /\ UNCHANGED lock
       ELSE Unlocked /\ UNCHANGED computer
    /\ UNCHANGED <<managed, workers, operations, leases, idle, left, session, crashes>>

\* The stop was answered, or its answer was lost.
Swept ==
    /\ lock = Sweeper /\ seen.status = "stopping"
    /\ Unlocked
    /\ UNCHANGED <<managed, workers, operations, leases, idle, box, crashes>>
-----------------------------------------------------------------------------
\* The server stops and starts again: recover_incomplete_turns and recover.  A
\* turn that waits for the user stays as it is.
Restart ==
    /\ crashes < MaxCrashes /\ crashes' = crashes + 1
    /\ unsure' = {t \in Turns : OpenOperation(t)}
    /\ call' = [t \in Turns |-> "none"] /\ sessionOp' = {}
    /\ \E waiting \in SUBSET {t \in Turns \ unsure' : turn[t] = "active" /\ stages[t] = "leaving"} :
        /\ turn' = [t \in Turns |-> IF turn[t] = "active" /\ t \notin waiting THEN "over"
                                    ELSE turn[t]]
        /\ stages' = [t \in Turns |->
                        IF t \in unsure' \/ (t \notin waiting
                                             /\ stages[t] \notin {"none", "ended", "verified"})
                        THEN "interrupted" ELSE stages[t]]
    /\ acp' = [t \in Turns |-> "none"]
    /\ Unlocked /\ leases' = 0 /\ Touched
    /\ UNCHANGED <<managed, gen, bound, box>>

Sweeping == Sweep \/ Notice \/ Choose \/ StopIdle \/ Swept

UseNext ==
    \/ Elapse \/ PersonActs \/ LifecycleEnds \/ LeftoverEnds \/ ExecEnds
    \/ OpenDesktop \/ CloseDesktop \/ Sweeping \/ Restart
    \/ \E t \in Turns :
        \/ Accept(t) \/ Cancel(t) \/ Leave(t) \/ CloseTurn(t)
        \/ Continue(t) \/ FinishJob(t) \/ AcknowledgeStopped(t)
        \/ Resolve(t) \/ Wake(t) \/ Bind(t)
        \/ Admit(t) \/ Refused(t) \/ Execute(t) \/ LoseAnswer(t)
        \/ StartAcp(t) \/ StoreSession(t) \/ LeaveSession(t) \/ StopDriver(t)

\* The loop sweeps every five seconds, time passes, Docker answers, and an
\* execution is bounded.
UseFairness ==
    /\ WF_useVars(Sweeping) /\ WF_useVars(Elapse) /\ WF_useVars(LifecycleEnds)
    /\ \A t \in Turns : WF_useVars(Leave(t))

UseSpec == UseInit /\ [][UseNext]_useVars /\ UseFairness
-----------------------------------------------------------------------------
\* What acts in the computer belongs to one turn, although threads run in
\* parallel, calls and sessions outlive the turns that began them, and answers
\* are lost (resolve: "The computer needs its own lease").
OneTurnActs == Cardinality(Acting) <= 1

\* The sweep stops nothing that is in use: no desktop is open, no call is under
\* way, nothing acts, and no turn that is going on holds the computer.
InUse == leases > 0 \/ Acting # {} \/ \E t \in DOMAIN call :
            call[t] # "none" \/ (t \in bound /\ turn[t] = "active")
SweepSparesWork ==
    [][lock = Sweeper /\ computer.status = "running" /\ computer'.status = "stopping"
          => ~InUse]_useVars

\* A computer nobody uses is stopped (the last generation cannot be).
Needed == leases > 0 \/ Occupied
IdleComputerStops ==
    []<>(~managed \/ computer.status # "running" \/ Needed \/ computer.gen = MaxGen)
=============================================================================
