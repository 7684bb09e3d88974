----------------------------- MODULE Supervisor -----------------------------
(***************************************************************************)
(* The computer supervisor (computer-supervisor/src): the life of one      *)
(* controlled computer, the human control lease beside it, and the Docker  *)
(* daemon that executes what the supervisor asks for, possibly later than  *)
(* the supervisor stopped waiting for it.  Computers share nothing.        *)
(*                                                                         *)
(* Every request runs as a task of its own that survives its HTTP client   *)
(* (detached) and works under the lock of its computer, so at most one     *)
(* request is past its checks: op.  Control requests do part of their work *)
(* before they take the lock: reqs.  One action is what happens between    *)
(* two answers of Docker, or between two awaits of a control request.      *)
(***************************************************************************)
EXTENDS Naturals

CONSTANTS
    ControlActs,\* the control requests clients of this instance send
    MaxGen,     \* bound: generations, that is lifecycle actions
    MaxFaults,  \* bound: journal writes that fail
    MaxInputs,  \* bound: human inputs at work in the container
    MaxCrashes  \* bound: supervisor stops

ASSUME ConstantsAssumption ==
    /\ ControlActs \subseteq {"status", "request"}
    /\ {MaxGen, MaxFaults, MaxInputs, MaxCrashes} \subseteq Nat

VARIABLES
    mem,        \* the Computer in memory
    saved,      \* the same in its journal file
    op,         \* the request that holds the lock: kind and Docker stage
    ctl,        \* the Control in memory; generation 0: no entry
    reqs,       \* control requests before they hold the lock
    box,        \* Docker: the container, by the generation that made it
    execs,      \* Docker: agents' and humans' execs inside the container
    acp,        \* Docker: an agent's ACP session inside the container
    late,       \* Docker: requests nobody waits for any more
    used,       \* history: generations a lifecycle action ran Docker with
    held,       \* history: generation a human took over and not yet returned
    up, faults, crashes

dockerVars == <<box, execs, acp, late>>
bounds == <<up, faults, crashes>>
vars == <<mem, saved, op, ctl, reqs, box, execs, acp, late, used, held, up,
          faults, crashes>>

-----------------------------------------------------------------------------
Status == {"absent", "starting", "running", "executing", "stopping",
           "stopped", "rebuilding", "destroying", "destroyed", "uncertain"}
Gen == 0 .. MaxGen
Lifecycle == {"create", "start", "stop", "rebuild", "destroy"}
\* execute and an agent's call; a call that only observes; a human's call;
\* writable RFB input; the quiesce of a takeover
Calls == {"agent", "observe", "human", "rfb", "takeover"}
Stage == {"halt", "remove", "create", "boot", "exec", "wait", "done"}
Idle == [kind |-> "none", stage |-> "done"]
Drivers == {"agent", "human"}
NoBox == [state |-> "absent", gen |-> 0]
ControlState == {"agent_controlled", "takeover_requested", "user_controlled",
                 "released"}
Computer == [status : Status, gen : Gen]
Control == [state : ControlState, gen : Gen, lapsed : BOOLEAN]
Request == [kind : Lifecycle \cup Calls, stage : Stage] \cup {Idle}
ControlRequest == [act : {"status", "request"}, gen : Gen,
                   pc : {"read", "waiting"}]
Box == [state : {"absent", "created", "running", "exited"}, gen : Gen]

TypeOK ==
    /\ mem \in Computer /\ saved \in Computer
    /\ op \in Request
    /\ ctl \in Control
    /\ reqs \subseteq ControlRequest
    /\ box \in Box
    /\ execs \in [Drivers -> Nat]
    /\ acp \in BOOLEAN
    /\ late \subseteq {"remove", "create", "boot", "agent", "human"} \X Gen
    /\ used \subseteq Gen
    /\ held \in Gen
    /\ up \in BOOLEAN
    /\ faults \in Nat
    /\ crashes \in Nat

Unheld(g) == [state |-> "agent_controlled", gen |-> g, lapsed |-> FALSE]

Init ==
    /\ mem = [status |-> "absent", gen |-> 0]
    /\ saved = mem
    /\ op = Idle
    /\ ctl = Unheld(0)
    /\ reqs = {}
    /\ box = NoBox
    /\ execs = [d \in Drivers |-> 0]
    /\ acp = FALSE
    /\ late = {}
    /\ used = {}
    /\ held = 0
    /\ up = TRUE
    /\ faults = 0
    /\ crashes = 0

-----------------------------------------------------------------------------
Fault == faults < MaxFaults /\ faults' = faults + 1

\* Store::save: the journal is replaced by a rename; a failed write leaves
\* the old file, or the new one when only the directory sync failed.
Save(ok) ==
    IF ok THEN saved' = mem' /\ UNCHANGED faults
          ELSE saved' \in {saved, mem'} /\ Fault

\* Faulty: a request that does not wait may overtake one that does.
FreeForAll == up /\ op = Idle

\* Store::lock does not wait, and a lock that is let go of is handed to a
\* waiting request first.
Free == up /\ op = Idle /\ \A r \in reqs : r.pc # "waiting"

\* Clients know the generations that reached the journal.
Known == mem.gen = saved.gen

-----------------------------------------------------------------------------
(* Controls: every use of the entry first forgets an older generation and  *)
(* ends an expired lease.                                                  *)

Settle(c) == IF c.state = "user_controlled" /\ c.lapsed
             THEN [c EXCEPT !.state = "released", !.lapsed = FALSE]
             ELSE c

Entry(g) == IF ctl.gen = g THEN Settle(ctl) ELSE Unheld(g)

\* Controls::check for an agent's, a human's and an observing request
Allowed(kind) ==
    CASE kind = "agent" -> Entry(mem.gen).state = "agent_controlled"
      [] kind = "observe" -> TRUE
      [] OTHER -> Entry(mem.gen).state = "user_controlled"

\* ... which writes an existing entry only to end an expired lease.
Checked == IF ctl.gen = mem.gen THEN Settle(ctl) ELSE ctl

Lapse ==
    /\ ctl.state = "user_controlled" /\ ~ctl.lapsed
    /\ ctl' = [ctl EXCEPT !.lapsed = TRUE]
    /\ UNCHANGED <<mem, saved, op, reqs, dockerVars, used, held, bounds>>

\* control_action compares the generation with the journal, ...
ReadControl(act) ==
    /\ up /\ saved.status # "absent"
    /\ \A r \in reqs : r.act # act       \* bound: one of each in flight
    /\ reqs' = reqs \cup {[act |-> act, gen |-> saved.gen, pc |-> "read"]}
    /\ UNCHANGED <<mem, saved, op, ctl, dockerVars, used, held, bounds>>

\* ... and enters the control table later, without the lock.
ReportControl(r) ==
    /\ r.act = "status"
    /\ ctl' = Entry(r.gen)
    /\ reqs' = reqs \ {r}
    /\ UNCHANGED <<mem, saved, op, dockerVars, used, held, bounds>>

\* A takeover request keeps new agent actions out before it waits for the
\* current one, ...
Fence(r) ==
    /\ r.act = "request" /\ r.pc = "read"
    /\ IF Entry(r.gen).state \in {"agent_controlled", "released"}
       THEN /\ ctl' = [Entry(r.gen) EXCEPT !.state = "takeover_requested"]
            /\ reqs' = (reqs \ {r}) \cup {[r EXCEPT !.pc = "waiting"]}
       ELSE /\ ctl' = Entry(r.gen)
            /\ reqs' = reqs \ {r}
    /\ UNCHANGED <<mem, saved, op, dockerVars, used, held, bounds>>

\* Faulty: control is granted without the quiesce.
TakeLockAtOnce(r) ==
    /\ up /\ op = Idle /\ r.pc = "waiting"
    /\ reqs' = reqs \ {r}
    /\ op' = IF mem.gen = r.gen /\ mem.status = "running"
             THEN [kind |-> "takeover", stage |-> "done"]
             ELSE op
    /\ UNCHANGED <<mem, saved, ctl, dockerVars, used, held, bounds>>

\* ... takes the lock, and quiesces the computer it was meant for.
TakeLock(r) ==
    /\ up /\ op = Idle /\ r.pc = "waiting"
    /\ reqs' = reqs \ {r}
    /\ op' = IF mem.gen = r.gen /\ mem.status = "running"
             THEN [kind |-> "takeover", stage |-> "exec"]
             ELSE op
    /\ UNCHANGED <<mem, saved, ctl, dockerVars, used, held, bounds>>

\* wait_lock waits 310 s at most; a control file that cannot be written ends
\* a request the same way, with the entry changed in memory.
GiveUp(r) ==
    /\ r.pc = "waiting"
    /\ reqs' = reqs \ {r}
    /\ UNCHANGED <<mem, saved, op, ctl, dockerVars, used, held, bounds>>

\* Grant: the last step of a takeover, still under the lock.
Grant ==
    /\ op.kind = "takeover" /\ op.stage = "done"
    /\ IF Entry(mem.gen).state = "takeover_requested"
       THEN /\ ctl' = [Entry(mem.gen) EXCEPT !.state = "user_controlled"]
            /\ held' = mem.gen
       ELSE ctl' = Entry(mem.gen) /\ UNCHANGED held
    /\ op' = Idle
    /\ UNCHANGED <<mem, saved, reqs, dockerVars, used, bounds>>

\* The other control actions wait for the lock and do one transition; renew
\* only puts Lapse off.  The human returns control in two steps.
Release ==
    /\ up /\ op = Idle /\ Known
    /\ Entry(mem.gen).state = "user_controlled"
    /\ ctl' = [Entry(mem.gen) EXCEPT !.state = "released"]
    /\ UNCHANGED <<mem, saved, op, reqs, dockerVars, used, held, bounds>>

Resume ==
    /\ up /\ op = Idle /\ Known
    /\ Entry(mem.gen).state = "released"
    /\ ctl' = Unheld(mem.gen)
    /\ held' = 0
    /\ UNCHANGED <<mem, saved, op, reqs, dockerVars, used, bounds>>

-----------------------------------------------------------------------------
(* Requests take the lock, pass their checks and write the journal before  *)
(* Docker hears of them.                                                   *)

First(kind) == CASE kind \in {"create", "start"} -> "create"
                 [] kind \in {"stop", "rebuild", "destroy"} -> "halt"
                 [] OTHER -> "exec"

InProgress(kind) == CASE kind \in {"create", "start"} -> "starting"
                      [] kind = "stop" -> "stopping"
                      [] kind = "rebuild" -> "rebuilding"
                      [] kind = "destroy" -> "destroying"

Admitted(kind) ==
    CASE kind = "create" -> mem.status = "absent"
      [] kind = "start" -> mem.status = "stopped"
      [] kind = "rebuild" ->
           mem.status \notin {"absent", "uncertain", "destroyed"}
      [] OTHER -> mem.status \notin {"absent", "destroyed"}

\* The backend's idle sweep stops only what nobody controls (check_idle).
Uncontrolled ==
    mem.status = "running"
        /\ Entry(mem.gen).state \in {"agent_controlled", "released"}

Began(kind) ==
    /\ op' = [kind |-> kind, stage |-> First(kind)]
    /\ used' = used \cup {mem.gen + 1}

\* Faulty: the journal is written when Docker has answered.
BeginUnjournalled(kind, idle, ok) ==
    /\ Free /\ Known /\ Admitted(kind) /\ ok
    /\ idle => kind = "stop" /\ Uncontrolled
    /\ mem.gen < MaxGen
    /\ mem' = [status |-> InProgress(kind), gen |-> mem.gen + 1]
    /\ Began(kind)
    /\ ctl' = IF idle THEN Entry(mem.gen) ELSE ctl
    /\ UNCHANGED <<saved, faults, reqs, dockerVars, held, up, crashes>>

\* Store::insert and action: a new generation, journalled before Docker runs.
\* When the write fails memory has moved on and nobody runs Docker.
BeginLifecycle(kind, idle, ok) ==
    /\ Free /\ Known /\ Admitted(kind)
    /\ idle => kind = "stop" /\ Uncontrolled
    /\ kind = "create" => ok                     \* insert leaves no entry
    /\ mem.gen < MaxGen
    /\ mem' = [status |-> InProgress(kind), gen |-> mem.gen + 1]
    /\ Save(ok)
    /\ IF ok THEN Began(kind) ELSE UNCHANGED <<op, used>>
    /\ ctl' = IF idle THEN Entry(mem.gen) ELSE ctl
    /\ UNCHANGED <<reqs, dockerVars, held, up, crashes>>

\* execute and computer_call
BeginCall(kind, ok) ==
    /\ Free /\ Known /\ mem.status = "running"
    /\ Allowed(kind)
    /\ ctl' = Checked
    /\ mem' = [mem EXCEPT !.status = "executing"]
    /\ Save(ok)
    /\ op' = IF ok THEN [kind |-> kind, stage |-> "exec"] ELSE op
    /\ UNCHANGED <<reqs, dockerVars, used, held, up, crashes>>

\* Writable RFB input holds the lock and leaves the status alone.
BeginInput ==
    /\ Free /\ Known /\ mem.status \in {"running", "executing"}
    /\ Allowed("rfb")
    /\ execs["human"] < MaxInputs
    /\ ctl' = Checked
    /\ op' = [kind |-> "rfb", stage |-> "exec"]
    /\ UNCHANGED <<mem, saved, reqs, dockerVars, used, held, bounds>>

-----------------------------------------------------------------------------
(* Docker, one request at a time.  Containers are addressed by their id,   *)
(* which is the generation that created them.                              *)

Driver(kind) == IF kind \in {"human", "rfb"} THEN "human" ELSE "agent"

At(stage) == up /\ op.stage = stage

Reached(stage) == op' = [op EXCEPT !.stage = stage]

\* A container takes everything that acts in it along.
Exited ==
    /\ box' = [box EXCEPT !.state = "exited"]
    /\ execs' = [d \in Drivers |-> 0]
    /\ acp' = FALSE

\* stop_all: stop the container if it runs, ...
Halt ==
    /\ At("halt")
    /\ IF box.state = "running"
       THEN Exited
       ELSE UNCHANGED <<box, execs, acp>>
    /\ Reached("remove")
    /\ UNCHANGED <<mem, saved, ctl, reqs, late, used, held, bounds>>

AfterRemove == IF op.kind = "rebuild" THEN "create" ELSE "done"

\* Faulty: a container that does not run is left behind.
RemoveRunning ==
    /\ At("remove") /\ box.state # "running"
    /\ Reached(AfterRemove)
    /\ UNCHANGED <<mem, saved, ctl, reqs, dockerVars, used, held, bounds>>

\* ... and remove it, which Docker refuses for a running one.
Remove ==
    /\ At("remove") /\ box.state # "running"
    /\ box' = NoBox
    /\ Reached(AfterRemove)
    /\ UNCHANGED <<mem, saved, ctl, reqs, execs, acp, late, used, held, bounds>>

\* Faulty: a container that exists under the name is taken for the new one.
CreateOrReuse ==
    /\ At("create")
    /\ box' = IF box.state = "absent"
              THEN [state |-> "created", gen |-> mem.gen] ELSE box
    /\ Reached("boot")
    /\ UNCHANGED <<mem, saved, ctl, reqs, execs, acp, late, used, held, bounds>>

\* create_container, refused when the name is taken
CreateBox ==
    /\ At("create") /\ box.state = "absent"
    /\ box' = [state |-> "created", gen |-> mem.gen]
    /\ Reached("boot")
    /\ UNCHANGED <<mem, saved, ctl, reqs, execs, acp, late, used, held, bounds>>

Boot ==
    /\ At("boot") /\ box.state = "created"
    /\ box' = [box EXCEPT !.state = "running"]
    /\ Reached("done")
    /\ UNCHANGED <<mem, saved, ctl, reqs, execs, acp, late, used, held, bounds>>

\* run: the container must run and carry the generation.  The quiesce of a
\* takeover, and some observing calls, end the ACP driver.
Exec ==
    /\ At("exec") /\ box = [state |-> "running", gen |-> mem.gen]
    /\ IF op.kind \in {"observe", "takeover"}
       THEN /\ acp' \in IF op.kind = "takeover" THEN {FALSE}
                        ELSE {acp, FALSE}
            /\ UNCHANGED execs
            /\ Reached("done")
       ELSE /\ execs' = [execs EXCEPT ![Driver(op.kind)] = @ + 1]
            /\ UNCHANGED acp
            /\ Reached("wait")
    /\ UNCHANGED <<mem, saved, ctl, reqs, box, late, used, held, bounds>>

\* The exec ends, with its descendants; only an ACP session an agent started
\* stays behind.
ExecEnds ==
    /\ At("wait")
    /\ execs[Driver(op.kind)] > 0
    /\ execs' = [execs EXCEPT ![Driver(op.kind)] = @ - 1]
    /\ acp' \in IF op.kind = "agent" THEN {acp, TRUE} ELSE {acp}
    /\ Reached("done")
    /\ UNCHANGED <<mem, saved, ctl, reqs, box, late, used, held, bounds>>

\* What Docker does with a request nobody waits for any more.
LateCreate(g) ==
    /\ <<"create", g>> \in late /\ box.state = "absent"
    /\ box' = [state |-> "created", gen |-> g]
    /\ late' = late \ {<<"create", g>>}
    /\ UNCHANGED <<execs, acp>>

LateBoot(g) ==
    /\ <<"boot", g>> \in late /\ box = [state |-> "created", gen |-> g]
    /\ box' = [box EXCEPT !.state = "running"]
    /\ late' = late \ {<<"boot", g>>}
    /\ UNCHANGED <<execs, acp>>

LateRemove(g) ==
    /\ <<"remove", g>> \in late
    /\ box.gen = g /\ box.state \in {"created", "exited"}
    /\ box' = NoBox
    /\ late' = late \ {<<"remove", g>>}
    /\ UNCHANGED <<execs, acp>>

LateExec(g, d) ==
    /\ <<d, g>> \in late /\ box = [state |-> "running", gen |-> g]
    /\ execs' = [execs EXCEPT ![d] = @ + 1]
    /\ late' = late \ {<<d, g>>}
    /\ UNCHANGED <<box, acp>>

\* An exec nobody waits for ends; the ACP session ends; the container exits.
Awaited(d) == IF op.stage = "wait" /\ Driver(op.kind) = d THEN 1 ELSE 0

ExecVanishes(d) ==
    /\ execs[d] > Awaited(d)
    /\ execs' = [execs EXCEPT ![d] = @ - 1]
    /\ UNCHANGED <<box, acp, late>>

SessionEnds == acp /\ acp' = FALSE /\ UNCHANGED <<box, execs, late>>

BoxExits == box.state = "running" /\ Exited /\ UNCHANGED late

Unwatched ==
    /\ \/ \E g \in Gen : \/ LateCreate(g) \/ LateBoot(g) \/ LateRemove(g)
                          \/ \E d \in Drivers : LateExec(g, d)
       \/ \E d \in Drivers : ExecVanishes(d)
       \/ SessionEnds \/ BoxExits
    /\ UNCHANGED <<mem, saved, op, ctl, reqs, used, held, bounds>>

-----------------------------------------------------------------------------
(* How a request ends.                                                     *)

Success(kind) == CASE kind = "stop" -> "stopped"
                   [] kind = "destroy" -> "destroyed"
                   [] OTHER -> "running"

\* Faulty: a call that failed is taken to have ended.
FinishTrusting(result, ok) ==
    LET status == IF result = "ok" THEN Success(op.kind)
                  ELSE IF op.kind \in Calls THEN "running" ELSE "uncertain"
    IN  mem' = [mem EXCEPT !.status = status] /\ Save(ok)

\* finish: memory, then journal; a failed write leaves memory uncertain.
Finish(result, ok) ==
    LET end(status) == [mem EXCEPT !.status = status]
        new == end(IF result = "ok" THEN Success(op.kind) ELSE "uncertain")
    IN  IF ok THEN mem' = new /\ saved' = new /\ UNCHANGED faults
              ELSE /\ mem' = end("uncertain")
                   /\ saved' \in {saved, new}
                   /\ Fault

Complete(ok) ==
    /\ At("done") /\ op.kind \notin {"none", "takeover", "rfb"}
    /\ Finish("ok", ok)
    /\ op' = Idle
    /\ UNCHANGED <<ctl, reqs, dockerVars, used, held, up, crashes>>

CompleteInput ==
    /\ At("done") /\ op.kind = "rfb"
    /\ op' = Idle
    /\ UNCHANGED <<mem, saved, ctl, reqs, dockerVars, used, held, bounds>>

\* The request gives up: input and takeover only tell their client so, all
\* others leave the computer uncertain.
Abandon(ok) ==
    /\ IF op.kind \in {"rfb", "takeover"}
       THEN ok /\ UNCHANGED <<mem, saved, faults>>
       ELSE Finish("error", ok)
    /\ op' = Idle
    /\ UNCHANGED <<ctl, reqs, box, execs, acp, used, held, up, crashes>>

\* Docker said no, or the exec died with its container.
Refused ==
    \/ op.stage = "remove" /\ box.state = "running"
    \/ op.stage = "create" /\ box.state # "absent"
    \/ op.stage = "boot" /\ box.state # "created"
    \/ op.stage = "exec" /\ box # [state |-> "running", gen |-> mem.gen]
    \/ op.stage = "wait" /\ execs[Driver(op.kind)] = 0

Fail(ok) ==
    /\ up /\ op # Idle /\ Refused
    /\ Abandon(ok)
    /\ UNCHANGED late

\* Requests to Docker that may be carried out when their sender is gone.
\* A late stop or quiesce is a container or session that ends by itself.
InFlight ==
    CASE op.stage \in {"create", "boot"} -> {<<op.stage, mem.gen>>}
      [] op.stage = "remove" /\ box # NoBox -> {<<"remove", box.gen>>}
      [] op.stage = "exec" /\ op.kind \in {"agent", "human", "rfb"} ->
           {<<Driver(op.kind), mem.gen>>}
      [] OTHER -> {}

\* The supervisor does not wait any longer; Docker may go on.
TimeOut(ok) ==
    /\ up /\ op.stage # "done"
    /\ late' = late \cup InFlight
    /\ Abandon(ok)

-----------------------------------------------------------------------------
(* The supervisor stops and reopens its journal.                           *)

Crash ==
    /\ up /\ crashes < MaxCrashes
    /\ up' = FALSE /\ crashes' = crashes + 1
    /\ op' = Idle /\ reqs' = {}
    /\ late' = late \cup InFlight
    /\ UNCHANGED <<mem, saved, ctl, box, execs, acp, used, held, faults>>

\* Only a stop that was verified is believed.
Reopened(status) ==
    IF status \in {"absent", "stopped", "destroyed"} THEN status
    ELSE "uncertain"

\* Controls::open reads every control as released.  Its file may be of an
\* older generation than the entry was, or missing when the entry was only
\* looked at.
ReopenedControl ==
    IF ctl.gen = 0 THEN {ctl}
    ELSE {[state |-> "released", gen |-> g, lapsed |-> FALSE] :
             g \in 1 .. saved.gen} \cup {Unheld(0)}

\* Store::open
Restart ==
    /\ ~up
    /\ up' = TRUE
    /\ mem' = [saved EXCEPT !.status = Reopened(@)]
    /\ saved' = mem'
    /\ ctl' \in ReopenedControl
    /\ UNCHANGED <<op, reqs, dockerVars, used, held, faults, crashes>>

-----------------------------------------------------------------------------
Begin ==
    \E ok \in BOOLEAN :
        \/ \E kind \in Lifecycle, idle \in BOOLEAN :
              BeginLifecycle(kind, idle, ok)
        \/ \E kind \in {"agent", "observe", "human"} : BeginCall(kind, ok)

Controlling ==
    \/ \E act \in ControlActs : ReadControl(act)
    \/ \E r \in reqs : ReportControl(r) \/ Fence(r) \/ GiveUp(r)
    \/ Release \/ Resume \/ Lapse

Docker == \/ Halt \/ Remove \/ CreateBox \/ Boot \/ Exec \/ ExecEnds

End == Grant \/ CompleteInput \/ \E ok \in BOOLEAN : Complete(ok) \/ Fail(ok)

Next ==
    \/ Begin \/ BeginInput \/ Controlling \/ \E r \in reqs : TakeLock(r)
    \/ Docker \/ End \/ \E ok \in BOOLEAN : TimeOut(ok)
    \/ Unwatched \/ Crash \/ Restart

Spec == Init /\ [][Next]_vars

\* Every Docker request has an answer or a timeout, and the lock is handed
\* to a request that waits for it.
Fairness ==
    /\ WF_vars(Docker \/ End)
    /\ \A g \in Gen :
          WF_vars(TakeLock([act |-> "request", gen |-> g, pc |-> "waiting"]))

FairSpec == Spec /\ Fairness

-----------------------------------------------------------------------------
(* Safety                                                                  *)

\* A stop the journal records is a verified one: no container runs and
\* nothing acts, whatever an abandoned request still does to Docker.
StoppedMeansStopped ==
    saved.status \in {"stopped", "destroyed"} =>
        box.state # "running" /\ execs = [d \in Drivers |-> 0] /\ ~acp

\* What the supervisor calls running runs the container of its generation,
\* if any, and no agent acts in it but the one that holds the lock.
OneAgentActs ==
    up /\ mem.status \in {"running", "executing"} =>
        /\ box.state = "running" => box.gen = mem.gen
        /\ execs["agent"] <= Awaited("agent")

\* While a human has control no agent acts: not one that passed its check
\* before the takeover, not an ACP session it left behind.
HumanActsAlone ==
    up /\ ctl.state = "user_controlled" /\ ctl.gen = mem.gen =>
        execs["agent"] = 0 /\ ~acp

-----------------------------------------------------------------------------
(* Steps                                                                   *)

\* No two lifecycle actions run Docker under one generation, across failed
\* writes, crashes and restarts.
GenerationsAreFresh ==
    [][op.kind = "none" /\ op'.kind \in Lifecycle => mem'.gen \notin used]_vars

-----------------------------------------------------------------------------
(* Liveness                                                                *)

\* A takeover that waits for the driver before it gets an answer.
TakeoverIsAnswered ==
    []<>(\A g \in Gen : [act |-> "request", gen |-> g, pc |-> "waiting"] \notin reqs)

-----------------------------------------------------------------------------
(* What the comments and the guide say and the code does not keep          *)

\* "Release waits for accepted writable RFB requests": no human input is at
\* work in a running computer whose control is being released.
ReleaseWaitsForInput ==
    [][/\ mem.status = "running"
       /\ ctl.state = "user_controlled" /\ ~ctl.lapsed
       /\ ctl'.state = "released"
       => execs["human"] = 0]_vars

\* "Release/expiry does not automatically resume the agent. Return control
\* explicitly": after a takeover agents of that generation wait for resume.
AgentWaitsForReturn ==
    [][op.kind = "none" /\ op'.kind = "agent" => held # mem.gen]_vars
=============================================================================
