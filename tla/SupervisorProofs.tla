-------------------------- MODULE SupervisorProofs --------------------------
(***************************************************************************)
(* The safety of the computer supervisor for every number of generations,  *)
(* faults, inputs and crashes.  The state predicates of Supervisor are not *)
(* inductive: what keeps them is which requests to Docker are still under  *)
(* way, and under which generations.  Generations order everything: a      *)
(* lifecycle action owns a generation that no older request carries.       *)
(***************************************************************************)
EXTENDS Supervisor, TLAPS

Executes(status) == status \in {"running", "executing"}
Creating == {"create", "start", "rebuild"}
Ending == {"stop", "destroy"}

\* What a request may be doing at all.
Plan(kind) ==
    CASE kind \in {"create", "start"} -> {"create", "boot", "done"}
      [] kind \in Ending -> {"halt", "remove", "done"}
      [] kind = "rebuild" -> {"halt", "remove", "create", "boot", "done"}
      [] kind \in {"observe", "takeover"} -> {"exec", "done"}
      [] OTHER -> {"exec", "wait", "done"}

\* A request holds the lock of a computer whose journal says what it does.
Journalled ==
    op # Idle =>
        /\ up
        /\ op.stage \in Plan(op.kind)
        /\ mem.gen = saved.gen
        /\ op.kind \in Lifecycle => /\ mem.gen > 0
                                    /\ mem.status = InProgress(op.kind)
                                    /\ saved.status = InProgress(op.kind)
        /\ op.kind \in Calls => Executes(mem.status)
        /\ op.kind = "takeover" => mem.status = "running"

\* Nothing is ahead of the journal, and memory is believed only with it.
Behind ==
    /\ saved.gen <= mem.gen
    /\ \A g \in used : g <= saved.gen
    /\ box.gen <= saved.gen
    /\ ctl.gen <= saved.gen
    /\ \A r \in reqs : r.gen <= saved.gen
    /\ Executes(mem.status) =>
          Executes(saved.status) /\ mem.gen = saved.gen /\ mem.gen > 0
    /\ ctl.state = "user_controlled" => ctl.gen > 0

\* Only a running container has anything that acts in it.
Inside ==
    box.state # "running" => (\A d \in Drivers : execs[d] = 0) /\ ~acp

\* Abandoned requests are older than the lifecycle action under way, an
\* abandoned removal is of an older container, and nothing is both created
\* and started behind the supervisor's back.
Abandoned ==
    /\ \A x \in {"remove", "create", "boot", "agent", "human"}, g \in Gen :
          <<x, g>> \in late =>
              /\ g <= saved.gen
              /\ x = "remove" => g < saved.gen
              /\ op.kind \in Lifecycle => g < mem.gen
    /\ \A g \in Gen : ~(<<"create", g>> \in late /\ <<"boot", g>> \in late)

\* An action that has not created its container finds an older one or none.
NotYetCreated ==
    op.kind \in Lifecycle /\ op.stage \in {"halt", "remove", "create"} =>
        box.gen < mem.gen

\* The container of this generation, with no agent in it.
Fresh ==
    op.kind \in Creating /\ op.stage \in {"boot", "done"} =>
        /\ box.state # "absent" /\ box.gen = mem.gen
        /\ execs["agent"] = 0

\* The container of this generation, with at most the agent that holds the
\* lock.
InUse ==
    up /\ Executes(mem.status) =>
        /\ box.state # "absent" /\ box.gen = mem.gen
        /\ execs["agent"] <= Awaited("agent")
        /\ <<"agent", mem.gen>> \notin late

\* A human took over a computer without agents, and none came in since.
TakenOver ==
    up /\ ctl.state = "user_controlled" /\ ctl.gen = mem.gen =>
        /\ box.state # "absent" /\ box.gen = mem.gen
        /\ execs["agent"] = 0 /\ ~acp
        /\ <<"agent", mem.gen>> \notin late
        /\ op.kind \notin Lifecycle \cup {"agent"}

Quiesced == op.kind = "takeover" /\ op.stage = "done" => ~acp

\* A stop was verified: the container that is left, if any, cannot be
\* started by a request that is still under way.
Verified ==
    \/ saved.status \in {"stopped", "destroyed"}
    \/ op.kind \in Ending /\ op.stage = "done"

Quiet ==
    Verified =>
        /\ box.state # "running"
        /\ box.state = "created" => <<"boot", box.gen>> \notin late

IInv ==
    /\ TypeOK /\ Journalled /\ Behind /\ Inside /\ Abandoned
    /\ NotYetCreated /\ Fresh /\ InUse /\ TakenOver /\ Quiesced /\ Quiet

-----------------------------------------------------------------------------
(* Types                                                                   *)

\* What the records of a step are made of.
LEMMA RecordTypes ==
    /\ \A s \in Status, g \in Gen : [status |-> s, gen |-> g] \in Computer
    /\ \A c \in Computer, s \in Status : [c EXCEPT !.status = s] \in Computer
    /\ \A k \in Lifecycle \cup Calls, s \in Stage :
          [kind |-> k, stage |-> s] \in Request
    /\ Idle \in Request
    /\ \A o \in Request, s \in Stage :
          o # Idle => [o EXCEPT !.stage = s] \in Request
    /\ \A o \in Request : o # Idle => o.kind \in Lifecycle \cup Calls
    /\ \A s \in ControlState, g \in Gen, l \in BOOLEAN :
          [state |-> s, gen |-> g, lapsed |-> l] \in Control
    /\ \A c \in Control, s \in ControlState : [c EXCEPT !.state = s] \in Control
    /\ \A c \in Control, l \in BOOLEAN : [c EXCEPT !.lapsed = l] \in Control
    /\ \A s \in {"absent", "created", "running", "exited"}, g \in Gen :
          [state |-> s, gen |-> g] \in Box
    /\ \A b \in Box, s \in {"absent", "created", "running", "exited"} :
          [b EXCEPT !.state = s] \in Box
  BY DEF Computer, Request, Control, Box, Idle, Calls, Lifecycle, Stage

\* What their fields are.
LEMMA FieldTypes ==
    /\ \A c \in Computer : c.status \in Status /\ c.gen \in Gen
    /\ \A o \in Request : o.stage \in Stage
    /\ \A r \in ControlRequest : r.gen \in Gen
    /\ \A r \in ControlRequest : [r EXCEPT !.pc = "waiting"] \in ControlRequest
    /\ \A b \in Box : b.gen \in Gen
  BY DEF Computer, Request, ControlRequest, Box, Idle, Stage

\* The control entry a request finds.
LEMMA EntryTypes ==
    ASSUME ctl \in Control
    PROVE  /\ \A g \in Gen : Unheld(g) \in Control /\ Entry(g) \in Control
           /\ Checked \in Control
           /\ \A g \in Gen : Entry(g).gen = g
           /\ \A g \in Gen : Entry(g).state = "user_controlled" =>
                 ctl.state = "user_controlled" /\ ctl.gen = g
           /\ Checked.gen = ctl.gen
           /\ Checked.state = "user_controlled" =>
                 ctl.state = "user_controlled"
<1>1. Settle(ctl) \in Control /\ Settle(ctl).gen = ctl.gen
  BY DEF Settle, Control, ControlState
<1>2. Settle(ctl).state = "user_controlled" => ctl.state = "user_controlled"
  BY DEF Settle, Control
<1>3. \A g \in Gen : /\ Unheld(g) \in Control
                     /\ Unheld(g).gen = g
                     /\ Unheld(g).state # "user_controlled"
  BY DEF Unheld, Control, ControlState
<1> QED
  BY <1>1, <1>2, <1>3 DEF Entry, Checked

\* What finish leaves in memory and in the journal.
LEMMA FinishTypes ==
    ASSUME TypeOK, NEW result \in {"ok", "error"}, NEW ok \in BOOLEAN,
           Finish(result, ok)
    PROVE  mem' \in Computer /\ saved' \in Computer /\ faults' \in Nat
<1> DEFINE new == [mem EXCEPT !.status = IF result = "ok" THEN Success(op.kind)
                                         ELSE "uncertain"]
           lost == [mem EXCEPT !.status = "uncertain"]
<1>1. new \in Computer /\ lost \in Computer
  BY RecordTypes DEF TypeOK, Success, Status
<1>2. /\ mem' \in {new, lost}
      /\ saved' \in {new, saved}
      /\ faults' = faults \/ faults' = faults + 1
  BY DEF Finish, Fault
<1> QED
  BY <1>1, <1>2 DEF TypeOK

\* Every step keeps the types.
LEMMA TypeStep == TypeOK /\ [Next]_vars => TypeOK'
<1> SUFFICES ASSUME TypeOK, [Next]_vars PROVE TypeOK'
  OBVIOUS
<1> USE ConstantsAssumption, RecordTypes, FieldTypes, EntryTypes
        DEF TypeOK, dockerVars, bounds
<1>1. CASE Begin
  <2>1. ASSUME NEW kind \in Lifecycle, NEW idle \in BOOLEAN,
               NEW ok \in BOOLEAN, BeginLifecycle(kind, idle, ok)
        PROVE  TypeOK'
    <3>1. mem' \in Computer
      <4>1. InProgress(kind) \in Status
        BY DEF InProgress, Status, Lifecycle
      <4>2. mem.gen + 1 \in Gen
        BY <2>1 DEF BeginLifecycle, Gen
      <4> QED
        BY <2>1, <4>1, <4>2 DEF BeginLifecycle
    <3>2. saved' \in Computer /\ faults' \in Nat
      BY <2>1, <3>1 DEF BeginLifecycle, Save, Fault
    <3>3. op' \in Request
      <4>1. First(kind) \in Stage
        BY DEF First, Stage
      <4> QED
        BY <2>1, <4>1 DEF BeginLifecycle, Began
    <3>4. used' \subseteq Gen
      BY <2>1 DEF BeginLifecycle, Began, Gen
    <3>5. ctl' \in Control
      BY <2>1 DEF BeginLifecycle
    <3> QED
      BY <2>1, <3>1, <3>2, <3>3, <3>4, <3>5 DEF BeginLifecycle
  <2>2. ASSUME NEW kind \in {"agent", "observe", "human"},
               NEW ok \in BOOLEAN, BeginCall(kind, ok)
        PROVE  TypeOK'
    <3>1. mem' \in Computer
      BY <2>2 DEF BeginCall, Status
    <3>2. saved' \in Computer /\ faults' \in Nat
      BY <2>2, <3>1 DEF BeginCall, Save, Fault
    <3>3. op' \in Request
      BY <2>2 DEF BeginCall, Calls, Stage
    <3> QED
      BY <2>2, <3>1, <3>2, <3>3 DEF BeginCall
  <2> QED
    BY <1>1, <2>1, <2>2 DEF Begin
<1>2. CASE BeginInput
  BY <1>2 DEF BeginInput, Calls, Stage
<1>3. CASE Controlling
  <2> USE DEF ControlState
  <2>1. ASSUME NEW act \in ControlActs, ReadControl(act) PROVE TypeOK'
    BY <2>1 DEF ReadControl, ControlRequest
  <2>2. ASSUME NEW r \in reqs, ReportControl(r) PROVE TypeOK'
    BY <2>2 DEF ReportControl
  <2>3. ASSUME NEW r \in reqs, Fence(r) PROVE TypeOK'
    <3>1. r.gen \in Gen /\ Entry(r.gen) \in Control
      OBVIOUS
    <3>2. ctl' \in Control
      BY <2>3, <3>1 DEF Fence
    <3>3. reqs' \subseteq ControlRequest
      BY <2>3 DEF Fence
    <3> QED
      BY <2>3, <3>2, <3>3 DEF Fence
  <2>4. ASSUME NEW r \in reqs, GiveUp(r) PROVE TypeOK'
    BY <2>4 DEF GiveUp
  <2>5. CASE Release
    BY <2>5 DEF Release
  <2>6. CASE Resume
    BY <2>6 DEF Resume, Gen
  <2>7. CASE Lapse
    BY <2>7 DEF Lapse
  <2> QED
    BY <1>3, <2>1, <2>2, <2>3, <2>4, <2>5, <2>6, <2>7 DEF Controlling
<1>4. ASSUME NEW r \in reqs, TakeLock(r) PROVE TypeOK'
  BY <1>4 DEF TakeLock, Calls, Stage
<1>5. CASE Docker
  <2>1. CASE Halt
    <3>1. op' \in Request
      BY <2>1 DEF Halt, At, Reached, Stage, Idle
    <3>2. box' \in Box
      BY <2>1 DEF Halt, Exited
    <3>3. execs' \in [Drivers -> Nat]
      BY <2>1 DEF Halt, Exited
    <3>4. acp' \in BOOLEAN
      BY <2>1 DEF Halt, Exited
    <3> QED
      BY <2>1, <3>1, <3>2, <3>3, <3>4 DEF Halt
  <2>2. CASE Remove
    <3>1. op' \in Request
      BY <2>2 DEF Remove, At, Reached, AfterRemove, Stage, Idle
    <3>2. box' \in Box
      BY <2>2 DEF Remove, NoBox, Gen
    <3> QED
      BY <2>2, <3>1, <3>2 DEF Remove
  <2>3. CASE CreateBox
    BY <2>3 DEF CreateBox, At, Reached, Stage, Idle
  <2>4. CASE Boot
    BY <2>4 DEF Boot, At, Reached, Stage, Idle
  <2>5. CASE Exec
    <3>1. op' \in Request
      BY <2>5, ZenonT(60) DEF Exec, At, Reached, Stage, Idle
    <3>2. execs' \in [Drivers -> Nat]
      <4>1. Driver(op.kind) \in Drivers
        BY DEF Driver, Drivers
      <4>2. \/ execs' = execs
            \/ execs' = [execs EXCEPT ![Driver(op.kind)] = @ + 1]
        BY <2>5 DEF Exec
      <4> QED
        BY <4>1, <4>2
    <3>3. acp' \in BOOLEAN
      BY <2>5 DEF Exec
    <3> QED
      BY <2>5, <3>1, <3>2, <3>3 DEF Exec
  <2>6. CASE ExecEnds
    <3>1. op' \in Request
      BY <2>6 DEF ExecEnds, At, Reached, Stage, Idle
    <3>2. execs' \in [Drivers -> Nat]
      BY <2>6 DEF ExecEnds, Driver, Drivers
    <3>3. acp' \in BOOLEAN
      BY <2>6 DEF ExecEnds
    <3> QED
      BY <2>6, <3>1, <3>2, <3>3 DEF ExecEnds
  <2> QED
    BY <1>5, <2>1, <2>2, <2>3, <2>4, <2>5, <2>6 DEF Docker
<1>6. CASE End
  <2>1. CASE Grant
    <3>1. ctl' \in Control
      <4>1. Entry(mem.gen) \in Control /\ "user_controlled" \in ControlState
        BY DEF ControlState
      <4> QED
        BY <2>1, <4>1 DEF Grant
    <3>2. op' \in Request /\ held' \in Gen
      BY <2>1 DEF Grant
    <3> QED
      BY <2>1, <3>1, <3>2 DEF Grant
  <2>2. CASE CompleteInput
    BY <2>2 DEF CompleteInput
  <2>3. ASSUME NEW ok \in BOOLEAN, Complete(ok) PROVE TypeOK'
    BY <2>3, FinishTypes DEF Complete
  <2>4. ASSUME NEW ok \in BOOLEAN, Fail(ok) PROVE TypeOK'
    BY <2>4, FinishTypes DEF Fail, Abandon
  <2> QED
    BY <1>6, <2>1, <2>2, <2>3, <2>4 DEF End
<1>7. ASSUME NEW ok \in BOOLEAN, TimeOut(ok) PROVE TypeOK'
  <2>1. InFlight \subseteq {"remove", "create", "boot", "agent", "human"} \X Gen
    BY DEF InFlight, Driver
  <2> QED
    BY <1>7, <2>1, FinishTypes DEF TimeOut, Abandon
<1>8. CASE Unwatched
  <2>1. ASSUME NEW g \in Gen, LateCreate(g) \/ LateBoot(g) \/ LateRemove(g)
        PROVE  TypeOK'
    BY <1>8, <2>1 DEF Unwatched, LateCreate, LateBoot, LateRemove, NoBox, Gen
  <2>2. ASSUME NEW g \in Gen, NEW d \in Drivers, LateExec(g, d)
        PROVE  TypeOK'
    BY <1>8, <2>2 DEF Unwatched, LateExec
  <2>3. ASSUME NEW d \in Drivers, ExecVanishes(d) PROVE TypeOK'
    BY <1>8, <2>3 DEF Unwatched, ExecVanishes, Awaited, Driver
  <2>4. CASE SessionEnds \/ BoxExits
    <3>1. box' \in Box
      BY <2>4 DEF SessionEnds, BoxExits, Exited
    <3>2. execs' \in [Drivers -> Nat]
      BY <2>4 DEF SessionEnds, BoxExits, Exited
    <3>3. acp' \in BOOLEAN
      BY <2>4 DEF SessionEnds, BoxExits, Exited
    <3> QED
      BY <1>8, <2>4, <3>1, <3>2, <3>3 DEF Unwatched, SessionEnds, BoxExits
  <2> QED
    BY <1>8, <2>1, <2>2, <2>3, <2>4 DEF Unwatched
<1>9. CASE Crash
  <2>1. InFlight \subseteq {"remove", "create", "boot", "agent", "human"} \X Gen
    BY DEF InFlight, Driver
  <2> QED
    <3>1. late' \subseteq {"remove", "create", "boot", "agent", "human"} \X Gen
      BY <1>9, <2>1 DEF Crash
    <3>2. op' \in Request /\ reqs' \subseteq ControlRequest
      BY <1>9 DEF Crash
    <3>3. crashes' \in Nat
      BY <1>9 DEF Crash
    <3>4. up' \in BOOLEAN
      BY <1>9 DEF Crash
    <3> QED
      BY <1>9, <3>1, <3>2, <3>3, <3>4 DEF Crash
<1>10. CASE Restart
  <2>1. mem' \in Computer
    BY <1>10 DEF Restart, Reopened, Status
  <2>2. ctl' \in Control
    <3>1. 0 \in Gen /\ 1 .. saved.gen \subseteq Gen
      BY DEF Gen
    <3>2. \A g \in Gen :
             [state |-> "released", gen |-> g, lapsed |-> FALSE] \in Control
      BY DEF ControlState
    <3> QED
      BY <1>10, <3>1, <3>2 DEF Restart, ReopenedControl
  <2> QED
    BY <1>10, <2>1, <2>2 DEF Restart
<1>11. CASE UNCHANGED vars
  BY <1>11 DEF vars
<1> QED
  BY <1>1, <1>2, <1>3, <1>4, <1>5, <1>6, <1>7, <1>8, <1>9, <1>10, <1>11
     DEF Next

\* The initial state has them.
LEMMA TypeInit == Init => TypeOK
<1> SUFFICES ASSUME Init PROVE TypeOK
  OBVIOUS
<1>1. 0 \in Gen
  BY ConstantsAssumption DEF Gen
<1>2. mem \in Computer /\ ctl \in Control /\ box \in Box /\ op \in Request
  BY <1>1, RecordTypes DEF Init, Unheld, NoBox, Status, ControlState
<1> QED
  BY <1>1, <1>2 DEF Init, TypeOK

\* The reachable states are well typed for every number of generations,
\* faults, inputs and crashes.
THEOREM TypeCorrect == Spec => []TypeOK
  BY TypeInit, TypeStep, PTL DEF Spec

-----------------------------------------------------------------------------
(* The invariant                                                           *)

\* Every step keeps the invariant.
LEMMA InvStep == IInv /\ [Next]_vars => IInv'
<1> SUFFICES ASSUME IInv, [Next]_vars PROVE IInv'
  OBVIOUS
<1>0. TypeOK /\ TypeOK'
  BY TypeStep DEF IInv
<1> USE <1>0, ConstantsAssumption, FieldTypes, EntryTypes
    DEF IInv, Journalled, Behind, Inside, Abandoned, NotYetCreated, Fresh,
        InUse, TakenOver, Quiesced, Quiet, Verified, Plan, Executes, Creating,
        Ending, Awaited, Driver, Drivers, Idle, Lifecycle, Calls, InProgress,
        TypeOK, Gen, Computer, Box, Control, Request, ControlRequest,
        dockerVars, bounds
<1>1. CASE Begin
  <2>1. ASSUME NEW kind \in Lifecycle, NEW idle \in BOOLEAN,
               NEW ok \in BOOLEAN, BeginLifecycle(kind, idle, ok)
        PROVE  IInv'
    <3> USE <2>1 DEF BeginLifecycle, Save, Fault, Began, First, Free, Known,
                     Admitted
    <3>1. Behind'
      <4>1. mem'.gen = mem.gen + 1 /\ saved'.gen \in {mem.gen, mem.gen + 1}
        OBVIOUS
      <4>2. \A g \in used' : g <= saved'.gen
        <5>1. CASE ok
          <6>1. used' = used \cup {mem.gen + 1} /\ saved'.gen = mem.gen + 1
            BY <5>1
          <6>2. \A g \in used : g <= mem.gen
            OBVIOUS
          <6> QED
            BY ONLY <6>1, <6>2, <1>0, FieldTypes DEF TypeOK, Gen
        <5>2. CASE ~ok
          BY <4>1, <5>2
        <5> QED
          BY <5>1, <5>2
      <4>3. ctl'.gen <= saved'.gen
        BY <4>1
      <4> QED
        BY <4>1, <4>2, <4>3
    <3>2. (Journalled /\ Inside /\ Abandoned /\ NotYetCreated /\ Fresh)'
      OBVIOUS
    <3>3. (InUse /\ TakenOver /\ Quiesced /\ Quiet)'
      OBVIOUS
    <3> QED
      BY <3>1, <3>2, <3>3
  <2>2. ASSUME NEW kind \in {"agent", "observe", "human"},
               NEW ok \in BOOLEAN, BeginCall(kind, ok)
        PROVE  IInv'
    <3> USE <2>2 DEF BeginCall, Save, Fault, Free, Known
    <3>1. InUse'
      OBVIOUS
    <3>2. TakenOver'
      BY DEF Allowed, Entry, Checked, Settle
    <3> QED
      BY <3>1, <3>2, SMTT(20)
  <2> QED
    BY ONLY <1>1, <2>1, <2>2 DEF Begin
<1>2. CASE BeginInput
  <2> USE <1>2 DEF BeginInput, Free, Known
  <2>1. TakenOver'
    BY DEF Checked, Settle
  <2> QED
    BY <2>1, ZenonT(60)
<1>3. CASE Controlling
  <2>1. ASSUME NEW act \in ControlActs, ReadControl(act) PROVE IInv'
    BY <2>1, SMTT(20) DEF ReadControl
  <2>2. ASSUME NEW r \in reqs, ReportControl(r) PROVE IInv'
    BY <2>2, SMTT(20) DEF ReportControl
  <2>3. ASSUME NEW r \in reqs, Fence(r) PROVE IInv'
    <3> USE <2>3 DEF Fence
    <3>1. Behind'
      <4>1. [r EXCEPT !.pc = "waiting"].gen = r.gen
        OBVIOUS
      <4>2. reqs' \subseteq reqs \cup {[r EXCEPT !.pc = "waiting"]}
        OBVIOUS
      <4>3. \A q \in reqs' : q.gen <= saved.gen
        BY ONLY <4>1, <4>2, Behind DEF Behind
      <4>4. /\ ctl'.gen <= saved.gen
            /\ ctl'.state = "user_controlled" => ctl'.gen > 0
        <5> DEFINE e == Entry(r.gen)
        <5>1. /\ e \in Control /\ e.gen = r.gen
              /\ e.state = "user_controlled" => ctl.gen = r.gen /\ ctl.gen > 0
          OBVIOUS
        <5>2. ctl' \in {e, [e EXCEPT !.state = "takeover_requested"]}
          OBVIOUS
        <5> HIDE DEF e
        <5> QED
          BY <5>1, <5>2
      <4> QED
        BY <4>3, <4>4
    <3> QED
      BY <3>1
  <2>4. ASSUME NEW r \in reqs, GiveUp(r) PROVE IInv'
    BY <2>4 DEF GiveUp
  <2>5. CASE Release
    <3> USE <2>5 DEF Release, Known
    <3>1. InUse'
      OBVIOUS
    <3> QED
      BY <3>1
  <2>6. CASE Resume
    <3> USE <2>6 DEF Resume, Known
    <3>1. Behind'
      BY DEF Unheld
    <3>2. TakenOver'
      BY DEF Unheld
    <3> QED
      BY <3>1, <3>2, ZenonT(60)
  <2>7. CASE Lapse
    BY <2>7 DEF Lapse
  <2> QED
    BY <1>3, <2>1, <2>2, <2>3, <2>4, <2>5, <2>6, <2>7 DEF Controlling
<1>4. ASSUME NEW r \in reqs, TakeLock(r) PROVE IInv'
  BY <1>4 DEF TakeLock
<1>5. CASE Docker
  <2> USE DEF At, Reached
  <2>1. CASE Halt
    <3> USE <2>1 DEF Halt, Exited
    <3>1. (Journalled /\ Behind /\ Inside /\ Abandoned)'
      BY SMTT(20)
    <3>2. (NotYetCreated /\ Fresh /\ InUse)'
      OBVIOUS
    <3>3. (TakenOver /\ Quiesced /\ Quiet)'
      OBVIOUS
    <3> QED
      BY <3>1, <3>2, <3>3
  <2>2. CASE Remove
    BY <2>2 DEF Remove, AfterRemove, NoBox
  <2>3. CASE CreateBox
    BY <2>3 DEF CreateBox
  <2>4. CASE Boot
    BY <2>4 DEF Boot
  <2>5. CASE Exec
    <3> USE <2>5 DEF Exec
    <3>1. box.state = "running" /\ box.gen = mem.gen /\ op.kind \in Calls
      OBVIOUS
    <3>2. acp' => acp
      <4>1. CASE op.kind \in {"observe", "takeover"}
        BY <4>1
      <4>2. CASE op.kind \notin {"observe", "takeover"}
        BY <4>2
      <4> QED
        BY <4>1, <4>2
    <3>3. op.kind = "takeover" => ~acp'
      OBVIOUS
    <3>4. CASE op.kind \in {"observe", "takeover"}
      <4>1. execs' = execs /\ op' = [op EXCEPT !.stage = "done"]
        BY <3>4
      <4>2. op'.kind = op.kind /\ op'.stage = "done" /\ op' # Idle
        BY <3>4, <4>1
      <4> QED
        BY <3>1, <3>2, <3>3, <3>4, <4>1, <4>2
    <3>5. CASE op.kind \notin {"observe", "takeover"}
      <4>1. /\ execs' = [execs EXCEPT ![Driver(op.kind)] = @ + 1]
            /\ op' = [op EXCEPT !.stage = "wait"]
        BY <3>5
      <4>2. op'.kind = op.kind /\ op'.stage = "wait" /\ op' # Idle
        BY <3>5, <4>1
      <4>3. execs'["agent"] = IF op.kind = "agent" THEN execs["agent"] + 1
                              ELSE execs["agent"]
        BY <3>1, <3>5, <4>1
      <4> QED
        BY <3>1, <3>2, <3>5, <4>1, <4>2, <4>3
    <3> QED
      BY <3>4, <3>5
  <2>6. CASE ExecEnds
    <3> USE <2>6 DEF ExecEnds
    <3>1. TakenOver'
      <4>1. op'.kind = op.kind
        OBVIOUS
      <4>2. op.kind # "agent" => acp' = acp /\ execs'["agent"] = execs["agent"]
        OBVIOUS
      <4> QED
        BY <4>1, <4>2
    <3> QED
      BY <3>1, SMTT(20)
  <2> QED
    BY <1>5, <2>1, <2>2, <2>3, <2>4, <2>5, <2>6 DEF Docker
<1>6. CASE End
  <2>1. CASE Grant
    BY <2>1, SMTT(20) DEF Grant
  <2>2. CASE CompleteInput
    BY <2>2 DEF CompleteInput, At
  <2>3. ASSUME NEW ok \in BOOLEAN, Complete(ok) PROVE IInv'
    <3> USE <2>3 DEF Complete, At, Finish, Success, Fault
    <3>1. InUse'
      <4>1. CASE op.kind \in Calls
        <5>1. op' = Idle /\ mem'.gen = mem.gen /\ Awaited("agent") = 0
          OBVIOUS
        <5>2. Executes(mem.status)
          BY <4>1
        <5> QED
          BY <5>1, <5>2
      <4>2. CASE op.kind \in Creating
        BY <4>2
      <4>3. CASE op.kind \in Ending
        BY <4>3
      <4> QED
        BY <4>1, <4>2, <4>3
    <3>2. TakenOver'
      <4>1. mem'.gen = mem.gen /\ op' = Idle
        OBVIOUS
      <4> QED
        BY ONLY <2>3, <4>1, TakenOver
           DEF Complete, TakenOver, Idle, Lifecycle, dockerVars
    <3> QED
      BY <3>1, <3>2, SMTT(20)
  <2>4. ASSUME NEW ok \in BOOLEAN, Fail(ok) PROVE IInv'
    <3> USE <2>4 DEF Fail, Abandon, Finish, Fault
    <3>0. mem'.gen = mem.gen
      OBVIOUS
    <3>1. InUse'
      BY <3>0 DEF Refused
    <3>2. TakenOver'
      BY <3>0
    <3> QED
      BY <3>1, <3>2, SMTT(20) DEF Refused
  <2> QED
    BY ONLY <1>6, <2>1, <2>2, <2>3, <2>4 DEF End
<1>7. ASSUME NEW ok \in BOOLEAN, TimeOut(ok) PROVE IInv'
  <2> USE <1>7 DEF TimeOut, Abandon, Finish, Fault, InFlight
  <2>0. mem'.gen = mem.gen
    OBVIOUS
  <2>1. Abandoned'
    <3>1. saved'.gen = saved.gen /\ op' = Idle
      OBVIOUS
    <3>2. CASE op.stage \in {"create", "boot"}
      <4>1. late' = late \cup {<<op.stage, mem.gen>>} /\ op.kind \in Lifecycle
        BY <3>2
      <4> QED
        BY <3>1, <3>2, <4>1
    <3>3. CASE op.stage = "remove"
      <4>1. late' = late \/ late' = late \cup {<<"remove", box.gen>>}
        BY <3>3
      <4>2. box.gen < saved.gen
        BY <3>3
      <4> QED
        BY <3>1, <4>1, <4>2
    <3>4. CASE op.stage \in {"halt", "wait", "exec"}
      <4>1. late' \subseteq late \cup
               {<<"agent", mem.gen>>, <<"human", mem.gen>>}
        BY <3>4
      <4> QED
        BY <3>1, <4>1
    <3> QED
      BY <3>2, <3>3, <3>4 DEF Stage
  <2>2. InUse'
    <3>1. CASE op.kind \in {"rfb", "takeover"}
      <4>1. mem' = mem /\ op' = Idle
        BY <3>1
      <4>2. <<"agent", mem.gen>> \in late' => <<"agent", mem.gen>> \in late
        BY <3>1
      <4> QED
        BY <3>1, <4>1, <4>2
    <3>2. CASE op.kind \notin {"rfb", "takeover"}
      <4>1. mem'.status = "uncertain"
        BY <3>2
      <4> QED
        BY <4>1
    <3> QED
      BY <3>1, <3>2
  <2>3. TakenOver'
    <3>1. op.kind # "agent" /\ <<"agent", mem.gen>> \in late' =>
            <<"agent", mem.gen>> \in late
      OBVIOUS
    <3>2. op' = Idle /\ UNCHANGED <<ctl, box, execs, acp, up>>
      OBVIOUS
    <3> QED
      BY ONLY <2>0, <3>1, <3>2, TakenOver DEF TakenOver, Idle, Lifecycle
  <2>4. (Journalled /\ NotYetCreated /\ Fresh /\ Quiesced)'
    OBVIOUS
  <2>5. Behind'
    <3>1. /\ saved'.gen = saved.gen /\ UNCHANGED <<used, box, ctl, reqs>>
          /\ mem'.status = "uncertain" \/ UNCHANGED <<mem, saved>>
      OBVIOUS
    <3> QED
      BY ONLY <2>0, <3>1, Behind DEF Behind, Executes
  <2>6. Inside'
    OBVIOUS
  <2>7. Quiet'
    <3>1. /\ op' = Idle /\ box' = box
          /\ saved'.status \in {saved.status, "uncertain"}
      OBVIOUS
    <3>2. Verified' => Verified /\ op.stage # "boot"
      BY <3>1
    <3>3. op.stage # "boot" /\ <<"boot", box.gen>> \in late' =>
            <<"boot", box.gen>> \in late
      OBVIOUS
    <3> QED
      BY ONLY <3>1, <3>2, <3>3, Quiet DEF Quiet
  <2> QED
    BY ONLY <1>0, <2>1, <2>2, <2>3, <2>4, <2>5, <2>6, <2>7
       DEF IInv
<1>8. CASE Unwatched
  <2> USE <1>8 DEF Unwatched
  <2>1. ASSUME NEW g \in Gen, LateCreate(g) PROVE IInv'
    BY <2>1, SMTT(20) DEF LateCreate
  <2>2. ASSUME NEW g \in Gen, LateBoot(g) PROVE IInv'
    BY <2>2 DEF LateBoot
  <2>3. ASSUME NEW g \in Gen, LateRemove(g) PROVE IInv'
    BY <2>3 DEF LateRemove, NoBox
  <2>4. ASSUME NEW g \in Gen, NEW d \in Drivers, LateExec(g, d) PROVE IInv'
    <3> USE <2>4 DEF LateExec
    <3>0. box.gen = g /\ late' \subseteq late
      OBVIOUS
    <3>1. InUse'
      BY <3>0
    <3>2. TakenOver'
      BY <3>0
    <3> QED
      BY <3>1, <3>2, SMTT(20)
  <2>5. ASSUME NEW d \in Drivers, ExecVanishes(d) PROVE IInv'
    BY <2>5 DEF ExecVanishes
  <2>6. CASE SessionEnds
    BY <2>6 DEF SessionEnds
  <2>7. CASE BoxExits
    BY <2>7 DEF BoxExits, Exited
  <2> QED
    BY ONLY <1>8, <2>1, <2>2, <2>3, <2>4, <2>5, <2>6, <2>7 DEF Unwatched
<1>9. CASE Crash
  <2> USE <1>9 DEF Crash, InFlight
  <2>1. (Journalled /\ Behind /\ Inside /\ NotYetCreated /\ Fresh)'
    OBVIOUS
  <2>2. (InUse /\ TakenOver /\ Quiesced)'
    OBVIOUS
  <2>3. Abandoned'
    <3>1. CASE op.stage \in {"create", "boot"}
      <4>1. late' = late \cup {<<op.stage, mem.gen>>} /\ op.kind \in Lifecycle
        BY <3>1
      <4> QED
        BY <3>1, <4>1
    <3>2. CASE op.stage = "remove"
      <4>1. late' = late \/ late' = late \cup {<<"remove", box.gen>>}
        BY <3>2
      <4>2. box.gen < saved.gen
        BY <3>2
      <4> QED
        BY <4>1, <4>2
    <3>3. CASE op.stage \in {"halt", "wait", "exec", "done"}
      <4>1. late' \subseteq late \cup
               {<<"agent", mem.gen>>, <<"human", mem.gen>>}
        BY <3>3
      <4>2. op # Idle => mem.gen = saved.gen
        OBVIOUS
      <4>3. op = Idle => late' = late
        OBVIOUS
      <4> QED
        BY <4>1, <4>2, <4>3, SMTT(20)
    <3> QED
      BY <3>1, <3>2, <3>3 DEF Stage
  <2>4. Quiet'
    <3>1. Verified' => Verified /\ op.stage # "boot"
      OBVIOUS
    <3>2. op.stage # "boot" /\ <<"boot", box.gen>> \in late' =>
            <<"boot", box.gen>> \in late
      OBVIOUS
    <3> QED
      BY ONLY <1>9, <3>1, <3>2, Quiet DEF Quiet, Crash
  <2> QED
    BY ONLY <1>0, <2>1, <2>2, <2>3, <2>4 DEF IInv
<1>10. CASE Restart
  <2> USE <1>10 DEF Restart, Reopened, ReopenedControl, Unheld
  <2>1. ctl'.state # "user_controlled"
    OBVIOUS
  <2>2. TakenOver'
    BY <2>1
  <2> QED
    BY <2>2
<1>11. CASE UNCHANGED vars
  BY <1>11 DEF vars
<1> QED
  BY <1>1, <1>2, <1>3, <1>4, <1>5, <1>6, <1>7, <1>8, <1>9, <1>10, <1>11
     DEF Next

\* The invariant holds from the start.
LEMMA InvInit == Init => IInv
<1> SUFFICES ASSUME Init PROVE IInv
  OBVIOUS
<1>1. TypeOK
  BY TypeInit
<1> QED
  BY <1>1 DEF Init, IInv, Journalled, Behind, Inside, Abandoned, NotYetCreated,
     Fresh, InUse, TakenOver, Quiesced, Quiet, Verified, Executes, Ending,
     Creating, Lifecycle, Calls, Idle, NoBox, Unheld, Drivers

\* ... and in every reachable state.
THEOREM Invariance == Spec => []IInv
  BY InvInit, InvStep, PTL DEF Spec

-----------------------------------------------------------------------------
(* What the supervisor promises                                            *)

\* A journal that says stopped or destroyed belongs to a container in which
\* nothing acts, whatever requests Docker was left with.
THEOREM VerifiedStop == Spec => []StoppedMeansStopped
<1>1. IInv => StoppedMeansStopped
  <2> SUFFICES ASSUME IInv, saved.status \in {"stopped", "destroyed"}
               PROVE  /\ box.state # "running"
                      /\ execs = [d \in Drivers |-> 0] /\ ~acp
    BY DEF StoppedMeansStopped
  <2>1. box.state # "running"
    BY DEF IInv, Quiet, Verified
  <2>2. (\A d \in Drivers : execs[d] = 0) /\ ~acp
    BY <2>1 DEF IInv, Inside
  <2> QED
    BY <2>1, <2>2 DEF IInv, TypeOK
<1> QED
  BY <1>1, Invariance, PTL

\* At most one agent, the one that holds the lock, acts in a running
\* computer, and only the container of its generation runs.
THEOREM OneAgent == Spec => []OneAgentActs
<1>1. IInv => OneAgentActs
  BY DEF IInv, InUse, OneAgentActs, Executes
<1> QED
  BY <1>1, Invariance, PTL

\* No agent and no ACP session acts while a human has control.
THEOREM HumanExclusion == Spec => []HumanActsAlone
<1>1. IInv => HumanActsAlone
  BY DEF IInv, TakenOver, HumanActsAlone
<1> QED
  BY <1>1, Invariance, PTL

\* A lifecycle action never runs Docker under a generation that ran before.
THEOREM FreshGenerations == Spec => GenerationsAreFresh
<1>1. ASSUME IInv, [Next]_vars, op.kind = "none", op'.kind \in Lifecycle
      PROVE  mem'.gen \notin used
  <2>1. PICK kind \in Lifecycle, idle \in BOOLEAN, ok \in BOOLEAN :
           BeginLifecycle(kind, idle, ok)
    <3> USE <1>1 DEF Lifecycle
    <3>1. \A r \in reqs : ~TakeLock(r)
      BY DEF TakeLock, Idle
    <3>2. ~Docker
      BY DEF Docker, Halt, Remove, CreateBox, Boot, Exec, ExecEnds, At,
             Reached, IInv, TypeOK, Request, Idle
    <3> QED
      BY <3>1, <3>2
         DEF Next, Begin, BeginCall, BeginInput, Controlling, ReadControl,
             ReportControl, Fence, GiveUp, Release, Resume, Lapse, End,
             Grant, CompleteInput, Complete, Fail, TimeOut, Abandon,
             Unwatched, Crash, Restart, Idle, vars
  <2>2. mem'.gen = mem.gen + 1
    BY <2>1 DEF BeginLifecycle
  <2>3. \A g \in used : g <= mem.gen
    BY <1>1, FieldTypes DEF IInv, Behind, TypeOK, Gen
  <2> QED
    BY <1>1, <2>2, <2>3, FieldTypes DEF IInv, TypeOK, Gen
<1> QED
  BY <1>1, Invariance, PTL DEF Spec, GenerationsAreFresh
=============================================================================
