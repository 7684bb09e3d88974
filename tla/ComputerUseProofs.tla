------------------------- MODULE ComputerUseProofs -------------------------
(***************************************************************************)
(* Theorems about ComputerUse for any turns and bounds.                    *)
(*                                                                         *)
(* The lease is not a lock: a turn loses it when it is over, and what it   *)
(* began goes on.  What keeps a second turn out is that whatever still     *)
(* acts has an operation that is open (ActsOpenly), so that among the      *)
(* turns that have bound the computer one at most goes on, has a call      *)
(* under way or acts (OneClaim).  A sweep that has chosen to stop the      *)
(* computer finds it as free as it was when it looked, because what could  *)
(* use it needs the lock (ChosenIsFree).                                   *)
(***************************************************************************)
EXTENDS ComputerUse, TLAPS, FiniteSetTheorems

\* A turn has bound the computer since it was accepted, under a generation.
BoundInTime == \A t \in Turns :
    /\ turn[t] = "none" <=> stages[t] = "none"
    /\ t \in bound => turn[t] # "none"
    /\ gen[t] # 0 \/ stages[t] = "bound" \/ acp[t] # "none" \/ OpenOperation(t) => t \in bound

\* A turn whose call or session is in the container, or was abandoned there.
Acts(t) == t \in left \/ computer.by = t \/ session = t

\* What acts in the container has an operation that is open: a call that is
\* under way, the session that was stored before its process was started, or
\* one nobody knows the end of.
ActsOpenly == \A t \in Turns :
    /\ acp[t] \in {"stored", "starting", "live"} => t \in sessionOp
    /\ t \in left => t \in unsure
    /\ computer.by = t => call[t] = "working" \/ t \in unsure
    /\ session = t => t \in sessionOp \/ t \in unsure
    /\ Acts(t) => t \in bound

\* Who still counts among the turns that have bound the computer.
Claims(t) == t \in bound /\ (turn[t] = "active" \/ call[t] # "none" \/ Acts(t))

OneClaim == \A t, u \in Turns : Claims(t) /\ Claims(u) => t = u

\* A turn looks at the computer and wakes it under the lock, and a desktop
\* that is open keeps the sweep from taking it.
Locked ==
    /\ \A t \in Turns : stages[t] \in {"reading", "waking", "woken"} => lock = t
    /\ lock = Sweeper => leases = 0

ChosenIsFree == lock = Sweeper /\ seen.status = "chosen" => ~InUse

Inv == UseTypeOK /\ BoundInTime /\ ActsOpenly /\ OneClaim /\ Locked /\ ChosenIsFree
-----------------------------------------------------------------------------
(* Types                                                                   *)

ComputerType == [status : {"running", "executing", "starting", "stopping", "stopped", "uncertain"},
                 gen : 1..MaxGen, by : Turns \cup {Nobody}]
IdleType == [gen : 0..MaxGen, elapsed : BOOLEAN]
SeenType == [status : {"none", "running", "executing", "starting", "stopping", "stopped",
                       "uncertain", "chosen"}, gen : 0..MaxGen]
StageType == [Turns -> {"none", "ready", "reading", "waking", "woken", "bound", "leaving",
                        "ended", "interrupted", "verified"}]

LEMMA InitTyped == ASSUME UseInit PROVE UseTypeOK
BY UseAssumption DEF UseInit, UseTypeOK, Unseen

\* Activity is recorded under a generation there was.
LEMMA ActivityTyped ==
    ASSUME UseTypeOK,
           UNCHANGED idle \/ RecordActivity(seen.gen) \/ RecordActivity(computer.gen)
           \/ (\E g \in 1..computer.gen : RecordActivity(g)) \/ Touched
    PROVE  idle' \in IdleType
<1>1. idle \in IdleType /\ seen.gen \in 0..MaxGen /\ computer.gen \in 1..MaxGen
  BY DEF UseTypeOK, IdleType
<1>2. 1..computer.gen \subseteq 0..MaxGen
  BY <1>1, UseAssumption
<1>3. ASSUME NEW g \in 0..MaxGen, RecordActivity(g) PROVE idle' \in IdleType
  BY <1>1, <1>3 DEF RecordActivity, IdleType
<1>4. Touched => idle' \in IdleType
  BY <1>1 DEF Touched, IdleType
<1> QED
  BY <1>1, <1>2, <1>3, <1>4, UseAssumption

LEMMA StepTyped == ASSUME UseTypeOK, [UseNext]_useVars PROVE UseTypeOK'
<1> USE UseAssumption DEF UseTypeOK, workers, operations, locking, box
<1>1. CASE Elapse
  BY <1>1 DEF Elapse
<1>2. CASE PersonActs
  BY <1>2 DEF PersonActs, Begin, MayBegin
<1>3. CASE LifecycleEnds
  <2>1. PICK done \in BOOLEAN :
           /\ computer' = [computer EXCEPT !.status = IF ~done THEN "uncertain"
                                                     ELSE IF @ = "starting" THEN "running"
                                                     ELSE "stopped"]
           /\ IF done /\ computer.status = "stopping"
              THEN left' = {} /\ session' = Nobody ELSE UNCHANGED <<left, session>>
    BY <1>3 DEF LifecycleEnds
  <2>2. computer' \in ComputerType
    BY <2>1 DEF ComputerType
  <2>3. idle' \in IdleType
    BY <1>3, ActivityTyped DEF LifecycleEnds
  <2>4. seen' \in SeenType
    BY <1>3, <2>2 DEF LifecycleEnds, ComputerType, SeenType
  <2>5. stages' \in StageType
    BY <1>3 DEF LifecycleEnds, StageType
  <2> QED
    BY <1>3, <2>1, <2>2, <2>3, <2>4, <2>5
       DEF LifecycleEnds, ComputerType, IdleType, SeenType, StageType
<1>4. CASE LeftoverEnds
  BY <1>4 DEF LeftoverEnds
<1>5. CASE ExecEnds
  <2>1. PICK done \in BOOLEAN, t \in Turns :
           /\ t = computer.by
           /\ computer' = [computer EXCEPT !.status = IF done THEN "running" ELSE "uncertain",
                                           !.by = Nobody]
           /\ left' = IF done THEN left ELSE left \cup {t}
           /\ IF call[t] = "working"
              THEN /\ call' = [call EXCEPT ![t] = "none"]
                   /\ unsure' = IF done THEN unsure ELSE unsure \cup {t}
                   /\ IF done
                      THEN acp' = [acp EXCEPT ![t] = IF @ = "starting" THEN "live" ELSE @]
                      ELSE Unstarted(t)
                   /\ Touched
              ELSE UNCHANGED <<call, unsure, acp, idle>>
    BY <1>5 DEF ExecEnds
  <2>2. computer' \in ComputerType
    BY <2>1 DEF ComputerType
  <2>3. idle' \in IdleType
    BY <2>1, ActivityTyped
  <2>4. acp' \in [Turns -> {"none", "granted", "stored", "starting", "live", "stopping"}]
    <3>1. \/ acp' = acp
          \/ acp' = [acp EXCEPT ![t] = IF acp[t] = "starting" THEN "live" ELSE acp[t]]
          \/ acp' = [acp EXCEPT ![t] = IF acp[t] = "starting" THEN "stopping" ELSE acp[t]]
      BY <2>1 DEF Unstarted
    <3> QED
      BY <3>1
  <2>5. call' \in [Turns -> {"none", "sent", "working"}]
    BY <2>1
  <2> QED
    BY <1>5, <2>1, <2>2, <2>3, <2>4, <2>5 DEF ExecEnds, ComputerType, IdleType
<1>6. CASE OpenDesktop
  BY <1>6 DEF OpenDesktop
<1>7. CASE CloseDesktop
  <2>1. idle' \in IdleType
    BY <1>7, ActivityTyped DEF CloseDesktop
  <2> QED
    BY <1>7, <2>1 DEF CloseDesktop, IdleType
<1>8. CASE Sweep
  BY <1>8 DEF Sweep
<1>9. CASE Notice
  BY <1>9 DEF Notice, RecordActivity, Unlocked, Unseen
<1>10. CASE Choose
  BY <1>10 DEF Choose, Unlocked, Unseen
<1>11. CASE StopIdle
  BY <1>11 DEF StopIdle, Unlocked, Unseen, Begin, MayBegin
<1>12. CASE Swept
  BY <1>12 DEF Swept, Unlocked, Unseen
<1>13. CASE Restart
  <2>1. turn' \in [Turns -> {"none", "active", "over"}] /\ stages' \in StageType
    BY <1>13 DEF Restart, StageType
  <2>2. idle' \in IdleType
    BY <1>13, ActivityTyped DEF Restart
  <2> QED
    BY <1>13, <2>1, <2>2 DEF Restart, Unlocked, Unseen, IdleType, StageType
<1>14. ASSUME NEW t \in Turns, Accept(t) PROVE UseTypeOK'
  BY <1>14 DEF Accept
<1>15. ASSUME NEW t \in Turns, Cancel(t) PROVE UseTypeOK'
  BY <1>15 DEF Cancel
<1>16. ASSUME NEW t \in Turns, Leave(t) PROVE UseTypeOK'
  BY <1>16 DEF Leave, Unlocked, Unseen
<1>17. ASSUME NEW t \in Turns, CloseTurn(t) PROVE UseTypeOK'
  BY <1>17 DEF CloseTurn
<1>18. ASSUME NEW t \in Turns, Continue(t) PROVE UseTypeOK'
  BY <1>18 DEF Continue
<1>19. ASSUME NEW t \in Turns, FinishJob(t) PROVE UseTypeOK'
  <2>1. stages' \in StageType
    BY <1>19 DEF FinishJob, StageType
  <2> QED
    BY <1>19, <2>1 DEF FinishJob, StageType
<1>20. ASSUME NEW t \in Turns, AcknowledgeStopped(t) PROVE UseTypeOK'
  <2>1. idle' \in IdleType
    BY <1>20, ActivityTyped DEF AcknowledgeStopped
  <2> QED
    BY <1>20, <2>1 DEF AcknowledgeStopped, IdleType
<1>21. ASSUME NEW t \in Turns, Resolve(t) PROVE UseTypeOK'
  BY <1>21 DEF Resolve
<1>22. ASSUME NEW t \in Turns, Wake(t) PROVE UseTypeOK'
  BY <1>22 DEF Wake, Unlocked, Unseen, Begin, MayBegin, Refuse
<1>23. ASSUME NEW t \in Turns, Bind(t) PROVE UseTypeOK'
  <2>1. idle' \in IdleType
    BY <1>23, ActivityTyped DEF Bind
  <2>2. stages' \in StageType /\ gen' \in [Turns -> 0..MaxGen] /\ bound' \subseteq Turns
    BY <1>23 DEF Bind, Refuse, StageType
  <2> QED
    BY <1>23, <2>1, <2>2 DEF Bind, Unlocked, Unseen, Refuse, IdleType, StageType
<1>24. ASSUME NEW t \in Turns, Admit(t) PROVE UseTypeOK'
  <2>1. idle' \in IdleType
    BY <1>24, ActivityTyped DEF Admit
  <2>2. call' \in [Turns -> {"none", "sent", "working"}]
    BY <1>24 DEF Admit
  <2>3. acp' \in [Turns -> {"none", "granted", "stored", "starting", "live", "stopping"}]
    BY <1>24 DEF Admit
  <2> QED
    BY <1>24, <2>1, <2>2, <2>3 DEF Admit, IdleType
<1>25. ASSUME NEW t \in Turns, Refused(t) PROVE UseTypeOK'
  <2>1. idle' \in IdleType
    BY <1>25, ActivityTyped DEF Refused
  <2>2. call' \in [Turns -> {"none", "sent", "working"}]
    BY <1>25 DEF Refused
  <2>3. acp' \in [Turns -> {"none", "granted", "stored", "starting", "live", "stopping"}]
    BY <1>25 DEF Refused, Unstarted
  <2> QED
    BY <1>25, <2>1, <2>2, <2>3 DEF Refused, IdleType
<1>26. ASSUME NEW t \in Turns, Execute(t) PROVE UseTypeOK'
  <2>1. computer' \in ComputerType
    BY <1>26 DEF Execute, ComputerType
  <2>2. call' \in [Turns -> {"none", "sent", "working"}]
    BY <1>26 DEF Execute
  <2> QED
    BY <1>26, <2>1, <2>2 DEF Execute, ComputerType
<1>27. ASSUME NEW t \in Turns, LoseAnswer(t) PROVE UseTypeOK'
  <2>1. idle' \in IdleType
    BY <1>27, ActivityTyped DEF LoseAnswer
  <2>2. call' \in [Turns -> {"none", "sent", "working"}]
    BY <1>27 DEF LoseAnswer
  <2>3. acp' \in [Turns -> {"none", "granted", "stored", "starting", "live", "stopping"}]
    BY <1>27 DEF LoseAnswer, Unstarted
  <2> QED
    BY <1>27, <2>1, <2>2, <2>3 DEF LoseAnswer, IdleType
<1>28. ASSUME NEW t \in Turns, StartAcp(t) PROVE UseTypeOK'
  BY <1>28 DEF StartAcp, Acp
<1>29. ASSUME NEW t \in Turns, StoreSession(t) PROVE UseTypeOK'
  <2>1. idle' \in IdleType
    BY <1>29, ActivityTyped DEF StoreSession
  <2> QED
    BY <1>29, <2>1 DEF StoreSession, Acp, IdleType
<1>30. ASSUME NEW t \in Turns, LeaveSession(t) PROVE UseTypeOK'
  BY <1>30 DEF LeaveSession, Acp
<1>31. ASSUME NEW t \in Turns, StopDriver(t) PROVE UseTypeOK'
  <2>1. idle' \in IdleType
    BY <1>31, ActivityTyped DEF StopDriver
  <2>2. computer' \in ComputerType
    BY <1>31 DEF StopDriver, ComputerType
  <2>3. acp' \in [Turns -> {"none", "granted", "stored", "starting", "live", "stopping"}]
    BY <1>31 DEF StopDriver, Acp
  <2> QED
    BY <1>31, <2>1, <2>2, <2>3 DEF StopDriver, ComputerType, IdleType
<1>32. CASE UNCHANGED useVars
  BY <1>32 DEF useVars, workers, operations, locking, box
<1> QED
  BY <1>1, <1>2, <1>3, <1>4, <1>5, <1>6, <1>7, <1>8, <1>9, <1>10,
     <1>11, <1>12, <1>13, <1>14, <1>15, <1>16, <1>17, <1>18, <1>19, <1>20,
     <1>21, <1>22, <1>23, <1>24, <1>25, <1>26, <1>27, <1>28, <1>29, <1>30,
     <1>31, <1>32 DEF UseNext, Sweeping

-----------------------------------------------------------------------------
(* The invariant                                                           *)

LEMMA StepLocked ==
    ASSUME UseTypeOK, UseTypeOK', Locked, [UseNext]_useVars PROVE Locked'
<1> USE UseAssumption DEF UseTypeOK, Locked, Nobody, Sweeper, workers, operations, locking, box
<1>1. CASE Elapse
  BY <1>1 DEF Elapse
<1>2. CASE PersonActs
  BY <1>2 DEF PersonActs
<1>3. CASE LifecycleEnds
  BY <1>3 DEF LifecycleEnds
<1>4. CASE LeftoverEnds
  BY <1>4 DEF LeftoverEnds
<1>5. CASE ExecEnds
  BY <1>5 DEF ExecEnds
<1>6. CASE OpenDesktop
  BY <1>6 DEF OpenDesktop, LockFree
<1>7. CASE CloseDesktop
  BY <1>7 DEF CloseDesktop
<1>8. CASE Sweep
  BY <1>8 DEF Sweep
<1>9. CASE Notice
  BY <1>9 DEF Notice, Unlocked, Unseen
<1>10. CASE Choose
  BY <1>10 DEF Choose, Unlocked, Unseen
<1>11. CASE StopIdle
  BY <1>11 DEF StopIdle, Unlocked, Unseen
<1>12. CASE Swept
  BY <1>12 DEF Swept, Unlocked, Unseen
<1>13. CASE Restart
  BY <1>13 DEF Restart, Unlocked, Unseen
<1>14. ASSUME NEW t \in Turns, Accept(t) PROVE Locked'
  BY <1>14 DEF Accept
<1>15. ASSUME NEW t \in Turns, Cancel(t) PROVE Locked'
  BY <1>15 DEF Cancel
<1>16. ASSUME NEW t \in Turns, Leave(t) PROVE Locked'
  <2>1. lock' = lock \/ (lock = t /\ lock' = Nobody)
    BY <1>16 DEF Leave, Unlocked
  <2>2. \A u \in Turns : stages'[u] \in {"reading", "waking", "woken"} =>
                            u # t /\ lock = u
    BY <1>16 DEF Leave
  <2> QED
    BY <1>16, <2>1, <2>2 DEF Leave
<1>17. ASSUME NEW t \in Turns, CloseTurn(t) PROVE Locked'
  BY <1>17 DEF CloseTurn
<1>18. ASSUME NEW t \in Turns, Continue(t) PROVE Locked'
  BY <1>18 DEF Continue
<1>19. ASSUME NEW t \in Turns, FinishJob(t) PROVE Locked'
  BY <1>19 DEF FinishJob
<1>20. ASSUME NEW t \in Turns, AcknowledgeStopped(t) PROVE Locked'
  BY <1>20 DEF AcknowledgeStopped
<1>21. ASSUME NEW t \in Turns, Resolve(t) PROVE Locked'
  BY <1>21 DEF Resolve
<1>22. ASSUME NEW t \in Turns, Wake(t) PROVE Locked'
  <2>1. lock = t /\ UNCHANGED leases
    BY <1>22 DEF Wake
  <2>2. lock' = lock \/ (lock' = Nobody /\ stages'[t] = "ready")
    BY <1>22 DEF Wake, Refuse, Unlocked
  <2>3. \A u \in Turns \ {t} : stages'[u] = stages[u]
    BY <1>22 DEF Wake, Refuse
  <2> QED
    BY <2>1, <2>2, <2>3
<1>23. ASSUME NEW t \in Turns, Bind(t) PROVE Locked'
  <2>1. lock = t /\ UNCHANGED leases
    BY <1>23 DEF Bind
  <2>2. lock' = Nobody /\ stages'[t] \in {"ready", "bound"}
    BY <1>23 DEF Bind, Refuse, Unlocked
  <2>3. \A u \in Turns \ {t} : stages'[u] = stages[u]
    BY <1>23 DEF Bind, Refuse
  <2> QED
    BY <2>1, <2>2, <2>3
<1>24. ASSUME NEW t \in Turns, Admit(t) PROVE Locked'
  BY <1>24 DEF Admit
<1>25. ASSUME NEW t \in Turns, Refused(t) PROVE Locked'
  BY <1>25 DEF Refused
<1>26. ASSUME NEW t \in Turns, Execute(t) PROVE Locked'
  BY <1>26 DEF Execute
<1>27. ASSUME NEW t \in Turns, LoseAnswer(t) PROVE Locked'
  BY <1>27 DEF LoseAnswer
<1>28. ASSUME NEW t \in Turns, StartAcp(t) PROVE Locked'
  BY <1>28 DEF StartAcp, Acp
<1>29. ASSUME NEW t \in Turns, StoreSession(t) PROVE Locked'
  BY <1>29 DEF StoreSession, Acp
<1>30. ASSUME NEW t \in Turns, LeaveSession(t) PROVE Locked'
  BY <1>30 DEF LeaveSession, Acp
<1>31. ASSUME NEW t \in Turns, StopDriver(t) PROVE Locked'
  BY <1>31 DEF StopDriver, Acp
<1>32. CASE UNCHANGED useVars
  BY <1>32 DEF useVars, workers, operations, locking, box
<1> QED
  BY <1>1, <1>2, <1>3, <1>4, <1>5, <1>6, <1>7, <1>8, <1>9, <1>10,
     <1>11, <1>12, <1>13, <1>14, <1>15, <1>16, <1>17, <1>18, <1>19, <1>20,
     <1>21, <1>22, <1>23, <1>24, <1>25, <1>26, <1>27, <1>28, <1>29, <1>30,
     <1>31, <1>32 DEF UseNext, Sweeping

LEMMA StepBound ==
    ASSUME UseTypeOK, UseTypeOK', BoundInTime, [UseNext]_useVars PROVE BoundInTime'
<1> USE DEF UseTypeOK, BoundInTime, OpenOperation, workers, operations, locking, box
<1>1. CASE Elapse
  BY <1>1 DEF Elapse
<1>2. CASE PersonActs
  BY <1>2 DEF PersonActs
<1>3. CASE LifecycleEnds
  BY <1>3 DEF LifecycleEnds
<1>4. CASE LeftoverEnds
  BY <1>4 DEF LeftoverEnds
<1>5. CASE ExecEnds
  BY <1>5 DEF ExecEnds, Unstarted
<1>6. CASE OpenDesktop
  BY <1>6 DEF OpenDesktop
<1>7. CASE CloseDesktop
  BY <1>7 DEF CloseDesktop
<1>8. CASE Sweep
  BY <1>8 DEF Sweep
<1>9. CASE Notice
  BY <1>9 DEF Notice
<1>10. CASE Choose
  BY <1>10 DEF Choose
<1>11. CASE StopIdle
  BY <1>11 DEF StopIdle
<1>12. CASE Swept
  BY <1>12 DEF Swept
<1>13. CASE Restart
  BY <1>13 DEF Restart
<1>14. ASSUME NEW t \in Turns, Accept(t) PROVE BoundInTime'
  BY <1>14 DEF Accept
<1>15. ASSUME NEW t \in Turns, Cancel(t) PROVE BoundInTime'
  BY <1>15 DEF Cancel
<1>16. ASSUME NEW t \in Turns, Leave(t) PROVE BoundInTime'
  BY <1>16 DEF Leave
<1>17. ASSUME NEW t \in Turns, CloseTurn(t) PROVE BoundInTime'
  BY <1>17 DEF CloseTurn
<1>18. ASSUME NEW t \in Turns, Continue(t) PROVE BoundInTime'
  BY <1>18 DEF Continue
<1>19. ASSUME NEW t \in Turns, FinishJob(t) PROVE BoundInTime'
  BY <1>19 DEF FinishJob
<1>20. ASSUME NEW t \in Turns, AcknowledgeStopped(t) PROVE BoundInTime'
  BY <1>20 DEF AcknowledgeStopped
<1>21. ASSUME NEW t \in Turns, Resolve(t) PROVE BoundInTime'
  BY <1>21 DEF Resolve
<1>22. ASSUME NEW t \in Turns, Wake(t) PROVE BoundInTime'
  BY <1>22 DEF Wake, Refuse
<1>23. ASSUME NEW t \in Turns, Bind(t) PROVE BoundInTime'
  BY <1>23 DEF Bind, Refuse
<1>24. ASSUME NEW t \in Turns, Admit(t) PROVE BoundInTime'
  BY <1>24 DEF Admit
<1>25. ASSUME NEW t \in Turns, Refused(t) PROVE BoundInTime'
  BY <1>25 DEF Refused, Unstarted
<1>26. ASSUME NEW t \in Turns, Execute(t) PROVE BoundInTime'
  BY <1>26 DEF Execute
<1>27. ASSUME NEW t \in Turns, LoseAnswer(t) PROVE BoundInTime'
  BY <1>27 DEF LoseAnswer, Unstarted
<1>28. ASSUME NEW t \in Turns, StartAcp(t) PROVE BoundInTime'
  BY <1>28 DEF StartAcp, Acp
<1>29. ASSUME NEW t \in Turns, StoreSession(t) PROVE BoundInTime'
  BY <1>29 DEF StoreSession, Acp
<1>30. ASSUME NEW t \in Turns, LeaveSession(t) PROVE BoundInTime'
  BY <1>30 DEF LeaveSession, Acp
<1>31. ASSUME NEW t \in Turns, StopDriver(t) PROVE BoundInTime'
  BY <1>31 DEF StopDriver, Acp
<1>32. CASE UNCHANGED useVars
  BY <1>32 DEF useVars, workers, operations, locking, box
<1> QED
  BY <1>1, <1>2, <1>3, <1>4, <1>5, <1>6, <1>7, <1>8, <1>9, <1>10,
     <1>11, <1>12, <1>13, <1>14, <1>15, <1>16, <1>17, <1>18, <1>19, <1>20,
     <1>21, <1>22, <1>23, <1>24, <1>25, <1>26, <1>27, <1>28, <1>29, <1>30,
     <1>31, <1>32 DEF UseNext, Sweeping

LEMMA StepActs ==
    ASSUME UseTypeOK, UseTypeOK', BoundInTime, ActsOpenly, [UseNext]_useVars PROVE ActsOpenly'
<1> USE UseAssumption DEF UseTypeOK, ActsOpenly, Acts, workers, operations, locking, box
<1>1. CASE Elapse
  BY <1>1 DEF Elapse
<1>2. CASE PersonActs
  BY <1>2 DEF PersonActs, Begin
<1>3. CASE LifecycleEnds
  BY <1>3 DEF LifecycleEnds
<1>4. CASE LeftoverEnds
  BY <1>4 DEF LeftoverEnds
<1>5. CASE ExecEnds
  BY <1>5 DEF ExecEnds, Unstarted
<1>6. CASE OpenDesktop
  BY <1>6 DEF OpenDesktop
<1>7. CASE CloseDesktop
  BY <1>7 DEF CloseDesktop
<1>8. CASE Sweep
  BY <1>8 DEF Sweep
<1>9. CASE Notice
  BY <1>9 DEF Notice
<1>10. CASE Choose
  BY <1>10 DEF Choose
<1>11. CASE StopIdle
  BY <1>11 DEF StopIdle, Begin
<1>12. CASE Swept
  BY <1>12 DEF Swept
<1>13. CASE Restart
  <2>1. \A t \in Turns : acp'[t] = "none" /\ (t \in unsure' <=> OpenOperation(t))
    BY <1>13 DEF Restart
  <2>2. UNCHANGED <<left, computer, session, bound>>
    BY <1>13 DEF Restart
  <2> QED
    BY <2>1, <2>2 DEF OpenOperation
<1>14. ASSUME NEW t \in Turns, Accept(t) PROVE ActsOpenly'
  BY <1>14 DEF Accept
<1>15. ASSUME NEW t \in Turns, Cancel(t) PROVE ActsOpenly'
  BY <1>15 DEF Cancel
<1>16. ASSUME NEW t \in Turns, Leave(t) PROVE ActsOpenly'
  BY <1>16 DEF Leave
<1>17. ASSUME NEW t \in Turns, CloseTurn(t) PROVE ActsOpenly'
  BY <1>17 DEF CloseTurn
<1>18. ASSUME NEW t \in Turns, Continue(t) PROVE ActsOpenly'
  BY <1>18 DEF Continue
<1>19. ASSUME NEW t \in Turns, FinishJob(t) PROVE ActsOpenly'
  BY <1>19 DEF FinishJob
<1>20. ASSUME NEW t \in Turns, AcknowledgeStopped(t) PROVE ActsOpenly'
  <2>1. ~Acts(t)
    BY <1>20 DEF AcknowledgeStopped, Acting
  <2> QED
    BY <1>20, <2>1 DEF AcknowledgeStopped
<1>21. ASSUME NEW t \in Turns, Resolve(t) PROVE ActsOpenly'
  BY <1>21 DEF Resolve
<1>22. ASSUME NEW t \in Turns, Wake(t) PROVE ActsOpenly'
  BY <1>22 DEF Wake, Begin, Refuse
<1>23. ASSUME NEW t \in Turns, Bind(t) PROVE ActsOpenly'
  BY <1>23 DEF Bind, Refuse
<1>24. ASSUME NEW t \in Turns, Admit(t) PROVE ActsOpenly'
  BY <1>24 DEF Admit
<1>25. ASSUME NEW t \in Turns, Refused(t) PROVE ActsOpenly'
  BY <1>25 DEF Refused, Unstarted
<1>26. ASSUME NEW t \in Turns, Execute(t) PROVE ActsOpenly'
  <2>1. t \in bound
    BY <1>26 DEF Execute, BoundInTime, OpenOperation
  <2> QED
    BY <1>26, <2>1 DEF Execute
<1>27. ASSUME NEW t \in Turns, LoseAnswer(t) PROVE ActsOpenly'
  BY <1>27 DEF LoseAnswer, Unstarted
<1>28. ASSUME NEW t \in Turns, StartAcp(t) PROVE ActsOpenly'
  BY <1>28 DEF StartAcp, Acp
<1>29. ASSUME NEW t \in Turns, StoreSession(t) PROVE ActsOpenly'
  BY <1>29 DEF StoreSession, Acp
<1>30. ASSUME NEW t \in Turns, LeaveSession(t) PROVE ActsOpenly'
  BY <1>30 DEF LeaveSession, Acp
<1>31. ASSUME NEW t \in Turns, StopDriver(t) PROVE ActsOpenly'
  BY <1>31 DEF StopDriver, Acp
<1>32. CASE UNCHANGED useVars
  BY <1>32 DEF useVars, workers, operations, locking, box
<1> QED
  BY <1>1, <1>2, <1>3, <1>4, <1>5, <1>6, <1>7, <1>8, <1>9, <1>10,
     <1>11, <1>12, <1>13, <1>14, <1>15, <1>16, <1>17, <1>18, <1>19, <1>20,
     <1>21, <1>22, <1>23, <1>24, <1>25, <1>26, <1>27, <1>28, <1>29, <1>30,
     <1>31, <1>32 DEF UseNext, Sweeping

LEMMA StepClaims ==
    ASSUME UseTypeOK, UseTypeOK', BoundInTime, ActsOpenly, OneClaim, [UseNext]_useVars
    PROVE  \A t \in Turns : Claims(t)' => Claims(t) \/ Bind(t)
<1> USE UseAssumption DEF UseTypeOK, Claims, Acts, workers, operations, locking, box
<1>1. CASE Elapse
  BY <1>1 DEF Elapse
<1>2. CASE PersonActs
  BY <1>2 DEF PersonActs, Begin
<1>3. CASE LifecycleEnds
  BY <1>3 DEF LifecycleEnds
<1>4. CASE LeftoverEnds
  BY <1>4 DEF LeftoverEnds
<1>5. CASE ExecEnds
  BY <1>5 DEF ExecEnds
<1>6. CASE OpenDesktop
  BY <1>6 DEF OpenDesktop
<1>7. CASE CloseDesktop
  BY <1>7 DEF CloseDesktop
<1>8. CASE Sweep
  BY <1>8 DEF Sweep
<1>9. CASE Notice
  BY <1>9 DEF Notice
<1>10. CASE Choose
  BY <1>10 DEF Choose
<1>11. CASE StopIdle
  BY <1>11 DEF StopIdle, Begin
<1>12. CASE Swept
  BY <1>12 DEF Swept
<1>13. CASE Restart
  BY <1>13 DEF Restart
<1>14. ASSUME NEW t \in Turns, Accept(t) PROVE \A u \in Turns : Claims(u)' => Claims(u) \/ Bind(u)
  <2>1. t \notin bound
    BY <1>14 DEF Accept, BoundInTime
  <2> QED
    BY <1>14, <2>1 DEF Accept
<1>15. ASSUME NEW t \in Turns, Cancel(t) PROVE \A u \in Turns : Claims(u)' => Claims(u) \/ Bind(u)
  BY <1>15 DEF Cancel
<1>16. ASSUME NEW t \in Turns, Leave(t) PROVE \A u \in Turns : Claims(u)' => Claims(u) \/ Bind(u)
  BY <1>16 DEF Leave
<1>17. ASSUME NEW t \in Turns, CloseTurn(t) PROVE \A u \in Turns : Claims(u)' => Claims(u) \/ Bind(u)
  BY <1>17 DEF CloseTurn
<1>18. ASSUME NEW t \in Turns, Continue(t) PROVE \A u \in Turns : Claims(u)' => Claims(u) \/ Bind(u)
  BY <1>18 DEF Continue
<1>19. ASSUME NEW t \in Turns, FinishJob(t) PROVE \A u \in Turns : Claims(u)' => Claims(u) \/ Bind(u)
  BY <1>19 DEF FinishJob
<1>20. ASSUME NEW t \in Turns, AcknowledgeStopped(t) PROVE \A u \in Turns : Claims(u)' => Claims(u) \/ Bind(u)
  BY <1>20 DEF AcknowledgeStopped
<1>21. ASSUME NEW t \in Turns, Resolve(t) PROVE \A u \in Turns : Claims(u)' => Claims(u) \/ Bind(u)
  BY <1>21 DEF Resolve
<1>22. ASSUME NEW t \in Turns, Wake(t) PROVE \A u \in Turns : Claims(u)' => Claims(u) \/ Bind(u)
  BY <1>22 DEF Wake, Begin, Refuse
<1>23. ASSUME NEW t \in Turns, Bind(t) PROVE \A u \in Turns : Claims(u)' => Claims(u) \/ Bind(u)
  BY <1>23 DEF Bind, Refuse
<1>24. ASSUME NEW t \in Turns, Admit(t) PROVE \A u \in Turns : Claims(u)' => Claims(u) \/ Bind(u)
  <2>1. t \in bound /\ turn[t] = "active"
    BY <1>24 DEF Admit, Authorized, BoundInTime
  <2> QED
    BY <1>24, <2>1 DEF Admit
<1>25. ASSUME NEW t \in Turns, Refused(t) PROVE \A u \in Turns : Claims(u)' => Claims(u) \/ Bind(u)
  BY <1>25 DEF Refused
<1>26. ASSUME NEW t \in Turns, Execute(t) PROVE \A u \in Turns : Claims(u)' => Claims(u) \/ Bind(u)
  BY <1>26 DEF Execute
<1>27. ASSUME NEW t \in Turns, LoseAnswer(t) PROVE \A u \in Turns : Claims(u)' => Claims(u) \/ Bind(u)
  BY <1>27 DEF LoseAnswer
<1>28. ASSUME NEW t \in Turns, StartAcp(t) PROVE \A u \in Turns : Claims(u)' => Claims(u) \/ Bind(u)
  BY <1>28 DEF StartAcp
<1>29. ASSUME NEW t \in Turns, StoreSession(t) PROVE \A u \in Turns : Claims(u)' => Claims(u) \/ Bind(u)
  BY <1>29 DEF StoreSession
<1>30. ASSUME NEW t \in Turns, LeaveSession(t) PROVE \A u \in Turns : Claims(u)' => Claims(u) \/ Bind(u)
  BY <1>30 DEF LeaveSession
<1>31. ASSUME NEW t \in Turns, StopDriver(t) PROVE \A u \in Turns : Claims(u)' => Claims(u) \/ Bind(u)
  BY <1>31 DEF StopDriver
<1>32. CASE UNCHANGED useVars
  BY <1>32 DEF useVars, workers, operations, locking, box
<1> QED
  BY <1>1, <1>2, <1>3, <1>4, <1>5, <1>6, <1>7, <1>8, <1>9, <1>10,
     <1>11, <1>12, <1>13, <1>14, <1>15, <1>16, <1>17, <1>18, <1>19, <1>20,
     <1>21, <1>22, <1>23, <1>24, <1>25, <1>26, <1>27, <1>28, <1>29, <1>30,
     <1>31, <1>32 DEF UseNext, Sweeping

LEMMA StepOneClaim ==
    ASSUME UseTypeOK, UseTypeOK', BoundInTime, ActsOpenly, OneClaim, [UseNext]_useVars
    PROVE  OneClaim'
<1>1. ASSUME NEW t \in Turns, NEW u \in Turns, Bind(t), Claims(u)', u # t
      PROVE  Claims(u) /\ (Claims(t)' => Claims(t))
  <2>1. UNCHANGED <<turn, call, left, computer, session>>
    BY <1>1 DEF Bind, operations, box
  <2>2. u \in bound
    BY <1>1, <2>1 DEF Bind, Claims
  <2>3. Claims(u)
    BY <1>1, <2>1, <2>2 DEF Claims, Acts
  <2>4. turn[u] = "active" \/ OpenOperation(u)
    BY <2>3 DEF Claims, Acts, ActsOpenly, OpenOperation
  <2>5. Reserved(t)
    BY <1>1, <2>2, <2>4 DEF Reserved
  <2>6. bound' = bound
    BY <1>1, <2>5 DEF Bind
  <2> QED
    BY <2>1, <2>3, <2>6 DEF Claims, Acts
<1>2. \A t \in Turns : Claims(t)' => Claims(t) \/ Bind(t)
  BY StepClaims
<1>3. ASSUME NEW t \in Turns, NEW u \in Turns, Claims(t)', Claims(u)', t # u
      PROVE  Claims(t) /\ Claims(u)
  BY <1>1, <1>2, <1>3
<1> QED
  BY <1>3 DEF OneClaim

\* Nothing uses the computer, turn by turn.
Free ==
    /\ leases = 0
    /\ \A t \in Turns : /\ ~Acts(t) /\ call[t] = "none"
                        /\ t \in bound => turn[t] # "active"

LEMMA FreeIsUnused == UseTypeOK => (~InUse <=> Free)
<1> SUFFICES ASSUME UseTypeOK PROVE ~InUse <=> Free
  OBVIOUS
<1>1. leases \in Nat /\ DOMAIN call = Turns /\ Acting \subseteq Turns
  BY UseAssumption DEF UseTypeOK, Acting
<1>2. \A t \in Turns : t \in Acting <=> Acts(t)
  BY UseAssumption DEF Acting, Acts
<1> QED
  BY <1>1, <1>2 DEF InUse, Free

LEMMA FreeIsUnusedNext == UseTypeOK' => (~InUse <=> Free)'
BY FreeIsUnused, PTL

\* What the sweep chose to stop is still free, whatever others did meanwhile.
LEMMA StepFree ==
    ASSUME UseTypeOK, UseTypeOK', BoundInTime, ActsOpenly, Locked,
           lock = Sweeper /\ seen.status = "chosen" => Free, [UseNext]_useVars
    PROVE  (lock = Sweeper /\ seen.status = "chosen" => Free)'
<1> USE UseAssumption DEF UseTypeOK, Free, Acts, Locked, Nobody, Sweeper, workers, operations, locking, box
<1>1. CASE Elapse
  BY <1>1 DEF Elapse
<1>2. CASE PersonActs
  BY <1>2 DEF PersonActs, Begin
<1>3. CASE LifecycleEnds
  BY <1>3 DEF LifecycleEnds
<1>4. CASE LeftoverEnds
  BY <1>4 DEF LeftoverEnds
<1>5. CASE ExecEnds
  BY <1>5 DEF ExecEnds
<1>6. CASE OpenDesktop
  BY <1>6 DEF OpenDesktop, LockFree
<1>7. CASE CloseDesktop
  BY <1>7 DEF CloseDesktop
<1>8. CASE Sweep
  BY <1>8 DEF Sweep
<1>9. CASE Notice
  BY <1>9 DEF Notice, Unlocked
<1>10. CASE Choose
  <2>1. CASE Occupied \/ ~idle.elapsed
    BY <1>10, <2>1 DEF Choose, Unlocked
  <2>2. CASE ~Occupied
    <3>1. \A t \in Turns : turn[t] # "active" /\ ~OpenOperation(t)
      BY <2>2 DEF Occupied
    <3>2. \A t \in Turns : ~Acts(t) /\ call[t] = "none"
      BY <3>1 DEF OpenOperation, ActsOpenly
    <3> QED
      BY <1>10, <3>1, <3>2 DEF Choose
  <2> QED
    BY <2>1, <2>2
<1>11. CASE StopIdle
  BY <1>11 DEF StopIdle, Unlocked, Begin
<1>12. CASE Swept
  BY <1>12 DEF Swept, Unlocked
<1>13. CASE Restart
  BY <1>13 DEF Restart, Unlocked
<1>14. ASSUME NEW t \in Turns, Accept(t) PROVE (lock = Sweeper /\ seen.status = "chosen" => Free)'
  <2>1. t \notin bound
    BY <1>14 DEF Accept, BoundInTime
  <2> QED
    BY <1>14, <2>1 DEF Accept
<1>15. ASSUME NEW t \in Turns, Cancel(t) PROVE (lock = Sweeper /\ seen.status = "chosen" => Free)'
  BY <1>15 DEF Cancel
<1>16. ASSUME NEW t \in Turns, Leave(t) PROVE (lock = Sweeper /\ seen.status = "chosen" => Free)'
  BY <1>16 DEF Leave, Unlocked
<1>17. ASSUME NEW t \in Turns, CloseTurn(t) PROVE (lock = Sweeper /\ seen.status = "chosen" => Free)'
  BY <1>17 DEF CloseTurn
<1>18. ASSUME NEW t \in Turns, Continue(t) PROVE (lock = Sweeper /\ seen.status = "chosen" => Free)'
  BY <1>18 DEF Continue
<1>19. ASSUME NEW t \in Turns, FinishJob(t) PROVE (lock = Sweeper /\ seen.status = "chosen" => Free)'
  BY <1>19 DEF FinishJob
<1>20. ASSUME NEW t \in Turns, AcknowledgeStopped(t) PROVE (lock = Sweeper /\ seen.status = "chosen" => Free)'
  BY <1>20 DEF AcknowledgeStopped
<1>21. ASSUME NEW t \in Turns, Resolve(t) PROVE (lock = Sweeper /\ seen.status = "chosen" => Free)'
  BY <1>21 DEF Resolve
<1>22. ASSUME NEW t \in Turns, Wake(t) PROVE (lock = Sweeper /\ seen.status = "chosen" => Free)'
  BY <1>22 DEF Wake, Unlocked, Begin, Refuse
<1>23. ASSUME NEW t \in Turns, Bind(t) PROVE (lock = Sweeper /\ seen.status = "chosen" => Free)'
  BY <1>23 DEF Bind, Unlocked, Refuse
<1>24. ASSUME NEW t \in Turns, Admit(t) PROVE (lock = Sweeper /\ seen.status = "chosen" => Free)'
  BY <1>24 DEF Admit
<1>25. ASSUME NEW t \in Turns, Refused(t) PROVE (lock = Sweeper /\ seen.status = "chosen" => Free)'
  BY <1>25 DEF Refused
<1>26. ASSUME NEW t \in Turns, Execute(t) PROVE (lock = Sweeper /\ seen.status = "chosen" => Free)'
  BY <1>26 DEF Execute
<1>27. ASSUME NEW t \in Turns, LoseAnswer(t) PROVE (lock = Sweeper /\ seen.status = "chosen" => Free)'
  BY <1>27 DEF LoseAnswer
<1>28. ASSUME NEW t \in Turns, StartAcp(t) PROVE (lock = Sweeper /\ seen.status = "chosen" => Free)'
  BY <1>28 DEF StartAcp
<1>29. ASSUME NEW t \in Turns, StoreSession(t) PROVE (lock = Sweeper /\ seen.status = "chosen" => Free)'
  BY <1>29 DEF StoreSession
<1>30. ASSUME NEW t \in Turns, LeaveSession(t) PROVE (lock = Sweeper /\ seen.status = "chosen" => Free)'
  BY <1>30 DEF LeaveSession
<1>31. ASSUME NEW t \in Turns, StopDriver(t) PROVE (lock = Sweeper /\ seen.status = "chosen" => Free)'
  BY <1>31 DEF StopDriver
<1>32. CASE UNCHANGED useVars
  BY <1>32 DEF useVars, workers, operations, locking, box
<1> QED
  BY <1>1, <1>2, <1>3, <1>4, <1>5, <1>6, <1>7, <1>8, <1>9, <1>10,
     <1>11, <1>12, <1>13, <1>14, <1>15, <1>16, <1>17, <1>18, <1>19, <1>20,
     <1>21, <1>22, <1>23, <1>24, <1>25, <1>26, <1>27, <1>28, <1>29, <1>30,
     <1>31, <1>32 DEF UseNext, Sweeping

LEMMA InitInv == ASSUME UseInit PROVE Inv
<1>1. UseTypeOK
  BY InitTyped
<1>2. BoundInTime /\ Locked /\ OneClaim
  BY UseAssumption DEF UseInit, BoundInTime, OpenOperation, Locked, OneClaim, Claims, Nobody, Sweeper
<1>3. ActsOpenly
  BY UseAssumption DEF UseInit, ActsOpenly, Acts
<1>4. ChosenIsFree
  BY DEF UseInit, ChosenIsFree, Nobody, Sweeper
<1> QED
  BY <1>1, <1>2, <1>3, <1>4 DEF Inv

LEMMA StepInv == ASSUME Inv, [UseNext]_useVars PROVE Inv'
<1> USE DEF Inv
<1>1. UseTypeOK'
  BY StepTyped
<1>2. BoundInTime' /\ ActsOpenly' /\ Locked'
  BY <1>1, StepBound, StepActs, StepLocked
<1>3. OneClaim'
  BY <1>1, StepOneClaim
<1>4. ChosenIsFree'
  <2>1. lock = Sweeper /\ seen.status = "chosen" => Free
    BY FreeIsUnused DEF ChosenIsFree
  <2>2. (lock = Sweeper /\ seen.status = "chosen" => Free)'
    BY <1>1, <2>1, StepFree
  <2>3. (~InUse <=> Free)'
    BY <1>1, FreeIsUnusedNext
  <2> QED
    BY <2>2, <2>3 DEF ChosenIsFree
<1> QED
  BY <1>1, <1>2, <1>3, <1>4
-----------------------------------------------------------------------------
(* The theorems                                                            *)

LEMMA Invariant == UseSpec => []Inv
<1>1. UseInit => Inv
  BY InitInv
<1>2. Inv /\ [UseNext]_useVars => Inv'
  BY StepInv
<1> QED
  BY <1>1, <1>2, PTL DEF UseSpec

\* The records of the computer, of its turns and of their operations keep the
\* values the backend knows, over restarts.
THEOREM TypeCorrect == UseSpec => []UseTypeOK
<1>1. Inv => UseTypeOK
  BY DEF Inv
<1> QED
  BY <1>1, Invariant, PTL

LEMMA OneActs == ASSUME Inv PROVE OneTurnActs
<1>1. \A t, u \in Acting : t = u
  <2>1. ASSUME NEW t \in Acting PROVE t \in Turns /\ Acts(t)
    BY UseAssumption DEF Inv, UseTypeOK, Acting, Acts
  <2>2. ASSUME NEW t \in Acting PROVE Claims(t)
    BY <2>1 DEF Inv, ActsOpenly, Claims
  <2> QED
    BY <2>1, <2>2 DEF Inv, OneClaim
<1>2. CASE Acting = {}
  BY <1>2, FS_EmptySet DEF OneTurnActs
<1>3. ASSUME NEW t \in Acting PROVE OneTurnActs
  <2>1. Acting = {t}
    BY <1>1
  <2>2. Cardinality(Acting) = 1
    BY <2>1, FS_Singleton
  <2> QED
    BY <2>2 DEF OneTurnActs
<1> QED
  BY <1>2, <1>3

\* What acts in a computer belongs to one turn, whatever number of threads want
\* it and however often answers are lost, turns cancelled, the computer started
\* and stopped or the server killed (resolve and request_owned).
THEOREM OneTurnAtATime == UseSpec => []OneTurnActs
<1>1. Inv => OneTurnActs
  BY OneActs
<1> QED
  BY <1>1, Invariant, PTL

LEMMA OnlyTheSweepStops ==
    ASSUME Inv, [UseNext]_useVars, lock = Sweeper, computer.status = "running",
           computer'.status = "stopping"
    PROVE  StopIdle
<1> USE UseAssumption DEF Inv, UseTypeOK, Nobody, Sweeper, workers, operations, locking, box
<1>1. CASE Elapse
  BY <1>1 DEF Elapse
<1>2. CASE PersonActs
  BY <1>2 DEF PersonActs, Begin, MayBegin
<1>3. CASE LifecycleEnds
  BY <1>3 DEF LifecycleEnds
<1>4. CASE LeftoverEnds
  BY <1>4 DEF LeftoverEnds
<1>5. CASE ExecEnds
  BY <1>5 DEF ExecEnds
<1>6. CASE OpenDesktop
  BY <1>6 DEF OpenDesktop
<1>7. CASE CloseDesktop
  BY <1>7 DEF CloseDesktop
<1>8. CASE Sweep
  BY <1>8 DEF Sweep
<1>9. CASE Notice
  BY <1>9 DEF Notice
<1>10. CASE Choose
  BY <1>10 DEF Choose
<1>11. CASE StopIdle
  BY <1>11
<1>12. CASE Swept
  BY <1>12 DEF Swept
<1>13. CASE Restart
  BY <1>13 DEF Restart
<1>14. ASSUME NEW t \in Turns, Accept(t) PROVE StopIdle
  BY <1>14 DEF Accept
<1>15. ASSUME NEW t \in Turns, Cancel(t) PROVE StopIdle
  BY <1>15 DEF Cancel
<1>16. ASSUME NEW t \in Turns, Leave(t) PROVE StopIdle
  BY <1>16 DEF Leave
<1>17. ASSUME NEW t \in Turns, CloseTurn(t) PROVE StopIdle
  BY <1>17 DEF CloseTurn
<1>18. ASSUME NEW t \in Turns, Continue(t) PROVE StopIdle
  BY <1>18 DEF Continue
<1>19. ASSUME NEW t \in Turns, FinishJob(t) PROVE StopIdle
  BY <1>19 DEF FinishJob
<1>20. ASSUME NEW t \in Turns, AcknowledgeStopped(t) PROVE StopIdle
  BY <1>20 DEF AcknowledgeStopped
<1>21. ASSUME NEW t \in Turns, Resolve(t) PROVE StopIdle
  BY <1>21 DEF Resolve
<1>22. ASSUME NEW t \in Turns, Wake(t) PROVE StopIdle
  BY <1>22 DEF Wake, Begin, MayBegin, Refuse
<1>23. ASSUME NEW t \in Turns, Bind(t) PROVE StopIdle
  BY <1>23 DEF Bind, Refuse
<1>24. ASSUME NEW t \in Turns, Admit(t) PROVE StopIdle
  BY <1>24 DEF Admit
<1>25. ASSUME NEW t \in Turns, Refused(t) PROVE StopIdle
  BY <1>25 DEF Refused
<1>26. ASSUME NEW t \in Turns, Execute(t) PROVE StopIdle
  BY <1>26 DEF Execute
<1>27. ASSUME NEW t \in Turns, LoseAnswer(t) PROVE StopIdle
  BY <1>27 DEF LoseAnswer
<1>28. ASSUME NEW t \in Turns, StartAcp(t) PROVE StopIdle
  BY <1>28 DEF StartAcp
<1>29. ASSUME NEW t \in Turns, StoreSession(t) PROVE StopIdle
  BY <1>29 DEF StoreSession
<1>30. ASSUME NEW t \in Turns, LeaveSession(t) PROVE StopIdle
  BY <1>30 DEF LeaveSession
<1>31. ASSUME NEW t \in Turns, StopDriver(t) PROVE StopIdle
  BY <1>31 DEF StopDriver
<1>32. CASE UNCHANGED useVars
  BY <1>32 DEF useVars, workers, operations, locking, box
<1> QED
  BY <1>1, <1>2, <1>3, <1>4, <1>5, <1>6, <1>7, <1>8, <1>9, <1>10,
     <1>11, <1>12, <1>13, <1>14, <1>15, <1>16, <1>17, <1>18, <1>19, <1>20,
     <1>21, <1>22, <1>23, <1>24, <1>25, <1>26, <1>27, <1>28, <1>29, <1>30,
     <1>31, <1>32 DEF UseNext, Sweeping

\* The sweep stops a computer only while no desktop is open, no call is under
\* way, nothing acts and no turn that goes on holds it, although it looked
\* earlier (idle_sweep and active_use).
THEOREM SweepSparesUse == UseSpec => SweepSparesWork
<1>1. ASSUME Inv, [UseNext]_useVars
      PROVE  [lock = Sweeper /\ computer.status = "running"
                /\ computer'.status = "stopping" => ~InUse]_useVars
  <2>1. ASSUME StopIdle, computer'.status = "stopping", computer.status = "running"
        PROVE  lock = Sweeper /\ seen.status = "chosen"
    BY <2>1 DEF StopIdle
  <2> QED
    BY <1>1, <2>1, OnlyTheSweepStops DEF Inv, ChosenIsFree
<1> QED
  BY <1>1, Invariant, PTL DEF UseSpec, SweepSparesWork
=============================================================================
