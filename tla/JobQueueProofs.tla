--------------------------- MODULE JobQueueProofs ---------------------------
(***************************************************************************)
(* Theorems about JobQueue for any number of threads, automations,         *)
(* requests and crashes, in three parts.                                   *)
(*                                                                         *)
(* First Typed, which is TypeOK together with the shape of minted rows,    *)
(* and the worker invariant: a worker's row is marked worker_active for    *)
(* exactly its generation, so claim_next cannot hand out a second worker   *)
(* on its thread.                                                          *)
(*                                                                         *)
(* Then who owns a thread, a turn and a stream.  That claim_next never     *)
(* picks two owners follows from what the rows say between transactions: a *)
(* job and its turn name the same thread, work that is to be continued has *)
(* kept its thread, and a stream number is never handed out twice.         *)
(*                                                                         *)
(* Last, the durable queue implements CommandService and keeps what it     *)
(* queued.  A command is the stream it minted.  Since a stream belongs to  *)
(* one job and one worker, every step of the queue moves each command as   *)
(* the service does, or leaves it where it is.                             *)
(***************************************************************************)
EXTENDS JobQueueService, TLAPS, WellFoundedInduction

Typed == TypeOK /\ JobsAreMinted

-----------------------------------------------------------------------------
(* Operators                                                               *)

\* The ORDER BY created_at LIMIT 1 of the transactions picks one of the rows
\* it orders.
LEMMA LeastIsMember ==
    ASSUME NEW S \in SUBSET Requests, S # {}
    PROVE  Least(S) \in S
<1>1. S \subseteq Nat
  BY ConstantsAssumption DEF Requests
<1> DEFINE R == {p \in Nat \X Nat : p[1] < p[2]}
<1>2. IsWellFoundedOn(R, Nat)
  BY NatLessThanWellFounded DEF OpToRel
<1> HIDE DEF R
<1>3. PICK x \in S : \A y \in S : ~(<<y, x>> \in R)
  BY <1>1, <1>2, WFMin
<1>4. ASSUME NEW y \in S PROVE x <= y
  <2>1. x \in Nat /\ y \in Nat
    BY <1>1
  <2>2. y < x => <<y, x>> \in R
    BY <2>1 DEF R
  <2> QED
    BY <1>3, <2>1, <2>2
<1> QED
  BY <1>4 DEF Least

\* A new row is a job.
LEMMA QueuedJobType ==
    ASSUME NEW r \in Requests, NEW t \in Threads, NEW u \in Requests,
           NEW cmd \in {"message.send", "thread.resume"},
           NEW auto \in Automations \cup {NoAutomation}
    PROVE  QueuedJob(r, t, u, cmd, auto) \in Job
  BY DEF QueuedJob, Job, JobStatus

\* Every rewrite of a job row yields a job.
LEMMA RowTypes ==
    ASSUME NEW row \in Job, NEW status \in JobStatus, NEW occ \in BOOLEAN,
           NEW verified \in BOOLEAN, NEW gen \in Nat
    PROVE  /\ [row EXCEPT !.occ = occ] \in Job
           /\ [row EXCEPT !.wkr = FALSE] \in Job
           /\ [row EXCEPT !.status = status, !.occ = occ] \in Job
           /\ [row EXCEPT !.status = status, !.wkr = FALSE, !.occ = occ]
                \in Job
           /\ [row EXCEPT !.status = status, !.verified = verified,
                          !.wkr = FALSE, !.occ = occ] \in Job
           /\ [row EXCEPT !.verified = TRUE, !.occ = FALSE, !.wkr = FALSE]
                \in Job
           /\ [row EXCEPT !.status = "running", !.occ = TRUE, !.wkr = TRUE,
                          !.gen = gen] \in Job
<1>1. [row EXCEPT !.occ = occ] \in Job /\ [row EXCEPT !.wkr = FALSE] \in Job
  BY DEF Job
<1>2. [row EXCEPT !.status = status, !.occ = occ] \in Job
  BY DEF Job
<1>3. [row EXCEPT !.status = status, !.wkr = FALSE, !.occ = occ] \in Job
  BY DEF Job
<1>4. [row EXCEPT !.status = status, !.verified = verified, !.wkr = FALSE,
                  !.occ = occ] \in Job
  BY DEF Job
<1>5. [row EXCEPT !.verified = TRUE, !.occ = FALSE, !.wkr = FALSE] \in Job
  BY DEF Job
<1>6. [row EXCEPT !.status = "running", !.occ = TRUE, !.wkr = TRUE,
                  !.gen = gen] \in Job
  <2>1. "running" \in JobStatus
    BY DEF JobStatus
  <2> QED
    BY <2>1 DEF Job
<1> QED
  BY <1>1, <1>2, <1>3, <1>4, <1>5, <1>6

\* Rewriting the status of a turn yields a turn.
LEMMA TurnUpdateType ==
    ASSUME turn \in [Requests -> Turn], NEW u \in Requests,
           NEW status \in TurnStatus
    PROVE  [turn EXCEPT ![u].status = status] \in [Requests -> Turn]
  BY DEF Turn

\* The status of a turn is one of TurnStatus.
LEMMA TurnStatusType ==
    ASSUME turn \in [Requests -> Turn], NEW u \in Requests
    PROVE  turn[u].status \in TurnStatus
  BY DEF Turn

\* A reserved turn is a turn.
LEMMA ReservedTurnType ==
    ASSUME NEW turns, NEW t \in Threads
    PROVE  ReservedTurn(turns, t) \in Turn
  BY DEF ReservedTurn, Turn, TurnStatus

\* Closing streams keeps the counters of done events natural numbers.
LEMMA ClosedType ==
    ASSUME NEW streams, done \in [Requests -> Nat]
    PROVE  Closed(streams) \in [Requests -> Nat]
  BY DEF Closed

\* Withdrawing jobs keeps rows well-typed.
LEMMA WithdrawnType ==
    ASSUME Typed, NEW W \in SUBSET Requests
    PROVE  /\ WithdrawnJobs(W) \in [Requests -> Job]
           /\ WithdrawnTurns(W) \in [Requests -> Turn]
<1>1. WithdrawnJobs(W) \in [Requests -> Job]
  BY DEF Typed, TypeOK, WithdrawnJobs, Job, JobStatus
<1>2. WithdrawnTurns(W) \in [Requests -> Turn]
  BY DEF Typed, TypeOK, WithdrawnTurns, Turn, TurnStatus
<1> QED
  BY <1>1, <1>2

\* A worker that moves on is still a worker, of the same row.
LEMMA GotoType ==
    ASSUME Typed, NEW w \in workers,
           NEW pc \in {"start", "run", "emit", "finish"}, NEW out \in Outcome,
           Goto(w, pc, out)
    PROVE  workers' \subseteq Worker
<1>1. [w EXCEPT !.pc = pc, !.out = out] \in Worker
  <2>1. w \in Worker
    BY DEF Typed, TypeOK
  <2> QED
    BY <2>1, ZenonT(60) DEF Worker
<1> QED
  BY <1>1 DEF Goto, Typed, TypeOK

\* A stored event keeps the counters of done events natural numbers.
LEMMA EmittedType ==
    ASSUME Typed, NEW w \in workers
    PROVE  Emitted(w) \in [Requests -> Nat]
  BY DEF Emitted, Typed, TypeOK, Worker

-----------------------------------------------------------------------------
(* Typed is inductive: one lemma per group of actions.                     *)

LEMMA TypedInit == Init => Typed
  BY ConstantsAssumption
     DEF Init, Typed, TypeOK, JobsAreMinted, NoJob, Job, JobStatus, Turn,
         TurnStatus

\* Accepting a message or an occurrence mints or reuses one row.
LEMMA TypedQueueMessage ==
    ASSUME Typed, NEW r \in Requests, NEW t \in Threads, QueueMessage(r, t)
    PROVE  Typed'
<1>1. QueuedJob(r, t, r, "message.send", NoAutomation) \in Job
  BY QueuedJobType
<1>2. ReservedTurn(turn, t) \in Turn
  BY ReservedTurnType
<1>3. TypeOK'
  BY <1>1, <1>2 DEF QueueMessage, Typed, TypeOK
<1>4. JobsAreMinted'
  BY DEF QueueMessage, QueuedJob, Typed, TypeOK, JobsAreMinted
<1> QED
  BY <1>3, <1>4 DEF Typed

LEMMA TypedAnswerWaiting ==
    ASSUME Typed, NEW r \in Requests, NEW t \in Threads, AnswerWaiting(r, t)
    PROVE  Typed'
<1> DEFINE waiting == {j \in JobsOn(t) : job[j].status = "waiting_for_user"}
           turns == IF ActiveTurnsOn(t) = {} THEN turn
                    ELSE [turn EXCEPT ![Least(ActiveTurnsOn(t))].status =
                             "superseded"]
           old == Least(waiting)
<1>1. PICK j \in Requests : j = old /\ job[j].status = "waiting_for_user"
  <2>1. waiting \in SUBSET Requests /\ waiting # {}
    BY DEF AnswerWaiting, JobsOn
  <2>2. old \in waiting
    BY <2>1, LeastIsMember
  <2> QED
    BY <2>1, <2>2
<1>2. job' = [job EXCEPT ![j] = [@ EXCEPT !.status = "queued", !.turn = r,
                                          !.stream = r, !.cmd = "message.send",
                                          !.verified = FALSE]]
  BY <1>1 DEF AnswerWaiting
<1>3. turn' \in [Requests -> Turn]
  <2>1. turns \in [Requests -> Turn]
    BY ZenonT(60) DEF Typed, TypeOK, Turn, TurnStatus
  <2>2. turn' = [turns EXCEPT ![r] = ReservedTurn(turns, t)]
    BY DEF AnswerWaiting
  <2> QED
    BY <2>1, <2>2, ReservedTurnType
<1>4. job' \in [Requests -> Job]
  <2>1. job[j] \in Job
    BY DEF Typed, TypeOK
  <2>2. [job[j] EXCEPT !.status = "queued", !.turn = r, !.stream = r,
                       !.cmd = "message.send", !.verified = FALSE] \in Job
    BY <2>1 DEF Job, JobStatus
  <2> QED
    BY <1>2, <2>2 DEF Typed, TypeOK
<1>5. TypeOK'
  BY <1>3, <1>4 DEF AnswerWaiting, Typed, TypeOK
<1>6. JobsAreMinted'
  BY <1>1, <1>2 DEF AnswerWaiting, Typed, TypeOK, JobsAreMinted, Job
<1> QED
  BY <1>5, <1>6 DEF Typed

LEMMA TypedAcceptOccurrence ==
    ASSUME Typed, NEW r \in Requests, NEW t \in Threads,
           NEW a \in Automations, NEW timer \in BOOLEAN,
           AcceptOccurrence(r, a, t, timer)
    PROVE  Typed'
<1> DEFINE W == IF timer THEN Withdrawn(a) ELSE {}
<1>1. W \in SUBSET Requests
  BY DEF Withdrawn
<1>2. /\ WithdrawnJobs(W) \in [Requests -> Job]
      /\ WithdrawnTurns(W) \in [Requests -> Turn]
  BY <1>1, WithdrawnType
<1>3. QueuedJob(r, t, r, "message.send", a) \in Job
  BY QueuedJobType
<1>4. ReservedTurn(WithdrawnTurns(W), t) \in Turn
  BY ReservedTurnType
<1>5. done' \in [Requests -> Nat]
  BY ClosedType DEF AcceptOccurrence, Typed, TypeOK
<1>6. TypeOK'
  BY <1>2, <1>3, <1>4, <1>5 DEF AcceptOccurrence, Typed, TypeOK
<1>7. \A j \in W : job[j].status = "queued"
  BY DEF Withdrawn
<1>8. JobsAreMinted'
  BY <1>1, <1>7, SMTT(30)
     DEF AcceptOccurrence, QueuedJob, WithdrawnJobs, Typed, TypeOK,
         JobsAreMinted, Job
<1> QED
  BY <1>6, <1>8 DEF Typed

LEMMA TypedEditAutomation ==
    ASSUME Typed, NEW a \in Automations, EditAutomation(a)
    PROVE  Typed'
<1>1. Withdrawn(a) \in SUBSET Requests
  BY DEF Withdrawn
<1>2. /\ WithdrawnJobs(Withdrawn(a)) \in [Requests -> Job]
      /\ WithdrawnTurns(Withdrawn(a)) \in [Requests -> Turn]
  BY <1>1, WithdrawnType
<1>3. done' \in [Requests -> Nat]
  BY ClosedType DEF EditAutomation, Typed, TypeOK
<1>4. TypeOK'
  BY <1>2, <1>3 DEF EditAutomation, Typed, TypeOK
<1>5. \A j \in Withdrawn(a) : job[j].status = "queued"
  BY DEF Withdrawn
<1>6. JobsAreMinted'
  BY <1>5 DEF EditAutomation, WithdrawnJobs, Typed, TypeOK, JobsAreMinted, Job
<1> QED
  BY <1>4, <1>6 DEF Typed

\* A continuation moves the turn's live row or mints one for its turn.
LEMMA TypedResumeWith ==
    ASSUME Typed, NEW r \in Requests, NEW t \in Threads, NEW u \in Requests,
           NEW turns \in [Requests -> Turn], ResumeWith(r, t, u, turns)
    PROVE  Typed'
<1> DEFINE live == {j \in Requests : /\ job[j].turn = u
                                     /\ job[j].status \in
                                          {"running", "waiting_for_user"}}
<1>0. /\ turn' = turns /\ thread' = [thread EXCEPT ![t] = "running"]
      /\ receipts' = receipts \cup {r}
      /\ UNCHANGED <<ckpt, op, done, workers, executed, phase, crashes>>
  BY DEF ResumeWith
<1>1. CASE live # {}
  <2>1. PICK j \in Requests :
           /\ j = Least(live)
           /\ job[j].status \in {"running", "waiting_for_user"}
    <3>1. live \in SUBSET Requests
      OBVIOUS
    <3>2. Least(live) \in live
      BY <1>1, <3>1, LeastIsMember
    <3> QED
      BY <3>2
  <2>2. job' = [job EXCEPT ![j] = [@ EXCEPT !.status = "queued",
                                            !.stream = r,
                                            !.cmd = "thread.resume",
                                            !.verified = FALSE]]
    BY <1>1, <2>1 DEF ResumeWith
  <2>3. job' \in [Requests -> Job]
    <3>1. job[j] \in Job
      BY DEF Typed, TypeOK
    <3>2. [job[j] EXCEPT !.status = "queued", !.stream = r,
                         !.cmd = "thread.resume", !.verified = FALSE] \in Job
      BY <3>1 DEF Job, JobStatus
    <3> QED
      BY <2>2, <3>2 DEF Typed, TypeOK
  <2>4. TypeOK'
    BY <1>0, <2>3 DEF Typed, TypeOK
  <2>5. JobsAreMinted'
    BY <2>1, <2>2, <1>0 DEF Typed, TypeOK, JobsAreMinted, Job
  <2> QED
    BY <2>4, <2>5 DEF Typed
<1>2. CASE live = {}
  <2>1. QueuedJob(r, t, u, "thread.resume", NoAutomation) \in Job
    BY QueuedJobType
  <2>2. job' = [job EXCEPT ![r] =
                   QueuedJob(r, t, u, "thread.resume", NoAutomation)]
    BY <1>2 DEF ResumeWith
  <2>3. TypeOK'
    BY <2>1, <1>0, <2>2 DEF Typed, TypeOK
  <2>4. JobsAreMinted'
    BY <1>0, <2>2 DEF QueuedJob, Typed, TypeOK, JobsAreMinted
  <2> QED
    BY <2>3, <2>4 DEF Typed
<1> QED
  BY <1>1, <1>2

LEMMA TypedResume ==
    ASSUME Typed, NEW r \in Requests, NEW t \in Threads,
           ResumeWaitingTurn(r, t) \/ ResumeNewTurn(r, t)
    PROVE  Typed'
<1>1. CASE ResumeWaitingTurn(r, t)
  <2>1. PICK u \in Requests :
           ResumeWith(r, t, u, [turn EXCEPT ![u].status = "running"])
    BY <1>1 DEF ResumeWaitingTurn, WaitingTurnsOn, ActiveTurnsOn
  <2>2. [turn EXCEPT ![u].status = "running"] \in [Requests -> Turn]
    BY DEF Typed, TypeOK, Turn, TurnStatus
  <2> QED
    BY <2>1, <2>2, TypedResumeWith
<1>2. CASE ResumeNewTurn(r, t)
  <2>1. [turn EXCEPT ![r] = [status |-> "running", thread |-> t]]
           \in [Requests -> Turn]
    BY DEF Typed, TypeOK, Turn, TurnStatus
  <2> QED
    BY <1>2, <2>1, TypedResumeWith DEF ResumeNewTurn
<1> QED
  BY <1>1, <1>2

\* Cancelling and confirming rewrite the status of minted rows.
LEMMA TypedCancelTurn ==
    ASSUME Typed, NEW u \in Requests, CancelTurn(u)
    PROVE  Typed'
<1> DEFINE live == {j \in Requests : /\ job[j].turn = u
                                     /\ job[j].status \in
                                          {"queued", "running",
                                           "waiting_for_user"}}
<1>0. job' = [j \in Requests |->
                 IF j \in live
                 THEN [job[j] EXCEPT !.status = "cancelled",
                                     !.occ = job[j].occ /\ job[j].wkr]
                 ELSE job[j]]
  BY DEF CancelTurn, Cancellable
<1>1. job' \in [Requests -> Job]
  <2>1. ASSUME NEW j \in Requests
        PROVE  [job[j] EXCEPT !.status = "cancelled",
                              !.occ = job[j].occ /\ job[j].wkr] \in Job
    <3>1. job[j] \in Job /\ (job[j].occ /\ job[j].wkr) \in BOOLEAN
      BY DEF Typed, TypeOK, Job
    <3> QED
      BY <3>1, RowTypes DEF JobStatus
  <2> QED
    BY <1>0, <2>1 DEF Typed, TypeOK
<1>2. turn' \in [Requests -> Turn]
  <2> DEFINE status == IF turn[u].status \in TerminalTurn
                       THEN turn[u].status ELSE "cancelled"
  <2>1. status \in TurnStatus
    BY TurnStatusType DEF Typed, TypeOK, TurnStatus
  <2>2. turn' = [turn EXCEPT ![u].status = status]
    BY DEF CancelTurn
  <2> HIDE DEF status
  <2> QED
    BY <2>1, <2>2, TurnUpdateType DEF Typed, TypeOK
<1>3. done' \in [Requests -> Nat]
  BY ClosedType DEF CancelTurn, Typed, TypeOK
<1>4. TypeOK'
  BY <1>1, <1>2, <1>3 DEF CancelTurn, Typed, TypeOK
<1>5. JobsAreMinted'
  <2>1. ASSUME NEW j \in Requests
        PROVE  /\ job'[j].thread = job[j].thread
               /\ job'[j].turn = job[j].turn
               /\ job'[j].stream = job[j].stream
               /\ job'[j].wkr = job[j].wkr
               /\ job'[j].status # "none" <=> job[j].status # "none"
    <3>1. job[j] \in Job
      BY DEF Typed, TypeOK
    <3> QED
      BY <1>0, <3>1 DEF Job
  <2>2. receipts' = receipts
    BY DEF CancelTurn
  <2> QED
    BY <2>1, <2>2 DEF Typed, JobsAreMinted
<1> QED
  BY <1>4, <1>5 DEF Typed

LEMMA TypedAcknowledgeStopped ==
    ASSUME Typed, NEW u \in Requests, AcknowledgeStopped(u)
    PROVE  Typed'
<1> DEFINE stopped == {j \in Requests : job[j].turn = u /\ Unconfirmed(j)}
<1>0. job' = [j \in Requests |->
                 IF j \in stopped
                 THEN [job[j] EXCEPT !.verified = TRUE, !.occ = FALSE,
                                     !.wkr = FALSE]
                 ELSE job[j]]
  BY DEF AcknowledgeStopped
<1>1. job' \in [Requests -> Job]
  <2>1. ASSUME NEW j \in Requests
        PROVE  [job[j] EXCEPT !.verified = TRUE, !.occ = FALSE,
                              !.wkr = FALSE] \in Job
    <3>1. job[j] \in Job
      BY DEF Typed, TypeOK
    <3> QED
      BY <3>1, RowTypes DEF JobStatus
  <2> QED
    BY <1>0, <2>1 DEF Typed, TypeOK
<1>2. op' \in [Requests -> SUBSET {"running", "uncertain"}]
  BY DEF AcknowledgeStopped, Typed, TypeOK
<1>3. TypeOK'
  BY <1>1, <1>2 DEF AcknowledgeStopped, Typed, TypeOK
<1>4. JobsAreMinted'
  <2>1. ASSUME NEW j \in Requests
        PROVE  /\ job'[j].thread = job[j].thread
               /\ job'[j].turn = job[j].turn
               /\ job'[j].stream = job[j].stream
               /\ job'[j].wkr => job[j].wkr
               /\ job'[j].status = job[j].status
    <3>1. job[j] \in Job
      BY DEF Typed, TypeOK
    <3> QED
      BY <1>0, <3>1 DEF Job
  <2>2. receipts' = receipts
    BY DEF AcknowledgeStopped
  <2> QED
    BY <2>1, <2>2 DEF Typed, JobsAreMinted
<1> QED
  BY <1>3, <1>4 DEF Typed

\* Taking the thread back for a waiting job keeps rows well-typed.
LEMMA ReoccupiedType ==
    ASSUME Typed
    PROVE  /\ Reoccupied \in [Requests -> Job]
           /\ \A j \in Requests :
                 /\ Reoccupied[j].status = job[j].status
                 /\ Reoccupied[j].thread = job[j].thread
                 /\ Reoccupied[j].turn = job[j].turn
                 /\ Reoccupied[j].stream = job[j].stream
                 /\ Reoccupied[j].wkr = job[j].wkr
                 /\ Reoccupied[j].gen = job[j].gen
<1>1. ASSUME NEW j \in Requests PROVE [job[j] EXCEPT !.occ = TRUE] \in Job
  <2>1. job[j] \in Job
    BY DEF Typed, TypeOK
  <2> QED
    BY <2>1, RowTypes DEF JobStatus
<1>2. Reoccupied \in [Requests -> Job]
  BY <1>1 DEF Reoccupied, Typed, TypeOK
<1>3. ASSUME NEW j \in Requests
      PROVE  /\ Reoccupied[j].status = job[j].status
             /\ Reoccupied[j].thread = job[j].thread
             /\ Reoccupied[j].turn = job[j].turn
             /\ Reoccupied[j].stream = job[j].stream
             /\ Reoccupied[j].wkr = job[j].wkr
             /\ Reoccupied[j].gen = job[j].gen
  BY DEF Reoccupied, Typed, TypeOK, Job
<1> QED
  BY <1>2, <1>3

LEMMA TypedClaimNext ==
    ASSUME Typed, NEW q \in Requests, ClaimNext(q)
    PROVE  Typed'
<1>1. job[q].status = "queued"
  BY DEF ClaimNext, Claimable
<1>2. /\ job[q].thread \in Threads
      /\ job[q].turn \in Requests
      /\ job[q].stream \in Requests
      /\ q \in receipts
  BY <1>1 DEF Typed, JobsAreMinted
<1>3. job' \in [Requests -> Job]
  <2>1. Reoccupied[q] \in Job /\ job[q].gen + 1 \in Nat
    <3>1. job[q] \in Job
      BY DEF Typed, TypeOK
    <3>2. job[q].gen \in Nat
      BY <3>1 DEF Job
    <3> QED
      BY <3>2, ReoccupiedType
  <2>2. [Reoccupied[q] EXCEPT !.status = "running", !.occ = TRUE,
                              !.wkr = TRUE, !.gen = job[q].gen + 1]
           \in Job
    BY <2>1, RowTypes DEF JobStatus
  <2>3. job' = [Reoccupied EXCEPT ![q] =
                   [Reoccupied[q] EXCEPT !.status = "running", !.occ = TRUE,
                                         !.wkr = TRUE,
                                         !.gen = job[q].gen + 1]]
    BY DEF ClaimNext
  <2>4. Reoccupied \in [Requests -> Job]
    BY ReoccupiedType
  <2> HIDE DEF Reoccupied
  <2> QED
    BY <2>2, <2>3, <2>4
<1>4. turn' \in [Requests -> Turn]
  <2> DEFINE u == job[q].turn
             status == IF turn[u].status = "queued"
                       THEN "pending" ELSE turn[u].status
  <2>1. status \in TurnStatus
    BY <1>2, TurnStatusType DEF Typed, TypeOK, TurnStatus
  <2>2. turn' = [turn EXCEPT ![u].status = status]
    BY DEF ClaimNext
  <2> HIDE DEF status
  <2> QED
    BY <1>2, <2>1, <2>2, TurnUpdateType DEF Typed, TypeOK
<1>5. NewWorker(q) \in Worker
  <2>1. job[q] \in Job
    BY DEF Typed, TypeOK
  <2> QED
    BY <1>2, <2>1 DEF NewWorker, Worker, Job, Outcome
<1>6. TypeOK'
  BY <1>2, <1>3, <1>4, <1>5 DEF ClaimNext, Typed, TypeOK
<1>7. JobsAreMinted'
  BY <1>2, ReoccupiedType DEF ClaimNext, Typed, TypeOK, JobsAreMinted, Job
<1> QED
  BY <1>6, <1>7 DEF Typed

\* A step of a worker before finish_job leaves execution_jobs alone.
LEMMA TypedAdvance ==
    ASSUME Typed, NEW w \in workers, Advance(w)
    PROVE  Typed' /\ job' = job
<1> USE DEF Typed, TypeOK
<1>0. w.turn \in Requests /\ w.out \in Outcome
  BY DEF Worker
<1>1. CASE StartCancelled(w)
  BY <1>1, GotoType DEF StartCancelled, Outcome, JobsAreMinted
<1>2. CASE StartRefused(w)
  BY <1>2, GotoType DEF StartRefused, Outcome, JobsAreMinted
<1>3. CASE StartMessage(w)
  <2>1. turn' \in [Requests -> Turn]
    BY <1>0, <1>3, TurnUpdateType DEF StartMessage, TurnStatus
  <2> QED
    BY <1>0, <1>3, <2>1, GotoType DEF StartMessage, JobsAreMinted
<1>4. CASE StartResume(w)
  BY <1>0, <1>4, GotoType DEF StartResume, JobsAreMinted
<1>5. CASE CompleteTurn(w)
  <2>1. turn' \in [Requests -> Turn]
    BY <1>0, <1>5, TurnUpdateType DEF CompleteTurn, TurnStatus
  <2> QED
    BY <1>5, <2>1, GotoType DEF CompleteTurn, Outcome, JobsAreMinted
<1>6. CASE AskUser(w)
  <2>1. turn' \in [Requests -> Turn]
    BY <1>0, <1>6, TurnUpdateType DEF AskUser, TurnStatus
  <2> QED
    BY <1>6, <2>1, GotoType DEF AskUser, Outcome, JobsAreMinted
<1>7. CASE CancelRun(w)
  <2>1. turn' \in [Requests -> Turn]
    <3> DEFINE status == IF turn[w.turn].status \in TerminalTurn
                         THEN turn[w.turn].status ELSE "cancelled"
    <3>1. status \in TurnStatus
      BY <1>0, TurnStatusType DEF TurnStatus
    <3>2. turn' = [turn EXCEPT ![w.turn].status = status]
      BY <1>7 DEF CancelRun
    <3> HIDE DEF status
    <3> QED
      BY <1>0, <3>1, <3>2, TurnUpdateType
  <2> QED
    BY <1>7, <2>1, GotoType DEF CancelRun, Outcome, JobsAreMinted
<1>8. CASE AskAgain(w)
  BY <1>8, GotoType DEF AskAgain, Outcome, JobsAreMinted
<1>9. CASE CancelResume(w)
  BY <1>9, GotoType DEF CancelResume, Outcome, JobsAreMinted
<1>10. CASE EmitDone(w)
  BY <1>0, <1>10, GotoType, EmittedType DEF EmitDone, JobsAreMinted
<1>11. ASSUME NEW told \in BOOLEAN, FailResume(w, told) PROVE Typed' /\ job' = job
  BY <1>11, GotoType, EmittedType DEF FailResume, Outcome, JobsAreMinted
<1>12. ASSUME NEW told \in BOOLEAN, NEW p \in BOOLEAN, FailTurn(w, p, told)
       PROVE  Typed' /\ job' = job
  <2>1. turn' \in [Requests -> Turn]
    <3> DEFINE status == IF p /\ turn[w.turn].status \notin TerminalTurn
                         THEN "failed" ELSE turn[w.turn].status
    <3>1. status \in TurnStatus
      BY <1>0, TurnStatusType DEF TurnStatus
    <3>2. turn' = [turn EXCEPT ![w.turn].status = status]
      BY <1>12 DEF FailTurn
    <3> HIDE DEF status
    <3> QED
      BY <1>0, <3>1, <3>2, TurnUpdateType
  <2> QED
    BY <1>12, <2>1, GotoType, EmittedType DEF FailTurn, Outcome, JobsAreMinted
<1>13. ASSUME NEW out \in {"succeeded", "waiting_for_user"},
              CompleteResume(w, out)
       PROVE  Typed' /\ job' = job
  BY <1>13, GotoType, EmittedType, ZenonT(60) DEF CompleteResume, Outcome, JobsAreMinted
<1> QED
  BY <1>1, <1>2, <1>3, <1>4, <1>5, <1>6, <1>7, <1>8, <1>9, <1>10, <1>11,
     <1>12, <1>13 DEF Advance

\* finish_job rewrites the row of its worker and the status of its turn.
LEMMA TypedFinish ==
    ASSUME Typed, NEW w \in workers, Finish(w)
    PROVE  /\ Typed'
           /\ workers' = workers \ {w}
           /\ UNCHANGED <<receipts, phase>>
           /\ \A j \in Requests : j # w.job => job'[j] = job[j]
           /\ job'[w.job].thread = job[w.job].thread
           /\ job'[w.job].gen = job[w.job].gen
           /\ ~job'[w.job].wkr
<1>0. /\ w.turn \in Requests /\ w.job \in Requests /\ w.out \in Outcome
      /\ job[w.job] \in Job /\ job \in [Requests -> Job]
      /\ turn \in [Requests -> Turn]
      /\ turn[w.turn].status \in TurnStatus
  <2>1. w.turn \in Requests /\ w.job \in Requests /\ w.out \in Outcome
    BY DEF Typed, TypeOK, Worker
  <2> QED
    BY <2>1, TurnStatusType DEF Typed, TypeOK
<1>1. ASSUME NEW row \in Job, job' = [job EXCEPT ![w.job] = row],
             turn' \in [Requests -> Turn], done' \in [Requests -> Nat],
             workers' = workers \ {w}, row.wkr = FALSE,
             row.thread = job[w.job].thread, row.turn = job[w.job].turn,
             row.stream = job[w.job].stream, row.gen = job[w.job].gen,
             row.status = "none" <=> job[w.job].status = "none",
             UNCHANGED <<thread, ckpt, op, receipts, executed, phase, crashes>>
      PROVE  /\ Typed'
             /\ workers' = workers \ {w}
             /\ UNCHANGED <<receipts, phase>>
             /\ \A j \in Requests : j # w.job => job'[j] = job[j]
             /\ job'[w.job].thread = job[w.job].thread
             /\ job'[w.job].gen = job[w.job].gen
             /\ ~job'[w.job].wkr
  <2>1. TypeOK'
    BY <1>0, <1>1 DEF Typed, TypeOK
  <2>2. JobsAreMinted'
    BY <1>0, <1>1 DEF Typed, JobsAreMinted
  <2> QED
    BY <1>0, <1>1, <2>1, <2>2 DEF Typed
<1>2. CASE FinishSuperseded(w)
  <2> DEFINE row == [job[w.job] EXCEPT !.wkr = FALSE]
  <2>1. row \in Job
    BY <1>0, RowTypes DEF JobStatus
  <2>2. /\ row.wkr = FALSE
        /\ row.thread = job[w.job].thread /\ row.turn = job[w.job].turn
        /\ row.stream = job[w.job].stream /\ row.gen = job[w.job].gen
        /\ row.status = job[w.job].status
    BY <1>0 DEF Job
  <2>3. job' = [job EXCEPT ![w.job] = row]
    BY <1>2 DEF FinishSuperseded
  <2> HIDE DEF row
  <2> QED
    BY <1>0, <1>1, <1>2, <2>1, <2>2, <2>3 DEF FinishSuperseded, Typed, TypeOK
<1>3. CASE FinishUncertain(w)
  <2> DEFINE row == [job[w.job] EXCEPT !.status = "interrupted",
                                       !.verified = FALSE, !.wkr = FALSE,
                                       !.occ = TRUE]
             status == IF turn[w.turn].status \in {"pending", "running"}
                       THEN "failed" ELSE turn[w.turn].status
  <2>1. row \in Job
    BY <1>0, RowTypes DEF JobStatus
  <2>2. /\ row.wkr = FALSE
        /\ row.thread = job[w.job].thread /\ row.turn = job[w.job].turn
        /\ row.stream = job[w.job].stream /\ row.gen = job[w.job].gen
        /\ row.status = "interrupted"
    BY <1>0 DEF Job
  <2>3. job[w.job].status # "none"
    <3>1. job[w.job].stream \in Requests /\ 0 \notin Requests
      BY <1>3 DEF FinishUncertain, OwnsStream, Typed, TypeOK, Worker, Requests
    <3> QED
      BY <1>0, <3>1 DEF Typed, JobsAreMinted
  <2>4. job' = [job EXCEPT ![w.job] = row]
    BY <1>3 DEF FinishUncertain
  <2>5. turn' \in [Requests -> Turn]
    <3>1. status \in TurnStatus
      BY <1>0 DEF TurnStatus
    <3>2. turn' = [turn EXCEPT ![w.turn].status = status]
      BY <1>3 DEF FinishUncertain
    <3> HIDE DEF status
    <3> QED
      BY <1>0, <3>1, <3>2, TurnUpdateType
  <2>6. done' \in [Requests -> Nat]
    BY <1>3, ClosedType DEF FinishUncertain, Typed, TypeOK
  <2> HIDE DEF row
  <2> QED
    BY <1>1, <1>3, <2>1, <2>2, <2>3, <2>4, <2>5, <2>6 DEF FinishUncertain
<1>4. CASE FinishSettled(w)
  <2> DEFINE live == job[w.job].status = "running"
             jobStatus == IF live THEN w.out ELSE job[w.job].status
             occ == jobStatus = "waiting_for_user"
             row == [job[w.job] EXCEPT !.status = jobStatus, !.wkr = FALSE,
                                       !.occ = occ]
             status == IF live /\ turn[w.turn].status \in {"pending", "running"}
                       THEN TurnAfter(w.out) ELSE turn[w.turn].status
  <2>1. jobStatus \in JobStatus /\ occ \in BOOLEAN
    BY <1>0 DEF Job, JobStatus, Outcome
  <2>2. jobStatus = "none" <=> job[w.job].status = "none"
    BY <1>0 DEF Outcome
  <2>3. job' = [job EXCEPT ![w.job] = row]
    BY <1>4 DEF FinishSettled
  <2>4. turn' \in [Requests -> Turn]
    <3>1. status \in TurnStatus
      BY <1>0 DEF TurnStatus, TurnAfter, Outcome
    <3>2. turn' = [turn EXCEPT ![w.turn].status = status]
      BY <1>4 DEF FinishSettled
    <3> HIDE DEF status
    <3> QED
      BY <1>0, <3>1, <3>2, TurnUpdateType
  <2>5. done' \in [Requests -> Nat]
    BY <1>4, ClosedType DEF FinishSettled, Typed, TypeOK
  <2> HIDE DEF jobStatus, occ
  <2>6. row \in Job
    BY <1>0, <2>1, RowTypes
  <2>7. /\ row.wkr = FALSE /\ row.status = jobStatus
        /\ row.thread = job[w.job].thread /\ row.turn = job[w.job].turn
        /\ row.stream = job[w.job].stream /\ row.gen = job[w.job].gen
    BY <1>0 DEF Job
  <2> HIDE DEF row
  <2> QED
    BY <1>1, <1>4, <2>2, <2>3, <2>4, <2>5, <2>6, <2>7 DEF FinishSettled
<1> QED
  BY <1>2, <1>3, <1>4 DEF Finish

\* What else a worker does, and operations, touch neither rows nor workers.
LEMMA TypedBeside ==
    ASSUME Typed
    PROVE  /\ \A w \in workers : Interrupt(w) \/ StartOperation(w) =>
                 Typed' /\ UNCHANGED <<job, receipts, workers, phase>>
           /\ \A u \in Requests : EndOperation(u) =>
                 Typed' /\ UNCHANGED <<job, receipts, workers, phase>>
<1>1. ASSUME NEW w \in workers, Interrupt(w)
      PROVE  Typed' /\ UNCHANGED <<job, receipts, workers, phase>>
  BY <1>1 DEF Interrupt, Typed, TypeOK, JobsAreMinted
<1>2. ASSUME NEW w \in workers, StartOperation(w)
      PROVE  Typed' /\ UNCHANGED <<job, receipts, workers, phase>>
  BY <1>2 DEF StartOperation, Typed, TypeOK, JobsAreMinted
<1>3. ASSUME NEW u \in Requests, EndOperation(u)
      PROVE  Typed' /\ UNCHANGED <<job, receipts, workers, phase>>
  BY <1>3 DEF EndOperation, Typed, TypeOK, JobsAreMinted
<1> QED
  BY <1>1, <1>2, <1>3

LEMMA TypedCrash == ASSUME Typed, Crash PROVE Typed'
  BY DEF Crash, Typed, TypeOK, JobsAreMinted

LEMMA TypedRecoverTurns == ASSUME Typed, RecoverTurns PROVE Typed'
<1>1. turn' \in [Requests -> Turn]
  <2>1. ASSUME NEW u \in Requests
        PROVE  [turn[u] EXCEPT !.status = "failed"] \in Turn
    BY DEF Typed, TypeOK, Turn, TurnStatus
  <2> QED
    BY <2>1 DEF RecoverTurns, Typed, TypeOK
<1>2. thread' \in [Threads -> {"active", "running", "paused"}]
  BY DEF RecoverTurns, Typed, TypeOK
<1>3. TypeOK'
  BY <1>1, <1>2 DEF RecoverTurns, Typed, TypeOK
<1>4. JobsAreMinted'
  BY DEF RecoverTurns, Typed, JobsAreMinted
<1> QED
  BY <1>3, <1>4 DEF Typed

\* A row nobody accepted stays blank: it has no turn and no worker mark.
LEMMA RecoveredStatusType ==
    ASSUME Typed, NEW j \in Requests
    PROVE  /\ RecoveredStatus(j) \in JobStatus
           /\ RecoveredStatus(j) = "none" <=> job[j].status = "none"
<1>1. job[j] \in Job
  BY DEF Typed, TypeOK
<1>2. RecoveredStatus(j) \in JobStatus
  BY <1>1 DEF RecoveredStatus, Job, JobStatus
<1>3. RecoveredStatus(j) = "none" <=> job[j].status = "none"
  BY DEF RecoveredStatus, Uncertain, Typed, JobsAreMinted
<1> QED
  BY <1>2, <1>3

LEMMA TypedRecoverJobs == ASSUME Typed, RecoverJobs PROVE Typed'
<1> DEFINE rewritten(j) == \/ Uncertain(job[j].turn)
                           \/ RecoveredStatus(j) # job[j].status
           verified(j) == job[j].verified /\ ~rewritten(j)
           occ(j) == /\ job[j].occ \/ Uncertain(job[j].turn)
                     /\ RecoveredStatus(j) \notin
                          {"succeeded", "failed", "cancelled"}
           row(j) == [job[j] EXCEPT !.status = RecoveredStatus(j),
                                    !.verified = verified(j),
                                    !.wkr = FALSE, !.occ = occ(j)]
<1>1. job' = [j \in Requests |-> row(j)]
  BY DEF RecoverJobs
<1>2. ASSUME NEW j \in Requests
      PROVE  /\ row(j) \in Job
             /\ row(j).status = RecoveredStatus(j) /\ row(j).wkr = FALSE
             /\ row(j).thread = job[j].thread /\ row(j).turn = job[j].turn
             /\ row(j).stream = job[j].stream
  <2>1. job[j] \in Job
    BY DEF Typed, TypeOK
  <2>2. RecoveredStatus(j) \in JobStatus
    BY RecoveredStatusType
  <2>3. verified(j) \in BOOLEAN /\ occ(j) \in BOOLEAN
    BY <2>1 DEF Job
  <2> HIDE DEF verified, occ
  <2>4. row(j) \in Job
    BY <2>1, <2>2, <2>3, RowTypes
  <2> QED
    BY <2>1, <2>4 DEF Job
<1> HIDE DEF row
<1>3. job' \in [Requests -> Job]
  BY <1>1, <1>2
<1>4. op' \in [Requests -> SUBSET {"running", "uncertain"}]
  BY DEF RecoverJobs, Typed, TypeOK
<1>5. done' \in [Requests -> Nat]
  BY ClosedType DEF RecoverJobs, Typed, TypeOK
<1>6. TypeOK'
  BY <1>3, <1>4, <1>5 DEF RecoverJobs, Typed, TypeOK
<1>7. JobsAreMinted'
  <2>1. receipts' = receipts
    BY DEF RecoverJobs
  <2> QED
    BY <1>1, <1>2, <2>1, RecoveredStatusType, ZenonT(60) DEF Typed, JobsAreMinted
<1> QED
  BY <1>6, <1>7 DEF Typed

LEMMA TypedStep == ASSUME Typed, [Next]_vars PROVE Typed'
<1>1. CASE Client
  BY <1>1, TypedQueueMessage, TypedAnswerWaiting, TypedResume,
     TypedAcceptOccurrence, TypedEditAutomation, TypedCancelTurn,
     TypedAcknowledgeStopped DEF Client, Accept
<1>2. CASE Claim
  BY <1>2, TypedClaimNext DEF Claim
<1>3. CASE Work
  BY <1>3, TypedAdvance, TypedFinish, TypedBeside DEF Work
<1>4. CASE EndOperations
  BY <1>4, TypedBeside DEF EndOperations
<1>5. CASE Crash \/ RecoverTurns \/ RecoverJobs
  BY <1>5, TypedCrash, TypedRecoverTurns, TypedRecoverJobs
<1>6. CASE UNCHANGED vars
  BY <1>6 DEF vars, Typed, TypeOK, JobsAreMinted
<1> QED
  BY <1>1, <1>2, <1>3, <1>4, <1>5, <1>6 DEF Next

\* Every reachable state is well-typed, for any number of requests and
\* crashes: each transaction of commands.rs keeps every row in its domain.
THEOREM TypeCorrect == Spec => []TypeOK
<1>1. Init => Typed
  BY TypedInit
<1>2. Typed /\ [Next]_vars => Typed'
  BY TypedStep
<1>3. Typed => TypeOK
  BY DEF Typed
<1> QED
  BY <1>1, <1>2, <1>3, PTL DEF Spec

\* A row is complete from the transaction that accepts its request on.
THEOREM MintedCorrect == Spec => []JobsAreMinted
<1>1. Init => Typed
  BY TypedInit
<1>2. Typed /\ [Next]_vars => Typed'
  BY TypedStep
<1>3. Typed => JobsAreMinted
  BY DEF Typed
<1> QED
  BY <1>1, <1>2, <1>3, PTL DEF Spec

-----------------------------------------------------------------------------
(* Workers.  WorkersOwnTheirJobs is what makes mutual exclusion inductive: *)
(* the worker_active mark that claim_next tests is set for every worker.   *)

WorkerInv == /\ WorkersOwnTheirJobs
             /\ OneWorkerPerThread
             /\ NothingRunsBesideInterrupted

\* A worker's row is one somebody accepted.
LEMMA WorkerRow ==
    ASSUME Typed, WorkerInv, NEW w \in workers
    PROVE  /\ w.job \in Requests /\ w \in Worker /\ job[w.job] \in Job
           /\ w.job \in receipts
           /\ job[w.job].wkr /\ job[w.job].gen = w.gen
           /\ job[w.job].thread = w.thread /\ w.thread \in Threads
           /\ job[w.job].status \in {"running", "queued", "cancelled"}
           /\ phase = "up"
  BY DEF Typed, TypeOK, Worker, JobsAreMinted, WorkerInv, WorkersOwnTheirJobs

\* What a transaction may do to the rows without disturbing the workers.
RowsKept ==
    \A j \in Requests :
        /\ job[j].wkr =>
             /\ job'[j].wkr /\ job'[j].gen = job[j].gen
             /\ job'[j].thread = job[j].thread
             /\ job[j].status \in {"running", "queued", "cancelled"} =>
                  job'[j].status \in {"running", "queued", "cancelled"}
        /\ job'[j].status = "interrupted" /\ ~job'[j].verified =>
             /\ Unconfirmed(j)
             /\ job'[j].thread = job[j].thread

LEMMA WorkersKept ==
    ASSUME Typed, WorkerInv, RowsKept, UNCHANGED <<workers, phase>>
    PROVE  WorkerInv'
<1>1. WorkersOwnTheirJobs'
  <2>1. ASSUME NEW w \in workers
        PROVE  /\ phase' = "up" /\ job'[w.job].wkr /\ job'[w.job].gen = w.gen
               /\ job'[w.job].thread = w.thread
               /\ job'[w.job].status \in {"running", "queued", "cancelled"}
    BY WorkerRow DEF RowsKept
  <2> QED
    BY <2>1 DEF WorkersOwnTheirJobs
<1>2. OneWorkerPerThread'
  BY DEF WorkerInv, OneWorkerPerThread
<1>3. NothingRunsBesideInterrupted'
  <2>1. ASSUME NEW w \in workers, NEW j \in Requests,
               job'[j].thread = w.thread,
               job'[j].status = "interrupted", ~job'[j].verified
        PROVE  FALSE
    BY <2>1 DEF RowsKept, WorkerInv, NothingRunsBesideInterrupted, JobsOn
  <2> QED
    BY <2>1 DEF NothingRunsBesideInterrupted, JobsOn, Unconfirmed
<1> QED
  BY <1>1, <1>2, <1>3 DEF WorkerInv

\* A freshly accepted request never reuses the row of a worker.
LEMMA FreshRow ==
    ASSUME Typed, NEW r \in Requests, Fresh(r)
    PROVE  job[r].status = "none" /\ ~job[r].wkr
  BY DEF Fresh, Receipt, Typed, JobsAreMinted

LEMMA QueueMessageKeeps ==
    ASSUME Typed, NEW r \in Requests, NEW t \in Threads, QueueMessage(r, t)
    PROVE  RowsKept
<1>1. ~job[r].wkr
  BY FreshRow DEF QueueMessage
<1>2. job' = [job EXCEPT ![r] =
                 QueuedJob(r, t, r, "message.send", NoAutomation)]
  BY DEF QueueMessage
<1> QED
  BY <1>1, <1>2 DEF RowsKept, QueuedJob, Unconfirmed, Typed, TypeOK

LEMMA AcceptOccurrenceKeeps ==
    ASSUME Typed, NEW r \in Requests, NEW t \in Threads,
           NEW a \in Automations, NEW timer \in BOOLEAN,
           AcceptOccurrence(r, a, t, timer)
    PROVE  RowsKept
<1> DEFINE W == IF timer THEN Withdrawn(a) ELSE {}
<1>1. ~job[r].wkr
  BY FreshRow DEF AcceptOccurrence
<1>2. job' = [WithdrawnJobs(W) EXCEPT ![r] =
                 QueuedJob(r, t, r, "message.send", a)]
  BY DEF AcceptOccurrence
<1>3. ASSUME NEW j \in Requests
      PROVE  /\ job[j].wkr => WithdrawnJobs(W)[j] = job[j]
             /\ WithdrawnJobs(W)[j].status # "cancelled"
                  => WithdrawnJobs(W)[j] = job[j]
  <2>1. job[j] \in Job
    BY DEF Typed, TypeOK
  <2> QED
    BY <2>1 DEF WithdrawnJobs, Withdrawn, Job
<1>4. WithdrawnJobs(W) = [j \in Requests |-> WithdrawnJobs(W)[j]]
  BY DEF WithdrawnJobs
<1> HIDE DEF W
<1>5. ASSUME NEW j \in Requests, j # r PROVE job'[j] = WithdrawnJobs(W)[j]
  BY <1>2, <1>4, <1>5
<1>6. job'[r] = QueuedJob(r, t, r, "message.send", a)
  BY <1>2, <1>4
<1> QED
  BY <1>1, <1>3, <1>5, <1>6 DEF RowsKept, QueuedJob, Unconfirmed

LEMMA EditAutomationKeeps ==
    ASSUME Typed, NEW a \in Automations, EditAutomation(a)
    PROVE  RowsKept
<1>1. ASSUME NEW j \in Requests
      PROVE  /\ job[j].wkr => job'[j] = job[j]
             /\ job'[j].status # "cancelled" => job'[j] = job[j]
  <2>1. job[j] \in Job
    BY DEF Typed, TypeOK
  <2> QED
    BY <2>1 DEF EditAutomation, WithdrawnJobs, Withdrawn, Job
<1> QED
  BY <1>1 DEF RowsKept, Unconfirmed

\* Answering or resuming moves a row to a new stream under its old worker.
LEMMA RequeueKeeps ==
    ASSUME Typed, NEW j \in Requests, NEW row, job' = [job EXCEPT ![j] = row],
           row.status = "queued", row.wkr = job[j].wkr,
           row.gen = job[j].gen, row.thread = job[j].thread
    PROVE  RowsKept
  BY DEF RowsKept, Unconfirmed, Typed, TypeOK

LEMMA AnswerWaitingKeeps ==
    ASSUME Typed, NEW r \in Requests, NEW t \in Threads, AnswerWaiting(r, t)
    PROVE  RowsKept
<1> DEFINE waiting == {k \in JobsOn(t) : job[k].status = "waiting_for_user"}
           j == Least(waiting)
           row == [job[j] EXCEPT !.status = "queued", !.turn = r,
                                 !.stream = r, !.cmd = "message.send",
                                 !.verified = FALSE]
<1>1. j \in Requests
  <2>1. waiting \in SUBSET Requests /\ waiting # {}
    BY DEF AnswerWaiting, JobsOn
  <2> QED
    BY <2>1, LeastIsMember
<1>2. job' = [job EXCEPT ![j] = row]
  BY DEF AnswerWaiting
<1>3. /\ row.status = "queued" /\ row.wkr = job[j].wkr
      /\ row.gen = job[j].gen /\ row.thread = job[j].thread
  <2>1. job[j] \in Job
    BY <1>1 DEF Typed, TypeOK
  <2> QED
    BY <2>1 DEF Job
<1> HIDE DEF j, row
<1> QED
  BY <1>1, <1>2, <1>3, RequeueKeeps

LEMMA ResumeKeeps ==
    ASSUME Typed, NEW r \in Requests, NEW t \in Threads, NEW u, NEW turns,
           ResumeWith(r, t, u, turns)
    PROVE  RowsKept
<1> DEFINE live == {k \in Requests : /\ job[k].turn = u
                                     /\ job[k].status \in
                                          {"running", "waiting_for_user"}}
<1>1. CASE live # {}
  <2> DEFINE j == Least(live)
             row == [job[j] EXCEPT !.status = "queued", !.stream = r,
                                   !.cmd = "thread.resume",
                                   !.verified = FALSE]
  <2>1. j \in Requests
    <3>1. live \in SUBSET Requests
      OBVIOUS
    <3> HIDE DEF live
    <3> QED
      BY <1>1, <3>1, LeastIsMember
  <2>2. job' = [job EXCEPT ![j] = row]
    BY <1>1 DEF ResumeWith
  <2>3. /\ row.status = "queued" /\ row.wkr = job[j].wkr
        /\ row.gen = job[j].gen /\ row.thread = job[j].thread
    <3>1. job[j] \in Job
      BY <2>1 DEF Typed, TypeOK
    <3> QED
      BY <3>1 DEF Job
  <2> HIDE DEF j, row
  <2> QED
    BY <2>1, <2>2, <2>3, RequeueKeeps
<1>2. CASE live = {}
  <2>1. ~job[r].wkr
    BY FreshRow DEF ResumeWith
  <2>2. job' = [job EXCEPT ![r] =
                   QueuedJob(r, t, u, "thread.resume", NoAutomation)]
    BY <1>2 DEF ResumeWith
  <2> QED
    BY <2>1, <2>2 DEF RowsKept, QueuedJob, Unconfirmed, Typed, TypeOK
<1> QED
  BY <1>1, <1>2

\* Cancelling keeps the mark of the worker: it still has to clean up.
LEMMA CancelTurnKeeps ==
    ASSUME Typed, NEW u \in Requests, CancelTurn(u)
    PROVE  RowsKept
<1>1. ASSUME NEW j \in Requests
      PROVE  /\ job'[j].wkr = job[j].wkr /\ job'[j].gen = job[j].gen
             /\ job'[j].thread = job[j].thread
             /\ job'[j].verified = job[j].verified
             /\ \/ job'[j].status = job[j].status
                \/ job'[j].status = "cancelled"
  <2>1. job[j] \in Job
    BY DEF Typed, TypeOK
  <2> QED
    BY <2>1 DEF CancelTurn, Cancellable, Job
<1> QED
  BY <1>1 DEF RowsKept, Unconfirmed

LEMMA AcknowledgeStoppedKeeps ==
    ASSUME Typed, WorkerInv, NEW u \in Requests, AcknowledgeStopped(u)
    PROVE  WorkerInv'
<1>1. ASSUME NEW j \in Requests
      PROVE  /\ job'[j].gen = job[j].gen
             /\ job'[j].thread = job[j].thread
             /\ job'[j].status = job[j].status
             /\ job[j].verified => job'[j].verified
             /\ job[j].status # "interrupted" => job'[j].wkr = job[j].wkr
  <2>1. job[j] \in Job
    BY DEF Typed, TypeOK
  <2> QED
    BY <2>1 DEF AcknowledgeStopped, Unconfirmed, Job
<1>2. UNCHANGED <<workers, phase>>
  BY DEF AcknowledgeStopped
<1>3. WorkersOwnTheirJobs'
  BY <1>1, <1>2, WorkerRow DEF WorkersOwnTheirJobs
<1>4. OneWorkerPerThread'
  BY <1>2 DEF WorkerInv, OneWorkerPerThread
<1>5. NothingRunsBesideInterrupted'
  BY <1>1, <1>2
     DEF WorkerInv, NothingRunsBesideInterrupted, JobsOn, Unconfirmed
<1> QED
  BY <1>3, <1>4, <1>5 DEF WorkerInv

-----------------------------------------------------------------------------
(* claim_next, the workers and recovery                                    *)

LEMMA ClaimNextWorkers ==
    ASSUME Typed, WorkerInv, NEW q \in Requests, ClaimNext(q)
    PROVE  WorkerInv'
<1> DEFINE t == job[q].thread
           new == NewWorker(q)
<1>1. /\ job[q].status = "queued" /\ ~job[q].wkr /\ t \in Threads
      /\ \A a \in Requests : job[a].thread = t /\ a # q => ~Holds(a)
  BY DEF ClaimNext, Claimable, JobsOn, Typed, JobsAreMinted
<1>2. \A w \in workers : w.thread # t
  <2>1. ASSUME NEW w \in workers, w.thread = t PROVE FALSE
    <3>1. job[w.job].wkr /\ job[w.job].thread = t /\ w.job \in Requests
      BY <2>1, WorkerRow
    <3>2. w.job # q /\ Holds(w.job)
      BY <1>1, <3>1 DEF Holds
    <3> QED
      BY <1>1, <3>1, <3>2
  <2> QED
    BY <2>1
<1>3. /\ new.job = q /\ new.thread = t /\ new.gen = job[q].gen + 1
  BY DEF NewWorker
<1>4. workers' = workers \cup {new} /\ phase' = "up" /\ phase = "up"
  BY DEF ClaimNext
<1>5. /\ job'[q].status = "running" /\ job'[q].wkr
      /\ job'[q].gen = job[q].gen + 1 /\ job'[q].thread = t
  <2>1. Reoccupied[q] \in Job /\ Reoccupied[q].thread = t
    BY ReoccupiedType
  <2>2. job'[q] = [Reoccupied[q] EXCEPT !.status = "running", !.occ = TRUE,
                                        !.wkr = TRUE, !.gen = job[q].gen + 1]
    BY ReoccupiedType DEF ClaimNext
  <2> HIDE DEF Reoccupied
  <2> QED
    BY <2>1, <2>2 DEF Job
<1>6. ASSUME NEW j \in Requests, j # q
      PROVE  /\ job'[j].status = job[j].status /\ job'[j].wkr = job[j].wkr
             /\ job'[j].gen = job[j].gen /\ job'[j].thread = job[j].thread
             /\ job'[j].verified = job[j].verified
  <2>1. job'[j] = Reoccupied[j]
    BY <1>6, ReoccupiedType DEF ClaimNext
  <2>2. Reoccupied[j].verified = job[j].verified
    BY DEF Reoccupied, Typed, TypeOK, Job
  <2> QED
    BY <2>1, <2>2, ReoccupiedType
<1> HIDE DEF new
<1>7. ASSUME NEW w \in workers
      PROVE  /\ job'[w.job].wkr /\ job'[w.job].gen = w.gen
             /\ job'[w.job].thread = w.thread
             /\ job'[w.job].status \in {"running", "queued", "cancelled"}
  <2>1. w.job # q
    BY <1>1, WorkerRow
  <2> QED
    BY <1>6, <2>1, WorkerRow
<1>8. WorkersOwnTheirJobs'
  BY <1>3, <1>4, <1>5, <1>7 DEF WorkersOwnTheirJobs
<1>9. OneWorkerPerThread'
  BY <1>2, <1>3, <1>4 DEF WorkerInv, OneWorkerPerThread
<1>10. NothingRunsBesideInterrupted'
  <2>1. ASSUME NEW w \in workers', NEW j \in Requests,
               job'[j].thread = w.thread,
               job'[j].status = "interrupted", ~job'[j].verified
        PROVE  FALSE
    <3>1. j # q /\ job[j].thread = w.thread /\ Unconfirmed(j)
      BY <1>5, <1>6, <2>1 DEF Unconfirmed
    <3>2. CASE w = new
      BY <1>1, <1>3, <3>1, <3>2 DEF Holds
    <3>3. CASE w \in workers
      BY <3>1, <3>3 DEF WorkerInv, NothingRunsBesideInterrupted, JobsOn
    <3> QED
      BY <1>4, <3>2, <3>3
  <2> QED
    BY <2>1 DEF NothingRunsBesideInterrupted, JobsOn, Unconfirmed
<1> QED
  BY <1>8, <1>9, <1>10 DEF WorkerInv

\* A step before finish_job replaces a worker by itself at another pc.
LEMMA AdvanceWorkers ==
    ASSUME Typed, WorkerInv, NEW w \in workers, Advance(w)
    PROVE  WorkerInv'
<1>1. PICK pc, out :
         workers' = (workers \ {w}) \cup {[w EXCEPT !.pc = pc, !.out = out]}
  BY DEF Advance, StartCancelled, StartRefused, StartMessage, StartResume,
         CompleteTurn, AskUser, CancelRun, AskAgain, CancelResume, EmitDone,
         FailResume, FailTurn, CompleteResume, Goto
<1>2. job' = job /\ phase' = phase
  BY TypedAdvance
     DEF Advance, StartCancelled, StartRefused, StartMessage, StartResume,
         CompleteTurn, AskUser, CancelRun, AskAgain, CancelResume, EmitDone,
         FailResume, FailTurn, CompleteResume
<1> DEFINE v == [w EXCEPT !.pc = pc, !.out = out]
<1>3. v.job = w.job /\ v.gen = w.gen /\ v.thread = w.thread
  BY WorkerRow DEF Worker
<1> HIDE DEF v
<1>4. workers' = (workers \ {w}) \cup {v}
  BY <1>1 DEF v
<1>5. WorkersOwnTheirJobs'
  BY <1>2, <1>3, <1>4 DEF WorkerInv, WorkersOwnTheirJobs
<1>6. OneWorkerPerThread'
  BY <1>3, <1>4 DEF WorkerInv, OneWorkerPerThread
<1>7. NothingRunsBesideInterrupted'
  BY <1>2, <1>3, <1>4
     DEF WorkerInv, NothingRunsBesideInterrupted, JobsOn, Unconfirmed
<1> QED
  BY <1>5, <1>6, <1>7 DEF WorkerInv

\* finish_job touches only its own row and takes its worker away; the other
\* workers run on other threads.
LEMMA FinishWorkers ==
    ASSUME Typed, WorkerInv, NEW w \in workers, Finish(w)
    PROVE  WorkerInv'
<1>1. /\ workers' = workers \ {w} /\ phase' = phase
      /\ \A j \in Requests : j # w.job => job'[j] = job[j]
      /\ job'[w.job].thread = w.thread
  BY TypedFinish, WorkerRow
<1>2. ASSUME NEW v \in workers' PROVE v.thread # w.thread /\ v.job # w.job
  BY <1>1, WorkerRow DEF WorkerInv, OneWorkerPerThread
<1>3. WorkersOwnTheirJobs'
  BY <1>1, <1>2, WorkerRow DEF WorkersOwnTheirJobs
<1>4. OneWorkerPerThread'
  BY <1>1 DEF WorkerInv, OneWorkerPerThread
<1>5. NothingRunsBesideInterrupted'
  BY <1>1, <1>2
     DEF WorkerInv, NothingRunsBesideInterrupted, JobsOn, Unconfirmed
<1> QED
  BY <1>3, <1>4, <1>5 DEF WorkerInv

\* A stopped server has no workers, and recovery starts none.
LEMMA RestartWorkers ==
    ASSUME Typed, WorkerInv, Crash \/ RecoverTurns \/ RecoverJobs
    PROVE  WorkerInv'
<1>1. workers' = {}
  BY WorkerRow DEF Crash, RecoverTurns, RecoverJobs
<1> QED
  BY <1>1 DEF WorkerInv, WorkersOwnTheirJobs, OneWorkerPerThread,
              NothingRunsBesideInterrupted

LEMMA WorkerStep ==
    ASSUME Typed, WorkerInv, [Next]_vars
    PROVE  WorkerInv'
<1>1. CASE Client
  <2>1. ASSUME NEW r \in Requests, NEW t \in Threads,
               \/ QueueMessage(r, t) \/ AnswerWaiting(r, t)
               \/ ResumeWaitingTurn(r, t) \/ ResumeNewTurn(r, t)
        PROVE  RowsKept /\ UNCHANGED <<workers, phase>>
    <3>1. CASE QueueMessage(r, t)
      BY <3>1, QueueMessageKeeps DEF QueueMessage
    <3>2. CASE AnswerWaiting(r, t)
      BY <3>2, AnswerWaitingKeeps DEF AnswerWaiting
    <3>3. CASE ResumeWaitingTurn(r, t) \/ ResumeNewTurn(r, t)
      <4>1. PICK u, turns : ResumeWith(r, t, u, turns)
        BY <3>3 DEF ResumeWaitingTurn, ResumeNewTurn
      <4> QED
        BY <4>1, ResumeKeeps DEF ResumeWith
    <3> QED
      BY <2>1, <3>1, <3>2, <3>3
  <2>2. ASSUME NEW r \in Requests, NEW t \in Threads, NEW a \in Automations,
               NEW timer \in BOOLEAN, AcceptOccurrence(r, a, t, timer)
        PROVE  RowsKept /\ UNCHANGED <<workers, phase>>
    BY <2>2, AcceptOccurrenceKeeps DEF AcceptOccurrence
  <2>3. ASSUME NEW a \in Automations, EditAutomation(a)
        PROVE  RowsKept /\ UNCHANGED <<workers, phase>>
    BY <2>3, EditAutomationKeeps DEF EditAutomation
  <2>4. ASSUME NEW u \in Requests, CancelTurn(u)
        PROVE  RowsKept /\ UNCHANGED <<workers, phase>>
    BY <2>4, CancelTurnKeeps DEF CancelTurn
  <2>5. \/ RowsKept /\ UNCHANGED <<workers, phase>>
        \/ \E u \in Requests : AcknowledgeStopped(u)
    BY <1>1, <2>1, <2>2, <2>3, <2>4 DEF Client, Accept
  <2> QED
    BY <2>5, WorkersKept, AcknowledgeStoppedKeeps
<1>2. CASE Claim
  BY <1>2, ClaimNextWorkers DEF Claim
<1>3. CASE Work
  <2>1. PICK w \in workers :
           Advance(w) \/ Finish(w) \/ Interrupt(w) \/ StartOperation(w)
    BY <1>3 DEF Work
  <2>2. CASE Advance(w)
    BY <2>2, AdvanceWorkers
  <2>3. CASE Finish(w)
    BY <2>3, FinishWorkers
  <2>4. CASE Interrupt(w) \/ StartOperation(w)
    <3>1. UNCHANGED <<job, workers, phase>>
      BY <2>4, TypedBeside
    <3>2. RowsKept
      BY <3>1 DEF RowsKept, Unconfirmed
    <3> QED
      BY <3>1, <3>2, WorkersKept
  <2> QED
    BY <2>1, <2>2, <2>3, <2>4
<1>4. CASE EndOperations
  <2>1. UNCHANGED <<job, workers, phase>>
    BY <1>4, TypedBeside DEF EndOperations
  <2>2. RowsKept
    BY <2>1 DEF RowsKept, Unconfirmed
  <2> QED
    BY <2>1, <2>2, WorkersKept
<1>5. CASE Crash \/ RecoverTurns \/ RecoverJobs
  BY <1>5, RestartWorkers
<1>6. CASE UNCHANGED vars
  <2>1. UNCHANGED <<job, workers, phase>>
    BY <1>6 DEF vars
  <2>2. RowsKept
    BY <2>1 DEF RowsKept, Unconfirmed
  <2> QED
    BY <2>1, <2>2, WorkersKept
<1> QED
  BY <1>1, <1>2, <1>3, <1>4, <1>5, <1>6 DEF Next

LEMMA WorkerInvariant == Spec => [](Typed /\ WorkerInv)
<1>1. Init => Typed /\ WorkerInv
  BY TypedInit DEF Init, WorkerInv, WorkersOwnTheirJobs, OneWorkerPerThread,
                   NothingRunsBesideInterrupted
<1>2. (Typed /\ WorkerInv) /\ [Next]_vars => (Typed /\ WorkerInv)'
  BY TypedStep, WorkerStep
<1> QED
  BY <1>1, <1>2, PTL DEF Spec

\* One task thread never has two workers: what claim_next, the generation
\* fence of finish_job and the worker_active mark are for, whatever clients
\* cancel, answer, resume or confirm and whenever the server stops.
THEOREM MutualExclusion == Spec => []OneWorkerPerThread
<1>1. WorkerInv => OneWorkerPerThread
  BY DEF WorkerInv
<1> QED
  BY <1>1, WorkerInvariant, PTL

\* No worker runs on a thread whose interrupted work nobody has confirmed.
THEOREM InterruptedExclusion == Spec => []NothingRunsBesideInterrupted
<1>1. WorkerInv => NothingRunsBesideInterrupted
  BY DEF WorkerInv
<1> QED
  BY <1>1, WorkerInvariant, PTL

\* No worker ever finds its row re-claimed under it, so the early return of
\* finish_job on another generation is never taken.
THEOREM WorkersKeepTheirRows == Spec => []WorkersOwnTheirJobs
<1>1. WorkerInv => WorkersOwnTheirJobs
  BY DEF WorkerInv
<1> QED
  BY <1>1, WorkerInvariant, PTL

-----------------------------------------------------------------------------
(* Owners of threads, turns and streams                                    *)

Minted(j) == job[j].status # "none"

\* Jobs, turns and workers agree on what belongs together, and are numbered by
\* accepted requests.
Matched ==
    /\ \A u \in Requests : turn[u].status # "none" => u \in receipts
    /\ \A j \in Requests :
         Minted(j) => /\ job[j].turn \in receipts /\ job[j].stream \in receipts
                      /\ turn[job[j].turn].thread = job[j].thread
    /\ \A w \in workers : /\ w.turn \in receipts /\ w.stream \in receipts
                          /\ job[w.job].auto = w.auto

\* Work that runs, waits or is to be continued occupies its thread.
Reserved ==
    /\ \A j \in Requests :
         \/ job[j].status \in {"running", "waiting_for_user"}
         \/ job[j].status = "queued" /\ job[j].gen > 0
         => job[j].occ
    /\ \A w \in workers : job[w.job].occ

\* A stream belongs to one job and one worker, and a job that was queued again
\* under its worker has left the stream to it.
OwnStreams ==
    /\ \A j, k \in Requests :
         Minted(j) /\ Minted(k) /\ job[j].stream = job[k].stream => j = k
    /\ \A w \in workers : \A j \in Requests :
         Minted(j) /\ job[j].stream = w.stream =>
           j = w.job /\ job[j].status # "queued"
    /\ \A v, w \in workers : v.stream = w.stream => v = w

\* The stream of queued work, and of a worker that still owes the terminal
\* event, has none; that of work which ended has one.
Told ==
    /\ \A s \in Requests : done[s] \in {0, 1} /\ (done[s] # 0 => s \in receipts)
    /\ \A j \in Requests :
         /\ job[j].status = "queued" => done[job[j].stream] = 0
         /\ job[j].status \in {"succeeded", "failed", "interrupted"} =>
              done[job[j].stream] = 1
    /\ \A w \in workers : w.pc # "finish" => done[w.stream] = 0

OwnerInv == /\ Typed /\ WorkerInv
            /\ Matched /\ Reserved /\ OneOwnerPerThread /\ OwnStreams /\ Told

-----------------------------------------------------------------------------
(* What a transaction may do to the rows it does not mint or finish        *)

\* The row keeps what it is, unless a cancellation ends it or a person confirms
\* that it stopped.
RowKept(j) ==
    /\ job'[j].thread = job[j].thread /\ job'[j].turn = job[j].turn
    /\ job'[j].stream = job[j].stream /\ job'[j].auto = job[j].auto
    /\ job'[j].gen = job[j].gen
    /\ \/ /\ job'[j].status = job[j].status /\ job'[j].occ = job[j].occ
          /\ job'[j].wkr = job[j].wkr
       \/ /\ job[j].status \in {"queued", "running", "waiting_for_user"}
          /\ job'[j].status = "cancelled"
          /\ job'[j].wkr = job[j].wkr
          /\ job'[j].occ = (job[j].occ /\ job[j].wkr)
       \/ /\ job[j].status = "interrupted" /\ job'[j].status = "interrupted"
          /\ job'[j].occ => job[j].occ

\* The only streams it closes are those of queued jobs it cancels.
StreamsKept ==
    \A s \in Requests :
        \/ done'[s] = done[s]
        \/ /\ done'[s] \in {0, 1}
           /\ \E j \in Requests : /\ job[j].status = "queued" /\ job[j].stream = s
                                  /\ job'[j].status = "cancelled"

\* No turn changes its thread, and none is minted or becomes active.
TurnsKept ==
    \A u \in Requests :
        /\ turn'[u].thread = turn[u].thread
        /\ turn'[u].status # "none" => turn[u].status # "none" \/ u \in receipts
        /\ turn'[u].status \in ActiveTurn => turn[u].status \in ActiveTurn

\* A command takes the next request: job k, new or continued, is queued for it.
Minting(r, t, k) ==
    /\ r \notin receipts /\ receipts' = receipts \cup {r}
    /\ UNCHANGED workers
    /\ \A j \in Requests \ {k} : RowKept(j)
    /\ job'[k].status = "queued" /\ job'[k].stream = r /\ job'[k].thread = t
    /\ \/ k = r /\ job'[k].occ = FALSE /\ job'[k].gen = 0
       \/ /\ job[k].status \in {"running", "waiting_for_user"}
          /\ job[k].thread = t /\ job'[k].occ = job[k].occ
          /\ job'[k].gen = job[k].gen /\ job'[k].auto = job[k].auto
    /\ job'[k].turn \in receipts'
    /\ turn'[job'[k].turn].thread = t
    /\ \A u \in Requests \ {r} :
         /\ turn'[u].thread = turn[u].thread
         /\ turn'[u].status = "none" <=> turn[u].status = "none"

\* Everything else a client does.
Ending ==
    /\ UNCHANGED <<receipts, workers>>
    /\ \A j \in Requests : RowKept(j)
    /\ StreamsKept

\* A row nobody accepted is blank, and a fresh request has no stream yet.
LEMMA FreshRequest ==
    ASSUME OwnerInv, NEW r \in Requests, Fresh(r)
    PROVE  /\ r \notin receipts /\ ~Minted(r) /\ turn[r].status = "none"
           /\ \A j \in Requests : Minted(j) =>
                job[j].turn # r /\ job[j].stream # r
           /\ \A w \in workers : w.stream # r
           /\ done[r] = 0
<1>1. r \notin receipts
  BY DEF Fresh, Receipt
<1> QED
  BY <1>1 DEF OwnerInv, Typed, JobsAreMinted, Matched, Told, Minted

\* Counters that are 0 or 1 stay so when streams are closed.
LEMMA ClosedOnce ==
    ASSUME Told, NEW S, NEW s \in Requests
    PROVE  /\ Closed(S)[s] = IF s \in S THEN 1 ELSE done[s]
           /\ Closed(S)[s] \in {0, 1}
  BY DEF Told, Closed

\* Withdrawing jobs leaves the other rows, turns and streams as they are.
LEMMA WithdrawnKept ==
    ASSUME OwnerInv, NEW a, NEW W, W = Withdrawn(a) \/ W = {}
    PROVE  /\ W \in SUBSET Requests
           /\ \A j \in Requests :
                /\ WithdrawnJobs(W)[j] \in Job
                /\ j \notin W => WithdrawnJobs(W)[j] = job[j]
                /\ j \in W =>
                     /\ job[j].status = "queued" /\ ~job[j].wkr /\ ~job[j].occ
                     /\ WithdrawnJobs(W)[j] = [job[j] EXCEPT !.status = "cancelled"]
           /\ \A u \in Requests :
                /\ WithdrawnTurns(W)[u] \in Turn
                /\ WithdrawnTurns(W)[u].thread = turn[u].thread
                /\ WithdrawnTurns(W)[u].status = "none" <=> turn[u].status = "none"
                /\ WithdrawnTurns(W)[u].status \in ActiveTurn =>
                     turn[u].status \in ActiveTurn
<1>1. W \in SUBSET Requests
  BY DEF Withdrawn
<1>2. Typed /\ turn \in [Requests -> Turn] /\ job \in [Requests -> Job]
  BY DEF OwnerInv, Typed, TypeOK
<1>3. /\ WithdrawnJobs(W) \in [Requests -> Job]
      /\ WithdrawnTurns(W) \in [Requests -> Turn]
  BY <1>1, <1>2, WithdrawnType
<1>4. ASSUME NEW j \in Requests
      PROVE  /\ j \notin W => WithdrawnJobs(W)[j] = job[j]
             /\ j \in W =>
                  /\ job[j].status = "queued" /\ ~job[j].wkr /\ ~job[j].occ
                  /\ WithdrawnJobs(W)[j] = [job[j] EXCEPT !.status = "cancelled"]
  BY DEF WithdrawnJobs, Withdrawn
<1>5. ASSUME NEW u \in Requests
      PROVE  /\ WithdrawnTurns(W)[u].thread = turn[u].thread
             /\ WithdrawnTurns(W)[u].status = "none" <=> turn[u].status = "none"
             /\ WithdrawnTurns(W)[u].status \in ActiveTurn =>
                  turn[u].status \in ActiveTurn
  <2>1. CASE \E j \in W : job[j].turn = u
    <3>1. turn[u].status \in {"queued", "pending"}
      BY <2>1 DEF Withdrawn
    <3>2. WithdrawnTurns(W)[u] = [turn[u] EXCEPT !.status = "cancelled"]
      BY <2>1 DEF WithdrawnTurns
    <3> QED
      BY <1>2, <3>1, <3>2 DEF Turn, ActiveTurn
  <2>2. CASE ~(\E j \in W : job[j].turn = u)
    BY <2>2 DEF WithdrawnTurns
  <2> QED
    BY <2>1, <2>2
<1> QED
  BY <1>1, <1>3, <1>4, <1>5

\* A turn reserved on a thread is active only if no other is.
LEMMA ReservedOnce ==
    ASSUME NEW turns, NEW t, NEW u \in Requests,
           ReservedTurn(turns, t).status \in ActiveTurn,
           turns[u].thread = t, turns[u].status \in ActiveTurn
    PROVE  FALSE
  BY DEF ReservedTurn, ActiveTurn

OneOccupant ==
    \A t \in Threads : \A j, k \in JobsOn(t) : job[j].occ /\ job[k].occ => j = k
OneActive == \A t \in Threads : \A u, v \in ActiveTurnsOn(t) : u = v

LEMMA NoneActivated ==
    ASSUME OneActive, TurnsKept
    PROVE  OneActive'
  BY DEF OneActive, TurnsKept, ActiveTurnsOn

-----------------------------------------------------------------------------
(* Commands                                                                *)

LEMMA QueueMessageMints ==
    ASSUME OwnerInv, OneActive, NEW r \in Requests, NEW t \in Threads,
           QueueMessage(r, t)
    PROVE  Minting(r, t, r) /\ StreamsKept /\ OneActive'
<1>1. /\ Fresh(r) /\ receipts' = receipts \cup {r}
      /\ UNCHANGED <<workers, done>>
      /\ job' = [job EXCEPT ![r] = QueuedJob(r, t, r, "message.send", NoAutomation)]
      /\ turn' = [turn EXCEPT ![r] = ReservedTurn(turn, t)]
  BY DEF QueueMessage
<1>2. job \in [Requests -> Job] /\ turn \in [Requests -> Turn]
  BY DEF OwnerInv, Typed, TypeOK
<1>3. /\ job'[r] = QueuedJob(r, t, r, "message.send", NoAutomation)
      /\ turn'[r] = ReservedTurn(turn, t) /\ turn'[r].thread = t
      /\ \A j \in Requests \ {r} : job'[j] = job[j] /\ turn'[j] = turn[j]
  BY <1>1, <1>2 DEF ReservedTurn
<1>4. Minting(r, t, r)
  <2>1. r \notin receipts
    BY <1>1, FreshRequest
  <2>2. \A j \in Requests \ {r} : RowKept(j)
    BY <1>3 DEF RowKept
  <2>3. \A u \in Requests \ {r} :
          /\ turn'[u].thread = turn[u].thread
          /\ turn'[u].status = "none" <=> turn[u].status = "none"
    BY <1>3
  <2>4. /\ job'[r].status = "queued" /\ job'[r].stream = r /\ job'[r].turn = r
        /\ job'[r].thread = t /\ job'[r].occ = FALSE /\ job'[r].gen = 0
    BY <1>3 DEF QueuedJob
  <2>5. UNCHANGED workers
    BY <1>1
  <2> QED
    BY <1>1, <1>3, <2>1, <2>2, <2>3, <2>4, <2>5 DEF Minting
<1>5. ASSUME NEW x \in Threads, NEW u \in ActiveTurnsOn(x)',
             NEW v \in ActiveTurnsOn(x)', u # v
      PROVE  FALSE
  <2>1. CASE u # r /\ v # r
    BY <1>3, <1>5, <2>1 DEF OneActive, ActiveTurnsOn
  <2>2. CASE u = r
    BY <1>3, <1>5, <2>2, ReservedOnce DEF ActiveTurnsOn
  <2>3. CASE v = r
    BY <1>3, <1>5, <2>3, ReservedOnce DEF ActiveTurnsOn
  <2> QED
    BY <2>1, <2>2, <2>3
<1> QED
  BY <1>1, <1>4, <1>5 DEF StreamsKept, OneActive

LEMMA AnswerWaitingMints ==
    ASSUME OwnerInv, OneActive, NEW r \in Requests, NEW t \in Threads,
           AnswerWaiting(r, t)
    PROVE  (\E k \in Requests : Minting(r, t, k)) /\ StreamsKept /\ OneActive'
<1> DEFINE waiting == {j \in JobsOn(t) : job[j].status = "waiting_for_user"}
           turns == IF ActiveTurnsOn(t) = {} THEN turn
                    ELSE [turn EXCEPT ![Least(ActiveTurnsOn(t))].status =
                             "superseded"]
<1>1. PICK k \in Requests : k = Least(waiting) /\ job[k].status = "waiting_for_user"
                            /\ job[k].thread = t
  <2>1. waiting \in SUBSET Requests /\ waiting # {}
    BY DEF AnswerWaiting, JobsOn
  <2>2. Least(waiting) \in waiting
    BY <2>1, LeastIsMember
  <2> QED
    BY <2>1, <2>2 DEF JobsOn
<1>2. /\ Fresh(r) /\ receipts' = receipts \cup {r}
      /\ UNCHANGED <<workers, done>>
      /\ job' = [job EXCEPT ![k] = [@ EXCEPT !.status = "queued", !.turn = r,
                                             !.stream = r, !.cmd = "message.send",
                                             !.verified = FALSE]]
      /\ turn' = [turns EXCEPT ![r] = ReservedTurn(turns, t)]
  BY <1>1 DEF AnswerWaiting
<1>3. job \in [Requests -> Job] /\ turn \in [Requests -> Turn]
  BY DEF OwnerInv, Typed, TypeOK
<1>4. /\ job'[k].status = "queued" /\ job'[k].turn = r /\ job'[k].stream = r
      /\ job'[k].thread = t /\ job'[k].occ = job[k].occ
      /\ job'[k].gen = job[k].gen /\ job'[k].auto = job[k].auto
      /\ \A j \in Requests \ {k} : job'[j] = job[j]
  BY <1>1, <1>2, <1>3 DEF Job
<1>5. turns \in [Requests -> Turn]
      /\ \A u \in Requests :
           /\ turns[u].thread = turn[u].thread
           /\ turns[u].status = "none" <=> turn[u].status = "none"
           /\ turns[u].status \in ActiveTurn => turn[u].status \in ActiveTurn
  <2>1. CASE ActiveTurnsOn(t) = {}
    BY <1>3, <2>1
  <2>2. CASE ActiveTurnsOn(t) # {}
    <3>1. PICK a \in Requests : a = Least(ActiveTurnsOn(t)) /\ a \in ActiveTurnsOn(t)
      BY <2>2, LeastIsMember DEF ActiveTurnsOn
    <3>2. turns = [turn EXCEPT ![a].status = "superseded"]
      BY <2>2, <3>1
    <3>3. turn[a].status # "none"
      BY <3>1 DEF ActiveTurnsOn, ActiveTurn
    <3>4. turns \in [Requests -> Turn]
      BY <1>3, <3>2, TurnUpdateType DEF TurnStatus
    <3> QED
      BY <1>3, <3>2, <3>3, <3>4 DEF Turn, ActiveTurn
  <2> QED
    BY <2>1, <2>2
<1> HIDE DEF turns
<1>6. /\ turn'[r] = ReservedTurn(turns, t) /\ turn'[r].thread = t
      /\ \A u \in Requests \ {r} : turn'[u] = turns[u]
  BY <1>2, <1>5 DEF ReservedTurn
<1>7. Minting(r, t, k)
  BY <1>1, <1>2, <1>4, <1>5, <1>6, FreshRequest DEF Minting, RowKept
<1>8. ASSUME NEW x \in Threads, NEW u \in ActiveTurnsOn(x)',
             NEW v \in ActiveTurnsOn(x)', u # v
      PROVE  FALSE
  <2>1. CASE u # r /\ v # r
    BY <1>5, <1>6, <1>8, <2>1 DEF OneActive, ActiveTurnsOn
  <2>2. CASE u = r
    BY <1>6, <1>8, <2>2, ReservedOnce DEF ActiveTurnsOn
  <2>3. CASE v = r
    BY <1>6, <1>8, <2>3, ReservedOnce DEF ActiveTurnsOn
  <2> QED
    BY <2>1, <2>2, <2>3
<1> QED
  BY <1>2, <1>7, <1>8 DEF StreamsKept, OneActive

LEMMA AcceptOccurrenceMints ==
    ASSUME OwnerInv, OneActive, NEW r \in Requests, NEW t \in Threads,
           NEW a \in Automations, NEW timer \in BOOLEAN,
           AcceptOccurrence(r, a, t, timer)
    PROVE  Minting(r, t, r) /\ StreamsKept /\ OneActive'
<1> DEFINE W == IF timer THEN Withdrawn(a) ELSE {}
           turns == WithdrawnTurns(W)
           rows == WithdrawnJobs(W)
<1>1. /\ Fresh(r) /\ receipts' = receipts \cup {r} /\ UNCHANGED workers
      /\ job' = [rows EXCEPT ![r] = QueuedJob(r, t, r, "message.send", a)]
      /\ turn' = [turns EXCEPT ![r] = ReservedTurn(turns, t)]
      /\ done' = Closed({job[j].stream : j \in W})
  BY DEF AcceptOccurrence
<1>2. W = Withdrawn(a) \/ W = {}
  OBVIOUS
<1>3. /\ W \in SUBSET Requests
      /\ \A j \in Requests :
           /\ j \notin W => rows[j] = job[j]
           /\ j \in W => /\ job[j].status = "queued" /\ ~job[j].wkr /\ ~job[j].occ
                         /\ rows[j] = [job[j] EXCEPT !.status = "cancelled"]
      /\ \A u \in Requests :
           /\ turns[u].thread = turn[u].thread
           /\ turns[u].status = "none" <=> turn[u].status = "none"
           /\ turns[u].status \in ActiveTurn => turn[u].status \in ActiveTurn
  BY <1>2, WithdrawnKept
<1>4. rows = [j \in Requests |-> rows[j]] /\ turns = [u \in Requests |-> turns[u]]
  BY DEF WithdrawnJobs, WithdrawnTurns
<1>5. job \in [Requests -> Job]
  BY DEF OwnerInv, Typed, TypeOK
<1> HIDE DEF W, turns, rows
<1>6. /\ job'[r] = QueuedJob(r, t, r, "message.send", a)
      /\ \A j \in Requests \ {r} : job'[j] = rows[j]
  BY <1>1, <1>4
<1>7. /\ turn'[r] = ReservedTurn(turns, t) /\ turn'[r].thread = t
      /\ \A u \in Requests \ {r} : turn'[u] = turns[u]
  BY <1>1, <1>4 DEF ReservedTurn
<1>8. r \notin receipts /\ job[r].status = "none"
  BY <1>1, FreshRequest DEF Minted
<1>9. ASSUME NEW j \in Requests \ {r} PROVE RowKept(j)
  <2>1. CASE j \notin W
    BY <1>3, <1>6, <2>1 DEF RowKept
  <2>2. CASE j \in W
    <3>1. job[j] \in Job /\ job[j].status = "queued" /\ ~job[j].wkr /\ ~job[j].occ
          /\ job'[j] = [job[j] EXCEPT !.status = "cancelled"]
      BY <1>3, <1>5, <1>6, <2>2
    <3>2. /\ job'[j].thread = job[j].thread /\ job'[j].turn = job[j].turn
          /\ job'[j].stream = job[j].stream /\ job'[j].auto = job[j].auto
          /\ job'[j].gen = job[j].gen /\ job'[j].status = "cancelled"
          /\ job'[j].wkr = job[j].wkr /\ job'[j].occ = job[j].occ
          /\ job[j].occ \in BOOLEAN
      BY <3>1 DEF Job
    <3> QED
      BY <3>1, <3>2 DEF RowKept
  <2> QED
    BY <2>1, <2>2
<1>10. Minting(r, t, r)
  BY <1>1, <1>3, <1>6, <1>7, <1>8, <1>9 DEF Minting, QueuedJob
<1>11. StreamsKept
  <2>1. ASSUME NEW s \in Requests, done'[s] # done[s]
        PROVE  \E j \in Requests : /\ job[j].status = "queued" /\ job[j].stream = s
                                   /\ job'[j].status = "cancelled"
    <3>1. PICK j \in W : s = job[j].stream
      BY <1>1, <2>1, ClosedOnce DEF OwnerInv
    <3>2. j \in Requests \ {r} /\ job[j].status = "queued"
          /\ rows[j] = [job[j] EXCEPT !.status = "cancelled"]
      BY <1>3, <1>8, <3>1
    <3>3. job'[j].status = "cancelled"
      BY <1>5, <1>6, <3>2 DEF Job
    <3> QED
      BY <3>1, <3>2, <3>3
  <2>2. \A s \in Requests : done'[s] \in {0, 1}
    BY <1>1, ClosedOnce DEF OwnerInv
  <2> QED
    BY <2>1, <2>2 DEF StreamsKept
<1>12. ASSUME NEW x \in Threads, NEW u \in ActiveTurnsOn(x)',
              NEW v \in ActiveTurnsOn(x)', u # v
       PROVE  FALSE
  <2>1. CASE u # r /\ v # r
    BY <1>3, <1>7, <1>12, <2>1 DEF OneActive, ActiveTurnsOn
  <2>2. CASE u = r
    BY <1>7, <1>12, <2>2, ReservedOnce DEF ActiveTurnsOn
  <2>3. CASE v = r
    BY <1>7, <1>12, <2>3, ReservedOnce DEF ActiveTurnsOn
  <2> QED
    BY <2>1, <2>2, <2>3
<1> QED
  BY <1>10, <1>11, <1>12 DEF OneActive

\* A continuation stays on its turn, and the turn on its thread.
LEMMA ResumeWithMints ==
    ASSUME OwnerInv, NEW r \in Requests, NEW t \in Threads, NEW u \in Requests,
           NEW turns, ResumeWith(r, t, u, turns), u = r \/ u \in receipts,
           turns[u].thread = t, u # r => turn[u].thread = t,
           \A v \in Requests \ {r} :
             /\ turns[v].thread = turn[v].thread
             /\ turns[v].status = "none" <=> turn[v].status = "none"
    PROVE  (\E k \in Requests : Minting(r, t, k)) /\ StreamsKept
<1> DEFINE live == {j \in Requests : /\ job[j].turn = u
                                     /\ job[j].status \in
                                          {"running", "waiting_for_user"}}
<1>1. /\ Fresh(r) /\ receipts' = receipts \cup {r} /\ turn' = turns
      /\ UNCHANGED <<workers, done>>
  BY DEF ResumeWith
<1>2. job \in [Requests -> Job]
  BY DEF OwnerInv, Typed, TypeOK
<1>3. u \in receipts'
  BY <1>1
<1>4. CASE live # {}
  <2>1. PICK k \in Requests : k = Least(live) /\ k \in live
    <3>1. live \in SUBSET Requests
      OBVIOUS
    <3> HIDE DEF live
    <3> QED
      BY <1>4, <3>1, LeastIsMember
  <2>2. job' = [job EXCEPT ![k] = [@ EXCEPT !.status = "queued", !.stream = r,
                                            !.cmd = "thread.resume",
                                            !.verified = FALSE]]
    BY <1>4, <2>1 DEF ResumeWith
  <2>3. /\ job'[k].status = "queued" /\ job'[k].turn = job[k].turn
        /\ job'[k].stream = r
        /\ job'[k].thread = job[k].thread /\ job'[k].occ = job[k].occ
        /\ job'[k].gen = job[k].gen /\ job'[k].auto = job[k].auto
        /\ \A j \in Requests \ {k} : job'[j] = job[j]
    BY <1>2, <2>2 DEF Job
  <2>4. job[k].turn = u /\ u # r /\ job[k].thread = t
        /\ job[k].status \in {"running", "waiting_for_user"}
    BY <1>1, <2>1, FreshRequest DEF Minted, OwnerInv, Matched
  <2>5. Minting(r, t, k)
    BY <1>1, <1>3, <2>3, <2>4, FreshRequest DEF Minting, RowKept
  <2> QED
    BY <1>1, <2>5 DEF StreamsKept
<1>5. CASE live = {}
  <2>1. job' = [job EXCEPT ![r] = QueuedJob(r, t, u, "thread.resume", NoAutomation)]
    BY <1>5 DEF ResumeWith
  <2>2. /\ job'[r] = QueuedJob(r, t, u, "thread.resume", NoAutomation)
        /\ \A j \in Requests \ {r} : job'[j] = job[j]
    BY <1>2, <2>1
  <2>3. Minting(r, t, r)
    BY <1>1, <1>3, <2>2, FreshRequest DEF Minting, RowKept, QueuedJob
  <2> QED
    BY <1>1, <2>3 DEF StreamsKept
<1> QED
  BY <1>4, <1>5

LEMMA ResumeMints ==
    ASSUME OwnerInv, OneActive, NEW r \in Requests, NEW t \in Threads,
           ResumeWaitingTurn(r, t) \/ ResumeNewTurn(r, t)
    PROVE  (\E k \in Requests : Minting(r, t, k)) /\ StreamsKept /\ OneActive'
<1>0. turn \in [Requests -> Turn]
  BY DEF OwnerInv, Typed, TypeOK
<1>1. CASE ResumeWaitingTurn(r, t)
  <2>1. PICK u \in WaitingTurnsOn(t) :
          ResumeWith(r, t, u, [turn EXCEPT ![u].status = "running"])
    BY <1>1 DEF ResumeWaitingTurn
  <2> DEFINE turns == [turn EXCEPT ![u].status = "running"]
  <2>2. u \in Requests /\ turn[u].thread = t /\ turn[u].status = "waiting_for_user"
    BY <2>1 DEF WaitingTurnsOn, ActiveTurnsOn
  <2>3. u \in receipts
    BY <2>2 DEF OwnerInv, Matched
  <2>4. \A v \in Requests :
          /\ turns[v].thread = turn[v].thread
          /\ turns[v].status = "none" <=> turn[v].status = "none"
          /\ turns[v].status \in ActiveTurn => turn[v].status \in ActiveTurn
    BY <1>0, <2>2 DEF Turn, ActiveTurn
  <2>5. turn' = turns
    BY <2>1 DEF ResumeWith
  <2> HIDE DEF turns
  <2>6. (\E k \in Requests : Minting(r, t, k)) /\ StreamsKept
    <3>1. ResumeWith(r, t, u, turns)
      BY <2>1 DEF turns
    <3> QED
      BY <2>2, <2>3, <2>4, <3>1, ResumeWithMints
  <2>7. TurnsKept
    BY <2>4, <2>5 DEF TurnsKept
  <2> QED
    BY <2>6, <2>7, NoneActivated
<1>2. CASE ResumeNewTurn(r, t)
  <2> DEFINE turns == [turn EXCEPT ![r] = [status |-> "running", thread |-> t]]
  <2>1. ActiveTurnsOn(t) = {} /\ ResumeWith(r, t, r, turns)
    BY <1>2 DEF ResumeNewTurn
  <2>2. /\ turns[r].thread = t
        /\ \A v \in Requests \ {r} : turns[v] = turn[v]
    BY <1>0
  <2>3. turn' = turns
    BY <2>1 DEF ResumeWith
  <2> HIDE DEF turns
  <2>4. (\E k \in Requests : Minting(r, t, k)) /\ StreamsKept
    BY <2>1, <2>2, ResumeWithMints
  <2>5. OneActive'
    BY <2>1, <2>2, <2>3 DEF OneActive, ActiveTurnsOn
  <2> QED
    BY <2>4, <2>5
<1> QED
  BY <1>1, <1>2

LEMMA EditAutomationEnds ==
    ASSUME OwnerInv, NEW a \in Automations, EditAutomation(a)
    PROVE  Ending /\ TurnsKept
<1> DEFINE W == Withdrawn(a)
<1>1. /\ job' = WithdrawnJobs(W) /\ turn' = WithdrawnTurns(W)
      /\ done' = Closed({job[j].stream : j \in W}) /\ UNCHANGED <<receipts, workers>>
  BY DEF EditAutomation
<1>2. /\ W \in SUBSET Requests
      /\ \A j \in Requests :
           /\ j \notin W => job'[j] = job[j]
           /\ j \in W => /\ job[j].status = "queued" /\ ~job[j].wkr /\ ~job[j].occ
                         /\ job'[j] = [job[j] EXCEPT !.status = "cancelled"]
      /\ TurnsKept
  BY <1>1, WithdrawnKept DEF TurnsKept
<1>3. job \in [Requests -> Job]
  BY DEF OwnerInv, Typed, TypeOK
<1> HIDE DEF W
<1>4. ASSUME NEW j \in Requests
      PROVE  RowKept(j) /\ (j \in W => job'[j].status = "cancelled")
  <2>1. CASE j \notin W
    BY <1>2, <2>1 DEF RowKept
  <2>2. CASE j \in W
    <3>1. job[j] \in Job /\ job[j].status = "queued" /\ ~job[j].wkr /\ ~job[j].occ
          /\ job'[j] = [job[j] EXCEPT !.status = "cancelled"]
      BY <1>2, <1>3, <2>2
    <3>2. /\ job'[j].thread = job[j].thread /\ job'[j].turn = job[j].turn
          /\ job'[j].stream = job[j].stream /\ job'[j].auto = job[j].auto
          /\ job'[j].gen = job[j].gen /\ job'[j].status = "cancelled"
          /\ job'[j].wkr = job[j].wkr /\ job'[j].occ = job[j].occ
          /\ job[j].occ \in BOOLEAN
      BY <3>1 DEF Job
    <3> QED
      BY <3>1, <3>2 DEF RowKept
  <2> QED
    BY <2>1, <2>2
<1>5. ASSUME NEW s \in Requests, done'[s] # done[s]
      PROVE  \E j \in Requests : /\ job[j].status = "queued" /\ job[j].stream = s
                                 /\ job'[j].status = "cancelled"
  <2>1. PICK j \in W : s = job[j].stream
    BY <1>1, <1>5, ClosedOnce DEF OwnerInv
  <2> QED
    BY <1>2, <1>4, <2>1
<1>6. \A s \in Requests : done'[s] \in {0, 1}
  BY <1>1, ClosedOnce DEF OwnerInv
<1> QED
  BY <1>1, <1>2, <1>4, <1>5, <1>6 DEF Ending, StreamsKept

LEMMA CancelTurnEnds ==
    ASSUME OwnerInv, NEW u \in Requests, CancelTurn(u)
    PROVE  Ending /\ TurnsKept
<1> DEFINE live == Cancellable(u)
           queued == {j \in live : job[j].status = "queued"}
<1>1. /\ job' = [j \in Requests |->
                   IF j \in live
                   THEN [job[j] EXCEPT !.status = "cancelled",
                                       !.occ = job[j].occ /\ job[j].wkr]
                   ELSE job[j]]
      /\ done' = Closed({job[j].stream : j \in queued})
      /\ UNCHANGED <<receipts, workers>>
  BY DEF CancelTurn
<1>2. job \in [Requests -> Job] /\ turn \in [Requests -> Turn]
  BY DEF OwnerInv, Typed, TypeOK
<1>3. live \in SUBSET Requests
      /\ \A j \in live : job[j].status \in {"queued", "running", "waiting_for_user"}
  BY DEF Cancellable
<1>4. queued \in SUBSET live /\ \A j \in queued : job[j].status = "queued"
  OBVIOUS
<1>5. TurnsKept
  <2> DEFINE status == IF turn[u].status \in TerminalTurn
                       THEN turn[u].status ELSE "cancelled"
  <2>1. turn' = [turn EXCEPT ![u].status = status] /\ turn[u].status # "none"
    BY DEF CancelTurn
  <2>2. status # "none" /\ (status \in ActiveTurn => turn[u].status \in ActiveTurn)
    BY <2>1 DEF ActiveTurn
  <2> HIDE DEF status
  <2> QED
    BY <1>2, <2>1, <2>2 DEF TurnsKept, Turn
<1> HIDE DEF live, queued
<1>6. ASSUME NEW j \in Requests
      PROVE  RowKept(j) /\ (j \in live => job'[j].status = "cancelled")
  <2>1. CASE j \notin live
    BY <1>1, <2>1 DEF RowKept
  <2>2. CASE j \in live
    <3>1. job[j] \in Job
          /\ job'[j] = [job[j] EXCEPT !.status = "cancelled",
                                      !.occ = job[j].occ /\ job[j].wkr]
      BY <1>1, <1>2, <2>2
    <3>2. /\ job'[j].thread = job[j].thread /\ job'[j].turn = job[j].turn
          /\ job'[j].stream = job[j].stream /\ job'[j].auto = job[j].auto
          /\ job'[j].gen = job[j].gen /\ job'[j].status = "cancelled"
          /\ job'[j].wkr = job[j].wkr /\ job'[j].occ = (job[j].occ /\ job[j].wkr)
      BY <3>1 DEF Job
    <3> QED
      BY <1>3, <2>2, <3>2 DEF RowKept
  <2> QED
    BY <2>1, <2>2
<1>7. ASSUME NEW s \in Requests, done'[s] # done[s]
      PROVE  \E j \in Requests : /\ job[j].status = "queued" /\ job[j].stream = s
                                 /\ job'[j].status = "cancelled"
  <2>1. s \in {job[j].stream : j \in queued}
    <3> DEFINE closed == {job[j].stream : j \in queued}
    <3>1. done' = Closed(closed)
      BY <1>1
    <3> HIDE DEF closed
    <3>2. s \in closed
      BY <1>7, <3>1, ClosedOnce DEF OwnerInv
    <3> QED
      BY <3>2 DEF closed
  <2> QED
    BY <1>3, <1>4, <1>6, <2>1
<1>8. \A s \in Requests : done'[s] \in {0, 1}
  BY <1>1, ClosedOnce DEF OwnerInv
<1> QED
  BY <1>1, <1>5, <1>6, <1>7, <1>8 DEF Ending, StreamsKept

LEMMA AcknowledgeStoppedEnds ==
    ASSUME OwnerInv, NEW u \in Requests, AcknowledgeStopped(u)
    PROVE  Ending /\ TurnsKept
<1>1. UNCHANGED <<turn, done, receipts, workers>>
  BY DEF AcknowledgeStopped
<1>2. ASSUME NEW j \in Requests PROVE RowKept(j)
  <2>1. job[j] \in Job
    BY DEF OwnerInv, Typed, TypeOK
  <2>2. CASE job[j].turn = u /\ Unconfirmed(j)
    <3>1. job'[j] = [job[j] EXCEPT !.verified = TRUE, !.occ = FALSE, !.wkr = FALSE]
      BY <2>2 DEF AcknowledgeStopped
    <3>2. /\ job'[j].thread = job[j].thread /\ job'[j].turn = job[j].turn
          /\ job'[j].stream = job[j].stream /\ job'[j].auto = job[j].auto
          /\ job'[j].gen = job[j].gen /\ job'[j].status = job[j].status
          /\ job'[j].occ = FALSE
      BY <2>1, <3>1 DEF Job
    <3> QED
      BY <2>2, <3>2 DEF RowKept, Unconfirmed
  <2>3. CASE ~(job[j].turn = u /\ Unconfirmed(j))
    BY <2>3 DEF AcknowledgeStopped, RowKept
  <2> QED
    BY <2>2, <2>3
<1> QED
  BY <1>1, <1>2 DEF Ending, StreamsKept, TurnsKept

\* Every command either queues a job for the next request or only ends work.
LEMMA ClientStep ==
    ASSUME OwnerInv, OneActive, Client
    PROVE  /\ OneActive' /\ StreamsKept
           /\ \/ \E r \in Requests, t \in Threads, k \in Requests : Minting(r, t, k)
              \/ Ending /\ TurnsKept
<1>1. ASSUME NEW r \in Requests, Accept(r)
      PROVE  /\ OneActive' /\ StreamsKept
             /\ \E t \in Threads, k \in Requests : Minting(r, t, k)
  BY <1>1, QueueMessageMints, AnswerWaitingMints, ResumeMints, AcceptOccurrenceMints
  DEF Accept
<1>2. ASSUME NEW u \in Requests, CancelTurn(u) \/ AcknowledgeStopped(u)
      PROVE  Ending /\ TurnsKept /\ OneActive'
  BY <1>2, CancelTurnEnds, AcknowledgeStoppedEnds, NoneActivated
<1>3. ASSUME NEW a \in Automations, EditAutomation(a)
      PROVE  Ending /\ TurnsKept /\ OneActive'
  BY <1>3, EditAutomationEnds, NoneActivated
<1>4. Ending => StreamsKept
  BY DEF Ending
<1> QED
  BY <1>1, <1>2, <1>3, <1>4 DEF Client

-----------------------------------------------------------------------------
(* What the two shapes of command keep                                     *)

LEMMA MintingKeeps ==
    ASSUME OwnerInv, OneOccupant, Typed', StreamsKept,
           NEW r \in Requests, NEW t \in Threads, NEW k \in Requests, Minting(r, t, k)
    PROVE  Matched' /\ Reserved' /\ OneOccupant' /\ OwnStreams' /\ Told'
<1>1. /\ r \notin receipts /\ receipts' = receipts \cup {r} /\ workers' = workers
      /\ \A j \in Requests \ {k} : RowKept(j)
      /\ job'[k].status = "queued" /\ job'[k].stream = r /\ job'[k].thread = t
  BY DEF Minting
<1>2. \/ k = r /\ job'[k].occ = FALSE /\ job'[k].gen = 0 /\ ~Minted(k)
      \/ /\ job[k].status \in {"running", "waiting_for_user"} /\ Minted(k)
         /\ job[k].thread = t /\ job'[k].occ = job[k].occ
         /\ job'[k].gen = job[k].gen /\ job'[k].auto = job[k].auto
  BY DEF Minting, OwnerInv, Typed, JobsAreMinted, Minted
<1>3. ASSUME NEW j \in Requests, j # k
      PROVE  /\ RowKept(j) /\ (Minted(j)' <=> Minted(j))
             /\ Minted(j) => job[j].stream # r /\ job[j].turn # r
  BY <1>1, <1>3 DEF RowKept, Minted, OwnerInv, Matched
<1>4. ASSUME NEW w \in workers
      PROVE  /\ w.stream \in receipts /\ w.stream # r /\ w.turn \in receipts
             /\ w.job \in Requests /\ Minted(w.job)
             /\ job[w.job].status \in {"running", "queued", "cancelled"}
             /\ job[w.job].wkr /\ job[w.job].occ
  BY <1>1, WorkerRow DEF OwnerInv, Matched, Reserved, Minted
<1>5. Matched'
  <2>1. ASSUME NEW u \in Requests, turn'[u].status # "none" PROVE u \in receipts'
    BY <1>1, <2>1 DEF Minting, OwnerInv, Matched
  <2>2. ASSUME NEW j \in Requests, Minted(j)'
        PROVE  /\ job'[j].turn \in receipts' /\ job'[j].stream \in receipts'
               /\ turn'[job'[j].turn].thread = job'[j].thread
    <3>1. CASE j = k
      BY <1>1, <3>1 DEF Minting
    <3>2. CASE j # k
      <4>1. Minted(j) /\ job'[j].turn = job[j].turn /\ job'[j].stream = job[j].stream
            /\ job'[j].thread = job[j].thread /\ job[j].turn # r
        BY <1>3, <2>2, <3>2 DEF RowKept
      <4>2. job[j].turn \in Requests
        BY <4>1 DEF OwnerInv, Typed, JobsAreMinted, Minted
      <4>3. turn'[job[j].turn].thread = turn[job[j].turn].thread
        BY <4>1, <4>2 DEF Minting
      <4> QED
        BY <1>1, <4>1, <4>3 DEF OwnerInv, Matched
    <3> QED
      BY <3>1, <3>2
  <2>3. ASSUME NEW w \in workers' PROVE job'[w.job].auto = w.auto
    BY <1>1, <1>2, <1>3, <1>4, <2>3 DEF RowKept, OwnerInv, Matched
  <2> QED
    BY <1>1, <1>4, <2>1, <2>2, <2>3 DEF Matched
<1>6. Reserved'
  <2>1. ASSUME NEW j \in Requests,
               \/ job'[j].status \in {"running", "waiting_for_user"}
               \/ job'[j].status = "queued" /\ job'[j].gen > 0
        PROVE  job'[j].occ
    BY <1>1, <1>2, <1>3, <2>1 DEF RowKept, OwnerInv, Reserved
  <2>2. ASSUME NEW w \in workers PROVE job'[w.job].occ
    <3>1. CASE w.job = k
      BY <1>2, <1>4, <3>1
    <3>2. CASE w.job # k
      BY <1>3, <1>4, <3>2 DEF RowKept
    <3> QED
      BY <3>1, <3>2
  <2> QED
    BY <1>1, <2>1, <2>2 DEF Reserved
<1>7. OneOccupant'
  <2>1. ASSUME NEW j \in Requests, job'[j].occ
        PROVE  job[j].occ /\ job'[j].thread = job[j].thread
    BY <1>1, <1>2, <1>3, <2>1 DEF RowKept
  <2> QED
    BY <2>1 DEF OneOccupant, JobsOn
<1>8. OwnStreams'
  <2>1. ASSUME NEW j \in Requests, Minted(j)', j # k
        PROVE  /\ Minted(j) /\ job'[j].stream = job[j].stream
               /\ job'[j].stream # r
               /\ job'[j].status = "queued" => job[j].status = "queued"
    BY <1>3, <2>1 DEF RowKept
  <2>2. ASSUME NEW j \in Requests, NEW i \in Requests, Minted(i)', Minted(j)',
               job'[i].stream = job'[j].stream
        PROVE  i = j
    BY <1>1, <2>1, <2>2 DEF OwnerInv, OwnStreams
  <2>3. ASSUME NEW w \in workers, NEW j \in Requests, Minted(j)',
               job'[j].stream = w.stream
        PROVE  j = w.job /\ job'[j].status # "queued"
    BY <1>1, <1>4, <2>1, <2>3 DEF OwnerInv, OwnStreams
  <2> QED
    BY <1>1, <2>2, <2>3 DEF OwnStreams, OwnerInv
<1>9. Told'
  <2>1. ASSUME NEW s \in Requests
        PROVE  done'[s] \in {0, 1} /\ (done'[s] # 0 => s \in receipts')
               /\ (done[s] = 1 => done'[s] = 1)
    BY <1>1 DEF StreamsKept, OwnerInv, Told, Matched, Minted
  <2>2. ASSUME NEW s \in Requests, done[s] = 0,
               \A j \in Requests : job[j].status = "queued" /\ job[j].stream = s
                                     => job'[j].status # "cancelled"
        PROVE  done'[s] = 0
    BY <2>2 DEF StreamsKept
  <2>3. ASSUME NEW j \in Requests, job'[j].status = "queued"
        PROVE  done'[job'[j].stream] = 0
    <3>1. CASE j = k
      <4>1. done[r] = 0
        BY <1>1 DEF OwnerInv, Told
      <4>2. \A i \in Requests : job[i].status = "queued" => job[i].stream # r
        BY <1>1 DEF OwnerInv, Matched, Minted
      <4> QED
        BY <1>1, <2>2, <3>1, <4>1, <4>2
    <3>2. CASE j # k
      <4>1. job[j].status = "queued" /\ job'[j].stream = job[j].stream
            /\ job[j].stream \in Requests /\ Minted(j)
        BY <1>3, <2>3, <3>2 DEF RowKept, OwnerInv, Typed, JobsAreMinted, Minted
      <4>2. \A i \in Requests : job[i].status = "queued" /\ job[i].stream = job[j].stream
              => i = j
        BY <4>1 DEF OwnerInv, OwnStreams, Minted
      <4> QED
        BY <2>2, <2>3, <4>1, <4>2 DEF OwnerInv, Told
    <3> QED
      BY <3>1, <3>2
  <2>4. ASSUME NEW j \in Requests,
               job'[j].status \in {"succeeded", "failed", "interrupted"}
        PROVE  done'[job'[j].stream] = 1
    <3>1. j # k /\ job[j].status = job'[j].status /\ job'[j].stream = job[j].stream
          /\ job[j].stream \in Requests
      BY <1>1, <1>3, <2>4 DEF RowKept, OwnerInv, Typed, JobsAreMinted
    <3> QED
      BY <2>1, <2>4, <3>1 DEF OwnerInv, Told
  <2>5. ASSUME NEW w \in workers, w.pc # "finish" PROVE done'[w.stream] = 0
    <3>1. done[w.stream] = 0 /\ w.stream \in Requests
      BY <2>5 DEF OwnerInv, Told, Typed, TypeOK, Worker
    <3>2. \A i \in Requests : job[i].status = "queued" => job[i].stream # w.stream
      BY DEF OwnerInv, OwnStreams, Minted
    <3> QED
      BY <2>2, <3>1, <3>2
  <2> QED
    BY <1>1, <2>1, <2>3, <2>4, <2>5 DEF Told
<1> QED
  BY <1>5, <1>6, <1>7, <1>8, <1>9

LEMMA EndingKeeps ==
    ASSUME OwnerInv, OneOccupant, Ending, TurnsKept
    PROVE  Matched' /\ Reserved' /\ OneOccupant' /\ OwnStreams' /\ Told'
<1>1. receipts' = receipts /\ workers' = workers /\ StreamsKept
  BY DEF Ending
<1>2. ASSUME NEW j \in Requests PROVE RowKept(j) /\ (Minted(j)' <=> Minted(j))
  BY DEF Ending, RowKept, Minted
<1>3. ASSUME NEW w \in workers
      PROVE  /\ w.stream \in receipts /\ w.turn \in receipts
             /\ w.job \in Requests /\ Minted(w.job)
             /\ job[w.job].status \in {"running", "queued", "cancelled"}
             /\ job[w.job].wkr /\ job[w.job].occ
  BY WorkerRow DEF OwnerInv, Matched, Reserved, Minted
<1>4. Matched'
  <2>1. ASSUME NEW j \in Requests, Minted(j)'
        PROVE  /\ job'[j].turn \in receipts' /\ job'[j].stream \in receipts'
               /\ turn'[job'[j].turn].thread = job'[j].thread
    <3>1. Minted(j) /\ job'[j].turn = job[j].turn /\ job'[j].stream = job[j].stream
          /\ job'[j].thread = job[j].thread
      BY <1>2, <2>1 DEF RowKept
    <3>2. job[j].turn \in Requests
      BY <3>1 DEF OwnerInv, Typed, JobsAreMinted, Minted
    <3> QED
      BY <1>1, <3>1, <3>2 DEF OwnerInv, Matched, TurnsKept
  <2>2. ASSUME NEW w \in workers PROVE job'[w.job].auto = w.auto
    BY <1>2, <1>3 DEF RowKept, OwnerInv, Matched
  <2>3. \A u \in Requests : turn'[u].status # "none" => u \in receipts'
    BY <1>1 DEF OwnerInv, Matched, TurnsKept
  <2> QED
    BY <1>1, <1>3, <2>1, <2>2, <2>3 DEF Matched
<1>5. Reserved'
  <2>1. ASSUME NEW j \in Requests,
               \/ job'[j].status \in {"running", "waiting_for_user"}
               \/ job'[j].status = "queued" /\ job'[j].gen > 0
        PROVE  job'[j].occ
    BY <1>2, <2>1 DEF RowKept, OwnerInv, Reserved
  <2>2. ASSUME NEW w \in workers PROVE job'[w.job].occ
    BY <1>2, <1>3 DEF RowKept
  <2> QED
    BY <1>1, <2>1, <2>2 DEF Reserved
<1>6. OneOccupant'
  <2>1. ASSUME NEW j \in Requests, job'[j].occ
        PROVE  job[j].occ /\ job'[j].thread = job[j].thread
    BY <1>2, <2>1 DEF RowKept
  <2> QED
    BY <2>1 DEF OneOccupant, JobsOn
<1>7. OwnStreams'
  <2>1. ASSUME NEW j \in Requests, Minted(j)'
        PROVE  /\ Minted(j) /\ job'[j].stream = job[j].stream
               /\ job'[j].status = "queued" => job[j].status = "queued"
    BY <1>2, <2>1 DEF RowKept
  <2> QED
    BY <1>1, <2>1 DEF OwnerInv, OwnStreams
<1>8. Told'
  <2>1. ASSUME NEW s \in Requests
        PROVE  done'[s] \in {0, 1} /\ (done'[s] # 0 => s \in receipts')
               /\ (done[s] = 1 => done'[s] = 1)
    BY <1>1 DEF StreamsKept, OwnerInv, Told, Matched, Minted
  <2>2. ASSUME NEW s \in Requests, done[s] = 0,
               \A j \in Requests : job[j].status = "queued" /\ job[j].stream = s
                                     => job'[j].status # "cancelled"
        PROVE  done'[s] = 0
    BY <1>1, <2>2 DEF StreamsKept
  <2>3. ASSUME NEW j \in Requests, job'[j].status = "queued"
        PROVE  done'[job'[j].stream] = 0
    <3>1. job[j].status = "queued" /\ job'[j].stream = job[j].stream
          /\ job[j].stream \in Requests /\ Minted(j)
      BY <1>2, <2>3 DEF RowKept, OwnerInv, Typed, JobsAreMinted, Minted
    <3>2. \A i \in Requests : job[i].status = "queued" /\ job[i].stream = job[j].stream
            => i = j
      BY <3>1 DEF OwnerInv, OwnStreams, Minted
    <3> QED
      BY <2>2, <2>3, <3>1, <3>2 DEF OwnerInv, Told
  <2>4. ASSUME NEW j \in Requests,
               job'[j].status \in {"succeeded", "failed", "interrupted"}
        PROVE  done'[job'[j].stream] = 1
    <3>1. job[j].status = job'[j].status /\ job'[j].stream = job[j].stream
          /\ job[j].stream \in Requests
      BY <1>2, <2>4 DEF RowKept, OwnerInv, Typed, JobsAreMinted
    <3> QED
      BY <2>1, <2>4, <3>1 DEF OwnerInv, Told
  <2>5. ASSUME NEW w \in workers, w.pc # "finish" PROVE done'[w.stream] = 0
    <3>1. done[w.stream] = 0 /\ w.stream \in Requests
      BY <2>5 DEF OwnerInv, Told, Typed, TypeOK, Worker
    <3>2. \A i \in Requests : job[i].status = "queued" => job[i].stream # w.stream
      BY DEF OwnerInv, OwnStreams, Minted
    <3> QED
      BY <2>2, <3>1, <3>2
  <2> QED
    BY <1>1, <2>1, <2>3, <2>4, <2>5 DEF Told
<1> QED
  BY <1>4, <1>5, <1>6, <1>7, <1>8

-----------------------------------------------------------------------------
(* claim_next                                                              *)

\* No waiting job has lost its thread, so the first UPDATE changes no row.
LEMMA NothingToReoccupy ==
    ASSUME OwnerInv
    PROVE  Reoccupied = job
<1>1. job \in [Requests -> Job]
  BY DEF OwnerInv, Typed, TypeOK
<1>2. ASSUME NEW j \in Requests PROVE Reoccupied[j] = job[j]
  <2>1. CASE job[j].status = "waiting_for_user"
    <3>1. job[j].occ
      BY <2>1 DEF OwnerInv, Reserved
    <3>2. [job[j] EXCEPT !.occ = TRUE] = job[j]
      BY <1>1, <3>1 DEF Job
    <3> QED
      BY <3>2 DEF Reoccupied
  <2>2. CASE job[j].status # "waiting_for_user"
    BY <2>2 DEF Reoccupied
  <2> QED
    BY <2>1, <2>2
<1>3. Reoccupied = [j \in Requests |-> Reoccupied[j]]
  BY DEF Reoccupied
<1> QED
  BY <1>1, <1>2, <1>3

LEMMA ClaimKeeps ==
    ASSUME OwnerInv, OneOccupant, OneActive, AutomationSequential,
           NEW q \in Requests, ClaimNext(q)
    PROVE  /\ Matched' /\ Reserved' /\ OneOccupant' /\ OneActive' /\ OwnStreams'
           /\ Told' /\ AutomationSequential'
<1> DEFINE t == job[q].thread
           new == NewWorker(q)
           u == job[q].turn
<1>1. job \in [Requests -> Job] /\ turn \in [Requests -> Turn] /\ job[q] \in Job
  BY DEF OwnerInv, Typed, TypeOK
<1>2. /\ job[q].status = "queued" /\ ~job[q].wkr /\ Minted(q)
      /\ \A a \in Requests : job[a].thread = t /\ a # q => ~Holds(a)
      /\ job[q].auto # NoAutomation =>
           \A a \in Requests \ {q} : job[a].auto = job[q].auto => ~Holds(a)
      /\ ActiveTurnsOn(t) \subseteq {u}
  BY DEF ClaimNext, Claimable, JobsOn, Minted
<1>3. /\ t \in Threads /\ u \in Requests /\ u \in receipts
      /\ job[q].stream \in Requests /\ job[q].stream \in receipts
      /\ turn[u].thread = t /\ done[job[q].stream] = 0
  BY <1>2 DEF OwnerInv, Typed, JobsAreMinted, Minted, Matched, Told
<1>4. /\ job' = [job EXCEPT ![q] = [@ EXCEPT !.status = "running", !.occ = TRUE,
                                             !.wkr = TRUE, !.gen = job[q].gen + 1]]
      /\ turn' = [turn EXCEPT ![u].status = IF @ = "queued" THEN "pending" ELSE @]
      /\ workers' = workers \cup {new} /\ UNCHANGED <<done, receipts>>
  BY NothingToReoccupy DEF ClaimNext
<1>5. /\ job'[q].status = "running" /\ job'[q].occ /\ job'[q].thread = t
      /\ job'[q].turn = u /\ job'[q].stream = job[q].stream
      /\ job'[q].auto = job[q].auto
      /\ \A j \in Requests \ {q} : job'[j] = job[j]
  BY <1>1, <1>4 DEF Job
<1>6. /\ new.job = q /\ new.turn = u /\ new.stream = job[q].stream
      /\ new.auto = job[q].auto /\ new.thread = t
  BY DEF NewWorker
<1>7. /\ \A v \in Requests : /\ turn'[v].thread = turn[v].thread
                             /\ turn'[v].status # "none" => v \in receipts
      /\ \A v \in Requests \ {u} : turn'[v] = turn[v]
  <2>1. \A v \in Requests \ {u} : turn'[v] = turn[v]
    BY <1>4, <1>1
  <2>2. turn'[u].thread = turn[u].thread
    BY <1>1, <1>3, <1>4 DEF Turn
  <2> QED
    BY <1>3, <2>1, <2>2 DEF OwnerInv, Matched
<1>8. ASSUME NEW w \in workers
      PROVE  /\ w.job # q /\ w.job \in Requests /\ job[w.job].wkr /\ job[w.job].occ
             /\ w.stream \in receipts /\ w.turn \in receipts
             /\ job[w.job].auto = w.auto /\ w.stream # job[q].stream
             /\ job[w.job].thread = w.thread
  BY <1>2, WorkerRow DEF OwnerInv, Matched, Reserved, OwnStreams
<1> HIDE DEF new, t, u
<1>9. Matched'
  <2>1. ASSUME NEW j \in Requests, Minted(j)'
        PROVE  /\ job'[j].turn \in receipts' /\ job'[j].stream \in receipts'
               /\ turn'[job'[j].turn].thread = job'[j].thread
    <3>1. CASE j = q
      BY <1>3, <1>4, <1>5, <1>7, <3>1
    <3>2. CASE j # q
      <4>1. Minted(j) /\ job'[j] = job[j]
        BY <1>5, <2>1, <3>2 DEF Minted
      <4>2. job[j].turn \in Requests
        BY <4>1 DEF OwnerInv, Typed, JobsAreMinted, Minted
      <4> QED
        BY <1>4, <1>7, <4>1, <4>2 DEF OwnerInv, Matched
    <3> QED
      BY <3>1, <3>2
  <2>2. ASSUME NEW w \in workers'
        PROVE  /\ w.turn \in receipts' /\ w.stream \in receipts'
               /\ job'[w.job].auto = w.auto
    <3>1. CASE w = new
      BY <1>3, <1>4, <1>5, <1>6, <3>1 DEF t, u
    <3>2. CASE w \in workers
      BY <1>4, <1>5, <1>8, <3>2
    <3> QED
      BY <1>4, <3>1, <3>2
  <2> QED
    BY <1>4, <1>7, <2>1, <2>2 DEF Matched
<1>10. Reserved'
  <2>1. ASSUME NEW j \in Requests,
               \/ job'[j].status \in {"running", "waiting_for_user"}
               \/ job'[j].status = "queued" /\ job'[j].gen > 0
        PROVE  job'[j].occ
    BY <1>5, <2>1 DEF OwnerInv, Reserved
  <2>2. ASSUME NEW w \in workers' PROVE job'[w.job].occ
    BY <1>4, <1>5, <1>6, <1>8, <2>2
  <2> QED
    BY <2>1, <2>2 DEF Reserved
<1>11. OneOccupant'
  <2>1. ASSUME NEW j \in Requests, j # q, job'[j].occ, job'[j].thread = t
        PROVE  FALSE
    BY <1>2, <1>5, <2>1 DEF Holds
  <2> QED
    BY <1>5, <2>1 DEF OneOccupant, JobsOn
<1>12. OneActive'
  <2>1. ASSUME NEW v \in Requests, v # u, turn'[v].thread = t,
               turn'[v].status \in ActiveTurn
        PROVE  FALSE
    BY <1>2, <1>7, <2>1 DEF ActiveTurnsOn
  <2>2. turn'[u].thread = t
    BY <1>3, <1>7
  <2> QED
    BY <1>7, <2>1, <2>2 DEF OneActive, ActiveTurnsOn
<1>13. OwnStreams'
  <2>1. \A j \in Requests : Minted(j)' <=> Minted(j)
    BY <1>2, <1>5 DEF Minted
  <2>2. \A j \in Requests : job'[j].stream = job[j].stream
    BY <1>5
  <2>3. ASSUME NEW w \in workers', NEW j \in Requests, Minted(j)',
               job'[j].stream = w.stream
        PROVE  j = w.job /\ job'[j].status # "queued"
    <3>1. CASE w = new
      BY <1>2, <1>5, <1>6, <2>1, <2>2, <2>3, <3>1 DEF OwnerInv, OwnStreams
    <3>2. CASE w \in workers
      BY <1>5, <1>8, <2>1, <2>2, <2>3, <3>2 DEF OwnerInv, OwnStreams
    <3> QED
      BY <1>4, <3>1, <3>2
  <2>4. ASSUME NEW v \in workers', NEW w \in workers', v.stream = w.stream
        PROVE  v = w
    BY <1>4, <1>6, <1>8, <2>4 DEF OwnerInv, OwnStreams
  <2> QED
    BY <2>1, <2>2, <2>3, <2>4 DEF OwnerInv, OwnStreams
<1>14. Told'
  <2>1. ASSUME NEW w \in workers', w.pc # "finish" PROVE done'[w.stream] = 0
    BY <1>3, <1>4, <1>6, <2>1 DEF OwnerInv, Told
  <2>2. ASSUME NEW j \in Requests
        PROVE  /\ job'[j].status = "queued" => done'[job'[j].stream] = 0
               /\ job'[j].status \in {"succeeded", "failed", "interrupted"} =>
                    done'[job'[j].stream] = 1
    BY <1>4, <1>5 DEF OwnerInv, Told
  <2> QED
    BY <1>4, <2>1, <2>2 DEF OwnerInv, Told
<1>15. AutomationSequential'
  <2>1. ASSUME NEW w \in workers, w.auto = job[q].auto, w.auto # NoAutomation
        PROVE  FALSE
    BY <1>2, <1>8, <2>1 DEF Holds
  <2> QED
    BY <1>4, <1>6, <2>1 DEF AutomationSequential
<1> QED
  BY <1>9, <1>10, <1>11, <1>12, <1>13, <1>14, <1>15

-----------------------------------------------------------------------------
(* Workers                                                                 *)

\* A worker that still owes its stream the terminal event moves on, and
\* appends that event at most on its way to finish_job.
LEMMA AdvanceSteps ==
    ASSUME OwnerInv, NEW w \in workers, Advance(w)
    PROVE  /\ UNCHANGED <<job, receipts>>
           /\ TurnsKept
           /\ w.pc # "finish"
           /\ \E pc \in {"run", "emit", "finish"}, out \in Outcome :
                /\ Goto(w, pc, out)
                /\ done' = done \/ (done' = Emitted(w) /\ pc = "finish")
<1>1. /\ turn \in [Requests -> Turn] /\ w \in Worker /\ w.turn \in Requests
      /\ w.out \in Outcome
  BY DEF OwnerInv, Typed, TypeOK, Worker
<1>2. ASSUME NEW status \in TurnStatus, turn' = [turn EXCEPT ![w.turn].status = status],
             status \in ActiveTurn => turn[w.turn].status \in ActiveTurn
      PROVE  TurnsKept
  <2>1. w.turn \in receipts
    BY DEF OwnerInv, Matched
  <2> QED
    BY <1>1, <1>2, <2>1 DEF TurnsKept, Turn
<1>3. turn' = turn => TurnsKept
  BY DEF TurnsKept
<1>4. turn[w.turn].status \in TurnStatus
  BY <1>1 DEF Turn
<1>5. CASE StartCancelled(w) \/ StartRefused(w) \/ StartResume(w) \/ AskAgain(w)
           \/ CancelResume(w) \/ EmitDone(w)
           \/ (\E told \in BOOLEAN : FailResume(w, told))
           \/ (\E out \in {"succeeded", "waiting_for_user"} : CompleteResume(w, out))
  <2>1. /\ w.pc # "finish" /\ UNCHANGED <<job, receipts, turn>>
        /\ \E pc \in {"run", "emit", "finish"}, out \in Outcome :
             /\ Goto(w, pc, out)
             /\ done' = done \/ (done' = Emitted(w) /\ pc = "finish")
    BY <1>1, <1>5
    DEF StartCancelled, StartRefused, StartResume, AskAgain, CancelResume, EmitDone,
        FailResume, CompleteResume, Running, Outcome
  <2> QED
    BY <1>3, <2>1
<1>6. CASE StartMessage(w) \/ CompleteTurn(w) \/ AskUser(w)
  <2>1. /\ w.pc # "finish" /\ UNCHANGED <<job, receipts, done>>
        /\ \E pc \in {"run", "emit", "finish"}, out \in Outcome : Goto(w, pc, out)
    BY <1>1, <1>6
    DEF StartMessage, CompleteTurn, AskUser, OwnsRunningTurn, Running, Outcome
  <2>2. TurnsKept
    BY <1>2, <1>6 DEF StartMessage, CompleteTurn, AskUser, OwnsRunningTurn, ActiveTurn,
                      TurnStatus
  <2> QED
    BY <2>1, <2>2
<1>7. CASE CancelRun(w)
  <2> DEFINE status == IF turn[w.turn].status \in TerminalTurn
                       THEN turn[w.turn].status ELSE "cancelled"
  <2>1. turn' = [turn EXCEPT ![w.turn].status = status] /\ Goto(w, "emit", "cancelled")
        /\ w.pc # "finish" /\ UNCHANGED <<job, receipts, done>>
    BY <1>7 DEF CancelRun, Running
  <2>2. /\ status \in TurnStatus
        /\ status \in ActiveTurn => turn[w.turn].status \in ActiveTurn
    BY <1>4 DEF TurnStatus, ActiveTurn
  <2> HIDE DEF status
  <2> QED
    BY <1>2, <2>1, <2>2 DEF Outcome
<1>8. CASE \E told \in BOOLEAN, p \in BOOLEAN : FailTurn(w, p, told)
  <2>1. PICK told \in BOOLEAN, p \in BOOLEAN : FailTurn(w, p, told)
    BY <1>8
  <2> DEFINE status == IF p /\ turn[w.turn].status \notin TerminalTurn
                       THEN "failed" ELSE turn[w.turn].status
  <2>2. /\ turn' = [turn EXCEPT ![w.turn].status = status] /\ Goto(w, "finish", "failed")
        /\ w.pc # "finish" /\ UNCHANGED <<job, receipts>>
        /\ done' = done \/ done' = Emitted(w)
    BY <2>1 DEF FailTurn, Running
  <2>3. /\ status \in TurnStatus
        /\ status \in ActiveTurn => turn[w.turn].status \in ActiveTurn
    BY <1>4 DEF TurnStatus, ActiveTurn
  <2> HIDE DEF status
  <2> QED
    <3>1. TurnsKept
      BY <1>2, <2>2, <2>3
    <3>2. "failed" \in Outcome
      BY DEF Outcome
    <3> QED
      BY <2>2, <3>1, <3>2
<1>9. \/ StartCancelled(w) \/ StartRefused(w) \/ StartResume(w) \/ AskAgain(w)
         \/ CancelResume(w) \/ EmitDone(w)
         \/ (\E told \in BOOLEAN : FailResume(w, told))
         \/ (\E out \in {"succeeded", "waiting_for_user"} : CompleteResume(w, out))
      \/ StartMessage(w) \/ CompleteTurn(w) \/ AskUser(w)
      \/ CancelRun(w)
      \/ \E told \in BOOLEAN, p \in BOOLEAN : FailTurn(w, p, told)
  BY DEF Advance
<1> QED
  BY <1>5, <1>6, <1>7, <1>8, <1>9

Kept == /\ Matched /\ Reserved /\ OneOccupant /\ OneActive /\ OwnStreams /\ Told
        /\ AutomationSequential

LEMMA AdvanceKeeps ==
    ASSUME OwnerInv, Kept, NEW w \in workers, Advance(w)
    PROVE  Kept'
<1>1. PICK pc \in {"run", "emit", "finish"}, out \in Outcome :
        /\ Goto(w, pc, out)
        /\ done' = done \/ (done' = Emitted(w) /\ pc = "finish")
  BY AdvanceSteps
<1>2. UNCHANGED <<job, receipts>> /\ TurnsKept /\ w.pc # "finish"
  BY AdvanceSteps
<1>3. PICK new : new = [w EXCEPT !.pc = pc, !.out = out]
  OBVIOUS
<1>4. /\ w \in Worker /\ w.stream \in Requests /\ w.stream \in receipts
      /\ done[w.stream] = 0 /\ done \in [Requests -> Nat]
  BY <1>2 DEF OwnerInv, Typed, TypeOK, Worker, Told, Matched
<1>5. /\ new.job = w.job /\ new.turn = w.turn /\ new.stream = w.stream
      /\ new.auto = w.auto /\ new.pc = pc
      /\ workers' = (workers \ {w}) \cup {new}
  BY <1>1, <1>3, <1>4 DEF Goto, Worker
<1>6. ASSUME NEW x \in workers'
      PROVE  \E v \in workers : /\ x.job = v.job /\ x.turn = v.turn
                                /\ x.stream = v.stream /\ x.auto = v.auto
                                /\ \/ v = w /\ x = new
                                   \/ v # w /\ x = v
  BY <1>5, <1>6
<1>7. Matched' /\ Reserved'
  <2>1. \A u \in Requests : /\ turn'[u].thread = turn[u].thread
                            /\ turn'[u].status # "none" => u \in receipts
    BY <1>2 DEF OwnerInv, Matched, TurnsKept
  <2>2. \A j \in Requests : Minted(j)' <=> Minted(j)
    BY <1>2 DEF Minted
  <2>3. \A j \in Requests : Minted(j) => job[j].turn \in Requests
    BY DEF OwnerInv, Typed, JobsAreMinted, Minted
  <2>4. Matched'
    BY <1>2, <1>6, <2>1, <2>2, <2>3 DEF OwnerInv, Matched
  <2>5. Reserved'
    BY <1>2, <1>6 DEF OwnerInv, Reserved
  <2> QED
    BY <2>4, <2>5
<1>8. OneOccupant' /\ OneActive'
  BY <1>2, NoneActivated DEF Kept, OneOccupant, JobsOn
<1>9. OwnStreams'
  <2>1. \A j \in Requests : Minted(j)' <=> Minted(j)
    BY <1>2 DEF Minted
  <2>2. ASSUME NEW x \in workers', NEW j \in Requests, Minted(j), job[j].stream = x.stream
        PROVE  j = x.job /\ job[j].status # "queued"
    BY <1>6, <2>2 DEF OwnerInv, OwnStreams
  <2>3. ASSUME NEW x \in workers', NEW y \in workers', x.stream = y.stream
        PROVE  x = y
    BY <1>6, <2>3 DEF OwnerInv, OwnStreams
  <2> QED
    BY <1>2, <2>1, <2>2, <2>3 DEF OwnerInv, OwnStreams
<1>10. Told'
  <2>1. /\ \A s \in Requests \ {w.stream} : done'[s] = done[s]
        /\ done'[w.stream] = 0 \/ (done'[w.stream] = 1 /\ pc = "finish")
    BY <1>1, <1>4 DEF Emitted
  <2>2. \A s \in Requests : done'[s] \in {0, 1} /\ (done'[s] # 0 => s \in receipts)
    BY <1>4, <2>1 DEF OwnerInv, Told
  <2>3. ASSUME NEW j \in Requests, Minted(j)
        PROVE  /\ job[j].status = "queued" => done'[job[j].stream] = 0
               /\ job[j].status \in {"succeeded", "failed", "interrupted"} =>
                    done'[job[j].stream] = 1
    <3>1. job[j].stream \in Requests
      BY <2>3 DEF OwnerInv, Typed, JobsAreMinted, Minted
    <3>2. CASE job[j].stream = w.stream
      <4>1. j = w.job /\ job[j].status # "queued"
        BY <2>3, <3>2 DEF OwnerInv, OwnStreams
      <4>2. job[j].status \in {"running", "queued", "cancelled"}
        BY <4>1, WorkerRow DEF OwnerInv
      <4> QED
        BY <4>1, <4>2
    <3>3. CASE job[j].stream # w.stream
      BY <2>1, <3>1, <3>3 DEF OwnerInv, Told
    <3> QED
      BY <3>2, <3>3
  <2>4. ASSUME NEW x \in workers', x.pc # "finish" PROVE done'[x.stream] = 0
    <3>1. CASE x = new
      BY <1>5, <2>1, <2>4, <3>1
    <3>2. CASE x # new
      <4>1. x \in workers /\ x # w
        BY <1>5, <3>2
      <4>2. x.stream # w.stream /\ x.stream \in Requests /\ done[x.stream] = 0
        BY <2>4, <4>1 DEF OwnerInv, OwnStreams, Typed, TypeOK, Worker, Told
      <4> QED
        BY <2>1, <4>2
    <3> QED
      BY <3>1, <3>2
  <2> QED
    BY <1>2, <2>2, <2>3, <2>4 DEF Told, Minted
<1>11. AutomationSequential'
  <2>1. ASSUME NEW x \in workers', NEW y \in workers', x.auto = y.auto,
               x.auto # NoAutomation
        PROVE  x = y
    BY <1>6, <2>1 DEF Kept, AutomationSequential
  <2> QED
    BY <2>1 DEF AutomationSequential
<1> QED
  BY <1>7, <1>8, <1>9, <1>10, <1>11 DEF Kept

\* finish_job writes the worker's own row and no other.  Unless a continuation
\* took the row over, it ends or asks, and its stream is closed.
FinishWrites(w) ==
    /\ \A j \in Requests \ {w.job} : job'[j] = job[j]
    /\ job'[w.job].thread = job[w.job].thread /\ job'[w.job].turn = job[w.job].turn
    /\ job'[w.job].stream = job[w.job].stream /\ job'[w.job].auto = job[w.job].auto
    /\ \/ /\ job'[w.job].status = job[w.job].status
          /\ job'[w.job].occ = job[w.job].occ
          /\ done' = done
       \/ /\ job[w.job].stream = w.stream
          /\ done' = Closed({w.stream})
          /\ job'[w.job].status \in
               {"succeeded", "failed", "interrupted", "cancelled", "waiting_for_user"}
          /\ job'[w.job].status = "waiting_for_user" => job'[w.job].occ

LEMMA FinishSteps ==
    ASSUME OwnerInv, NEW w \in workers, Finish(w)
    PROVE  /\ workers' = workers \ {w} /\ UNCHANGED receipts
           /\ TurnsKept /\ FinishWrites(w)
<1> DEFINE j == w.job
<1>1. /\ job \in [Requests -> Job] /\ turn \in [Requests -> Turn]
      /\ w \in Worker /\ j \in Requests /\ job[j] \in Job /\ Minted(j)
      /\ w.turn \in Requests /\ w.turn \in receipts /\ w.out \in Outcome
      /\ job[j].status \in {"running", "queued", "cancelled"}
      /\ turn[w.turn].status \in TurnStatus
  BY WorkerRow DEF OwnerInv, Typed, TypeOK, Worker, Turn, Minted, Matched
<1>2. workers' = workers \ {w} /\ UNCHANGED receipts
  BY DEF Finish, FinishSuperseded, FinishUncertain, FinishSettled
<1>3. ASSUME NEW status \in TurnStatus, turn' = [turn EXCEPT ![w.turn].status = status],
             status \in ActiveTurn => turn[w.turn].status \in ActiveTurn
      PROVE  TurnsKept
  BY <1>1, <1>3 DEF TurnsKept, Turn
<1> HIDE DEF j
<1>4. CASE FinishSuperseded(w)
  <2>1. job' = [job EXCEPT ![j] = [job[j] EXCEPT !.wkr = FALSE]]
        /\ UNCHANGED <<turn, done>>
    BY <1>1, <1>4 DEF FinishSuperseded, j
  <2>2. /\ job'[j] = [job[j] EXCEPT !.wkr = FALSE]
        /\ \A k \in Requests \ {j} : job'[k] = job[k]
    BY <1>1, <2>1
  <2>3. /\ job'[j].thread = job[j].thread /\ job'[j].turn = job[j].turn
        /\ job'[j].stream = job[j].stream /\ job'[j].auto = job[j].auto
        /\ job'[j].status = job[j].status /\ job'[j].occ = job[j].occ
    BY <1>1, <2>2 DEF Job
  <2> QED
    BY <1>2, <2>1, <2>2, <2>3 DEF FinishWrites, TurnsKept, j
<1>5. CASE FinishUncertain(w)
  <2>1. job' = [job EXCEPT ![j] = [job[j] EXCEPT !.status = "interrupted",
                                                 !.verified = FALSE, !.wkr = FALSE,
                                                 !.occ = TRUE]]
        /\ done' = Closed({w.stream}) /\ job[j].stream = w.stream
    BY <1>5 DEF FinishUncertain, OwnsStream, j
  <2>2. /\ job'[j] = [job[j] EXCEPT !.status = "interrupted",
                                    !.verified = FALSE, !.wkr = FALSE, !.occ = TRUE]
        /\ \A k \in Requests \ {j} : job'[k] = job[k]
    BY <1>1, <2>1
  <2>3. /\ job'[j].thread = job[j].thread /\ job'[j].turn = job[j].turn
        /\ job'[j].stream = job[j].stream /\ job'[j].auto = job[j].auto
        /\ job'[j].status = "interrupted"
    BY <1>1, <2>2 DEF Job
  <2>4. TurnsKept
    <3> DEFINE status == IF turn[w.turn].status \in {"pending", "running"}
                         THEN "failed" ELSE turn[w.turn].status
    <3>1. turn' = [turn EXCEPT ![w.turn].status = status]
      BY <1>5 DEF FinishUncertain
    <3>2. status \in TurnStatus /\ (status \in ActiveTurn => turn[w.turn].status \in ActiveTurn)
      BY <1>1 DEF TurnStatus, ActiveTurn
    <3> HIDE DEF status
    <3> QED
      BY <1>3, <3>1, <3>2
  <2> QED
    BY <1>2, <2>1, <2>2, <2>3, <2>4 DEF FinishWrites, j
<1>6. CASE FinishSettled(w)
  <2> DEFINE live == job[j].status = "running"
             ended == IF live THEN w.out ELSE job[j].status
  <2>1. /\ job' = [job EXCEPT ![j] = [job[j] EXCEPT !.status = ended, !.wkr = FALSE,
                                                    !.occ = (ended = "waiting_for_user")]]
        /\ done' = Closed({w.stream}) /\ job[j].stream = w.stream
    BY <1>6 DEF FinishSettled, OwnsStream, j
  <2>2. job[j].status # "queued"
    BY <1>1, <2>1 DEF OwnerInv, OwnStreams
  <2>3. ended \in {"succeeded", "failed", "interrupted", "cancelled", "waiting_for_user"}
    BY <1>1, <2>2 DEF Outcome
  <2>4. TurnsKept
    <3> DEFINE status == IF live /\ turn[w.turn].status \in {"pending", "running"}
                         THEN TurnAfter(w.out) ELSE turn[w.turn].status
    <3>1. turn' = [turn EXCEPT ![w.turn].status = status]
      BY <1>6 DEF FinishSettled, j
    <3>2. status \in TurnStatus /\ (status \in ActiveTurn => turn[w.turn].status \in ActiveTurn)
      BY <1>1 DEF TurnStatus, ActiveTurn, TurnAfter, Outcome
    <3> HIDE DEF status
    <3> QED
      BY <1>3, <3>1, <3>2
  <2> HIDE DEF ended, live
  <2>5. /\ job'[j] = [job[j] EXCEPT !.status = ended, !.wkr = FALSE,
                                    !.occ = (ended = "waiting_for_user")]
        /\ \A k \in Requests \ {j} : job'[k] = job[k]
    BY <1>1, <2>1
  <2>6. /\ job'[j].thread = job[j].thread /\ job'[j].turn = job[j].turn
        /\ job'[j].stream = job[j].stream /\ job'[j].auto = job[j].auto
        /\ job'[j].status = ended /\ job'[j].occ = (ended = "waiting_for_user")
    BY <1>1, <2>5 DEF Job
  <2> QED
    BY <1>2, <2>1, <2>3, <2>4, <2>5, <2>6 DEF FinishWrites, j
<1> QED
  BY <1>4, <1>5, <1>6 DEF Finish

LEMMA FinishKeeps ==
    ASSUME OwnerInv, Kept, NEW w \in workers, Finish(w)
    PROVE  Kept'
<1> DEFINE k == w.job
<1>1. /\ workers' = workers \ {w} /\ receipts' = receipts /\ TurnsKept
      /\ FinishWrites(w)
  BY FinishSteps
<1>2. /\ k \in Requests /\ Minted(k) /\ job[k].occ /\ w.stream \in Requests
      /\ w.stream \in receipts /\ w \in Worker
      /\ job[k].status \in {"running", "queued", "cancelled"}
  BY WorkerRow DEF OwnerInv, Typed, TypeOK, Worker, Minted, Reserved, Matched
<1> HIDE DEF k
<1>3. /\ \A j \in Requests \ {k} : job'[j] = job[j]
      /\ job'[k].thread = job[k].thread /\ job'[k].turn = job[k].turn
      /\ job'[k].stream = job[k].stream /\ job'[k].auto = job[k].auto
      /\ \/ /\ job'[k].status = job[k].status /\ job'[k].occ = job[k].occ
            /\ done' = done
         \/ /\ job[k].stream = w.stream /\ done' = Closed({w.stream})
            /\ job'[k].status \in
                 {"succeeded", "failed", "interrupted", "cancelled", "waiting_for_user"}
            /\ job'[k].status = "waiting_for_user" => job'[k].occ
  BY <1>1 DEF FinishWrites, k
<1>4. \A j \in Requests :
        /\ job'[j].thread = job[j].thread /\ job'[j].turn = job[j].turn
        /\ job'[j].stream = job[j].stream /\ job'[j].auto = job[j].auto
        /\ Minted(j)' <=> Minted(j)
        /\ job'[j].occ => job[j].occ
        /\ job'[j].status = "queued" => job[j].status = "queued"
  BY <1>2, <1>3 DEF Minted
<1>5. ASSUME NEW x \in workers, x # w PROVE x.job # k
  <2>1. x.job # w.job
    BY <1>5, WorkerRow DEF OwnerInv, WorkerInv, OneWorkerPerThread
  <2> QED
    BY <2>1 DEF k
<1>6. \A s \in Requests : Closed({w.stream})[s] = IF s = w.stream THEN 1 ELSE done[s]
  <2>1. ASSUME NEW s \in Requests
        PROVE  Closed({w.stream})[s] = IF s \in {w.stream} THEN 1 ELSE done[s]
    BY ClosedOnce DEF OwnerInv
  <2> QED
    BY <2>1
<1>7. Matched'
  <2>1. \A u \in Requests : turn'[u].status # "none" => u \in receipts
    BY <1>1 DEF OwnerInv, Matched, TurnsKept
  <2>2. \A j \in Requests : Minted(j) => job[j].turn \in Requests
    BY DEF OwnerInv, Typed, JobsAreMinted, Minted
  <2>3. \A u \in Requests : turn'[u].thread = turn[u].thread
    BY <1>1 DEF TurnsKept
  <2>4. \A x \in workers : x.job \in Requests
    BY WorkerRow DEF OwnerInv
  <2> QED
    BY <1>1, <1>4, <2>1, <2>2, <2>3, <2>4 DEF OwnerInv, Matched
<1>8. Reserved'
  <2>1. ASSUME NEW j \in Requests,
               \/ job'[j].status \in {"running", "waiting_for_user"}
               \/ job'[j].status = "queued" /\ job'[j].gen > 0
        PROVE  job'[j].occ
    <3>1. CASE j # k
      BY <1>3, <2>1, <3>1 DEF OwnerInv, Reserved
    <3>2. CASE j = k
      BY <1>2, <1>3, <2>1, <3>2
    <3> QED
      BY <3>1, <3>2
  <2>2. ASSUME NEW x \in workers' PROVE job'[x.job].occ
    <3>1. x \in workers /\ x # w /\ x.job \in Requests
      BY <1>1, WorkerRow DEF OwnerInv
    <3> QED
      BY <1>3, <1>5, <3>1 DEF OwnerInv, Reserved
  <2> QED
    BY <2>1, <2>2 DEF Reserved
<1>9. OneOccupant' /\ OneActive'
  BY <1>1, <1>4, NoneActivated DEF Kept, OneOccupant, JobsOn
<1>10. OwnStreams'
  BY <1>1, <1>4 DEF OwnerInv, OwnStreams
<1>11. Told'
  <2>1. /\ \A s \in Requests \ {w.stream} : done'[s] = done[s]
        /\ done'[w.stream] \in {0, 1}
        /\ done[w.stream] = 1 => done'[w.stream] = 1
    BY <1>2, <1>3, <1>6, ZenonT(60) DEF OwnerInv, Told
  <2>2. \A s \in Requests : done'[s] \in {0, 1} /\ (done'[s] # 0 => s \in receipts)
    BY <1>2, <2>1 DEF OwnerInv, Told
  <2>3. ASSUME NEW j \in Requests, job'[j].status = "queued"
        PROVE  done'[job'[j].stream] = 0
    <3>1. /\ job[j].status = "queued" /\ job[j].stream \in Requests /\ Minted(j)
          /\ job'[j].stream = job[j].stream
      BY <1>4, <2>3 DEF OwnerInv, Typed, JobsAreMinted, Minted
    <3>2. job[j].stream # w.stream
      BY <3>1 DEF OwnerInv, OwnStreams
    <3> QED
      BY <2>1, <3>1, <3>2 DEF OwnerInv, Told
  <2>4. ASSUME NEW j \in Requests,
               job'[j].status \in {"succeeded", "failed", "interrupted"}
        PROVE  done'[job'[j].stream] = 1
    <3>1. CASE j # k
      <4>1. /\ job[j].status \in {"succeeded", "failed", "interrupted"}
            /\ job'[j].stream = job[j].stream /\ job[j].stream \in Requests
        BY <1>3, <2>4, <3>1 DEF OwnerInv, Typed, JobsAreMinted
      <4> QED
        BY <2>1, <4>1 DEF OwnerInv, Told
    <3>2. CASE j = k
      BY <1>2, <1>3, <1>6, <2>4, <3>2, ZenonT(60)
    <3> QED
      BY <3>1, <3>2
  <2>5. ASSUME NEW x \in workers', x.pc # "finish" PROVE done'[x.stream] = 0
    <3>1. x \in workers /\ x # w /\ x.stream \in Requests
      BY <1>1 DEF OwnerInv, Typed, TypeOK, Worker
    <3>2. x.stream # w.stream
      BY <3>1 DEF OwnerInv, OwnStreams
    <3> QED
      BY <2>1, <2>5, <3>1, <3>2 DEF OwnerInv, Told
  <2> QED
    BY <1>1, <2>2, <2>3, <2>4, <2>5 DEF Told
<1>12. AutomationSequential'
  BY <1>1 DEF Kept, AutomationSequential
<1> QED
  BY <1>7, <1>8, <1>9, <1>10, <1>11, <1>12 DEF Kept

\* What leaves jobs, turns, streams and workers alone keeps everything; so does
\* a worker that is gone.
LEMMA NothingKeeps ==
    ASSUME OwnerInv, Kept, UNCHANGED <<job, done, receipts>>, TurnsKept,
           workers' = workers \/ workers' = {}
    PROVE  Kept'
<1>1. workers' \subseteq workers
  OBVIOUS
<1>2. \A j \in Requests : Minted(j)' <=> Minted(j)
  BY DEF Minted
<1>3. Matched'
  <2>1. \A j \in Requests : Minted(j) => job[j].turn \in Requests
    BY DEF OwnerInv, Typed, JobsAreMinted, Minted
  <2> QED
    BY <1>1, <1>2, <2>1 DEF OwnerInv, Matched, TurnsKept
<1>4. Reserved' /\ OwnStreams' /\ AutomationSequential'
  BY <1>1, <1>2 DEF Kept, Reserved, OwnStreams, AutomationSequential
<1>5. OneOccupant' /\ OneActive'
  BY NoneActivated DEF Kept, OneOccupant, JobsOn
<1>6. Told'
  BY <1>1 DEF Kept, Told
<1> QED
  BY <1>3, <1>4, <1>5, <1>6 DEF Kept

-----------------------------------------------------------------------------
(* Restart                                                                 *)

\* No worker outlives its server.
LEMMA NoWorkers ==
    ASSUME OwnerInv, phase # "up"
    PROVE  workers = {}
  BY DEF OwnerInv, WorkerInv, WorkersOwnTheirJobs

LEMMA RecoverTurnsKeeps ==
    ASSUME OwnerInv, Kept, RecoverTurns
    PROVE  Kept'
<1>1. UNCHANGED <<job, done, receipts, workers>>
  BY DEF RecoverTurns
<1>2. TurnsKept
  <2>1. ASSUME NEW u \in Requests
        PROVE  /\ turn'[u].thread = turn[u].thread
               /\ \/ turn'[u].status = turn[u].status
                  \/ turn'[u].status = "failed" /\ turn[u].status # "none"
    <3>1. turn[u] \in Turn
      BY DEF OwnerInv, Typed, TypeOK
    <3> QED
      BY <3>1 DEF RecoverTurns, Turn
  <2> QED
    BY <2>1 DEF TurnsKept, ActiveTurn
<1> QED
  BY <1>1, <1>2, NothingKeeps

\* What the three UPDATEs of recover make of a status
LEMMA RecoveredCases ==
    ASSUME OwnerInv, NEW j \in Requests
    PROVE  /\ RecoveredStatus(j) # "running"
           /\ RecoveredStatus(j) = "none" <=> job[j].status = "none"
           /\ RecoveredStatus(j) = "queued" => job[j].status = "queued"
           /\ RecoveredStatus(j) = "waiting_for_user" =>
                job[j].status \in {"running", "waiting_for_user"}
           /\ RecoveredStatus(j) = "failed" => job[j].status = "failed"
           /\ RecoveredStatus(j) = "succeeded" =>
                job[j].status = "succeeded" \/ done[job[j].stream] > 0
<1>1. job[j].status = "none" => job[j].turn = 0 /\ ~job[j].wkr
  BY DEF OwnerInv, Typed, JobsAreMinted
<1>2. CASE Uncertain(job[j].turn)
  <2>1. RecoveredStatus(j) = "interrupted"
    BY <1>2 DEF RecoveredStatus
  <2>2. job[j].status # "none"
    BY <1>1, <1>2 DEF Uncertain
  <2> QED
    BY <2>1, <2>2
<1>3. CASE ~Uncertain(job[j].turn) /\ job[j].status # "running"
  <2>1. RecoveredStatus(j) = IF job[j].status \in {"queued", "cancelled"} /\ job[j].wkr
                             THEN "interrupted" ELSE job[j].status
    BY <1>3 DEF RecoveredStatus
  <2> QED
    BY <1>1, <1>3, <2>1
<1>4. CASE ~Uncertain(job[j].turn) /\ job[j].status = "running"
  <2> DEFINE u == job[j].turn
             first == CASE turn[u].status = "waiting_for_user" -> "waiting_for_user"
                        [] turn[u].status = "cancelled" -> "cancelled"
                        [] turn[u].status = "completed"
                             /\ done[job[j].stream] > 0 -> "succeeded"
                        [] OTHER -> "interrupted"
  <2>1. RecoveredStatus(j) = IF first \in {"queued", "cancelled"} /\ job[j].wkr
                             THEN "interrupted" ELSE first
    BY <1>4 DEF RecoveredStatus
  <2>2. /\ first \in {"waiting_for_user", "cancelled", "succeeded", "interrupted"}
        /\ first = "succeeded" => done[job[j].stream] > 0
    OBVIOUS
  <2> HIDE DEF first
  <2> QED
    BY <1>4, <2>1, <2>2
<1> QED
  BY <1>2, <1>3, <1>4

LEMMA RecoverJobsKeeps ==
    ASSUME OwnerInv, Kept, RecoverJobs
    PROVE  Kept'
<1> DEFINE rewritten(j) == \/ Uncertain(job[j].turn)
                           \/ RecoveredStatus(j) # job[j].status
           verified(j) == job[j].verified /\ ~rewritten(j)
           interrupted == {j \in Requests : /\ RecoveredStatus(j) = "interrupted"
                                            /\ ~verified(j)}
           told == {job[j].stream : j \in interrupted}
           occ(j) == /\ job[j].occ \/ Uncertain(job[j].turn)
                     /\ RecoveredStatus(j) \notin {"succeeded", "failed", "cancelled"}
<1>1. /\ job' = [j \in Requests |->
                   [job[j] EXCEPT !.status = RecoveredStatus(j),
                                  !.verified = verified(j), !.wkr = FALSE,
                                  !.occ = occ(j)]]
      /\ done' = Closed(told) /\ UNCHANGED <<turn, receipts, workers>>
      /\ \A t \in Threads : \A j, k \in RecoveredOccupants(t) : j = k
  BY DEF RecoverJobs
<1>2. workers' = {} /\ turn' = turn /\ receipts' = receipts
  BY <1>1, NoWorkers DEF RecoverJobs
<1>3. ASSUME NEW j \in Requests
      PROVE  /\ job'[j].thread = job[j].thread /\ job'[j].turn = job[j].turn
             /\ job'[j].stream = job[j].stream /\ job'[j].gen = job[j].gen
             /\ job'[j].status = RecoveredStatus(j) /\ job'[j].occ = occ(j)
  <2> HIDE DEF occ, verified, told
  <2>1. job[j] \in Job
    BY DEF OwnerInv, Typed, TypeOK
  <2>2. job'[j] = [job[j] EXCEPT !.status = RecoveredStatus(j),
                                 !.verified = verified(j), !.wkr = FALSE,
                                 !.occ = occ(j)]
    BY <1>1
  <2> QED
    BY <2>1, <2>2 DEF Job
<1>4. \A j \in Requests : Minted(j)' <=> Minted(j)
  BY <1>3, RecoveredCases DEF Minted
<1>5. Matched'
  <2>1. ASSUME NEW j \in Requests, Minted(j)'
        PROVE  /\ job'[j].turn \in receipts' /\ job'[j].stream \in receipts'
               /\ turn'[job'[j].turn].thread = job'[j].thread
    BY <1>2, <1>3, <1>4, <2>1 DEF OwnerInv, Matched
  <2>2. \A u \in Requests : turn'[u].status # "none" => u \in receipts'
    BY <1>2 DEF OwnerInv, Matched
  <2> QED
    BY <1>2, <2>1, <2>2 DEF Matched
<1>6. Reserved'
  <2>1. ASSUME NEW j \in Requests,
               \/ job'[j].status \in {"running", "waiting_for_user"}
               \/ job'[j].status = "queued" /\ job'[j].gen > 0
        PROVE  job'[j].occ
    <3>1. job[j].occ
      BY <1>3, <2>1, RecoveredCases, ZenonT(60) DEF OwnerInv, Reserved
    <3> QED
      BY <1>3, <2>1, <3>1
  <2> QED
    BY <1>1, <1>2, <2>1 DEF Reserved
<1>7. OneOccupant'
  <2>1. ASSUME NEW t \in Threads, NEW j \in JobsOn(t)', job'[j].occ
        PROVE  j \in RecoveredOccupants(t)
    BY <1>3, <2>1 DEF JobsOn, RecoveredOccupants
  <2> QED
    BY <1>1, <2>1 DEF OneOccupant
<1>8. OneActive' /\ AutomationSequential'
  <2>1. OneActive'
    BY <1>1, ZenonT(60) DEF Kept, OneActive, ActiveTurnsOn
  <2>2. AutomationSequential'
    BY <1>1, ZenonT(60) DEF Kept, AutomationSequential
  <2> QED
    BY <2>1, <2>2
<1>9. OwnStreams'
  BY <1>1, <1>2, <1>3, <1>4, ZenonT(60) DEF OwnerInv, OwnStreams
<1>10. Told'
  <2>1. \A s \in Requests : /\ done'[s] = IF s \in told THEN 1 ELSE done[s]
                            /\ done'[s] \in {0, 1}
    BY <1>1, ClosedOnce DEF OwnerInv
  <2>2. ASSUME NEW s \in Requests, s \in told
        PROVE  \E i \in Requests : /\ RecoveredStatus(i) = "interrupted" /\ Minted(i)
                                   /\ job[i].stream = s
    BY <2>2, RecoveredCases DEF Minted
  <2>3. ASSUME NEW s \in Requests, done'[s] # 0 PROVE s \in receipts'
    <3>1. CASE s \in told
      BY <1>2, <2>2, <3>1 DEF OwnerInv, Matched
    <3>2. CASE s \notin told
      BY <1>2, <2>1, <2>3, <3>2 DEF OwnerInv, Told
    <3> QED
      BY <3>1, <3>2
  <2>4. ASSUME NEW j \in Requests, job'[j].status = "queued"
        PROVE  done'[job'[j].stream] = 0
    <3>1. /\ job[j].status = "queued" /\ job[j].stream \in Requests /\ Minted(j)
          /\ RecoveredStatus(j) = "queued" /\ job'[j].stream = job[j].stream
      BY <1>3, <2>4, RecoveredCases DEF OwnerInv, Typed, JobsAreMinted, Minted
    <3>2. job[j].stream \notin told
      BY <2>2, <3>1 DEF OwnerInv, OwnStreams
    <3> QED
      BY <2>1, <3>1, <3>2 DEF OwnerInv, Told
  <2>5. ASSUME NEW j \in Requests,
               job'[j].status \in {"succeeded", "failed", "interrupted"}
        PROVE  done'[job'[j].stream] = 1
    <3>1. /\ Minted(j) /\ job[j].stream \in Requests
          /\ job'[j].status = RecoveredStatus(j) /\ job'[j].stream = job[j].stream
      BY <1>3, <1>4, <2>5 DEF OwnerInv, Typed, JobsAreMinted, Minted
    <3>2. CASE j \in interrupted
      BY <2>1, <3>1, <3>2
    <3>3. CASE j \notin interrupted
      <4>1. done[job[j].stream] = 1
        <5>1. CASE RecoveredStatus(j) = "interrupted"
          <6>1. job[j].status = "interrupted"
            BY <3>3, <5>1
          <6> QED
            BY <6>1 DEF OwnerInv, Told
        <5>2. CASE RecoveredStatus(j) \in {"succeeded", "failed"}
          BY <3>1, <5>2, RecoveredCases DEF OwnerInv, Told
        <5> QED
          BY <2>5, <3>1, <5>1, <5>2
      <4> QED
        BY <2>1, <3>1, <4>1
    <3> QED
      BY <3>2, <3>3
  <2> QED
    BY <1>1, <1>2, <2>1, <2>3, <2>4, <2>5 DEF Told
<1> QED
  BY <1>5, <1>6, <1>7, <1>8, <1>9, <1>10 DEF Kept

-----------------------------------------------------------------------------
(* The invariant                                                           *)

LEMMA KeptInit == Init => Kept
<1> SUFFICES ASSUME Init PROVE Kept
  OBVIOUS
<1>1. \A j \in Requests : job[j].status = "none" /\ ~job[j].occ /\ done[j] = 0
  BY DEF Init, NoJob
<1>2. \A u \in Requests : turn[u].status = "none"
  BY DEF Init
<1>3. workers = {}
  BY DEF Init
<1>4. Matched /\ Reserved /\ OwnStreams /\ Told /\ AutomationSequential
  BY <1>1, <1>2, <1>3
  DEF Matched, Minted, Reserved, OwnStreams, Told, AutomationSequential
<1>5. OneOccupant /\ OneActive
  BY <1>1, <1>2 DEF OneOccupant, OneActive, JobsOn, ActiveTurnsOn, ActiveTurn
<1> QED
  BY <1>4, <1>5 DEF Kept

LEMMA OwnerParts == OwnerInv /\ AutomationSequential <=> Typed /\ WorkerInv /\ Kept
  BY DEF OwnerInv, Kept, OneOwnerPerThread, OneOccupant, OneActive

LEMMA KeptStep ==
    ASSUME OwnerInv, Kept, [Next]_vars
    PROVE  Kept'
<1>1. Typed'
  BY TypedStep DEF OwnerInv
<1>2. OneOccupant /\ OneActive /\ AutomationSequential
  BY DEF Kept
<1>3. CASE Client
  <2>1. /\ OneActive' /\ StreamsKept
        /\ \/ \E r \in Requests, t \in Threads, k \in Requests : Minting(r, t, k)
           \/ Ending /\ TurnsKept
    BY <1>2, <1>3, ClientStep
  <2>2. Matched' /\ Reserved' /\ OneOccupant' /\ OwnStreams' /\ Told'
    BY <1>1, <1>2, <2>1, MintingKeeps, EndingKeeps
  <2>3. workers' = workers
    BY <2>1 DEF Minting, Ending
  <2> QED
    BY <1>2, <2>1, <2>2, <2>3 DEF Kept, AutomationSequential
<1>4. CASE Claim
  BY <1>2, <1>4, ClaimKeeps DEF Claim, Kept
<1>5. CASE Work
  <2>1. PICK w \in workers : Advance(w) \/ Finish(w) \/ Interrupt(w) \/ StartOperation(w)
    BY <1>5 DEF Work
  <2>2. CASE Interrupt(w) \/ StartOperation(w)
    <3>1. UNCHANGED <<job, turn, done, receipts, workers>>
      BY <2>2 DEF Interrupt, StartOperation
    <3> QED
      BY <3>1, NothingKeeps DEF TurnsKept
  <2> QED
    BY <2>1, <2>2, AdvanceKeeps, FinishKeeps
<1>6. CASE EndOperations \/ Crash \/ UNCHANGED vars
  <2>1. /\ UNCHANGED <<job, turn, done, receipts>>
        /\ workers' = workers \/ workers' = {}
    BY <1>6 DEF EndOperations, EndOperation, Crash, vars
  <2> QED
    BY <2>1, NothingKeeps DEF TurnsKept
<1> QED
  BY <1>3, <1>4, <1>5, <1>6, RecoverTurnsKeeps, RecoverJobsKeeps DEF Next

LEMMA OwnerStep ==
    ASSUME OwnerInv, AutomationSequential, [Next]_vars
    PROVE  OwnerInv' /\ AutomationSequential'
<1>1. Typed /\ WorkerInv /\ Kept
  BY OwnerParts
<1>2. Typed' /\ WorkerInv' /\ Kept'
  BY <1>1, TypedStep, WorkerStep, KeptStep
<1> QED
  BY <1>2 DEF OwnerInv, Kept, OneOwnerPerThread, OneOccupant, OneActive

LEMMA OwnerInvariant == Spec => [](OwnerInv /\ AutomationSequential)
<1>1. Init => OwnerInv /\ AutomationSequential
  BY TypedInit, KeptInit, OwnerParts
  DEF Init, WorkerInv, WorkersOwnTheirJobs, OneWorkerPerThread,
      NothingRunsBesideInterrupted
<1>2. OwnerInv /\ AutomationSequential /\ [Next]_vars
        => OwnerInv' /\ AutomationSequential'
  BY OwnerStep
<1> QED
  BY <1>1, <1>2, PTL DEF Spec

\* No two jobs occupy a thread and no two turns are active on it, whatever
\* claims, finishes, continues, cancels or recovers them: claim_next,
\* finish_job, accept_message, accept_resume and recover.
THEOREM OneOwner == Spec => []OneOwnerPerThread
<1>1. OwnerInv => OneOwnerPerThread
  BY DEF OwnerInv
<1> QED
  BY <1>1, OwnerInvariant, PTL

\* The thread of a question, and of the continuation that answers it, stays
\* reserved until a worker continues it: the occupies_thread column.
THEOREM ThreadReserved == Spec => []ContinuationKeepsThread
<1>1. OwnerInv => ContinuationKeepsThread
  BY DEF OwnerInv, Reserved, ContinuationKeepsThread
<1> QED
  BY <1>1, OwnerInvariant, PTL

\* The terminal event of a stream is appended once, by whichever of the worker,
\* finish_job, a cancellation and recover comes first, and it is there when the
\* job has ended: append_stream_terminal and the guarded `done` events.
THEOREM ToldOnce == Spec => []OneTerminalEvent
<1>1. OwnerInv => OneTerminalEvent
  BY DEF OwnerInv, Told, OneTerminalEvent
<1> QED
  BY <1>1, OwnerInvariant, PTL

\* Occurrences of one automation never run side by side: the automation
\* conjunct of claim_next.
THEOREM AutomationsTakeTurns == Spec => []AutomationSequential
<1> QED
  BY OwnerInvariant, PTL

-----------------------------------------------------------------------------
(* The service, and what was queued                                        *)

\* Where a command is, told from the workers and the queued jobs
Placed ==
    /\ \A r \in Requests \ receipts :
         CommandState(r) = "unknown" /\ CommandLane(r) = NoThread
    /\ \A w \in workers :
         CommandState(w.stream) = "executing" /\ CommandLane(w.stream) = w.thread
    /\ \A j \in Requests :
         job[j].status = "queued" =>
           /\ CommandState(job[j].stream) = "accepted"
           /\ CommandLane(job[j].stream) = job[j].thread
    /\ \A r \in receipts :
         /\ \A w \in workers : w.stream # r
         /\ \A j \in Requests : job[j].status = "queued" => job[j].stream # r
         => CommandState(r) = "ended" /\ CommandLane(r) = NoThread

LEMMA PlacedByOwners == OwnerInv => Placed
<1> SUFFICES ASSUME OwnerInv PROVE Placed
  OBVIOUS
<1>1. ASSUME NEW r, \A w \in workers : w.stream # r,
             \A j \in Requests : job[j].status = "queued" => job[j].stream # r
      PROVE  /\ CommandState(r) = IF r \in receipts THEN "ended" ELSE "unknown"
             /\ CommandLane(r) = NoThread
  BY <1>1 DEF CommandState, CommandLane, WorkersOf, QueuedJobsOf
<1>2. \A w \in workers : w.stream \in receipts
  BY DEF OwnerInv, Matched
<1>3. \A j \in Requests : job[j].status = "queued" => job[j].stream \in receipts
  BY DEF OwnerInv, Matched, Minted
<1>4. ASSUME NEW w \in workers
      PROVE  /\ CommandState(w.stream) = "executing"
             /\ CommandLane(w.stream) = w.thread
  <2>1. WorkersOf(w.stream) = {w}
    BY DEF WorkersOf, OwnerInv, OwnStreams
  <2> QED
    BY <1>2, <2>1 DEF CommandState, CommandLane
<1>5. ASSUME NEW j \in Requests, job[j].status = "queued"
      PROVE  /\ CommandState(job[j].stream) = "accepted"
             /\ CommandLane(job[j].stream) = job[j].thread
  <2>1. WorkersOf(job[j].stream) = {}
    BY <1>5 DEF WorkersOf, OwnerInv, OwnStreams, Minted
  <2>2. QueuedJobsOf(job[j].stream) = {j}
    BY <1>5 DEF QueuedJobsOf, OwnerInv, OwnStreams, Minted
  <2> QED
    BY <1>3, <1>5, <2>1, <2>2 DEF CommandState, CommandLane
<1>6. receipts \subseteq Requests
  BY DEF OwnerInv, Typed, TypeOK
<1> QED
  BY <1>1, <1>2, <1>3, <1>4, <1>5, <1>6 DEF Placed

LEMMA PlacedNext ==
    ASSUME OwnerInv, OwnerInv'
    PROVE  Placed /\ Placed' /\ receipts' \subseteq Requests
<1>1. OwnerInv' => Placed'
  BY PlacedByOwners, PTL
<1> QED
  BY <1>1, PlacedByOwners DEF OwnerInv, Typed, TypeOK

\* A command stays where it is, or ends.
Stays(r) ==
    \/ CommandState(r)' = CommandState(r) /\ CommandLane(r)' = CommandLane(r)
    \/ /\ CommandState(r) \in {"accepted", "executing"}
       /\ CommandState(r)' = "ended" /\ CommandLane(r)' = NoThread

\* A command nobody starts working on, and no job is queued for, stays or ends.
LEMMA CommandStays ==
    ASSUME OwnerInv, Placed, Placed', NEW r \in Requests,
           receipts' \subseteq Requests,
           r \in receipts <=> r \in receipts',
           \A w \in workers' : w.stream = r =>
             \E v \in workers : v.stream = r /\ v.thread = w.thread,
           \A j \in Requests : job'[j].status = "queued" /\ job'[j].stream = r =>
             /\ job[j].status = "queued" /\ job[j].stream = r
             /\ job'[j].thread = job[j].thread
    PROVE  Stays(r)
<1>1. CASE r \notin receipts
  BY <1>1 DEF Placed, Stays
<1>2. CASE \E w \in workers' : w.stream = r
  BY <1>2 DEF Placed, Stays
<1>3. CASE \E j \in Requests : job'[j].status = "queued" /\ job'[j].stream = r
  BY <1>3 DEF Placed, Stays
<1>4. CASE /\ r \in receipts
           /\ \A w \in workers' : w.stream # r
           /\ \A j \in Requests : job'[j].status = "queued" => job'[j].stream # r
  <2>1. CommandState(r)' = "ended" /\ CommandLane(r)' = NoThread
    BY <1>4 DEF Placed
  <2>2. \/ CommandState(r) \in {"accepted", "executing"}
        \/ CommandState(r) = "ended" /\ CommandLane(r) = NoThread
    BY <1>4 DEF Placed
  <2> QED
    BY <2>1, <2>2 DEF Stays
<1> QED
  BY <1>1, <1>2, <1>3, <1>4

\* Commands that stay or end are a step of the service.
LEMMA EndsAreServed ==
    ASSUME \A r \in Requests : Stays(r)
    PROVE  [Service!Next]_(Service!vars)
<1> DEFINE S == {r \in Requests : /\ CommandState(r) \in {"accepted", "executing"}
                                  /\ CommandState(r)' = "ended"}
<1>1. CASE S = {}
  <2>1. \A r \in Requests : /\ CommandState(r)' = CommandState(r)
                            /\ CommandLane(r)' = CommandLane(r)
    BY <1>1 DEF Stays
  <2> QED
    BY <2>1 DEF Service!vars
<1>2. CASE S # {}
  <2>1. \A r \in Requests :
          /\ CommandState(r)' = IF r \in S THEN "ended" ELSE CommandState(r)
          /\ CommandLane(r)' = IF r \in S THEN NoThread ELSE CommandLane(r)
    BY DEF Stays
  <2>2. S \in SUBSET (Service!In("accepted") \cup Service!In("executing"))
    BY DEF Service!In
  <2> HIDE DEF S
  <2>3. \A r \in S : r \in Requests
    BY <2>2 DEF Service!In
  <2>4. Service!End(S)
    BY <2>1 DEF Service!End
  <2> QED
    BY <1>2, <2>2, <2>4 DEF Service!Next
<1> QED
  BY <1>1, <1>2

\* A step that mints no stream and starts no worker.
LEMMA NothingServed ==
    ASSUME OwnerInv, OwnerInv', receipts' = receipts,
           \A w \in workers' : \E v \in workers :
             v.stream = w.stream /\ v.thread = w.thread,
           \A j \in Requests : job'[j].status = "queued" =>
             /\ job[j].status = "queued" /\ job'[j].stream = job[j].stream
             /\ job'[j].thread = job[j].thread
    PROVE  [Service!Next]_(Service!vars)
<1>1. Placed /\ Placed' /\ receipts' \subseteq Requests
  BY PlacedNext
<1>2. \A r \in Requests : Stays(r)
  BY <1>1, CommandStays
<1> QED
  BY <1>2, EndsAreServed

\* A command is accepted; older ones may be withdrawn in the same transaction.
LEMMA MintingIsServed ==
    ASSUME OwnerInv, OwnerInv',
           NEW r \in Requests, NEW t \in Threads, NEW k \in Requests, Minting(r, t, k)
    PROVE  Service!Next
<1>1. Placed /\ Placed' /\ receipts' \subseteq Requests
  BY PlacedNext
<1>2. /\ r \notin receipts /\ receipts' = receipts \cup {r} /\ workers' = workers
      /\ job'[k].status = "queued" /\ job'[k].stream = r /\ job'[k].thread = t
      /\ job[k].status # "queued"
  BY DEF Minting, OwnerInv, Typed, JobsAreMinted
<1>3. ASSUME NEW j \in Requests, j # k, job'[j].status = "queued"
      PROVE  /\ job[j].status = "queued" /\ job'[j].stream = job[j].stream
             /\ job'[j].thread = job[j].thread
  BY <1>3 DEF Minting, RowKept
<1>4. CommandState(r) = "unknown"
  BY <1>1, <1>2 DEF Placed
<1>5. CommandState(r)' = "accepted" /\ CommandLane(r)' = t
  BY <1>1, <1>2 DEF Placed
<1>6. ASSUME NEW s \in Requests \ {r} PROVE Stays(s)
  BY <1>1, <1>2, <1>3, CommandStays
<1>7. ASSUME NEW s \in Requests \ {r}, CommandState(s) = "executing"
      PROVE  CommandState(s)' = CommandState(s) /\ CommandLane(s)' = CommandLane(s)
  <2>1. PICK w \in workers : w.stream = s
    BY <1>7 DEF CommandState, WorkersOf
  <2> QED
    BY <1>1, <1>2, <2>1 DEF Placed
<1> DEFINE S == {s \in Requests \ {r} : /\ CommandState(s) = "accepted"
                                        /\ CommandState(s)' = "ended"}
<1>8. \A s \in Requests :
        /\ CommandState(s)' = IF s = r THEN "accepted"
                              ELSE IF s \in S THEN "ended" ELSE CommandState(s)
        /\ CommandLane(s)' = IF s = r THEN t
                             ELSE IF s \in S THEN NoThread ELSE CommandLane(s)
  BY <1>5, <1>6, <1>7 DEF Stays
<1>9. S \in SUBSET Service!In("accepted") /\ r \in Service!In("unknown")
  BY <1>4 DEF Service!In
<1> HIDE DEF S
<1>10. Service!Accept(r, t, S)
  BY <1>8 DEF Service!Accept
<1> QED
  BY <1>9, <1>10 DEF Service!Next

\* claim_next starts a command on a thread nobody works on.
LEMMA ClaimIsServed ==
    ASSUME OwnerInv, OwnerInv', NEW q \in Requests, ClaimNext(q)
    PROVE  Service!Next
<1>0. PICK r : r = job[q].stream
  OBVIOUS
<1> DEFINE new == NewWorker(q)
<1>1. Placed /\ Placed' /\ receipts' \subseteq Requests
  BY PlacedNext
<1>2. /\ job[q].status = "queued" /\ job \in [Requests -> Job] /\ job[q] \in Job
      /\ r \in Requests
  BY <1>0 DEF ClaimNext, Claimable, OwnerInv, Typed, TypeOK, JobsAreMinted
<1>3. /\ new \in workers' /\ workers' = workers \cup {new}
      /\ new.stream = r /\ new.thread = job[q].thread /\ UNCHANGED receipts
  BY <1>0 DEF ClaimNext, NewWorker
<1>4. /\ job'[q].status = "running"
      /\ \A j \in Requests \ {q} : job'[j] = job[j]
  BY <1>2, NothingToReoccupy DEF ClaimNext, Job
<1> HIDE DEF new
<1>5. CommandState(r) = "accepted" /\ CommandLane(r) = job[q].thread
  BY <1>0, <1>1, <1>2 DEF Placed
<1>6. CommandState(r)' = "executing" /\ CommandLane(r)' = job[q].thread
  BY <1>1, <1>3 DEF Placed
<1>7. ASSUME NEW s \in Requests, s # r
      PROVE  CommandState(s)' = CommandState(s) /\ CommandLane(s)' = CommandLane(s)
  <2>1. CASE \E w \in workers : w.stream = s
    BY <1>1, <1>3, <2>1 DEF Placed
  <2>2. CASE \E j \in Requests : job[j].status = "queued" /\ job[j].stream = s
    BY <1>0, <1>1, <1>4, <1>7, <2>2 DEF Placed
  <2>3. CASE /\ \A w \in workers : w.stream # s
             /\ \A j \in Requests : job[j].status = "queued" => job[j].stream # s
    BY <1>0, <1>1, <1>3, <1>4, <1>7, <2>3 DEF Placed
  <2> QED
    BY <2>1, <2>2, <2>3
<1>8. ASSUME NEW s \in Service!In("executing")
      PROVE  CommandLane(s) # CommandLane(r)
  <2>1. PICK w \in workers : w.stream = s
    BY <1>8 DEF Service!In, CommandState, WorkersOf
  <2>2. CommandLane(s) = w.thread /\ w.stream # r
    BY <1>0, <1>1, <1>2, <2>1 DEF Placed, OwnerInv, OwnStreams, Minted
  <2>3. w.thread # job[q].thread
    BY <1>3, <2>2 DEF OwnerInv, WorkerInv, OneWorkerPerThread
  <2> QED
    BY <1>5, <2>2, <2>3
<1>9. Service!Execute(r)
  <2>1. \A s \in Service!In("executing") :
          [x \in Requests |-> CommandLane(x)][s] # [x \in Requests |-> CommandLane(x)][r]
    BY <1>2, <1>8 DEF Service!In
  <2>2. \A s \in Requests : /\ CommandState(s)' = IF s = r THEN "executing"
                                                  ELSE CommandState(s)
                            /\ CommandLane(s)' = CommandLane(s)
    BY <1>5, <1>6, <1>7
  <2> QED
    BY <2>1, <2>2 DEF Service!Execute
<1>10. r \in Service!In("accepted")
  BY <1>2, <1>5 DEF Service!In
<1> QED
  BY <1>9, <1>10 DEF Service!Next

LEMMA StepIsServed ==
    ASSUME OwnerInv, AutomationSequential, [Next]_vars
    PROVE  [Service!Next]_(Service!vars)
<1>1. OwnerInv'
  BY OwnerStep
<1>2. OneActive
  BY DEF OwnerInv, OneOwnerPerThread, OneActive
<1>3. CASE Client
  <2>1. \/ \E r \in Requests, t \in Threads, k \in Requests : Minting(r, t, k)
        \/ Ending
    BY <1>2, <1>3, ClientStep
  <2>2. CASE Ending
    <3>1. receipts' = receipts /\ workers' = workers
      BY <2>2 DEF Ending
    <3>2. ASSUME NEW j \in Requests, job'[j].status = "queued"
          PROVE  /\ job[j].status = "queued" /\ job'[j].stream = job[j].stream
                 /\ job'[j].thread = job[j].thread
      BY <2>2, <3>2 DEF Ending, RowKept
    <3> QED
      BY <1>1, <3>1, <3>2, NothingServed
  <2> QED
    BY <1>1, <2>1, <2>2, MintingIsServed
<1>4. CASE Claim
  BY <1>1, <1>4, ClaimIsServed DEF Claim
<1>5. CASE \E w \in workers : Advance(w)
  <2>1. PICK w \in workers : Advance(w)
    BY <1>5
  <2>2. PICK pc, out : Goto(w, pc, out)
    BY <2>1, AdvanceSteps
  <2>3. UNCHANGED <<job, receipts>>
    BY <2>1, AdvanceSteps
  <2>4. w \in Worker
    BY DEF OwnerInv, Typed, TypeOK
  <2>5. \A x \in workers' : \E v \in workers :
          v.stream = x.stream /\ v.thread = x.thread
    BY <2>2, <2>4 DEF Goto, Worker
  <2> QED
    BY <1>1, <2>3, <2>5, NothingServed
<1>6. CASE \E w \in workers : Finish(w)
  <2>1. PICK w \in workers : Finish(w)
    BY <1>6
  <2>2. workers' \subseteq workers /\ receipts' = receipts /\ FinishWrites(w)
    BY <2>1, FinishSteps
  <2>3. ASSUME NEW j \in Requests, job'[j].status = "queued"
        PROVE  /\ job[j].status = "queued" /\ job'[j].stream = job[j].stream
               /\ job'[j].thread = job[j].thread
    BY <2>2, <2>3 DEF FinishWrites
  <2> QED
    BY <1>1, <2>2, <2>3, NothingServed
<1>7. CASE \/ \E w \in workers : Interrupt(w) \/ StartOperation(w)
           \/ EndOperations \/ Crash \/ RecoverTurns \/ UNCHANGED vars
  <2>1. UNCHANGED <<job, receipts>> /\ (workers' = workers \/ workers' = {})
    BY <1>7 DEF Interrupt, StartOperation, EndOperations, EndOperation, Crash,
                RecoverTurns, vars
  <2> QED
    BY <1>1, <2>1, NothingServed
<1>8. CASE RecoverJobs
  <2>1. UNCHANGED <<receipts, workers>>
    BY <1>8 DEF RecoverJobs
  <2>2. ASSUME NEW j \in Requests, job'[j].status = "queued"
        PROVE  /\ job[j].status = "queued" /\ job'[j].stream = job[j].stream
               /\ job'[j].thread = job[j].thread
    <3>1. job[j] \in Job
      BY DEF OwnerInv, Typed, TypeOK
    <3>2. /\ job'[j].status = RecoveredStatus(j) /\ job'[j].stream = job[j].stream
          /\ job'[j].thread = job[j].thread
      BY <1>8, <3>1 DEF RecoverJobs, Job
    <3> QED
      BY <2>2, <3>2, RecoveredCases
  <2> QED
    BY <1>1, <2>1, <2>2, NothingServed
<1> QED
  BY <1>3, <1>4, <1>5, <1>6, <1>7, <1>8 DEF Next, Work

\* Every step of the queue, those of workers, cancellations and restarts
\* included, is one the service promises or invisible to its clients: a command
\* is accepted once, executed at most once and beside no other command of its
\* thread, and once it ended it never comes back.
THEOREM QueueImplementsService == Spec => ImplementsService
<1>1. Init => Service!Init
  BY DEF Init, Service!Init, CommandState, CommandLane, WorkersOf, QueuedJobsOf, NoJob
<1>2. OwnerInv /\ AutomationSequential /\ [Next]_vars => [Service!Next]_(Service!vars)
  BY StepIsServed
<1> QED
  BY <1>1, <1>2, OwnerInvariant, PTL DEF Spec, ImplementsService, Service!Spec

-----------------------------------------------------------------------------
(* Queued work is kept                                                     *)

Continues(j) == job[j].status \in {"queued", "running", "waiting_for_user"}

\* Turns that a claimed job can start or continue
Startable == {"queued", "pending", "running"}

Over(w) == w.pc \in {"emit", "finish"}

\* A worker's turn can only have ended, or be waiting, when the worker is done
\* with it or its job was cancelled.
Working(w) ==
    LET status == turn[w.turn].status IN
    /\ job[w.job].turn = w.turn
    /\ job[w.job].status = "queued" => Over(w)
    /\ job[w.job].status = "cancelled" => status \in TerminalTurn
    /\ status = "waiting_for_user" => Over(w)
    /\ job[w.job].status = "running" =>
         \/ status \in {"pending", "running", "waiting_for_user"}
         \/ status \in TerminalTurn /\ Over(w) /\ w.out # "waiting_for_user"

\* Queued jobs have a turn that can start and no computer operation to settle;
\* a turn has one live job, and waits when that job waits.
LiveInv ==
    /\ \A j \in Requests :
         job[j].status = "waiting_for_user" =>
           turn[job[j].turn].status = "waiting_for_user"
    /\ \A j \in Requests :
         job[j].status = "queued" =>
           turn[job[j].turn].status \in Startable /\ op[job[j].turn] = {}
    /\ \A i, j \in Requests :
         Continues(i) /\ Continues(j) /\ job[i].turn = job[j].turn => i = j
    /\ \A w \in workers : Working(w)
    /\ \A u \in Requests : op[u] # {} => u \in receipts

\* A live job after the step was live before, on the same turn.
Follows(j) ==
    /\ Continues(j) /\ job'[j].turn = job[j].turn
    /\ \/ job'[j].status = "running"
       \/ /\ job'[j].status = job[j].status
          /\ turn'[job[j].turn].status = turn[job[j].turn].status
       \/ /\ job'[j].status = "waiting_for_user"
          /\ turn'[job[j].turn].status = "waiting_for_user"

\* Every step queues at most one job, for a turn no other live job is on.
LEMMA LiveStep ==
    ASSUME OwnerInv, LiveInv, Typed', receipts \subseteq receipts',
           NEW F \in SUBSET Requests, NEW u,
           \A i, j \in F : i = j,
           \A j \in F : /\ job'[j].status = "queued" /\ job'[j].turn = u
                        /\ turn'[u].status \in Startable /\ op'[u] = {},
           \A j \in Requests \ F :
             Continues(j)' => Follows(j) /\ (F # {} => job[j].turn # u),
           \A v \in Requests : op'[v] # {} =>
             \/ op[v] # {}
             \/ /\ v \in receipts
                /\ \A j \in Requests : job'[j].status = "queued" => job'[j].turn # v,
           \A w \in workers' : Working(w)'
    PROVE  LiveInv'
<1>1. ASSUME NEW j \in Requests, job'[j].status = "waiting_for_user"
      PROVE  turn'[job'[j].turn].status = "waiting_for_user"
  <2>1. j \notin F /\ Continues(j)'
    BY <1>1 DEF Continues
  <2> QED
    BY <1>1, <2>1 DEF Follows, LiveInv
<1>2. ASSUME NEW j \in Requests, job'[j].status = "queued"
      PROVE  turn'[job'[j].turn].status \in Startable /\ op'[job'[j].turn] = {}
  <2>1. CASE j \in F
    BY <2>1
  <2>2. CASE j \notin F
    <3>1. Follows(j)
      BY <1>2, <2>2 DEF Continues
    <3>2. /\ job'[j].turn = job[j].turn /\ job[j].status = "queued"
          /\ turn'[job[j].turn].status = turn[job[j].turn].status
      BY <1>2, <3>1 DEF Follows
    <3>3. job[j].turn \in Requests
      BY <3>2 DEF OwnerInv, Typed, JobsAreMinted
    <3>4. op[job[j].turn] = {} /\ turn[job[j].turn].status \in Startable
      BY <3>2 DEF LiveInv
    <3>5. op'[job[j].turn] = {}
      BY <1>2, <3>2, <3>3, <3>4
    <3> QED
      BY <3>2, <3>4, <3>5
  <2> QED
    BY <2>1, <2>2
<1>3. ASSUME NEW i \in Requests, NEW j \in Requests, Continues(i)', Continues(j)',
             job'[i].turn = job'[j].turn
      PROVE  i = j
  <2>1. CASE i \notin F /\ j \notin F
    BY <1>3, <2>1 DEF Follows, LiveInv
  <2>2. CASE i \in F /\ j \in F
    BY <2>2
  <2>3. CASE (i \in F /\ j \notin F) \/ (i \notin F /\ j \in F)
    BY <1>3, <2>3 DEF Follows
  <2> QED
    BY <2>1, <2>2, <2>3
<1>4. ASSUME NEW v \in Requests, op'[v] # {} PROVE v \in receipts'
  BY <1>4 DEF LiveInv
<1> QED
  BY <1>1, <1>2, <1>3, <1>4 DEF LiveInv

LEMMA WorkingKept ==
    ASSUME LiveInv, NEW w \in workers,
           job'[w.job].status = job[w.job].status, job'[w.job].turn = job[w.job].turn,
           turn'[w.turn].status = turn[w.turn].status
    PROVE  Working(w)'
  BY DEF LiveInv, Working, Over

\* What is known of a live job and of a worker's job
LEMMA LiveRows ==
    ASSUME OwnerInv, LiveInv
    PROVE  /\ \A j \in Requests : Continues(j) =>
                /\ job[j].turn \in Requests /\ job[j].turn \in receipts
                /\ job[j].thread \in Threads
                /\ turn[job[j].turn].thread = job[j].thread
           /\ \A w \in workers :
                /\ w.job \in Requests /\ w.turn \in Requests /\ w.turn \in receipts
                /\ Working(w) /\ job[w.job].turn = w.turn
                /\ turn[w.turn].thread = w.thread
                /\ job[w.job].status \in {"running", "queued", "cancelled"}
<1>1. ASSUME NEW j \in Requests, job[j].status # "none"
      PROVE  /\ job[j].turn \in Requests /\ job[j].turn \in receipts
             /\ job[j].thread \in Threads
             /\ turn[job[j].turn].thread = job[j].thread
  BY <1>1 DEF OwnerInv, Typed, JobsAreMinted, Matched, Minted
<1>2. ASSUME NEW w \in workers
      PROVE  /\ w.job \in Requests /\ Working(w) /\ job[w.job].turn = w.turn
             /\ job[w.job].thread = w.thread
             /\ job[w.job].status \in {"running", "queued", "cancelled"}
  BY WorkerRow DEF OwnerInv, LiveInv, Working
<1> QED
  BY <1>1, <1>2 DEF Continues

\* Workers of one turn are one worker, and no other live job is on its turn.
LEMMA WorkerAlone ==
    ASSUME OwnerInv, LiveInv, NEW w \in workers
    PROVE  /\ \A v \in workers : v.turn = w.turn => v = w
           /\ \A j \in Requests :
                Continues(j) /\ job[j].turn = w.turn =>
                  j = w.job \/ turn[w.turn].status \in TerminalTurn
<1>1. \A v \in workers : v.turn = w.turn => v = w
  BY LiveRows DEF OwnerInv, WorkerInv, OneWorkerPerThread
<1>2. Continues(w.job) \/ turn[w.turn].status \in TerminalTurn
  BY LiveRows DEF Working, Continues
<1> QED
  BY <1>1, <1>2, LiveRows DEF LiveInv

\* Commands leave workers alone.  What they withdraw or cancel is no worker's.
LEMMA QueueMessageLive ==
    ASSUME OwnerInv, LiveInv, Typed', NEW r \in Requests, NEW t \in Threads,
           QueueMessage(r, t)
    PROVE  LiveInv'
<1>1. /\ Fresh(r) /\ receipts' = receipts \cup {r} /\ UNCHANGED <<workers, op>>
      /\ job' = [job EXCEPT ![r] = QueuedJob(r, t, r, "message.send", NoAutomation)]
      /\ turn' = [turn EXCEPT ![r] = ReservedTurn(turn, t)]
  BY DEF QueueMessage
<1>2. job \in [Requests -> Job] /\ turn \in [Requests -> Turn]
  BY DEF OwnerInv, Typed, TypeOK
<1>3. /\ job'[r].status = "queued" /\ job'[r].turn = r
      /\ turn'[r].status \in Startable
      /\ \A j \in Requests \ {r} : job'[j] = job[j] /\ turn'[j] = turn[j]
  BY <1>1, <1>2 DEF ReservedTurn, QueuedJob, Startable
<1>4. r \notin receipts /\ op[r] = {} /\ ~Minted(r)
  BY <1>1, FreshRequest DEF LiveInv
<1>5. ASSUME NEW j \in Requests \ {r}, Continues(j)' PROVE Follows(j) /\ job[j].turn # r
  BY <1>3, <1>4, <1>5, LiveRows DEF Follows, Continues
<1>6. ASSUME NEW w \in workers' PROVE Working(w)'
  <2>1. w \in workers /\ w.job # r /\ w.turn # r
    BY <1>1, <1>4, <1>6, LiveRows DEF Continues, Minted
  <2> QED
    BY <1>3, <2>1, LiveRows, WorkingKept
<1>7. op' = op
  BY <1>1
<1> DEFINE F == {r}
<1>8. /\ F \in SUBSET Requests /\ \A i, j \in F : i = j
      /\ \A j \in F : /\ job'[j].status = "queued" /\ job'[j].turn = r
                      /\ turn'[r].status \in Startable /\ op'[r] = {}
      /\ \A j \in Requests \ F :
           Continues(j)' => Follows(j) /\ (F # {} => job[j].turn # r)
      /\ receipts \subseteq receipts'
      /\ \A v \in Requests : op'[v] # {} => op[v] # {}
  BY <1>1, <1>3, <1>4, <1>5, <1>7
<1> HIDE DEF F
<1> QED
  BY <1>6, <1>8, LiveStep

LEMMA AnswerWaitingLive ==
    ASSUME OwnerInv, LiveInv, OneActive, OneOccupant, Typed',
           NEW r \in Requests, NEW t \in Threads, AnswerWaiting(r, t)
    PROVE  LiveInv'
<1> DEFINE waiting == {j \in JobsOn(t) : job[j].status = "waiting_for_user"}
           turns == IF ActiveTurnsOn(t) = {} THEN turn
                    ELSE [turn EXCEPT ![Least(ActiveTurnsOn(t))].status =
                             "superseded"]
<1>1. PICK k \in Requests : k = Least(waiting) /\ job[k].status = "waiting_for_user"
                            /\ job[k].thread = t
  <2>1. waiting \in SUBSET Requests /\ waiting # {}
    BY DEF AnswerWaiting, JobsOn
  <2>2. Least(waiting) \in waiting
    BY <2>1, LeastIsMember
  <2> QED
    BY <2>1, <2>2 DEF JobsOn
<1>2. /\ Fresh(r) /\ receipts' = receipts \cup {r} /\ UNCHANGED <<workers, op>>
      /\ job' = [job EXCEPT ![k] = [@ EXCEPT !.status = "queued", !.turn = r,
                                             !.stream = r, !.cmd = "message.send",
                                             !.verified = FALSE]]
      /\ turn' = [turns EXCEPT ![r] = ReservedTurn(turns, t)]
  BY <1>1 DEF AnswerWaiting
<1>3. job \in [Requests -> Job] /\ turn \in [Requests -> Turn]
  BY DEF OwnerInv, Typed, TypeOK
<1>4. /\ job'[k].status = "queued" /\ job'[k].turn = r
      /\ \A j \in Requests \ {k} : job'[j] = job[j]
  BY <1>1, <1>2, <1>3 DEF Job
<1>5. PICK a \in Requests : a = job[k].turn /\ turn[a].status = "waiting_for_user"
                            /\ turn[a].thread = t
  <2>1. turn[job[k].turn].status = "waiting_for_user"
    BY <1>1 DEF LiveInv
  <2>2. Continues(k)
    BY <1>1 DEF Continues
  <2>3. job[k].turn \in Requests /\ turn[job[k].turn].thread = job[k].thread
    BY <2>2, LiveRows
  <2>4. job[k].thread = t
    BY <1>1
  <2> QED
    BY <2>1, <2>3, <2>4
<1>6. turns \in [Requests -> Turn] /\ \A v \in Requests \ {a} : turns[v] = turn[v]
  <2>1. a \in ActiveTurnsOn(t) /\ ActiveTurnsOn(t) \in SUBSET Requests
    BY <1>5 DEF ActiveTurnsOn, ActiveTurn
  <2>2. Least(ActiveTurnsOn(t)) = a
    BY <2>1, LeastIsMember DEF OneActive
  <2>3. turns = [turn EXCEPT ![a].status = "superseded"]
    BY <2>1, <2>2
  <2>4. turns \in [Requests -> Turn]
    BY <1>3, <2>3, TurnUpdateType DEF TurnStatus
  <2> QED
    BY <1>3, <2>3, <2>4
<1> HIDE DEF turns
<1>7. /\ turn'[r].status \in Startable
      /\ \A v \in Requests \ {r, a} : turn'[v] = turn[v]
  BY <1>2, <1>6 DEF ReservedTurn, Startable
<1>8. r \notin receipts /\ op[r] = {}
  BY <1>2, FreshRequest DEF LiveInv
<1>9. ASSUME NEW j \in Requests \ {k}, Continues(j)' PROVE Follows(j) /\ job[j].turn # r
  <2>1. Continues(j) /\ job[j].turn # a /\ job[j].turn # r /\ job[j].turn \in Requests
    BY <1>1, <1>4, <1>5, <1>8, <1>9, LiveRows, SMTT(30) DEF Continues, LiveInv
  <2> QED
    BY <1>4, <1>7, <2>1 DEF Follows
<1>10. ASSUME NEW w \in workers' PROVE Working(w)'
  <2>1. w \in workers /\ w.job # k /\ w.turn # r
    BY <1>1, <1>2, <1>8, <1>10, LiveRows DEF Continues
  <2>2. w.turn # a
    <3>1. SUFFICES ASSUME w.turn = a PROVE FALSE
      OBVIOUS
    <3>2. turn[w.turn].status \in TerminalTurn
      BY <1>1, <1>5, <2>1, <3>1, WorkerAlone DEF Continues
    <3> QED
      BY <1>5, <3>1, <3>2 DEF TerminalTurn
  <2> QED
    BY <1>4, <1>7, <2>1, <2>2, LiveRows, WorkingKept
<1>11. op' = op
  BY <1>2
<1> DEFINE F == {k}
<1>12. /\ F \in SUBSET Requests /\ \A i, j \in F : i = j
       /\ \A j \in F : /\ job'[j].status = "queued" /\ job'[j].turn = r
                       /\ turn'[r].status \in Startable /\ op'[r] = {}
       /\ \A j \in Requests \ F :
           Continues(j)' => Follows(j) /\ (F # {} => job[j].turn # r)
      /\ receipts \subseteq receipts'
      /\ \A v \in Requests : op'[v] # {} => op[v] # {}
  BY <1>2, <1>4, <1>7, <1>8, <1>9, <1>11
<1> HIDE DEF F
<1> QED
  BY <1>10, <1>12, LiveStep

\* Withdrawn jobs were queued without a worker, and nothing else is live on
\* their turns.
LEMMA WithdrawalLive ==
    ASSUME OwnerInv, LiveInv, NEW a, NEW W, W = Withdrawn(a) \/ W = {}
    PROVE  /\ \A j \in Requests \ W :
                /\ WithdrawnJobs(W)[j] = job[j]
                /\ Continues(j) => WithdrawnTurns(W)[job[j].turn] = turn[job[j].turn]
           /\ \A j \in Requests \cap W : WithdrawnJobs(W)[j].status = "cancelled"
           /\ \A w \in workers :
                w.job \notin W /\ WithdrawnTurns(W)[w.turn] = turn[w.turn]
<1>1. /\ W \in SUBSET Requests
      /\ \A j \in Requests :
           /\ j \notin W => WithdrawnJobs(W)[j] = job[j]
           /\ j \in W =>
                /\ job[j].status = "queued" /\ ~job[j].wkr
                /\ WithdrawnJobs(W)[j] = [job[j] EXCEPT !.status = "cancelled"]
  BY WithdrawnKept
<1>2. \A j \in W : turn[job[j].turn].status \in {"queued", "pending"}
  BY DEF Withdrawn
<1>3. ASSUME NEW j \in Requests, j \in W PROVE WithdrawnJobs(W)[j].status = "cancelled"
  <2>1. job[j] \in Job
    BY DEF OwnerInv, Typed, TypeOK
  <2> QED
    BY <1>1, <1>3, <2>1 DEF Job
<1>4. ASSUME NEW v \in Requests, \A j \in W : job[j].turn # v
      PROVE  WithdrawnTurns(W)[v] = turn[v]
  BY <1>4 DEF WithdrawnTurns
<1>5. ASSUME NEW j \in Requests, j \notin W, Continues(j)
      PROVE  WithdrawnTurns(W)[job[j].turn] = turn[job[j].turn]
  <2>1. \A i \in W : job[i].turn # job[j].turn
    BY <1>1, <1>5, ZenonT(60) DEF LiveInv, Continues
  <2> QED
    BY <1>4, <1>5, <2>1, LiveRows
<1>6. ASSUME NEW w \in workers
      PROVE  w.job \notin W /\ WithdrawnTurns(W)[w.turn] = turn[w.turn]
  <2>1. w.job \notin W
    BY <1>1, WorkerRow DEF OwnerInv
  <2>2. \A i \in W : job[i].turn # w.turn
    BY <1>1, <1>2, <2>1, WorkerAlone, ZenonT(60) DEF Continues, TerminalTurn
  <2> QED
    BY <1>4, <2>1, <2>2, LiveRows
<1> QED
  BY <1>1, <1>3, <1>5, <1>6

LEMMA AcceptOccurrenceLive ==
    ASSUME OwnerInv, LiveInv, Typed', NEW r \in Requests, NEW t \in Threads,
           NEW a \in Automations, NEW timer \in BOOLEAN,
           AcceptOccurrence(r, a, t, timer)
    PROVE  LiveInv'
<1> DEFINE W == IF timer THEN Withdrawn(a) ELSE {}
           turns == WithdrawnTurns(W)
           rows == WithdrawnJobs(W)
<1>1. /\ Fresh(r) /\ receipts' = receipts \cup {r} /\ workers' = workers /\ op' = op
      /\ job' = [rows EXCEPT ![r] = QueuedJob(r, t, r, "message.send", a)]
      /\ turn' = [turns EXCEPT ![r] = ReservedTurn(turns, t)]
  BY DEF AcceptOccurrence
<1>2. W = Withdrawn(a) \/ W = {}
  OBVIOUS
<1>3. /\ \A j \in Requests \ W :
           /\ rows[j] = job[j]
           /\ Continues(j) => turns[job[j].turn] = turn[job[j].turn]
      /\ \A j \in Requests \cap W : rows[j].status = "cancelled"
      /\ \A w \in workers : w.job \notin W /\ turns[w.turn] = turn[w.turn]
  BY <1>2, WithdrawalLive
<1>4. rows = [j \in Requests |-> rows[j]] /\ turns = [u \in Requests |-> turns[u]]
  BY DEF WithdrawnJobs, WithdrawnTurns
<1> HIDE DEF W, turns, rows
<1>5. /\ job'[r].status = "queued" /\ job'[r].turn = r
      /\ turn'[r].status \in Startable
      /\ \A j \in Requests \ {r} : job'[j] = rows[j] /\ turn'[j] = turns[j]
  BY <1>1, <1>4 DEF ReservedTurn, QueuedJob, Startable
<1>6. r \notin receipts /\ op[r] = {} /\ ~Minted(r)
  BY <1>1, FreshRequest DEF LiveInv
<1>7. ASSUME NEW j \in Requests \ {r}, Continues(j)' PROVE Follows(j) /\ job[j].turn # r
  <2>1. j \notin W
    BY <1>3, <1>5, <1>7 DEF Continues
  <2>2. job'[j] = job[j] /\ Continues(j)
    BY <1>3, <1>5, <1>7, <2>1 DEF Continues
  <2>3. job[j].turn \in Requests \ {r}
    BY <1>6, <2>2, LiveRows
  <2> QED
    BY <1>3, <1>5, <2>1, <2>2, <2>3 DEF Follows
<1>8. ASSUME NEW w \in workers' PROVE Working(w)'
  <2>1. w \in workers /\ w.job \in Requests \ {r} /\ w.turn \in Requests \ {r}
    BY <1>1, <1>6, <1>8, LiveRows DEF Continues, Minted
  <2>2. job'[w.job] = job[w.job] /\ turn'[w.turn] = turn[w.turn]
    BY <1>3, <1>5, <2>1
  <2> QED
    BY <2>1, <2>2, WorkingKept
<1> DEFINE F == {r}
<1>9. /\ F \in SUBSET Requests /\ \A i, j \in F : i = j
      /\ \A j \in F : /\ job'[j].status = "queued" /\ job'[j].turn = r
                      /\ turn'[r].status \in Startable /\ op'[r] = {}
      /\ \A j \in Requests \ F :
           Continues(j)' => Follows(j) /\ (F # {} => job[j].turn # r)
      /\ receipts \subseteq receipts'
      /\ \A v \in Requests : op'[v] # {} => op[v] # {}
  BY <1>1, <1>5, <1>6, <1>7
<1> HIDE DEF F
<1> QED
  BY <1>8, <1>9, LiveStep

\* A step that queues nothing.
LEMMA QuietLive ==
    ASSUME OwnerInv, LiveInv, Typed', receipts' = receipts,
           \A j \in Requests : Continues(j)' => Follows(j),
           \A v \in Requests : op'[v] # {} =>
             \/ op[v] # {}
             \/ /\ v \in receipts
                /\ \A j \in Requests : job'[j].status = "queued" => job'[j].turn # v,
           \A w \in workers' : Working(w)'
    PROVE  LiveInv'
<1> DEFINE F == {}
<1>1. /\ F \in SUBSET Requests /\ \A i, j \in F : i = j
      /\ \A j \in F : /\ job'[j].status = "queued" /\ job'[j].turn = 0
                      /\ turn'[0].status \in Startable /\ op'[0] = {}
      /\ \A j \in Requests \ F :
           Continues(j)' => Follows(j) /\ (F # {} => job[j].turn # 0)
  OBVIOUS
<1> HIDE DEF F
<1> QED
  BY <1>1, LiveStep

LEMMA EditAutomationLive ==
    ASSUME OwnerInv, LiveInv, Typed', NEW a \in Automations, EditAutomation(a)
    PROVE  LiveInv'
<1> DEFINE W == Withdrawn(a)
<1>1. /\ job' = WithdrawnJobs(W) /\ turn' = WithdrawnTurns(W)
      /\ UNCHANGED <<op, receipts, workers>>
  BY DEF EditAutomation
<1> HIDE DEF W
<1>2. /\ \A j \in Requests \ W :
           /\ job'[j] = job[j]
           /\ Continues(j) => turn'[job[j].turn] = turn[job[j].turn]
      /\ \A j \in Requests \cap W : job'[j].status = "cancelled"
      /\ \A w \in workers : w.job \notin W /\ turn'[w.turn] = turn[w.turn]
  BY <1>1, WithdrawalLive DEF W
<1>3. ASSUME NEW j \in Requests, Continues(j)' PROVE Follows(j)
  BY <1>2, <1>3 DEF Continues, Follows
<1>4. ASSUME NEW w \in workers PROVE Working(w)'
  BY <1>2, LiveRows, WorkingKept
<1> QED
  BY <1>1, <1>3, <1>4, QuietLive

LEMMA ResumeWithLive ==
    ASSUME OwnerInv, LiveInv, Typed',
           NEW r \in Requests, NEW t \in Threads, NEW u \in Requests, NEW turns,
           ResumeWith(r, t, u, turns), turn[u].thread = t \/ u = r,
           turn[u].status = "waiting_for_user" \/ u = r,
           turns[u].status = "running", \A v \in Requests \ {u} : turns[v] = turn[v]
    PROVE  LiveInv'
<1> DEFINE live == {j \in Requests : /\ job[j].turn = u
                                     /\ job[j].status \in
                                          {"running", "waiting_for_user"}}
<1>1. /\ Fresh(r) /\ receipts' = receipts \cup {r} /\ turn' = turns
      /\ workers' = workers /\ op' = op
  BY DEF ResumeWith
<1>2. job \in [Requests -> Job]
  BY DEF OwnerInv, Typed, TypeOK
<1>3. r \notin receipts /\ op[r] = {} /\ ~Minted(r)
  BY <1>1, FreshRequest DEF LiveInv
<1>4. op[u] = {}
  BY <1>3 DEF ResumeWith, Settled
<1>5. ASSUME NEW j \in Requests, Continues(j), job[j].turn = u PROVE j \in live
  <2>1. job[j].status # "queued" \/ u = r
    BY <1>5 DEF LiveInv, Startable
  <2>2. u # r
    BY <1>3, <1>5, LiveRows
  <2> QED
    BY <1>5, <2>1, <2>2 DEF Continues
<1>6. ASSUME NEW w \in workers PROVE w.turn = u => w.job \in live /\ Over(w)
  <2>1. SUFFICES ASSUME w.turn = u PROVE w.job \in live /\ Over(w)
    OBVIOUS
  <2>2. turn[u].status = "waiting_for_user"
    BY <1>3, <2>1, LiveRows
  <2>3. Over(w) /\ job[w.job].status # "cancelled"
    BY <2>1, <2>2, LiveRows DEF Working, TerminalTurn
  <2>4. Continues(w.job) /\ job[w.job].turn = u /\ w.job \in Requests
    BY <2>1, <2>3, LiveRows DEF Continues
  <2> QED
    BY <1>5, <2>3, <2>4
<1>7. PICK k \in Requests :
        /\ job'[k].status = "queued" /\ job'[k].turn = u
        /\ \A j \in Requests \ {k} : job'[j] = job[j]
        /\ \A j \in live : j = k
        /\ k = r \/ k \in live
  <2>1. CASE live # {}
    <3>1. live \in SUBSET Requests /\ \A j \in live : job[j].turn = u
      OBVIOUS
    <3>2. \A i, j \in live : i = j
      BY DEF LiveInv, Continues
    <3>3. PICK k \in Requests : k = Least(live) /\ k \in live
      <4> HIDE DEF live
      <4> QED
        BY <2>1, <3>1, LeastIsMember
    <3>4. job' = [job EXCEPT ![k] = [@ EXCEPT !.status = "queued", !.stream = r,
                                              !.cmd = "thread.resume",
                                              !.verified = FALSE]]
      BY <2>1, <3>3 DEF ResumeWith
    <3> HIDE DEF live
    <3>5. /\ job'[k].status = "queued" /\ job'[k].turn = u
          /\ \A j \in Requests \ {k} : job'[j] = job[j]
      BY <1>2, <3>1, <3>3, <3>4 DEF Job
    <3> QED
      BY <3>2, <3>3, <3>5
  <2>2. CASE live = {}
    <3>1. job' = [job EXCEPT ![r] = QueuedJob(r, t, u, "thread.resume", NoAutomation)]
      BY <2>2 DEF ResumeWith
    <3> HIDE DEF live
    <3>2. /\ job'[r] = QueuedJob(r, t, u, "thread.resume", NoAutomation)
          /\ \A j \in Requests \ {r} : job'[j] = job[j]
      BY <1>2, <3>1
    <3> QED
      BY <2>2, <3>2 DEF QueuedJob
  <2> QED
    BY <2>1, <2>2
<1> HIDE DEF live
<1>8. ASSUME NEW j \in Requests \ {k}, Continues(j)' PROVE Follows(j) /\ job[j].turn # u
  <2>1. Continues(j) /\ job'[j] = job[j]
    BY <1>7, <1>8 DEF Continues
  <2>2. job[j].turn \in Requests /\ job[j].turn # u
    BY <1>5, <1>7, <2>1, LiveRows
  <2> QED
    BY <1>1, <2>1, <2>2 DEF Follows
<1>9. ASSUME NEW w \in workers' PROVE Working(w)'
  <2>0. w \in workers
    BY <1>1, <1>9
  <2>1. w.job \in Requests /\ w.turn \in Requests /\ w.job # r
    BY <1>3, <2>0, LiveRows DEF Minted
  <2>2. CASE w.job = k
    <3>1. k \in live /\ job[k].turn = w.turn
      BY <1>7, <2>0, <2>1, <2>2, LiveRows
    <3>2. w.turn = u
      BY <3>1 DEF live
    <3>3. Over(w)
      BY <1>6, <2>0, <3>2
    <3> QED
      BY <1>1, <1>7, <2>2, <3>2, <3>3 DEF Working, Over
  <2>3. CASE w.job # k
    <3>1. w.turn # u
      BY <1>6, <1>7, <2>0, <2>3
    <3> QED
      BY <1>1, <1>7, <2>0, <2>1, <2>3, <3>1, WorkingKept
  <2> QED
    BY <2>2, <2>3
<1> DEFINE F == {k}
<1>10. /\ F \in SUBSET Requests /\ \A i, j \in F : i = j
       /\ \A j \in F : /\ job'[j].status = "queued" /\ job'[j].turn = u
                       /\ turn'[u].status \in Startable /\ op'[u] = {}
       /\ \A j \in Requests \ F :
            Continues(j)' => Follows(j) /\ (F # {} => job[j].turn # u)
       /\ receipts \subseteq receipts'
       /\ \A v \in Requests : op'[v] # {} => op[v] # {}
  BY <1>1, <1>4, <1>7, <1>8 DEF Startable
<1> HIDE DEF F
<1> QED
  BY <1>9, <1>10, LiveStep

LEMMA ResumeLive ==
    ASSUME OwnerInv, LiveInv, Typed', NEW r \in Requests, NEW t \in Threads,
           ResumeWaitingTurn(r, t) \/ ResumeNewTurn(r, t)
    PROVE  LiveInv'
<1>0. turn \in [Requests -> Turn]
  BY DEF OwnerInv, Typed, TypeOK
<1>1. CASE ResumeWaitingTurn(r, t)
  <2>1. PICK u \in WaitingTurnsOn(t) :
          ResumeWith(r, t, u, [turn EXCEPT ![u].status = "running"])
    BY <1>1 DEF ResumeWaitingTurn
  <2>2. u \in Requests /\ turn[u].thread = t /\ turn[u].status = "waiting_for_user"
    BY <2>1 DEF WaitingTurnsOn, ActiveTurnsOn
  <2> DEFINE turns == [turn EXCEPT ![u].status = "running"]
  <2>3. turns[u].status = "running" /\ \A v \in Requests \ {u} : turns[v] = turn[v]
    BY <1>0, <2>2 DEF Turn
  <2>4. ResumeWith(r, t, u, turns)
    BY <2>1
  <2> HIDE DEF turns
  <2> QED
    BY <2>2, <2>3, <2>4, ResumeWithLive
<1>2. CASE ResumeNewTurn(r, t)
  <2> DEFINE turns == [turn EXCEPT ![r] = [status |-> "running", thread |-> t]]
  <2>1. turns[r].status = "running" /\ \A v \in Requests \ {r} : turns[v] = turn[v]
    BY <1>0
  <2>2. ResumeWith(r, t, r, turns)
    BY <1>2 DEF ResumeNewTurn
  <2> HIDE DEF turns
  <2> QED
    BY <2>1, <2>2, ResumeWithLive
<1> QED
  BY <1>1, <1>2

LEMMA CancelTurnLive ==
    ASSUME OwnerInv, LiveInv, Typed', NEW u \in Requests, CancelTurn(u)
    PROVE  LiveInv'
<1> DEFINE live == Cancellable(u)
           status == IF turn[u].status \in TerminalTurn THEN turn[u].status
                     ELSE "cancelled"
<1>1. /\ job' = [j \in Requests |->
                   IF j \in live
                   THEN [job[j] EXCEPT !.status = "cancelled",
                                       !.occ = job[j].occ /\ job[j].wkr]
                   ELSE job[j]]
      /\ turn' = [turn EXCEPT ![u].status = status]
      /\ workers' = workers /\ op' = op /\ receipts' = receipts
  BY DEF CancelTurn
<1>2. job \in [Requests -> Job] /\ turn \in [Requests -> Turn]
  BY DEF OwnerInv, Typed, TypeOK
<1>3. \A j \in Requests : j \in live <=> Continues(j) /\ job[j].turn = u
  BY DEF Cancellable, Continues
<1>4. status \in TerminalTurn
  BY DEF TerminalTurn
<1> HIDE DEF live, status
<1>5. turn'[u].status \in TerminalTurn /\ \A v \in Requests \ {u} : turn'[v] = turn[v]
  BY <1>1, <1>2, <1>4 DEF Turn
<1>6. ASSUME NEW j \in Requests
      PROVE  /\ j \notin live => job'[j] = job[j]
             /\ j \in live => job'[j].status = "cancelled" /\ job'[j].turn = job[j].turn
  BY <1>1, <1>2 DEF Job
<1>7. ASSUME NEW j \in Requests, Continues(j)' PROVE Follows(j)
  <2>1. j \notin live /\ Continues(j) /\ job'[j] = job[j]
    BY <1>6, <1>7 DEF Continues
  <2>2. job[j].turn \in Requests \ {u}
    BY <1>3, <2>1, LiveRows
  <2> QED
    BY <1>5, <2>1, <2>2 DEF Follows
<1>8. ASSUME NEW w \in workers PROVE Working(w)'
  <2>1. CASE w.turn = u
    <3>1. job'[w.job].status = "cancelled" /\ job'[w.job].turn = u
      BY <1>3, <1>6, <2>1, LiveRows DEF Continues
    <3> QED
      BY <1>5, <2>1, <3>1 DEF Working, TerminalTurn
  <2>2. CASE w.turn # u
    BY <1>3, <1>5, <1>6, <2>2, LiveRows, WorkingKept
  <2> QED
    BY <2>1, <2>2
<1> QED
  BY <1>1, <1>7, <1>8, QuietLive

LEMMA AcknowledgeStoppedLive ==
    ASSUME OwnerInv, LiveInv, Typed', NEW u \in Requests, AcknowledgeStopped(u)
    PROVE  LiveInv'
<1>1. /\ turn' = turn /\ receipts' = receipts /\ workers' = workers
      /\ op' = [op EXCEPT ![u] = @ \ {"uncertain"}]
  BY DEF AcknowledgeStopped
<1>2. ASSUME NEW j \in Requests
      PROVE  job'[j].status = job[j].status /\ job'[j].turn = job[j].turn
  <2>1. job[j] \in Job
    BY DEF OwnerInv, Typed, TypeOK
  <2> QED
    BY <2>1 DEF AcknowledgeStopped, Job
<1>3. ASSUME NEW j \in Requests, Continues(j)' PROVE Follows(j)
  BY <1>1, <1>2, <1>3 DEF Continues, Follows
<1>4. ASSUME NEW v \in Requests, op'[v] # {} PROVE op[v] # {}
  BY <1>1, <1>4 DEF OwnerInv, Typed, TypeOK
<1>5. ASSUME NEW w \in workers PROVE Working(w)'
  BY <1>1, <1>2, LiveRows, WorkingKept
<1> QED
  BY <1>1, <1>3, <1>4, <1>5, QuietLive

\* The job that claim_next starts has a turn of its own, and no worker had it.
LEMMA ClaimLive ==
    ASSUME OwnerInv, LiveInv, Typed', NEW q \in Requests, ClaimNext(q)
    PROVE  LiveInv'
<1> DEFINE u == job[q].turn
           new == NewWorker(q)
           status == IF turn[u].status = "queued" THEN "pending" ELSE turn[u].status
<1>1. job \in [Requests -> Job] /\ turn \in [Requests -> Turn]
  BY DEF OwnerInv, Typed, TypeOK
<1>2. /\ job[q].status = "queued" /\ ~job[q].wkr /\ Continues(q) /\ u \in Requests
      /\ turn[u].status \in Startable
  BY LiveRows DEF ClaimNext, Claimable, LiveInv, Continues
<1>3. /\ job' = [job EXCEPT ![q] = [@ EXCEPT !.status = "running", !.occ = TRUE,
                                             !.wkr = TRUE, !.gen = job[q].gen + 1]]
      /\ turn' = [turn EXCEPT ![u].status = status]
      /\ workers' = workers \cup {new} /\ receipts' = receipts /\ op' = op
  BY NothingToReoccupy DEF ClaimNext
<1>4. /\ job'[q].status = "running" /\ job'[q].turn = u
      /\ \A j \in Requests \ {q} : job'[j] = job[j]
  BY <1>1, <1>3 DEF Job
<1>5. status \in {"pending", "running"}
  BY <1>2 DEF Startable
<1>6. new.job = q /\ new.turn = u
  BY DEF NewWorker
<1> HIDE DEF new, status
<1>7. turn'[u].status \in {"pending", "running"}
      /\ \A v \in Requests \ {u} : turn'[v] = turn[v]
  BY <1>1, <1>2, <1>3, <1>5 DEF Turn
<1>8. ASSUME NEW j \in Requests, Continues(j)' PROVE Follows(j)
  <2>1. CASE j = q
    BY <1>2, <1>4, <2>1 DEF Follows
  <2>2. CASE j # q
    <3>1. Continues(j) /\ job'[j] = job[j] /\ job[j].turn # u
      BY <1>2, <1>4, <1>8, <2>2 DEF Continues, LiveInv
    <3> QED
      BY <1>7, <3>1, LiveRows DEF Follows
  <2> QED
    BY <2>1, <2>2
<1>9. ASSUME NEW w \in workers' PROVE Working(w)'
  <2>1. CASE w = new
    BY <1>4, <1>6, <1>7, <2>1 DEF Working
  <2>2. CASE w \in workers
    <3>1. w.job # q
      BY <1>2, <2>2, WorkerRow DEF OwnerInv
    <3>2. w.turn # u
      BY <1>2, <2>2, <3>1, WorkerAlone DEF Startable, TerminalTurn
    <3> QED
      BY <1>4, <1>7, <2>2, <3>1, <3>2, LiveRows, WorkingKept
  <2> QED
    BY <1>3, <1>9, <2>1, <2>2
<1> QED
  BY <1>3, <1>8, <1>9, QuietLive

\* How far a worker moves, and what it makes of its turn on the way
Moves(w, new) ==
    LET old == turn[w.turn].status
        status == turn'[w.turn].status
    IN  /\ new.job = w.job /\ new.turn = w.turn
        /\ Over(w) => Over(new) /\ status = old
        /\ old \in TerminalTurn => status = old
        /\ status = "waiting_for_user" => old = "waiting_for_user" \/ Over(new)
        /\ ~Over(w) /\ old \in {"pending", "running"} =>
             \/ status \in {"pending", "running", "waiting_for_user"}
             \/ status \in TerminalTurn /\ Over(new) /\ new.out # "waiting_for_user"
        /\ Over(w) => new.out = w.out

LEMMA AdvanceMoves ==
    ASSUME OwnerInv, LiveInv, NEW w \in workers, Advance(w)
    PROVE  \E new : /\ workers' = (workers \ {w}) \cup {new}
                    /\ Moves(w, new)
                    /\ \A u \in Requests \ {w.turn} : turn'[u] = turn[u]
<1>1. /\ turn \in [Requests -> Turn] /\ w \in Worker /\ w.turn \in Requests
      /\ turn[w.turn].status \in TurnStatus
  BY DEF OwnerInv, Typed, TypeOK, Worker, Turn
<1>2. ASSUME NEW status, turn' = [turn EXCEPT ![w.turn].status = status]
      PROVE  /\ turn'[w.turn].status = status
             /\ \A u \in Requests \ {w.turn} : turn'[u] = turn[u]
  BY <1>1, <1>2 DEF Turn
<1> DEFINE old == turn[w.turn].status
           Still(pc) == pc \in {"emit", "finish"}
<1>3. ASSUME NEW pc, NEW out, Goto(w, pc, out), NEW status, turn'[w.turn].status = status,
             \A u \in Requests \ {w.turn} : turn'[u] = turn[u],
             Still(w.pc) => Still(pc) /\ status = old /\ out = w.out,
             old \in TerminalTurn => status = old,
             status = "waiting_for_user" => old = "waiting_for_user" \/ Still(pc),
             ~Still(w.pc) /\ old \in {"pending", "running"} =>
               \/ status \in {"pending", "running", "waiting_for_user"}
               \/ status \in TerminalTurn /\ Still(pc) /\ out # "waiting_for_user"
      PROVE  \E new : /\ workers' = (workers \ {w}) \cup {new}
                      /\ Moves(w, new)
                      /\ \A u \in Requests \ {w.turn} : turn'[u] = turn[u]
  <2>1. PICK new : new = [w EXCEPT !.pc = pc, !.out = out]
    OBVIOUS
  <2>2. new.job = w.job /\ new.turn = w.turn /\ new.pc = pc /\ new.out = out
    BY <1>1, <2>1 DEF Worker
  <2>3. Moves(w, new)
    BY <1>3, <2>2 DEF Moves, Over
  <2>4. workers' = (workers \ {w}) \cup {new}
    BY <1>3, <2>1 DEF Goto
  <2> QED
    BY <1>3, <2>3, <2>4
<1>4. CASE StartCancelled(w) \/ StartRefused(w) \/ StartResume(w) \/ AskAgain(w)
           \/ CancelResume(w) \/ EmitDone(w)
           \/ (\E told \in BOOLEAN : FailResume(w, told))
           \/ (\E out \in {"succeeded", "waiting_for_user"} : CompleteResume(w, out))
  <2>1. /\ turn' = turn
        /\ \E pc, out : /\ Goto(w, pc, out)
                        /\ Still(w.pc) => Still(pc) /\ out = w.out
    BY <1>4 DEF StartCancelled, StartRefused, StartResume, AskAgain, CancelResume,
                EmitDone, FailResume, CompleteResume, Running
  <2>2. PICK pc, out : Goto(w, pc, out) /\ (Still(w.pc) => Still(pc) /\ out = w.out)
    BY <2>1
  <2> QED
    BY <1>3, <2>1, <2>2
<1>5. CASE StartMessage(w)
  <2>1. /\ old = "pending" /\ w.pc = "start" /\ Goto(w, "run", w.out)
        /\ turn' = [turn EXCEPT ![w.turn].status = "running"]
    BY <1>5 DEF StartMessage
  <2>2. /\ turn'[w.turn].status = "running"
        /\ \A u \in Requests \ {w.turn} : turn'[u] = turn[u]
    BY <1>2, <2>1
  <2> QED
    BY <1>3, <2>1, <2>2 DEF TerminalTurn
<1>6. CASE CompleteTurn(w) \/ AskUser(w)
  <2>1. PICK status \in {"completed", "waiting_for_user"},
             out \in {"succeeded", "waiting_for_user"} :
          /\ old = "running" /\ w.pc = "run" /\ Goto(w, "emit", out)
          /\ turn' = [turn EXCEPT ![w.turn].status = status]
          /\ status = "completed" => out = "succeeded"
    BY <1>6 DEF CompleteTurn, AskUser, OwnsRunningTurn, Running
  <2>2. /\ turn'[w.turn].status = status
        /\ \A u \in Requests \ {w.turn} : turn'[u] = turn[u]
    BY <1>2, <2>1
  <2> QED
    BY <1>3, <2>1, <2>2 DEF TerminalTurn
<1>7. CASE CancelRun(w) \/ \E told \in BOOLEAN, p \in BOOLEAN : FailTurn(w, p, told)
  <2>1. PICK pc \in {"emit", "finish"}, out \in {"cancelled", "failed"},
             status \in {old, "cancelled", "failed"} :
          /\ turn' = [turn EXCEPT ![w.turn].status = status] /\ w.pc = "run"
          /\ Goto(w, pc, out)
          /\ status # old => old \notin TerminalTurn
    <3>1. CASE CancelRun(w)
      BY <3>1 DEF CancelRun, Running
    <3>2. CASE \E told \in BOOLEAN, p \in BOOLEAN : FailTurn(w, p, told)
      BY <3>2 DEF FailTurn, Running
    <3> QED
      BY <1>7, <3>1, <3>2
  <2>2. /\ turn'[w.turn].status = status
        /\ \A u \in Requests \ {w.turn} : turn'[u] = turn[u]
    BY <1>2, <2>1
  <2> QED
    BY <1>3, <2>1, <2>2 DEF TerminalTurn
<1>8. \/ StartCancelled(w) \/ StartRefused(w) \/ StartResume(w) \/ AskAgain(w)
         \/ CancelResume(w) \/ EmitDone(w)
         \/ (\E told \in BOOLEAN : FailResume(w, told))
         \/ (\E out \in {"succeeded", "waiting_for_user"} : CompleteResume(w, out))
      \/ StartMessage(w)
      \/ CompleteTurn(w) \/ AskUser(w)
      \/ CancelRun(w) \/ \E told \in BOOLEAN, p \in BOOLEAN : FailTurn(w, p, told)
  BY DEF Advance
<1> QED
  BY <1>4, <1>5, <1>6, <1>7, <1>8

LEMMA AdvanceLive ==
    ASSUME OwnerInv, LiveInv, Typed', NEW w \in workers, Advance(w)
    PROVE  LiveInv'
<1>1. job' = job /\ receipts' = receipts /\ op' = op
  <2>1. op' = op
    BY DEF Advance, StartCancelled, StartRefused, StartMessage, StartResume,
           CompleteTurn, AskUser, CancelRun, AskAgain, CancelResume, EmitDone,
           FailResume, FailTurn, CompleteResume
  <2> QED
    BY <2>1, AdvanceSteps
<1>2. PICK new : /\ workers' = (workers \ {w}) \cup {new}
                 /\ Moves(w, new)
                 /\ \A u \in Requests \ {w.turn} : turn'[u] = turn[u]
  BY AdvanceMoves
<1>3. Working(w) /\ w.turn \in Requests /\ w.job \in Requests
  BY LiveRows
<1>4. ASSUME NEW j \in Requests, Continues(j)' PROVE Follows(j)
  <2>1. Continues(j) /\ job[j].turn \in Requests
    BY <1>1, <1>4, LiveRows DEF Continues
  <2>2. CASE job[j].turn # w.turn
    BY <1>1, <1>2, <2>1, <2>2 DEF Follows
  <2>3. CASE job[j].turn = w.turn /\ turn[w.turn].status \in TerminalTurn
    BY <1>1, <1>2, <2>1, <2>3 DEF Follows, Moves
  <2>4. CASE j = w.job
    <3>1. CASE job[j].status = "running"
      BY <1>1, <2>1, <3>1 DEF Follows
    <3>2. CASE job[j].status # "running"
      <4>1. Over(w)
        BY <1>3, <2>1, <2>4, <3>2, LiveRows DEF Working, Continues
      <4>2. job[j].turn = w.turn
        BY <2>4, LiveRows
      <4> QED
        BY <1>1, <1>2, <2>1, <4>1, <4>2 DEF Follows, Moves
    <3> QED
      BY <3>1, <3>2
  <2> QED
    BY <2>1, <2>2, <2>3, <2>4, WorkerAlone
<1>5. ASSUME NEW v \in workers' PROVE Working(v)'
  <2>1. CASE v = new
    <3>1. turn[w.turn].status \in TerminalTurn =>
            turn[w.turn].status \notin {"pending", "running", "waiting_for_user"}
      BY DEF TerminalTurn
    <3> QED
      BY <1>1, <1>2, <1>3, <2>1, <3>1 DEF Working, Moves
  <2>2. CASE v \in workers /\ v # w
    <3>1. v.turn # w.turn
      BY <2>2, WorkerAlone
    <3> QED
      BY <1>1, <1>2, <2>2, <3>1, LiveRows, WorkingKept
  <2> QED
    BY <1>2, <1>5, <2>1, <2>2
<1> QED
  BY <1>1, <1>4, <1>5, QuietLive

\* What finish_job makes of the worker's job and turn
LEMMA FinishTurns ==
    ASSUME OwnerInv, LiveInv, NEW w \in workers, Finish(w)
    PROVE  /\ op' = op
           /\ \A u \in Requests \ {w.turn} : turn'[u] = turn[u]
           /\ turn[w.turn].status \in TerminalTurn =>
                turn'[w.turn].status = turn[w.turn].status
           /\ \/ job'[w.job].status = job[w.job].status /\ turn' = turn
              \/ job'[w.job].status \in
                   {"succeeded", "failed", "interrupted", "cancelled"}
              \/ /\ job'[w.job].status = "waiting_for_user"
                 /\ job[w.job].status = "running"
                 /\ turn'[w.turn].status = "waiting_for_user"
<1>1. /\ job \in [Requests -> Job] /\ turn \in [Requests -> Turn]
      /\ w \in Worker /\ w.turn \in Requests /\ w.out \in Outcome
      /\ job[w.job].status \in {"running", "queued", "cancelled"}
      /\ w.job \in Requests /\ job[w.job] \in Job /\ Working(w)
  BY WorkerRow DEF OwnerInv, Typed, TypeOK, Worker, LiveInv
<1>2. ASSUME NEW status, turn' = [turn EXCEPT ![w.turn].status = status]
      PROVE  /\ turn'[w.turn].status = status
             /\ \A u \in Requests \ {w.turn} : turn'[u] = turn[u]
  BY <1>1, <1>2 DEF Turn
<1>3. CASE FinishSuperseded(w)
  BY <1>1, <1>3 DEF FinishSuperseded, Job
<1>4. CASE FinishUncertain(w)
  <2> DEFINE status == IF turn[w.turn].status \in {"pending", "running"}
                       THEN "failed" ELSE turn[w.turn].status
  <2>1. turn' = [turn EXCEPT ![w.turn].status = status] /\ op' = op
    BY <1>4 DEF FinishUncertain
  <2>2. job'[w.job].status = "interrupted"
    BY <1>1, <1>4 DEF FinishUncertain, Job
  <2>3. turn[w.turn].status \in TerminalTurn => status = turn[w.turn].status
    BY DEF TerminalTurn
  <2> HIDE DEF status
  <2> QED
    BY <1>2, <2>1, <2>2, <2>3
<1>5. CASE FinishSettled(w)
  <2> DEFINE live == job[w.job].status = "running"
             ended == IF live THEN w.out ELSE job[w.job].status
             status == IF live /\ turn[w.turn].status \in {"pending", "running"}
                       THEN TurnAfter(w.out) ELSE turn[w.turn].status
  <2>1. turn' = [turn EXCEPT ![w.turn].status = status] /\ op' = op
    BY <1>5 DEF FinishSettled
  <2>2. job'[w.job].status = ended
    <3>1. job' = [job EXCEPT ![w.job] =
                    [@ EXCEPT !.status = ended, !.wkr = FALSE,
                              !.occ = (ended = "waiting_for_user")]]
      BY <1>5 DEF FinishSettled
    <3> HIDE DEF ended
    <3> QED
      BY <1>1, <3>1 DEF Job
  <2>3. job[w.job].status # "queued"
    <3>1. job[w.job].stream = w.stream
      BY <1>5 DEF FinishSettled, OwnsStream
    <3> QED
      BY <1>1, <3>1 DEF OwnerInv, OwnStreams, Minted
  <2>4. turn[w.turn].status \in TerminalTurn => status = turn[w.turn].status
    BY DEF TerminalTurn
  <2>5. ended = "waiting_for_user" => live /\ status = "waiting_for_user"
    BY <1>1 DEF Working, TurnAfter
  <2>6. ended \in {"succeeded", "failed", "interrupted", "cancelled", "waiting_for_user"}
    BY <1>1, <2>3 DEF Outcome
  <2> HIDE DEF status, ended
  <2> QED
    BY <1>2, <2>1, <2>2, <2>4, <2>5, <2>6
<1> QED
  BY <1>3, <1>4, <1>5 DEF Finish

LEMMA FinishLive ==
    ASSUME OwnerInv, LiveInv, Typed', NEW w \in workers, Finish(w)
    PROVE  LiveInv'
<1>1. /\ workers' = workers \ {w} /\ receipts' = receipts
      /\ \A j \in Requests \ {w.job} : job'[j] = job[j]
      /\ job'[w.job].turn = job[w.job].turn
  BY FinishSteps DEF FinishWrites
<1>2. ASSUME NEW j \in Requests, Continues(j)' PROVE Follows(j)
  <2>1. CASE j = w.job
    <3>1. job[j].turn = w.turn
      BY <2>1, LiveRows
    <3> QED
      BY <1>1, <1>2, <2>1, <3>1, FinishTurns DEF Continues, Follows
  <2>2. CASE j # w.job
    <3>1. Continues(j) /\ job'[j] = job[j] /\ job[j].turn \in Requests
      BY <1>1, <1>2, <2>2, LiveRows DEF Continues
    <3>2. job[j].turn = w.turn => turn[w.turn].status \in TerminalTurn
      BY <2>2, <3>1, WorkerAlone
    <3>3. turn'[job[j].turn].status = turn[job[j].turn].status
      BY <3>1, <3>2, FinishTurns
    <3> QED
      BY <3>1, <3>3 DEF Follows
  <2> QED
    BY <2>1, <2>2
<1>3. ASSUME NEW v \in workers' PROVE Working(v)'
  <2>1. v \in workers /\ v # w
    BY <1>1, <1>3
  <2>2. v.turn # w.turn
    BY <2>1, WorkerAlone
  <2>3. v.job # w.job
    BY <2>1, <2>2, LiveRows
  <2> QED
    BY <1>1, <2>1, <2>2, <2>3, LiveRows, FinishTurns, WorkingKept
<1> QED
  BY <1>1, <1>2, <1>3, FinishTurns, QuietLive

\* Operations begin for a turn whose job is not queued.
LEMMA OperationLive ==
    ASSUME OwnerInv, LiveInv, Typed', UNCHANGED <<job, turn, receipts>>,
           workers' = workers \/ workers' = {},
           \A v \in Requests : op'[v] # {} =>
             \/ op[v] # {}
             \/ \E w \in workers : w.turn = v /\ ~Over(w)
    PROVE  LiveInv'
<1>1. ASSUME NEW j \in Requests, Continues(j)' PROVE Follows(j)
  BY <1>1 DEF Continues, Follows
<1>2. ASSUME NEW w \in workers' PROVE Working(w)'
  BY <1>2, LiveRows, WorkingKept
<1>3. ASSUME NEW w \in workers, ~Over(w)
      PROVE  /\ w.turn \in receipts
             /\ \A j \in Requests : job[j].status = "queued" => job[j].turn # w.turn
  <2>1. job[w.job].status # "queued"
    BY <1>3, LiveRows DEF Working
  <2>2. \A j \in Requests : job[j].status = "queued" =>
          turn[job[j].turn].status \notin TerminalTurn
    BY DEF LiveInv, Startable, TerminalTurn
  <2> QED
    BY <2>1, <2>2, WorkerAlone, LiveRows DEF Continues
<1> QED
  BY <1>1, <1>2, <1>3, QuietLive

\* A restart fails turns nobody is queued for, and its rows follow the turns.
LEMMA RecoverTurnsLive ==
    ASSUME OwnerInv, LiveInv, Typed', RecoverTurns
    PROVE  LiveInv'
<1>1. job' = job /\ op' = op /\ receipts' = receipts /\ workers' = {}
  BY NoWorkers DEF RecoverTurns
<1>2. ASSUME NEW u \in Requests,
             QueuedJobOf(u) \/ turn[u].status \notin {"pending", "running"}
      PROVE  turn'[u] = turn[u]
  BY <1>2 DEF RecoverTurns
<1>3. ASSUME NEW j \in Requests, Continues(j)' PROVE Follows(j)
  <2>1. Continues(j) /\ job[j].turn \in Requests
    BY <1>1, <1>3, LiveRows DEF Continues
  <2>2. CASE job[j].status = "running"
    BY <1>1, <2>1, <2>2 DEF Follows
  <2>3. CASE job[j].status = "queued"
    BY <1>1, <1>2, <2>1, <2>3 DEF Follows, QueuedJobOf
  <2>4. CASE job[j].status = "waiting_for_user"
    BY <1>1, <1>2, <2>1, <2>4 DEF Follows, LiveInv
  <2> QED
    BY <2>1, <2>2, <2>3, <2>4 DEF Continues
<1> QED
  BY <1>1, <1>3, QuietLive

LEMMA RecoverJobsLive ==
    ASSUME OwnerInv, LiveInv, Typed', RecoverJobs
    PROVE  LiveInv'
<1>1. turn' = turn /\ receipts' = receipts /\ workers' = {}
  BY NoWorkers DEF RecoverJobs
<1>2. ASSUME NEW j \in Requests
      PROVE  job'[j].status = RecoveredStatus(j) /\ job'[j].turn = job[j].turn
  <2>1. job[j] \in Job
    BY DEF OwnerInv, Typed, TypeOK
  <2> QED
    BY <2>1 DEF RecoverJobs, Job
<1>3. ASSUME NEW j \in Requests, RecoveredStatus(j) = "waiting_for_user"
      PROVE  turn[job[j].turn].status = "waiting_for_user"
  <2>1. CASE job[j].status = "running"
    BY <1>3, <2>1 DEF RecoveredStatus
  <2>2. CASE job[j].status # "running"
    BY <1>3, <2>2, RecoveredCases DEF LiveInv
  <2> QED
    BY <2>1, <2>2
<1>4. ASSUME NEW j \in Requests, Continues(j)' PROVE Follows(j)
  BY <1>1, <1>2, <1>3, <1>4, RecoveredCases DEF Continues, Follows
<1>5. \A v \in Requests : op'[v] # {} => op[v] # {}
  BY DEF RecoverJobs
<1> QED
  BY <1>1, <1>4, <1>5, QuietLive

LEMMA LiveNext ==
    ASSUME OwnerInv, LiveInv, [Next]_vars
    PROVE  LiveInv'
<1>1. Typed' /\ OneActive /\ OneOccupant
  BY TypedStep DEF OwnerInv, OneOwnerPerThread, OneActive, OneOccupant
<1>2. CASE Client
  BY <1>1, <1>2, QueueMessageLive, AnswerWaitingLive, ResumeLive, AcceptOccurrenceLive,
     CancelTurnLive, AcknowledgeStoppedLive, EditAutomationLive
  DEF Client, Accept
<1>3. CASE Claim
  BY <1>1, <1>3, ClaimLive DEF Claim
<1>4. CASE \E w \in workers : Advance(w) \/ Finish(w)
  BY <1>1, <1>4, AdvanceLive, FinishLive
<1>5. CASE \E w \in workers : Interrupt(w) \/ StartOperation(w)
  <2>1. PICK w \in workers : Interrupt(w) \/ StartOperation(w)
    BY <1>5
  <2>2. UNCHANGED <<job, turn, receipts, workers>>
    BY <2>1 DEF Interrupt, StartOperation
  <2>3. ASSUME NEW v \in Requests, op'[v] # op[v] PROVE w.turn = v /\ ~Over(w)
    <3>1. op \in [Requests -> SUBSET {"running", "uncertain"}]
      BY DEF OwnerInv, Typed, TypeOK
    <3>2. /\ w.pc = "run"
          /\ op' = [op EXCEPT ![w.turn] = @ \cup {"running"}]
      BY <2>1, <2>3 DEF Interrupt, StartOperation
    <3> QED
      BY <2>3, <3>1, <3>2 DEF Over
  <2> QED
    BY <1>1, <2>1, <2>2, <2>3, OperationLive
<1>6. CASE EndOperations
  <2>1. PICK u \in Requests : EndOperation(u)
    BY <1>6 DEF EndOperations
  <2>2. UNCHANGED <<job, turn, receipts, workers>>
    BY <2>1 DEF EndOperation
  <2>3. \A v \in Requests : op'[v] # {} => op[v] # {}
    BY <2>1 DEF EndOperation
  <2> QED
    BY <1>1, <2>2, <2>3, OperationLive
<1>7. CASE Crash \/ UNCHANGED vars
  <2>1. UNCHANGED <<job, turn, receipts, op>> /\ (workers' = workers \/ workers' = {})
    BY <1>7 DEF Crash, vars
  <2> QED
    BY <1>1, <2>1, OperationLive
<1> QED
  BY <1>1, <1>2, <1>3, <1>4, <1>5, <1>6, <1>7, RecoverTurnsLive, RecoverJobsLive
  DEF Next, Work

LEMMA LiveInvariant == Spec => []LiveInv
<1>1. Init => LiveInv
  BY DEF Init, LiveInv, NoJob, Continues
<1>2. OwnerInv /\ LiveInv /\ [Next]_vars => LiveInv'
  BY LiveNext
<1> QED
  BY <1>1, <1>2, OwnerInvariant, PTL DEF Spec

\* How a job may leave the queue
Left(j) ==
    \/ job'[j].status = "running" /\ job'[j].stream \in executed'
    \/ job'[j].status = "cancelled" /\ turn'[job[j].turn].status = "cancelled"
    \/ job'[j].status = "interrupted" /\ phase = "recovering" /\ job[j].wkr

\* A command queues work; it takes none out of the queue but by cancelling it,
\* and the turn with it.
LEMMA CommandsKeepQueued ==
    ASSUME OwnerInv, LiveInv, Client, NEW j \in Requests,
           job[j].status = "queued", job'[j].status # "queued"
    PROVE  Left(j)
<1>1. /\ job \in [Requests -> Job] /\ job[j] \in Job
      /\ turn \in [Requests -> Turn]
      /\ job[j].turn \in Requests
      /\ turn[job[j].turn].status \in Startable
  BY DEF OwnerInv, Typed, TypeOK, JobsAreMinted, LiveInv
<1>2. ASSUME NEW i \in Requests, NEW row \in Job, row.status = "queued",
             job' = [job EXCEPT ![i] = row]
      PROVE  FALSE
  BY <1>1, <1>2
<1>3. CASE \E r \in Requests, t \in Threads : QueueMessage(r, t)
  <2>1. PICK r \in Requests, t \in Threads : QueueMessage(r, t)
    BY <1>3
  <2>2. /\ job' = [job EXCEPT ![r] = QueuedJob(r, t, r, "message.send", NoAutomation)]
        /\ QueuedJob(r, t, r, "message.send", NoAutomation).status = "queued"
    BY <2>1 DEF QueueMessage, QueuedJob
  <2> QED
    BY <1>1, <2>2
<1>4. CASE \E r \in Requests, t \in Threads : AnswerWaiting(r, t)
  <2>1. PICK r \in Requests, t \in Threads : AnswerWaiting(r, t)
    BY <1>4
  <2>2. PICK i : job' = [job EXCEPT ![i] =
                   [@ EXCEPT !.status = "queued", !.turn = r, !.stream = r,
                             !.cmd = "message.send", !.verified = FALSE]]
    BY <2>1 DEF AnswerWaiting
  <2>3. j # i
    BY <1>1, <2>2 DEF Job
  <2> QED
    BY <1>1, <2>2, <2>3
<1>5. CASE \E r \in Requests, t \in Threads :
             ResumeWaitingTurn(r, t) \/ ResumeNewTurn(r, t)
  <2>1. PICK r, t, u, turns : ResumeWith(r, t, u, turns)
    BY <1>5 DEF ResumeWaitingTurn, ResumeNewTurn
  <2>2. \/ \E i : job' = [job EXCEPT ![i] =
                   [@ EXCEPT !.status = "queued", !.stream = r,
                             !.cmd = "thread.resume", !.verified = FALSE]]
        \/ job' = [job EXCEPT ![r] =
                     QueuedJob(r, t, u, "thread.resume", NoAutomation)]
    BY <2>1 DEF ResumeWith
  <2>3. CASE \E i : job' = [job EXCEPT ![i] =
                   [@ EXCEPT !.status = "queued", !.stream = r,
                             !.cmd = "thread.resume", !.verified = FALSE]]
    BY <1>1, <2>3 DEF Job
  <2>4. CASE job' = [job EXCEPT ![r] =
                       QueuedJob(r, t, u, "thread.resume", NoAutomation)]
    BY <1>1, <2>4 DEF QueuedJob
  <2> QED
    BY <2>2, <2>3, <2>4
<1>6. ASSUME NEW a, NEW W, W = Withdrawn(a) \/ W = {}, j \in W
      PROVE  /\ WithdrawnJobs(W)[j].status = "cancelled"
             /\ WithdrawnTurns(W)[job[j].turn].status = "cancelled"
  <2>1. WithdrawnJobs(W)[j] = [job[j] EXCEPT !.status = "cancelled"]
    BY <1>6 DEF WithdrawnJobs
  <2>2. WithdrawnTurns(W)[job[j].turn] =
          [turn[job[j].turn] EXCEPT !.status = "cancelled"]
    BY <1>1, <1>6 DEF WithdrawnTurns
  <2>3. turn[job[j].turn] \in Turn
    BY <1>1
  <2> QED
    BY <1>1, <2>1, <2>2, <2>3 DEF Job, Turn
<1>7. CASE \E r \in Requests, t \in Threads, a \in Automations, timer \in BOOLEAN :
             AcceptOccurrence(r, a, t, timer)
  <2>1. PICK r \in Requests, t \in Threads, a \in Automations, timer \in BOOLEAN :
          AcceptOccurrence(r, a, t, timer)
    BY <1>7
  <2> DEFINE W == IF timer THEN Withdrawn(a) ELSE {}
             rows == WithdrawnJobs(W)
             turns == WithdrawnTurns(W)
  <2>2. /\ Fresh(r)
        /\ job' = [rows EXCEPT ![r] = QueuedJob(r, t, r, "message.send", a)]
        /\ turn' = [turns EXCEPT ![r] = ReservedTurn(turns, t)]
    BY <2>1 DEF AcceptOccurrence
  <2>3. W = Withdrawn(a) \/ W = {}
    OBVIOUS
  <2>4. rows = [i \in Requests |-> rows[i]] /\ turns = [u \in Requests |-> turns[u]]
    BY DEF WithdrawnJobs, WithdrawnTurns
  <2>5. j \notin W => rows[j] = job[j]
    BY DEF WithdrawnJobs
  <2>6. j \in W => /\ rows[j].status = "cancelled"
                   /\ turns[job[j].turn].status = "cancelled"
    BY <1>6, <2>3
  <2> HIDE DEF W, rows, turns
  <2>7. j # r /\ job[j].turn # r
    BY <2>2, FreshRequest DEF Minted
  <2>8. job'[j] = rows[j] /\ turn'[job[j].turn] = turns[job[j].turn]
    BY <1>1, <2>2, <2>4, <2>7
  <2> QED
    BY <2>5, <2>6, <2>8 DEF Left
<1>8. CASE \E a \in Automations : EditAutomation(a)
  <2>1. PICK a \in Automations : EditAutomation(a)
    BY <1>8
  <2>2. /\ job' = WithdrawnJobs(Withdrawn(a))
        /\ turn' = WithdrawnTurns(Withdrawn(a))
    BY <2>1 DEF EditAutomation
  <2>3. j \in Withdrawn(a)
    BY <2>2 DEF WithdrawnJobs
  <2> QED
    BY <1>6, <2>2, <2>3 DEF Left
<1>9. CASE \E u \in Requests : CancelTurn(u)
  <2>1. PICK u \in Requests : CancelTurn(u)
    BY <1>9
  <2> DEFINE status == IF turn[u].status \in TerminalTurn THEN turn[u].status
                       ELSE "cancelled"
  <2>2. /\ job' = [i \in Requests |->
                     IF i \in Cancellable(u)
                     THEN [job[i] EXCEPT !.status = "cancelled",
                                         !.occ = @ /\ job[i].wkr]
                     ELSE job[i]]
        /\ turn' = [turn EXCEPT ![u].status = status]
    BY <2>1 DEF CancelTurn
  <2>3. j \in Cancellable(u)
    BY <2>2
  <2>4. job'[j] = [job[j] EXCEPT !.status = "cancelled", !.occ = @ /\ job[j].wkr]
    BY <2>2, <2>3
  <2>5. job'[j].status = "cancelled" /\ job[j].turn = u
    BY <1>1, <2>3, <2>4 DEF Job, Cancellable
  <2>6. status = "cancelled"
    BY <1>1, <2>5 DEF Startable, TerminalTurn
  <2>7. turn[u] \in Turn
    BY <1>1, <2>1
  <2> HIDE DEF status
  <2> QED
    BY <1>1, <2>2, <2>5, <2>6, <2>7 DEF Left, Turn
<1>10. CASE \E u \in Requests : AcknowledgeStopped(u)
  <2>1. PICK u \in Requests : AcknowledgeStopped(u)
    BY <1>10
  <2>2. job'[j] = job[j]
    BY <2>1 DEF AcknowledgeStopped, Unconfirmed
  <2> QED
    BY <2>2
<1> QED
  BY <1>3, <1>4, <1>5, <1>7, <1>8, <1>9, <1>10 DEF Client, Accept

\* Nothing but a claim, a cancellation and the restart of a server whose worker
\* still held it takes a job out of the queue.
LEMMA QueuedStep ==
    ASSUME OwnerInv, LiveInv, [Next]_vars, NEW j \in Requests,
           job[j].status = "queued", job'[j].status # "queued"
    PROVE  Left(j)
<1>1. job \in [Requests -> Job] /\ job[j] \in Job /\ job[j].turn \in Requests
  BY DEF OwnerInv, Typed, TypeOK, JobsAreMinted
<1>2. CASE Client
  BY <1>2, CommandsKeepQueued
<1>3. CASE Claim
  <2>1. PICK q \in Requests : ClaimNext(q)
    BY <1>3 DEF Claim
  <2>2. /\ job' = [job EXCEPT ![q] =
                     [@ EXCEPT !.status = "running", !.occ = TRUE, !.wkr = TRUE,
                               !.gen = job[q].gen + 1]]
        /\ executed' = executed \cup {job[q].stream}
    BY <2>1, NothingToReoccupy DEF ClaimNext
  <2>3. j = q
    BY <1>1, <2>2
  <2> QED
    BY <1>1, <2>2, <2>3 DEF Left, Job
<1>4. CASE \E w \in workers : Advance(w)
  BY <1>4, AdvanceSteps
<1>5. CASE \E w \in workers : Finish(w)
  <2>1. PICK w \in workers : Finish(w)
    BY <1>5
  <2>2. FinishWrites(w)
    BY <2>1, FinishSteps
  <2>3. j = w.job /\ job[j].stream = w.stream
    BY <2>2 DEF FinishWrites
  <2>4. FALSE
    BY <2>3 DEF OwnerInv, OwnStreams, Minted
  <2> QED
    BY <2>4
<1>6. CASE RecoverJobs
  <2>1. job'[j].status = RecoveredStatus(j) /\ phase = "recovering"
    BY <1>1, <1>6 DEF RecoverJobs, Job
  <2>2. ~Uncertain(job[j].turn)
    BY DEF LiveInv, Uncertain
  <2>3. job[j].wkr /\ RecoveredStatus(j) = "interrupted"
    BY <2>1, <2>2 DEF RecoveredStatus
  <2> QED
    BY <2>1, <2>3 DEF Left
<1>7. ASSUME job' = job PROVE FALSE
  BY <1>7
<1>8. CASE \E w \in workers : Interrupt(w) \/ StartOperation(w)
  BY <1>7, <1>8 DEF Interrupt, StartOperation
<1>9. CASE EndOperations \/ Crash \/ RecoverTurns \/ UNCHANGED vars
  BY <1>7, <1>9 DEF EndOperations, EndOperation, Crash, RecoverTurns, vars
<1> QED
  BY <1>2, <1>3, <1>4, <1>5, <1>6, <1>8, <1>9 DEF Next, Work

\* Queued work is never lost: only its own claim, a cancellation of its turn, or
\* a restart while its previous worker was alive takes a job out of the queue.
\* A late finish_job of that worker, another command or an operation cannot.
THEOREM QueuedIsKept == Spec => QueuedWorkIsKept
<1>1. OwnerInv /\ LiveInv /\ [Next]_vars =>
        [\A j \in Requests :
          job[j].status = "queued" /\ job'[j].status # "queued" =>
            \/ job'[j].status = "running" /\ job'[j].stream \in executed'
            \/ /\ job'[j].status = "cancelled"
               /\ turn'[job[j].turn].status = "cancelled"
            \/ job'[j].status = "interrupted" /\ phase = "recovering"
                                             /\ job[j].wkr]_vars
  BY QueuedStep DEF Left
<1> QED
  BY <1>1, OwnerInvariant, LiveInvariant, PTL DEF Spec, QueuedWorkIsKept
=============================================================================
