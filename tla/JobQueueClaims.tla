--------------------------- MODULE JobQueueClaims ---------------------------
(***************************************************************************)
(* What the guide and the comments say of the job queue and its code does  *)
(* not keep.  Each claim is an invariant of its own run, which ends in the *)
(* shortest trace that breaks it.                                          *)
(***************************************************************************)
EXTENDS JobQueue

LiveJob(j) == job[j].status \in {"queued", "running", "waiting_for_user"}

\* "Cancelled workers keep that reservation until cleanup finishes"
\* (docs/guide/realtime.md): when the worker of a cancelled job is gone, the
\* job no longer occupies its thread.
CancelledWorkerLetsGo ==
    \A j \in Requests :
        phase = "up" /\ job[j].status = "cancelled" /\ ~job[j].wkr
            => ~job[j].occ

\* "turn.acknowledge_stopped explicitly releases the interrupted thread":
\* a confirmed job leaves no turn behind that keeps the thread taken.
ConfirmationReleases ==
    \A j \in Requests :
        /\ phase = "up" /\ job[j].status = "interrupted" /\ job[j].verified
        /\ turn[job[j].turn].status \in {"pending", "running"}
        => \E k \in Requests : LiveJob(k) /\ job[k].turn = job[j].turn

\* "Startup executes queued work and marks already started jobs
\* interrupted": the transaction that does so can commit.
StartupCanCommit ==
    phase = "recovering" =>
        \A t \in Threads : \A j, k \in RecoveredOccupants(t) : j = k

\* "The later done event still performs transport cleanup": the stream of a
\* job that waits for the user has ended, so its readers stop polling.
WaitingStreamIsDone ==
    \A j \in Requests :
        phase = "up" /\ job[j].status = "waiting_for_user"
            => done[job[j].stream] > 0

\* "Sending a new message should not dead-end ... the thread returns to
\* active, so the new turn starts cleanly": an accepted message whose turn
\* may run is not refused by the state of its thread.
MessageFindsThreadActive ==
    \A w \in workers :
        w.pc = "start" /\ w.cmd = "message.send" /\ Runnable(w)
            => thread[w.thread] = "active"

\* "thread is already resuming" is the answer of accept_resume for a thread
\* that is not paused: a thread marked running has work that will unmark it.
RunningThreadHasWork ==
    \A t \in Threads :
        phase = "up" /\ thread[t] = "running"
            => \E j \in JobsOn(t) : LiveJob(j) \/ job[j].wkr
=============================================================================
