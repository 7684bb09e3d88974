-------------------------- MODULE JobQueueService ---------------------------
(***************************************************************************)
(* The job queue implements CommandService: a command is the stream it     *)
(* minted, accepted while a queued job carries that stream, executing      *)
(* while a worker writes to it.  One job can be both: its old stream is    *)
(* executing while the continuation's stream is accepted.                  *)
(***************************************************************************)
EXTENDS JobQueue

WorkersOf(r) == {w \in workers : w.stream = r}
QueuedJobsOf(r) ==
    {j \in Requests : job[j].status = "queued" /\ job[j].stream = r}

CommandState(r) ==
    IF r \notin receipts THEN "unknown"
    ELSE IF WorkersOf(r) # {} THEN "executing"
    ELSE IF QueuedJobsOf(r) # {} THEN "accepted"
    ELSE "ended"

CommandLane(r) ==
    IF WorkersOf(r) # {} THEN (CHOOSE w \in WorkersOf(r) : TRUE).thread
    ELSE IF QueuedJobsOf(r) # {}
         THEN job[CHOOSE j \in QueuedJobsOf(r) : TRUE].thread
    ELSE NoThread

Service == INSTANCE CommandService
    WITH state <- [r \in Requests |-> CommandState(r)],
         lane <- [r \in Requests |-> CommandLane(r)]

\* Every behaviour of the queue, crashes included, is one the service
\* promises: commands run at most once and one at a time per thread.
ImplementsService == Service!Spec
=============================================================================
