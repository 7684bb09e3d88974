---------------------------- MODULE MCSupervisor ----------------------------
(* For TLC: Supervisor under three kinds of clients, some who only act on   *)
(* the life of the computer, over many generations and server stops, and    *)
(* some who also take it over, with a human's input under way or with a     *)
(* Docker that fails; and the liveness of the queue under three kinds of    *)
(* clients.  They share nothing, and a behaviour is one of them throughout. *)
EXTENDS Supervisor

CONSTANT t1

VARIABLES
    part,       \* what a behaviour follows
    job, turn, thread, ckpt, operation, done, receipts, workers, executed, phase, stops

queueVars == <<job, turn, thread, ckpt, operation, done, receipts, workers, executed, phase, stops>>

LifecycleOnly == INSTANCE Supervisor WITH ControlActs <- {}
WithTakeovers == INSTANCE Supervisor WITH MaxGen <- 2, MaxCrashes <- 1, MaxFaults <- 0
WithFaults == INSTANCE Supervisor WITH MaxGen <- 2, MaxCrashes <- 1, MaxInputs <- 0

\* Messages and confirmations with a server stop; everything but cancellations;
\* every command.
Restarting == INSTANCE JobQueue WITH op <- operation, crashes <- stops,
    Threads <- {t1}, Automations <- {}, MaxRequests <- 3, MaxCrashes <- 1,
    Commands <- {"message.send", "turn.acknowledge_stopped"}
Answering == INSTANCE JobQueue WITH op <- operation, crashes <- stops,
    Threads <- {t1}, Automations <- {}, MaxRequests <- 3, MaxCrashes <- 0,
    Commands <- {"message.send", "thread.resume", "turn.acknowledge_stopped"}
Unrestricted == INSTANCE JobQueue WITH op <- operation, crashes <- stops,
    Threads <- {t1}, Automations <- {}, MaxRequests <- 3, MaxCrashes <- 0,
    Commands <- {"message.send", "thread.resume", "turn.cancel", "turn.acknowledge_stopped"}

PartsInit ==
    /\ part \in {"lifecycle", "takeovers", "faults", "restarting", "answering", "unrestricted"}
    /\ Init /\ Restarting!Init

SupervisorStep ==
    /\ UNCHANGED <<part, queueVars>>
    /\ \/ part = "lifecycle" /\ LifecycleOnly!Next
       \/ part = "takeovers" /\ WithTakeovers!Next
       \/ part = "faults" /\ WithFaults!Next

QueueStep ==
    /\ UNCHANGED <<part, vars>>
    /\ \/ part = "restarting" /\ Restarting!Next
       \/ part = "answering" /\ Answering!Next
       \/ part = "unrestricted" /\ Unrestricted!Next

PartsSpec ==
    /\ PartsInit
    /\ [][SupervisorStep \/ QueueStep]_<<part, vars, queueVars>>
    /\ Fairness /\ Restarting!Fairness

\* Of JobQueue, where the code promises it: a cancellation may leave a thread
\* reserved (the run cancelled_worker).
QueueIsServed == part # "unrestricted" => Restarting!QueuedIsServed

\* Of JobQueue, without a server stop: a stop between a question and its
\* terminal event leaves that event to the continuation.
StreamEnds == part # "restarting" => Restarting!StartedStreamEnds
=============================================================================
