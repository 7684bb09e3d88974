----------------------------- MODULE TurnPromise -----------------------------
(* What the durable queue takes for granted of the turn it runs for a       *)
(* message: JobQueue knows no more of the scheduler than this.  The turn    *)
(* begins once, or is found ended and left alone; it publishes and settles  *)
(* only while its status says running; what it reports to its job agrees    *)
(* with the status it left; a cancellation may come at any moment and is    *)
(* never written over.                                                      *)
EXTENDS Naturals, Sequences

VARIABLES
    status,     \* the turn's status, as JobQueue tells them apart
    at,         \* the worker: "start", "run" or "over"
    out,        \* what it reports
    signal,     \* the turn's cancellation token
    said        \* the replies of the turn in the transcript

vars == <<status, at, out, signal, said>>

Terminal == {"completed", "failed", "cancelled"}

Init == status = "pending" /\ at = "start" /\ out = "none" /\ signal = FALSE /\ said = <<>>

Over(report) == at' = "over" /\ out' = report /\ UNCHANGED <<signal, said>>

Begin ==
    /\ at = "start" /\ at' = "run"
    /\ status = "pending" /\ status' = "running" /\ UNCHANGED <<out, signal, said>>

Skip == at = "start" /\ status = "cancelled" /\ Over("cancelled") /\ UNCHANGED status

Say ==
    /\ at = "run" /\ status = "running"
    /\ Len(said') = Len(said) + 1 /\ UNCHANGED <<status, at, out, signal>>

\* CompleteTurn and AskUser of JobQueue
Settle ==
    /\ at = "run" /\ status = "running"
    /\ \/ status' = "completed" /\ Over("succeeded")
       \/ status' = "waiting_for_user" /\ Over("waiting_for_user")

\* FailTurn; the failure may not get to the database.
Fail ==
    /\ at = "run" /\ Over("failed")
    /\ \/ UNCHANGED status
       \/ status \notin Terminal /\ status' = "failed"

\* CancelRun
Stop ==
    /\ at = "run" /\ signal
    /\ status' = IF status \in Terminal THEN status ELSE "cancelled"
    /\ Over("cancelled")

Cancel ==
    /\ at # "over" /\ status \notin Terminal
    /\ status' = "cancelled" /\ UNCHANGED <<at, out, signal, said>>

Signal == at # "over" /\ signal' = TRUE /\ UNCHANGED <<status, at, out, said>>

Next == Begin \/ Skip \/ Say \/ Settle \/ Fail \/ Stop \/ Cancel \/ Signal
Spec == Init /\ [][Next]_vars
=============================================================================
