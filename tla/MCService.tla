----------------------------- MODULE MCService ------------------------------
(* The queue for TLC: one thread under every command, with server stops;    *)
(* the occurrences of an automation on two threads; and the history that    *)
(* the messages of a thread enter when they are claimed.  A behaviour       *)
(* follows one of them.                                                     *)
EXTENDS MCJobQueue, HistoryAdmission

CONSTANTS t2, a1

VARIABLE part       \* what a behaviour follows

TwoThreads == {t1, t2}
OneAutomation == {a1}

OnOneThread == INSTANCE JobQueue WITH Threads <- OneThread, Automations <- NoAutomations
OfAutomation == INSTANCE JobQueue WITH Commands <- {"message.send"}, MaxCrashes <- 0

\* Three messages, and two of which one row may be deleted.
Deleting == INSTANCE HistoryAdmission WITH MaxMessages <- 2, MaxRows <- 4, MaxDeletes <- 1

ServiceInit ==
    /\ \/ part = "automation" /\ Init
       \/ part \in {"queue", "deleting", "reopening"} /\ OnOneThread!Init
    /\ HistoryInit

\* Two occurrences, or one and a message, are enough to overlap.
AutomationStep == OfAutomation!Next /\ Cardinality(receipts') <= 2

QueueStep ==
    /\ UNCHANGED <<part, historyVars>>
    /\ \/ part = "queue" /\ OnOneThread!Next
       \/ part = "automation" /\ AutomationStep

HistoryStep ==
    /\ UNCHANGED <<part, vars>>
    /\ \/ part = "deleting" /\ Deleting!HistoryNext
       \/ part = "reopening" /\ HistoryNext

ServiceSpec == ServiceInit /\ [][QueueStep \/ HistoryStep]_<<part, vars, historyVars>>
=============================================================================
