---------------------------- MODULE MCAgentWork ----------------------------
(* What an agent works with, for TLC: the journal of its tool calls, and    *)
(* the context it is given.  They share nothing, and a behaviour follows    *)
(* one part.                                                                *)
EXTENDS ToolJournal, Compaction

CONSTANTS h1, h2

VARIABLE part       \* what a behaviour follows

\* Three turns in a declared window; and two turns with messages that can be
\* pinned and cannot, whether the provider declares its window or not.
DeclaredWindow == {20}
Short == {1}
Sizes == {[size |-> 1, repeats |-> FALSE], [size |-> 10, repeats |-> FALSE],
          [size |-> 10, repeats |-> TRUE]}
Varied == INSTANCE Compaction WITH Windows <- {0, 20}, Inputs <- {1, 5}, MaxTurns <- 2

\* Every kind of round the model may ask for: concurrent reads, two gated
\* calls, a gated call beside a question to the user, and a gated call after
\* one that needs no approval.
TwoHandlers == {h1, h2}
FourPlans == {<<"read", "read">>, <<"gated", "gated">>, <<"gated", "ask">>, <<"write", "gated">>}

\* One client that answers, without a stop of the process.
Answering == INSTANCE ToolJournal WITH Handlers <- {h1}, MaxCrashes <- 0

WorkInit ==
    /\ part \in {"execution", "answering", "varied", "long"}
    /\ IF part = "answering" THEN Answering!Init /\ kind # <<"read", "read">>
       ELSE Init /\ (part # "execution" => kind = <<"gated", "gated">>)
    /\ IF part = "varied" THEN Varied!ContextInit ELSE ContextInit

ExecutionStep ==
    /\ UNCHANGED <<part, contextVars>>
    /\ \/ part = "execution" /\ Next
       \/ part = "answering" /\ Answering!Next

ContextStep ==
    /\ UNCHANGED <<part, vars>>
    /\ \/ part = "varied" /\ Varied!ContextNext
       \/ part = "long" /\ ContextNext

WorkSpec ==
    /\ WorkInit
    /\ [][ExecutionStep \/ ContextStep]_<<part, vars, contextVars>>
    /\ LoopFairness
    /\ WF_vars(part = "answering" /\ Answering!Worker)
    /\ WF_vars(part = "answering" /\ Answering!Recover)
    /\ WF_vars(part = "answering" /\ Answering!CancelSignal)
    /\ WF_vars(part = "answering" /\ Answering!AcknowledgeStopped)

\* Without a stop of the process.
AnswersAreUsed == part = "answering" => AnswerIsUsed
=============================================================================
