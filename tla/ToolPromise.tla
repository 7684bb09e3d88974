---------------------------- MODULE ToolPromise ----------------------------
(* What the journal of a native execution promises of the model's tool     *)
(* calls, whatever crashes, cancellations and continuations happen: a call  *)
(* is written down before it may run, runs at most once, and a call whose   *)
(* outcome was not written down is never tried again.                       *)
EXTENDS Naturals

CONSTANT Calls

VARIABLES
    state,      \* what is written down of each call
    effects     \* how often each call has really run

promise == <<state, effects>>

States == {"absent", "pending", "started", "approval_required", "settled", "outcome_unknown"}
Closed == {"absent", "settled"}

TypeOK == state \in [Calls -> States] /\ effects \in [Calls -> 0..1]

Init ==
    /\ state = [c \in Calls |-> "absent"]
    /\ effects = [c \in Calls |-> 0]

Becomes(S, from, to) ==
    /\ \A c \in S : state[c] \in from
    /\ state' = [c \in Calls |-> IF c \in S THEN to ELSE state[c]]

\* The model answers with a round; everything it asked for before is closed.
Offer(S) ==
    /\ \A c \in Calls : state[c] \in Closed
    /\ Becomes(S, {"absent"}, "pending")
    /\ UNCHANGED effects

Start(S) == Becomes(S, {"pending", "approval_required"}, "started") /\ UNCHANGED effects

Run(c) ==
    /\ state[c] = "started" /\ effects[c] = 0
    /\ effects' = [effects EXCEPT ![c] = 1]
    /\ UNCHANGED state

\* Only of a call that has not run.
AskFirst(c) ==
    /\ effects[c] = 0
    /\ Becomes({c}, {"started"}, "approval_required")
    /\ UNCHANGED effects

Settle(c) == Becomes({c}, {"started"}, "settled") /\ UNCHANGED effects

\* Declined, skipped or closed without having run.
Refuse(S) ==
    /\ \A c \in S : effects[c] = 0
    /\ Becomes(S, {"pending", "approval_required"}, "settled")
    /\ UNCHANGED effects

Lose(S) == Becomes(S, {"started"}, "outcome_unknown") /\ UNCHANGED effects

Next ==
    \/ \E S \in SUBSET Calls : Offer(S) \/ Start(S) \/ Refuse(S) \/ Lose(S)
    \/ \E c \in Calls : Run(c) \/ AskFirst(c) \/ Settle(c)

Spec == Init /\ [][Next]_promise
=============================================================================
