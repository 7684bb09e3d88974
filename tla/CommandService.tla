--------------------------- MODULE CommandService ---------------------------
(***************************************************************************)
(* What the durable queue promises a client, without jobs, turns, workers  *)
(* or recovery: a command is accepted once, executed at most once and not  *)
(* beside another command of its thread, and once ended it never returns,  *)
(* even when the server stops in between.                                  *)
(***************************************************************************)
CONSTANTS Threads, Requests, NoThread

VARIABLES
    state,      \* where a command is on its one way through the service
    lane        \* the thread of an accepted or executing command

vars == <<state, lane>>

In(s) == {r \in Requests : state[r] = s}

Init == /\ state = [r \in Requests |-> "unknown"]
        /\ lane = [r \in Requests |-> NoThread]

\* Accepting a timer occurrence may withdraw older ones in the same step.
Accept(r, t, S) ==
    /\ state' = [q \in Requests |-> IF q = r THEN "accepted"
                                    ELSE IF q \in S THEN "ended"
                                    ELSE state[q]]
    /\ lane' = [q \in Requests |-> IF q = r THEN t
                                   ELSE IF q \in S THEN NoThread
                                   ELSE lane[q]]

Execute(r) ==
    /\ \A q \in In("executing") : lane[q] # lane[r]
    /\ state' = [state EXCEPT ![r] = "executing"]
    /\ UNCHANGED lane

\* A worker finished, a user cancelled, or the server stopped.
End(S) ==
    /\ state' = [r \in Requests |-> IF r \in S THEN "ended" ELSE state[r]]
    /\ lane' = [r \in Requests |-> IF r \in S THEN NoThread ELSE lane[r]]

Next ==
    \/ \E r \in In("unknown"), S \in SUBSET In("accepted") :
          \E t \in Threads : Accept(r, t, S)
    \/ \E r \in In("accepted") : Execute(r)
    \/ \E S \in SUBSET (In("accepted") \cup In("executing")) : S # {} /\ End(S)

Spec == Init /\ [][Next]_vars
=============================================================================
