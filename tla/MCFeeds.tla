------------------------------ MODULE MCFeeds ------------------------------
(* Both feeds for TLC, and what runs in the background, see MCBackground.   *)
(* They share nothing, so a behaviour is one of either: the state space is  *)
(* their sum, and what a run shows of one holds of it beside the others.    *)
EXTENDS AccountFeed, RunReplay, MCBackground

FeedInit ==
    /\ part \in {"account", "run", "calendar", "hooks", "batching", "chatting"}
    /\ Init /\ RunInit /\ BackgroundInit

AccountStep == part = "account" /\ Next /\ UNCHANGED <<runVars, backgroundVars>>
RunStep == part = "run" /\ RunNext /\ UNCHANGED <<vars, backgroundVars>>
OtherStep == BackgroundStep /\ UNCHANGED <<vars, runVars>>

FeedSpec ==
    /\ FeedInit
    /\ [][AccountStep \/ RunStep \/ OtherStep]_<<vars, runVars, backgroundVars>>
    /\ Fairness /\ BackgroundFairness

OneTarget == [q \in Requests |-> "group"]
=============================================================================
