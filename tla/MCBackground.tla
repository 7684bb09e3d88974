---------------------------- MODULE MCBackground ----------------------------
(* What runs without a client waiting for it, for TLC: the occurrences of   *)
(* an automation, by a calendar and by webhooks, and task threads, under a  *)
(* topic's events alone, and with clients and a server stop.  A behaviour   *)
(* follows one of these parts, so the state space is their sum; the module  *)
(* that extends this one adds a part of its own.                            *)
EXTENDS Occurrences, TaskThreads

VARIABLE part

backgroundVars == <<part, automationVars, taskVars>>

\* Two rare instants, every minute, and every minute but the first, skipped
\* when missed.
ThreeCalendars ==
    {[kind |-> "timer", times |-> {1, 4}, policy |-> "coalesce"],
     [kind |-> "timer", times |-> 1..4, policy |-> "coalesce"],
     [kind |-> "timer", times |-> 2..4, policy |-> "skip"]}
BothHooks == {[kind |-> k, times |-> {}, policy |-> "skip"] : k \in {"webhook", "github"}}
FourEvents == [id : {1, 2}, body : {1, 2}]

Hooks == INSTANCE Occurrences WITH
    Triggers <- BothHooks, Events <- FourEvents, QueueLimit <- 3, Horizon <- 2,
    MaxOthers <- 0, MaxAsked <- 0, MaxStops <- 0

Chatting == INSTANCE TaskThreads WITH
    MaxOpened <- 1, MaxPerRequest <- 2, Commands <- {"message", "resume", "cancel"},
    MaxTopicEvents <- 1, MaxSent <- 1, MaxOrders <- 1, MaxClaims <- 2, MaxCrashes <- 1

\* Where a part is not followed it starts in one way and with nothing to do.
BackgroundInit ==
    /\ IF part = "hooks" THEN Hooks!AutomationInit ELSE AutomationInit
    /\ part \notin {"calendar", "hooks"} => trigger = CHOOSE g \in ThreeCalendars : TRUE
    /\ IF part = "chatting" THEN Chatting!TaskInit ELSE TaskInit

BackgroundStep ==
    /\ UNCHANGED part
    /\ \/ part = "calendar" /\ AutomationNext /\ UNCHANGED taskVars
       \/ part = "hooks" /\ Hooks!AutomationNext /\ UNCHANGED taskVars
       \/ part = "batching" /\ TaskNext /\ UNCHANGED automationVars
       \/ part = "chatting" /\ Chatting!TaskNext /\ UNCHANGED automationVars

\* The fairness of Occurrences and TaskThreads, in the part that is followed.
BackgroundFairness ==
    /\ WF_automationVars(part = "calendar" /\ Tick)
    /\ WF_automationVars(part = "calendar" /\ ServeOther)
    /\ WF_automationVars(part = "calendar" /\ Continues)
    /\ WF_taskVars(part = "batching" /\ \E j \in DOMAIN job : Claim(j))
    /\ \A t \in AllThreads :
          /\ WF_taskVars(part = "batching" /\ \E j \in JobsOn(job, t) : Ends(j))
          /\ WF_taskVars(part = "batching" /\ \E j \in JobsOn(job, t) : Finishes(j))

\* Of Occurrences, by a calendar.
DueInstantIsServed == part = "calendar" => DueIsServed

\* Of TaskThreads, under a topic's events alone.
RouterHears == part = "batching" => TasksAreHeard
=============================================================================
