---------------------------- MODULE MCGroupTurn ----------------------------
(* The turn of a group for TLC, and beside it the computer that two turns   *)
(* share.  A behaviour follows one of them.                                 *)
EXTENDS GroupTurn, ComputerUse

VARIABLE part       \* what a behaviour follows

\* The turns of an ACP agent and of a native one; of two native agents over a
\* server stop; and of one ACP agent beside a desktop, over more generations.
Stopping == INSTANCE ComputerUse WITH AcpTurns <- {}, MaxCrashes <- 1
Watched == INSTANCE ComputerUse WITH Turns <- {"x"}, MaxGen <- 3, MaxLeases <- 1

PartsInit ==
    /\ part \in {"turn", "sharing", "stopping", "watched"}
    /\ Init /\ (part # "turn" => group = CHOOSE g \in Groups : TRUE)
    /\ IF part = "watched" THEN Watched!UseInit
       ELSE UseInit /\ (part = "turn" => ~managed /\ computer.status = "stopped")

TurnStep == part = "turn" /\ Next /\ UNCHANGED <<part, useVars>>
ComputerStep ==
    /\ UNCHANGED <<part, vars>>
    /\ \/ part = "sharing" /\ UseNext
       \/ part = "stopping" /\ Stopping!UseNext
       \/ part = "watched" /\ Watched!UseNext

PartsSpec ==
    /\ PartsInit
    /\ [][TurnStep \/ ComputerStep]_<<part, vars, useVars>>
    /\ WF_vars(part = "turn" /\ (Scheduling \/ Replying))

\* A turn that is run ends.
BegunTurnEnds == part = "turn" => TurnEnds
-----------------------------------------------------------------------------
ThreeMembers == 1..3

Plain == [mode |-> "bounded", moderated |-> FALSE, ready |-> FALSE, decides |-> FALSE,
          shape |-> "mesh", roles |-> {}, wide |-> TRUE, direct |-> FALSE,
          response |-> [a \in Members |-> "default"], mentions |-> <<>>, steps |-> 0,
          perAgent |-> 1, hops |-> 0, calls |-> 0, consec |-> 2, failures |-> 3, tokens |-> 4,
          ceiling |-> 0, usage |-> {0}, leavers |-> 1]

\* Members who ask each other; a moderator with a decision model, and one who
\* is not asked often enough while two members leave; an automatic turn round
\* a ring, which only its budgets end; a ring that runs out of tokens and whose
\* first member speaks only when named; a direct chat that an automation's
\* snapshot limits.
SixGroups ==
    {[Plain EXCEPT !.perAgent = 2, !.hops = 2, !.steps = 4, !.wide = FALSE,
                   !.mentions = <<2, 1>>],
     [Plain EXCEPT !.moderated = TRUE, !.ready = TRUE, !.calls = 1, !.hops = 2,
                   !.decides = TRUE, !.shape = "led", !.usage = {1}],
     [Plain EXCEPT !.moderated = TRUE, !.ready = TRUE, !.calls = 1, !.leavers = 2],
     [Plain EXCEPT !.mode = "automatic", !.decides = TRUE, !.moderated = TRUE, !.ready = TRUE,
                   !.perAgent = 2, !.steps = 3, !.hops = 1, !.shape = "ring",
                   !.mentions = <<3>>, !.leavers = 0],
     [Plain EXCEPT !.shape = "ring", !.mentions = <<2>>, !.tokens = 2, !.usage = {0, 1},
                   !.response = [a \in Members |-> IF a = 1 THEN "explicit_only"
                                                   ELSE "default"]],
     [Plain EXCEPT !.direct = TRUE, !.ceiling = 2]}
=============================================================================
