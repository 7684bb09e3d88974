---------------------------- MODULE MCExecution ----------------------------
(* One native execution with one handler and two gated calls, for TLC.      *)
EXTENDS ToolJournal

CONSTANT h1

OneHandler == {h1}
GatedPlans == {<<"gated", "gated">>}
=============================================================================
