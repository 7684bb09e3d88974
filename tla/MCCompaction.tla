---------------------------- MODULE MCCompaction ----------------------------
(* The context of an agent in small and large results, for TLC.             *)
EXTENDS Compaction

SmallAndLarge == {[size |-> 1, repeats |-> FALSE], [size |-> 10, repeats |-> FALSE]}
=============================================================================
