----------------------------- MODULE MCJobQueue -----------------------------
(* Instances of JobQueue for TLC.                                           *)
EXTENDS JobQueueService, JobQueueClaims

CONSTANT t1

OneThread == {t1}
NoAutomations == {}

Everything == AllCommands
=============================================================================
