--------------------------- MODULE MCCronScheduler --------------------------
(* CronScheduler with one job, due every third time the loop looks. *)
EXTENDS CronScheduler

MCPeriod == [j \in Jobs |-> 3]
=============================================================================
