---------------------------- MODULE MCScheduler ----------------------------
(* Instances of Scheduler for TLC: a hub that may retry and a region that may *)
(* not, as in region.Priority.                                                *)
EXTENDS Scheduler

MCPriority == <<1, 6>>
MCThree == <<1, 2, 6>>

=============================================================================
