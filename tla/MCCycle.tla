------------------------------ MODULE MCCycle ------------------------------
(* Instances of Cycle for TLC: three snapshots, one of which has fewer pages *)
(* than its predecessors, and a channel shorter than a page set.             *)
EXTENDS Cycle

MCTwoPages == <<2, 2>>

MCPagesOf == <<2, 2, 1>>

=============================================================================
