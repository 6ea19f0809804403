---------------------------- MODULE MCCycleCrash ----------------------------
(* An instance of CycleCrash for TLC: two snapshots of two pages.            *)
EXTENDS CycleCrash

MCTwoPages == <<2, 2>>

=============================================================================
