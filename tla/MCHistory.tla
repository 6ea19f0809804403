----------------------------- MODULE MCHistory -----------------------------
(* The history import for TLC: one pair of a tracked region and one of a     *)
(* region that is not tracked.                                               *)
EXTENDS History

CONSTANTS a, u

MCKeys == {a, u}
MCRegions == {a}
MCMaxRecords(d) == IF d \in BadDays THEN 1 ELSE 2

=============================================================================
