------------------------------- MODULE Config -------------------------------
(* What config.Load lets through: the ranges its checks leave for the values *)
(* that the other modules take as constants.  A value out of range keeps the *)
(* service from starting.                                                    *)
EXTENDS Integers

ValidFetch(concurrency, attempts, limitFloor) ==
    concurrency >= 1 /\ attempts >= 1 /\ limitFloor >= 0

(* A reserve below the floor could never defer a region. *)
ValidBudget(reserve, floor) == floor >= 0 /\ reserve >= floor

ValidHistory(backfillDays, recentDays) == backfillDays >= 1 /\ recentDays >= 1

=============================================================================
