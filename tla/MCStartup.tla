----------------------------- MODULE MCStartup -----------------------------
(* The start-up for TLC: an old binary with one migration and a new one with *)
(* two.                                                                      *)
EXTENDS Startup

CONSTANTS old, new

MCProcs == {old, new}
MCFiles(p) == IF p = old THEN 1 ELSE 2

=============================================================================
