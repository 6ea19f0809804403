--------------------------- MODULE StartupProofs ---------------------------
(* For any number of instances, binaries with any number of migrations and   *)
(* any number of failures, signals, panics and kills: one instance migrates  *)
(* at a time, on an answer that is still true, and in order.                 *)
EXTENDS Startup, TLAPS

(* Whoever is between lock and unlock holds the advisory lock. *)
OneMigrates == \A p \in Procs : pc[p] \in Migrating => lock = p

(* What a migrating instance knows of the file it is at. *)
Progress ==
    \A p \in Procs :
        /\ pc[p] \in {"open", "lock", "table"} => file[p] = 1
        /\ pc[p] \in {"check", "apply"} => 1..(file[p] - 1) \subseteq applied
        /\ pc[p] = "apply" => HasFile(p)
        /\ pc[p] = "make" => object[p] <= MaxObject

StartupInv == TypeOK /\ OneMigrates /\ Progress /\ CheckStillHolds /\ AppliedInOrder

(* The labels as sets. *)
LEMMA LabelFacts ==
  /\ Migrating = {"table", "check", "apply", "unlock"}
  /\ Starting = {"open", "lock", "regions", "look", "make", "table", "check", "apply"}
  /\ Labels = Starting \cup {"down", "unlock", "run", "exit"}
  BY DEF Migrating, Starting, Labels

(* Init establishes the invariant. *)
LEMMA StartupInit == Init => StartupInv
  BY StartupAssumption, LabelFacts
  DEF Init, StartupInv, TypeOK, OneMigrates, Progress, CheckStillHolds, AppliedInOrder

(* Every step keeps the types.  The counters stay in range because a file is *)
(* applied only if the binary has it, and a table made only if there is one. *)
LEMMA StartupType == StartupInv /\ [Next]_vars => TypeOK'
  <1> SUFFICES ASSUME StartupInv, [Next]_vars PROVE TypeOK'
    OBVIOUS
  <1> USE StartupAssumption, LabelFacts DEF StartupInv, TypeOK, Goto, At, Fault
  <1>1. ASSUME NEW p \in Procs, Begin(p) PROVE TypeOK'
    BY <1>1 DEF Begin, dbVars
  <1>2. ASSUME NEW p \in Procs, OpenStore(p) PROVE TypeOK'
    BY <1>2 DEF OpenStore, dbVars
  <1>3. ASSUME NEW p \in Procs, Lock(p) PROVE TypeOK'
    BY <1>3 DEF Lock
  <1>4. ASSUME NEW p \in Procs, MigrationsTable(p) PROVE TypeOK'
    BY <1>4 DEF MigrationsTable, dbVars
  <1>5. ASSUME NEW p \in Procs, CheckFile(p) PROVE TypeOK'
    BY <1>5 DEF CheckFile, HasFile, dbVars
  <1>6. ASSUME NEW p \in Procs, ApplyFile(p) PROVE TypeOK'
    <2>1. file[p] \in 1..MaxFile
      BY <1>6 DEF ApplyFile, Progress, HasFile
    <2>2. applied' \subseteq 1..MaxFile
      BY <1>6, <2>1 DEF ApplyFile
    <2>3. file[p] + 1 \in 1..MaxFile + 1
      BY <2>1
    <2>4. file' \in [Procs -> 1..MaxFile + 1]
      BY <1>6, <2>3 DEF ApplyFile
    <2> QED
      BY <1>6, <2>2, <2>4 DEF ApplyFile
  <1>7. ASSUME NEW p \in Procs, Unlock(p) PROVE TypeOK'
    BY <1>7 DEF Unlock
  <1>8. ASSUME NEW p \in Procs, Regions(p) PROVE TypeOK'
    BY <1>8 DEF Regions, dbVars
  <1>9. ASSUME NEW p \in Procs, Look(p) PROVE TypeOK'
    BY <1>9 DEF Look, dbVars, Goroutines
  <1>10. ASSUME NEW p \in Procs, Make(p) PROVE TypeOK'
    <2>1. object[p] \in 1..MaxObject
      BY <1>10 DEF Make, Progress
    <2>2. objects' \subseteq 1..MaxObject
      BY <1>10, <2>1 DEF Make
    <2>3. object[p] + 1 \in 1..MaxObject + 1
      BY <2>1
    <2>4. object' \in [Procs -> 1..MaxObject + 1]
      BY <1>10, <2>3 DEF Make
    <2> QED
      BY <1>10, <2>2, <2>4 DEF Make
  <1>11. ASSUME NEW p \in Procs, CallFails(p) PROVE TypeOK'
    BY <1>11 DEF CallFails, dbVars
  <1>12. ASSUME NEW p \in Procs, CommitUnheard(p) PROVE TypeOK'
    <2>1. file[p] \in 1..MaxFile
      BY <1>12 DEF CommitUnheard, Progress, HasFile
    <2>2. applied' \subseteq 1..MaxFile /\ file' \in [Procs -> 1..MaxFile + 1]
      BY <1>12, <2>1 DEF CommitUnheard
    <2> QED
      BY <1>12, <2>2 DEF CommitUnheard
  <1>13. ASSUME NEW p \in Procs, NEW g \in Workers, WorkerReturns(p, g) PROVE TypeOK'
    BY <1>13 DEF WorkerReturns, Leave, dbVars
  <1>14. ASSUME NEW p \in Procs, ShutdownBegins(p) PROVE TypeOK'
    BY <1>14 DEF ShutdownBegins, Goroutines, dbVars
  <1>15. ASSUME NEW p \in Procs, HttpReturns(p) PROVE TypeOK'
    BY <1>15 DEF HttpReturns, Leave, dbVars
  <1>16. ASSUME NEW p \in Procs, ShutdownEnds(p) PROVE TypeOK'
    BY <1>16 DEF ShutdownEnds, Leave, dbVars
  <1>17. ASSUME NEW p \in Procs, Wait(p) PROVE TypeOK'
    BY <1>17 DEF Wait, dbVars
  <1>18. ASSUME NEW p \in Procs, Exit(p) PROVE TypeOK'
    BY <1>18 DEF Exit, dbVars
  <1>19. ASSUME NEW p \in Procs, ListenFails(p) PROVE TypeOK'
    BY <1>19 DEF ListenFails, Leave, dbVars
  <1>20. ASSUME NEW p \in Procs, Signal(p) PROVE TypeOK'
    BY <1>20 DEF Signal, dbVars
  <1>21. ASSUME NEW p \in Procs, Crash(p) PROVE TypeOK'
    BY <1>21 DEF Crash
  <1>22. ASSUME NEW p \in Procs, NEW g \in Workers, Panic(p, g) PROVE TypeOK'
    BY <1>22 DEF Panic, dbVars
  <1>23. CASE SessionEnds
    BY <1>23 DEF SessionEnds, procVars
  <1>24. CASE UNCHANGED vars
    BY <1>24 DEF vars, dbVars, procVars
  <1>25. ASSUME NEW p \in Procs, Step(p) PROVE TypeOK'
    BY <1>25, <1>1, <1>2, <1>3, <1>4, <1>5, <1>6, <1>7, <1>8, <1>9, <1>10, <1>11,
       <1>12, <1>13, <1>14, <1>15, <1>16, <1>17, <1>18 DEF Step
  <1> QED
    BY <1>25, <1>19, <1>20, <1>21, <1>22, <1>23, <1>24 DEF Next

(* What the lock protects. *)
Guarded == OneMigrates /\ Progress /\ CheckStillHolds /\ AppliedInOrder

(* Every step keeps what the lock protects. *)
LEMMA StartupGuarded == StartupInv /\ TypeOK' /\ [Next]_vars => Guarded'
  <1> SUFFICES ASSUME StartupInv, TypeOK', [Next]_vars PROVE Guarded'
    OBVIOUS
  <1> USE StartupAssumption, LabelFacts
      DEF StartupInv, TypeOK, Guarded, OneMigrates, Progress, CheckStillHolds,
          AppliedInOrder, HasFile, Goto, At
  <1>1. ASSUME NEW p \in Procs, Begin(p) PROVE Guarded'
    BY <1>1 DEF Begin, dbVars
  <1>2. ASSUME NEW p \in Procs, OpenStore(p) PROVE Guarded'
    BY <1>2 DEF OpenStore, dbVars
  <1>3. ASSUME NEW p \in Procs, Lock(p) PROVE Guarded'
    BY <1>3 DEF Lock, dbVars
  <1>4. ASSUME NEW p \in Procs, MigrationsTable(p) PROVE Guarded'
    BY <1>4 DEF MigrationsTable, dbVars
  <1>5. ASSUME NEW p \in Procs, CheckFile(p) PROVE Guarded'
    BY <1>5 DEF CheckFile, dbVars
  <1>6. ASSUME NEW p \in Procs, ApplyFile(p) PROVE Guarded'
    BY <1>6 DEF ApplyFile, dbVars
  <1>7. ASSUME NEW p \in Procs, Unlock(p) PROVE Guarded'
    BY <1>7 DEF Unlock, dbVars
  <1>8. ASSUME NEW p \in Procs, Regions(p) PROVE Guarded'
    BY <1>8 DEF Regions, dbVars
  <1>9. ASSUME NEW p \in Procs, Look(p) PROVE Guarded'
    BY <1>9 DEF Look, dbVars
  <1>10. ASSUME NEW p \in Procs, Make(p) PROVE Guarded'
    BY <1>10 DEF Make, dbVars
  <1>11. ASSUME NEW p \in Procs, CallFails(p) PROVE Guarded'
    BY <1>11 DEF CallFails, dbVars
  <1>12. ASSUME NEW p \in Procs, CommitUnheard(p) PROVE Guarded'
    <2>1. lock = p /\ \A q \in Procs \ {p} : pc[q] \notin Migrating
      BY <1>12 DEF CommitUnheard
    <2>2. applied' = applied \cup {file[p]} /\ 1..(file[p] - 1) \subseteq applied
      BY <1>12 DEF CommitUnheard
    <2>3. ASSUME NEW n \in applied' PROVE 1..n \subseteq applied'
      <3>1. file[p] \in Int
        OBVIOUS
      <3>2. CASE n \in applied
        BY <2>2, <3>2
      <3>3. CASE n = file[p]
        BY <2>2, <3>1, <3>3
      <3> QED
        BY <2>2, <3>2, <3>3
    <2> QED
      BY <1>12, <2>1, <2>2, <2>3 DEF CommitUnheard
  <1>13. ASSUME NEW p \in Procs, NEW g \in Workers, WorkerReturns(p, g) PROVE Guarded'
    BY <1>13 DEF WorkerReturns, dbVars
  <1>14. ASSUME NEW p \in Procs, ShutdownBegins(p) PROVE Guarded'
    BY <1>14 DEF ShutdownBegins, dbVars
  <1>15. ASSUME NEW p \in Procs, HttpReturns(p) PROVE Guarded'
    BY <1>15 DEF HttpReturns, dbVars
  <1>16. ASSUME NEW p \in Procs, ShutdownEnds(p) PROVE Guarded'
    BY <1>16 DEF ShutdownEnds, dbVars
  <1>17. ASSUME NEW p \in Procs, Wait(p) PROVE Guarded'
    BY <1>17 DEF Wait, dbVars
  <1>18. ASSUME NEW p \in Procs, Exit(p) PROVE Guarded'
    BY <1>18 DEF Exit, dbVars
  <1>19. ASSUME NEW p \in Procs, ListenFails(p) PROVE Guarded'
    BY <1>19 DEF ListenFails, dbVars
  <1>20. ASSUME NEW p \in Procs, Signal(p) PROVE Guarded'
    BY <1>20 DEF Signal, dbVars
  <1>21. ASSUME NEW p \in Procs, Crash(p) PROVE Guarded'
    BY <1>21 DEF Crash, dbVars
  <1>22. ASSUME NEW p \in Procs, NEW g \in Workers, Panic(p, g) PROVE Guarded'
    BY <1>22 DEF Panic, dbVars
  <1>23. CASE SessionEnds
    BY <1>23 DEF SessionEnds, procVars
  <1>24. CASE UNCHANGED vars
    BY <1>24 DEF vars, dbVars, procVars
  <1>25. ASSUME NEW p \in Procs, Step(p) PROVE Guarded'
    BY <1>25, <1>1, <1>2, <1>3, <1>4, <1>5, <1>6, <1>7, <1>8, <1>9, <1>10, <1>11, <1>12, <1>13, <1>14, <1>15, <1>16, <1>17, <1>18 DEF Step
  <1> QED
    BY <1>25, <1>19, <1>20, <1>21, <1>22, <1>23, <1>24 DEF Next

-----------------------------------------------------------------------------
(* The invariant of the start-up holds in every state. *)
LEMMA StartupInvariant == Spec => []StartupInv
  <1>1. StartupInv /\ [Next]_vars => StartupInv'
    BY StartupType, StartupGuarded DEF StartupInv, Guarded
  <1> QED
    BY <1>1, StartupInit, PTL DEF Spec

(* Every variable of the start-up keeps its type (main, run, Migrate).       *)
THEOREM StartupTypeCorrect == Spec => []TypeOK
  <1>1. StartupInv => TypeOK
    BY DEF StartupInv
  <1> QED
    BY <1>1, StartupInvariant, PTL

(* The answer that a migration has not run is still true when it is applied, *)
(* however many instances start at once (Migrate's advisory lock).           *)
THEOREM NoMigrationTwice == Spec => []CheckStillHolds
  <1>1. StartupInv => CheckStillHolds
    BY DEF StartupInv
  <1> QED
    BY <1>1, StartupInvariant, PTL

(* Migrations are applied without gaps, whichever binaries start and         *)
(* whatever fails (Migrate's sorted loop that returns on the first error).   *)
THEOREM MigrationsInOrder == Spec => []AppliedInOrder
  <1>1. StartupInv => AppliedInOrder
    BY DEF StartupInv
  <1> QED
    BY <1>1, StartupInvariant, PTL

=============================================================================
