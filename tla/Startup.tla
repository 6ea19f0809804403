------------------------------ MODULE Startup ------------------------------
(* The life of a process: main and run.  Start-up opens the pool, migrates   *)
(* under a Postgres advisory lock, creates the region and history tables and *)
(* starts five goroutines; a signal, an error or a panic ends them all.      *)
(* Several instances, old and new binaries, start against one database.      *)
EXTENDS Integers

CONSTANTS
    Procs,        \* instances of the service
    Files(_),     \* Files(p): migrations 1..Files(p) are embedded in p's binary
    MaxFile,      \* bound: migrations of the newest binary
    MaxObject,    \* bound: tables EnsureRegionObjects and
                  \* EnsureHistoryPartitions create, in order
    MaxFaults     \* bound: failures, crashes, panics and signals

ASSUME StartupAssumption ==
    /\ {MaxFile, MaxObject, MaxFaults} \subseteq Nat
    /\ \A p \in Procs : Files(p) \in 0..MaxFile
    /\ {"free", "dead"} \cap Procs = {}

VARIABLES
    faults,     \* failures so far
    \* the database
    lock,       \* the session that holds the advisory lock; "dead" is one whose
                \* process is gone and which the server has not ended yet
    applied,    \* rows of schema_migrations
    objects,    \* run-time tables that exist
    \* each process
    pc,         \* the next call
    file,       \* the migration it is at
    object,     \* the table it is at
    cancelled,  \* a signal has cancelled the context of run
    group,      \* goroutines of the errgroup that have not returned
    err,        \* the error run or the group returns: "nil", "canceled", "fault"
    reported    \* an event was sent since the process started

dbVars == <<lock, applied, objects>>
procVars == <<pc, file, object, cancelled, group, err, reported>>
vars == <<faults, dbVars, procVars>>

Workers == {"scheduler", "maintenance", "history"}
(* drain waits for the end of the context, then becomes close: the call of   *)
(* Server.Shutdown.                                                          *)
Goroutines == Workers \cup {"http", "drain", "close"}
Migrating == {"table", "check", "apply", "unlock"}
Starting == {"open", "lock", "regions", "look", "make"} \cup (Migrating \ {"unlock"})
Labels == Starting \cup {"down", "unlock", "run", "exit"}

(* Every variable keeps its type. *)
TypeOK ==
    /\ faults \in 0..MaxFaults
    /\ lock \in Procs \cup {"free", "dead"}
    /\ applied \subseteq 1..MaxFile /\ objects \subseteq 1..MaxObject
    /\ pc \in [Procs -> Labels]
    /\ file \in [Procs -> 1..MaxFile + 1] /\ object \in [Procs -> 1..MaxObject + 1]
    /\ cancelled \in [Procs -> BOOLEAN] /\ reported \in [Procs -> BOOLEAN]
    /\ group \in [Procs -> SUBSET Goroutines]
    /\ err \in [Procs -> {"nil", "canceled", "fault"}]

Init ==
    /\ faults = 0 /\ lock = "free" /\ applied = {} /\ objects = {}
    /\ pc = [p \in Procs |-> "down"]
    /\ file = [p \in Procs |-> 1] /\ object = [p \in Procs |-> 1]
    /\ cancelled = [p \in Procs |-> FALSE] /\ reported = [p \in Procs |-> FALSE]
    /\ group = [p \in Procs |-> {}] /\ err = [p \in Procs |-> "nil"]

-----------------------------------------------------------------------------
Fault == faults < MaxFaults /\ faults' = faults + 1
Goto(p, l) == pc' = [pc EXCEPT ![p] = l]
At(p, l) == pc[p] = l /\ ~cancelled[p]

(* The container starts; config.Load and store.Open. *)
Begin(p) ==
    /\ pc[p] = "down"
    /\ Goto(p, "open")
    /\ file' = [file EXCEPT ![p] = 1] /\ object' = [object EXCEPT ![p] = 1]
    /\ cancelled' = [cancelled EXCEPT ![p] = FALSE]
    /\ reported' = [reported EXCEPT ![p] = FALSE]
    /\ group' = [group EXCEPT ![p] = {}] /\ err' = [err EXCEPT ![p] = "nil"]
    /\ UNCHANGED <<faults, dbVars>>

OpenStore(p) ==
    /\ At(p, "open") /\ Goto(p, "lock")
    /\ UNCHANGED <<faults, dbVars, file, object, cancelled, group, err, reported>>

-----------------------------------------------------------------------------
(* Migrate *)

\* mutant: the advisory lock is tried for and the answer ignored
LockIgnored(p) ==
    /\ At(p, "lock") /\ Goto(p, "table")
    /\ lock' = IF lock = "free" THEN p ELSE lock
    /\ UNCHANGED <<faults, applied, objects, file, object, cancelled, group, err, reported>>

Lock(p) ==
    /\ At(p, "lock") /\ lock = "free"
    /\ lock' = p /\ Goto(p, "table")
    /\ UNCHANGED <<faults, applied, objects, file, object, cancelled, group, err, reported>>

(* CREATE TABLE IF NOT EXISTS schema_migrations; the files are sorted. *)
MigrationsTable(p) ==
    /\ At(p, "table") /\ Goto(p, "check")
    /\ UNCHANGED <<faults, dbVars, file, object, cancelled, group, err, reported>>

\* mutant: the loop runs one past the last file
HasFileOrOneMore(p) == file[p] <= Files(p) + 1

HasFile(p) == file[p] <= Files(p)

(* Is the next file recorded?  The answer is used in a later transaction.    *)
CheckFile(p) ==
    /\ At(p, "check")
    /\ \/ ~HasFile(p) /\ Goto(p, "unlock") /\ UNCHANGED file
       \/ /\ HasFile(p) /\ file[p] \in applied
          /\ file' = [file EXCEPT ![p] = @ + 1] /\ UNCHANGED pc
       \/ /\ HasFile(p) /\ file[p] \notin applied
          /\ Goto(p, "apply") /\ UNCHANGED file
    /\ UNCHANGED <<faults, dbVars, object, cancelled, group, err, reported>>

(* The file and its row in schema_migrations commit together.  A file that   *)
(* is recorded by now fails on its bare CREATE TABLE or on the primary key.  *)
ApplyFile(p) ==
    /\ At(p, "apply") /\ file[p] \notin applied
    /\ applied' = applied \cup {file[p]}
    /\ file' = [file EXCEPT ![p] = @ + 1] /\ Goto(p, "check")
    /\ UNCHANGED <<faults, lock, objects, object, cancelled, group, err, reported>>

\* mutant: Release is trusted to free the session's lock
Release(p) ==
    /\ pc[p] = "unlock"
    /\ Goto(p, IF err[p] = "nil" THEN "regions" ELSE "exit")
    /\ UNCHANGED <<faults, dbVars, file, object, cancelled, group, err, reported>>

(* The deferred unlock runs on a background context, so also after a         *)
(* cancellation; a connection that broke has freed the lock with its session.*)
Unlock(p) ==
    /\ pc[p] = "unlock"
    /\ lock' = "free"
    /\ Goto(p, IF err[p] = "nil" THEN "regions" ELSE "exit")
    /\ UNCHANGED <<faults, applied, objects, file, object, cancelled, group, err, reported>>

-----------------------------------------------------------------------------
(* EnsureRegionObjects and EnsureHistoryPartitions: no lock is held.         *)

Regions(p) ==
    /\ At(p, "regions") /\ Goto(p, "look")
    /\ UNCHANGED <<faults, dbVars, file, object, cancelled, group, err, reported>>

(* CREATE TABLE IF NOT EXISTS looks for the name first and enters it in the  *)
(* catalogue later.                                                          *)
Look(p) ==
    /\ At(p, "look")
    /\ \/ /\ object[p] > MaxObject
          /\ Goto(p, "run")
          /\ group' = [group EXCEPT ![p] = Workers \cup {"http", "drain"}]
          /\ UNCHANGED object
       \/ /\ object[p] \in objects
          /\ object' = [object EXCEPT ![p] = @ + 1] /\ UNCHANGED <<pc, group>>
       \/ /\ object[p] <= MaxObject /\ object[p] \notin objects
          /\ Goto(p, "make") /\ UNCHANGED <<object, group>>
    /\ UNCHANGED <<faults, dbVars, file, cancelled, err, reported>>

Make(p) ==
    /\ At(p, "make") /\ object[p] \notin objects
    /\ objects' = objects \cup {object[p]}
    /\ object' = [object EXCEPT ![p] = @ + 1] /\ Goto(p, "look")
    /\ UNCHANGED <<faults, lock, applied, file, cancelled, group, err, reported>>

(* A CREATE whose name another session has entered since fails. *)
Collides(p) ==
    \/ pc[p] = "make" /\ object[p] \in objects
    \/ pc[p] = "apply" /\ file[p] \in applied

\* mutant: a migration that fails is skipped
SkipsFailedFile(p) ==
    /\ pc[p] = "apply" /\ Fault
    /\ file' = [file EXCEPT ![p] = @ + 1] /\ Goto(p, "check")
    /\ UNCHANGED <<dbVars, object, cancelled, group, err, reported>>

(* A call of the start-up fails, because the context is done, because of a   *)
(* collision or because of a fault; Migrate unlocks before it returns.       *)
CallFails(p) ==
    /\ pc[p] \in Starting
    /\ \/ /\ cancelled[p] /\ err' = [err EXCEPT ![p] = "canceled"]
          /\ UNCHANGED faults
       \/ /\ ~cancelled[p] /\ Collides(p) /\ err' = [err EXCEPT ![p] = "fault"]
          /\ UNCHANGED faults
       \/ ~cancelled[p] /\ Fault /\ err' = [err EXCEPT ![p] = "fault"]
    /\ Goto(p, IF pc[p] \in Migrating THEN "unlock" ELSE "exit")
    /\ UNCHANGED <<dbVars, file, object, cancelled, group, reported>>

(* The commit of a migration works, its acknowledgement is lost. *)
CommitUnheard(p) ==
    /\ At(p, "apply") /\ file[p] \notin applied
    /\ Fault
    /\ applied' = applied \cup {file[p]}
    /\ err' = [err EXCEPT ![p] = "fault"] /\ Goto(p, "unlock")
    /\ UNCHANGED <<lock, objects, file, object, cancelled, group, reported>>

-----------------------------------------------------------------------------
(* The errgroup *)

(* Its context ends with run's, or with the first error. *)
Done(p) == cancelled[p] \/ err[p] # "nil"
Leave(p, g) == group' = [group EXCEPT ![p] = @ \ {g}]

WorkerReturns(p, g) ==
    /\ pc[p] = "run" /\ g \in group[p] \cap Workers /\ Done(p)
    /\ Leave(p, g)
    /\ UNCHANGED <<faults, dbVars, pc, file, object, cancelled, err, reported>>

ListenFails(p) ==
    /\ pc[p] = "run" /\ "http" \in group[p] /\ "drain" \in group[p]
    /\ Fault
    /\ Leave(p, "http")
    /\ err' = [err EXCEPT ![p] = IF @ = "nil" THEN "fault" ELSE @]
    /\ UNCHANGED <<dbVars, pc, file, object, cancelled, reported>>

ShutdownBegins(p) ==
    /\ pc[p] = "run" /\ "drain" \in group[p] /\ Done(p)
    /\ group' = [group EXCEPT ![p] = (@ \ {"drain"}) \cup {"close"}]
    /\ UNCHANGED <<faults, dbVars, pc, file, object, cancelled, err, reported>>

(* ListenAndServe returns ErrServerClosed as soon as Shutdown is called. *)
HttpReturns(p) ==
    /\ pc[p] = "run" /\ "http" \in group[p] /\ "drain" \notin group[p]
    /\ Leave(p, "http")
    /\ UNCHANGED <<faults, dbVars, pc, file, object, cancelled, err, reported>>

(* Shutdown returns when the connections have drained, or with               *)
(* DeadlineExceeded after five seconds.                                      *)
ShutdownEnds(p) ==
    /\ pc[p] = "run" /\ "close" \in group[p]
    /\ Leave(p, "close")
    /\ \/ UNCHANGED <<faults, err>>
       \/ Fault /\ err' = [err EXCEPT ![p] = IF @ = "nil" THEN "fault" ELSE @]
    /\ UNCHANGED <<dbVars, pc, file, object, cancelled, reported>>

Wait(p) ==
    /\ pc[p] = "run" /\ group[p] = {}
    /\ Goto(p, "exit")
    /\ UNCHANGED <<faults, dbVars, file, object, cancelled, group, err, reported>>

(* main: an error other than Canceled is reported; the process ends. *)
Exit(p) ==
    /\ pc[p] = "exit"
    /\ Goto(p, "down")
    /\ reported' = [reported EXCEPT ![p] = @ \/ err[p] = "fault"]
    /\ UNCHANGED <<faults, dbVars, file, object, cancelled, group, err>>

\* mutant: sentry.Recover swallows the panic
PanicSwallowed(p, g) ==
    /\ pc[p] = "run" /\ g \in group[p] \cap Workers
    /\ Fault
    /\ reported' = [reported EXCEPT ![p] = TRUE] /\ Leave(p, g)
    /\ UNCHANGED <<dbVars, pc, file, object, cancelled, err>>

(* capturePanic reports and panics again, which ends the whole process. *)
Panic(p, g) ==
    /\ pc[p] = "run" /\ g \in group[p] \cap Workers
    /\ Fault
    /\ reported' = [reported EXCEPT ![p] = TRUE]
    /\ group' = [group EXCEPT ![p] = {}] /\ Goto(p, "down")
    /\ UNCHANGED <<dbVars, file, object, cancelled, err>>

Signal(p) ==
    /\ pc[p] \notin {"down", "exit"} /\ ~cancelled[p]
    /\ Fault
    /\ cancelled' = [cancelled EXCEPT ![p] = TRUE]
    /\ UNCHANGED <<dbVars, pc, file, object, group, err, reported>>

(* The process is killed.  Its session goes on until the server notices. *)
Crash(p) ==
    /\ pc[p] # "down"
    /\ Fault
    /\ Goto(p, "down") /\ group' = [group EXCEPT ![p] = {}]
    /\ lock' = IF lock = p THEN "dead" ELSE lock
    /\ UNCHANGED <<applied, objects, file, object, cancelled, err, reported>>

SessionEnds ==
    /\ lock = "dead" /\ lock' = "free"
    /\ UNCHANGED <<faults, applied, objects, procVars>>

Step(p) ==
    \/ Begin(p) \/ OpenStore(p) \/ Lock(p) \/ MigrationsTable(p) \/ CheckFile(p)
    \/ ApplyFile(p) \/ Unlock(p) \/ Regions(p) \/ Look(p) \/ Make(p)
    \/ CallFails(p) \/ CommitUnheard(p)
    \/ \E g \in Workers : WorkerReturns(p, g)
    \/ ShutdownBegins(p) \/ HttpReturns(p) \/ ShutdownEnds(p) \/ Wait(p) \/ Exit(p)

Next ==
    \/ \E p \in Procs : Step(p) \/ ListenFails(p) \/ Signal(p) \/ Crash(p)
                        \/ \E g \in Workers : Panic(p, g)
    \/ SessionEnds

(* Calls return, the container is restarted, the server ends dead sessions,  *)
(* and a waiter gets the advisory lock when it comes free: each instance     *)
(* waits in Postgres' queue, which is first come first served.               *)
Spec ==
    /\ Init /\ [][Next]_vars
    /\ \A p \in Procs : WF_vars(Step(p)) /\ SF_vars(Lock(p))
    /\ WF_vars(SessionEnds)

-----------------------------------------------------------------------------
(* Properties *)

(* What CheckFile found is still true when the migration is applied: no      *)
(* instance applies a file that another has applied meanwhile (Migrate).     *)
CheckStillHolds == \A p \in Procs : pc[p] = "apply" => file[p] \notin applied

(* A migration is never applied before an older one, whatever failed and     *)
(* whichever binary migrated first (Migrate: sorted files, return on error). *)
AppliedInOrder == \A n \in applied : 1..n \subseteq applied

(* No instance waits for ever: a start that fails, collides or is killed     *)
(* with the advisory lock leaves the others and its own next start able to   *)
(* serve (Migrate's deferred unlock).                                        *)
EveryInstanceServes == \A p \in Procs : []<>(pc[p] = "run")

(* The process lives or dies as a whole: once one goroutine of the group is  *)
(* gone, by a signal, an error or a panic, the process ends (errgroup,       *)
(* capturePanic, the shutdown goroutine).                                    *)
DiesWhole ==
    \A p \in Procs : (pc[p] = "run" /\ ~Workers \subseteq group[p]) ~> (pc[p] = "down")

=============================================================================
