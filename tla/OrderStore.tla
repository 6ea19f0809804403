----------------------------- MODULE OrderStore -----------------------------
(* One region's partition of market.orders under the locks Postgres takes on *)
(* it: consumers read it, the cycle applies a delta or rebuilds it from the  *)
(* staging table, and Maintenance analyses it and prunes ingest_log.         *)
EXTENDS Delta

CONSTANTS
    Readers,    \* consumer sessions
    Slow,       \* those that may keep their transaction open for ever
    Frozen,     \* those whose transaction keeps its first snapshot
    Stagings,   \* the snapshots a sweep may stage, as sequences of rows
    MaxFaults   \* bound: failed statements and drifts

ASSUME StoreAssumption ==
    /\ Slow \subseteq Readers /\ Frozen \subseteq Readers /\ MaxFaults \in Nat
    /\ Stagings \subseteq Seq(Row) /\ <<>> \notin Stagings
    /\ Readers \cap {"cycle", "maint"} = {}

VARIABLES
    faults,
    held,      \* the lock mode each session holds on the partition
    queue,     \* sessions that wait for it, first come first served
    live,      \* committed rows of the partition
    work,      \* rows as the cycle's open transaction has them
    staging,   \* rows of the staging table
    drifted,   \* the last delta did not do what it should
    pc,        \* the cycle's next call
    first,     \* the region held nothing when the cycle chose its path
    mpc,       \* the maintenance goroutine's next call
    old,       \* ingest_log holds rows past the retention
    firing,    \* Maintenance.reports
    view,      \* the snapshot of each Frozen reader's open transaction
    loaded     \* history: the region has been loaded

lockVars == <<held, queue>>
dataVars == <<live, work, staging, drifted>>
maintVars == <<mpc, old, firing>>
readVars == <<view, loaded>>
cycleVars == <<pc, first>>
vars == <<faults, lockVars, dataVars, cycleVars, maintVars, readVars>>

Sessions == Readers \cup {"cycle", "maint"}
Modes == {"none", "share", "row", "analyze", "exclusive"}

(* Every variable keeps its type. *)
TypeOK ==
    /\ faults \in 0..MaxFaults
    /\ held \in [Sessions -> Modes]
    /\ queue \in Seq([who : Sessions, mode : Modes])
    /\ staging \in Stagings \cup {<<>>}
    /\ DOMAIN live \subseteq Orders /\ DOMAIN work \subseteq Orders
    /\ pc \in {"idle", "staged", "delta", "verify", "resync", "insert", "commit"}
    /\ mpc \in {"start", "select", "orders", "history", "prune"}
    /\ {first, drifted, old, loaded} \subseteq BOOLEAN
    /\ firing \subseteq {"prune", "analyze"}
    /\ DOMAIN view \subseteq Frozen

Init ==
    /\ faults = 0
    /\ held = [s \in Sessions |-> "none"] /\ queue = <<>>
    /\ live = Empty /\ work = Empty /\ staging = <<>> /\ drifted = FALSE
    /\ pc = "idle" /\ first = FALSE /\ mpc = "start" /\ old = FALSE /\ firing = {}
    /\ view = Empty /\ loaded = FALSE

-----------------------------------------------------------------------------
(* Postgres *)

(* ACCESS EXCLUSIVE conflicts with every mode, SHARE UPDATE EXCLUSIVE with   *)
(* itself.  ACCESS SHARE and ROW EXCLUSIVE go together.                      *)
Conflict(m, n) ==
    /\ "none" \notin {m, n}
    /\ "exclusive" \in {m, n} \/ (m = "analyze" /\ n = "analyze")

(* A request waits for the locks held and for the requests before it. *)
CanGrant(s, mode, ahead) ==
    /\ \A t \in Sessions \ {s} : ~Conflict(mode, held[t])
    /\ \A i \in DOMAIN ahead : ~Conflict(mode, ahead[i].mode)

Waiting(s) == \E i \in DOMAIN queue : queue[i].who = s
Without(i) == SubSeq(queue, 1, i - 1) \o SubSeq(queue, i + 1, Len(queue))
Dequeue(s) ==
    IF Waiting(s) THEN Without(CHOOSE i \in DOMAIN queue : queue[i].who = s) ELSE queue

(* s asks for the lock. *)
Request(s, mode) ==
    IF CanGrant(s, mode, queue)
    THEN held' = [held EXCEPT ![s] = mode] /\ UNCHANGED queue
    ELSE queue' = Append(queue, [who |-> s, mode |-> mode]) /\ UNCHANGED held

IsNext(i) == CanGrant(queue[i].who, queue[i].mode, SubSeq(queue, 1, i - 1))

(* A waiter whose turn has come gets the lock at once. *)
Grant(s) ==
    /\ \E i \in DOMAIN queue :
          /\ queue[i].who = s /\ IsNext(i)
          /\ held' = [held EXCEPT ![s] = queue[i].mode]
    /\ queue' = Dequeue(s)
    /\ UNCHANGED <<faults, dataVars, cycleVars, maintVars, readVars>>

Unlock(s) == held' = [held EXCEPT ![s] = "none"] /\ queue' = Dequeue(s)
Fault == faults < MaxFaults /\ faults' = faults + 1

-----------------------------------------------------------------------------
(* Consumers *)

(* What a statement that starts now sees of the partition. *)
Now == [rows |-> live, drifted |-> drifted, loaded |-> loaded, cut |-> FALSE]

(* A consumer that has raised its isolation level takes the snapshot of its  *)
(* transaction before it first asks for the partition.                       *)
Begin(r) ==
    /\ r \in Frozen \ DOMAIN view
    /\ view' = [q \in DOMAIN view \cup {r} |-> IF q = r THEN Now ELSE view[q]]
    /\ UNCHANGED <<faults, lockVars, dataVars, cycleVars, maintVars, loaded>>

Ask(r) ==
    /\ held[r] = "none" /\ ~Waiting(r)
    /\ r \in Frozen => r \in DOMAIN view
    /\ Request(r, "share")
    /\ UNCHANGED <<faults, dataVars, cycleVars, maintVars, readVars>>

(* What a consumer that holds its lock reads: the snapshot its transaction   *)
(* keeps, or at the default isolation level one taken after the lock.        *)
Sees(r) == IF r \in DOMAIN view THEN view[r] ELSE Now

(* TRUNCATE is not MVCC-safe: when it commits, an older snapshot that is     *)
(* still to be used shows the partition empty.                               *)
CutSnapshots ==
    view' = [r \in DOMAIN view |->
                [rows |-> Empty, drifted |-> FALSE, loaded |-> TRUE, cut |-> TRUE]]

EndRead(r) ==
    /\ held[r] = "share"
    /\ Unlock(r)
    /\ view' = [q \in DOMAIN view \ {r} |-> view[q]]
    /\ UNCHANGED <<faults, dataVars, cycleVars, maintVars, loaded>>

-----------------------------------------------------------------------------
(* The cycle *)

Goto(l) == pc' = l

(* CopyOrders has replaced the staging table. *)
Stage ==
    /\ pc = "idle"
    /\ staging' \in Stagings
    /\ Goto("staged")
    /\ UNCHANGED <<faults, lockVars, live, work, drifted, first, maintVars, readVars>>

\* mutant: a region whose checksum agrees already is left alone
ChoosePathIfDiffers ==
    /\ pc = "staged"
    /\ first' = (live = Empty)
    /\ \/ live = Empty /\ Goto("resync") /\ Request("cycle", "exclusive")
       \/ /\ live # Empty /\ Goto("delta") /\ Request("cycle", "row")
          /\ \A s \in Dedups(staging) : Checksum(live) # Checksum(s)
       \/ /\ live # Empty /\ \E s \in Dedups(staging) : Checksum(live) = Checksum(s)
          /\ Goto("idle") /\ UNCHANGED lockVars
    /\ UNCHANGED <<faults, dataVars, maintVars, readVars>>

(* RegionRowCount decides: a region that holds nothing is rebuilt.  Either   *)
(* way the statement that writes asks for its lock.                          *)
ChoosePath ==
    /\ pc = "staged"
    /\ first' = (live = Empty)
    /\ \/ live = Empty /\ Goto("resync") /\ Request("cycle", "exclusive")
       \/ live # Empty /\ Goto("delta") /\ Request("cycle", "row")
    /\ UNCHANGED <<faults, dataVars, maintVars, readVars>>

(* The commit is acknowledged and Run goes on; or it is not, and Run fails.  *)
Acknowledged(next) == Goto(next) /\ UNCHANGED faults
Unheard == Goto("idle") /\ Fault

(* ApplyDelta: one statement, then the commit. *)
ApplyDelta ==
    /\ pc = "delta" /\ held["cycle"] = "row"
    /\ \E s \in Dedups(staging) : live' = Applied(live, s)
    /\ drifted' = FALSE
    /\ Unlock("cycle") /\ (Acknowledged("verify") \/ Unheard)
    /\ UNCHANGED <<work, staging, first, maintVars, readVars>>

(* The fault the guard is for: a row of the partition comes out wrong. *)
ApplyDrifts ==
    /\ pc = "delta" /\ held["cycle"] = "row" /\ Fault
    /\ \E s \in Dedups(staging) : \E o \in DOMAIN s, c \in Contents :
          live' = [Applied(live, s) EXCEPT ![o] = c]
    /\ drifted' = TRUE
    /\ Unlock("cycle") /\ Goto("verify")
    /\ UNCHANGED <<work, staging, first, maintVars, readVars>>

(* VerifyRegion deduplicates staging anew; on a mismatch Run resyncs.  Its   *)
(* reads, like RegionRowCount's, conflict with no lock but a TRUNCATE's.     *)
VerifyRegion ==
    /\ pc = "verify"
    /\ \E s \in Dedups(staging) :
          IF Checksum(live) = Checksum(s)
          THEN Goto("idle") /\ UNCHANGED lockVars
          ELSE Goto("resync") /\ Request("cycle", "exclusive")
    /\ first' = FALSE
    /\ UNCHANGED <<faults, dataVars, maintVars, readVars>>

\* mutant: TRUNCATE commits on its own
TruncateNow ==
    /\ pc = "resync" /\ held["cycle"] = "exclusive"
    /\ work' = Empty /\ live' = Empty
    /\ Goto("insert")
    /\ UNCHANGED <<faults, lockVars, staging, drifted, first, maintVars, readVars>>

\* mutant: the rebuild does not wait for the consumers
TruncateAtOnce ==
    /\ pc = "resync"
    /\ work' = Empty
    /\ Goto("insert")
    /\ UNCHANGED <<faults, lockVars, live, staging, drifted, first, maintVars, readVars>>

Truncate ==
    /\ pc = "resync" /\ held["cycle"] = "exclusive"
    /\ work' = Empty
    /\ Goto("insert")
    /\ UNCHANGED <<faults, lockVars, live, staging, drifted, first, maintVars, readVars>>

InsertStaged ==
    /\ pc = "insert"
    /\ work' \in Dedups(staging)
    /\ Goto("commit")
    /\ UNCHANGED <<faults, lockVars, live, staging, drifted, first, maintVars, readVars>>

(* A first load is verified like a delta, a repair is not. *)
CommitResync ==
    /\ pc = "commit"
    /\ live' = work /\ work' = Empty /\ drifted' = FALSE /\ loaded' = TRUE
    /\ CutSnapshots
    /\ Unlock("cycle")
    /\ Acknowledged(IF first THEN "verify" ELSE "idle") \/ Unheard
    /\ UNCHANGED <<staging, first, maintVars>>

(* A statement fails or the process dies: the transaction is rolled back.    *)
Rollback ==
    /\ work' = Empty
    /\ Unlock("cycle") /\ Goto("idle")
    /\ UNCHANGED <<live, staging, drifted, first, maintVars, readVars>>

ApplyFails ==
    /\ pc \in {"delta", "verify", "resync", "insert", "commit"}
    /\ Fault /\ Rollback

\* mutant: no lock_timeout is set
NeverTimesOut ==
    /\ pc = "resync" /\ Waiting("cycle") /\ FALSE
    /\ Rollback /\ UNCHANGED faults

(* lock_timeout: TRUNCATE gives up after waiting five seconds. *)
LockTimeout ==
    /\ pc = "resync"
    /\ \E i \in DOMAIN queue : queue[i].who = "cycle" /\ ~IsNext(i)
    /\ Rollback /\ UNCHANGED faults

-----------------------------------------------------------------------------
(* Maintenance *)

MGoto(l) == mpc' = l
Ends(job) == firing' = firing \ {job}
Note(job) == firing' = firing \cup {job}

(* Rows of ingest_log pass the retention. *)
Age ==
    /\ ~old /\ old' = TRUE
    /\ UNCHANGED <<faults, lockVars, dataVars, cycleVars, mpc, firing, readVars>>

(* analyze: at the start and on its tick.  ANALYZE of the parent locks the   *)
(* partition and waits without a timeout.                                    *)
Analyze ==
    /\ mpc \in {"start", "select"}
    /\ Request("maint", "analyze") /\ MGoto("orders")
    /\ UNCHANGED <<faults, dataVars, cycleVars, old, firing, readVars>>

AnalyzeOrders ==
    /\ mpc = "orders" /\ held["maint"] = "analyze"
    /\ Unlock("maint") /\ MGoto("history")
    /\ UNCHANGED <<faults, dataVars, cycleVars, old, firing, readVars>>

AnalyzeHistory ==
    /\ mpc = "history"
    /\ MGoto("select") /\ Ends("analyze")
    /\ UNCHANGED <<faults, lockVars, dataVars, cycleVars, old, readVars>>

AnalyzeFails ==
    /\ mpc \in {"orders", "history"} /\ Fault
    /\ Unlock("maint") /\ MGoto("select") /\ Note("analyze")
    /\ UNCHANGED <<dataVars, cycleVars, old, readVars>>

PruneTick ==
    /\ mpc = "select" /\ MGoto("prune")
    /\ UNCHANGED <<faults, lockVars, dataVars, cycleVars, old, firing, readVars>>

\* mutant: the age is compared the wrong way round
PruneNothing ==
    /\ mpc = "prune"
    /\ MGoto("select") /\ Ends("prune")
    /\ UNCHANGED <<faults, lockVars, dataVars, cycleVars, old, readVars>>

Prune ==
    /\ mpc = "prune"
    /\ old' = FALSE
    /\ MGoto("select") /\ Ends("prune")
    /\ UNCHANGED <<faults, lockVars, dataVars, cycleVars, readVars>>

\* mutant: a failed job ends the goroutine
PruneFailsReturns ==
    /\ mpc = "prune" /\ Fault
    /\ MGoto("stopped") /\ Note("prune")
    /\ UNCHANGED <<lockVars, dataVars, cycleVars, old, readVars>>

(* A failed job is noted and waits for the next tick. *)
PruneFails ==
    /\ mpc = "prune" /\ Fault
    /\ MGoto("select") /\ Note("prune")
    /\ UNCHANGED <<lockVars, dataVars, cycleVars, old, readVars>>

-----------------------------------------------------------------------------
CycleStep ==
    \/ Stage \/ ChoosePath \/ ApplyDelta \/ ApplyDrifts \/ VerifyRegion
    \/ Truncate \/ InsertStaged \/ CommitResync \/ ApplyFails \/ LockTimeout
MaintStep ==
    \/ Analyze \/ AnalyzeOrders \/ AnalyzeHistory \/ AnalyzeFails
    \/ PruneTick \/ Prune \/ PruneFails

Next ==
    \/ \E r \in Readers : Begin(r) \/ Ask(r) \/ EndRead(r)
    \/ \E s \in Sessions : Grant(s)
    \/ CycleStep \/ MaintStep \/ Age

(* The server grants locks, the cycle's and the maintenance's statements     *)
(* return, lock_timeout fires, consumers other than the slow ones end their  *)
(* transactions.  A prune tick stays in its channel and select draws among   *)
(* the ready ones at random, so analyze ticks cannot keep it out for ever.   *)
Spec ==
    /\ Init /\ [][Next]_vars
    /\ \A s \in Sessions : WF_vars(Grant(s))
    /\ \A r \in Readers \ Slow : WF_vars(EndRead(r))
    /\ WF_vars(CycleStep) /\ WF_vars(MaintStep) /\ SF_vars(PruneTick)

-----------------------------------------------------------------------------
(* Properties *)

(* Whoever reads the partition reads one whole snapshot, as it was staged    *)
(* and deduplicated, never a truncated or a half filled one, whatever fails  *)
(* in a delta or a resync (applySQL, ResyncRegion).  Three reads are none:   *)
(* before the first load there is nothing, a drift shows until it heals, and *)
(* a transaction that keeps a snapshot from before a resync and comes to the *)
(* partition after it finds it empty.                                        *)
WholeSnapshots ==
    \A r \in Readers : held[r] = "share" =>
        \/ \E stg \in Stagings : Sees(r).rows \in Dedups(stg)
        \/ ~Sees(r).loaded \/ Sees(r).drifted \/ Sees(r).cut

(* A consumer that keeps its snapshot is exposed to a resync only until it   *)
(* reaches the partition: what it has read there it reads again until its    *)
(* transaction ends, because the TRUNCATE waits for its lock (ResyncRegion). *)
ReadsRepeat ==
    [][\A r \in DOMAIN view :
          held[r] = "share" /\ held'[r] = "share" => view'[r] = view[r]]_vars

(* A drift heals, also one in the columns the checksum leaves out and also   *)
(* when a consumer keeps the resync from its lock: the guard resyncs, and    *)
(* the next delta compares every column (VerifyRegion, applySQL).            *)
DriftHeals == drifted ~> live \in Dedups(staging)

(* No one waits for the partition for ever, even when a consumer holds it    *)
(* for ever and a resync has queued behind that consumer: lock_timeout takes *)
(* the TRUNCATE out of the queue (ResyncRegion).                             *)
NobodyWaitsForEver == \A s \in Sessions : Waiting(s) ~> ~Waiting(s)

(* Failed housekeeping does not end housekeeping: rows past the retention    *)
(* are pruned in the end (Maintenance.Run, prune).                           *)
LogPruned == old ~> ~old

=============================================================================
