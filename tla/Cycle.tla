------------------------------- MODULE Cycle -------------------------------
(* One region's refresh: Cycle.Run with the store operations it calls        *)
(* (CopyOrders, RegionRowCount, ApplyDelta, VerifyRegion, ResyncRegion,      *)
(* MarkRefreshed, MarkFailed, LogIngest).  The sweep runs concurrently and   *)
(* is known by its contract, PageStream.  Each database call is one step     *)
(* that may succeed, fail, or commit and lose its acknowledgement; the       *)
(* service may be shut down or killed between any two steps.                 *)
EXTENDS PageStream

CONSTANTS
    Faults,      \* which faults happen, see FaultKinds
    MaxErrors    \* bound: consecutive_errors saturates here

FaultKinds ==
    {"copy",     \* CopyOrders cannot acquire, truncate or copy
     "lost",     \* a row read from the channel does not reach staging
     "apply",    \* RegionRowCount, ApplyDelta or ResyncRegion fails
     "verify",   \* VerifyRegion fails
     "drift",    \* ApplyDelta leaves the partition unlike staging
     "mark",     \* MarkRefreshed fails
     "note",     \* MarkFailed or LogIngest fails
     "kill"}     \* the process dies

ASSUME CycleAssumption ==
    /\ Faults \subseteq FaultKinds
    /\ MaxErrors \in Nat \ {0}

VARIABLES
    \* the goroutine of Cycle.Run
    pc,        \* the next call it makes
    rows,      \* batches CopyFrom has read from the channel
    copied,    \* the row count CopyOrders returned
    copyErr,   \* the error CopyOrders returned; {} is nil
    cause,     \* the error handed to recordFailure
    res,       \* Result.Outcome
    drain,     \* the drainOrders goroutine is running
    shutdown,  \* the parent context is done
    \* the database
    staging,   \* rows of the region's staging table
    live,      \* rows of the region's partition
    told,      \* region_status: the announced snapshot
    errs,      \* region_status: consecutive_errors
    logged     \* the outcome in this cycle's ingest_log row, "none" if no row

runVars == <<pc, rows, copied, copyErr, cause, res, drain, shutdown>>
dbVars == <<staging, live, told, errs, logged>>
vars == <<streamVars, runVars, dbVars>>

(* A page's rows as the partition may hold them after a drift the checksum   *)
(* is blind to: right in the columns checksumOf hashes, wrong in another.    *)
Skew(b) == [ver |-> b.ver, page |-> b.page, skewed |-> TRUE]

(* What checksumOf sees of a table: its rows by the hashed columns. *)
Hash(t) == {Batch(b.ver, b.page) : b \in t}

Outcomes == {"none", "ok", "resync", "deferred", "inconsistent", "failed"}
Labels == {"idle", "acquire", "truncate", "copy", "await", "count", "apply", "verify",
           "resync", "mark", "log", "record", "markFailed", "logFailed", "done"}

StreamType ==
    /\ ver \in Versions /\ floor \in Versions
    /\ phase \in {"idle", "open", "closed"}
    /\ out \subseteq sent /\ sent \subseteq Batches
    /\ meta \in 0..MaxVersion /\ count \in Nat
    /\ err \subseteq SweepErrors

RunType ==
    /\ pc \in Labels
    /\ rows \subseteq Batches /\ copied \in Nat
    /\ copyErr \subseteq {"db"} /\ cause \subseteq SweepErrors \cup {"db", "short"}
    /\ res \in Outcomes

DbType ==
    /\ staging \subseteq Batches /\ live \subseteq Batches \cup {Skew(b) : b \in Batches}
    /\ told \in 0..MaxVersion /\ errs \in 0..MaxErrors
    /\ logged \in Outcomes

FlagType ==
    /\ cancel \in BOOLEAN /\ drain \in BOOLEAN /\ shutdown \in BOOLEAN

(* Every variable keeps its type. *)
TypeOK == StreamType /\ RunType /\ DbType /\ FlagType

(* The service has just started. *)
NotRunning ==
    /\ StreamInit
    /\ pc = "idle"
    /\ rows = {} /\ copied = 0 /\ copyErr = {} /\ cause = {} /\ res = "none"
    /\ drain = FALSE /\ shutdown = FALSE
    /\ errs = 0 /\ logged = "none"

(* The region has never been loaded. *)
Init ==
    /\ NotRunning
    /\ staging = {} /\ live = {} /\ told = 0

-----------------------------------------------------------------------------
(* A database call fails because of a fault, or because its context is done. *)
Fails(kind) == kind \in Faults \/ shutdown
Works == ~shutdown

Goto(l) == pc' = l

(* Run starts Sweep in a goroutine of its own and calls CopyOrders. *)
Start ==
    /\ pc \in {"idle", "done"}
    /\ Open(shutdown)
    /\ Goto("acquire")
    /\ rows' = {} /\ copied' = 0 /\ copyErr' = {} /\ cause' = {} /\ res' = "failed"
    /\ drain' = FALSE
    /\ logged' = "none"
    /\ UNCHANGED <<shutdown, staging, live, told, errs>>

\* mutant: cancelSweep is never called
CopyErrorLeavesSweep(drains) ==
    /\ Fails("copy")
    /\ copyErr' = {"db"} /\ drain' = drains
    /\ Goto("await")
    /\ UNCHANGED streamVars

(* CopyOrders returns an error, so Run cancels the sweep.  drains says       *)
(* whether CopyOrders left a goroutine behind to empty the channel.          *)
CopyReturnsError(drains) ==
    /\ Fails("copy")
    /\ copyErr' = {"db"} /\ drain' = drains
    /\ Cancel
    /\ Goto("await")

AcquireCopyConn ==
    /\ pc = "acquire"
    /\ \/ Works /\ Goto("truncate") /\ UNCHANGED <<streamVars, copyErr, drain>>
       \/ CopyReturnsError(FALSE)
    /\ UNCHANGED <<rows, copied, cause, res, shutdown, dbVars>>

\* mutant: the staging table is not truncated
KeepStaging ==
    /\ pc = "truncate"
    /\ \/ Works /\ Goto("copy") /\ UNCHANGED <<streamVars, copyErr, drain>>
       \/ CopyReturnsError(TRUE)
    /\ UNCHANGED <<rows, copied, cause, res, shutdown, dbVars>>

TruncateStaging ==
    /\ pc = "truncate"
    /\ \/ /\ Works
          /\ Goto("copy") /\ staging' = {}
          /\ UNCHANGED <<streamVars, copyErr, drain>>
       \/ CopyReturnsError(TRUE) /\ UNCHANGED staging
    /\ UNCHANGED <<rows, copied, cause, res, shutdown, live, told, errs, logged>>

(* orderCopySource.Next takes one batch; the rows stay invisible until the   *)
(* COPY ends.                                                                *)
CopyBatch ==
    /\ pc = "copy"
    /\ \E b \in out :
        /\ Take(b)
        /\ \/ rows' = rows \cup {b}
           \/ "lost" \in Faults /\ UNCHANGED rows
    /\ UNCHANGED <<pc, copied, copyErr, cause, res, drain, shutdown, dbVars>>

(* The channel is closed and empty: the COPY commits. *)
CopyEnds ==
    /\ pc = "copy"
    /\ phase = "closed" /\ out = {}
    /\ Works
    /\ staging' = staging \cup rows /\ copied' = Cardinality(rows) /\ rows' = {}
    /\ Goto("await")
    /\ UNCHANGED <<streamVars, copyErr, cause, res, drain, shutdown,
                   live, told, errs, logged>>

CopyFails ==
    /\ pc = "copy"
    /\ CopyReturnsError(TRUE) /\ rows' = {}
    /\ UNCHANGED <<copied, cause, res, shutdown, dbVars>>

(* drainOrders: what is left in the channel goes nowhere. *)
DrainOrders ==
    /\ drain
    /\ \E b \in out : Take(b)
    /\ UNCHANGED <<runVars, dbVars>>

-----------------------------------------------------------------------------
(* Run receives from sweepDone and looks at the errors and the row count. *)
SweepReturned == pc = "await" /\ phase = "closed"

AwaitFailed ==
    /\ SweepReturned
    /\ err \cup copyErr # {}
    /\ cause' = err \cup copyErr
    /\ Goto("record")
    /\ UNCHANGED <<streamVars, rows, copied, copyErr, res, drain, shutdown, dbVars>>

AwaitShort ==
    /\ SweepReturned
    /\ err \cup copyErr = {} /\ copied # count
    /\ cause' = {"short"}
    /\ Goto("record")
    /\ UNCHANGED <<streamVars, rows, copied, copyErr, res, drain, shutdown, dbVars>>

\* mutant: the staged rows are not compared with OrderCount
AwaitUncounted ==
    /\ SweepReturned
    /\ err \cup copyErr = {}
    /\ Goto("count")
    /\ UNCHANGED <<streamVars, rows, copied, copyErr, cause, res, drain, shutdown, dbVars>>

AwaitComplete ==
    /\ SweepReturned
    /\ err \cup copyErr = {} /\ copied = count
    /\ Goto("count")
    /\ UNCHANGED <<streamVars, rows, copied, copyErr, cause, res, drain, shutdown, dbVars>>

(* fail: a database error on the way to publishing. *)
Fail(kind) ==
    /\ Fails(kind)
    /\ cause' = {"db"}
    /\ Goto("record")

RegionRowCount ==
    /\ pc = "count"
    /\ \/ Works /\ Goto("apply") /\ UNCHANGED cause
       \/ Fail("apply")
    /\ UNCHANGED <<streamVars, rows, copied, copyErr, res, drain, shutdown, dbVars>>

(* The partition becomes what staging holds, in one transaction. *)
Rebuild == live' = staging

(* The transaction rolls back, or it commits and the answer is lost. *)
RebuildFails ==
    /\ Fail("apply")
    /\ Rebuild \/ UNCHANGED <<live>>

(* An apply that drifts: one batch is missing, left over, or wrong in a      *)
(* column the checksum does not cover.                                       *)
Drift ==
    /\ "drift" \in Faults
    /\ \/ \E b \in staging : live' = staging \ {b}
       \/ \E b \in live : Hash({b}) \cap staging = {} /\ live' = staging \cup {b}
       \/ \E b \in staging : live' = (staging \ {b}) \cup {Skew(b)}

(* A region without rows has never loaded: rebuild it. *)
FirstLoad ==
    /\ pc = "apply" /\ live = {}
    /\ \/ Works /\ Rebuild /\ Goto("verify") /\ res' = "resync" /\ UNCHANGED cause
       \/ RebuildFails /\ UNCHANGED res
    /\ UNCHANGED <<streamVars, rows, copied, copyErr, drain, shutdown,
                   staging, told, errs, logged>>

ApplyDelta ==
    /\ pc = "apply" /\ live # {}
    /\ \/ /\ Works /\ (Rebuild \/ Drift)
          /\ Goto("verify") /\ res' = "ok" /\ UNCHANGED cause
       \/ RebuildFails /\ UNCHANGED res
    /\ UNCHANGED <<streamVars, rows, copied, copyErr, drain, shutdown,
                   staging, told, errs, logged>>

\* mutant: the checksums are not compared
VerifyNothing ==
    /\ pc = "verify"
    /\ \/ Works /\ Goto("mark") /\ UNCHANGED cause
       \/ Fail("verify")
    /\ UNCHANGED <<streamVars, rows, copied, copyErr, res, drain, shutdown, dbVars>>

(* The drift guard compares the checksums of the partition and of staging. *)
VerifyRegion ==
    /\ pc = "verify"
    /\ \/ Works /\ Hash(live) = Hash(staging) /\ Goto("mark") /\ UNCHANGED cause
       \/ Works /\ Hash(live) # Hash(staging) /\ Goto("resync") /\ UNCHANGED cause
       \/ Fail("verify")
    /\ UNCHANGED <<streamVars, rows, copied, copyErr, res, drain, shutdown, dbVars>>

ResyncRegion ==
    /\ pc = "resync"
    /\ \/ Works /\ Rebuild /\ Goto("mark") /\ res' = "resync" /\ UNCHANGED cause
       \/ RebuildFails /\ UNCHANGED res
    /\ UNCHANGED <<streamVars, rows, copied, copyErr, drain, shutdown,
                   staging, told, errs, logged>>

(* region_status announces the snapshot of SweepMeta. *)
Announce == told' = meta /\ errs' = 0

(* Run returns the error of MarkRefreshed at once: nothing else is recorded. *)
MarkRefreshed ==
    /\ pc = "mark"
    /\ \/ Works /\ Announce /\ Goto("log")
       \/ Fails("mark") /\ Goto("done") /\ (Announce \/ UNCHANGED <<told, errs>>)
    /\ UNCHANGED <<streamVars, rows, copied, copyErr, cause, res, drain, shutdown,
                   staging, live, logged>>

LogRow(from) ==
    /\ pc = from
    /\ \/ Works /\ logged' = res
       \/ Fails("note") /\ logged' \in {logged, res}
    /\ Goto("done")
    /\ UNCHANGED <<streamVars, rows, copied, copyErr, cause, res, drain, shutdown,
                   staging, live, told, errs>>

(* A failure of LogIngest is only logged. *)
LogIngest == LogRow("log")

-----------------------------------------------------------------------------
(* recordFailure's switch on the error. *)
Classify(e) ==
    CASE "deferred" \in e -> "deferred"
      [] "inconsistent" \in e -> "inconsistent"
      [] OTHER -> "failed"

\* mutant: the error, not the context, decides that this was a shutdown
InterruptedByError == shutdown \/ "canceled" \in cause

(* The write shares the parent context, and only that decides whether this   *)
(* was a shutdown.                                                           *)
Interrupted == shutdown

RecordFailure ==
    /\ pc = "record"
    /\ \/ Interrupted /\ res' = "failed" /\ Goto("done")
       \/ /\ ~Interrupted
          /\ res' = Classify(cause)
          /\ Goto(IF res' = "deferred" THEN "logFailed" ELSE "markFailed")
    /\ UNCHANGED <<streamVars, rows, copied, copyErr, cause, drain, shutdown, dbVars>>

\* mutant: the counter goes the wrong way
UncountError == errs' = errs - 1

(* consecutive_errors + 1, saturating at the bound. *)
CountError == errs' = IF errs < MaxErrors THEN errs + 1 ELSE errs

(* A failure of MarkFailed is only logged. *)
MarkFailed ==
    /\ pc = "markFailed"
    /\ \/ Works /\ CountError
       \/ Fails("note") /\ (CountError \/ UNCHANGED errs)
    /\ Goto("logFailed")
    /\ UNCHANGED <<streamVars, rows, copied, copyErr, cause, res, drain, shutdown,
                   staging, live, told, logged>>

LogFailure == LogRow("logFailed")

-----------------------------------------------------------------------------
(* SIGTERM: the parent context and the sweep's, which derives from it, end. *)
Shutdown ==
    /\ ~shutdown
    /\ shutdown' = TRUE
    /\ Cancel
    /\ UNCHANGED <<pc, rows, copied, copyErr, cause, res, drain, dbVars>>

(* The process ends, after a shutdown or killed, and starts again; the       *)
(* database keeps what was committed.                                        *)
Restart ==
    /\ "kill" \in Faults \/ (shutdown /\ pc \in {"idle", "done"})
    /\ phase' = "idle" /\ floor' = ver
    /\ out' = {} /\ sent' = {} /\ meta' = 0 /\ count' = 0 /\ err' = {} /\ cancel' = FALSE
    /\ pc' = "idle"
    /\ rows' = {} /\ copied' = 0 /\ copyErr' = {} /\ cause' = {} /\ res' = "none"
    /\ drain' = FALSE /\ shutdown' = FALSE
    /\ logged' = "none"
    /\ UNCHANGED <<ver, staging, live, told, errs>>

SweepStep ==
    /\ \/ \E b \in Batches : Emit(b)
       \/ Close
    /\ UNCHANGED <<runVars, dbVars>>

UpstreamRolls == Roll /\ UNCHANGED <<runVars, dbVars>>

RunStep ==
    \/ AcquireCopyConn \/ TruncateStaging \/ CopyBatch \/ CopyEnds \/ CopyFails
    \/ AwaitFailed \/ AwaitShort \/ AwaitComplete
    \/ RegionRowCount \/ FirstLoad \/ ApplyDelta \/ VerifyRegion \/ ResyncRegion
    \/ MarkRefreshed \/ LogIngest
    \/ RecordFailure \/ MarkFailed \/ LogFailure

Next ==
    \/ Start \/ RunStep \/ DrainOrders
    \/ SweepStep \/ UpstreamRolls
    \/ Shutdown \/ Restart

Spec == Init /\ [][Next]_vars

(* Goroutines that can run do run; the sweep keeps PageStream's promise. *)
Fairness ==
    /\ WF_vars(RunStep)
    /\ WF_vars(DrainOrders)
    /\ WF_vars(Finish /\ UNCHANGED <<runVars, dbVars>>)

FairSpec == Spec /\ Fairness

-----------------------------------------------------------------------------
(* Properties *)

Book == INSTANCE RegionBook WITH live <- live, told <- told

(* The cycle implements the consumer's contract: whatever fails, wherever    *)
(* the process is stopped and however the upstream rolls meanwhile, Run      *)
(* moves the partition from one complete snapshot to another that is not     *)
(* older, and region_status announces only what is live (Cycle.Run: "Nothing *)
(* becomes visible until the apply commits").                                *)
BookRefined == Book!Spec

(* The snapshot region_status announces is live, or has been replaced by a   *)
(* newer one: a consumer that acts on last_modified never reads an older or  *)
(* incomplete book (MarkRefreshed runs after the apply it announces).        *)
ToldNotAhead == told # 0 => \E v \in told..MaxVersion : live = PageSet(v)

(* Even when an apply drifts, a newly announced snapshot is what the         *)
(* partition holds in the columns the checksum covers: VerifyRegion and      *)
(* ResyncRegion stand between the apply and MarkRefreshed.  A drift in the   *)
(* other columns is announced, and lasts until the next delta.               *)
AnnouncedIsLive == [][told' # told => Hash(live') = PageSet(told')]_vars

(* A cycle that returns while the service runs has left an ingest_log row    *)
(* with its outcome, and a fault has reached consecutive_errors (Run: "The   *)
(* cycle is always recorded in ingest_log, whatever the outcome").           *)
EveryCycleRecorded ==
    pc = "done" /\ ~shutdown =>
        /\ logged = res
        /\ res \in {"failed", "inconsistent"} => errs > 0

(* Every cycle returns: the sweep's goroutines never stay blocked on the     *)
(* channel after CopyOrders has stopped reading it (cancelSweep and          *)
(* drainOrders).                                                             *)
CycleEnds == pc = "acquire" ~> pc \in {"idle", "done"}

=============================================================================
