---------------------------- MODULE CycleProofs ----------------------------
(* Proofs about Cycle for every number of snapshots, every page count and    *)
(* every channel capacity.                                                   *)
EXTENDS Cycle, FiniteSetTheorems, TLAPS

(* A page set is never empty, and its batches are all of its version. *)
LEMMA PageSetFacts ==
    ASSUME NEW v \in Versions
    PROVE  /\ Batch(v, 1) \in PageSet(v)
           /\ Batch(v, 1).ver = v
           /\ \A b \in PageSet(v) : b.ver = v
           /\ PageSet(v) \subseteq Batches
           /\ PageSet(v) # {}
  <1>1. 1 \in 1..PagesOf[v]
    BY SnapshotAssumption DEF Versions
  <1> QED
    BY <1>1 DEF PageSet, Batch, Batches

(* A batch carries the number of its snapshot. *)
LEMMA BatchVersion == \A b \in Batches : b.ver \in Nat
  BY SnapshotAssumption DEF Batches, PageSet, Batch, Versions

(* The checksum of a page set is that page set: nothing in it is skewed. *)
LEMMA PageSetHash ==
    ASSUME NEW v \in Versions
    PROVE  Hash(PageSet(v)) = PageSet(v)
  <1>1. \A b \in PageSet(v) : Batch(b.ver, b.page) = b
    BY DEF PageSet, Batch
  <1> QED
    BY <1>1 DEF Hash

-----------------------------------------------------------------------------
(* The sweep's part: what is in the channel was sent, what was sent lies     *)
(* between the upstream's snapshots, and a nil error means a page set.       *)
StreamInv ==
    /\ out \subseteq sent /\ IsFiniteSet(sent)
    /\ floor <= ver
    /\ \A b \in sent : floor <= b.ver /\ b.ver <= ver
    /\ phase = "closed" /\ err = {} =>
          meta \in Versions /\ sent = PageSet(meta) /\ count = Cardinality(sent)

(* Before CopyOrders returns, staging holds nothing of another sweep; when   *)
(* it has returned nil, staging holds part of what was sent.                 *)
CopyInv ==
    /\ pc = "idle" \/ phase # "idle"
    /\ pc \in {"acquire", "truncate"} => rows = {}
    /\ pc = "copy" => staging = {}
    /\ pc = "await" /\ copyErr = {} =>
          phase = "closed" /\ staging \subseteq sent /\ copied = Cardinality(staging)

(* CopyFrom reads only what was sent. *)
RowsInv == rows \subseteq sent

Publishing == {"count", "apply", "verify", "resync", "mark"}

(* From AwaitComplete to MarkRefreshed, staging is the snapshot of SweepMeta. *)
StagedInv ==
    pc \in Publishing =>
        /\ phase = "closed" /\ err = {}
        /\ staging = PageSet(meta)

Unpublished == {"acquire", "truncate", "copy", "await", "count", "apply"}

(* The partition holds one snapshot, no newer than the upstream's, and until *)
(* this cycle's apply none newer than the sweep's first.                     *)
LiveInv ==
    /\ live = {} \/ \E v \in Versions : live = PageSet(v)
    /\ \A b \in live : b.ver <= ver
    /\ pc \in Unpublished => \A b \in live : b.ver <= floor
    /\ pc \in {"verify", "resync", "mark"} => live = PageSet(meta)

CycleInv ==
    TypeOK /\ StreamInv /\ RowsInv /\ CopyInv /\ StagedInv /\ LiveInv /\ ToldNotAhead

NoDrift == "drift" \notin Faults

-----------------------------------------------------------------------------
(* Before the first cycle nothing is staged, live or announced. *)
LEMMA InitInv == Init => CycleInv
  <1> SUFFICES ASSUME Init PROVE CycleInv
    OBVIOUS
  <1> USE SnapshotAssumption, CycleAssumption DEF Init, NotRunning, StreamInit, Versions
  <1>1. TypeOK
    <2>1. StreamType
      BY DEF StreamType
    <2>2. RunType
      BY DEF RunType, Labels, Outcomes
    <2>3. DbType
      BY DEF DbType, Outcomes
    <2>4. FlagType
      BY DEF FlagType
    <2> QED
      BY <2>1, <2>2, <2>3, <2>4 DEF TypeOK
  <1>2. StreamInv
    BY FS_EmptySet DEF StreamInv
  <1>3. RowsInv /\ CopyInv /\ StagedInv /\ LiveInv /\ ToldNotAhead
    BY DEF RowsInv, CopyInv, StagedInv, LiveInv, ToldNotAhead, Publishing, Unpublished
  <1> QED
    BY <1>1, <1>2, <1>3 DEF CycleInv

-----------------------------------------------------------------------------
(* A restart, as the sweep's variables see it. *)
Reset ==
    /\ phase' = "idle" /\ floor' = ver
    /\ out' = {} /\ sent' = {} /\ meta' = 0 /\ count' = 0 /\ err' = {} /\ cancel' = FALSE
    /\ pc' = "idle"
    /\ UNCHANGED ver

(* What a step does to the sweep: one of PageStream's actions, a restart, or *)
(* nothing.                                                                  *)
LEMMA StreamSteps ==
    ASSUME Next
    PROVE  \/ pc' = "acquire" /\ Open(shutdown)
           \/ \E b \in Batches : Emit(b)
           \/ \E b \in out : Take(b)
           \/ Close
           \/ Cancel
           \/ Roll
           \/ Reset
           \/ UNCHANGED streamVars
  <1>1. CASE Start
    BY <1>1 DEF Start, Goto
  <1>2. CASE RunStep
    <2> USE DEF CopyReturnsError
    <2>1. CASE AcquireCopyConn
      BY <2>1 DEF AcquireCopyConn
    <2>2. CASE TruncateStaging
      BY <2>2 DEF TruncateStaging
    <2>3. CASE CopyBatch
      BY <2>3 DEF CopyBatch
    <2>4. CASE CopyFails
      BY <2>4 DEF CopyFails
    <2>5. CASE CopyEnds \/ AwaitFailed \/ AwaitShort \/ AwaitComplete
      BY <2>5 DEF CopyEnds, AwaitFailed, AwaitShort, AwaitComplete
    <2>6. CASE RegionRowCount \/ FirstLoad \/ ApplyDelta \/ VerifyRegion \/ ResyncRegion
      BY <2>6 DEF RegionRowCount, FirstLoad, ApplyDelta, VerifyRegion, ResyncRegion
    <2>7. CASE MarkRefreshed \/ LogIngest \/ RecordFailure \/ MarkFailed \/ LogFailure
      BY <2>7 DEF MarkRefreshed, LogIngest, RecordFailure, MarkFailed, LogFailure, LogRow
    <2> QED
      BY <1>2, <2>1, <2>2, <2>3, <2>4, <2>5, <2>6, <2>7 DEF RunStep
  <1>3. CASE DrainOrders
    BY <1>3 DEF DrainOrders
  <1>4. CASE SweepStep
    BY <1>4 DEF SweepStep
  <1>5. CASE UpstreamRolls
    BY <1>5 DEF UpstreamRolls
  <1>6. CASE Shutdown
    BY <1>6 DEF Shutdown
  <1>7. CASE Restart
    BY <1>7 DEF Restart, Reset
  <1> QED
    BY <1>1, <1>2, <1>3, <1>4, <1>5, <1>6, <1>7 DEF Next

(* The sweep's invariant is inductive whatever the cycle does. *)
LEMMA StreamStep ==
    ASSUME StreamType, StreamInv, Next
    PROVE  StreamType' /\ StreamInv'
  <1> USE SnapshotAssumption, BatchVersion DEF StreamType, StreamInv, Versions
  <1>1. CASE Open(shutdown)
    BY <1>1, FS_EmptySet DEF Open
  <1>2. ASSUME NEW b \in Batches, Emit(b)
        PROVE  StreamType' /\ StreamInv'
    <2>1. IsFiniteSet(sent \cup {b})
      BY FS_AddElement
    <2> QED
      BY <1>2, <2>1 DEF Emit
  <1>3. ASSUME NEW b \in out, Take(b)
        PROVE  StreamType' /\ StreamInv'
    BY <1>3 DEF Take
  <1>4. CASE Close
    <2>1. ASSUME NEW v \in Versions, CloseOk(v)
          PROVE  StreamType' /\ StreamInv'
      BY <2>1, FS_CardinalityType DEF CloseOk
    <2>2. ASSUME NEW e \in SweepErrors, CloseFailed(e)
          PROVE  StreamType' /\ StreamInv'
      BY <2>2 DEF CloseFailed
    <2> QED
      BY <1>4, <2>1, <2>2 DEF Close
  <1>5. CASE Cancel
    BY <1>5 DEF Cancel
  <1>6. CASE Roll
    BY <1>6 DEF Roll
  <1>7. CASE Reset
    BY <1>7, FS_EmptySet DEF Reset
  <1>8. CASE UNCHANGED streamVars
    BY <1>8 DEF streamVars
  <1> QED
    BY StreamSteps, <1>1, <1>2, <1>3, <1>4, <1>5, <1>6, <1>7, <1>8

(* The flags and the types of the cycle's and the database's variables. *)
LEMMA FlagStep ==
    ASSUME FlagType, Next
    PROVE  FlagType'
  <1> USE DEF FlagType, streamVars, runVars, dbVars, Goto, Fail, CopyReturnsError, Cancel
  <1>1. CASE Start
    BY <1>1 DEF Start, Open
  <1>2. CASE AcquireCopyConn
    BY <1>2 DEF AcquireCopyConn
  <1>3. CASE TruncateStaging
    BY <1>3 DEF TruncateStaging
  <1>4. CASE CopyBatch
    BY <1>4 DEF CopyBatch, Take
  <1>5. CASE CopyEnds
    BY <1>5 DEF CopyEnds
  <1>6. CASE CopyFails
    BY <1>6 DEF CopyFails
  <1>7. CASE DrainOrders
    BY <1>7 DEF DrainOrders, Take
  <1>8. CASE AwaitFailed
    BY <1>8 DEF AwaitFailed, SweepReturned
  <1>9. CASE AwaitShort
    BY <1>9 DEF AwaitShort, SweepReturned
  <1>10. CASE AwaitComplete
    BY <1>10 DEF AwaitComplete, SweepReturned
  <1>11. CASE RegionRowCount
    BY <1>11 DEF RegionRowCount
  <1>12. CASE FirstLoad
    BY <1>12 DEF FirstLoad, Rebuild, RebuildFails
  <1>13. CASE ApplyDelta
    BY <1>13 DEF ApplyDelta, Rebuild, RebuildFails, Drift
  <1>14. CASE VerifyRegion
    BY <1>14 DEF VerifyRegion
  <1>15. CASE ResyncRegion
    BY <1>15 DEF ResyncRegion, Rebuild, RebuildFails
  <1>16. CASE MarkRefreshed
    BY <1>16 DEF MarkRefreshed, Announce
  <1>17. CASE LogIngest
    BY <1>17 DEF LogIngest, LogRow
  <1>18. CASE RecordFailure
    BY <1>18 DEF RecordFailure, Classify
  <1>19. CASE MarkFailed
    BY <1>19 DEF MarkFailed, CountError
  <1>20. CASE LogFailure
    BY <1>20 DEF LogFailure, LogRow
  <1>21. CASE SweepStep
    BY <1>21 DEF SweepStep, Emit, Close, CloseOk, CloseFailed
  <1>22. CASE UpstreamRolls
    BY <1>22 DEF UpstreamRolls, Roll
  <1>23. CASE Shutdown
    BY <1>23 DEF Shutdown, Cancel
  <1>24. CASE Restart
    BY <1>24 DEF Restart
  <1> QED
    BY <1>1, <1>2, <1>3, <1>4, <1>5, <1>6, <1>7, <1>8, <1>9, <1>10, <1>11, <1>12, <1>13,
       <1>14, <1>15, <1>16, <1>17, <1>18, <1>19, <1>20, <1>21, <1>22, <1>23, <1>24 DEF Next, RunStep

(* Every step of Run, of the sweep and of the world keeps the types. *)
LEMMA TypeStep ==
    ASSUME TypeOK, StreamInv, RowsInv, Next
    PROVE  RunType' /\ DbType' /\ RowsInv'
  <1> USE SnapshotAssumption, CycleAssumption
      DEF TypeOK, StreamType, RunType, DbType, RowsInv, StreamInv, Labels, Outcomes,
          streamVars, runVars, dbVars, Goto, Fail, CopyReturnsError, Cancel
  <1>0. Cardinality(rows) \in Nat
    BY FS_Subset, FS_CardinalityType
  <1>1. CASE Start
    BY <1>1 DEF Start, Open
  <1>2. CASE AcquireCopyConn
    BY <1>2 DEF AcquireCopyConn
  <1>3. CASE TruncateStaging
    BY <1>3 DEF TruncateStaging
  <1>4. CASE CopyBatch
    BY <1>4 DEF CopyBatch, Take
  <1>5. CASE CopyEnds
    BY <1>5, <1>0 DEF CopyEnds
  <1>6. CASE CopyFails
    BY <1>6 DEF CopyFails
  <1>7. CASE DrainOrders
    BY <1>7 DEF DrainOrders, Take
  <1>8. CASE AwaitFailed
    BY <1>8 DEF AwaitFailed, SweepReturned
  <1>9. CASE AwaitShort
    BY <1>9 DEF AwaitShort, SweepReturned
  <1>10. CASE AwaitComplete
    BY <1>10 DEF AwaitComplete, SweepReturned
  <1>11. CASE RegionRowCount
    BY <1>11 DEF RegionRowCount
  <1>12. CASE FirstLoad
    BY <1>12 DEF FirstLoad, Rebuild, RebuildFails
  <1>13. CASE ApplyDelta
    BY <1>13 DEF ApplyDelta, Rebuild, RebuildFails, Drift
  <1>14. CASE VerifyRegion
    BY <1>14 DEF VerifyRegion
  <1>15. CASE ResyncRegion
    BY <1>15 DEF ResyncRegion, Rebuild, RebuildFails
  <1>16. CASE MarkRefreshed
    BY <1>16 DEF MarkRefreshed, Announce
  <1>17. CASE LogIngest
    BY <1>17 DEF LogIngest, LogRow
  <1>18. CASE RecordFailure
    BY <1>18 DEF RecordFailure, Classify
  <1>19. CASE MarkFailed
    BY <1>19 DEF MarkFailed, CountError
  <1>20. CASE LogFailure
    BY <1>20 DEF LogFailure, LogRow
  <1>21. CASE SweepStep
    BY <1>21 DEF SweepStep, Emit, Close, CloseOk, CloseFailed
  <1>22. CASE UpstreamRolls
    BY <1>22 DEF UpstreamRolls, Roll
  <1>23. CASE Shutdown
    BY <1>23 DEF Shutdown, Cancel
  <1>24. CASE Restart
    BY <1>24 DEF Restart
  <1> QED
    BY <1>1, <1>2, <1>3, <1>4, <1>5, <1>6, <1>7, <1>8, <1>9, <1>10, <1>11, <1>12, <1>13,
       <1>14, <1>15, <1>16, <1>17, <1>18, <1>19, <1>20, <1>21, <1>22, <1>23, <1>24 DEF Next, RunStep

(* Staging: a cycle that reaches the apply has staged one whole snapshot. *)
LEMMA StagedStep ==
    ASSUME TypeOK, StreamInv, RowsInv, CopyInv, StagedInv, Next
    PROVE  CopyInv' /\ StagedInv'
  <1> USE DEF RowsInv, CopyInv, StagedInv, Publishing,
              streamVars, runVars, dbVars, Goto, Fail, CopyReturnsError, Cancel
  <1>0. ASSUME copied = count, phase = "closed", err = {}, staging \subseteq sent,
               copied = Cardinality(staging)
        PROVE  staging = PageSet(meta)
    BY <1>0, FS_Subset DEF StreamInv
  <1>1. CASE Start
    BY <1>1 DEF Start, Open
  <1>2. CASE AcquireCopyConn
    BY <1>2 DEF AcquireCopyConn
  <1>3. CASE TruncateStaging
    BY <1>3 DEF TruncateStaging
  <1>4. CASE CopyBatch
    BY <1>4 DEF CopyBatch, Take
  <1>5. CASE CopyEnds
    BY <1>5 DEF CopyEnds
  <1>6. CASE CopyFails
    BY <1>6 DEF CopyFails
  <1>7. CASE DrainOrders
    BY <1>7 DEF DrainOrders, Take
  <1>8. CASE AwaitFailed
    BY <1>8 DEF AwaitFailed, SweepReturned
  <1>9. CASE AwaitShort
    BY <1>9 DEF AwaitShort, SweepReturned
  <1>10. CASE AwaitComplete
    BY <1>10, <1>0 DEF AwaitComplete, SweepReturned
  <1>11. CASE RegionRowCount
    BY <1>11 DEF RegionRowCount
  <1>12. CASE FirstLoad
    BY <1>12 DEF FirstLoad, Rebuild, RebuildFails
  <1>13. CASE ApplyDelta
    BY <1>13 DEF ApplyDelta, Rebuild, RebuildFails, Drift
  <1>14. CASE VerifyRegion
    BY <1>14 DEF VerifyRegion
  <1>15. CASE ResyncRegion
    BY <1>15 DEF ResyncRegion, Rebuild, RebuildFails
  <1>16. CASE MarkRefreshed
    BY <1>16 DEF MarkRefreshed, Announce
  <1>17. CASE LogIngest
    BY <1>17 DEF LogIngest, LogRow
  <1>18. CASE RecordFailure
    BY <1>18 DEF RecordFailure
  <1>19. CASE MarkFailed
    BY <1>19 DEF MarkFailed, CountError
  <1>20. CASE LogFailure
    BY <1>20 DEF LogFailure, LogRow
  <1>21. CASE SweepStep
    BY <1>21 DEF SweepStep, Emit, Close, CloseOk, CloseFailed
  <1>22. CASE UpstreamRolls
    BY <1>22 DEF UpstreamRolls, Roll
  <1>23. CASE Shutdown
    BY <1>23 DEF Shutdown, Cancel
  <1>24. CASE Restart
    BY <1>24 DEF Restart
  <1> QED
    BY <1>1, <1>2, <1>3, <1>4, <1>5, <1>6, <1>7, <1>8, <1>9, <1>10, <1>11, <1>12, <1>13,
       <1>14, <1>15, <1>16, <1>17, <1>18, <1>19, <1>20, <1>21, <1>22, <1>23, <1>24 DEF Next, RunStep

(* The two steps a consumer sees. *)
Publishes == pc \in {"apply", "resync"} /\ live' = staging /\ UNCHANGED told
Announces == pc = "mark" /\ told' = meta /\ UNCHANGED live

(* What a step does to the partition and to region_status: nothing, publish  *)
(* what is staged, or announce the snapshot of SweepMeta.                    *)
LEMMA BookSteps ==
    ASSUME NoDrift, Next
    PROVE  Publishes \/ Announces \/ UNCHANGED <<live, told>>
  <1> USE DEF dbVars
  <1>1. CASE Start \/ DrainOrders \/ SweepStep \/ UpstreamRolls \/ Shutdown \/ Restart
    BY <1>1 DEF Start, DrainOrders, SweepStep, UpstreamRolls, Shutdown, Restart
  <1>2. CASE AcquireCopyConn \/ TruncateStaging \/ CopyBatch \/ CopyEnds \/ CopyFails
             \/ AwaitFailed \/ AwaitShort \/ AwaitComplete
    BY <1>2 DEF AcquireCopyConn, TruncateStaging, CopyBatch, CopyEnds, CopyFails,
                AwaitFailed, AwaitShort, AwaitComplete
  <1>3. CASE RegionRowCount \/ VerifyRegion \/ LogIngest \/ RecordFailure \/ MarkFailed
             \/ LogFailure
    BY <1>3 DEF RegionRowCount, VerifyRegion, LogIngest, RecordFailure, MarkFailed,
                LogFailure, LogRow
  <1>4. CASE FirstLoad \/ ApplyDelta \/ ResyncRegion
    BY <1>4 DEF FirstLoad, ApplyDelta, ResyncRegion, Rebuild, RebuildFails, Drift,
                Publishes, NoDrift
  <1>5. CASE MarkRefreshed
    BY <1>5 DEF MarkRefreshed, Announce, Announces
  <1> QED
    BY <1>1, <1>2, <1>3, <1>4, <1>5 DEF Next, RunStep

(* While a cycle publishes, SweepMeta's snapshot is no older than what is    *)
(* live and no newer than the upstream's.                                    *)
LEMMA NeverOlder ==
    ASSUME CycleInv, pc \in Publishing
    PROVE  /\ meta \in Versions /\ staging = PageSet(meta)
           /\ meta <= ver
           /\ \A b \in live : b.ver <= meta
  <1>1. meta \in Versions /\ staging = PageSet(meta) /\ sent = PageSet(meta)
    BY DEF CycleInv, StagedInv, StreamInv
  <1>2. floor <= meta /\ meta <= ver
    BY <1>1, PageSetFacts DEF CycleInv, StreamInv
  <1>3. CASE pc \in {"count", "apply"}
    <2>1. \A b \in live : b.ver <= floor
      BY <1>3 DEF CycleInv, LiveInv, Unpublished
    <2>2. \A b \in live : b.ver \in Nat
      BY PageSetFacts, SnapshotAssumption DEF CycleInv, LiveInv, Versions
    <2>3. floor \in Nat /\ meta \in Nat
      BY <1>1, SnapshotAssumption DEF CycleInv, TypeOK, StreamType, Versions
    <2> QED
      BY <1>1, <1>2, <2>1, <2>2, <2>3
  <1>4. CASE pc \in {"verify", "resync", "mark"}
    <2>1. live = PageSet(meta)
      BY <1>4 DEF CycleInv, LiveInv
    <2> QED
      BY <1>1, <1>2, <2>1, PageSetFacts, SnapshotAssumption DEF Versions
  <1> QED
    BY <1>3, <1>4 DEF Publishing

(* Where the cycle goes next decides which part of LiveInv must be shown. *)
LEMMA LabelSteps ==
    ASSUME CycleInv, NoDrift, Next
    PROVE  /\ pc' \in Unpublished =>
                 \/ pc \in Unpublished /\ UNCHANGED <<floor, live>>
                 \/ floor' = ver /\ UNCHANGED live
           /\ pc' \in {"verify", "resync", "mark"} =>
                 /\ phase = "closed" /\ UNCHANGED meta
                 /\ \/ pc \in {"verify", "resync", "mark"} /\ UNCHANGED live
                    \/ pc \in {"apply", "resync"} /\ live' = staging
  <1> USE DEF CycleInv, StagedInv, CopyInv, Publishing, Unpublished,
              streamVars, runVars, dbVars, Goto, Fail, CopyReturnsError, Cancel
  <1>1. CASE Start
    BY <1>1 DEF Start, Open
  <1>2. CASE AcquireCopyConn
    BY <1>2 DEF AcquireCopyConn
  <1>3. CASE TruncateStaging
    BY <1>3 DEF TruncateStaging
  <1>4. CASE CopyBatch
    BY <1>4 DEF CopyBatch, Take
  <1>5. CASE CopyEnds
    BY <1>5 DEF CopyEnds
  <1>6. CASE CopyFails
    BY <1>6 DEF CopyFails
  <1>7. CASE DrainOrders
    BY <1>7 DEF DrainOrders, Take
  <1>8. CASE AwaitFailed
    BY <1>8 DEF AwaitFailed, SweepReturned
  <1>9. CASE AwaitShort
    BY <1>9 DEF AwaitShort, SweepReturned
  <1>10. CASE AwaitComplete
    BY <1>10 DEF AwaitComplete, SweepReturned
  <1>11. CASE RegionRowCount
    BY <1>11 DEF RegionRowCount
  <1>12. CASE FirstLoad
    BY <1>12 DEF FirstLoad, Rebuild, RebuildFails
  <1>13. CASE ApplyDelta
    BY <1>13 DEF ApplyDelta, Rebuild, RebuildFails, Drift, NoDrift
  <1>14. CASE VerifyRegion
    BY <1>14 DEF VerifyRegion
  <1>15. CASE ResyncRegion
    BY <1>15 DEF ResyncRegion, Rebuild, RebuildFails
  <1>16. CASE MarkRefreshed
    BY <1>16 DEF MarkRefreshed
  <1>17. CASE LogIngest
    BY <1>17 DEF LogIngest, LogRow
  <1>18. CASE RecordFailure
    BY <1>18 DEF RecordFailure
  <1>19. CASE MarkFailed
    BY <1>19 DEF MarkFailed
  <1>20. CASE LogFailure
    BY <1>20 DEF LogFailure, LogRow
  <1>21. CASE SweepStep
    BY <1>21 DEF SweepStep, Emit, Close, CloseOk, CloseFailed
  <1>22. CASE UpstreamRolls
    BY <1>22 DEF UpstreamRolls, Roll
  <1>23. CASE Shutdown
    BY <1>23 DEF Shutdown
  <1>24. CASE Restart
    BY <1>24 DEF Restart
  <1> QED
    BY <1>1, <1>2, <1>3, <1>4, <1>5, <1>6, <1>7, <1>8, <1>9, <1>10, <1>11, <1>12, <1>13,
       <1>14, <1>15, <1>16, <1>17, <1>18, <1>19, <1>20, <1>21, <1>22, <1>23, <1>24 DEF Next, RunStep

(* The partition: only ApplyDelta and ResyncRegion change it, to what is     *)
(* staged, and that is a whole snapshot no older than the one it replaces.   *)
LEMMA LiveStep ==
    ASSUME CycleInv, NoDrift, Next
    PROVE  LiveInv' /\ ToldNotAhead'
  <1> USE SnapshotAssumption DEF Versions
  <1>t. ver \in Nat /\ ver' \in Nat /\ ver <= ver' /\ floor \in Nat /\ floor <= ver
    <2>1. ver' \in Nat
      BY StreamStep DEF CycleInv, TypeOK, StreamType
    <2>2. ver \in Nat /\ floor \in Nat /\ floor <= ver
      BY DEF CycleInv, TypeOK, StreamType, StreamInv
    <2>3. ver' = ver \/ ver' = ver + 1
      BY StreamSteps DEF Open, Emit, Take, Close, CloseOk, CloseFailed, Cancel, Roll,
         Reset, streamVars
    <2> QED
      BY <2>1, <2>2, <2>3
  <1>b. \A b \in live : b.ver \in Nat /\ b.ver <= ver
    BY PageSetFacts DEF CycleInv, LiveInv
  <1>1. live' = {} \/ \E v \in Versions : live' = PageSet(v)
    BY BookSteps, NeverOlder DEF Publishes, Announces, Publishing, CycleInv, LiveInv
  <1>2. \A b \in live' : b.ver <= ver'
    <2>1. CASE Publishes
      BY <2>1, <1>t, NeverOlder, PageSetFacts DEF Publishes, Publishing
    <2>2. CASE UNCHANGED live
      BY <2>2, <1>t, <1>b
    <2> QED
      BY <2>1, <2>2, BookSteps DEF Announces
  <1>3. pc' \in Unpublished => \A b \in live' : b.ver <= floor'
    BY <1>b, <1>t, LabelSteps DEF CycleInv, LiveInv
  <1>4. pc' \in {"verify", "resync", "mark"} => live' = PageSet(meta')
    BY LabelSteps, NeverOlder DEF CycleInv, LiveInv, Publishing
  <1>5. ToldNotAhead'
    <2>1. CASE Publishes
      <3>1. meta \in Versions /\ live' = PageSet(meta) /\ told' = told
        BY <2>1, NeverOlder DEF Publishes, Publishing
      <3>2. ASSUME told # 0
            PROVE  told <= meta
        <4>1. PICK v \in told..MaxVersion : live = PageSet(v)
          BY <3>2 DEF CycleInv, ToldNotAhead
        <4>2. v \in Versions /\ told \in Nat
          BY <3>2 DEF CycleInv, TypeOK, DbType
        <4>3. v <= meta
          BY <2>1, <4>1, <4>2, NeverOlder, PageSetFacts DEF Publishes, Publishing
        <4> QED
          BY <3>1, <4>2, <4>3
      <3> QED
        BY <3>1, <3>2 DEF ToldNotAhead, CycleInv, TypeOK, DbType
    <2>2. CASE Announces
      <3>1. meta \in Versions /\ live = PageSet(meta)
        BY <2>2, NeverOlder DEF Announces, Publishing, CycleInv, LiveInv
      <3> QED
        BY <2>2, <3>1 DEF Announces, ToldNotAhead
    <2>3. CASE UNCHANGED <<live, told>>
      BY <2>3 DEF CycleInv, ToldNotAhead
    <2> QED
      BY <2>1, <2>2, <2>3, BookSteps
  <1> QED
    BY <1>1, <1>2, <1>3, <1>4, <1>5 DEF LiveInv

-----------------------------------------------------------------------------
(* A stuttering step preserves every part. *)
LEMMA Stutter ==
    ASSUME UNCHANGED vars
    PROVE  /\ TypeOK => TypeOK'
           /\ StreamInv => StreamInv'
           /\ RowsInv => RowsInv'
           /\ CycleInv => CycleInv'
  <1> USE DEF vars, streamVars, runVars, dbVars
  <1>1. TypeOK => TypeOK'
    BY DEF TypeOK, StreamType, RunType, DbType, FlagType
  <1>2. (StreamInv => StreamInv') /\ (RowsInv => RowsInv')
    BY DEF StreamInv, RowsInv
  <1>3. CopyInv /\ StagedInv /\ LiveInv /\ ToldNotAhead =>
            CopyInv' /\ StagedInv' /\ LiveInv' /\ ToldNotAhead'
    BY DEF CopyInv, StagedInv, LiveInv, ToldNotAhead
  <1> QED
    BY <1>1, <1>2, <1>3 DEF CycleInv

(* Every variable of the cycle keeps its type, whatever faults happen. *)
THEOREM TypeCorrect == Spec => []TypeOK
  <1>1. Init => TypeOK /\ StreamInv /\ RowsInv
    BY InitInv DEF CycleInv
  <1>2. TypeOK /\ StreamInv /\ RowsInv /\ [Next]_vars =>
            TypeOK' /\ StreamInv' /\ RowsInv'
    <2>1. ASSUME TypeOK, StreamInv, RowsInv, Next
          PROVE  TypeOK' /\ StreamInv' /\ RowsInv'
      BY <2>1, StreamStep, FlagStep, TypeStep DEF TypeOK
    <2> QED
      BY <2>1, Stutter
  <1> QED
    BY <1>1, <1>2, PTL DEF Spec

(* The inductive invariant holds throughout, whatever else fails. *)
LEMMA CycleInvariant ==
    ASSUME NoDrift
    PROVE  Spec => []CycleInv
  <1>1. CycleInv /\ [Next]_vars => CycleInv'
    <2>1. ASSUME CycleInv, Next
          PROVE  CycleInv'
      BY <2>1, NoDrift, StreamStep, FlagStep, TypeStep, StagedStep, LiveStep
         DEF CycleInv, TypeOK
    <2> QED
      BY <2>1, Stutter
  <1> QED
    BY <1>1, InitInv, PTL DEF Spec

(* What region_status announces is live or was replaced by a newer snapshot, *)
(* for every upstream, channel and mixture of faults but a drifting apply.   *)
THEOREM AnnouncedSnapshotIsLive ==
    ASSUME "drift" \notin Faults
    PROVE  Spec => []ToldNotAhead
  <1>1. NoDrift
    BY DEF NoDrift
  <1>2. CycleInv => ToldNotAhead
    BY DEF CycleInv
  <1> QED
    BY <1>1, <1>2, CycleInvariant, PTL

(* Under the same assumption the cycle implements RegionBook: the partition  *)
(* only ever jumps, in one step, to a complete snapshot that is not older,   *)
(* and region_status announces only what is live.                            *)
THEOREM CycleImplementsBook ==
    ASSUME "drift" \notin Faults
    PROVE  Spec => BookRefined
  <1>1. NoDrift
    BY DEF NoDrift
  <1>2. Init => Book!Init
    BY DEF Init, Book!Init
  <1>3. CycleInv /\ [Next]_vars => [Book!Next]_(Book!bookVars)
    <2>0. /\ Book!Versions = Versions
          /\ \A v : Book!PageSet(v) = PageSet(v)
      BY DEF Versions, Book!Versions, PageSet, Book!PageSet, Batch, Book!Batch
    <2>1. ASSUME CycleInv, Publishes
          PROVE  Book!Next
      <3>1. /\ meta \in Versions /\ staging = PageSet(meta)
            /\ \A b \in live : b.ver <= meta
        BY <2>1, NeverOlder DEF Publishes, Publishing
      <3>2. Book!Publish(meta)
        BY <2>0, <2>1, <3>1 DEF Publishes, Book!Publish
      <3> QED
        BY <2>0, <3>1, <3>2 DEF Book!Next
    <2>2. ASSUME CycleInv, Announces
          PROVE  Book!Next
      <3>1. meta \in Versions /\ live = PageSet(meta)
        BY <2>2, NeverOlder DEF Announces, Publishing, CycleInv, LiveInv
      <3>2. Book!Announce(meta)
        BY <2>0, <2>2, <3>1 DEF Announces, Book!Announce
      <3> QED
        BY <2>0, <3>1, <3>2 DEF Book!Next
    <2>3. CASE UNCHANGED vars
      BY <2>3 DEF vars, dbVars, Book!bookVars
    <2> QED
      BY <1>1, <2>1, <2>2, <2>3, BookSteps DEF Book!bookVars
  <1> QED
    BY <1>1, <1>2, <1>3, CycleInvariant, PTL DEF Spec, BookRefined, Book!Spec

-----------------------------------------------------------------------------
(* Applies that drift: between VerifyRegion and MarkRefreshed the partition  *)
(* has the checksum of what was staged.                                      *)
MarkInv == pc = "mark" => Hash(live) = Hash(staging)

(* Every way to "mark" has just compared or rebuilt the partition. *)
LEMMA MarkStep ==
    ASSUME MarkInv, [Next]_vars
    PROVE  MarkInv'
  <1> USE DEF MarkInv, streamVars, runVars, dbVars, Goto, Fail, CopyReturnsError
  <1>1. CASE Start
    BY <1>1 DEF Start, Open
  <1>2. CASE AcquireCopyConn
    BY <1>2 DEF AcquireCopyConn
  <1>3. CASE TruncateStaging
    BY <1>3 DEF TruncateStaging
  <1>4. CASE CopyBatch \/ DrainOrders
    BY <1>4 DEF CopyBatch, DrainOrders, Take
  <1>5. CASE CopyEnds
    BY <1>5 DEF CopyEnds
  <1>6. CASE CopyFails
    BY <1>6 DEF CopyFails
  <1>7. CASE AwaitFailed \/ AwaitShort \/ AwaitComplete
    BY <1>7 DEF AwaitFailed, AwaitShort, AwaitComplete, SweepReturned
  <1>8. CASE RegionRowCount
    BY <1>8 DEF RegionRowCount
  <1>9. CASE FirstLoad
    BY <1>9 DEF FirstLoad, Rebuild, RebuildFails
  <1>10. CASE ApplyDelta
    BY <1>10 DEF ApplyDelta, Rebuild, RebuildFails
  <1>11. CASE VerifyRegion
    BY <1>11 DEF VerifyRegion
  <1>12. CASE ResyncRegion
    BY <1>12 DEF ResyncRegion, Rebuild, RebuildFails
  <1>13. CASE MarkRefreshed
    BY <1>13 DEF MarkRefreshed, Announce
  <1>14. CASE LogIngest \/ LogFailure
    BY <1>14 DEF LogIngest, LogFailure, LogRow
  <1>15. CASE RecordFailure
    BY <1>15 DEF RecordFailure, Classify
  <1>16. CASE MarkFailed
    BY <1>16 DEF MarkFailed, CountError
  <1>17. CASE SweepStep \/ UpstreamRolls
    BY <1>17 DEF SweepStep, UpstreamRolls, Emit, Close, CloseOk, CloseFailed, Roll
  <1>18. CASE Shutdown
    BY <1>18 DEF Shutdown
  <1>19. CASE Restart
    BY <1>19 DEF Restart
  <1>20. CASE UNCHANGED vars
    BY <1>20 DEF vars
  <1> QED
    BY <1>1, <1>2, <1>3, <1>4, <1>5, <1>6, <1>7, <1>8, <1>9, <1>10,
       <1>11, <1>12, <1>13, <1>14, <1>15, <1>16, <1>17, <1>18, <1>19, <1>20 DEF Next, RunStep

(* Only MarkRefreshed changes what is announced. *)
LEMMA ToldSteps ==
    ASSUME [Next]_vars, told' # told
    PROVE  pc = "mark" /\ told' = meta /\ UNCHANGED live
  <1> USE DEF dbVars
  <1>1. CASE Start
    BY <1>1 DEF Start, Open
  <1>2. CASE AcquireCopyConn
    BY <1>2 DEF AcquireCopyConn
  <1>3. CASE TruncateStaging
    BY <1>3 DEF TruncateStaging
  <1>4. CASE CopyBatch \/ DrainOrders
    BY <1>4 DEF CopyBatch, DrainOrders, Take
  <1>5. CASE CopyEnds
    BY <1>5 DEF CopyEnds
  <1>6. CASE CopyFails
    BY <1>6 DEF CopyFails
  <1>7. CASE AwaitFailed \/ AwaitShort \/ AwaitComplete
    BY <1>7 DEF AwaitFailed, AwaitShort, AwaitComplete, SweepReturned
  <1>8. CASE RegionRowCount
    BY <1>8 DEF RegionRowCount
  <1>9. CASE FirstLoad
    BY <1>9 DEF FirstLoad, Rebuild, RebuildFails
  <1>10. CASE ApplyDelta
    BY <1>10 DEF ApplyDelta, Rebuild, RebuildFails
  <1>11. CASE VerifyRegion
    BY <1>11 DEF VerifyRegion
  <1>12. CASE ResyncRegion
    BY <1>12 DEF ResyncRegion, Rebuild, RebuildFails
  <1>13. CASE MarkRefreshed
    BY <1>13 DEF MarkRefreshed, Announce
  <1>14. CASE LogIngest \/ LogFailure
    BY <1>14 DEF LogIngest, LogFailure, LogRow
  <1>15. CASE RecordFailure
    BY <1>15 DEF RecordFailure, Classify
  <1>16. CASE MarkFailed
    BY <1>16 DEF MarkFailed, CountError
  <1>17. CASE SweepStep \/ UpstreamRolls
    BY <1>17 DEF SweepStep, UpstreamRolls, Emit, Close, CloseOk, CloseFailed, Roll
  <1>18. CASE Shutdown
    BY <1>18 DEF Shutdown
  <1>19. CASE Restart
    BY <1>19 DEF Restart
  <1>20. CASE UNCHANGED vars
    BY <1>20 DEF vars
  <1> QED
    BY <1>1, <1>2, <1>3, <1>4, <1>5, <1>6, <1>7, <1>8, <1>9, <1>10,
       <1>11, <1>12, <1>13, <1>14, <1>15, <1>16, <1>17, <1>18, <1>19, <1>20 DEF Next, RunStep

(* With every fault, drift included, what is announced is what the partition *)
(* holds in the columns the checksum covers (VerifyRegion, ResyncRegion,     *)
(* then MarkRefreshed).                                                      *)
THEOREM AnnouncementMatchesChecksum == Spec => AnnouncedIsLive
  <1> DEFINE Inv == TypeOK /\ StreamInv /\ RowsInv /\ CopyInv /\ StagedInv /\ MarkInv
  <1>1. Init => Inv
    BY InitInv DEF CycleInv, MarkInv, Init, NotRunning
  <1>2. Inv /\ [Next]_vars => Inv'
    <2>1. ASSUME Inv, Next
          PROVE  Inv'
      BY <2>1, StreamStep, FlagStep, TypeStep, StagedStep, MarkStep DEF TypeOK
    <2>2. ASSUME Inv, UNCHANGED vars
          PROVE  Inv'
      BY <2>2, Stutter, MarkStep
         DEF CopyInv, StagedInv, vars, streamVars, runVars, dbVars
    <2> QED
      BY <2>1, <2>2
  <1>3. ASSUME Inv, [Next]_vars, told' # told
        PROVE  Hash(live') = PageSet(told')
    <2>1. pc = "mark" /\ told' = meta /\ UNCHANGED live
      BY <1>3, ToldSteps
    <2>2. meta \in Versions /\ staging = PageSet(meta)
      BY <1>3, <2>1 DEF StagedInv, StreamInv, Publishing
    <2>3. Hash(staging) = PageSet(meta)
      BY <2>2, PageSetHash
    <2>4. Hash(live') = Hash(live)
      BY <2>1
    <2> QED
      BY <1>3, <2>1, <2>3, <2>4 DEF MarkInv
  <1>4. Inv /\ [Next]_vars => [told' # told => Hash(live') = PageSet(told')]_vars
    BY <1>3
  <1> QED
    BY <1>1, <1>2, <1>4, PTL DEF Spec, AnnouncedIsLive

-----------------------------------------------------------------------------
(* What a cycle on its way to its end has recorded so far.  errs counts a    *)
(* fault before the row that says so is written.                             *)
RecordInv ==
    /\ pc \in {"verify", "resync", "mark", "log"} => res \in {"ok", "resync"}
    /\ pc = "markFailed" => res \in {"inconsistent", "failed"}
    /\ pc = "logFailed" /\ ~shutdown =>
          res = "deferred" \/ (res \in {"inconsistent", "failed"} /\ errs > 0)
    /\ EveryCycleRecorded

(* Unless MarkRefreshed, MarkFailed or LogIngest themselves fail, each step  *)
(* of Run records what the next one relies on.                               *)
LEMMA RecordStep ==
    ASSUME Faults \cap {"mark", "note"} = {}, TypeOK, RecordInv, [Next]_vars
    PROVE  RecordInv'
  <1> USE CycleAssumption
      DEF RecordInv, EveryCycleRecorded, TypeOK, DbType, streamVars, runVars, dbVars,
          Goto, Fail, Fails, Works, CopyReturnsError, Interrupted
  <1>1. CASE Start
    BY <1>1 DEF Start, Open
  <1>2. CASE AcquireCopyConn
    BY <1>2 DEF AcquireCopyConn
  <1>3. CASE TruncateStaging
    BY <1>3 DEF TruncateStaging
  <1>4. CASE CopyBatch \/ DrainOrders
    BY <1>4 DEF CopyBatch, DrainOrders, Take
  <1>5. CASE CopyEnds
    BY <1>5 DEF CopyEnds
  <1>6. CASE CopyFails
    BY <1>6 DEF CopyFails
  <1>7. CASE AwaitFailed \/ AwaitShort \/ AwaitComplete
    BY <1>7 DEF AwaitFailed, AwaitShort, AwaitComplete, SweepReturned
  <1>8. CASE RegionRowCount
    BY <1>8 DEF RegionRowCount
  <1>9. CASE FirstLoad
    BY <1>9 DEF FirstLoad, Rebuild, RebuildFails
  <1>10. CASE ApplyDelta
    BY <1>10 DEF ApplyDelta, Rebuild, RebuildFails
  <1>11. CASE VerifyRegion
    BY <1>11 DEF VerifyRegion
  <1>12. CASE ResyncRegion
    BY <1>12 DEF ResyncRegion, Rebuild, RebuildFails
  <1>13. CASE MarkRefreshed
    BY <1>13 DEF MarkRefreshed, Announce
  <1>14. CASE LogIngest \/ LogFailure
    BY <1>14 DEF LogIngest, LogFailure, LogRow
  <1>15. CASE RecordFailure
    BY <1>15 DEF RecordFailure, Classify
  <1>16. CASE MarkFailed
    BY <1>16 DEF MarkFailed, CountError
  <1>17. CASE SweepStep \/ UpstreamRolls
    BY <1>17 DEF SweepStep, UpstreamRolls, Emit, Close, CloseOk, CloseFailed, Roll
  <1>18. CASE Shutdown
    BY <1>18 DEF Shutdown
  <1>19. CASE Restart
    BY <1>19 DEF Restart
  <1>20. CASE UNCHANGED vars
    BY <1>20 DEF vars
  <1> QED
    BY <1>1, <1>2, <1>3, <1>4, <1>5, <1>6, <1>7, <1>8, <1>9, <1>10,
       <1>11, <1>12, <1>13, <1>14, <1>15, <1>16, <1>17, <1>18, <1>19, <1>20 DEF Next, RunStep

(* A cycle that returns while the service runs has left its row, and a fault *)
(* its count, under every fault but one of the recording calls themselves    *)
(* (recordFailure, MarkFailed, LogIngest).                                   *)
THEOREM CyclesAreRecorded ==
    ASSUME Faults \cap {"mark", "note"} = {}
    PROVE  Spec => []EveryCycleRecorded
  <1>1. Init => RecordInv
    BY DEF Init, NotRunning, RecordInv, EveryCycleRecorded
  <1>2. TypeOK /\ RecordInv /\ [Next]_vars => RecordInv'
    BY RecordStep
  <1>3. RecordInv => EveryCycleRecorded
    BY DEF RecordInv
  <1> QED
    BY <1>1, <1>2, <1>3, TypeCorrect, PTL DEF Spec

=============================================================================
