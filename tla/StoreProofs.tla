---------------------------- MODULE StoreProofs ----------------------------
(* The delta statement computes the staged snapshot, and consumers read      *)
(* whole snapshots, for any orders, contents, staged rows, readers and       *)
(* failures.                                                                 *)
EXTENDS OrderStore, SequenceTheorems, TLAPS

(* A deduplicated snapshot is a function on the staged order ids. *)
LEMMA DedupIsTable ==
  ASSUME NEW stg, NEW s \in Dedups(stg)
  PROVE  s \in [Ids(stg) -> Contents]
  BY DEF Dedups

(* applySQL: inserting what is new, deleting what is gone and updating what  *)
(* differs in any compared column leaves exactly the staged snapshot,        *)
(* whatever the partition held before.                                       *)
THEOREM DeltaIsSnapshot ==
  ASSUME NEW stg, NEW s \in Dedups(stg), NEW part
  PROVE  Applied(part, s) = s
  <1>1. s = [o \in DOMAIN s |-> s[o]]
    BY DedupIsTable
  <1>2. (DOMAIN part \ Deleted(part, s)) \cup Inserted(part, s) = DOMAIN s
    BY DEF Deleted, Inserted
  <1>3. ASSUME NEW o \in DOMAIN s,
               o \notin Inserted(part, s) \cup Updated(part, s)
        PROVE  part[o] = s[o]
    BY <1>3 DEF Inserted, Updated
  <1>4. Applied(part, s) = [o \in DOMAIN s |-> s[o]]
    BY <1>2, <1>3 DEF Applied
  <1> QED
    BY <1>1, <1>4

(* What a consumer may come to read: the snapshot of a sweep, or one of the  *)
(* three reads WholeSnapshots sets apart.                                    *)
Readable(t) ==
    \/ \E stg \in Stagings : t.rows \in Dedups(stg)
    \/ ~t.loaded \/ t.drifted \/ t.cut

(* The cycle works on a staged snapshot, and a transaction that is about to  *)
(* commit holds one.                                                         *)
WorkInv ==
    /\ pc # "idle" => staging \in Stagings
    /\ pc = "commit" => work \in Dedups(staging)

(* What is committed may be read, and so may every snapshot taken before. *)
LiveInv == Readable(Now)
ViewInv == DOMAIN view \subseteq Frozen /\ \A r \in DOMAIN view : Readable(view[r])

ReadInv == WorkInv /\ LiveInv /\ ViewInv

(* The cycle's part. *)
LEMMA WorkStep ==
    ASSUME WorkInv, [Next]_vars
    PROVE  WorkInv'
  <1> USE DEF WorkInv, Goto
  <1>1. ASSUME NEW r \in Readers, Begin(r) \/ Ask(r) \/ EndRead(r) PROVE WorkInv'
    BY <1>1 DEF Begin, Ask, EndRead, dataVars, cycleVars
  <1>2. ASSUME NEW s \in Sessions, Grant(s) PROVE WorkInv'
    BY <1>2 DEF Grant, dataVars, cycleVars
  <1>3. CASE CycleStep
    <2>1. CASE Stage
      BY <2>1 DEF Stage
    <2>2. CASE ChoosePath
      BY <2>2 DEF ChoosePath, dataVars
    <2>3. CASE ApplyDelta
      BY <2>3 DEF ApplyDelta, Acknowledged, Unheard
    <2>4. CASE ApplyDrifts
      BY <2>4 DEF ApplyDrifts
    <2>5. CASE VerifyRegion
      BY <2>5 DEF VerifyRegion, dataVars
    <2>6. CASE Truncate
      BY <2>6 DEF Truncate
    <2>7. CASE InsertStaged
      BY <2>7 DEF InsertStaged
    <2>8. CASE CommitResync
      BY <2>8 DEF CommitResync, Acknowledged, Unheard
    <2>9. CASE ApplyFails \/ LockTimeout
      BY <2>9 DEF ApplyFails, LockTimeout, Rollback
    <2> QED
      BY <1>3, <2>1, <2>2, <2>3, <2>4, <2>5, <2>6, <2>7, <2>8, <2>9 DEF CycleStep
  <1>4. CASE MaintStep \/ Age
    BY <1>4 DEF MaintStep, Analyze, AnalyzeOrders, AnalyzeHistory, AnalyzeFails,
                PruneTick, Prune, PruneFails, Age, dataVars, cycleVars
  <1>5. CASE UNCHANGED vars
    BY <1>5 DEF vars, dataVars, cycleVars
  <1> QED
    BY <1>1, <1>2, <1>3, <1>4, <1>5 DEF Next

(* What a step does to the committed rows: nothing, or it commits a drift or *)
(* the staged snapshot; and to the snapshots that are open: nothing, or it   *)
(* takes, drops or cuts some.                                                *)
LEMMA ReadSteps ==
    ASSUME WorkInv, [Next]_vars
    PROVE  /\ \/ UNCHANGED <<live, drifted, loaded>>
              \/ drifted' = TRUE
              \/ staging \in Stagings /\ live' \in Dedups(staging)
           /\ \/ UNCHANGED view
              \/ \E r \in Frozen : Begin(r)
              \/ \E r \in Readers : view' = [q \in DOMAIN view \ {r} |-> view[q]]
              \/ CutSnapshots
  <1> USE DEF readVars, dataVars
  <1>1. ASSUME NEW r \in Readers, Begin(r)
        PROVE  r \in Frozen /\ UNCHANGED <<live, drifted, loaded>>
    BY <1>1 DEF Begin
  <1>2. ASSUME NEW r \in Readers, Ask(r)
        PROVE  UNCHANGED <<live, drifted, loaded, view>>
    BY <1>2 DEF Ask
  <1>3. ASSUME NEW r \in Readers, EndRead(r)
        PROVE  /\ UNCHANGED <<live, drifted, loaded>>
               /\ view' = [q \in DOMAIN view \ {r} |-> view[q]]
    BY <1>3 DEF EndRead
  <1>4. ASSUME NEW s \in Sessions, Grant(s)
        PROVE  UNCHANGED <<live, drifted, loaded, view>>
    BY <1>4 DEF Grant
  <1>5. CASE ApplyDelta
    BY <1>5, DeltaIsSnapshot DEF ApplyDelta, WorkInv
  <1>6. CASE ApplyDrifts
    BY <1>6 DEF ApplyDrifts
  <1>7. CASE CommitResync
    BY <1>7 DEF CommitResync, WorkInv
  <1>8. CASE Stage \/ ChoosePath \/ VerifyRegion
    BY <1>8 DEF Stage, ChoosePath, VerifyRegion
  <1>9. CASE Truncate \/ InsertStaged \/ ApplyFails \/ LockTimeout
    BY <1>9 DEF Truncate, InsertStaged, ApplyFails, LockTimeout, Rollback
  <1>10. CASE MaintStep \/ Age
    BY <1>10 DEF MaintStep, Analyze, AnalyzeOrders, AnalyzeHistory, AnalyzeFails,
                 PruneTick, Prune, PruneFails, Age
  <1>11. CASE UNCHANGED vars
    BY <1>11 DEF vars
  <1> QED
    BY <1>1, <1>2, <1>3, <1>4, <1>5, <1>6, <1>7, <1>8, <1>9, <1>10, <1>11
       DEF Next, CycleStep

(* What is committed, and what earlier snapshots show of it, stays readable. *)
LEMMA ReadStep ==
    ASSUME ReadInv, [Next]_vars
    PROVE  ReadInv'
  <1>1. WorkInv'
    BY WorkStep DEF ReadInv
  <1>2. LiveInv'
    BY ReadSteps DEF ReadInv, LiveInv, Readable, Now
  <1>3. ViewInv'
    <2>1. CASE UNCHANGED view
      BY <2>1 DEF ReadInv, ViewInv, Readable
    <2>2. ASSUME NEW r \in Frozen, Begin(r) PROVE ViewInv'
      <3>1. /\ DOMAIN view' = DOMAIN view \cup {r}
            /\ \A q \in DOMAIN view' : view'[q] = Now \/ (q \in DOMAIN view /\ view'[q] = view[q])
        BY <2>2 DEF Begin
      <3> QED
        BY <3>1 DEF ReadInv, LiveInv, ViewInv, Readable
    <2>3. ASSUME NEW r, view' = [q \in DOMAIN view \ {r} |-> view[q]] PROVE ViewInv'
      BY <2>3 DEF ReadInv, ViewInv, Readable
    <2>4. CASE CutSnapshots
      BY <2>4 DEF CutSnapshots, ReadInv, ViewInv, Readable
    <2> QED
      BY <2>1, <2>2, <2>3, <2>4, ReadSteps DEF ReadInv
  <1> QED
    BY <1>1, <1>2, <1>3 DEF ReadInv

(* Whoever reads the partition reads one whole snapshot, but before the      *)
(* first load, while a drift lasts, and from a snapshot that a resync has    *)
(* cut (applySQL, ResyncRegion).                                             *)
THEOREM ReadersSeeWholeSnapshots == Spec => []WholeSnapshots
  <1>1. Init => ReadInv
    BY DEF Init, Empty, ReadInv, WorkInv, LiveInv, ViewInv, Readable, Now
  <1>2. ReadInv /\ [Next]_vars => ReadInv'
    BY ReadStep
  <1>3. ReadInv => WholeSnapshots
    BY DEF ReadInv, LiveInv, ViewInv, Readable, Sees, WholeSnapshots
  <1> QED
    BY <1>1, <1>2, <1>3, PTL DEF Spec

-----------------------------------------------------------------------------
(* Types *)

Waiters == [who : Sessions, mode : Modes]

(* A waiter leaves the queue: what is left is a queue. *)
LEMMA DequeueType ==
    ASSUME NEW s, queue \in Seq(Waiters)
    PROVE  Dequeue(s) \in Seq(Waiters)
  <1>1. CASE Waiting(s)
    <2> DEFINE i == CHOOSE i \in DOMAIN queue : queue[i].who = s
    <2>1. i \in 1..Len(queue)
      BY <1>1 DEF Waiting
    <2>2. Dequeue(s) = SubSeq(queue, 1, i - 1) \o SubSeq(queue, i + 1, Len(queue))
      BY <1>1 DEF Dequeue, Without
    <2> HIDE DEF i
    <2>3. SubSeq(queue, 1, i - 1) \in Seq(Waiters)
      BY <2>1, SubSeqProperties
    <2>4. SubSeq(queue, i + 1, Len(queue)) \in Seq(Waiters)
      BY <2>1, SubSeqProperties
    <2> QED
      BY <2>2, <2>3, <2>4, ConcatProperties
  <1>2. CASE ~Waiting(s)
    BY <1>2 DEF Dequeue
  <1> QED
    BY <1>1, <1>2

(* Every use of the lock keeps the types of what is held and who waits. *)
LEMMA LockTypes ==
    ASSUME NEW s \in Sessions,
           held \in [Sessions -> Modes], queue \in Seq(Waiters),
           \/ \E mode \in Modes : Request(s, mode)
           \/ Unlock(s) \/ Grant(s) \/ UNCHANGED lockVars
    PROVE  held' \in [Sessions -> Modes] /\ queue' \in Seq(Waiters)
  <1>1. ASSUME NEW mode \in Modes, Request(s, mode)
        PROVE  held' \in [Sessions -> Modes] /\ queue' \in Seq(Waiters)
    <2>1. [who |-> s, mode |-> mode] \in Waiters
      BY DEF Waiters
    <2>2. Append(queue, [who |-> s, mode |-> mode]) \in Seq(Waiters)
      BY <2>1, AppendProperties
    <2> QED
      BY <1>1, <2>2 DEF Request
  <1>2. CASE Unlock(s)
    BY <1>2, DequeueType DEF Unlock, Modes
  <1>3. CASE Grant(s)
    <2>1. PICK i \in DOMAIN queue : held' = [held EXCEPT ![s] = queue[i].mode]
      BY <1>3 DEF Grant
    <2>2. queue[i] \in Waiters
      BY <2>1, ElementOfSeq
    <2> QED
      BY <1>3, <2>1, <2>2, DequeueType DEF Grant, Waiters
  <1>4. CASE UNCHANGED lockVars
    BY <1>4 DEF lockVars
  <1> QED
    BY <1>1, <1>2, <1>3, <1>4

(* Staged orders are orders, and so are those of every snapshot they make. *)
LEMMA DedupOrders ==
    ASSUME NEW stg \in Stagings \cup {<<>>}, NEW s \in Dedups(stg)
    PROVE  DOMAIN s \subseteq Orders
  <1>1. stg \in Seq(Row)
    BY StoreAssumption, EmptySeq
  <1>2. \A i \in DOMAIN stg : stg[i] \in Row
    BY <1>1, ElementOfSeq
  <1>3. Ids(stg) \subseteq Orders
    BY <1>2 DEF Ids, Row
  <1>4. DOMAIN s = Ids(stg)
    BY DedupIsTable
  <1> QED
    BY <1>3, <1>4

(* What the cycle does keeps the types. *)
LEMMA CycleTypes ==
    ASSUME TypeOK, CycleStep
    PROVE  TypeOK'
  <1>0. /\ "cycle" \in Sessions /\ "exclusive" \in Modes /\ "row" \in Modes
        /\ held \in [Sessions -> Modes] /\ queue \in Seq(Waiters)
        /\ DOMAIN Empty = {} /\ MaxFaults \in Nat
    BY StoreAssumption DEF Sessions, Modes, TypeOK, Waiters, Empty
  <1> USE DEF Goto
  <1>1. CASE Stage
    BY <1>1 DEF Stage, TypeOK, lockVars, maintVars, readVars
  <1>2. CASE ChoosePath
    <2>1. held' \in [Sessions -> Modes] /\ queue' \in Seq(Waiters)
      BY <1>0, <1>2, LockTypes DEF ChoosePath
    <2>2. first' \in BOOLEAN /\ pc' \in {"resync", "delta"}
      BY <1>2 DEF ChoosePath
    <2> QED
      BY <1>2, <2>1, <2>2 DEF ChoosePath, TypeOK, Waiters, dataVars, maintVars, readVars
  <1>3. CASE ApplyDelta
    <2>1. held' \in [Sessions -> Modes] /\ queue' \in Seq(Waiters)
      BY <1>0, <1>3, LockTypes DEF ApplyDelta
    <2>2. DOMAIN live' \subseteq Orders
      BY <1>3, DeltaIsSnapshot, DedupOrders DEF ApplyDelta, TypeOK
    <2>3. faults' \in 0..MaxFaults /\ pc' \in {"verify", "idle"}
      BY <1>0, <1>3 DEF ApplyDelta, Acknowledged, Unheard, Fault, TypeOK
    <2> QED
      BY <1>3, <2>1, <2>2, <2>3 DEF ApplyDelta, TypeOK, Waiters, maintVars, readVars
  <1>4. CASE ApplyDrifts
    <2>1. held' \in [Sessions -> Modes] /\ queue' \in Seq(Waiters)
      BY <1>0, <1>4, LockTypes DEF ApplyDrifts
    <2>2. DOMAIN live' \subseteq Orders
      <3>1. PICK s \in Dedups(staging) : \E o \in DOMAIN s, c \in Contents :
               live' = [Applied(live, s) EXCEPT ![o] = c]
        BY <1>4 DEF ApplyDrifts
      <3>2. DOMAIN live' = DOMAIN Applied(live, s)
        BY <3>1
      <3> QED
        BY <3>2, DeltaIsSnapshot, DedupOrders DEF TypeOK
    <2>3. faults' \in 0..MaxFaults
      BY <1>0, <1>4 DEF ApplyDrifts, Fault, TypeOK
    <2> QED
      BY <1>4, <2>1, <2>2, <2>3 DEF ApplyDrifts, TypeOK, Waiters, maintVars, readVars
  <1>5. CASE VerifyRegion
    <2>1. held' \in [Sessions -> Modes] /\ queue' \in Seq(Waiters)
      BY <1>0, <1>5, LockTypes DEF VerifyRegion
    <2>2. pc' \in {"idle", "resync"}
      BY <1>5 DEF VerifyRegion
    <2> QED
      BY <1>5, <2>1, <2>2 DEF VerifyRegion, TypeOK, Waiters, dataVars, maintVars, readVars
  <1>6. CASE Truncate
    BY <1>0, <1>6 DEF Truncate, TypeOK, lockVars, maintVars, readVars
  <1>7. CASE InsertStaged
    <2>1. DOMAIN work' \subseteq Orders
      BY <1>7, DedupOrders DEF InsertStaged, TypeOK
    <2> QED
      BY <1>7, <2>1 DEF InsertStaged, TypeOK, lockVars, maintVars, readVars
  <1>8. CASE CommitResync
    <2>1. held' \in [Sessions -> Modes] /\ queue' \in Seq(Waiters)
      BY <1>0, <1>8, LockTypes DEF CommitResync
    <2>2. faults' \in 0..MaxFaults /\ pc' \in {"verify", "idle"}
      BY <1>0, <1>8 DEF CommitResync, Acknowledged, Unheard, Fault, TypeOK
    <2> QED
      BY <1>0, <1>8, <2>1, <2>2 DEF CommitResync, CutSnapshots, TypeOK, Waiters, maintVars, readVars
  <1>9. CASE ApplyFails \/ LockTimeout
    <2>1. held' \in [Sessions -> Modes] /\ queue' \in Seq(Waiters)
      BY <1>0, <1>9, LockTypes DEF ApplyFails, LockTimeout, Rollback
    <2>2. faults' \in 0..MaxFaults
      BY <1>0, <1>9 DEF ApplyFails, LockTimeout, Fault, TypeOK
    <2> QED
      BY <1>0, <1>9, <2>1, <2>2
         DEF ApplyFails, LockTimeout, Rollback, TypeOK, Waiters, maintVars, readVars
  <1> QED
    BY <1>1, <1>2, <1>3, <1>4, <1>5, <1>6, <1>7, <1>8, <1>9 DEF CycleStep

(* So does what consumers, the server and the maintenance do. *)
LEMMA OtherTypes ==
    ASSUME TypeOK,
           \/ \E r \in Readers : Begin(r) \/ Ask(r) \/ EndRead(r)
           \/ \E s \in Sessions : Grant(s)
           \/ MaintStep \/ Age \/ UNCHANGED vars
    PROVE  TypeOK'
  <1>0. /\ "maint" \in Sessions /\ {"share", "analyze"} \subseteq Modes
        /\ held \in [Sessions -> Modes] /\ queue \in Seq(Waiters)
        /\ Readers \subseteq Sessions /\ MaxFaults \in Nat
    BY StoreAssumption DEF Sessions, Modes, TypeOK, Waiters
  <1> USE DEF MGoto, Ends, Note
  <1>1. ASSUME NEW r \in Readers, Begin(r) \/ Ask(r) \/ EndRead(r) PROVE TypeOK'
    <2>1. held' \in [Sessions -> Modes] /\ queue' \in Seq(Waiters)
      BY <1>0, <1>1, LockTypes DEF Begin, Ask, EndRead
    <2> QED
      BY <1>1, <2>1 DEF Begin, Ask, EndRead, TypeOK, Waiters, dataVars, cycleVars, maintVars, readVars
  <1>2. ASSUME NEW s \in Sessions, Grant(s) PROVE TypeOK'
    <2>1. held' \in [Sessions -> Modes] /\ queue' \in Seq(Waiters)
      BY <1>0, <1>2, LockTypes
    <2> QED
      BY <1>2, <2>1 DEF Grant, TypeOK, Waiters, dataVars, cycleVars, maintVars, readVars
  <1>3. CASE Analyze
    <2>1. held' \in [Sessions -> Modes] /\ queue' \in Seq(Waiters)
      BY <1>0, <1>3, LockTypes DEF Analyze
    <2> QED
      BY <1>3, <2>1 DEF Analyze, TypeOK, Waiters, dataVars, cycleVars, readVars
  <1>4. CASE AnalyzeOrders
    <2>1. held' \in [Sessions -> Modes] /\ queue' \in Seq(Waiters)
      BY <1>0, <1>4, LockTypes DEF AnalyzeOrders
    <2> QED
      BY <1>4, <2>1 DEF AnalyzeOrders, TypeOK, Waiters, dataVars, cycleVars, readVars
  <1>5. CASE AnalyzeFails
    <2>1. held' \in [Sessions -> Modes] /\ queue' \in Seq(Waiters)
      BY <1>0, <1>5, LockTypes DEF AnalyzeFails
    <2>2. faults' \in 0..MaxFaults /\ firing' \subseteq {"prune", "analyze"}
      BY <1>0, <1>5 DEF AnalyzeFails, Fault, TypeOK
    <2> QED
      BY <1>5, <2>1, <2>2 DEF AnalyzeFails, TypeOK, Waiters, dataVars, cycleVars, readVars
  <1>6. CASE AnalyzeHistory \/ PruneTick \/ Prune \/ Age
    BY <1>6 DEF AnalyzeHistory, PruneTick, Prune, Age, TypeOK, lockVars, dataVars, cycleVars, readVars
  <1>7. CASE PruneFails
    <2>1. faults' \in 0..MaxFaults /\ firing' \subseteq {"prune", "analyze"}
      BY <1>0, <1>7 DEF PruneFails, Fault, TypeOK
    <2> QED
      BY <1>7, <2>1 DEF PruneFails, TypeOK, lockVars, dataVars, cycleVars, readVars
  <1>8. CASE UNCHANGED vars
    BY <1>8 DEF vars, TypeOK, lockVars, dataVars, cycleVars, maintVars, readVars
  <1> QED
    BY <1>1, <1>2, <1>3, <1>4, <1>5, <1>6, <1>7, <1>8 DEF MaintStep

LEMMA InitTypes == Init => TypeOK
  <1> SUFFICES ASSUME Init PROVE TypeOK
    OBVIOUS
  <1>1. held \in [Sessions -> Modes] /\ faults \in 0..MaxFaults
    BY StoreAssumption DEF Init, Modes
  <1>2. queue \in Seq([who : Sessions, mode : Modes])
    BY EmptySeq DEF Init
  <1>3. DOMAIN live \subseteq Orders /\ DOMAIN work \subseteq Orders
    BY DEF Init, Empty
  <1> QED
    BY <1>1, <1>2, <1>3 DEF Init, Empty, TypeOK

(* Every variable keeps its type, the queue of the lock and the orders of    *)
(* the partition included, whatever fails and whoever waits.                 *)
THEOREM StoreTypeCorrect == Spec => []TypeOK
  <1>1. TypeOK /\ [Next]_vars => TypeOK'
    BY CycleTypes, OtherTypes DEF Next
  <1> QED
    BY <1>1, InitTypes, PTL DEF Spec

-----------------------------------------------------------------------------
(* Locks *)

(* The queue that is left when the entry at i is taken out. *)
LEMMA WithoutEntry ==
    ASSUME NEW i \in DOMAIN queue, queue \in Seq(Waiters)
    PROVE  /\ Without(i) \in Seq(Waiters) /\ Len(Without(i)) = Len(queue) - 1
           /\ \A j \in 1..(Len(queue) - 1) :
                 Without(i)[j] = IF j < i THEN queue[j] ELSE queue[j + 1]
  <1> DEFINE head == SubSeq(queue, 1, i - 1)
             tail == SubSeq(queue, i + 1, Len(queue))
  <1>0. i \in 1..Len(queue) /\ Len(queue) \in Nat
    BY LenProperties
  <1>1. /\ head \in Seq(Waiters) /\ Len(head) = i - 1
        /\ \A j \in 1..(i - 1) : head[j] = queue[j]
    BY <1>0, SubSeqProperties
  <1>2. /\ tail \in Seq(Waiters) /\ Len(tail) = Len(queue) - i
        /\ \A j \in 1..(Len(queue) - i) : tail[j] = queue[j + i]
    BY <1>0, SubSeqProperties
  <1> HIDE DEF head, tail
  <1>3. /\ head \o tail \in Seq(Waiters)
        /\ Len(head \o tail) = Len(head) + Len(tail)
        /\ \A j \in 1..(Len(head) + Len(tail)) :
              (head \o tail)[j] = IF j <= Len(head) THEN head[j] ELSE tail[j - Len(head)]
    BY <1>1, <1>2, ConcatProperties
  <1>4. ASSUME NEW j \in 1..(Len(queue) - 1)
        PROVE  (head \o tail)[j] = IF j < i THEN queue[j] ELSE queue[j + 1]
    <2>1. CASE j < i
      BY <1>0, <1>1, <1>2, <1>3, <2>1
    <2>2. CASE ~(j < i)
      <3>0. j \in 1..(Len(head) + Len(tail)) /\ ~(j <= Len(head))
        BY <1>0, <1>1, <1>2, <2>2
      <3>1. (head \o tail)[j] = tail[j - (i - 1)]
        BY <1>1, <1>3, <3>0
      <3>2. j - (i - 1) \in 1..(Len(queue) - i) /\ (j - (i - 1)) + i = j + 1
        BY <1>0, <2>2
      <3> QED
        BY <1>2, <2>2, <3>1, <3>2
    <2> QED
      BY <2>1, <2>2
  <1>5. Len(head) + Len(tail) = Len(queue) - 1
    BY <1>0, <1>1, <1>2
  <1>6. Without(i) = head \o tail
    BY DEF Without, head, tail
  <1> QED
    BY <1>3, <1>4, <1>5, <1>6

(* Nobody waits twice, or waits for what it holds. *)
QueueInv ==
    /\ \A i, j \in DOMAIN queue : queue[i].who = queue[j].who => i = j
    /\ \A s \in Sessions : Waiting(s) => held[s] = "none"

(* Whoever leaves the queue leaves it for good, and nobody else does. *)
LEMMA DequeueLeaves ==
    ASSUME NEW s \in Sessions, queue \in Seq(Waiters), QueueInv, queue' = Dequeue(s)
    PROVE  /\ \A i, j \in DOMAIN queue' : queue'[i].who = queue'[j].who => i = j
           /\ \A t : Waiting(t)' => Waiting(t) /\ t # s
  <1>1. CASE Waiting(s)
    <2>1. PICK i \in DOMAIN queue : queue[i].who = s /\ queue' = Without(i)
      BY <1>1 DEF Dequeue, Waiting
    <2>2. /\ Len(queue) \in Nat /\ DOMAIN queue = 1..Len(queue)
          /\ DOMAIN queue' = 1..(Len(queue) - 1)
          /\ \A j \in 1..(Len(queue) - 1) :
                queue'[j] = IF j < i THEN queue[j] ELSE queue[j + 1]
      BY <2>1, WithoutEntry, LenProperties
    <2> DEFINE from(j) == IF j < i THEN j ELSE j + 1
    <2>3. ASSUME NEW j \in DOMAIN queue'
          PROVE  /\ from(j) \in DOMAIN queue /\ from(j) # i
                 /\ queue'[j] = queue[from(j)]
      BY <2>1, <2>2
    <2>4. ASSUME NEW j \in DOMAIN queue', NEW k \in DOMAIN queue', from(j) = from(k)
          PROVE  j = k
      BY <2>1, <2>2, <2>4
    <2> HIDE DEF from
    <2>5. ASSUME NEW j \in DOMAIN queue', NEW k \in DOMAIN queue',
                 queue'[j].who = queue'[k].who
          PROVE  j = k
      BY <2>3, <2>4, <2>5 DEF QueueInv
    <2>6. ASSUME NEW t, Waiting(t)' PROVE Waiting(t) /\ t # s
      <3>1. PICK j \in DOMAIN queue' : queue'[j].who = t
        BY <2>6 DEF Waiting
      <3>2. queue[from(j)].who = t /\ from(j) \in DOMAIN queue /\ from(j) # i
        BY <2>3, <3>1
      <3> QED
        BY <2>1, <3>2 DEF Waiting, QueueInv
    <2> QED
      BY <2>5, <2>6
  <1>2. CASE ~Waiting(s)
    BY <1>2 DEF Dequeue, Waiting, QueueInv
  <1> QED
    BY <1>1, <1>2

(* No two sessions hold locks that conflict. *)
Exclusion ==
    \A s, t \in Sessions : s # t => ~Conflict(held[s], held[t])

LockInv == QueueInv /\ Exclusion

(* A session that neither holds nor waits asks. *)
LEMMA RequestStep ==
    ASSUME TypeOK, LockInv, NEW s \in Sessions, NEW mode \in Modes,
           held[s] = "none", ~Waiting(s), Request(s, mode)
    PROVE  LockInv' /\ \A t \in Sessions \ {s} : held'[t] = held[t] /\ (Waiting(t)' => Waiting(t))
  <1>0. held \in [Sessions -> Modes] /\ queue \in Seq(Waiters)
    BY DEF TypeOK, Waiters
  <1>1. CASE CanGrant(s, mode, queue)
    <2>1. held' = [held EXCEPT ![s] = mode] /\ UNCHANGED queue
      BY <1>1 DEF Request
    <2>2. \A t \in Sessions \ {s} : ~Conflict(mode, held[t]) /\ ~Conflict(held[t], mode)
      BY <1>1 DEF CanGrant, Conflict
    <2>3. \A t \in Sessions : held'[t] = IF t = s THEN mode ELSE held[t]
      BY <1>0, <2>1
    <2>4. Exclusion'
      BY <2>2, <2>3 DEF LockInv, Exclusion, Conflict
    <2>5. QueueInv'
      BY <2>1, <2>3 DEF LockInv, QueueInv, Waiting
    <2> QED
      BY <2>1, <2>3, <2>4, <2>5 DEF LockInv, Waiting
  <1>2. CASE ~CanGrant(s, mode, queue)
    <2> DEFINE new == [who |-> s, mode |-> mode]
    <2>1. queue' = Append(queue, new) /\ UNCHANGED held
      BY <1>2 DEF Request
    <2>2. new \in Waiters
      BY DEF Waiters
    <2>3. /\ Len(queue) \in Nat /\ DOMAIN queue = 1..Len(queue)
          /\ DOMAIN queue' = 1..(Len(queue) + 1)
          /\ queue'[Len(queue) + 1] = new
          /\ \A j \in 1..Len(queue) : queue'[j] = queue[j]
      BY <1>0, <2>1, <2>2, AppendProperties, LenProperties
    <2>4. new.who = s
      OBVIOUS
    <2> HIDE DEF new
    <2>5. ASSUME NEW j \in DOMAIN queue'
          PROVE  \/ j \in DOMAIN queue /\ queue'[j] = queue[j] /\ queue'[j].who # s
                 \/ j = Len(queue) + 1 /\ queue'[j].who = s
      BY <2>3, <2>4 DEF Waiting
    <2>6. \A j, k \in DOMAIN queue' : queue'[j].who = queue'[k].who => j = k
      BY <2>5 DEF LockInv, QueueInv
    <2>7. \A t : Waiting(t)' => Waiting(t) \/ t = s
      BY <2>5 DEF Waiting
    <2> QED
      BY <2>1, <2>6, <2>7 DEF LockInv, QueueInv, Exclusion
  <1> QED
    BY <1>1, <1>2

(* A session lets go of what it holds or waits for. *)
LEMMA UnlockStep ==
    ASSUME TypeOK, LockInv, NEW s \in Sessions, Unlock(s)
    PROVE  /\ LockInv' /\ held'[s] = "none" /\ ~Waiting(s)'
           /\ \A t \in Sessions \ {s} : held'[t] = held[t] /\ (Waiting(t)' => Waiting(t))
  <1>1. held \in [Sessions -> Modes] /\ queue \in Seq(Waiters)
    BY DEF TypeOK, Waiters
  <1>2. \A t \in Sessions : held'[t] = IF t = s THEN "none" ELSE held[t]
    BY <1>1 DEF Unlock
  <1>3. /\ \A i, j \in DOMAIN queue' : queue'[i].who = queue'[j].who => i = j
        /\ \A t : Waiting(t)' => Waiting(t) /\ t # s
    BY <1>1, DequeueLeaves DEF LockInv, Unlock
  <1>4. Exclusion'
    BY <1>2 DEF LockInv, Exclusion, Conflict
  <1> QED
    BY <1>2, <1>3, <1>4 DEF LockInv, QueueInv

(* The server grants a waiter its lock. *)
LEMMA GrantStep ==
    ASSUME TypeOK, LockInv, NEW s \in Sessions, Grant(s)
    PROVE  /\ LockInv' /\ Waiting(s) /\ ~Waiting(s)'
           /\ \A t \in Sessions \ {s} : held'[t] = held[t] /\ (Waiting(t)' => Waiting(t))
  <1>0. held \in [Sessions -> Modes] /\ queue \in Seq(Waiters)
    BY DEF TypeOK, Waiters
  <1>1. PICK i \in DOMAIN queue :
           /\ queue[i].who = s /\ IsNext(i)
           /\ held' = [held EXCEPT ![s] = queue[i].mode]
    BY DEF Grant
  <1> DEFINE mode == queue[i].mode
  <1>2. \A t \in Sessions \ {s} : ~Conflict(mode, held[t]) /\ ~Conflict(held[t], mode)
    BY <1>1 DEF IsNext, CanGrant, Conflict
  <1> HIDE DEF mode
  <1>3. \A t \in Sessions : held'[t] = IF t = s THEN mode ELSE held[t]
    BY <1>0, <1>1 DEF mode
  <1>4. /\ \A j, k \in DOMAIN queue' : queue'[j].who = queue'[k].who => j = k
        /\ \A t : Waiting(t)' => Waiting(t) /\ t # s
    BY <1>0, DequeueLeaves DEF LockInv, Grant
  <1>5. Exclusion'
    BY <1>2, <1>3 DEF LockInv, Exclusion, Conflict
  <1>6. Waiting(s)
    BY <1>1 DEF Waiting
  <1> QED
    BY <1>3, <1>4, <1>5, <1>6 DEF LockInv, QueueInv

(* Where the cycle and the maintenance stand tells what they hold: nothing   *)
(* between their transactions, and from TRUNCATE to the commit the lock that *)
(* excludes everyone.                                                        *)
CycleInv ==
    /\ pc \in {"idle", "staged", "verify"} => held["cycle"] = "none" /\ ~Waiting("cycle")
    /\ pc \in {"insert", "commit"} => held["cycle"] = "exclusive"
MaintInv ==
    mpc \in {"start", "select", "history", "prune"} =>
        held["maint"] = "none" /\ ~Waiting("maint")

SessionInv == TypeOK /\ LockInv /\ CycleInv /\ MaintInv

(* What a session does to the lock leaves the others' part of it. *)
Untouched(t) == held'[t] = held[t] /\ (Waiting(t)' => Waiting(t))

(* The cycle's part. *)
LEMMA CycleLocks ==
    ASSUME SessionInv, CycleStep
    PROVE  LockInv' /\ CycleInv' /\ \A t \in Sessions \ {"cycle"} : Untouched(t)
  <1> USE DEF Goto, Untouched
  <1>0. /\ "cycle" \in Sessions /\ {"row", "exclusive"} \subseteq Modes
        /\ TypeOK /\ LockInv
    BY DEF Sessions, Modes, SessionInv
  <1>1. CASE Stage \/ InsertStaged \/ Truncate
    <2>1. UNCHANGED lockVars
      BY <1>1 DEF Stage, InsertStaged, Truncate
    <2>2. LockInv' /\ \A t \in Sessions : Untouched(t)
      BY <1>0, <2>1 DEF lockVars, LockInv, QueueInv, Exclusion, Waiting
    <2>3. CycleInv'
      BY <1>1, <2>1 DEF Stage, InsertStaged, Truncate, SessionInv, CycleInv, lockVars, Waiting
    <2> QED
      BY <2>2, <2>3
  <1>2. ASSUME pc \in {"staged", "verify"}, pc' = "idle", UNCHANGED lockVars
        PROVE  LockInv' /\ CycleInv' /\ \A t \in Sessions \ {"cycle"} : Untouched(t)
    BY <1>0, <1>2 DEF lockVars, SessionInv, LockInv, QueueInv, Exclusion, CycleInv, Waiting
  <1>3. ASSUME NEW mode \in {"row", "exclusive"}, pc \in {"staged", "verify"},
               pc' \in {"delta", "resync"}, Request("cycle", mode)
        PROVE  LockInv' /\ CycleInv' /\ \A t \in Sessions \ {"cycle"} : Untouched(t)
    <2>1. held["cycle"] = "none" /\ ~Waiting("cycle")
      BY <1>3 DEF SessionInv, CycleInv
    <2> QED
      BY <1>0, <1>3, <2>1, RequestStep DEF CycleInv
  <1>4. CASE ChoosePath \/ VerifyRegion
    BY <1>2, <1>3, <1>4 DEF ChoosePath, VerifyRegion
  <1>5. CASE ApplyDelta \/ ApplyDrifts \/ CommitResync \/ ApplyFails \/ LockTimeout
    <2>1. Unlock("cycle") /\ pc' \in {"idle", "verify"}
      BY <1>5 DEF ApplyDelta, ApplyDrifts, CommitResync, ApplyFails, LockTimeout,
                  Rollback, Acknowledged, Unheard
    <2> QED
      BY <1>0, <2>1, UnlockStep DEF CycleInv
  <1> QED
    BY <1>1, <1>4, <1>5 DEF CycleStep

(* The maintenance's part. *)
LEMMA MaintLocks ==
    ASSUME SessionInv, MaintStep
    PROVE  LockInv' /\ MaintInv' /\ \A t \in Sessions \ {"maint"} : Untouched(t)
  <1> USE DEF MGoto, Untouched
  <1>0. "maint" \in Sessions /\ "analyze" \in Modes /\ TypeOK /\ LockInv
    BY DEF Sessions, Modes, SessionInv
  <1>1. CASE Analyze
    <2>1. held["maint"] = "none" /\ ~Waiting("maint")
      BY <1>1 DEF Analyze, SessionInv, MaintInv
    <2> QED
      BY <1>0, <1>1, <2>1, RequestStep DEF Analyze, MaintInv
  <1>2. CASE AnalyzeOrders \/ AnalyzeFails
    <2>1. Unlock("maint")
      BY <1>2 DEF AnalyzeOrders, AnalyzeFails
    <2> QED
      BY <1>0, <2>1, UnlockStep DEF MaintInv
  <1>3. CASE AnalyzeHistory \/ PruneTick \/ Prune \/ PruneFails
    <2>1. UNCHANGED lockVars /\ mpc \in {"history", "select", "prune"}
      BY <1>3 DEF AnalyzeHistory, PruneTick, Prune, PruneFails
    <2> QED
      BY <1>0, <2>1 DEF lockVars, SessionInv, LockInv, QueueInv, Exclusion, MaintInv, Waiting
  <1> QED
    BY <1>1, <1>2, <1>3 DEF MaintStep

(* What the cycle and the maintenance hold fits where they stand, and locks  *)
(* that conflict are never held together.                                    *)
LEMMA SessionStep ==
    ASSUME SessionInv, [Next]_vars
    PROVE  SessionInv'
  <1>0. /\ {"cycle", "maint"} \subseteq Sessions /\ Readers \subseteq Sessions
        /\ Readers \cap {"cycle", "maint"} = {} /\ "share" \in Modes
        /\ TypeOK /\ LockInv
    BY StoreAssumption DEF Sessions, Modes, SessionInv
  <1>1. TypeOK'
    BY <1>0, CycleTypes, OtherTypes DEF Next
  <1>2. ASSUME Untouched("cycle"), UNCHANGED pc
        PROVE  CycleInv'
    BY <1>2 DEF SessionInv, CycleInv, Untouched
  <1>3. ASSUME Untouched("maint"), UNCHANGED mpc
        PROVE  MaintInv'
    BY <1>3 DEF SessionInv, MaintInv, Untouched
  <1>4. ASSUME UNCHANGED <<lockVars, pc, mpc>>
        PROVE  LockInv' /\ CycleInv' /\ MaintInv'
    BY <1>4 DEF lockVars, SessionInv, LockInv, QueueInv, Exclusion, CycleInv, MaintInv, Waiting
  <1>5. ASSUME NEW r \in Readers, Begin(r) PROVE LockInv' /\ CycleInv' /\ MaintInv'
    BY <1>4, <1>5 DEF Begin, cycleVars, maintVars
  <1>6. ASSUME NEW r \in Readers, Ask(r) \/ EndRead(r)
        PROVE  LockInv' /\ CycleInv' /\ MaintInv'
    <2>1. UNCHANGED <<pc, mpc>>
      BY <1>6 DEF Ask, EndRead, cycleVars, maintVars
    <2>2. LockInv' /\ \A t \in Sessions \ {r} : Untouched(t)
      BY <1>0, <1>6, RequestStep, UnlockStep DEF Ask, EndRead, Untouched
    <2> QED
      BY <1>0, <1>2, <1>3, <2>1, <2>2
  <1>7. ASSUME NEW s \in Sessions, Grant(s) PROVE LockInv' /\ CycleInv' /\ MaintInv'
    <2>1. UNCHANGED <<pc, mpc>>
      BY <1>7 DEF Grant, cycleVars, maintVars
    <2>2. /\ LockInv' /\ Waiting(s) /\ held[s] = "none"
          /\ \A t \in Sessions \ {s} : Untouched(t)
      BY <1>0, <1>7, GrantStep DEF Untouched, LockInv, QueueInv
    <2>3. CycleInv'
      <3>1. CASE s = "cycle"
        BY <2>1, <2>2, <3>1 DEF SessionInv, CycleInv
      <3> QED
        BY <1>0, <1>2, <2>1, <2>2, <3>1
    <2>4. MaintInv'
      <3>1. CASE s = "maint"
        BY <2>1, <2>2, <3>1 DEF SessionInv, MaintInv
      <3> QED
        BY <1>0, <1>3, <2>1, <2>2, <3>1
    <2> QED
      BY <2>2, <2>3, <2>4
  <1>8. CASE CycleStep
    <2>1. UNCHANGED mpc
      BY <1>8 DEF CycleStep, Stage, ChoosePath, ApplyDelta, ApplyDrifts, VerifyRegion, Truncate,
                  InsertStaged, CommitResync, ApplyFails, LockTimeout, Rollback, maintVars
    <2> QED
      BY <1>0, <1>1, <1>3, <1>8, <2>1, CycleLocks DEF SessionInv
  <1>9. CASE MaintStep
    <2>1. UNCHANGED pc
      BY <1>9 DEF MaintStep, Analyze, AnalyzeOrders, AnalyzeHistory, AnalyzeFails,
                  PruneTick, Prune, PruneFails, cycleVars
    <2> QED
      BY <1>0, <1>1, <1>2, <1>9, <2>1, MaintLocks DEF SessionInv
  <1>10. CASE Age \/ UNCHANGED vars
    <2>1. UNCHANGED <<lockVars, pc, mpc>>
      BY <1>10 DEF Age, vars, cycleVars, maintVars
    <2> QED
      BY <1>1, <1>4, <2>1 DEF SessionInv
  <1> QED
    BY <1>1, <1>5, <1>6, <1>7, <1>8, <1>9, <1>10 DEF Next, SessionInv

(* What a consumer that keeps its snapshot has read it reads again: only a   *)
(* resync's commit cuts snapshots, and the lock it commits under is one that *)
(* no consumer shares (ResyncRegion).                                        *)
LEMMA ReadAgain ==
    ASSUME SessionInv, DOMAIN view \subseteq Readers, [Next]_vars,
           NEW q \in DOMAIN view, held[q] = "share", held'[q] = "share"
    PROVE  view'[q] = view[q]
  <1>0. /\ {"cycle", "maint"} \subseteq Sessions /\ Readers \subseteq Sessions
        /\ Readers \cap {"cycle", "maint"} = {} /\ TypeOK /\ LockInv /\ q \in Sessions
    BY StoreAssumption DEF Sessions, SessionInv
  <1>1. ASSUME NEW r \in Readers, Begin(r) PROVE view'[q] = view[q]
    BY <1>1 DEF Begin
  <1>2. ASSUME NEW r \in Readers, EndRead(r) PROVE view'[q] = view[q]
    <2>1. held'[r] = "none"
      BY <1>0, <1>2, UnlockStep DEF EndRead
    <2> QED
      BY <1>2, <2>1 DEF EndRead
  <1>3. CASE CommitResync
    <2>1. held["cycle"] = "exclusive"
      BY <1>3 DEF CommitResync, SessionInv, CycleInv
    <2>2. q # "cycle" /\ ~Conflict(held["cycle"], held[q])
      BY <1>0 DEF LockInv, Exclusion
    <2> QED
      BY <2>1, <2>2 DEF Conflict
  <1>4. CASE \/ \E r \in Readers : Ask(r)
             \/ \E s \in Sessions : Grant(s)
             \/ MaintStep \/ Age \/ UNCHANGED vars
    BY <1>4 DEF Ask, Grant, MaintStep, Analyze, AnalyzeOrders, AnalyzeHistory, AnalyzeFails,
                PruneTick, Prune, PruneFails, Age, vars, readVars
  <1>5. CASE \/ Stage \/ ChoosePath \/ ApplyDelta \/ ApplyDrifts \/ VerifyRegion
             \/ Truncate \/ InsertStaged \/ ApplyFails \/ LockTimeout
    BY <1>5 DEF Stage, ChoosePath, ApplyDelta, ApplyDrifts, VerifyRegion, Truncate,
                InsertStaged, ApplyFails, LockTimeout, Rollback, readVars
  <1> QED
    BY <1>1, <1>2, <1>3, <1>4, <1>5 DEF Next, CycleStep

(* A consumer that keeps its snapshot reads the partition again as it read   *)
(* it first: a resync's TRUNCATE waits for its lock (ResyncRegion).          *)
THEOREM SnapshotReadsRepeat == Spec => ReadsRepeat
  <1>1. Init => SessionInv
    <2> SUFFICES ASSUME Init PROVE SessionInv
      OBVIOUS
    <2>1. TypeOK
      BY InitTypes
    <2>2. /\ {"cycle", "maint"} \subseteq Sessions
          /\ \A s \in Sessions : held[s] = "none" /\ ~Waiting(s)
          /\ DOMAIN queue = {}
      BY DEF Init, Sessions, Waiting
    <2> QED
      BY <2>1, <2>2 DEF Init, SessionInv, LockInv, QueueInv, Exclusion, Conflict, CycleInv, MaintInv
  <1>2. SessionInv /\ [Next]_vars => SessionInv'
    BY SessionStep
  <1>3. SessionInv => DOMAIN view \subseteq Readers
    BY StoreAssumption DEF SessionInv, TypeOK
  <1>4. SessionInv /\ [Next]_vars =>
           [\A r \in DOMAIN view :
               held[r] = "share" /\ held'[r] = "share" => view'[r] = view[r]]_vars
    BY <1>3, ReadAgain
  <1> QED
    BY <1>1, <1>2, <1>4, PTL DEF Spec, ReadsRepeat

=============================================================================
