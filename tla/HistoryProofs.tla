--------------------------- MODULE HistoryProofs ---------------------------
(* Importing a growing file by its watermark loses nothing, for any days,    *)
(* pairs, windows, file sizes and failures.                                  *)
EXTENDS History, FiniteSetTheorems, TLAPS

-----------------------------------------------------------------------------
(* The operators of Parse and ImportHistory *)

(* A file has a newest record, and so has each pair in it. *)
HasLast(f) == f # {} => \E r \in f : \A o \in f : o.stamp <= r.stamp
HasNewest(f) ==
    \A k \in Keys : (\E r \in f : r.key = k) =>
        \E r \in f : r.key = k /\ \A o \in f : o.key = k => o.stamp <= r.stamp

(* S is what the file was when it was read: nothing after it is older. *)
Precedes(S, f) == \A r \in f \ S : \A o \in S : o.stamp <= r.stamp

(* A record has a key and a positive stamp. *)
LEMMA RecordType ==
  ASSUME NEW r \in Records
  PROVE  r.key \in Keys /\ r.stamp \in 1..MaxStamp /\ r.stamp \in Nat
  BY HistoryAssumption DEF Records

(* Watermark is the stamp of the newest record. *)
LEMMA WatermarkFacts ==
  ASSUME NEW f \in SUBSET Records, HasLast(f)
  PROVE  /\ f = {} => Watermark(f) = 0
         /\ f # {} => \E r \in f : r.stamp = Watermark(f)
         /\ \A o \in f : o.stamp <= Watermark(f)
         /\ Watermark(f) \in 0..MaxStamp
  <1>1. CASE f = {}
    BY <1>1, HistoryAssumption DEF Watermark
  <1>2. CASE f # {}
    <2> DEFINE last == CHOOSE r \in f : \A o \in f : o.stamp <= r.stamp
    <2>1. last \in f /\ \A o \in f : o.stamp <= last.stamp
      BY <1>2 DEF HasLast
    <2>2. Watermark(f) = last.stamp
      BY <1>2 DEF Watermark
    <2>3. last.stamp \in 1..MaxStamp
      BY <2>1, RecordType
    <2> HIDE DEF last
    <2> QED
      BY <1>2, <2>1, <2>2, <2>3, HistoryAssumption
  <1> QED
    BY <1>1, <1>2

(* NewestStamp is the stamp of a pair's newest record, 0 if there is none. *)
LEMMA NewestFacts ==
  ASSUME NEW f \in SUBSET Records, HasNewest(f), NEW k \in Keys
  PROVE  /\ (\A r \in f : r.key # k) => Book!NewestStamp(f, k) = 0
         /\ (\E r \in f : r.key = k) =>
                \E r \in f : r.key = k /\ r.stamp = Book!NewestStamp(f, k)
         /\ \A o \in f : o.key = k => o.stamp <= Book!NewestStamp(f, k)
         /\ Book!NewestStamp(f, k) \in 0..MaxStamp
  <1> DEFINE of == {r.stamp : r \in {x \in f : x.key = k}}
             n == CHOOSE m \in of : \A o \in of : o <= m
  <1>1. CASE \A r \in f : r.key # k
    BY <1>1, HistoryAssumption DEF Book!NewestStamp
  <1>2. CASE \E r \in f : r.key = k
    <2>1. PICK r \in f : r.key = k /\ \A o \in f : o.key = k => o.stamp <= r.stamp
      BY <1>2 DEF HasNewest
    <2>2. r.stamp \in of /\ \A o \in of : o <= r.stamp
      BY <2>1
    <2>3. n \in of /\ \A o \in of : o <= n
      BY <2>2
    <2>4. Book!NewestStamp(f, k) = n
      BY <2>2 DEF Book!NewestStamp
    <2>5. PICK q \in f : q.key = k /\ q.stamp = n
      BY <2>3
    <2>6. n \in 1..MaxStamp
      BY <2>5, RecordType
    <2>7. \A o \in f : o.key = k => o.stamp <= n
      BY <2>3
    <2> HIDE DEF n, of
    <2> QED
      BY <1>2, <2>4, <2>5, <2>6, <2>7, HistoryAssumption
  <1> QED
    BY <1>1, <1>2

(* The kept rows of a file have a newest record per pair, too. *)
LEMMA KeptNewest ==
  ASSUME NEW C \in SUBSET Records, HasNewest(C), NEW after \in Nat
  PROVE  Kept(C, after) \in SUBSET Records /\ HasNewest(Kept(C, after))
  <1>1. Kept(C, after) \subseteq C
    BY DEF Kept
  <1>2. ASSUME NEW k \in Keys, NEW r \in Kept(C, after), r.key = k
        PROVE  \E m \in Kept(C, after) :
                  m.key = k /\ \A o \in Kept(C, after) : o.key = k => o.stamp <= m.stamp
    <2>1. PICK m \in C : m.key = k /\ \A o \in C : o.key = k => o.stamp <= m.stamp
      BY <1>1, <1>2 DEF HasNewest
    <2>2. r.stamp <= m.stamp /\ r.stamp \in Nat /\ m.stamp \in Nat
      BY <1>1, <1>2, <2>1, RecordType
    <2>3. m \in Kept(C, after)
      BY <1>2, <2>1, <2>2 DEF Kept
    <2> QED
      BY <1>1, <2>1, <2>3
  <1> QED
    BY <1>1, <1>2 DEF HasNewest

(* Upserting what a later state of the file holds from the watermark on      *)
(* gives what importing the whole of it would give (Filter.After is          *)
(* inclusive, the watermark is taken over the whole file).                   *)
LEMMA UpsertIsWhole ==
  ASSUME NEW C \in SUBSET Records, NEW S \in SUBSET C, Precedes(S, C),
         HasLast(S), HasNewest(S), HasNewest(C)
  PROVE  /\ Upsert(Kept(C, Watermark(S)), Book!WholeFile(S)) = Book!WholeFile(C)
         /\ \A k \in Regions : Book!NewestStamp(S, k) <= Book!NewestStamp(C, k)
  <1> DEFINE K == Kept(C, Watermark(S))
  <1>1. /\ S \in SUBSET Records /\ Watermark(S) \in Nat
        /\ \A o \in S : o.stamp <= Watermark(S)
        /\ S = {} => Watermark(S) = 0
        /\ S # {} => \E r \in S : r.stamp = Watermark(S)
    BY WatermarkFacts, HistoryAssumption
  <1>2. K \in SUBSET Records /\ HasNewest(K)
    BY <1>1, KeptNewest
  <1>3. ASSUME NEW k \in Regions
        PROVE  /\ Book!NewestStamp(S, k) <= Book!NewestStamp(C, k)
               /\ (\E r \in K : r.key = k) => Book!NewestStamp(K, k) = Book!NewestStamp(C, k)
               /\ ~(\E r \in K : r.key = k) => Book!NewestStamp(S, k) = Book!NewestStamp(C, k)
    <2> DEFINE nS == Book!NewestStamp(S, k)
               nC == Book!NewestStamp(C, k)
               nK == Book!NewestStamp(K, k)
    <2>0. k \in Keys
      BY HistoryAssumption
    <2>1. /\ (\A r \in S : r.key # k) => nS = 0
          /\ (\E r \in S : r.key = k) => \E r \in S : r.key = k /\ r.stamp = nS
          /\ \A o \in S : o.key = k => o.stamp <= nS
          /\ nS \in Nat
      BY <1>1, <2>0, NewestFacts, HistoryAssumption
    <2>2. /\ (\A r \in C : r.key # k) => nC = 0
          /\ (\E r \in C : r.key = k) => \E r \in C : r.key = k /\ r.stamp = nC
          /\ \A o \in C : o.key = k => o.stamp <= nC
          /\ nC \in Nat
      BY <2>0, NewestFacts, HistoryAssumption
    <2>3. /\ (\E r \in K : r.key = k) => \E r \in K : r.key = k /\ r.stamp = nK
          /\ \A o \in K : o.key = k => o.stamp <= nK
          /\ nK \in Nat
      BY <1>2, <2>0, NewestFacts, HistoryAssumption
    <2> HIDE DEF nS, nC, nK
    <2>4. nS <= nC
      BY <2>1, <2>2
    <2>5. ASSUME \E r \in K : r.key = k PROVE nK = nC
      <3>1. nK <= nC
        BY <2>5, <2>2, <2>3 DEF Kept
      <3>2. PICK m \in C : m.key = k /\ m.stamp = nC
        BY <2>5, <2>2 DEF Kept
      <3>3. PICK r \in K : r.key = k
        BY <2>5
      <3>4. r \in C /\ r.stamp <= m.stamp /\ r.stamp \in Nat /\ m.stamp \in Nat
        BY <3>2, <3>3, <2>2, RecordType DEF Kept
      <3>5. m \in K
        BY <1>1, <3>2, <3>3, <3>4 DEF Kept
      <3> QED
        BY <3>1, <3>2, <3>5, <2>2, <2>3
    <2>6. ASSUME ~(\E r \in K : r.key = k) PROVE nS = nC
      <3>1. ASSUME NEW r \in C, r.key = k PROVE r \in S
        <4>1. SUFFICES ASSUME r \notin S PROVE FALSE
          OBVIOUS
        <4>2. r.stamp \in Nat /\ r.stamp >= Watermark(S)
          BY <1>1, <4>1, RecordType DEF Precedes
        <4>3. r \in K
          BY <1>1, <3>1, <4>2 DEF Kept
        <4> QED
          BY <2>6, <3>1, <4>3
      <3>2. CASE \E r \in C : r.key = k
        BY <3>1, <3>2, <2>1, <2>2, <2>4
      <3>3. CASE \A r \in C : r.key # k
        BY <3>3, <2>1, <2>2
      <3> QED
        BY <3>2, <3>3
    <2> QED
      BY <2>4, <2>5, <2>6 DEF nS, nC, nK
  <1>4. Upsert(K, Book!WholeFile(S)) = Book!WholeFile(C)
    BY <1>3 DEF Upsert, Book!WholeFile
  <1> QED
    BY <1>3, <1>4

-----------------------------------------------------------------------------
(* The inductive invariant *)

(* A state of the day's file, past or present. *)
IsCut(S, d) ==
    S \subseteq file[d] /\ Precedes(S, file[d]) /\ HasLast(S) /\ HasNewest(S)

(* Files are finite, so that each has its newest records. *)
FileInv == \A d \in Days : IsFiniteSet(file[d]) /\ HasLast(file[d]) /\ HasNewest(file[d])

(* The database holds what the file was at some time: S. *)
Recorded(S, d) ==
    /\ table[d] = Book!WholeFile(S)
    /\ day[d].watermark = Watermark(S)
    /\ day[d].total <= Cardinality(S)

(* What is about to be written was parsed from a later state of the file. *)
Read(S, d) ==
    pc = "write" => \A t \in due : IsNext(t) /\ t.day = d =>
        \E C : /\ IsCut(C, d) /\ S \subseteq C
               /\ t.total <= Cardinality(C) /\ parsed = Parse(C, t.after)

(* Every day of the database is such a state. *)
DayInv == \A d \in Days : \E S : IsCut(S, d) /\ Recorded(S, d) /\ Read(S, d)

(* A task carries the watermark of its day until its day is written, and a   *)
(* count the file has reached.                                               *)
TaskInv ==
    /\ \A t, u \in due : t.day = u.day => t = u
    /\ \A t \in due : /\ t.total <= Cardinality(file[t.day])
                      /\ t.after = day[t.day].watermark \/ (pc = "sleep" /\ IsNext(t))
    /\ \A d \in Days : totals[d] <= Cardinality(file[d])

HistoryInv == TypeOK /\ FileInv /\ DayInv /\ TaskInv

(* Nothing is read from an empty file. *)
LEMMA EmptyFile ==
  /\ Book!WholeFile({}) = [k \in Regions |-> 0]
  /\ Watermark({}) = 0
  /\ HasLast({}) /\ HasNewest({})
  /\ IsFiniteSet({}) /\ Cardinality({}) = 0
  BY FS_EmptySet DEF Book!WholeFile, Book!NewestStamp, Watermark, HasLast, HasNewest

(* The initial state satisfies the invariant. *)
LEMMA HistoryInit == Init => HistoryInv
  <1> SUFFICES ASSUME Init PROVE HistoryInv
    OBVIOUS
  <1>1. TypeOK
    <2>1. Unseen \in EverefDay /\ Nothing \in [rows : SUBSET Records, watermark : 0..MaxStamp]
      BY HistoryAssumption DEF Unseen, EverefDay, Nothing
    <2>2. today \in Days /\ faults \in 0..MaxFaults
      BY HistoryAssumption DEF Init, Days
    <2>3. \A d \in Days : 0 \in 0..MaxStamp
      BY HistoryAssumption
    <2> QED
      BY <2>1, <2>2, <2>3 DEF Init, TypeOK, NoDays, NoTotals, Labels
  <1>2. FileInv
    BY EmptyFile DEF Init, FileInv
  <1>3. ASSUME NEW d \in Days PROVE IsCut({}, d) /\ Recorded({}, d) /\ Read({}, d)
    BY EmptyFile DEF Init, IsCut, Precedes, Recorded, Read, NoDays, Unseen
  <1>4. TaskInv
    BY EmptyFile DEF Init, TaskInv, NoTotals
  <1> QED
    BY <1>1, <1>2, <1>3, <1>4 DEF HistoryInv, DayInv

(* The watermark of a cut is one of its stamps. *)
LEMMA CutFacts ==
  ASSUME TypeOK, FileInv, NEW d \in Days, NEW S, IsCut(S, d)
  PROVE  /\ S \in SUBSET Records /\ IsFiniteSet(S)
         /\ Cardinality(S) \in Nat /\ Cardinality(S) <= Cardinality(file[d])
         /\ Watermark(S) \in 0..MaxStamp
  <1>1. S \in SUBSET Records /\ S \subseteq file[d] /\ HasLast(S)
    BY DEF TypeOK, IsCut
  <1>2. IsFiniteSet(file[d])
    BY DEF FileInv
  <1> QED
    BY <1>1, <1>2, FS_Subset, FS_CardinalityType, WatermarkFacts

(* What is parsed has its type. *)
LEMMA ParseType ==
  ASSUME TypeOK, FileInv, NEW d \in Days, NEW after \in Nat
  PROVE  Parse(file[d], after) \in [rows : SUBSET Records, watermark : 0..MaxStamp]
  <1>1. file[d] \in SUBSET Records /\ HasLast(file[d])
    BY DEF TypeOK, FileInv
  <1> QED
    BY <1>1, WatermarkFacts DEF Parse, Kept

(* The import of a task: the table becomes what a later state of the file,   *)
(* C, would give as a whole.                                                 *)
LEMMA ImportGivesCut ==
  ASSUME HistoryInv, pc = "write", NEW t \in due, IsNext(t), ImportHistory(t)
  PROVE  \E C : /\ IsCut(C, t.day)
                /\ table' = [table EXCEPT ![t.day] = Book!WholeFile(C)]
                /\ day' = [day EXCEPT ![t.day] =
                      [seen |-> TRUE, total |-> t.total, watermark |-> Watermark(C)]]
                /\ t.total <= Cardinality(C)
                /\ \A k \in Regions : table[t.day][k] <= Book!NewestStamp(C, k)
  <1>1. t.day \in Days /\ t.after = day[t.day].watermark
    BY DEF HistoryInv, TypeOK, TaskInv, Tasks
  <1>2. PICK S : IsCut(S, t.day) /\ Recorded(S, t.day) /\ Read(S, t.day)
    BY <1>1 DEF HistoryInv, DayInv
  <1>3. PICK C : /\ IsCut(C, t.day) /\ S \subseteq C
                 /\ t.total <= Cardinality(C) /\ parsed = Parse(C, t.after)
    BY <1>2 DEF Read
  <1>4. C \in SUBSET Records /\ Precedes(S, C) /\ HasLast(S) /\ HasNewest(S) /\ HasNewest(C)
    BY <1>1, <1>2, <1>3 DEF IsCut, Precedes, HistoryInv, TypeOK
  <1>5. /\ Upsert(Kept(C, Watermark(S)), Book!WholeFile(S)) = Book!WholeFile(C)
        /\ \A k \in Regions : Book!NewestStamp(S, k) <= Book!NewestStamp(C, k)
    BY <1>3, <1>4, UpsertIsWhole
  <1>6. /\ table[t.day] = Book!WholeFile(S) /\ t.after = Watermark(S)
        /\ parsed.rows = Kept(C, Watermark(S)) /\ parsed.watermark = Watermark(C)
    BY <1>1, <1>2, <1>3 DEF Recorded, Parse
  <1>7. \A k \in Regions : table[t.day][k] <= Book!NewestStamp(C, k)
    BY <1>5, <1>6 DEF Book!WholeFile
  <1>8. table' = [table EXCEPT ![t.day] = Book!WholeFile(C)]
    BY <1>5, <1>6 DEF ImportHistory
  <1>9. day' = [day EXCEPT ![t.day] =
                  [seen |-> TRUE, total |-> t.total, watermark |-> Watermark(C)]]
    BY <1>6 DEF ImportHistory
  <1> QED
    BY <1>3, <1>7, <1>8, <1>9

-----------------------------------------------------------------------------
(* Steps that share what they leave alone or how they end *)

(* Nothing is lost while neither the file nor the database changes. *)
LEMMA DaysFrame ==
  ASSUME DayInv, UNCHANGED <<file, table, day>>, pc' # "write"
  PROVE  DayInv'
  BY DEF DayInv, IsCut, Recorded, Read

(* The files stay as they are. *)
LEMMA FileFrame ==
  ASSUME FileInv, UNCHANGED file
  PROVE  FileInv'
  BY DEF FileInv

(* once has returned: no task is left. *)
LEMMA TasksGone ==
  ASSUME FileInv, UNCHANGED file, due' = {}, totals' = NoTotals
  PROVE  TaskInv'
  BY FS_CardinalityType DEF FileInv, TaskInv, NoTotals

(* The loop goes on: the task that is dropped is the only one whose day may  *)
(* have been written.                                                        *)
LEMMA TasksGoOn ==
  ASSUME TypeOK, TaskInv, UNCHANGED file, Continue,
         \A t \in due : ~IsNext(t) => day'[t.day] = day[t.day]
  PROVE  TaskInv'
  <1>1. PICK n \in due : IsNext(n) /\ due' = due \ {n}
    BY DEF Continue, IsNext
  <1>2. \A t \in due : t.day \in Int
    BY HistoryAssumption DEF TypeOK, Tasks, Days
  <1>3. ASSUME NEW t \in due' PROVE t \in due /\ ~IsNext(t)
    BY <1>1, <1>2 DEF IsNext, TaskInv
  <1>4. \A t \in due' : t.after = day[t.day].watermark /\ day'[t.day] = day[t.day]
    BY <1>3 DEF TaskInv
  <1> QED
    BY <1>1, <1>3, <1>4 DEF TaskInv, Continue

(* EVE Ref appends a record: every cut stays one. *)
LEMMA GrowStep ==
  ASSUME HistoryInv, NEW d \in Days, Grow(d)
  PROVE  HistoryInv'
  <1> USE DEF HistoryInv
  <1>1. PICK r \in Records \ file[d] :
           /\ \A o \in file[d] : o.stamp <= r.stamp
           /\ file' = [file EXCEPT ![d] = @ \cup {r}]
    BY DEF Grow
  <1>2. UNCHANGED <<today, faults, years, table, day, pc, stopping, totals, due, parsed, firing>>
    BY DEF Grow, dbVars, procVars
  <1>3. TypeOK'
    BY <1>1, <1>2 DEF TypeOK
  <1>4. /\ file'[d] = file[d] \cup {r}
        /\ \A e \in Days : e # d => file'[e] = file[e]
    BY <1>1 DEF TypeOK
  <1>5. r.stamp \in Nat /\ \A o \in file[d] : o.stamp \in Nat
    BY RecordType DEF TypeOK
  <1>6. FileInv'
    <2>1. IsFiniteSet(file'[d])
      BY <1>4, FS_AddElement DEF FileInv
    <2>2. HasLast(file'[d])
      BY <1>1, <1>4, <1>5 DEF HasLast
    <2>3. HasNewest(file'[d])
      <3>1. ASSUME NEW k \in Keys, \E q \in file'[d] : q.key = k
            PROVE  \E q \in file'[d] : q.key = k
                      /\ \A o \in file'[d] : o.key = k => o.stamp <= q.stamp
        <4>1. CASE r.key = k
          BY <1>1, <1>4, <1>5, <4>1
        <4>2. CASE r.key # k
          BY <1>4, <3>1, <4>2 DEF FileInv, HasNewest
        <4> QED
          BY <4>1, <4>2
      <3> QED
        BY <3>1 DEF HasNewest
    <2> QED
      BY <1>4, <2>1, <2>2, <2>3 DEF FileInv
  <1>7. ASSUME NEW e \in Days, NEW S, IsCut(S, e) PROVE IsCut(S, e)'
    <2>1. S \subseteq file'[e] /\ HasLast(S) /\ HasNewest(S)
      BY <1>4, <1>7 DEF IsCut
    <2>2. Precedes(S, file'[e])
      BY <1>1, <1>4, <1>7 DEF IsCut, Precedes
    <2> QED
      BY <2>1, <2>2 DEF IsCut
  <1>8. DayInv'
    <2> SUFFICES ASSUME NEW e \in Days
                 PROVE  \E S : (IsCut(S, e) /\ Recorded(S, e) /\ Read(S, e))'
      BY DEF DayInv
    <2>1. PICK S : IsCut(S, e) /\ Recorded(S, e) /\ Read(S, e)
      BY DEF DayInv
    <2>2. IsCut(S, e)' /\ Recorded(S, e)'
      BY <1>2, <1>7, <2>1 DEF Recorded
    <2>3. Read(S, e)'
      <3> SUFFICES ASSUME pc' = "write", NEW t \in due', IsNext(t)', t.day = e
                   PROVE  \E C : /\ IsCut(C, e)' /\ S \subseteq C
                                 /\ t.total <= Cardinality(C) /\ parsed' = Parse(C, t.after)
        BY DEF Read
      <3>1. PICK C : /\ IsCut(C, e) /\ S \subseteq C
                     /\ t.total <= Cardinality(C) /\ parsed = Parse(C, t.after)
        BY <1>2, <2>1 DEF Read, IsNext
      <3> QED
        BY <1>2, <1>7, <3>1
    <2> QED
      BY <2>2, <2>3
  <1>9. TaskInv'
    <2>1. /\ Cardinality(file[d]) \in Nat /\ Cardinality(file'[d]) \in Nat
          /\ Cardinality(file[d]) <= Cardinality(file'[d])
      BY <1>4, <1>6, FS_Subset, FS_CardinalityType DEF FileInv
    <2>2. \A e \in Days : \A n \in Nat :
             n <= Cardinality(file[e]) => n <= Cardinality(file'[e])
      BY <1>4, <2>1
    <2>3. /\ \A t \in due : t.day \in Days /\ t.total \in Nat
          /\ \A e \in Days : totals[e] \in Nat
      BY DEF TypeOK, Tasks
    <2> QED
      BY <1>2, <2>2, <2>3 DEF TaskInv, IsNext
  <1> QED
    BY <1>3, <1>6, <1>8, <1>9

(* A year is a number. *)
LEMMA YearType == \A n \in Int : Year(n) \in Int
  BY HistoryAssumption DEF Year

(* An import leaves every day with a cut. *)
LEMMA ImportKeepsDays ==
  ASSUME HistoryInv, pc = "write", NEW t \in due, IsNext(t), ImportHistory(t),
         UNCHANGED file, pc' # "write"
  PROVE  /\ DayInv'
         /\ years' \subseteq Int
         /\ table' \in [Days -> [Regions -> 0..MaxStamp]]
         /\ day' \in [Days -> EverefDay]
         /\ \A u \in due : ~IsNext(u) => day'[u.day] = day[u.day]
  <1> USE DEF HistoryInv
  <1>1. t \in Tasks /\ t.day \in Days /\ t.total \in Nat /\ t.day \in Int
    BY HistoryAssumption DEF TypeOK, Tasks, Days
  <1>2. PICK C : /\ IsCut(C, t.day)
                 /\ table' = [table EXCEPT ![t.day] = Book!WholeFile(C)]
                 /\ day' = [day EXCEPT ![t.day] =
                       [seen |-> TRUE, total |-> t.total, watermark |-> Watermark(C)]]
                 /\ t.total <= Cardinality(C)
                 /\ \A k \in Regions : table[t.day][k] <= Book!NewestStamp(C, k)
    BY ImportGivesCut
  <1>3. C \in SUBSET Records /\ Watermark(C) \in 0..MaxStamp /\ HasNewest(C)
    BY <1>1, <1>2, CutFacts DEF IsCut
  <1>4. Book!WholeFile(C) \in [Regions -> 0..MaxStamp]
    BY <1>3, NewestFacts, HistoryAssumption DEF Book!WholeFile
  <1>5. years' \subseteq Int
    BY <1>1, YearType DEF ImportHistory, EnsureHistoryYear, TypeOK
  <1>6. table' \in [Days -> [Regions -> 0..MaxStamp]]
    BY <1>1, <1>2, <1>4 DEF TypeOK
  <1>7. day' \in [Days -> EverefDay]
    BY <1>1, <1>2, <1>3 DEF TypeOK, EverefDay
  <1>8. DayInv'
    <2> SUFFICES ASSUME NEW d \in Days
                 PROVE  \E S : (IsCut(S, d) /\ Recorded(S, d) /\ Read(S, d))'
      BY DEF DayInv
    <2>1. CASE d = t.day
      <3>1. IsCut(C, d)'
        BY <1>2, <2>1 DEF IsCut
      <3>2. /\ table'[d] = Book!WholeFile(C)
            /\ day'[d] = [seen |-> TRUE, total |-> t.total, watermark |-> Watermark(C)]
        BY <1>2, <2>1 DEF TypeOK
      <3>3. Recorded(C, d)'
        BY <1>2, <3>2 DEF Recorded
      <3> QED
        BY <3>1, <3>3 DEF Read
    <2>2. CASE d # t.day
      <3>1. PICK S : IsCut(S, d) /\ Recorded(S, d)
        BY DEF DayInv
      <3>2. table'[d] = table[d] /\ day'[d] = day[d]
        BY <1>2, <2>2 DEF TypeOK
      <3>3. IsCut(S, d)' /\ Recorded(S, d)'
        BY <3>1, <3>2 DEF IsCut, Recorded
      <3> QED
        BY <3>3 DEF Read
    <2> QED
      BY <2>1, <2>2
  <1>9. ASSUME NEW u \in due, ~IsNext(u) PROVE day'[u.day] = day[u.day]
    <2>1. u.day \in Days /\ u.day # t.day
      BY <1>9 DEF TypeOK, Tasks, TaskInv, IsNext
    <2> QED
      BY <1>2, <2>1 DEF TypeOK
  <1> QED
    BY <1>5, <1>6, <1>7, <1>8, <1>9

(* An import that is acknowledged: its task waits, done, for the pause. *)
LEMMA WriteDayStep ==
  ASSUME HistoryInv, WriteDay
  PROVE  HistoryInv'
  <1> USE DEF HistoryInv
  <1>1. PICK t \in due : IsNext(t) /\ ImportHistory(t)
    BY DEF WriteDay, IsNext
  <1>2. /\ pc = "write" /\ pc' = "sleep" /\ firing' \subseteq Sites
        /\ UNCHANGED <<file, today, faults, stopping, totals, due, parsed>>
    BY DEF WriteDay, worldVars, Goto, Ends, TypeOK
  <1>3. /\ DayInv' /\ years' \subseteq Int
        /\ table' \in [Days -> [Regions -> 0..MaxStamp]] /\ day' \in [Days -> EverefDay]
        /\ \A u \in due : ~IsNext(u) => day'[u.day] = day[u.day]
    BY <1>1, <1>2, ImportKeepsDays
  <1>4. TypeOK'
    BY <1>2, <1>3 DEF TypeOK, Labels
  <1>5. TaskInv'
    BY <1>2, <1>3 DEF TaskInv, IsNext
  <1> QED
    BY <1>2, <1>3, <1>4, <1>5, FileFrame

(* An import that commits unheard moves its day all the same. *)
LEMMA CommitUnheardStep ==
  ASSUME HistoryInv, CommitUnheard
  PROVE  HistoryInv'
  <1> USE DEF HistoryInv
  <1>1. PICK t \in due : IsNext(t) /\ ImportHistory(t)
    BY DEF CommitUnheard, IsNext
  <1>2. /\ pc = "write" /\ pc' = "open" /\ firing' \subseteq Sites /\ Continue
        /\ parsed' = Nothing /\ due' \subseteq due /\ faults' \in 0..MaxFaults
        /\ UNCHANGED <<file, today, stopping, totals>>
    BY HistoryAssumption
    DEF CommitUnheard, Goto, Note, Continue, Fault, TypeOK, Sites
  <1>3. /\ DayInv' /\ years' \subseteq Int
        /\ table' \in [Days -> [Regions -> 0..MaxStamp]] /\ day' \in [Days -> EverefDay]
        /\ \A u \in due : ~IsNext(u) => day'[u.day] = day[u.day]
    BY <1>1, <1>2, ImportKeepsDays
  <1>4. Nothing \in [rows : SUBSET Records, watermark : 0..MaxStamp]
    BY HistoryAssumption DEF Nothing
  <1>5. TypeOK'
    BY <1>2, <1>3, <1>4 DEF TypeOK, Labels
  <1>6. TaskInv'
    BY <1>2, <1>3, TasksGoOn
  <1> QED
    BY <1>2, <1>3, <1>5, <1>6, FileFrame

(* The file that is read is the later cut the import will be made of. *)
LEMMA OpenDayStep ==
  ASSUME HistoryInv, OpenDay
  PROVE  HistoryInv'
  <1> USE DEF HistoryInv
  <1>1. PICK t \in due : IsNext(t) /\ parsed' = Parse(file[t.day], t.after)
    BY DEF OpenDay, IsNext
  <1>2. /\ pc = "open" /\ pc' = "write"
        /\ UNCHANGED <<file, today, faults, years, table, day, stopping, totals, due, firing>>
    BY DEF OpenDay, worldVars, dbVars, Goto
  <1>3. t.day \in Days /\ t.after \in Nat /\ \A u \in due : u.day \in Int
    BY HistoryAssumption DEF TypeOK, Tasks, Days
  <1>4. TypeOK'
    BY <1>1, <1>2, <1>3, ParseType DEF TypeOK, Labels
  <1>5. TaskInv'
    BY <1>2 DEF TaskInv
  <1>6. DayInv'
    <2> SUFFICES ASSUME NEW d \in Days
                 PROVE  \E S : (IsCut(S, d) /\ Recorded(S, d) /\ Read(S, d))'
      BY DEF DayInv
    <2>1. PICK S : IsCut(S, d) /\ Recorded(S, d)
      BY DEF DayInv
    <2>2. IsCut(S, d)' /\ Recorded(S, d)'
      BY <1>2, <2>1 DEF IsCut, Recorded
    <2>3. Read(S, d)'
      <3> SUFFICES ASSUME NEW u \in due, IsNext(u), u.day = d
                   PROVE  \E C : /\ IsCut(C, d)' /\ S \subseteq C
                                 /\ u.total <= Cardinality(C) /\ parsed' = Parse(C, u.after)
        BY <1>2 DEF Read, IsNext
      <3>1. u = t
        BY <1>1, <1>3 DEF IsNext, TaskInv
      <3>2. PICK C : C = file[d]
        OBVIOUS
      <3>3. IsCut(C, d)' /\ S \subseteq C
        BY <1>2, <2>1, <3>2 DEF IsCut, Precedes, FileInv
      <3>4. u.total <= Cardinality(C) /\ parsed' = Parse(C, u.after)
        BY <1>1, <3>1, <3>2 DEF TaskInv
      <3> QED
        BY <3>3, <3>4
    <2> QED
      BY <2>2, <2>3
  <1> QED
    BY <1>2, <1>4, <1>5, <1>6, FileFrame

(* Steps after which once has returned, or the process is gone. *)
LEMMA ReturnSteps ==
  ASSUME HistoryInv, PollFails \/ LoadFails \/ EndPass \/ Exit \/ Crash
  PROVE  HistoryInv'
  <1> USE DEF HistoryInv
  <1>1. /\ UNCHANGED <<file, today, years, table, day>>
        /\ due' = {} /\ totals' = NoTotals /\ parsed' = Nothing
        /\ pc' \in {"idle", "down"}
    BY DEF PollFails, LoadFails, EndPass, Exit, Crash, Return, Gone, Goto, worldVars, dbVars
  <1>a. stopping' \in BOOLEAN
    BY DEF PollFails, LoadFails, EndPass, Exit, Crash, Gone, TypeOK
  <1>b. firing' \subseteq Sites
    BY DEF PollFails, LoadFails, EndPass, Exit, Crash, Gone, Note, Sites, TypeOK
  <1>c. faults' \in 0..MaxFaults
    BY HistoryAssumption
    DEF PollFails, LoadFails, EndPass, Exit, Crash, Failure, Fault, TypeOK, worldVars
  <1>2. NoTotals \in [Days -> Nat]
        /\ Nothing \in [rows : SUBSET Records, watermark : 0..MaxStamp]
    BY HistoryAssumption DEF NoTotals, Nothing
  <1>3. TypeOK'
    BY <1>1, <1>a, <1>b, <1>c, <1>2 DEF TypeOK, Labels
  <1> QED
    BY <1>1, <1>3, DaysFrame, FileFrame, TasksGone

(* Steps after which the loop goes on without having written. *)
LEMMA ContinueSteps ==
  ASSUME HistoryInv, DayNotFound \/ OpenFails \/ WriteFails \/ Space
  PROVE  HistoryInv'
  <1> USE DEF HistoryInv
  <1>1. years' \subseteq Int
    <2>1. \A t \in due : Year(t.day) \in Int
      BY YearType, HistoryAssumption DEF TypeOK, Tasks, Days
    <2>2. years' = years \/ \E t \in due : years' = years \cup {Year(t.day)}
      BY DEF DayNotFound, OpenFails, WriteFails, Space, EnsureHistoryYear, IsNext, dbVars
    <2> QED
      BY <2>1, <2>2 DEF TypeOK
  <1>2. UNCHANGED <<file, today, table, day, stopping>> /\ Continue
    BY DEF DayNotFound, OpenFails, WriteFails, Space, worldVars, dbVars
  <1>3. faults' \in 0..MaxFaults
    BY HistoryAssumption
    DEF DayNotFound, OpenFails, WriteFails, Space, Failure, Fault, TypeOK, worldVars
  <1>4. firing' \subseteq Sites
    BY DEF DayNotFound, OpenFails, WriteFails, Space, Note, Sites, TypeOK
  <1>5. pc' = "open" /\ due' \subseteq due /\ parsed' = Nothing /\ UNCHANGED totals
    BY <1>2 DEF Continue, Goto
  <1>6. Nothing \in [rows : SUBSET Records, watermark : 0..MaxStamp]
    BY HistoryAssumption DEF Nothing
  <1>7. TypeOK'
    BY <1>1, <1>2, <1>3, <1>4, <1>5, <1>6 DEF TypeOK, Labels
  <1> QED
    BY <1>2, <1>5, <1>7, DaysFrame, FileFrame, TasksGoOn

(* The index counts what the file holds; the tasks take the watermarks.      *)
LEMMA SelectSteps ==
  ASSUME HistoryInv, PollTotals \/ LoadDays
  PROVE  HistoryInv'
  <1> USE DEF HistoryInv
  <1>0. \A d \in Days : Cardinality(file[d]) \in Nat
    BY FS_CardinalityType DEF FileInv
  <1>1. CASE PollTotals
    <2>1. /\ UNCHANGED <<file, today, faults, years, table, day, stopping, due, parsed>>
          /\ pc = "poll" /\ pc' = "load" /\ firing' \subseteq Sites
          /\ totals' = [d \in Days |-> Cardinality(file[d])]
      BY <1>1 DEF PollTotals, Goto, Ends, TypeOK, worldVars, dbVars
    <2>2. TypeOK'
      BY <1>0, <2>1 DEF TypeOK, Labels
    <2>3. TaskInv'
      BY <1>0, <2>1 DEF TaskInv
    <2> QED
      BY <2>1, <2>2, <2>3, DaysFrame, FileFrame
  <1>2. CASE LoadDays
    <2>1. /\ UNCHANGED <<file, today, faults, years, table, day, stopping, parsed>>
          /\ pc' = "open" /\ firing' \subseteq Sites /\ totals' = NoTotals
      BY <1>2 DEF LoadDays, Goto, Ends, TypeOK, worldVars, dbVars
    <2>2. \A t \in due' :
             \E d \in Days : t = [day |-> d, total |-> totals[d], after |-> day[d].watermark]
      BY <1>2 DEF LoadDays
    <2>3. \A d \in Days : totals[d] \in Nat /\ day[d].watermark \in 0..MaxStamp
      BY DEF TypeOK, EverefDay
    <2>4. due' \subseteq Tasks
      BY <2>2, <2>3 DEF Tasks
    <2>5. NoTotals \in [Days -> Nat] /\ \A d \in Days : NoTotals[d] = 0
      BY DEF NoTotals
    <2>6. TypeOK'
      BY <2>1, <2>4, <2>5 DEF TypeOK, Labels
    <2>7. TaskInv'
      BY <1>0, <2>1, <2>2, <2>5 DEF TaskInv
    <2> QED
      BY <2>1, <2>6, <2>7, DaysFrame, FileFrame
  <1> QED
    BY <1>1, <1>2

(* Steps that only move the calendar, the loop or the context. *)
LEMMA OtherSteps ==
  ASSUME HistoryInv, Start \/ Tick \/ NextDay \/ Shutdown \/ UNCHANGED vars
  PROVE  HistoryInv'
  <1> USE DEF HistoryInv
  <1>1. CASE Start
    <2>1. Year(today - BackfillDays) \in Int /\ Year(today) \in Int
      BY YearType, HistoryAssumption DEF TypeOK, Days
    <2>2. /\ pc = "down" /\ pc' = "poll"
          /\ years' = years \cup Year(today - BackfillDays)..Year(today)
          /\ UNCHANGED <<file, today, faults, table, day, stopping, totals, due, parsed, firing>>
      BY <1>1 DEF Start, Goto, worldVars
    <2>a. years' \subseteq Int
      <3>1. \A i, j \in Int : i..j \subseteq Int
        OBVIOUS
      <3>2. Year(today - BackfillDays)..Year(today) \subseteq Int
        BY <2>1, <3>1
      <3> QED
        BY <2>2, <3>2, Zenon DEF TypeOK
    <2>3. TypeOK'
      BY <2>2, <2>a DEF TypeOK, Labels
    <2>4. TaskInv'
      BY <2>2 DEF TaskInv
    <2> QED
      BY <2>2, <2>3, <2>4, DaysFrame, FileFrame
  <1>2. CASE Tick
    <2>1. /\ pc = "idle" /\ pc' = "poll"
          /\ UNCHANGED <<file, today, faults, years, table, day, stopping, totals, due, parsed, firing>>
      BY <1>2 DEF Tick, Goto, worldVars, dbVars
    <2>2. TypeOK'
      BY <2>1 DEF TypeOK, Labels
    <2>3. TaskInv'
      BY <2>1 DEF TaskInv
    <2> QED
      BY <2>1, <2>2, <2>3, DaysFrame, FileFrame
  <1>3. CASE NextDay \/ Shutdown \/ UNCHANGED vars
    <2>1. UNCHANGED <<file, years, table, day, pc, totals, due, parsed, firing>>
      BY <1>3 DEF NextDay, Shutdown, vars, worldVars, dbVars, procVars
    <2>2. stopping' \in BOOLEAN
      BY <1>3 DEF NextDay, Shutdown, vars, procVars, TypeOK
    <2>a. today' \in Days
      BY <1>3, HistoryAssumption DEF NextDay, Shutdown, vars, worldVars, TypeOK, Days
    <2>b. faults' \in 0..MaxFaults
      BY <1>3, HistoryAssumption DEF NextDay, Shutdown, Fault, vars, worldVars, TypeOK
    <2>3. TypeOK'
      BY <2>1, <2>2, <2>a, <2>b DEF TypeOK
    <2>4. DayInv' /\ TaskInv'
      BY <2>1 DEF DayInv, IsCut, Recorded, Read, IsNext, TaskInv
    <2> QED
      BY <2>1, <2>3, <2>4, FileFrame
  <1> QED
    BY <1>1, <1>2, <1>3

-----------------------------------------------------------------------------
(* The invariant holds in every state. *)
LEMMA HistoryInvariant == Spec => []HistoryInv
  <1>1. HistoryInv /\ [Next]_vars => HistoryInv'
    BY GrowStep, WriteDayStep, CommitUnheardStep, OpenDayStep, ReturnSteps,
       ContinueSteps, SelectSteps, OtherSteps
    DEF Next, Step
  <1> QED
    BY <1>1, HistoryInit, PTL DEF Spec

(* Every variable of the importer keeps its type. *)
THEOREM HistoryTypeCorrect == Spec => []TypeOK
  <1>1. HistoryInv => TypeOK
    BY DEF HistoryInv
  <1> QED
    BY <1>1, HistoryInvariant, PTL

(* A row that is in the file and not in the table is within the next         *)
(* import's reach, whatever failed and however the file grew in between      *)
(* (selectDays, Filter.After, Parse, ImportHistory).                         *)
THEOREM NothingIsSkipped == Spec => []NothingSkipped
  <1>1. HistoryInv => NothingSkipped
    <2> SUFFICES ASSUME HistoryInv, NEW d \in Days, NEW r \in file[d],
                        r.key \in Regions, table[d][r.key] < r.stamp
                 PROVE  /\ day[d].watermark <= r.stamp
                        /\ day[d].total < Cardinality(file[d])
      BY DEF NothingSkipped
    <2> USE DEF HistoryInv
    <2>1. PICK S : IsCut(S, d) /\ Recorded(S, d)
      BY DEF DayInv
    <2>2. /\ S \in SUBSET Records /\ IsFiniteSet(S) /\ Cardinality(S) \in Nat
          /\ HasLast(S) /\ HasNewest(S) /\ S \subseteq file[d]
      BY <2>1, CutFacts DEF IsCut
    <2>3. r.key \in Keys /\ r.stamp \in Nat /\ r.stamp >= 1
      BY RecordType DEF TypeOK
    <2>4. table[d][r.key] = Book!NewestStamp(S, r.key)
          /\ Book!NewestStamp(S, r.key) \in Nat
      BY <2>1, <2>2, <2>3, NewestFacts, HistoryAssumption DEF Recorded, Book!WholeFile
    <2>5. r \notin S
      BY <2>2, <2>3, <2>4, NewestFacts
    <2>6. Watermark(S) <= r.stamp
      <3>1. CASE S = {}
        BY <2>2, <2>3, <3>1, WatermarkFacts
      <3>2. CASE S # {}
        BY <2>1, <2>2, <2>5, <3>2, WatermarkFacts DEF IsCut, Precedes
      <3> QED
        BY <3>1, <3>2
    <2>7. IsFiniteSet(file[d])
      BY DEF FileInv
    <2>8. Cardinality(S) < Cardinality(file[d]) /\ Cardinality(file[d]) \in Nat
      BY <2>2, <2>5, <2>7, FS_Subset, FS_CardinalityType
    <2>9. day[d].total \in Nat
      BY DEF TypeOK, EverefDay
    <2> QED
      BY <2>1, <2>2, <2>6, <2>8, <2>9 DEF Recorded
  <1> QED
    BY <1>1, HistoryInvariant, PTL

(* The importer implements DayBook: a commit shows what one import of the    *)
(* whole file would show, and never goes back (Parse, ImportHistory).        *)
THEOREM ImportsAreWhole == Spec => ImportsWholeFiles
  <1>1. Init => Book!Init
    BY DEF Init, Book!Init
  <1>2. HistoryInv /\ [Next]_vars => [Book!Next]_(Book!bookVars)
    <2> SUFFICES ASSUME HistoryInv, [Next]_vars
                 PROVE  Book!Next \/ UNCHANGED <<file, table>>
      BY DEF Book!bookVars
    <2>1. ASSUME NEW d \in Days, Grow(d) PROVE Book!Append(d)
      BY <2>1 DEF Grow, Book!Append, Records, Book!Records, dbVars
    <2>2. ASSUME NEW t \in due, pc = "write", IsNext(t), ImportHistory(t), UNCHANGED file
          PROVE  t.day \in Days /\ Book!Import(t.day)
      <3>1. t.day \in Days
        BY DEF HistoryInv, TypeOK, Tasks
      <3>2. PICK C : /\ IsCut(C, t.day)
                     /\ table' = [table EXCEPT ![t.day] = Book!WholeFile(C)]
                     /\ \A k \in Regions : table[t.day][k] <= Book!NewestStamp(C, k)
        BY <2>2, ImportGivesCut
      <3>3. C \in SUBSET file[t.day] /\ \A r \in file[t.day] \ C : \A o \in C : o.stamp <= r.stamp
        BY <3>2 DEF IsCut, Precedes
      <3> QED
        BY <2>2, <3>1, <3>2, <3>3 DEF Book!Import
    <2>3. CASE WriteDay \/ CommitUnheard
      <3>1. pc = "write" /\ UNCHANGED file /\ \E t \in due : IsNext(t) /\ ImportHistory(t)
        BY <2>3 DEF WriteDay, CommitUnheard, worldVars
      <3> QED
        BY <2>2, <3>1 DEF Book!Next
    <2>4. CASE PollFails \/ LoadFails \/ EndPass \/ Exit \/ Crash
      BY <2>4 DEF PollFails, LoadFails, EndPass, Exit, Crash, worldVars, dbVars
    <2>5. CASE DayNotFound \/ OpenFails \/ WriteFails \/ Space \/ OpenDay
      BY <2>5 DEF DayNotFound, OpenFails, WriteFails, Space, OpenDay, worldVars, dbVars
    <2>6. CASE PollTotals \/ LoadDays \/ Start \/ Tick \/ NextDay \/ Shutdown
      BY <2>6 DEF PollTotals, LoadDays, Start, Tick, NextDay, Shutdown, worldVars, dbVars
    <2>7. CASE UNCHANGED vars
      BY <2>7 DEF vars, worldVars, dbVars
    <2>8. (\E d \in Days : Grow(d)) => Book!Next
      BY <2>1 DEF Book!Next
    <2> QED
      BY <2>3, <2>4, <2>5, <2>6, <2>7, <2>8 DEF Next, Step
  <1> QED
    BY <1>1, <1>2, HistoryInvariant, PTL DEF Spec, ImportsWholeFiles, Book!Spec

=============================================================================
