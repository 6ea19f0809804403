---------------------------- MODULE GatesProofs ----------------------------
(* What every response does to the gates, for every set of header values:    *)
(* the facts the proofs about the scheduler and the sweep rest on.           *)
EXTENDS Gates, TLAPS

(* The gates, when the budget's token counts are in Counts. *)
GateType(Counts) ==
    [known : BOOLEAN, remaining : Counts,
     limitKnown : BOOLEAN, limitRemain : Nat, blockedFor : Nat,
     consecutive : 0..OutageThreshold, pausedFor : Nat]

(* A response whose X-Ratelimit-Remaining is in Counts, or absent. *)
ResponseType(Counts) ==
    [status : Nat, remaining : Counts \cup {None},
     limitRemain : Nat \cup {None}, limitReset : Nat, retryAfter : Nat]

(* ErrorLimit.resetAt: the later instant wins, and nothing else moves. *)
LEMMA ResetAtType ==
    ASSUME NEW Counts, NEW g \in GateType(Counts), NEW d \in Nat
    PROVE  /\ ResetAt(g, d) \in GateType(Counts)
           /\ ResetAt(g, d).blockedFor >= g.blockedFor
           /\ ResetAt(g, d).blockedFor >= d
           /\ ResetAt(g, d).known = g.known /\ ResetAt(g, d).remaining = g.remaining
  BY DEF GateType, ResetAt, Later

(* ErrorLimit.Observe *)
LEMMA ObserveErrorLimitType ==
    ASSUME NEW Counts, NEW g \in GateType(Counts), NEW n \in Nat, NEW d \in Nat
    PROVE  /\ ObserveErrorLimit(g, n, d) \in GateType(Counts)
           /\ ObserveErrorLimit(g, n, d).blockedFor >= g.blockedFor
           /\ ObserveErrorLimit(g, n, d).known = g.known
           /\ ObserveErrorLimit(g, n, d).remaining = g.remaining
  <1> DEFINE s == [g EXCEPT !.limitKnown = TRUE, !.limitRemain = n]
  <1>1. /\ s \in GateType(Counts) /\ s.blockedFor = g.blockedFor
        /\ s.known = g.known /\ s.remaining = g.remaining
    BY DEF GateType
  <1>2. ObserveErrorLimit(g, n, d) = IF d > 0 THEN ResetAt(s, d) ELSE s
    BY DEF ObserveErrorLimit
  <1> HIDE DEF s
  <1>3. CASE d > 0
    BY <1>1, <1>2, <1>3, ResetAtType DEF GateType
  <1>4. CASE ~(d > 0)
    BY <1>1, <1>2, <1>4 DEF GateType
  <1> QED
    BY <1>3, <1>4

(* ErrorLimit.Block: a 420 blocks, with or without a reset header. *)
LEMMA BlockType ==
    ASSUME NEW Counts, NEW g \in GateType(Counts), NEW d \in Nat
    PROVE  /\ Block(g, d) \in GateType(Counts)
           /\ Block(g, d).blockedFor >= g.blockedFor /\ Block(g, d).blockedFor > 0
           /\ Block(g, d).known = g.known /\ Block(g, d).remaining = g.remaining
  <1> DEFINE e == IF d <= 0 THEN Minute ELSE d
  <1>1. e \in Nat /\ e > 0
    BY GatesAssumption
  <1>2. Block(g, d) = ResetAt(g, e)
    BY DEF Block
  <1> HIDE DEF e
  <1>3. /\ ResetAt(g, e) \in GateType(Counts)
        /\ ResetAt(g, e).blockedFor >= g.blockedFor
        /\ ResetAt(g, e).blockedFor >= e
        /\ ResetAt(g, e).known = g.known /\ ResetAt(g, e).remaining = g.remaining
    BY <1>1, ResetAtType
  <1>4. ResetAt(g, e).blockedFor \in Nat
    BY <1>3 DEF GateType
  <1> QED
    BY <1>1, <1>2, <1>3, <1>4

(* Outage.Observe leaves the other two gates alone. *)
LEMMA ObserveOutageType ==
    ASSUME NEW Counts, NEW g \in GateType(Counts), NEW status \in Nat, NEW d \in Nat
    PROVE  /\ ObserveOutage(g, status, d) \in GateType(Counts)
           /\ ObserveOutage(g, status, d).blockedFor = g.blockedFor
           /\ ObserveOutage(g, status, d).known = g.known
           /\ ObserveOutage(g, status, d).remaining = g.remaining
  <1> DEFINE o == ObserveOutage(g, status, d)
  <1>1. CASE status < 500
    <2> DEFINE h == [g EXCEPT !.consecutive = 0]
    <2>1. h \in GateType(Counts) /\ h.blockedFor = g.blockedFor
          /\ h.known = g.known /\ h.remaining = g.remaining
      BY DEF GateType, OutageThreshold
    <2>2. o = [h EXCEPT !.pausedFor = 0]
      BY <1>1 DEF ObserveOutage
    <2> HIDE DEF h, o
    <2>3. o \in GateType(Counts) /\ o.blockedFor = h.blockedFor
          /\ o.known = h.known /\ o.remaining = h.remaining
      BY <2>1, <2>2 DEF GateType
    <2> QED
      BY <2>1, <2>3 DEF o
  <1>2. CASE ~(status < 500) /\ g.consecutive + 1 < OutageThreshold
    <2>1. o = [g EXCEPT !.consecutive = @ + 1]
      BY <1>2 DEF ObserveOutage
    <2> QED
      BY <1>2, <2>1 DEF GateType, OutageThreshold
  <1>3. CASE ~(status < 500) /\ ~(g.consecutive + 1 < OutageThreshold)
    <2> DEFINE e == IF d <= 0 THEN Minute ELSE d
               u == IF g.pausedFor > e THEN g.pausedFor ELSE e
               h == [g EXCEPT !.consecutive = OutageThreshold]
    <2>1. h \in GateType(Counts) /\ h.blockedFor = g.blockedFor
          /\ h.known = g.known /\ h.remaining = g.remaining
      BY DEF GateType, OutageThreshold
    <2>2. o = [h EXCEPT !.pausedFor = u]
      BY <1>3 DEF ObserveOutage, Later
    <2>3. u \in Nat
      BY GatesAssumption DEF GateType
    <2> HIDE DEF h, o, u
    <2>4. o \in GateType(Counts) /\ o.blockedFor = h.blockedFor
          /\ o.known = h.known /\ o.remaining = h.remaining
      BY <2>1, <2>2, <2>3 DEF GateType
    <2> QED
      BY <2>1, <2>4 DEF o
  <1> QED
    BY <1>1, <1>2, <1>3

(* Client.get: whatever response it sees keeps the gates' type, never        *)
(* shortens a block, and a 420 always blocks.  The budget is the one the     *)
(* response names, if it names one.                                          *)
LEMMA ObserveType ==
    ASSUME NEW Counts, NEW g \in GateType(Counts), NEW r \in ResponseType(Counts)
    PROVE  /\ Observe(g, r) \in GateType(Counts)
           /\ Observe(g, r).blockedFor >= g.blockedFor
           /\ r.status = 420 => Observe(g, r).blockedFor > 0
           /\ r.remaining # None => /\ Observe(g, r).known
                                    /\ Observe(g, r).remaining = r.remaining
  <1> DEFINE b == IF r.remaining = None THEN g ELSE ObserveBudget(g, r.remaining)
  <1>1. /\ b \in GateType(Counts) /\ b.blockedFor = g.blockedFor
        /\ r.remaining # None => b.known /\ b.remaining = r.remaining
    BY DEF GateType, ResponseType, ObserveBudget
  <1> DEFINE l == IF r.status # 200 /\ r.limitRemain # None
                  THEN ObserveErrorLimit(b, r.limitRemain, r.limitReset) ELSE b
  <1>2. /\ l \in GateType(Counts) /\ l.blockedFor >= b.blockedFor
        /\ l.known = b.known /\ l.remaining = b.remaining
    <2> HIDE DEF b
    <2>1. CASE r.status # 200 /\ r.limitRemain # None
      BY <1>1, <2>1, ObserveErrorLimitType DEF ResponseType
    <2>2. CASE ~(r.status # 200 /\ r.limitRemain # None)
      BY <1>1, <2>2 DEF GateType
    <2> QED
      BY <2>1, <2>2
  <1> DEFINE k == IF r.status = 420 THEN Block(l, r.limitReset) ELSE l
  <1>3. /\ k \in GateType(Counts) /\ k.blockedFor >= l.blockedFor
        /\ r.status = 420 => k.blockedFor > 0
        /\ k.known = l.known /\ k.remaining = l.remaining
    <2> HIDE DEF l
    <2>1. CASE r.status = 420
      BY <1>2, <2>1, BlockType DEF ResponseType
    <2>2. CASE r.status # 420
      BY <1>2, <2>2 DEF GateType
    <2> QED
      BY <2>1, <2>2
  <1> DEFINE w == IF r.status = 200 THEN 0 ELSE r.retryAfter
  <1>4. Observe(g, r) = ObserveOutage(k, r.status, w)
    BY DEF Observe
  <1>5. w \in Nat /\ r.status \in Nat
    BY DEF ResponseType
  <1>6. g.blockedFor \in Nat /\ b.blockedFor \in Nat /\ l.blockedFor \in Nat
        /\ k.blockedFor \in Nat
    <2> HIDE DEF b, l, k
    <2> QED
      BY <1>1, <1>2, <1>3 DEF GateType
  <1> DEFINE o == ObserveOutage(k, r.status, w)
  <1> HIDE DEF b, l, k, w
  <1>7. /\ o \in GateType(Counts) /\ o.blockedFor = k.blockedFor
        /\ o.known = k.known /\ o.remaining = k.remaining
    BY <1>3, <1>5, ObserveOutageType
  <1> HIDE DEF o
  <1>8. Observe(g, r) = o
    BY <1>4 DEF o
  <1>9. o.blockedFor >= g.blockedFor /\ (r.status = 420 => o.blockedFor > 0)
    BY <1>1, <1>2, <1>3, <1>6, <1>7
  <1>10. r.remaining # None => o.known /\ o.remaining = r.remaining
    BY <1>1, <1>2, <1>3, <1>7
  <1> QED
    BY <1>7, <1>8, <1>9, <1>10

(* A 200 ends a pause and leaves the error budget as it was. *)
LEMMA ObserveOk ==
    ASSUME NEW Counts, NEW g \in GateType(Counts), NEW r \in ResponseType(Counts),
           r.status = 200
    PROVE  /\ Observe(g, r).pausedFor = 0
           /\ Observe(g, r).limitKnown = g.limitKnown
           /\ Observe(g, r).limitRemain = g.limitRemain
  <1> DEFINE b == IF r.remaining = None THEN g ELSE ObserveBudget(g, r.remaining)
             h == [b EXCEPT !.consecutive = 0]
  <1>1. /\ b \in GateType(Counts) /\ b.limitKnown = g.limitKnown
        /\ b.limitRemain = g.limitRemain
    BY DEF GateType, ResponseType, ObserveBudget
  <1>2. Observe(g, r) = [h EXCEPT !.pausedFor = 0]
    BY DEF Observe, ObserveOutage
  <1> HIDE DEF b
  <1>3. /\ h \in GateType(Counts) /\ h.limitKnown = b.limitKnown
        /\ h.limitRemain = b.limitRemain
    BY <1>1 DEF GateType, OutageThreshold
  <1> HIDE DEF h
  <1> QED
    BY <1>1, <1>2, <1>3 DEF GateType

(* A tick shortens both waits, and the budget stays as it was. *)
LEMMA TickType ==
    ASSUME NEW Counts, NEW g \in GateType(Counts)
    PROVE  /\ Tick(g) \in GateType(Counts)
           /\ Tick(g).pausedFor <= g.pausedFor
           /\ g.pausedFor = 0 => Tick(g).pausedFor = 0
           /\ Tick(g).known = g.known /\ Tick(g).remaining = g.remaining
           /\ Tick(g).limitKnown = g.limitKnown
           /\ Tick(g).limitRemain = g.limitRemain
  <1> DEFINE b == IF g.blockedFor > 0 THEN g.blockedFor - 1 ELSE 0
             p == IF g.pausedFor > 0 THEN g.pausedFor - 1 ELSE 0
  <1>1. Tick(g) = [g EXCEPT !.blockedFor = b, !.pausedFor = p]
    BY DEF Tick
  <1>2. b \in Nat /\ p \in Nat /\ p <= g.pausedFor /\ (g.pausedFor = 0 => p = 0)
    BY DEF GateType
  <1> HIDE DEF b, p
  <1> QED
    BY <1>1, <1>2 DEF GateType

=============================================================================
