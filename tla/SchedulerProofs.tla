-------------------------- MODULE SchedulerProofs --------------------------
(* Proofs about Scheduler for every set of regions, every priority, delay    *)
(* and bound, and whatever ESI answers.                                      *)
EXTENDS Scheduler, GatesProofs, WellFoundedInduction

(* A region that was reported since its last success is firing, and was      *)
(* reported once: the streak's memory is what the history says.              *)
ReportInv ==
    /\ reported \in [Regions -> Nat]
    /\ \A r \in Regions : reported[r] = 0 \/ (reported[r] = 1 /\ r \in firing)

(* The error limit shares the streak with the regions, under a key that is   *)
(* no region's.                                                              *)
LEMMA KeyIsNoRegion == ErrorLimitKey \notin Regions
  BY SchedulerAssumption DEF ErrorLimitKey

(* streak.first keeps the invariant, for a region and for the error limit. *)
LEMMA FirstKeepsReports ==
    ASSUME NEW k, ReportInv, First(k)
    PROVE  ReportInv'
  <1>1. CASE k \in Regions /\ k \notin firing
    <2>1. reported[k] = 0
      BY <1>1 DEF ReportInv
    <2>2. reported' = [reported EXCEPT ![k] = 1]
      BY <1>1, <2>1 DEF First, ReportInv
    <2>3. reported' \in [Regions -> Nat]
      BY <2>2 DEF ReportInv
    <2>4. \A r \in Regions : reported'[r] = 0 \/ (reported'[r] = 1 /\ r \in firing')
      BY <1>1, <2>2 DEF ReportInv, First
    <2> QED
      BY <2>3, <2>4 DEF ReportInv
  <1>2. CASE ~(k \in Regions /\ k \notin firing)
    BY <1>2 DEF First, ReportInv
  <1> QED
    BY <1>1, <1>2

(* What ends a streak keeps the invariant: the error limit's pass, and a     *)
(* region's success.                                                         *)
LEMMA EndsKeepsReports ==
    ASSUME NEW k, ReportInv, Ends(k),
           \/ k = ErrorLimitKey /\ UNCHANGED reported
           \/ reported' = [reported EXCEPT ![k] = 0]
    PROVE  ReportInv'
  <1>1. CASE k = ErrorLimitKey /\ UNCHANGED reported
    BY <1>1, KeyIsNoRegion DEF Ends, ReportInv
  <1>2. CASE reported' = [reported EXCEPT ![k] = 0]
    BY <1>2 DEF Ends, ReportInv
  <1> QED
    BY <1>1, <1>2

(* Every other step leaves streak and history alone. *)
LEMMA OtherSteps ==
    ASSUME \/ Prime \/ Primed \/ Stop \/ Canary \/ Outage \/ Wake
           \/ PassEnds \/ PassSkips \/ PassRuns \/ CycleRequests
           \/ Deferred \/ ErrorLimited \/ RunBacksOff \/ RunRetries \/ RunInterrupted
           \/ Clock \/ Shutdown \/ Recover \/ UNCHANGED vars
    PROVE  UNCHANGED <<firing, reported>>
  BY DEF Prime, Primed, Stop, Canary, Outage, Wake, PassEnds, PassSkips, PassRuns,
         CycleRequests, Deferred, ErrorLimited, RunBacksOff, RunRetries, RunInterrupted,
         Clock, Shutdown, Recover, vars

(* The invariant holds at the start and every step keeps it. *)
LEMMA ReportInvariant == Spec => []ReportInv
  <1>1. Init => ReportInv
    BY DEF Init, ReportInv
  <1>2. ReportInv /\ [Next]_vars => ReportInv'
    <2> SUFFICES ASSUME ReportInv, [Next]_vars
                 PROVE  ReportInv'
      OBVIOUS
    <2>1. CASE PassBlocked
      BY <2>1, FirstKeepsReports DEF PassBlocked
    <2>2. CASE RunFails
      BY <2>2, FirstKeepsReports DEF RunFails
    <2>3. CASE PassOpen
      BY <2>3, EndsKeepsReports DEF PassOpen
    <2>4. CASE Refreshed
      BY <2>4, EndsKeepsReports DEF Refreshed
    <2>5. CASE UNCHANGED <<firing, reported>>
      BY <2>5 DEF ReportInv
    <2> QED
      BY <2>1, <2>2, <2>3, <2>4, <2>5, OtherSteps DEF Next, LoopStep
  <1> QED
    BY <1>1, <1>2, PTL DEF Spec

(* However a region's failures, deferrals and 420s follow one another,       *)
(* noteFailure sends one report until the region succeeds.                   *)
THEOREM OneReportPerFailureRun == Spec => []ReportOnce
  <1>1. ReportInv => ReportOnce
    BY DEF ReportInv, ReportOnce
  <1> QED
    BY <1>1, ReportInvariant, PTL

-----------------------------------------------------------------------------
(* NewScheduler's order *)

(* A set of natural numbers has a least element. *)
LEMMA LeastNatural ==
    ASSUME NEW S \in SUBSET Nat, S # {}
    PROVE  \E n \in S : \A m \in S : n <= m
  <1>1. PICK n \in S : \A m \in S : ~(<<m, n>> \in OpToRel(<, Nat))
    BY NatLessThanWellFounded, WFMin
  <1>2. \A m \in S : ~(m < n)
    BY <1>1 DEF OpToRel
  <1> QED
    BY <1>2

(* The loop always has a next region while regions are left: the order by    *)
(* priority and id is total.                                                 *)
LEMMA NextOfIsLeft ==
    ASSUME NEW S \in SUBSET Regions, S # {}
    PROVE  NextOf(S) \in S
  <1>0. /\ \A r \in S : r \in Nat /\ r \in Regions /\ Priority[r] \in Nat
    BY SchedulerAssumption
  <1> DEFINE P == {Priority[r] : r \in S}
  <1>a. P \in SUBSET Nat /\ P # {}
    BY <1>0
  <1>1. PICK n \in P : \A m \in P : n <= m
    <2> HIDE DEF P
    <2> QED
      BY <1>a, LeastNatural
  <1> DEFINE T == {r \in S : Priority[r] = n}
  <1>b. T \in SUBSET Nat /\ T # {}
    BY <1>0, <1>1
  <1>2. PICK r \in T : \A s \in T : r <= s
    <2> HIDE DEF T
    <2> QED
      BY <1>b, LeastNatural
  <1>3. \A s \in S \ {r} : Before(r, s)
    <2> SUFFICES ASSUME NEW s \in S \ {r} PROVE Before(r, s)
      OBVIOUS
    <2>1. n <= Priority[s] /\ Priority[r] = n /\ n \in Nat
      BY <1>0, <1>1, <1>2
    <2>2. CASE Priority[s] = n
      BY <1>0, <1>2, <2>1, <2>2 DEF Before
    <2>3. CASE Priority[s] # n
      BY <1>0, <2>1, <2>3 DEF Before
    <2> QED
      BY <2>2, <2>3
  <1> QED
    BY <1>2, <1>3 DEF NextOf

-----------------------------------------------------------------------------
(* The gates as the scheduler sees them *)

Counts == Remainings \cup {0, BudgetFloor}

(* Every response has the headers the gates expect, and only a 420 is        *)
(* "limited".                                                                *)
LEMMA ResponsesType ==
    ASSUME NEW a \in AnswerKinds, a # "late", NEW r \in Responses(a)
    PROVE  r \in ResponseType(Counts) /\ (a = "limited" => r.status = 420)
  BY SchedulerAssumption DEF AnswerKinds, Responses, Response, ResponseType, None, Counts

(* One request, whoever makes it: the gates keep their type, no block is     *)
(* shortened, and a 420 leaves one.                                          *)
LEMMA RequestGates ==
    ASSUME TypeOK, NEW q, NEW a \in AnswerKinds, Request(q, a)
    PROVE  /\ gates' \in GateType(Counts) /\ gates'.blockedFor >= gates.blockedFor
           /\ a = "limited" => gates'.blockedFor > 0
           /\ tripped' \in BOOLEAN
  <1>1. gates \in GateType(Counts)
    BY DEF TypeOK, GateType, Counts
  <1>2. CASE a = "late"
    BY <1>1, <1>2 DEF Request, GateType, TypeOK
  <1>3. CASE a # "late"
    <2>1. PICK r \in Responses(a) : gates' = Observe(gates, r)
      BY <1>3 DEF Request
    <2>2. r \in ResponseType(Counts) /\ (a = "limited" => r.status = 420)
      BY <1>3, ResponsesType
    <2>3. tripped' \in BOOLEAN
      BY DEF Request, TypeOK
    <2> QED
      BY <1>1, <2>1, <2>2, <2>3, ObserveType
  <1> QED
    BY <1>2, <1>3

-----------------------------------------------------------------------------
(* Types *)

(* Where a run of a region is: its cycle has an attempt left to it, and a    *)
(* backoff is followed by one more.                                          *)
RunInv ==
    /\ pc \in {"cycle", "backoff"} => cur \in Regions
    /\ pc = "cycle" => attempt >= 1 /\ attempt <= Attempts(cur)
    /\ pc = "backoff" => attempt >= 1 /\ attempt < Attempts(cur)

(* No region is attempted more often than configured. *)
LEMMA AttemptsBound ==
    ASSUME NEW r \in Regions
    PROVE  Attempts(r) \in 1..MaxAttempts
  BY SchedulerAssumption DEF Attempts

(* The steps that leave a region's run alone. *)
LEMMA TypeOfLoop ==
    ASSUME TypeOK, RunInv,
           \/ Prime \/ Primed \/ Stop \/ PassBlocked \/ PassOpen \/ Canary
           \/ Outage \/ Wake \/ PassEnds \/ PassSkips
    PROVE  TypeOK' /\ RunInv'
  <1>1. CASE Prime
    <2>1. PICK a \in AnswerKinds :
             /\ Request(NextOf(todo), a)
             /\ IF shutdown THEN pc' = "stopped" /\ UNCHANGED <<due, todo>>
                ELSE /\ todo' = todo \ {NextOf(todo)}
                     /\ \E d \in IF a = "ok" THEN NextDues ELSE {RetryDelay} :
                           due' = [due EXCEPT ![NextOf(todo)] = d]
                     /\ UNCHANGED pc
      BY <1>1 DEF Prime
    <2>2. gates' \in GateType(Counts) /\ tripped' \in BOOLEAN
      BY <2>1, RequestGates
    <2>3. due' \in [Regions -> Nat]
      BY <2>1, SchedulerAssumption DEF TypeOK
    <2>4. todo' \subseteq Regions
      BY <2>1 DEF TypeOK
    <2>5. pc' \in {"prime", "stopped"}
      BY <1>1, <2>1 DEF Prime
    <2> QED
      BY <1>1, <2>2, <2>3, <2>4, <2>5 DEF Prime, TypeOK, RunInv, GateType, Counts
  <1>2. CASE Primed
    BY <1>2 DEF Primed, TypeOK, RunInv
  <1>3. CASE Stop
    BY <1>3 DEF Stop, TypeOK, RunInv
  <1>4. CASE PassBlocked
    <2>1. firing' \subseteq Keys /\ reported' \in [Regions -> 0..2]
      BY <1>4 DEF PassBlocked, First, TypeOK, Keys
    <2> QED
      BY <1>4, <2>1 DEF PassBlocked, Sleep, TypeOK, RunInv
  <1>5. CASE PassOpen
    BY <1>5 DEF PassOpen, Ends, TypeOK, RunInv
  <1>6. CASE Canary
    <2>1. gates' \in GateType(Counts) /\ tripped' \in BOOLEAN
      BY <1>6, RequestGates DEF Canary
    <2> QED
      BY <1>6, <2>1, SchedulerAssumption
         DEF Canary, Sleep, TypeOK, RunInv, GateType, Counts
  <1>7. CASE Outage
    <2>1. gates' \in GateType(Counts) /\ tripped' \in BOOLEAN
      BY <1>7, RequestGates DEF Outage
    <2>2. pc' \in {"idle", "sleep"} /\ wake' \in Nat
      BY <1>7, SchedulerAssumption DEF Outage, Sleep, TypeOK
    <2> QED
      BY <1>7, <2>1, <2>2 DEF Outage, TypeOK, RunInv, GateType, Counts
  <1>8. CASE Wake
    BY <1>8 DEF Wake, TypeOK, RunInv
  <1>9. CASE PassEnds
    BY <1>9 DEF PassEnds, TypeOK, RunInv
  <1>10. CASE PassSkips
    BY <1>10 DEF PassSkips, TypeOK, RunInv
  <1> QED
    BY <1>1, <1>2, <1>3, <1>4, <1>5, <1>6, <1>7, <1>8, <1>9, <1>10

(* runRegion *)
LEMMA TypeOfRun ==
    ASSUME TypeOK, RunInv,
           \/ PassRuns \/ CycleRequests \/ Refreshed \/ Deferred \/ ErrorLimited
           \/ RunFails \/ RunBacksOff \/ RunRetries \/ RunInterrupted
    PROVE  TypeOK' /\ RunInv'
  <1>0. MaxAttempts \in Nat /\ MaxAttempts >= 1 /\ attempt \in Nat
    BY SchedulerAssumption DEF TypeOK
  <1>1. CASE PassRuns
    <2>1. NextOf(todo) \in todo /\ NextOf(todo) \in Regions
      BY <1>1, NextOfIsLeft DEF PassRuns, TypeOK
    <2>2. Attempts(NextOf(todo)) \in 1..MaxAttempts
      BY <2>1, AttemptsBound
    <2>3. /\ pc' = "cycle" /\ cur' = NextOf(todo) /\ attempt' = 1 /\ requests' = 0
          /\ seen' = "none" /\ todo' \subseteq Regions
      BY <1>1 DEF PassRuns, CallCycle, TypeOK
    <2>4. RunInv'
      BY <2>1, <2>2, <2>3 DEF RunInv, Attempts, CanRetry
    <2> QED
      BY <1>0, <1>1, <2>1, <2>3, <2>4, SchedulerAssumption DEF PassRuns, TypeOK
  <1>2. CASE CycleRequests
    <2>1. PICK a \in AnswerKinds : Request(cur, a) /\ seen' = a
      BY <1>2 DEF CycleRequests
    <2>2. gates' \in GateType(Counts) /\ tripped' \in BOOLEAN
      BY <2>1, RequestGates
    <2>3. requests' \in 0..MaxRequests
      BY <1>2, SchedulerAssumption DEF CycleRequests, TypeOK
    <2>4. RunInv'
      BY <1>2 DEF CycleRequests, RunInv, Attempts, CanRetry
    <2> QED
      BY <1>2, <2>1, <2>2, <2>3, <2>4 DEF CycleRequests, TypeOK, GateType, Counts
  <1>3. CASE Refreshed
    <2>1. due' \in [Regions -> Nat]
      BY <1>3, SchedulerAssumption DEF Refreshed, Reschedule, TypeOK, RunInv
    <2>2. firing' \subseteq Keys
      BY <1>3 DEF Refreshed, Ends, TypeOK
    <2>3. /\ reported' = [reported EXCEPT ![cur] = 0]
          /\ reported \in [Regions -> 0..2] /\ 0 \in 0..2
      BY <1>3 DEF Refreshed, TypeOK
    <2>4. reported' \in [Regions -> 0..2]
      BY <2>3, Zenon
    <2> QED
      BY <1>0, <1>3, <2>1, <2>2, <2>4, SchedulerAssumption
         DEF Refreshed, RunRegionEnds, TypeOK, RunInv
  <1>4. CASE Deferred
    <2>1. due' \in [Regions -> Nat]
      BY <1>4, SchedulerAssumption DEF Deferred, Reschedule, TypeOK, RunInv
    <2> QED
      BY <1>0, <1>4, <2>1, SchedulerAssumption DEF Deferred, RunRegionEnds, TypeOK, RunInv
  <1>5. CASE ErrorLimited
    BY <1>0, <1>5, SchedulerAssumption DEF ErrorLimited, RunRegionEnds, TypeOK, RunInv
  <1>6. CASE RunFails
    <2>1. due' \in [Regions -> Nat]
      BY <1>6, SchedulerAssumption DEF RunFails, TypeOK
    <2>2. cur \in Regions /\ firing' \subseteq Keys /\ reported' \in [Regions -> 0..2]
      BY <1>6 DEF RunFails, First, TypeOK, Keys, RunInv
    <2> QED
      BY <1>0, <1>6, <2>1, <2>2, SchedulerAssumption
         DEF RunFails, RunRegionEnds, TypeOK, RunInv
  <1>7. CASE RunBacksOff
    <2>1. wake' \in Nat
      BY <1>7, SchedulerAssumption DEF RunBacksOff
    <2>2. Attempts(cur) \in 1..MaxAttempts /\ attempt # Attempts(cur)
      BY <1>7, AttemptsBound DEF RunBacksOff, RunInv, GivesUp
    <2>3. RunInv'
      BY <1>0, <1>7, <2>2 DEF RunBacksOff, RunInv, Attempts, CanRetry
    <2> QED
      BY <1>7, <2>1, <2>3 DEF RunBacksOff, TypeOK
  <1>8. CASE RunRetries
    <2>1. cur \in Regions /\ Attempts(cur) \in 1..MaxAttempts
      BY <1>8, AttemptsBound DEF RunRetries, RunInv
    <2>2. attempt + 1 \in 1..MaxAttempts /\ attempt + 1 <= Attempts(cur)
      BY <1>0, <1>8, <2>1 DEF RunRetries, RunInv
    <2>3. RunInv'
      BY <1>8, <2>1, <2>2 DEF RunRetries, CallCycle, RunInv, Attempts, CanRetry
    <2> QED
      BY <1>8, <2>2, <2>3, SchedulerAssumption DEF RunRetries, CallCycle, TypeOK
  <1>9. CASE RunInterrupted
    BY <1>0, <1>9, SchedulerAssumption DEF RunInterrupted, RunRegionEnds, TypeOK, RunInv
  <1> QED
    BY <1>1, <1>2, <1>3, <1>4, <1>5, <1>6, <1>7, <1>8, <1>9

(* The rest of the world. *)
LEMMA TypeOfWorld ==
    ASSUME TypeOK, RunInv, Clock \/ Shutdown \/ Recover \/ UNCHANGED vars
    PROVE  TypeOK' /\ RunInv'
  <1>1. CASE Clock
    <2>1. gates' \in GateType(Counts)
      BY <1>1, TickType DEF Clock, TypeOK, GateType, Counts
    <2>2. due' \in [Regions -> Nat] /\ wake' \in Nat
      BY <1>1 DEF Clock, TypeOK, Down
    <2>3. RunInv'
      BY <1>1 DEF Clock, RunInv, Attempts, CanRetry
    <2> QED
      BY <1>1, <2>1, <2>2, <2>3 DEF Clock, TypeOK, GateType, Counts
  <1>2. CASE Shutdown
    BY <1>2 DEF Shutdown, TypeOK, RunInv, Attempts, CanRetry
  <1>3. CASE Recover
    BY <1>3 DEF Recover, TypeOK, RunInv, Attempts, CanRetry
  <1>4. CASE UNCHANGED vars
    BY <1>4 DEF vars, TypeOK, RunInv, Attempts, CanRetry
  <1> QED
    BY <1>1, <1>2, <1>3, <1>4

(* The types are inductive with what a run knows of its attempt. *)
LEMMA TypeInvariant == Spec => [](TypeOK /\ RunInv)
  <1>1. Init => TypeOK /\ RunInv
    <2> SUFFICES ASSUME Init PROVE TypeOK /\ RunInv
      OBVIOUS
    <2>1. gates \in GateType(Counts)
      BY DEF Init, FreshGates, GateType, Counts, OutageThreshold
    <2>2. due \in [Regions -> Nat] /\ reported \in [Regions -> 0..2]
      BY DEF Init
    <2>3. attempt \in 0..MaxAttempts /\ requests \in 0..MaxRequests
      BY SchedulerAssumption DEF Init
    <2> QED
      BY <2>1, <2>2, <2>3 DEF Init, TypeOK, RunInv, GateType, Counts, NoRegion, AnswerKinds
  <1>2. TypeOK /\ RunInv /\ [Next]_vars => (TypeOK /\ RunInv)'
    BY TypeOfLoop, TypeOfRun, TypeOfWorld DEF Next, LoopStep
  <1> QED
    BY <1>1, <1>2, PTL DEF Spec

(* Every variable of the loop keeps its type, attempts and outage counter    *)
(* within their limits, for every configuration and every answer.            *)
THEOREM SchedulerTypeCorrect == Spec => []TypeOK
  BY TypeInvariant, PTL

-----------------------------------------------------------------------------
(* No hot loop *)

(* A region that was asked for since the clock last moved cannot be run      *)
(* again at once: its run goes on, its due time is ahead, or a block is in   *)
(* force that the loop meets before it comes to the region again.  A done    *)
(* context runs nothing.                                                     *)
Resting(r) ==
    \/ shutdown
    \/ pc \in {"cycle", "backoff"} /\ r = cur
    \/ due[r] > 0
    \/ gates.blockedFor > 0 /\ (pc \in {"pass", "cycle", "backoff"} => r \notin todo)

RestInv ==
    /\ pc = "prime" => rested = Regions
    /\ pc \in {"cycle", "backoff"} => cur \notin todo
    /\ pc = "cycle" /\ seen = "limited" /\ cur \notin rested => gates.blockedFor > 0
    /\ \A r \in Regions \ rested : Resting(r)

(* The steps outside a region's run. *)
LEMMA RestOfLoop ==
    ASSUME TypeOK, RestInv,
           \/ Prime \/ Primed \/ Stop \/ PassBlocked \/ PassOpen \/ Canary
           \/ Outage \/ Wake \/ PassEnds \/ PassSkips
    PROVE  RestInv'
  <1>0. gates.blockedFor \in Nat /\ due \in [Regions -> Nat]
    BY DEF TypeOK
  <1>1. CASE Prime
    BY <1>1 DEF Prime, RestInv
  <1>2. CASE Primed
    BY <1>2 DEF Primed, RestInv
  <1>3. CASE Stop
    BY <1>3 DEF Stop, RestInv, Resting
  <1>4. CASE PassBlocked
    BY <1>4 DEF PassBlocked, Sleep, RestInv, Resting
  <1>5. CASE PassOpen
    BY <1>0, <1>5 DEF PassOpen, RestInv, Resting
  <1>6. CASE Canary
    <2>1. gates'.blockedFor \in Nat /\ gates'.blockedFor >= gates.blockedFor
      BY <1>6, RequestGates DEF Canary, GateType
    <2> QED
      BY <1>0, <1>6, <2>1 DEF Canary, Sleep, RestInv, Resting
  <1>7. CASE Outage
    <2>1. gates'.blockedFor \in Nat /\ gates'.blockedFor >= gates.blockedFor
      BY <1>7, RequestGates DEF Outage, GateType
    <2>2. pc = "outage" /\ pc' \in {"idle", "sleep"}
      BY <1>7 DEF Outage, Sleep
    <2> QED
      BY <1>0, <1>7, <2>1, <2>2 DEF Outage, RestInv, Resting
  <1>8. CASE Wake
    BY <1>8 DEF Wake, RestInv, Resting
  <1>9. CASE PassEnds
    BY <1>9 DEF PassEnds, RestInv, Resting
  <1>10. CASE PassSkips
    BY <1>10 DEF PassSkips, RestInv, Resting
  <1> QED
    BY <1>1, <1>2, <1>3, <1>4, <1>5, <1>6, <1>7, <1>8, <1>9, <1>10

(* However a run ends, the region rests. *)
LEMMA RestOfRun ==
    ASSUME TypeOK, RunInv, RestInv,
           \/ PassRuns \/ CycleRequests \/ Refreshed \/ Deferred \/ ErrorLimited
           \/ RunFails \/ RunBacksOff \/ RunRetries \/ RunInterrupted
    PROVE  RestInv'
  <1>0. gates.blockedFor \in Nat /\ due \in [Regions -> Nat]
    BY DEF TypeOK
  <1>1. CASE PassRuns
    BY <1>1 DEF PassRuns, CallCycle, RestInv, Resting
  <1>2. CASE CycleRequests
    <2>1. PICK a \in AnswerKinds : Request(cur, a) /\ seen' = a
      BY <1>2 DEF CycleRequests
    <2>2. /\ gates'.blockedFor \in Nat /\ gates'.blockedFor >= gates.blockedFor
          /\ a = "limited" => gates'.blockedFor > 0
      BY <2>1, RequestGates DEF GateType
    <2> QED
      BY <1>0, <1>2, <2>1, <2>2 DEF CycleRequests, RestInv, Resting
  <1>3. ASSUME NEW d \in Nat \ {0}, due' = [due EXCEPT ![cur] = d],
               pc = "cycle", pc' = "pass", UNCHANGED <<rested, gates, todo, shutdown>>
        PROVE  RestInv'
    <2>1. cur \in Regions /\ due'[cur] > 0
      BY <1>0, <1>3 DEF RunInv
    <2>2. \A r \in Regions \ {cur} : due'[r] = due[r]
      BY <1>0, <1>3
    <2> QED
      BY <1>3, <2>1, <2>2 DEF RestInv, Resting
  <1>4. CASE Refreshed
    BY <1>3, <1>4, SchedulerAssumption DEF Refreshed, Reschedule, RunRegionEnds
  <1>5. CASE Deferred
    BY <1>3, <1>5, SchedulerAssumption DEF Deferred, Reschedule, RunRegionEnds
  <1>6. CASE ErrorLimited
    <2>1. seen = "limited"
      BY <1>6 DEF ErrorLimited, Endings
    <2> QED
      BY <1>6, <2>1 DEF ErrorLimited, RunRegionEnds, RestInv, Resting
  <1>7. CASE RunFails
    BY <1>3, <1>7, SchedulerAssumption DEF RunFails, RunRegionEnds
  <1>8. CASE RunBacksOff
    BY <1>8 DEF RunBacksOff, RestInv, Resting
  <1>9. CASE RunRetries
    BY <1>9 DEF RunRetries, CallCycle, RestInv, Resting
  <1>10. CASE RunInterrupted
    BY <1>10 DEF RunInterrupted, RunRegionEnds, RestInv, Resting
  <1> QED
    BY <1>1, <1>2, <1>4, <1>5, <1>6, <1>7, <1>8, <1>9, <1>10

(* The rest of the world: a tick lets every region rest. *)
LEMMA RestOfWorld ==
    ASSUME TypeOK, RunInv, RestInv, Clock \/ Shutdown \/ Recover \/ UNCHANGED vars
    PROVE  RestInv'
  <1>1. CASE Clock
    BY <1>1 DEF Clock, RunInv, RestInv
  <1>2. CASE Shutdown
    BY <1>2 DEF Shutdown, RestInv, Resting
  <1>3. CASE Recover
    BY <1>3 DEF Recover, RestInv, Resting
  <1>4. CASE UNCHANGED vars
    BY <1>4 DEF vars, RestInv, Resting
  <1> QED
    BY <1>1, <1>2, <1>3, <1>4

(* No region is run at the instant it was last asked for: however its run    *)
(* ended, a due time or a block keeps the loop from it until time passes.    *)
THEOREM NoRegionSpins == Spec => NoHotLoop
  <1>1. Init => RestInv
    BY DEF Init, RestInv
  <1>2. (TypeOK /\ RunInv) /\ RestInv /\ [Next]_vars => RestInv'
    BY RestOfLoop, RestOfRun, RestOfWorld DEF Next, LoopStep
  <1>3. (TypeOK /\ RunInv) /\ RestInv /\ [Next]_vars
            => [PassRuns => NextOf(todo) \in rested]_vars
    <2> SUFFICES ASSUME TypeOK, RestInv, PassRuns
                 PROVE  NextOf(todo) \in rested
      OBVIOUS
    <2>1. NextOf(todo) \in todo /\ NextOf(todo) \in Regions
      BY NextOfIsLeft DEF PassRuns, TypeOK
    <2> QED
      BY <2>1 DEF PassRuns, RestInv, Resting
  <1> QED
    BY <1>1, <1>2, <1>3, TypeInvariant, PTL DEF Spec, NoHotLoop

-----------------------------------------------------------------------------
(* Silence during an outage *)

(* A cycle that has asked for nothing yet, and a backoff before the next,    *)
(* were begun with the outage gate open; only a response closes it.          *)
SilentInv ==
    /\ pc = "cycle" /\ seen = "none" => gates.pausedFor = 0
    /\ pc = "backoff" => gates.pausedFor = 0

(* Every step keeps it: retriesBlocked is asked before the backoff, the pass *)
(* asks before each region, and nothing but the cycle itself asks ESI for    *)
(* anything in between.                                                      *)
LEMMA SilentStep ==
    ASSUME TypeOK, SilentInv, [Next]_vars
    PROVE  SilentInv'
  <1>0. gates.pausedFor \in Nat
    BY DEF TypeOK
  <1>1. CASE \/ Primed \/ Stop \/ PassBlocked \/ PassOpen \/ Wake \/ PassEnds
             \/ PassSkips \/ PassRuns \/ Shutdown \/ Recover \/ UNCHANGED vars
    BY <1>1 DEF Primed, Stop, PassBlocked, PassOpen, Sleep, Wake, PassEnds, PassSkips,
                PassRuns, CallCycle, Shutdown, Recover, vars, SilentInv
  <1>2. CASE Prime \/ Canary \/ Outage
    BY <1>2 DEF Prime, Canary, Outage, Sleep, SilentInv
  <1>3. CASE CycleRequests
    BY <1>3 DEF CycleRequests, AnswerKinds, SilentInv
  <1>4. CASE Refreshed \/ Deferred \/ ErrorLimited \/ RunFails \/ RunInterrupted
    BY <1>4 DEF Refreshed, Deferred, ErrorLimited, RunFails, RunInterrupted,
                RunRegionEnds, SilentInv
  <1>5. CASE RunBacksOff
    BY <1>0, <1>5 DEF RunBacksOff, GivesUp, RetriesBlocked, SilentInv
  <1>6. CASE RunRetries
    BY <1>6 DEF RunRetries, CallCycle, SilentInv
  <1>7. CASE Clock
    <2>1. gates \in GateType(Counts)
      BY DEF TypeOK, GateType, Counts
    <2>2. gates.pausedFor = 0 => gates'.pausedFor = 0
      BY <1>7, <2>1, TickType DEF Clock
    <2> QED
      BY <1>7, <2>2 DEF Clock, SilentInv
  <1> QED
    BY <1>1, <1>2, <1>3, <1>4, <1>5, <1>6, <1>7 DEF Next, LoopStep

(* While the outage gate is armed no cycle makes its first request, whatever *)
(* was read before the pass, the region or the backoff began.                *)
THEOREM OutageIsSilent == Spec => OutageMeansSilent
  <1>1. Init => SilentInv
    BY DEF Init, SilentInv
  <1>2. (TypeOK /\ RunInv) /\ SilentInv /\ [Next]_vars => SilentInv'
    BY SilentStep
  <1>3. SilentInv
            => [CycleRequests /\ seen = "none" /\ ~shutdown => gates.pausedFor = 0]_vars
    BY DEF SilentInv, CycleRequests
  <1> QED
    BY <1>1, <1>2, <1>3, TypeInvariant, PTL DEF Spec, OutageMeansSilent

=============================================================================
