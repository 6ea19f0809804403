----------------------------- MODULE Scheduler -----------------------------
(* The refresh loop: Scheduler.Run with prime, pass, runRegion, canary,      *)
(* outage and probe, the client's gates, and the streak that keeps one fault *)
(* to one report.  A cycle is known by the requests it makes and by how it   *)
(* ends (Cycle and Sweep model its inside).  Time is a number of ticks until *)
(* each instant the code remembers; any time may pass between two steps.     *)
EXTENDS Gates, FiniteSets

CONSTANTS
    Regions,          \* region ids, positive numbers
    Priority,         \* Priority[r]
    Plex,             \* region.GlobalPLEX: ingested like any, and probed
    MaxAttempts,      \* cycles per run of a region that may retry
    MaxRequests,      \* bound: requests of one cycle
    RetryDelay,       \* ticks until a failed region is due again (30s)
    CanaryInterval,   \* ticks between two probes
    NextDues,         \* ticks nextDue may return
    Backoffs,         \* ticks runRegion may back off
    BudgetFloor, LimitFloor,
    Remainings,       \* values of X-Ratelimit-Remaining
    Limits,           \* values of X-ESI-Error-Limit-Remain, None if absent
    Resets,           \* values of X-ESI-Error-Limit-Reset in ticks, 0 if absent
    Answers,          \* what ESI answers while it is troubled, see AnswerKinds
    Broken            \* regions ESI never serves

AnswerKinds == {"ok", "down", "limited", "late"}  \* 200, 503, 420, no answer

RetryMaxPriority == 4

ASSUME SchedulerAssumption ==
    /\ Regions \subseteq Nat \ {0} /\ IsFiniteSet(Regions)
    /\ Priority \in [Regions -> Nat] /\ Plex \in Regions
    /\ MaxAttempts \in Nat \ {0} /\ MaxRequests \in Nat \ {0}
    /\ RetryDelay \in Nat \ {0} /\ CanaryInterval \in Nat \ {0}
    /\ NextDues \subseteq Nat \ {0} /\ Backoffs \subseteq Nat
    /\ BudgetFloor \in Nat /\ LimitFloor \in Nat
    /\ Remainings \subseteq Nat /\ Resets \subseteq Nat
    /\ Limits \subseteq Nat \cup {None}
    /\ Answers \subseteq AnswerKinds /\ Broken \subseteq Regions

VARIABLES
    pc,        \* where the scheduler's goroutine is
    todo,      \* regions prime or the pass has not come to yet
    cur,       \* the region whose cycle runs
    attempt,   \* runRegion's attempt
    requests,  \* requests this cycle has made
    seen,      \* what the cycle's last request met
    due,       \* ticks until each region is due, 0 when it is
    wake,      \* ticks until the current sleep ends
    gates,
    firing,    \* streak.firing: region ids and ErrorLimitKey
    shutdown,  \* the context is done
    healthy,   \* ESI: from now on everything but Broken is served
    \* history
    reported,  \* reports sent since each region's last success, at most 2
    rested,    \* regions no cycle has asked for since the clock last moved
    tripped    \* a 420 was received since ErrorLimitKey last ended

vars == <<pc, todo, cur, attempt, requests, seen, due, wake, gates, firing, shutdown,
          healthy, reported, rested, tripped>>

ErrorLimitKey == -1  \* no region is called this
Keys == Regions \cup {ErrorLimitKey}
NoRegion == 0

Init ==
    /\ pc = "prime" /\ todo = Regions
    /\ cur = NoRegion /\ attempt = 0 /\ requests = 0 /\ seen = "none"
    /\ due = [r \in Regions |-> 0] /\ wake = 0
    /\ gates = FreshGates
    /\ firing = {} /\ shutdown = FALSE /\ healthy = FALSE
    /\ reported = [r \in Regions |-> 0] /\ rested = Regions /\ tripped = FALSE

-----------------------------------------------------------------------------
(* NewScheduler's order: by priority, then by id. *)
Before(a, b) ==
    Priority[a] < Priority[b] \/ (Priority[a] = Priority[b] /\ a < b)

NextOf(S) == CHOOSE r \in S : \A s \in S \ {r} : Before(r, s)

CanRetry(r) == Priority[r] <= RetryMaxPriority

(* ESI answers a request about region r. *)
AnswersNow(r) ==
    IF r \in Broken THEN {"down"} ELSE IF healthy THEN {"ok"} ELSE Answers

Responses(a) ==
    CASE a = "ok"      -> {Response(200, n, None, 0, 0) : n \in IF healthy THEN {BudgetFloor}
                                                                ELSE Remainings}
      [] a = "down"    -> {Response(503, None, l, t, 0) : l \in Limits, t \in Resets}
      [] a = "limited" -> {Response(420, None, l, t, 0) : l \in Limits, t \in Resets}

(* One OrdersPage call: a late answer and a done context move no gate. *)
Request(r, a) ==
    /\ a \in IF shutdown THEN {"late"} ELSE AnswersNow(r)
    /\ \/ a = "late" /\ UNCHANGED gates
       \/ a # "late" /\ \E resp \in Responses(a) : gates' = Observe(gates, resp)
    /\ tripped' = (tripped \/ a = "limited")

(* streak.first: report unless the key is firing already. *)
First(k) ==
    /\ firing' = firing \cup {k}
    /\ reported' = IF k \in Regions /\ k \notin firing
                   THEN [reported EXCEPT ![k] = IF @ < 2 THEN @ + 1 ELSE @] ELSE reported

(* streak.ends *)
Ends(k) == firing' = firing \ {k}

(* sleep: the context ends it early. *)
Sleep(d) == pc' = "sleep" /\ wake' = d
Awake == wake = 0 \/ shutdown

-----------------------------------------------------------------------------
(* prime: page 1 of every region, in order, whatever the gates say. *)
Prime ==
    /\ pc = "prime" /\ todo # {}
    /\ LET r == NextOf(todo) IN
        \E a \in AnswerKinds :
          /\ Request(r, a)
          /\ IF shutdown THEN pc' = "stopped" /\ UNCHANGED <<due, todo>>
             ELSE /\ todo' = todo \ {r}
                  /\ \E d \in IF a = "ok" THEN NextDues ELSE {RetryDelay} :
                        due' = [due EXCEPT ![r] = d]
                  /\ UNCHANGED pc
    /\ UNCHANGED <<cur, attempt, requests, seen, wake, firing, shutdown, healthy,
                   reported, rested>>

Primed ==
    /\ pc = "prime" /\ todo = {}
    /\ pc' = "idle"
    /\ UNCHANGED <<todo, cur, attempt, requests, seen, due, wake, gates, firing, shutdown,
                   healthy, reported, rested, tripped>>

\* mutant: Run looks at the context only once primed
StopAfterPrime ==
    /\ pc = "prime" /\ todo = {} /\ shutdown
    /\ pc' = "stopped"
    /\ UNCHANGED <<todo, cur, attempt, requests, seen, due, wake, gates, firing, shutdown,
                   healthy, reported, rested, tripped>>

(* Run's select: the context or the ticker. *)
Stop ==
    /\ pc = "idle" /\ shutdown
    /\ pc' = "stopped"
    /\ UNCHANGED <<todo, cur, attempt, requests, seen, due, wake, gates, firing, shutdown,
                   healthy, reported, rested, tripped>>

-----------------------------------------------------------------------------
(* pass: the three gates, in the order it asks them. *)
PassBlocked ==
    /\ pc = "idle" /\ gates.blockedFor > 0
    /\ First(ErrorLimitKey)
    /\ Sleep(gates.blockedFor)
    /\ UNCHANGED <<todo, cur, attempt, requests, seen, due, gates, shutdown, healthy,
                   rested, tripped>>

PassOpen ==
    /\ pc = "idle" /\ gates.blockedFor = 0
    /\ Ends(ErrorLimitKey) /\ tripped' = FALSE
    /\ \/ gates.pausedFor > 0 /\ pc' = "outage" /\ UNCHANGED todo
       \/ /\ gates.pausedFor = 0 /\ BelowFloor(gates, BudgetFloor)
          /\ pc' = "canary" /\ UNCHANGED todo
       \/ /\ gates.pausedFor = 0 /\ ~BelowFloor(gates, BudgetFloor)
          /\ pc' = "pass" /\ todo' = Regions
    /\ UNCHANGED <<cur, attempt, requests, seen, due, wake, gates, shutdown, healthy,
                   reported, rested>>

(* canary probes, by a request for Plex, and always waits. *)
Canary ==
    /\ pc = "canary"
    /\ \E a \in AnswerKinds : Request(Plex, a)
    /\ Sleep(CanaryInterval)
    /\ UNCHANGED <<todo, cur, attempt, requests, seen, due, firing, shutdown, healthy,
                   reported, rested>>

\* mutant: the pause is waited out, nothing probes for its end
OutageWaits ==
    /\ pc = "outage"
    /\ Sleep(gates.pausedFor)
    /\ UNCHANGED <<todo, cur, attempt, requests, seen, due, gates, firing, shutdown,
                   healthy, reported, rested, tripped>>

(* outage probes likewise and waits unless the probe succeeded. *)
Outage ==
    /\ pc = "outage"
    /\ \E a \in AnswerKinds :
        /\ Request(Plex, a)
        /\ \/ a = "ok" /\ pc' = "idle" /\ UNCHANGED wake
           \/ a # "ok" /\ Sleep(CanaryInterval)
    /\ UNCHANGED <<todo, cur, attempt, requests, seen, due, firing, shutdown, healthy,
                   reported, rested>>

Wake ==
    /\ pc = "sleep" /\ Awake
    /\ pc' = "idle" /\ wake' = 0
    /\ UNCHANGED <<todo, cur, attempt, requests, seen, due, gates, firing, shutdown,
                   healthy, reported, rested, tripped>>

(* The loop over the regions ends: at its end, on shutdown, or because the   *)
(* outage gate armed.                                                        *)
PassEnds ==
    /\ pc = "pass" /\ (todo = {} \/ shutdown \/ gates.pausedFor > 0)
    /\ pc' = "idle" /\ todo' = {}
    /\ UNCHANGED <<cur, attempt, requests, seen, due, wake, gates, firing, shutdown,
                   healthy, reported, rested, tripped>>

PassSkips ==
    /\ pc = "pass" /\ todo # {} /\ ~shutdown /\ gates.pausedFor = 0
    /\ due[NextOf(todo)] > 0
    /\ todo' = todo \ {NextOf(todo)}
    /\ UNCHANGED <<pc, cur, attempt, requests, seen, due, wake, gates, firing, shutdown,
                   healthy, reported, rested, tripped>>

(* Cycle.Run is called for r. *)
CallCycle(r, n) ==
    /\ pc' = "cycle" /\ cur' = r /\ attempt' = n
    /\ requests' = 0 /\ seen' = "none"

\* mutant: the loop does not look at the outage gate again
PassRunsRegardless ==
    /\ pc = "pass" /\ todo # {} /\ ~shutdown
    /\ due[NextOf(todo)] = 0
    /\ todo' = todo \ {NextOf(todo)}
    /\ CallCycle(NextOf(todo), 1)
    /\ UNCHANGED <<due, wake, gates, firing, shutdown, healthy, reported, rested, tripped>>

PassRuns ==
    /\ pc = "pass" /\ todo # {} /\ ~shutdown /\ gates.pausedFor = 0
    /\ due[NextOf(todo)] = 0
    /\ todo' = todo \ {NextOf(todo)}
    /\ CallCycle(NextOf(todo), 1)
    /\ UNCHANGED <<due, wake, gates, firing, shutdown, healthy, reported, rested, tripped>>

-----------------------------------------------------------------------------
(* The cycle, as its requests: Sweep asks for nothing below the budget       *)
(* floor, and asks again after a failure only while retriesBlocked allows.   *)
SweepGoesOn ==
    \/ seen = "none" /\ ~BelowFloor(gates, BudgetFloor)
    \/ seen = "ok"
    \/ seen \in {"down", "late"} /\ ~RetriesBlocked(gates, LimitFloor)

CycleRequests ==
    /\ pc = "cycle" /\ requests < MaxRequests /\ SweepGoesOn
    /\ \E a \in AnswerKinds : Request(cur, a) /\ seen' = a
    /\ requests' = requests + 1 /\ rested' = rested \ {cur}
    /\ UNCHANGED <<pc, todo, cur, attempt, due, wake, firing, shutdown, healthy, reported>>

(* How the cycle may end after what it has met: "fault" is a database error  *)
(* or an inconsistent page set.                                              *)
Endings ==
    CASE seen = "none" -> IF BelowFloor(gates, BudgetFloor) THEN {"deferred"}
                          ELSE IF healthy THEN {} ELSE {"fault"}
      [] seen = "ok" -> IF healthy THEN {"refreshed"} ELSE {"refreshed", "deferred", "fault"}
      [] seen = "limited" -> {"limited"}
      [] OTHER -> {"failed"}

(* A deferral reads the region's Expires, like a success. *)
Reschedule(r) == \E d \in NextDues : due' = [due EXCEPT ![r] = d]

RunRegionEnds == pc' = "pass" /\ cur' = NoRegion /\ attempt' = 0

Refreshed ==
    /\ pc = "cycle" /\ ~shutdown /\ "refreshed" \in Endings
    /\ Ends(cur) /\ reported' = [reported EXCEPT ![cur] = 0]
    /\ Reschedule(cur)
    /\ RunRegionEnds
    /\ seen' = "none" /\ requests' = 0
    /\ UNCHANGED <<todo, wake, gates, shutdown, healthy, rested,
                   tripped>>

\* mutant: a deferral ends the run of failures
DeferredEndsStreak ==
    /\ pc = "cycle" /\ ~shutdown /\ "deferred" \in Endings
    /\ Ends(cur)
    /\ Reschedule(cur)
    /\ RunRegionEnds
    /\ seen' = "none" /\ requests' = 0
    /\ UNCHANGED <<todo, wake, gates, shutdown, healthy, reported, rested,
                   tripped>>

Deferred ==
    /\ pc = "cycle" /\ ~shutdown /\ "deferred" \in Endings
    /\ Reschedule(cur)
    /\ RunRegionEnds
    /\ seen' = "none" /\ requests' = 0
    /\ UNCHANGED <<todo, wake, gates, firing, shutdown, healthy, reported, rested,
                   tripped>>

(* A 420: the region keeps its due time. *)
ErrorLimited ==
    /\ pc = "cycle" /\ ~shutdown /\ "limited" \in Endings
    /\ RunRegionEnds
    /\ seen' = "none" /\ requests' = 0
    /\ UNCHANGED <<todo, due, wake, gates, firing, shutdown, healthy, reported, rested,
                   tripped>>

Attempts(r) == IF CanRetry(r) THEN MaxAttempts ELSE 1

\* mutant: one attempt too many
GivesUpLate(r, n) == n > Attempts(r) \/ RetriesBlocked(gates, LimitFloor)

GivesUp(r, n) == n = Attempts(r) \/ RetriesBlocked(gates, LimitFloor)

(* The last attempt, or retries are suspended: report, and try in 30s. *)
RunFails ==
    /\ pc = "cycle" /\ ~shutdown /\ Endings \cap {"failed", "fault"} # {}
    /\ GivesUp(cur, attempt)
    /\ First(cur)
    /\ due' = [due EXCEPT ![cur] = RetryDelay]
    /\ RunRegionEnds
    /\ seen' = "none" /\ requests' = 0
    /\ UNCHANGED <<todo, wake, gates, shutdown, healthy, rested,
                   tripped>>

RunBacksOff ==
    /\ pc = "cycle" /\ ~shutdown /\ Endings \cap {"failed", "fault"} # {}
    /\ ~GivesUp(cur, attempt)
    /\ pc' = "backoff" /\ wake' \in Backoffs
    /\ UNCHANGED <<todo, cur, attempt, requests, seen, due, gates, firing, shutdown,
                   healthy, reported, rested, tripped>>

RunRetries ==
    /\ pc = "backoff" /\ wake = 0 /\ ~shutdown
    /\ CallCycle(cur, attempt + 1)
    /\ UNCHANGED <<todo, due, wake, gates, firing, shutdown, healthy, reported, rested,
                   tripped>>

(* The context ends during the cycle or the backoff: runRegion just returns. *)
RunInterrupted ==
    /\ pc \in {"cycle", "backoff"} /\ shutdown
    /\ RunRegionEnds
    /\ seen' = "none" /\ requests' = 0 /\ wake' = 0
    /\ UNCHANGED <<todo, due, gates, firing, shutdown, healthy, reported, rested,
                   tripped>>

-----------------------------------------------------------------------------
(* The rest of the world. *)
Down(n) == IF n > 0 THEN n - 1 ELSE 0

Clock ==
    /\ pc # "stopped"
    /\ due' = [r \in Regions |-> Down(due[r])]
    /\ wake' = Down(wake)
    /\ gates' = Tick(gates)
    /\ rested' = Regions
    /\ UNCHANGED <<pc, todo, cur, attempt, requests, seen, firing, shutdown, healthy,
                   reported, tripped>>

Shutdown ==
    /\ ~shutdown
    /\ shutdown' = TRUE
    /\ UNCHANGED <<pc, todo, cur, attempt, requests, seen, due, wake, gates, firing,
                   healthy, reported, rested, tripped>>

Recover ==
    /\ ~healthy
    /\ healthy' = TRUE
    /\ UNCHANGED <<pc, todo, cur, attempt, requests, seen, due, wake, gates, firing,
                   shutdown, reported, rested, tripped>>

LoopStep ==
    \/ Prime \/ Primed
    \/ PassBlocked \/ PassOpen \/ Canary \/ Outage \/ Wake
    \/ PassEnds \/ PassSkips \/ PassRuns
    \/ CycleRequests \/ Refreshed \/ Deferred \/ ErrorLimited
    \/ RunFails \/ RunBacksOff \/ RunRetries \/ RunInterrupted

Next == LoopStep \/ Stop \/ Clock \/ Shutdown \/ Recover

Spec == Init /\ [][Next]_vars

(* A tick is some 20 seconds: none passes while the loop has only local      *)
(* work, a wait that is over, a probe or the next one-second pass to do.     *)
Prompt ==
    /\ pc \notin {"pass", "outage", "canary"}
    /\ pc \in {"sleep", "backoff"} => wake > 0
    /\ pc = "idle" => /\ gates.blockedFor = 0 /\ gates.pausedFor = 0
                       /\ ~BelowFloor(gates, BudgetFloor)
                       /\ \A r \in Regions : due[r] > 0

PromptNext == LoopStep \/ Stop \/ (Prompt /\ Clock) \/ Shutdown \/ Recover

(* The goroutine runs and time passes; Go's select chooses among ready cases *)
(* at random, so it cannot ignore a done context forever.                    *)
PromptSpec ==
    /\ Init /\ [][PromptNext]_vars
    /\ WF_vars(LoopStep) /\ SF_vars(Prompt /\ Clock) /\ SF_vars(Stop)

-----------------------------------------------------------------------------
(* Every variable keeps its type. *)
TypeOK ==
    /\ pc \in {"prime", "idle", "sleep", "canary", "outage", "pass", "cycle", "backoff",
               "stopped"}
    /\ todo \subseteq Regions /\ cur \in Regions \cup {NoRegion}
    /\ attempt \in 0..MaxAttempts /\ requests \in 0..MaxRequests
    /\ seen \in AnswerKinds \cup {"none"}
    /\ due \in [Regions -> Nat] /\ wake \in Nat
    /\ gates \in [known : BOOLEAN, remaining : Remainings \cup {0, BudgetFloor},
                   limitKnown : BOOLEAN, limitRemain : Nat, blockedFor : Nat,
                   consecutive : 0..OutageThreshold, pausedFor : Nat]
    /\ firing \subseteq Keys
    /\ shutdown \in BOOLEAN /\ healthy \in BOOLEAN /\ tripped \in BOOLEAN
    /\ reported \in [Regions -> 0..2] /\ rested \subseteq Regions

(* A region's run never starts at the instant its last run asked for it:     *)
(* every way runRegion ends moves the region's due time or leaves a gate     *)
(* that makes the loop wait, the 420 that leaves it due included.            *)
NoHotLoop == [][PassRuns => NextOf(todo) \in rested]_vars

(* While the outage gate is armed no cycle makes its first request, neither  *)
(* the next region of a pass nor a retry after a backoff.                    *)
OutageMeansSilent ==
    [][CycleRequests /\ seen = "none" /\ ~shutdown => gates.pausedFor = 0]_vars

(* However failures, deferrals and 420s of a region follow one another, one  *)
(* report is sent until the region succeeds.                                 *)
ReportOnce == \A r \in Regions : reported[r] <= 1

(* Once ESI serves every region but the Broken ones, each of the regions it  *)
(* serves is refreshed again and again, whatever state the gates were left   *)
(* in: a region that fails holds up no other, and a pause or a low budget is *)
(* probed for its end.                                                       *)
Recovery ==
    \A r \in Regions \ Broken :
        <>[](healthy /\ ~shutdown) => []<><<Refreshed /\ cur = r>>_vars

(* A done context ends the loop, wherever it is. *)
ShutdownEnds == shutdown ~> pc = "stopped"

(* After a 420 nothing is fetched until it resets: no further region of the  *)
(* pass is started while the block is in force.                              *)
BlockedMeansSilent == [][PassRuns => ~(tripped /\ gates.blockedFor > 0)]_vars

=============================================================================
