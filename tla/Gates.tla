------------------------------- MODULE Gates -------------------------------
(* The three gates every ESI response feeds (esi.Budget, esi.ErrorLimit and  *)
(* esi.Outage), as one record, and what Client.get does to them.  An instant *)
(* in the code (blockedUntil, pausedUntil) is the time left until it, in     *)
(* ticks, so that the clock itself is not part of the state.                 *)
EXTENDS Integers

CONSTANT
    Minute       \* ticks in a minute, the default length of a pause or block

ASSUME GatesAssumption == Minute \in Nat \ {0}

OutageThreshold == 2  \* outageThreshold

Later(s, t) == IF s > t THEN s ELSE t

(* Nothing has been observed yet. *)
FreshGates ==
    [known |-> FALSE, remaining |-> 0,
     limitKnown |-> FALSE, limitRemain |-> 0, blockedFor |-> 0,
     consecutive |-> 0, pausedFor |-> 0]

(* A response: its status and the headers that matter.  None is an absent    *)
(* header.                                                                   *)
None == -1

Response(status, remaining, limitRemain, limitReset, retryAfter) ==
    [status |-> status, remaining |-> remaining, limitRemain |-> limitRemain,
     limitReset |-> limitReset, retryAfter |-> retryAfter]

-----------------------------------------------------------------------------
(* Budget *)
ObserveBudget(g, n) == [g EXCEPT !.known = TRUE, !.remaining = n]

\* mutant: the reserve is not kept
FitsExactly(g, cost, reserve) == ~g.known \/ g.remaining >= cost

Fits(g, cost, reserve) == ~g.known \/ g.remaining - cost >= reserve

BelowFloor(g, floor) == g.known /\ g.remaining < floor

(* ErrorLimit *)
ResetAt(g, d) == [g EXCEPT !.blockedFor = Later(@, d)]

ObserveErrorLimit(g, remain, reset) ==
    LET seen == [g EXCEPT !.limitKnown = TRUE, !.limitRemain = remain]
    IN  IF reset > 0 THEN ResetAt(seen, reset) ELSE seen

\* mutant: a 420 without a reset header blocks nothing
BlockAsTold(g, d) == ResetAt(g, d)

Block(g, d) == ResetAt(g, IF d <= 0 THEN Minute ELSE d)

Healthy(g, floor) == ~g.limitKnown \/ g.limitRemain > floor

(* Outage; the counter saturates where it is no longer told apart. *)
ObserveOutage(g, status, retryAfter) ==
    IF status < 500
    THEN [g EXCEPT !.consecutive = 0, !.pausedFor = 0]
    ELSE IF g.consecutive + 1 < OutageThreshold
    THEN [g EXCEPT !.consecutive = @ + 1]
    ELSE [g EXCEPT !.consecutive = OutageThreshold,
                   !.pausedFor = Later(@, IF retryAfter <= 0 THEN Minute ELSE retryAfter)]

-----------------------------------------------------------------------------
(* Client.get: the order in which one response feeds the gates. *)
Observe(g, r) ==
    LET budget == IF r.remaining = None THEN g ELSE ObserveBudget(g, r.remaining)
        limit  == IF r.status # 200 /\ r.limitRemain # None
                  THEN ObserveErrorLimit(budget, r.limitRemain, r.limitReset) ELSE budget
        block  == IF r.status = 420 THEN Block(limit, r.limitReset) ELSE limit
    IN  ObserveOutage(block, r.status, IF r.status = 200 THEN 0 ELSE r.retryAfter)

TokenCost(status) ==
    CASE status = 304 -> 1
      [] status \in 200..299 -> 2
      [] status \in 300..399 /\ status # 304 -> 1
      [] status \in 400..499 -> 5
      [] OTHER -> 0

(* retriesBlocked: why no retry may run right now. *)
RetriesBlocked(g, limitFloor) == g.pausedFor > 0 \/ ~Healthy(g, limitFloor)

(* One tick of the clock. *)
Tick(g) ==
    [g EXCEPT !.blockedFor = IF @ > 0 THEN @ - 1 ELSE 0,
              !.pausedFor = IF @ > 0 THEN @ - 1 ELSE 0]

=============================================================================
