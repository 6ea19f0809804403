------------------------------- MODULE Sweep -------------------------------
(* Fetcher.Sweep and Fetcher.fetchPage against ESI: page 1 alone, the budget *)
(* check, then one goroutine per further page, each with its own retries,    *)
(* all writing to one bounded channel.  The upstream may roll to its next    *)
(* snapshot, refuse, fail, or answer too late between any two steps, and the *)
(* sweep's context may end.  What it promises its caller is PageStream.      *)
EXTENDS PageStream, Gates, Config

CONSTANTS
    LastModified,     \* LastModified[v]: the Last-Modified header of version v
    MaxPages,         \* bound: the longest page set
    PageAttempts,     \* PAGE_ATTEMPTS
    Concurrency,      \* requests in flight at once
    Reserve,          \* tokens a sweep must leave
    BudgetFloor,      \* below this nothing is fetched
    LimitFloor,       \* ERROR_LIMIT_FLOOR
    Refills,          \* token counts the bucket may have when a sweep starts
    Limits,           \* values of X-ESI-Error-Limit-Remain
    Answers           \* the answers ESI gives, see AnswerKinds

AnswerKinds ==
    {"ok",          \* 200
     "garbled",     \* 200 whose body does not decode
     "unavailable", \* 503
     "limited",     \* 420
     "late"}        \* no answer before the client's timeout

ASSUME SweepAssumption ==
    /\ MaxPages \in Nat \ {0} /\ \A v \in Versions : PagesOf[v] <= MaxPages
    /\ LastModified \in [Versions -> Nat]
    /\ \A v, w \in Versions :  \* ESI's headers tell snapshots apart
          LastModified[v] = LastModified[w] /\ PagesOf[v] = PagesOf[w] => v = w
    /\ {PageAttempts, Concurrency, Reserve, BudgetFloor, LimitFloor} \subseteq Int
    /\ ValidFetch(Concurrency, PageAttempts, LimitFloor)
    /\ ValidBudget(Reserve, BudgetFloor)
    /\ Refills \subseteq Nat /\ Limits \subseteq Nat
    /\ Answers \subseteq AnswerKinds

Pages == 1..MaxPages

VARIABLES
    at,        \* where Sweep is
    first,     \* the version page 1 came from, 0 before
    fetch,     \* fetch[p]: fetchPage for page p
    groupErr,  \* the errgroup's first error, "nil" if none
    mismatch,  \* a page's Last-Modified differed from page 1's
    grew,      \* a page's X-Pages differed from page 1's
    orders,    \* OrderCount so far
    spent,     \* TokensSpent so far
    gates,     \* the client's gates
    bucket,    \* ESI: tokens left
    charged,   \* ESI: tokens charged for this sweep
    missed     \* history: of those, charged for responses that were given up

fetchVars == <<at, first, fetch, groupErr, mismatch, grew, orders, spent>>
esiVars == <<gates, bucket, charged, missed>>
vars == <<streamVars, fetchVars, esiVars>>

(* fetchPage for one page: its stage, the attempt, the version and the       *)
(* response it holds, and the error it last met.                             *)
NoResponse == Response(0, None, None, 0, 0)
Idle == [stage |-> "off", attempt |-> 0, ver |-> 0, resp |-> NoResponse, err |-> "nil"]
Asking == [Idle EXCEPT !.stage = "ask", !.attempt = 1]

Stages == {"off", "ask", "wire", "answered", "returned", "backoff", "got", "send",
           "failed"}

(* Every variable keeps its type. *)
TypeOK ==
    /\ ver \in Versions /\ phase \in {"idle", "open", "closed"}
    /\ out \subseteq sent /\ sent \subseteq Batches /\ Cardinality(out) <= ChanCap
    /\ at \in {"off", "start", "first", "send", "group", "return"}
    /\ first \in 0..MaxVersion
    /\ \A p \in Pages : /\ fetch[p].stage \in Stages
                        /\ fetch[p].attempt \in 0..PageAttempts
                        /\ fetch[p].ver \in 0..MaxVersion
                        /\ fetch[p].err \in SweepErrors \cup {"nil"}
    /\ groupErr \in SweepErrors \cup {"nil"}
    /\ mismatch \in BOOLEAN /\ grew \in BOOLEAN
    /\ orders \in 0..MaxPages /\ spent \in Nat
    /\ bucket \in Nat /\ charged \in Nat /\ missed \in Nat
    /\ gates.consecutive \in 0..OutageThreshold

Init ==
    /\ StreamInit
    /\ at = "off" /\ first = 0 /\ fetch = [p \in Pages |-> Idle]
    /\ groupErr = "nil" /\ mismatch = FALSE /\ grew = FALSE
    /\ orders = 0 /\ spent = 0
    /\ gates = FreshGates /\ bucket \in Refills /\ charged = 0 /\ missed = 0

-----------------------------------------------------------------------------
(* The context of page p: the sweep's own for page 1, the errgroup's after. *)
Done(p) == cancel \/ (p > 1 /\ groupErr # "nil")

InFlight == {p \in Pages : fetch[p].stage \in {"wire", "answered"}}

Begin ==
    /\ at = "off"
    /\ \E done \in BOOLEAN : Open(done)
    /\ at' = "start" /\ first' = 0 /\ fetch' = [p \in Pages |-> Idle]
    /\ groupErr' = "nil" /\ mismatch' = FALSE /\ grew' = FALSE
    /\ orders' = 0 /\ spent' = 0 /\ charged' = 0 /\ missed' = 0
    /\ bucket' \in Refills
    /\ UNCHANGED gates

(* Sweep returns e; SweepMeta describes the page set only when e is nil. *)
Return(e) ==
    /\ phase' = "closed" /\ at' = "off"
    /\ err' = IF e = "nil" THEN {} ELSE {e}
    /\ meta' = IF e = "nil" THEN first ELSE 0
    /\ count' = IF e = "nil" THEN orders ELSE 0
    /\ UNCHANGED <<ver, floor, out, sent, cancel>>

(* Budget.BelowFloor is asked before anything is sent. *)
CheckFloor ==
    /\ at = "start"
    /\ \/ BelowFloor(gates, BudgetFloor) /\ Return("deferred") /\ UNCHANGED fetch
       \/ /\ ~BelowFloor(gates, BudgetFloor)
          /\ at' = "first" /\ fetch' = [fetch EXCEPT ![1] = Asking]
          /\ UNCHANGED streamVars
    /\ UNCHANGED <<first, groupErr, mismatch, grew, orders, spent, esiVars>>

-----------------------------------------------------------------------------
(* fetchPage *)

(* Client.get takes a slot of the semaphore and sends the request, unless    *)
(* the context is done.                                                      *)
Ask(p) ==
    /\ fetch[p].stage = "ask"
    /\ \/ /\ ~Done(p) /\ Cardinality(InFlight) < Concurrency
          /\ fetch' = [fetch EXCEPT ![p].stage = "wire"]
       \/ /\ Done(p)
          /\ fetch' = [fetch EXCEPT ![p].stage = "failed", ![p].err = "canceled"]
    /\ UNCHANGED <<streamVars, at, first, groupErr, mismatch, grew, orders, spent, esiVars>>

(* What ESI answers to page p: its status and headers.  A page past the end  *)
(* does not exist, and an empty bucket is answered 429.                      *)
StatusOf(p, a) ==
    CASE a = "unavailable" -> 503
      [] a = "limited" -> 420
      [] OTHER -> IF p > PagesOf[ver] THEN 404
                  ELSE IF bucket < TokenCost(200) THEN 429 ELSE 200

(* ESI handles the request: it charges it, and its headers say what is left. *)
Serve(p) ==
    /\ fetch[p].stage = "wire"
    /\ \E a \in Answers \ {"late"}, limit \in Limits :
        LET status == StatusOf(p, a)
            left == Later(0, bucket - TokenCost(status))
        IN  /\ bucket' = left /\ charged' = charged + TokenCost(status)
            /\ fetch' = [fetch EXCEPT
                   ![p].stage = "answered",
                   ![p].ver = IF status = 200 /\ a # "garbled" THEN ver ELSE 0,
                   ![p].resp = Response(status, left, IF status = 200 THEN None ELSE limit,
                                        0, 0)]
    /\ UNCHANGED <<streamVars, at, first, groupErr, mismatch, grew, orders, spent,
                   gates, missed>>

(* retryablePage: 429, 5xx and transport errors. *)
RetryablePage(status) == status = 429 \/ status >= 500 \/ status = 0

ErrorOf(status) ==
    CASE status = 420 -> "errorlimited"
      [] status = 0 -> "transport"
      [] OTHER -> "http"

\* mutant: the gates are not asked before a page is retried
MayRetryAnyway(p) ==
    /\ RetryablePage(fetch[p].resp.status)
    /\ fetch[p].attempt < PageAttempts
    /\ ~Done(p)

(* fetchPage's breaks, in the order it makes them. *)
MayRetry(p) ==
    /\ RetryablePage(fetch[p].resp.status)
    /\ fetch[p].attempt < PageAttempts
    /\ ~Done(p)
    /\ ~RetriesBlocked(gates, LimitFloor)

(* Page p moves on within its attempt. *)
Moved(p, stage, v, resp, e) ==
    [fetch EXCEPT ![p] = [stage |-> stage, attempt |-> fetch[p].attempt, ver |-> v,
                          resp |-> resp, err |-> e]]

(* The response arrives and client.get returns: it has fed the gates, and    *)
(* fetchPage counts its tokens.  Only the scheduler asks how long a 420      *)
(* blocks, so that instant is not kept.                                      *)
Receive(p) ==
    LET r == fetch[p].resp
    IN  /\ fetch[p].stage = "answered"
        /\ gates' = [Observe(gates, r) EXCEPT !.blockedFor = 0]
        /\ spent' = spent + TokenCost(r.status)
        /\ fetch' = IF fetch[p].ver # 0
                    THEN Moved(p, "got", fetch[p].ver, NoResponse, "nil")
                    ELSE Moved(p, "returned", 0, r, ErrorOf(r.status))
        /\ UNCHANGED <<streamVars, at, first, groupErr, mismatch, grew, orders,
                       bucket, charged, missed>>

(* client.get returns without a response. *)
NothingReturned(p) ==
    /\ fetch[p].stage \in {"wire", "answered"}
    /\ "late" \in Answers \/ Done(p)
    /\ fetch' = Moved(p, "returned", 0, NoResponse,
                      IF Done(p) THEN "canceled" ELSE ErrorOf(0))
    /\ missed' = missed + TokenCost(fetch[p].resp.status)
    /\ UNCHANGED <<streamVars, at, first, groupErr, mismatch, grew, orders,
                   gates, bucket, charged>>

\* mutant: a request without a response is counted as if it had one
GiveUpCounted(p) == NothingReturned(p) /\ spent' = spent + TokenCost(200)

(* The client gives up on a request that ESI may have handled: the timeout   *)
(* passes, or the context ends.  There is no response, so no gate moves and  *)
(* no token is counted.                                                      *)
GiveUp(p) == NothingReturned(p) /\ UNCHANGED spent

(* The attempt failed: back off and try again, or give the page up.  Other   *)
(* pages' responses may have moved the gates since this one's.               *)
Judge(p) ==
    /\ fetch[p].stage = "returned"
    /\ fetch' = Moved(p, IF MayRetry(p) THEN "backoff" ELSE "failed", 0, NoResponse,
                      fetch[p].err)
    /\ UNCHANGED <<streamVars, at, first, groupErr, mismatch, grew, orders, spent, esiVars>>

(* The backoff ends; a sleep cut short keeps the error it slept on. *)
Backoff(p) ==
    /\ fetch[p].stage = "backoff"
    /\ fetch' = IF Done(p) THEN [fetch EXCEPT ![p].stage = "failed"]
                ELSE [fetch EXCEPT ![p].stage = "ask", ![p].attempt = @ + 1]
    /\ UNCHANGED <<streamVars, at, first, groupErr, mismatch, grew, orders, spent, esiVars>>

-----------------------------------------------------------------------------
(* Sweep: page 1 *)
FirstFailed ==
    /\ at = "first" /\ fetch[1].stage = "failed"
    /\ Return(fetch[1].err)
    /\ UNCHANGED <<first, fetch, groupErr, mismatch, grew, orders, spent, esiVars>>

(* What the rest of the page set costs. *)
RemainingCost(v) == (PagesOf[v] - 1) * TokenCost(200)

FirstFetched ==
    /\ at = "first" /\ fetch[1].stage = "got"
    /\ first' = fetch[1].ver
    /\ \/ /\ Fits(gates, RemainingCost(first'), Reserve)
          /\ at' = "send" /\ UNCHANGED streamVars
       \/ /\ ~Fits(gates, RemainingCost(first'), Reserve)
          /\ Return("deferred")
    /\ UNCHANGED <<fetch, groupErr, mismatch, grew, orders, spent, esiVars>>

\* mutant: the channel has no bound
PutUnbounded(b) ==
    /\ out' = out \cup {b} /\ sent' = sent \cup {b}
    /\ UNCHANGED <<ver, phase, floor, meta, count, err, cancel>>

(* A send on the channel. *)
Put(b) ==
    /\ Cardinality(out) < ChanCap
    /\ out' = out \cup {b} /\ sent' = sent \cup {b}
    /\ UNCHANGED <<ver, phase, floor, meta, count, err, cancel>>

SendFirst ==
    /\ at = "send"
    /\ \/ /\ Put(Batch(first, 1))
          /\ orders' = 1
          /\ at' = IF PagesOf[first] = 1 THEN "return" ELSE "group"
          /\ fetch' = [p \in Pages |-> IF p \in 2..PagesOf[first] THEN Asking ELSE Idle]
       \/ /\ cancel
          /\ Return("canceled")
          /\ UNCHANGED <<orders, fetch>>
    /\ UNCHANGED <<first, groupErr, mismatch, grew, spent, esiVars>>

ReturnSingle ==
    /\ at = "return"
    /\ Return("nil")
    /\ UNCHANGED <<first, fetch, groupErr, mismatch, grew, orders, spent, esiVars>>

(* Sweep: the goroutine of page p > 1.  It compares the page with page 1 and *)
(* counts it before it sends it.                                             *)
Worker(p) == at = "group" /\ p \in 2..PagesOf[first]

(* The errgroup keeps the first error. *)
GroupFails(e) == groupErr' = IF groupErr = "nil" THEN e ELSE groupErr

WorkerFailed(p) ==
    /\ Worker(p) /\ fetch[p].stage = "failed"
    /\ GroupFails(fetch[p].err)
    /\ fetch' = [fetch EXCEPT ![p] = Idle]
    /\ UNCHANGED <<streamVars, at, first, mismatch, grew, orders, spent, esiVars>>

\* mutant: X-Pages is not compared
WorkerComparesStamp(p) ==
    /\ Worker(p) /\ fetch[p].stage = "got"
    /\ mismatch' = (mismatch \/ LastModified[fetch[p].ver] # LastModified[first])
    /\ orders' = orders + 1
    /\ fetch' = [fetch EXCEPT ![p].stage = "send"]
    /\ UNCHANGED <<streamVars, at, first, groupErr, grew, spent, esiVars>>

WorkerCompares(p) ==
    /\ Worker(p) /\ fetch[p].stage = "got"
    /\ mismatch' = (mismatch \/ LastModified[fetch[p].ver] # LastModified[first])
    /\ grew' = (grew \/ PagesOf[fetch[p].ver] # PagesOf[first])
    /\ orders' = orders + 1
    /\ fetch' = [fetch EXCEPT ![p].stage = "send"]
    /\ UNCHANGED <<streamVars, at, first, groupErr, spent, esiVars>>

WorkerSends(p) ==
    /\ Worker(p) /\ fetch[p].stage = "send"
    /\ \/ Put(Batch(fetch[p].ver, p)) /\ UNCHANGED groupErr
       \/ Done(p) /\ GroupFails("canceled") /\ UNCHANGED streamVars
    /\ fetch' = [fetch EXCEPT ![p] = Idle]
    /\ UNCHANGED <<at, first, mismatch, grew, orders, spent, esiVars>>

(* g.Wait returns once every goroutine has. *)
Wait ==
    /\ at = "group" /\ \A p \in Pages \ {1} : fetch[p] = Idle
    /\ Return(IF groupErr # "nil" THEN groupErr
              ELSE IF mismatch \/ grew THEN "inconsistent" ELSE "nil")
    /\ UNCHANGED <<first, fetch, groupErr, mismatch, grew, orders, spent, esiVars>>

-----------------------------------------------------------------------------
(* The rest of the world: the consumer takes a batch, the context ends, the  *)
(* upstream rolls, time passes.                                              *)
Consume ==
    /\ \E b \in out : Take(b)
    /\ UNCHANGED <<fetchVars, esiVars>>

ContextEnds ==
    /\ phase = "open" /\ ~cancel
    /\ Cancel
    /\ UNCHANGED <<fetchVars, esiVars>>

UpstreamRolls == Roll /\ UNCHANGED <<fetchVars, esiVars>>

TimePasses ==
    /\ gates' = Tick(gates) /\ gates' # gates
    /\ UNCHANGED <<streamVars, fetchVars, bucket, charged, missed>>

MainStep ==
    \/ CheckFloor \/ FirstFailed \/ FirstFetched \/ SendFirst \/ ReturnSingle \/ Wait

PageStep(p) ==
    \/ Ask(p) \/ Serve(p) \/ Receive(p) \/ GiveUp(p) \/ Judge(p)
    \/ Backoff(p)
    \/ WorkerFailed(p) \/ WorkerCompares(p) \/ WorkerSends(p)

Next ==
    \/ Begin \/ MainStep
    \/ \E p \in Pages : PageStep(p)
    \/ Consume \/ ContextEnds \/ UpstreamRolls \/ TimePasses

Spec == Init /\ [][Next]_vars

(* Every goroutine that can run does: a request is answered or times out, a  *)
(* backoff ends.  Nothing is assumed of the consumer.                        *)
FairSpec ==
    /\ Spec
    /\ WF_vars(MainStep)
    /\ \A p \in Pages : WF_vars(PageStep(p))

-----------------------------------------------------------------------------
(* Properties *)

Contract == INSTANCE PageStream

(* The sweep keeps its promise to the cycle: a nil error means that exactly  *)
(* one complete snapshot was sent, whatever page was retried, refused or     *)
(* served from another snapshot ("Every page must come from the same         *)
(* server-side snapshot"); and a sweep that the channel does not hold up, or *)
(* that is cancelled, returns.                                               *)
StreamRefined == Contract!StreamSpec

(* The budget check uses what ESI said last, not what an earlier sweep left  *)
(* behind, so a successful sweep eats into the reserve only with the         *)
(* requests it had to repeat (Fits: "would still leave the reserve intact"). *)
ReserveKept ==
    phase = "closed" /\ err = {} =>
        bucket + (charged - PagesOf[meta] * TokenCost(200)) >= Reserve

(* TokensSpent accounts for every response, whichever attempt brought it and *)
(* however the sweep ended: it falls short of what ESI charged by exactly    *)
(* the requests that were given up after ESI had handled them, which leave   *)
(* fetchPage no response to count.  So "a retry is never invisible in the    *)
(* budget accounting" (fetchPage) is true of a retry after an answer and not *)
(* of one after a timeout: a successful sweep too may have missed some.      *)
EveryResponseCounted == phase = "closed" => spent + missed = charged

(* "Retries also stop ... while the outage gate is armed": retriesBlocked is *)
(* asked before the backoff, not after it, so a repeat may go out into gates *)
(* that were armed meanwhile; but then the page whose response armed them is *)
(* not through yet: it is still to ask retriesBlocked itself, or has failed  *)
(* and not yet cancelled the group.                                          *)
RetryRespectsGates ==
    [][\A p \in Pages :
          /\ fetch[p].attempt > 1 /\ fetch[p].stage = "ask" /\ fetch'[p].stage = "wire"
          /\ RetriesBlocked(gates, LimitFloor)
          => \E q \in Pages \ {p} : fetch[q].stage \in {"returned", "failed"}]_vars

=============================================================================
