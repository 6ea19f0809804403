---------------------------- MODULE SweepProofs ----------------------------
(* Proofs about Sweep for every snapshot history, page count, budget,        *)
(* concurrency and number of attempts, and whatever ESI answers.             *)
EXTENDS Sweep, GatesProofs, FiniteSetTheorems

(* What one fetchPage may hold. *)
Fetches ==
    [stage : Stages, attempt : 0..PageAttempts, ver : 0..MaxVersion,
     resp : ResponseType(Nat), err : SweepErrors \cup {"nil"}]

(* The numbers of the configuration. *)
LEMMA SweepConstants ==
    /\ MaxVersion \in Nat /\ MaxVersion >= 1
    /\ MaxPages \in Nat /\ MaxPages >= 1
    /\ PageAttempts \in Nat /\ PageAttempts >= 1
    /\ Reserve \in Int /\ LimitFloor \in Int /\ ChanCap \in Nat /\ ChanCap >= 1
    /\ \A v \in Versions : PagesOf[v] \in Nat /\ PagesOf[v] >= 1 /\ PagesOf[v] <= MaxPages
    /\ 1 \in Pages
  BY SnapshotAssumption, SweepAssumption, ChanAssumption DEF ValidFetch, Versions, Pages

-----------------------------------------------------------------------------
(* The updates of fetch *)

(* Page p is fetched with these fields now, and no other page has moved. *)
Becomes(f, h, p, stage, attempt, v, resp, e) ==
    /\ h \in [Pages -> Fetches]
    /\ h[p].stage = stage /\ h[p].attempt = attempt /\ h[p].ver = v
    /\ h[p].resp = resp /\ h[p].err = e
    /\ \A q \in Pages \ {p} : h[q] = f[q]

(* Setting a page's stage leaves its other fields. *)
LEMMA SetStage ==
    ASSUME NEW f \in [Pages -> Fetches], NEW p \in Pages, NEW s \in Stages
    PROVE  Becomes(f, [f EXCEPT ![p].stage = s], p,
                   s, f[p].attempt, f[p].ver, f[p].resp, f[p].err)
  BY DEF Becomes, Fetches

(* The same for the attempt. *)
LEMMA SetAttempt ==
    ASSUME NEW f \in [Pages -> Fetches], NEW p \in Pages, NEW n \in 0..PageAttempts
    PROVE  Becomes(f, [f EXCEPT ![p].attempt = n], p,
                   f[p].stage, n, f[p].ver, f[p].resp, f[p].err)
  BY DEF Becomes, Fetches

(* The same for the version. *)
LEMMA SetVer ==
    ASSUME NEW f \in [Pages -> Fetches], NEW p \in Pages, NEW v \in 0..MaxVersion
    PROVE  Becomes(f, [f EXCEPT ![p].ver = v], p,
                   f[p].stage, f[p].attempt, v, f[p].resp, f[p].err)
  BY DEF Becomes, Fetches

(* The same for the response. *)
LEMMA SetResp ==
    ASSUME NEW f \in [Pages -> Fetches], NEW p \in Pages, NEW r \in ResponseType(Nat)
    PROVE  Becomes(f, [f EXCEPT ![p].resp = r], p,
                   f[p].stage, f[p].attempt, f[p].ver, r, f[p].err)
  BY DEF Becomes, Fetches

(* The same for the error. *)
LEMMA SetErr ==
    ASSUME NEW f \in [Pages -> Fetches], NEW p \in Pages, NEW e \in SweepErrors \cup {"nil"}
    PROVE  Becomes(f, [f EXCEPT ![p].err = e], p,
                   f[p].stage, f[p].attempt, f[p].ver, f[p].resp, e)
  BY DEF Becomes, Fetches

(* The two pages every goroutine starts and ends with. *)
LEMMA IdleType ==
    /\ Idle \in Fetches /\ NoResponse \in ResponseType(Nat)
    /\ Asking \in Fetches /\ Asking.stage = "ask" /\ Asking.attempt = 1 /\ Asking.ver = 0
    /\ Asking.err = "nil" /\ Asking.resp = NoResponse
  <1>1. NoResponse \in ResponseType(Nat)
    BY DEF NoResponse, Response, ResponseType, None
  <1>2. Idle \in Fetches
    BY <1>1, SweepConstants DEF Idle, Fetches, Stages
  <1> DEFINE h == [Idle EXCEPT !.stage = "ask"]
  <1>3. h = [stage |-> "ask", attempt |-> 0, ver |-> 0, resp |-> NoResponse, err |-> "nil"]
    BY DEF Idle
  <1>4. Asking = [h EXCEPT !.attempt = 1]
    BY DEF Asking
  <1> HIDE DEF h
  <1>5. Asking = [stage |-> "ask", attempt |-> 1, ver |-> 0, resp |-> NoResponse, err |-> "nil"]
    BY <1>3, <1>4
  <1>6. Asking \in Fetches
    BY <1>1, <1>5, SweepConstants DEF Fetches, Stages
  <1> QED
    BY <1>1, <1>2, <1>5, <1>6

(* Client.get's first half: the request is sent, or the context is done. *)
LEMMA AskEffect ==
    ASSUME fetch \in [Pages -> Fetches], NEW p \in Pages, Ask(p)
    PROVE  \/ /\ ~Done(p)
              /\ Becomes(fetch, fetch', p, "wire", fetch[p].attempt, fetch[p].ver,
                         fetch[p].resp, fetch[p].err)
           \/ /\ Done(p)
              /\ Becomes(fetch, fetch', p, "failed", fetch[p].attempt, fetch[p].ver,
                         fetch[p].resp, "canceled")
  <1> DEFINE h == [fetch EXCEPT ![p].stage = "failed"]
             k == [h EXCEPT ![p].err = "canceled"]
  <1>1. Becomes(fetch, h, p, "failed", fetch[p].attempt, fetch[p].ver, fetch[p].resp,
                fetch[p].err)
    BY SetStage DEF Stages
  <1>2. h \in [Pages -> Fetches]
    BY <1>1 DEF Becomes
  <1> HIDE DEF h
  <1>3. Becomes(h, k, p, h[p].stage, h[p].attempt, h[p].ver, h[p].resp, "canceled")
    BY <1>2, SetErr DEF SweepErrors
  <1> HIDE DEF k
  <1>4. Becomes(fetch, k, p, "failed", fetch[p].attempt, fetch[p].ver, fetch[p].resp,
                "canceled")
    BY <1>1, <1>3 DEF Becomes
  <1>5. CASE ~Done(p)
    BY <1>5, SetStage DEF Ask, Stages
  <1>6. CASE Done(p)
    <2>1. fetch' = k
      BY <1>6 DEF Ask, h, k
    <2> QED
      BY <1>4, <1>6, <2>1
  <1> QED
    BY <1>5, <1>6

(* The tokens a response costs. *)
LEMMA TokenCostType ==
    ASSUME NEW status \in Nat
    PROVE  TokenCost(status) \in 0..5 /\ TokenCost(200) = 2
  BY DEF TokenCost

Statuses == {200, 404, 420, 429, 503}

(* What an answer looks like: only a 200 for an existing page carries one of *)
(* the current snapshot's pages, and its header says what the bucket holds.  *)
LEMMA ServeEffect ==
    ASSUME fetch \in [Pages -> Fetches], ver \in Versions, bucket \in Nat, charged \in Nat,
           NEW p \in Pages, Serve(p)
    PROVE  \E status \in Statuses, v \in {0, ver}, l \in Nat \cup {None} :
             /\ bucket' \in Nat /\ charged' = charged + TokenCost(status)
             /\ bucket' >= bucket - TokenCost(status)
             /\ v # 0 => status = 200 /\ p <= PagesOf[ver]
             /\ Becomes(fetch, fetch', p, "answered", fetch[p].attempt, v,
                        Response(status, bucket', l, 0, 0), fetch[p].err)
  <1>1. PICK a \in Answers \ {"late"}, limit \in Limits :
           LET status == StatusOf(p, a)
               left == Later(0, bucket - TokenCost(status))
           IN  /\ bucket' = left /\ charged' = charged + TokenCost(status)
               /\ fetch' = [fetch EXCEPT
                      ![p].stage = "answered",
                      ![p].ver = IF status = 200 /\ a # "garbled" THEN ver ELSE 0,
                      ![p].resp = Response(status, left,
                                           IF status = 200 THEN None ELSE limit, 0, 0)]
    BY DEF Serve
  <1> DEFINE status == StatusOf(p, a)
             v == IF status = 200 /\ a # "garbled" THEN ver ELSE 0
             l == IF status = 200 THEN None ELSE limit
             r == Response(status, bucket', l, 0, 0)
             f1 == [fetch EXCEPT ![p].stage = "answered"]
             f2 == [f1 EXCEPT ![p].ver = v]
             f3 == [f2 EXCEPT ![p].resp = r]
  <1>2. status \in Statuses /\ (status = 200 => p <= PagesOf[ver])
    <2>1. PagesOf[ver] \in Nat /\ p \in Nat
      BY SweepConstants DEF Pages
    <2> QED
      BY <2>1 DEF StatusOf, Statuses
  <1>3. v \in {0, ver} /\ v \in 0..MaxVersion /\ (v # 0 => status = 200)
    BY SweepConstants DEF Versions
  <1>4. l \in Nat \cup {None}
    BY SweepAssumption
  <1>5. fetch' = f3
    BY <1>1
  <1>6. TokenCost(status) \in 0..5
    BY <1>2, TokenCostType DEF Statuses
  <1>7. bucket' = Later(0, bucket - TokenCost(status))
        /\ charged' = charged + TokenCost(status)
    BY <1>1
  <1> HIDE DEF status, v, l, f1, f2, f3
  <1>8. bucket' \in Nat /\ bucket' >= bucket - TokenCost(status)
    BY <1>6, <1>7 DEF Later
  <1>9. r \in ResponseType(Nat)
    BY <1>2, <1>4, <1>8 DEF Response, ResponseType, Statuses
  <1> HIDE DEF r
  <1>10. Becomes(fetch, f1, p, "answered", fetch[p].attempt, fetch[p].ver, fetch[p].resp,
                 fetch[p].err)
    BY SetStage DEF Stages, f1
  <1>11. f1 \in [Pages -> Fetches]
    BY <1>10 DEF Becomes
  <1>12. Becomes(f1, f2, p, f1[p].stage, f1[p].attempt, v, f1[p].resp, f1[p].err)
    <2>1. v \in 0..MaxVersion
      BY <1>3
    <2> QED
      BY <1>11, <2>1, SetVer DEF f2
  <1>13. f2 \in [Pages -> Fetches]
    BY <1>12 DEF Becomes
  <1>14. Becomes(f2, f3, p, f2[p].stage, f2[p].attempt, f2[p].ver, r, f2[p].err)
    BY <1>9, <1>13, SetResp DEF f3
  <1>15. Becomes(fetch, fetch', p, "answered", fetch[p].attempt, v, r, fetch[p].err)
    BY <1>5, <1>10, <1>12, <1>14 DEF Becomes
  <1> QED
    BY <1>2, <1>3, <1>4, <1>7, <1>8, <1>15 DEF r

(* A page that moves on within its attempt. *)
LEMMA MovedEffect ==
    ASSUME fetch \in [Pages -> Fetches], NEW p \in Pages, NEW s \in Stages,
           NEW v \in 0..MaxVersion, NEW r \in ResponseType(Nat),
           NEW e \in SweepErrors \cup {"nil"}, fetch' = Moved(p, s, v, r, e)
    PROVE  Becomes(fetch, fetch', p, s, fetch[p].attempt, v, r, e)
  <1> DEFINE h == [stage |-> s, attempt |-> fetch[p].attempt, ver |-> v, resp |-> r, err |-> e]
  <1>1. h \in Fetches
    BY DEF Fetches
  <1>2. h.stage = s /\ h.attempt = fetch[p].attempt /\ h.ver = v /\ h.resp = r /\ h.err = e
    OBVIOUS
  <1>3. fetch' = [fetch EXCEPT ![p] = h]
    BY DEF Moved
  <1> HIDE DEF h
  <1> QED
    BY <1>1, <1>2, <1>3 DEF Becomes

(* A call that returned nothing. *)
LEMMA GiveUpEffect ==
    ASSUME fetch \in [Pages -> Fetches], NEW p \in Pages, GiveUp(p)
    PROVE  \E e \in SweepErrors :
             Becomes(fetch, fetch', p, "returned", fetch[p].attempt, 0, NoResponse, e)
  <1> DEFINE e == IF Done(p) THEN "canceled" ELSE ErrorOf(0)
  <1>1. e \in SweepErrors
    BY DEF ErrorOf, SweepErrors
  <1>2. fetch' = Moved(p, "returned", 0, NoResponse, e)
    BY DEF GiveUp, NothingReturned
  <1> HIDE DEF e
  <1>3. "returned" \in Stages /\ 0 \in 0..MaxVersion /\ NoResponse \in ResponseType(Nat)
    BY IdleType, SweepConstants DEF Stages
  <1>4. Becomes(fetch, fetch', p, "returned", fetch[p].attempt, 0, NoResponse, e)
    BY <1>1, <1>2, <1>3, MovedEffect
  <1> QED
    BY <1>1, <1>4

(* A failed attempt: the page waits for the next one, or is given up. *)
LEMMA JudgeEffect ==
    ASSUME fetch \in [Pages -> Fetches], NEW p \in Pages, Judge(p)
    PROVE  Becomes(fetch, fetch', p, IF MayRetry(p) THEN "backoff" ELSE "failed",
                   fetch[p].attempt, 0, NoResponse, fetch[p].err)
  <1> DEFINE s == IF MayRetry(p) THEN "backoff" ELSE "failed"
  <1>1. /\ s \in Stages /\ 0 \in 0..MaxVersion /\ NoResponse \in ResponseType(Nat)
        /\ fetch[p].err \in SweepErrors \cup {"nil"}
    BY IdleType, SweepConstants DEF Stages, Fetches
  <1>2. fetch' = Moved(p, s, 0, NoResponse, fetch[p].err)
    BY DEF Judge
  <1> HIDE DEF s
  <1>3. Becomes(fetch, fetch', p, s, fetch[p].attempt, 0, NoResponse, fetch[p].err)
    BY <1>1, <1>2, MovedEffect
  <1> QED
    BY <1>3 DEF s

(* The end of a backoff. *)
LEMMA BackoffEffect ==
    ASSUME fetch \in [Pages -> Fetches], NEW p \in Pages, Backoff(p),
           fetch[p].attempt < PageAttempts
    PROVE  IF Done(p)
           THEN Becomes(fetch, fetch', p, "failed", fetch[p].attempt, fetch[p].ver,
                        fetch[p].resp, fetch[p].err)
           ELSE Becomes(fetch, fetch', p, "ask", fetch[p].attempt + 1, fetch[p].ver,
                        fetch[p].resp, fetch[p].err)
  <1> DEFINE f1 == [fetch EXCEPT ![p].stage = "ask"]
             f2 == [f1 EXCEPT ![p].attempt = f1[p].attempt + 1]
  <1>1. CASE Done(p)
    BY <1>1, SetStage DEF Backoff, Stages
  <1>2. CASE ~Done(p)
    <2>1. fetch' = f2
      BY <1>2 DEF Backoff
    <2> HIDE DEF f1, f2
    <2>2. Becomes(fetch, f1, p, "ask", fetch[p].attempt, fetch[p].ver, fetch[p].resp,
                  fetch[p].err)
      BY SetStage DEF Stages, f1
    <2>3. fetch[p].attempt + 1 \in 0..PageAttempts
      BY SweepConstants DEF Fetches
    <2>4. f1 \in [Pages -> Fetches] /\ f1[p].attempt + 1 \in 0..PageAttempts
      BY <2>2, <2>3 DEF Becomes
    <2>5. Becomes(f1, f2, p, f1[p].stage, f1[p].attempt + 1, f1[p].ver, f1[p].resp,
                  f1[p].err)
      BY <2>4, SetAttempt DEF f2
    <2> QED
      BY <1>2, <2>1, <2>2, <2>5 DEF Becomes
  <1> QED
    BY <1>1, <1>2

(* A goroutine that is through. *)
LEMMA IdleEffect ==
    ASSUME fetch \in [Pages -> Fetches], NEW p \in Pages,
           fetch' = [fetch EXCEPT ![p] = Idle]
    PROVE  /\ fetch' \in [Pages -> Fetches] /\ fetch'[p] = Idle
           /\ \A q \in Pages \ {p} : fetch'[q] = fetch[q]
  BY IdleType

-----------------------------------------------------------------------------
(* The invariant of the sweep *)

(* Every variable keeps its type, the pages and the gates in full. *)
TypeInv ==
    /\ ver \in Versions /\ floor \in Versions /\ floor <= ver
    /\ phase \in {"idle", "open", "closed"} /\ cancel \in BOOLEAN
    /\ out \subseteq sent /\ sent \subseteq Batches
    /\ IsFiniteSet(out) /\ Cardinality(out) <= ChanCap
    /\ at \in {"off", "start", "first", "send", "group", "return"}
    /\ first \in 0..MaxVersion
    /\ fetch \in [Pages -> Fetches]
    /\ groupErr \in SweepErrors \cup {"nil"}
    /\ mismatch \in BOOLEAN /\ grew \in BOOLEAN
    /\ orders \in Nat /\ spent \in Nat
    /\ bucket \in Nat /\ charged \in Nat /\ missed \in Nat
    /\ gates \in GateType(Nat)

(* A page that is held is one the upstream served since the sweep began; a   *)
(* page that failed has an error; a backoff is followed by an attempt that   *)
(* PAGE_ATTEMPTS allows.                                                     *)
PageOK(p, f) ==
    /\ f.stage = "off" => f = Idle
    /\ f.stage \notin {"answered", "got", "send"} => f.ver = 0
    /\ f.stage \in {"ask", "wire", "backoff"} => f.resp = NoResponse
    /\ f.stage \in {"got", "send"} => f.ver # 0
    /\ f.ver # 0 => floor <= f.ver /\ f.ver <= ver /\ p <= PagesOf[f.ver]
    /\ f.stage = "backoff" => f.attempt < PageAttempts
    /\ f.stage \in {"returned", "backoff", "failed"} => f.err \in SweepErrors
    /\ f.stage = "answered" =>
          /\ f.resp.status \in Statuses /\ f.resp.remaining # None
          /\ f.ver # 0 => f.resp.status = 200

PageInv == \A p \in Pages : PageOK(p, fetch[p])

(* The requests of one page. *)
RequestStep(p) ==
    Ask(p) \/ Serve(p) \/ Receive(p) \/ GiveUp(p) \/ Judge(p) \/ Backoff(p)

Requesting == {"ask", "wire", "answered", "returned", "backoff"}

(* What the client does with the gates when a response arrives. *)
LEMMA ReceiveGates ==
    ASSUME TypeInv, NEW p \in Pages
    PROVE  [Observe(gates, fetch[p].resp) EXCEPT !.blockedFor = 0] \in GateType(Nat)
  <1>1. fetch[p].resp \in ResponseType(Nat) /\ gates \in GateType(Nat)
    BY DEF TypeInv, Fetches
  <1>2. Observe(gates, fetch[p].resp) \in GateType(Nat)
    BY <1>1, ObserveType
  <1> QED
    BY <1>2 DEF GateType

(* Receive, as the two things it may do to the page. *)
LEMMA ReceiveEffect ==
    ASSUME TypeInv, PageInv, NEW p \in Pages, Receive(p)
    PROVE  LET r == fetch[p].resp
           IN  /\ fetch[p].stage = "answered" /\ r.status \in Statuses
               /\ gates' = [Observe(gates, r) EXCEPT !.blockedFor = 0]
               /\ spent' = spent + TokenCost(r.status)
               /\ \/ /\ fetch[p].ver # 0 /\ r.status = 200
                     /\ Becomes(fetch, fetch', p, "got", fetch[p].attempt, fetch[p].ver,
                                NoResponse, "nil")
                  \/ /\ fetch[p].ver = 0
                     /\ \E e \in SweepErrors :
                          Becomes(fetch, fetch', p, "returned", fetch[p].attempt, 0, r, e)
  <1> DEFINE r == fetch[p].resp
             g == [Observe(gates, r) EXCEPT !.blockedFor = 0]
  <1>1. /\ fetch[p].stage = "answered" /\ gates' = g
        /\ spent' = spent + TokenCost(r.status)
    BY DEF Receive
  <1>2. fetch \in [Pages -> Fetches] /\ PageOK(p, fetch[p])
    BY DEF TypeInv, PageInv
  <1>3. r.status \in Statuses /\ (fetch[p].ver # 0 => r.status = 200)
    BY <1>1, <1>2 DEF PageOK
  <1>4. /\ fetch[p].ver \in 0..MaxVersion /\ r \in ResponseType(Nat)
        /\ "got" \in Stages /\ "returned" \in Stages /\ 0 \in 0..MaxVersion
        /\ NoResponse \in ResponseType(Nat)
    BY <1>2, IdleType, SweepConstants DEF Fetches, Stages
  <1> HIDE DEF g
  <1>5. CASE fetch[p].ver # 0
    <2>1. fetch' = Moved(p, "got", fetch[p].ver, NoResponse, "nil")
      BY <1>5 DEF Receive
    <2>2. Becomes(fetch, fetch', p, "got", fetch[p].attempt, fetch[p].ver, NoResponse, "nil")
      BY <1>2, <1>4, <2>1, MovedEffect
    <2> QED
      BY <1>1, <1>3, <1>5, <2>2 DEF g
  <1>6. CASE fetch[p].ver = 0
    <2>1. fetch' = Moved(p, "returned", 0, r, ErrorOf(r.status))
      BY <1>6 DEF Receive
    <2>2. ErrorOf(r.status) \in SweepErrors
      BY DEF ErrorOf, SweepErrors
    <2>3. Becomes(fetch, fetch', p, "returned", fetch[p].attempt, 0, r, ErrorOf(r.status))
      BY <1>2, <1>4, <2>1, <2>2, MovedEffect
    <2> QED
      BY <1>1, <1>3, <1>6, <2>2, <2>3 DEF g
  <1> QED
    BY <1>5, <1>6

(* A step of a request touches its page and nothing of the sweep. *)
LEMMA RequestShape ==
    ASSUME TypeInv, PageInv, NEW p \in Pages, RequestStep(p)
    PROVE  /\ UNCHANGED <<streamVars, at, first, groupErr, mismatch, grew, orders>>
           /\ fetch' \in [Pages -> Fetches]
           /\ \A q \in Pages \ {p} : fetch'[q] = fetch[q]
           /\ fetch[p].stage \in Requesting
           /\ fetch'[p].stage \in Requesting \cup {"got", "failed"}
           /\ PageOK(p, fetch'[p])
           /\ spent' \in Nat /\ bucket' \in Nat /\ charged' \in Nat /\ missed' \in Nat
           /\ gates' \in GateType(Nat)
  <1>0. /\ fetch \in [Pages -> Fetches] /\ ver \in Versions /\ bucket \in Nat
        /\ charged \in Nat /\ missed \in Nat /\ spent \in Nat /\ gates \in GateType(Nat)
        /\ floor <= ver /\ PageOK(p, fetch[p]) /\ ver \in Nat /\ floor \in Nat /\ ver # 0
        /\ PageAttempts \in Nat
    BY SweepConstants DEF TypeInv, PageInv, Versions
  <1>1. UNCHANGED <<streamVars, at, first, groupErr, mismatch, grew, orders>>
    BY DEF RequestStep, Ask, Serve, Receive, GiveUp, NothingReturned, Judge, Backoff
  <1>2. CASE Ask(p)
    <2>1. /\ fetch[p].stage = "ask" /\ fetch[p].ver = 0 /\ fetch[p].resp = NoResponse
          /\ UNCHANGED <<spent, esiVars>>
      BY <1>0, <1>2 DEF Ask, PageOK
    <2>2. \/ Becomes(fetch, fetch', p, "wire", fetch[p].attempt, fetch[p].ver,
                     fetch[p].resp, fetch[p].err)
          \/ Becomes(fetch, fetch', p, "failed", fetch[p].attempt, fetch[p].ver,
                     fetch[p].resp, "canceled")
      BY <1>0, <1>2, AskEffect
    <2>3. PageOK(p, fetch'[p])
      BY <2>1, <2>2 DEF Becomes, PageOK, SweepErrors
    <2> QED
      BY <1>0, <1>1, <2>1, <2>2, <2>3 DEF Becomes, Requesting, esiVars
  <1>3. CASE Serve(p)
    <2>1. fetch[p].stage = "wire" /\ UNCHANGED <<spent, gates, missed>>
      BY <1>3 DEF Serve
    <2>2. PICK status \in Statuses, v \in {0, ver}, l \in Nat \cup {None} :
             /\ bucket' \in Nat /\ charged' = charged + TokenCost(status)
             /\ bucket' >= bucket - TokenCost(status)
             /\ v # 0 => status = 200 /\ p <= PagesOf[ver]
             /\ Becomes(fetch, fetch', p, "answered", fetch[p].attempt, v,
                        Response(status, bucket', l, 0, 0), fetch[p].err)
      BY <1>0, <1>3, ServeEffect
    <2>3. charged' \in Nat
      BY <1>0, <2>2, TokenCostType DEF Statuses
    <2>4. /\ fetch'[p].stage = "answered" /\ fetch'[p].ver = v
          /\ fetch'[p].resp = Response(status, bucket', l, 0, 0)
      BY <2>2 DEF Becomes
    <2>5. fetch'[p].resp.status = status /\ fetch'[p].resp.remaining = bucket'
      BY <2>4 DEF Response
    <2>6. fetch'[p].resp.remaining # None
      BY <2>2, <2>5 DEF None
    <2>7. PageOK(p, fetch'[p])
      BY <1>0, <2>2, <2>4, <2>5, <2>6 DEF PageOK
    <2> QED
      BY <1>0, <1>1, <2>1, <2>2, <2>3, <2>4, <2>7 DEF Becomes, Requesting
  <1>4. CASE Receive(p)
    <2> DEFINE r == fetch[p].resp
               g == [Observe(gates, r) EXCEPT !.blockedFor = 0]
    <2>1. /\ fetch[p].stage = "answered" /\ r.status \in Statuses
          /\ gates' = g /\ spent' = spent + TokenCost(r.status)
          /\ UNCHANGED <<bucket, charged, missed>>
      BY <1>4, ReceiveEffect DEF Receive
    <2>2. gates' \in GateType(Nat)
      BY <2>1, ReceiveGates
    <2>3. spent' \in Nat
      BY <1>0, <2>1, TokenCostType DEF Statuses
    <2> HIDE DEF g
    <2>4. \/ /\ fetch[p].ver # 0
             /\ Becomes(fetch, fetch', p, "got", fetch[p].attempt, fetch[p].ver,
                        NoResponse, "nil")
          \/ /\ fetch[p].ver = 0
             /\ \E e \in SweepErrors :
                  Becomes(fetch, fetch', p, "returned", fetch[p].attempt, 0, r, e)
      BY <1>4, ReceiveEffect
    <2>5. PageOK(p, fetch'[p])
      BY <1>0, <2>4 DEF Becomes, PageOK
    <2> QED
      BY <1>0, <1>1, <2>1, <2>2, <2>3, <2>4, <2>5 DEF Becomes, Requesting
  <1>5. CASE GiveUp(p)
    <2>1. /\ fetch[p].stage \in {"wire", "answered"}
          /\ UNCHANGED <<spent, gates, bucket, charged>>
          /\ missed' = missed + TokenCost(fetch[p].resp.status)
      BY <1>5 DEF GiveUp, NothingReturned
    <2>2. missed' \in Nat
      <3>1. fetch[p].resp.status \in Nat
        BY <1>0 DEF Fetches, ResponseType
      <3> QED
        BY <1>0, <2>1, <3>1, TokenCostType
    <2>3. PICK e \in SweepErrors :
             Becomes(fetch, fetch', p, "returned", fetch[p].attempt, 0, NoResponse, e)
      BY <1>0, <1>5, GiveUpEffect
    <2>4. PageOK(p, fetch'[p])
      BY <2>3 DEF Becomes, PageOK
    <2> QED
      BY <1>0, <1>1, <2>1, <2>2, <2>3, <2>4 DEF Becomes, Requesting
  <1>j. CASE Judge(p)
    <2>1. /\ fetch[p].stage = "returned" /\ fetch[p].err \in SweepErrors
          /\ UNCHANGED <<spent, esiVars>>
      BY <1>0, <1>j DEF Judge, PageOK
    <2>2. Becomes(fetch, fetch', p, IF MayRetry(p) THEN "backoff" ELSE "failed",
                  fetch[p].attempt, 0, NoResponse, fetch[p].err)
      BY <1>0, <1>j, JudgeEffect
    <2>3. PageOK(p, fetch'[p])
      BY <1>0, <2>1, <2>2 DEF Becomes, PageOK, MayRetry
    <2> QED
      BY <1>0, <1>1, <2>1, <2>2, <2>3 DEF Becomes, Requesting, esiVars
  <1>6. CASE Backoff(p)
    <2>1. /\ fetch[p].stage = "backoff" /\ fetch[p].ver = 0 /\ UNCHANGED <<spent, esiVars>>
          /\ fetch[p].attempt < PageAttempts /\ fetch[p].err \in SweepErrors
          /\ fetch[p].resp = NoResponse
      BY <1>0, <1>6 DEF Backoff, PageOK
    <2>2. IF Done(p)
          THEN Becomes(fetch, fetch', p, "failed", fetch[p].attempt, fetch[p].ver,
                       fetch[p].resp, fetch[p].err)
          ELSE Becomes(fetch, fetch', p, "ask", fetch[p].attempt + 1, fetch[p].ver,
                       fetch[p].resp, fetch[p].err)
      BY <1>0, <1>6, <2>1, BackoffEffect
    <2>3. PageOK(p, fetch'[p])
      BY <2>1, <2>2 DEF Becomes, PageOK
    <2> QED
      BY <1>0, <1>1, <2>1, <2>2, <2>3 DEF Becomes, Requesting, esiVars
  <1> QED
    BY <1>2, <1>3, <1>4, <1>5, <1>6, <1>j DEF RequestStep

(* Where Sweep is, and what that says of its pages and of what it promised.  *)
OnlyFirst == \A p \in Pages \ {1} : fetch[p] = Idle
NothingSent == sent = {} /\ orders = 0 /\ groupErr = "nil" /\ ~mismatch /\ ~grew

ControlInv ==
    /\ at = "off" <=> phase # "open"
    /\ phase = "open" => meta = 0 /\ count = 0 /\ err = {}
    /\ at # "group" => OnlyFirst
    /\ at \in {"start", "first", "send"} => NothingSent
    /\ at = "off" => fetch[1].stage \in {"off", "failed", "got"}
    /\ at = "start" => fetch[1] = Idle
    /\ at = "first" => fetch[1].stage \notin {"off", "send"}
    /\ at = "send" => fetch[1].stage = "got" /\ fetch[1].ver = first
    /\ at \in {"send", "return", "group"} =>
          first \in Versions /\ floor <= first /\ first <= ver
    /\ at \in {"return", "group"} => fetch[1] = Idle
    /\ at = "return" => PagesOf[first] = 1 /\ sent = {Batch(first, 1)} /\ orders = 1
    /\ at = "group" => \A p \in Pages : p > PagesOf[first] => fetch[p] = Idle

(* While the goroutines run: each page is sent at most once, each goroutine  *)
(* that ended without an error has sent its page, a page of another snapshot *)
(* has been noticed before it is sent, and orders counts the pages that were *)
(* compared.                                                                 *)
Further == 2..PagesOf[first]
Counted == {1} \cup {p \in Further : fetch[p].stage \in {"off", "send"}}

SentOK ==
    /\ Batch(first, 1) \in sent
    /\ \A b \in sent : /\ floor <= b.ver /\ b.ver <= ver /\ b.page <= PagesOf[first]
                       /\ b.page = 1 => b = Batch(first, 1)
    /\ \A p \in Further : fetch[p].stage # "off" => \A b \in sent : b.page # p
    /\ groupErr = "nil" => \A p \in Further :
          fetch[p].stage = "off" => \E b \in sent : b.page = p

Noticed ==
    ~mismatch /\ ~grew =>
        /\ \A b \in sent : b.ver = first
        /\ \A p \in Further : fetch[p].stage = "send" => fetch[p].ver = first

CountOK ==
    /\ orders <= Cardinality(Counted)
    /\ groupErr = "nil" => orders = Cardinality(Counted)

GroupInv == at = "group" => SentOK /\ Noticed /\ CountOK

Inv == TypeInv /\ PageInv /\ ControlInv /\ GroupInv

(* Only page 1 on its own, or a goroutine of the group, has a request. *)
LEMMA WhoRequests ==
    ASSUME Inv, NEW p \in Pages, fetch[p].stage \in Requesting
    PROVE  \/ at = "first" /\ p = 1
           \/ at = "group" /\ p \in Further /\ p # 1
  <1>1. p \in Nat /\ p >= 1 /\ Idle.stage = "off" /\ fetch[p] # Idle
    BY DEF Pages, Idle, Requesting
  <1>2. CASE at # "group"
    <2>1. p = 1
      BY <1>1, <1>2 DEF Inv, ControlInv, OnlyFirst
    <2> QED
      BY <1>1, <1>2, <2>1 DEF Inv, TypeInv, ControlInv, Requesting
  <1>3. CASE at = "group"
    <2>1. first \in Versions /\ fetch[1] = Idle /\ ~(p > PagesOf[first])
      BY <1>1, <1>3 DEF Inv, ControlInv
    <2>2. PagesOf[first] \in Nat
      BY <2>1, SweepConstants
    <2> QED
      BY <1>1, <1>3, <2>1, <2>2 DEF Further
  <1> QED
    BY <1>2, <1>3

(* A request in progress keeps the invariant. *)
LEMMA RequestKeepsInv ==
    ASSUME Inv, NEW p \in Pages, RequestStep(p)
    PROVE  Inv'
  <1>0. /\ UNCHANGED <<streamVars, at, first, groupErr, mismatch, grew, orders>>
        /\ fetch' \in [Pages -> Fetches]
        /\ \A q \in Pages \ {p} : fetch'[q] = fetch[q]
        /\ fetch[p].stage \in Requesting
        /\ fetch'[p].stage \in Requesting \cup {"got", "failed"}
        /\ PageOK(p, fetch'[p])
        /\ spent' \in Nat /\ bucket' \in Nat /\ charged' \in Nat /\ missed' \in Nat
        /\ gates' \in GateType(Nat)
    BY RequestShape DEF Inv
  <1>1. \/ at = "first" /\ p = 1
        \/ at = "group" /\ p \in Further /\ p # 1
    BY <1>0, WhoRequests
  <1>2. TypeInv'
    BY <1>0 DEF Inv, TypeInv, streamVars
  <1>3. PageInv'
    BY <1>0 DEF Inv, PageInv, PageOK, streamVars
  <1>4. ControlInv'
    <2>1. CASE at = "first" /\ p = 1
      BY <1>0, <2>1 DEF Inv, ControlInv, OnlyFirst, NothingSent, streamVars, Requesting
    <2>2. CASE at = "group" /\ p \in Further /\ p # 1
      <3>1. \A q \in Pages : q = 1 \/ q > PagesOf[first] => q # p
        <4>1. PagesOf[first] \in Nat
          BY <2>2, SweepConstants DEF Inv, ControlInv
        <4> QED
          BY <2>2, <4>1 DEF Further, Pages
      <3>2. 1 \in Pages
        BY SweepConstants
      <3> QED
        BY <1>0, <2>2, <3>1, <3>2 DEF Inv, ControlInv, streamVars
    <2> QED
      BY <1>1, <2>1, <2>2
  <1>5. GroupInv'
    <2> SUFFICES ASSUME at = "group" PROVE (SentOK /\ Noticed /\ CountOK)'
      BY <1>0 DEF GroupInv
    <2>1. SentOK /\ Noticed /\ CountOK /\ p \in Further
      BY <1>1 DEF Inv, GroupInv
    <2>2. Further \subseteq Pages
      BY SweepConstants DEF Further, Pages, Inv, ControlInv
    <2>3. Further' = Further
      BY <1>0 DEF Further
    <2>4. \A q \in Further : /\ fetch'[q].stage = "off" <=> fetch[q].stage = "off"
                             /\ fetch'[q].stage = "send" <=> fetch[q].stage = "send"
                             /\ fetch'[q].stage = "send" => fetch'[q].ver = fetch[q].ver
      BY <1>0, <2>2 DEF Requesting
    <2>5. Counted' = Counted
      BY <2>3, <2>4 DEF Counted
    <2>6. SentOK'
      BY <1>0, <2>1, <2>3, <2>4 DEF SentOK, streamVars
    <2>7. Noticed'
      BY <1>0, <2>1, <2>3, <2>4 DEF Noticed, streamVars
    <2> QED
      BY <1>0, <2>1, <2>5, <2>6, <2>7 DEF CountOK
  <1> QED
    BY <1>2, <1>3, <1>4, <1>5 DEF Inv

(* The pages 1 to n are n pages. *)
LEMMA IntervalSize ==
    ASSUME NEW n \in Nat
    PROVE  IsFiniteSet(1..n) /\ Cardinality(1..n) = n
  <1>1. n \in Int /\ 1 \in Int
    OBVIOUS
  <1>2. IsFiniteSet(1..n) /\ Cardinality(1..n) = (IF 1 > n THEN 0 ELSE n - 1 + 1)
    BY <1>1, FS_Interval
  <1> QED
    BY <1>2

(* The pages counted are pages of the set. *)
LEMMA CountedFinite ==
    ASSUME Inv, at = "group"
    PROVE  /\ IsFiniteSet(Counted) /\ Cardinality(Counted) \in Nat
           /\ Cardinality(Counted) <= PagesOf[first]
           /\ Further \subseteq Pages /\ PagesOf[first] \in Nat /\ 1 \notin Further
  <1>1. PagesOf[first] \in Nat /\ PagesOf[first] >= 1 /\ PagesOf[first] <= MaxPages
        /\ MaxPages \in Nat
    BY SweepConstants DEF Inv, ControlInv
  <1>2. Counted \subseteq 1..PagesOf[first]
    BY <1>1 DEF Counted, Further
  <1>3. IsFiniteSet(1..PagesOf[first]) /\ Cardinality(1..PagesOf[first]) = PagesOf[first]
    BY <1>1, IntervalSize
  <1>4. IsFiniteSet(Counted) /\ Cardinality(Counted) <= PagesOf[first]
    BY <1>2, <1>3, FS_Subset
  <1>5. Cardinality(Counted) \in Nat
    BY <1>4, FS_CardinalityType
  <1>6. Further \subseteq Pages /\ 1 \notin Further
    BY <1>1 DEF Further, Pages
  <1> QED
    BY <1>1, <1>4, <1>5, <1>6

(* What a goroutine of the group does to the rest. *)
LEMMA WorkerFrame ==
    ASSUME Inv, NEW p, Worker(p), at' = at, first' = first,
           fetch' \in [Pages -> Fetches], \A q \in Pages \ {p} : fetch'[q] = fetch[q],
           UNCHANGED <<ver, phase, floor, meta, count, err>>
    PROVE  /\ at = "group" /\ p \in Further /\ p \in Pages /\ p # 1
           /\ Further' = Further /\ ControlInv'
  <1>1. at = "group" /\ p \in Further /\ PagesOf[first] \in Nat
    BY CountedFinite DEF Worker, Further
  <1>2. p \in Pages /\ p # 1 /\ ~(p > PagesOf[first]) /\ 1 \in Pages
    BY <1>1, CountedFinite, SweepConstants DEF Further
  <1>3. Further' = Further
    BY DEF Further
  <1>4. ControlInv'
    BY <1>1, <1>2 DEF Inv, ControlInv
  <1> QED
    BY <1>1, <1>2, <1>3, <1>4

(* A goroutine returns its error. *)
LEMMA WorkerFailedKeepsInv ==
    ASSUME Inv, NEW p \in Pages, WorkerFailed(p)
    PROVE  Inv' /\ groupErr' # "nil"
  <1>0. fetch \in [Pages -> Fetches] /\ PageOK(p, fetch[p]) /\ Idle.stage = "off"
        /\ Idle.ver = 0
    BY DEF Inv, TypeInv, PageInv, Idle
  <1>1. /\ Worker(p) /\ fetch[p].stage = "failed"
        /\ fetch' = [fetch EXCEPT ![p] = Idle]
        /\ UNCHANGED <<streamVars, at, first, mismatch, grew, orders, spent, esiVars>>
    BY DEF WorkerFailed
  <1>2. /\ fetch' \in [Pages -> Fetches] /\ fetch'[p] = Idle
        /\ \A q \in Pages \ {p} : fetch'[q] = fetch[q]
    BY <1>0, <1>1, IdleEffect
  <1>3. groupErr' \in SweepErrors
    <2>1. fetch[p].err \in SweepErrors
      BY <1>0, <1>1 DEF PageOK
    <2> QED
      BY <2>1 DEF WorkerFailed, GroupFails, Inv, TypeInv
  <1>4. groupErr' # "nil"
    BY <1>3 DEF SweepErrors
  <1>5. /\ at = "group" /\ p \in Further /\ p # 1
        /\ Further' = Further /\ ControlInv'
    BY <1>1, <1>2, WorkerFrame DEF streamVars
  <1>6. TypeInv'
    BY <1>1, <1>2, <1>3 DEF Inv, TypeInv, streamVars, esiVars
  <1>7. PageInv'
    BY <1>0, <1>1, <1>2 DEF Inv, PageInv, PageOK, streamVars
  <1>8. SentOK'
    <2>1. Further \subseteq Pages
      BY <1>5, CountedFinite
    <2> QED
      BY <1>0, <1>1, <1>2, <1>4, <1>5, <2>1 DEF Inv, GroupInv, SentOK, streamVars
  <1>9. Noticed'
    <2>1. Further \subseteq Pages
      BY <1>5, CountedFinite
    <2> QED
      BY <1>0, <1>1, <1>2, <1>5, <2>1 DEF Inv, GroupInv, Noticed, streamVars
  <1>10. CountOK'
    <2>1. /\ IsFiniteSet(Counted) /\ Cardinality(Counted) \in Nat
          /\ Further \subseteq Pages
      BY <1>5, CountedFinite
    <2>2. Counted' = Counted \cup {p}
      BY <1>0, <1>2, <1>5, <2>1 DEF Counted
    <2>3. Cardinality(Counted') >= Cardinality(Counted)
      <3>1. Cardinality(Counted \cup {p})
                = IF p \in Counted THEN Cardinality(Counted) ELSE Cardinality(Counted) + 1
        BY <2>1, FS_AddElement
      <3> QED
        BY <2>1, <2>2, <3>1
    <2>4. orders <= Cardinality(Counted) /\ orders' = orders /\ orders \in Nat
      BY <1>1, <1>5 DEF Inv, GroupInv, CountOK, TypeInv
    <2>5. Cardinality(Counted') \in Nat
      BY <2>1, <2>2, FS_AddElement, FS_CardinalityType
    <2> QED
      BY <1>4, <2>1, <2>3, <2>4, <2>5 DEF CountOK
  <1> QED
    BY <1>4, <1>5, <1>6, <1>7, <1>8, <1>9, <1>10 DEF Inv, GroupInv

(* A goroutine compares its page with page 1 and counts it: from here on,    *)
(* unless a mismatch was noted, the page is one of page 1's snapshot.        *)
LEMMA WorkerComparesKeepsInv ==
    ASSUME Inv, NEW p \in Pages, WorkerCompares(p)
    PROVE  Inv'
  <1>0. fetch \in [Pages -> Fetches] /\ PageOK(p, fetch[p])
    BY DEF Inv, TypeInv, PageInv
  <1>1. /\ Worker(p) /\ fetch[p].stage = "got"
        /\ fetch' = [fetch EXCEPT ![p].stage = "send"]
        /\ mismatch' = (mismatch \/ LastModified[fetch[p].ver] # LastModified[first])
        /\ grew' = (grew \/ PagesOf[fetch[p].ver] # PagesOf[first])
        /\ orders' = orders + 1
        /\ UNCHANGED <<streamVars, at, first, groupErr, spent, esiVars>>
    BY DEF WorkerCompares
  <1>2. Becomes(fetch, fetch', p, "send", fetch[p].attempt, fetch[p].ver, fetch[p].resp,
                fetch[p].err)
    BY <1>0, <1>1, SetStage DEF Stages
  <1>3. /\ fetch' \in [Pages -> Fetches] /\ \A q \in Pages \ {p} : fetch'[q] = fetch[q]
        /\ fetch'[p].stage = "send" /\ fetch'[p].ver = fetch[p].ver
    BY <1>2 DEF Becomes
  <1>4. /\ at = "group" /\ p \in Further /\ p # 1
        /\ Further' = Further /\ ControlInv'
    BY <1>1, <1>3, WorkerFrame DEF streamVars
  <1>5. Further \subseteq Pages
    BY <1>4, CountedFinite
  <1>6. TypeInv'
    BY <1>1, <1>3 DEF Inv, TypeInv, streamVars, esiVars
  <1>7. PageInv'
    <2>1. PageOK(p, fetch'[p])
      BY <1>0, <1>1, <1>3 DEF PageOK
    <2> QED
      BY <1>1, <1>3, <2>1 DEF Inv, PageInv, PageOK, streamVars
  <1>8. SentOK'
    BY <1>1, <1>3, <1>4, <1>5 DEF Inv, GroupInv, SentOK, streamVars
  <1>9. Noticed'
    <2> SUFFICES ASSUME ~mismatch', ~grew'
                 PROVE  /\ \A b \in sent' : b.ver = first'
                        /\ \A q \in Further' : fetch'[q].stage = "send" => fetch'[q].ver = first'
      BY DEF Noticed
    <2>1. /\ ~mismatch /\ ~grew /\ LastModified[fetch[p].ver] = LastModified[first]
          /\ PagesOf[fetch[p].ver] = PagesOf[first]
      BY <1>1
    <2>2. fetch[p].ver \in Versions /\ first \in Versions
      BY <1>0, <1>1, <1>4, SweepConstants DEF PageOK, Fetches, Versions, Inv, ControlInv
    <2>3. fetch[p].ver = first
      BY <2>1, <2>2, SweepAssumption
    <2> QED
      BY <1>1, <1>3, <1>4, <1>5, <2>1, <2>3 DEF Inv, GroupInv, Noticed, streamVars
  <1>10. CountOK'
    <2>1. /\ IsFiniteSet(Counted) /\ Cardinality(Counted) \in Nat
      BY <1>4, CountedFinite
    <2>2. Counted' = Counted \cup {p} /\ p \notin Counted
      BY <1>1, <1>3, <1>4, <1>5 DEF Counted
    <2>3. Cardinality(Counted') = Cardinality(Counted) + 1
      BY <2>1, <2>2, FS_AddElement
    <2> QED
      BY <1>1, <1>4, <2>1, <2>3 DEF Inv, GroupInv, CountOK, TypeInv
  <1> QED
    BY <1>4, <1>6, <1>7, <1>8, <1>9, <1>10 DEF Inv, GroupInv

(* A page of a snapshot is a batch of its own. *)
LEMMA BatchType ==
    ASSUME NEW v \in Versions, NEW p \in Pages, p <= PagesOf[v]
    PROVE  Batch(v, p) \in Batches /\ Batch(v, p).ver = v /\ Batch(v, p).page = p
  <1>1. p \in 1..PagesOf[v]
    BY SweepConstants DEF Pages
  <1> QED
    BY <1>1 DEF Batch, Batches, PageSet

(* A send keeps the channel within its capacity. *)
LEMMA PutType ==
    ASSUME TypeInv, NEW b \in Batches, Put(b)
    PROVE  /\ out' \subseteq sent' /\ sent' \subseteq Batches
           /\ IsFiniteSet(out') /\ Cardinality(out') <= ChanCap
           /\ sent' = sent \cup {b}
           /\ UNCHANGED <<ver, phase, floor, meta, count, err, cancel>>
  <1>1. IsFiniteSet(out) /\ Cardinality(out) < ChanCap /\ Cardinality(out) \in Nat
        /\ ChanCap \in Nat
    BY FS_CardinalityType, SweepConstants DEF TypeInv, Put
  <1>2. out' = out \cup {b} /\ sent' = sent \cup {b}
    BY DEF Put
  <1>3. /\ IsFiniteSet(out \cup {b})
        /\ Cardinality(out \cup {b})
             = IF b \in out THEN Cardinality(out) ELSE Cardinality(out) + 1
    BY <1>1, FS_AddElement
  <1>4. Cardinality(out') <= ChanCap
    BY <1>1, <1>2, <1>3
  <1> QED
    BY <1>2, <1>3, <1>4 DEF TypeInv, Put

(* A goroutine sends its page, or finds the context done. *)
LEMMA WorkerSendsKeepsInv ==
    ASSUME Inv, NEW p \in Pages, WorkerSends(p)
    PROVE  /\ Inv'
           /\ \/ /\ Put(Batch(fetch[p].ver, p)) /\ UNCHANGED groupErr
                 /\ Batch(fetch[p].ver, p) \in Batches \ sent
                 /\ floor <= fetch[p].ver /\ fetch[p].ver <= ver
              \/ groupErr' # "nil" /\ UNCHANGED streamVars
  <1> DEFINE b == Batch(fetch[p].ver, p)
  <1>0. fetch \in [Pages -> Fetches] /\ PageOK(p, fetch[p]) /\ Idle.stage = "off"
        /\ Idle.ver = 0
    BY DEF Inv, TypeInv, PageInv, Idle
  <1>1. /\ Worker(p) /\ fetch[p].stage = "send"
        /\ fetch' = [fetch EXCEPT ![p] = Idle]
        /\ UNCHANGED <<at, first, mismatch, grew, orders, spent, esiVars>>
    BY DEF WorkerSends
  <1>2. /\ fetch' \in [Pages -> Fetches] /\ fetch'[p] = Idle
        /\ \A q \in Pages \ {p} : fetch'[q] = fetch[q]
    BY <1>0, <1>1, IdleEffect
  <1>3. /\ fetch[p].ver \in Versions /\ floor <= fetch[p].ver /\ fetch[p].ver <= ver
        /\ p <= PagesOf[fetch[p].ver]
    BY <1>0, <1>1, SweepConstants DEF PageOK, Fetches, Versions
  <1>4. b \in Batches /\ b.ver = fetch[p].ver /\ b.page = p
    BY <1>3, BatchType
  <1>5. at = "group" /\ p \in Further /\ p # 1 /\ Further \subseteq Pages
        /\ PagesOf[first] \in Nat
    BY <1>1, CountedFinite DEF Worker, Further
  <1>6. b \notin sent
    BY <1>1, <1>4, <1>5 DEF Inv, GroupInv, SentOK
  <1>7. Further' = Further /\ Counted' = Counted
    BY <1>0, <1>1, <1>2, <1>5 DEF Counted, Further
  <1>8. PageInv' \/ ~UNCHANGED <<ver, floor>>
    BY <1>0, <1>1, <1>2 DEF Inv, PageInv, PageOK
  <1>9. CASE Put(b) /\ UNCHANGED groupErr
    <2> HIDE DEF b
    <2>1. /\ out' \subseteq sent' /\ sent' \subseteq Batches
          /\ IsFiniteSet(out') /\ Cardinality(out') <= ChanCap
          /\ sent' = sent \cup {b}
          /\ UNCHANGED <<ver, phase, floor, meta, count, err, cancel>>
      BY <1>4, <1>9, PutType DEF Inv
    <2>2. TypeInv'
      BY <1>1, <1>2, <1>9, <2>1 DEF Inv, TypeInv, esiVars
    <2>3. ControlInv'
      BY <1>1, <1>2, <2>1, WorkerFrame
    <2>4. SentOK'
      BY <1>0, <1>1, <1>2, <1>3, <1>4, <1>5, <1>7, <1>9, <2>1
         DEF Inv, GroupInv, SentOK, Further
    <2>5. Noticed'
      BY <1>0, <1>1, <1>2, <1>4, <1>5, <1>7, <2>1 DEF Inv, GroupInv, Noticed
    <2>6. CountOK'
      BY <1>1, <1>5, <1>7, <1>9 DEF Inv, GroupInv, CountOK
    <2>7. Inv'
      BY <1>8, <2>1, <2>2, <2>3, <2>4, <2>5, <2>6 DEF Inv, GroupInv
    <2> QED
      BY <1>3, <1>4, <1>6, <1>9, <2>7 DEF b
  <1>10. CASE Done(p) /\ GroupFails("canceled") /\ UNCHANGED streamVars
    <2>1. groupErr' \in SweepErrors /\ groupErr' # "nil"
      BY <1>10 DEF GroupFails, Inv, TypeInv, SweepErrors
    <2>2. TypeInv'
      BY <1>1, <1>2, <1>10, <2>1 DEF Inv, TypeInv, streamVars, esiVars
    <2>3. ControlInv'
      BY <1>1, <1>2, <1>10, WorkerFrame DEF streamVars
    <2>4. SentOK'
      BY <1>0, <1>1, <1>2, <1>5, <1>7, <1>10, <2>1
         DEF Inv, GroupInv, SentOK, streamVars
    <2>5. Noticed'
      BY <1>0, <1>1, <1>2, <1>5, <1>7, <1>10 DEF Inv, GroupInv, Noticed, streamVars
    <2>6. CountOK'
      BY <1>1, <1>5, <1>7, <2>1 DEF Inv, GroupInv, CountOK
    <2>7. Inv'
      BY <1>8, <1>10, <2>2, <2>3, <2>4, <2>5, <2>6 DEF Inv, GroupInv, streamVars
    <2> QED
      BY <1>10, <2>1, <2>7
  <1> QED
    BY <1>9, <1>10 DEF WorkerSends

-----------------------------------------------------------------------------
(* Sweep itself *)

(* However Sweep returns, the invariant holds after it. *)
LEMMA ReturnKeepsInv ==
    ASSUME Inv, NEW e, Return(e), OnlyFirst, fetch[1].stage \in {"off", "failed", "got"},
           first' \in 0..MaxVersion,
           UNCHANGED <<fetch, groupErr, mismatch, grew, orders, spent, esiVars>>
    PROVE  Inv'
  <1>1. /\ phase' = "closed" /\ at' = "off"
        /\ UNCHANGED <<ver, floor, out, sent, cancel>>
    BY DEF Return
  <1>2. TypeInv'
    BY <1>1 DEF Inv, TypeInv, esiVars
  <1>3. PageInv'
    BY <1>1 DEF Inv, PageInv, PageOK
  <1>4. ControlInv'
    BY <1>1 DEF ControlInv, OnlyFirst
  <1>5. GroupInv'
    BY <1>1 DEF GroupInv
  <1> QED
    BY <1>2, <1>3, <1>4, <1>5 DEF Inv

(* Sweep is called, and checks the floor. *)
LEMMA BeginKeepsInv ==
    ASSUME Inv, Begin
    PROVE  Inv'
  <1>1. PICK done \in BOOLEAN : Open(done)
    BY DEF Begin
  <1>2. /\ phase' = "open" /\ floor' = ver /\ ver' = ver /\ out' = {} /\ sent' = {}
        /\ meta' = 0 /\ count' = 0 /\ err' = {} /\ cancel' \in BOOLEAN
    BY <1>1 DEF Open
  <1>3. fetch' = [p \in Pages |-> Idle] /\ \A p \in Pages : fetch'[p] = Idle
    BY DEF Begin
  <1>4. fetch' \in [Pages -> Fetches]
    BY <1>3, IdleType
  <1>5. TypeInv'
    <2>1. bucket' \in Nat /\ 0 \in 0..MaxVersion
      BY SweepAssumption, SweepConstants DEF Begin
    <2>2. IsFiniteSet(out') /\ Cardinality(out') <= ChanCap
      BY <1>2, FS_EmptySet, SweepConstants
    <2>3. ver \in Versions /\ ver <= ver
      BY SweepConstants DEF Inv, TypeInv, Versions
    <2> QED
      BY <1>2, <1>4, <2>1, <2>2, <2>3 DEF Begin, Inv, TypeInv
  <1>6. PageInv'
    BY <1>3 DEF PageInv, PageOK, Idle
  <1>7. ControlInv'
    BY <1>2, <1>3, SweepConstants DEF Begin, ControlInv, OnlyFirst, NothingSent
  <1>8. GroupInv'
    BY DEF Begin, GroupInv
  <1> QED
    BY <1>5, <1>6, <1>7, <1>8 DEF Inv

(* The floor is checked. *)
LEMMA CheckFloorKeepsInv ==
    ASSUME Inv, CheckFloor
    PROVE  Inv'
  <1>0. /\ at = "start" /\ OnlyFirst /\ fetch[1] = Idle /\ Idle.stage = "off"
        /\ fetch \in [Pages -> Fetches] /\ 1 \in Pages
        /\ UNCHANGED <<first, groupErr, mismatch, grew, orders, spent, esiVars>>
    BY SweepConstants DEF Inv, TypeInv, ControlInv, CheckFloor, Idle
  <1>1. CASE Return("deferred") /\ UNCHANGED fetch
    <2>1. first' \in 0..MaxVersion
      BY <1>0 DEF Inv, TypeInv
    <2> QED
      BY <1>0, <1>1, <2>1, ReturnKeepsInv
  <1>2. CASE /\ at' = "first" /\ fetch' = [fetch EXCEPT ![1] = Asking]
             /\ UNCHANGED streamVars
    <2>1. /\ fetch' \in [Pages -> Fetches] /\ fetch'[1] = Asking
          /\ \A p \in Pages \ {1} : fetch'[p] = fetch[p]
      BY <1>0, <1>2, IdleType
    <2>2. TypeInv'
      BY <1>0, <1>2, <2>1 DEF Inv, TypeInv, streamVars, esiVars
    <2>3. PageOK(1, Asking)
      BY IdleType DEF PageOK
    <2>4. PageInv'
      BY <1>2, <2>1, <2>3 DEF Inv, PageInv, PageOK, streamVars
    <2>5. ControlInv'
      BY <1>0, <1>2, <2>1, IdleType
         DEF Inv, ControlInv, OnlyFirst, NothingSent, streamVars
    <2>6. GroupInv'
      BY <1>2 DEF GroupInv
    <2> QED
      BY <2>2, <2>4, <2>5, <2>6 DEF Inv
  <1> QED
    BY <1>1, <1>2 DEF CheckFloor

(* Page 1 failed, or arrived. *)
LEMMA FirstKeepsInv ==
    ASSUME Inv, FirstFailed \/ FirstFetched
    PROVE  Inv'
  <1>0. /\ at = "first" /\ OnlyFirst /\ fetch[1].stage \in {"failed", "got"}
        /\ UNCHANGED <<fetch, groupErr, mismatch, grew, orders, spent, esiVars>>
        /\ 1 \in Pages
    BY SweepConstants DEF Inv, ControlInv, FirstFailed, FirstFetched
  <1>1. CASE FirstFailed
    <2>1. first' \in 0..MaxVersion
      BY <1>1 DEF FirstFailed, Inv, TypeInv
    <2> QED
      BY <1>0, <1>1, <2>1, ReturnKeepsInv DEF FirstFailed
  <1>2. CASE FirstFetched
    <2>1. /\ fetch[1].stage = "got" /\ first' = fetch[1].ver
          /\ fetch[1].ver \in 0..MaxVersion /\ fetch[1].ver # 0
          /\ floor <= fetch[1].ver /\ fetch[1].ver <= ver
      BY <1>0, <1>2 DEF FirstFetched, Inv, TypeInv, Fetches, PageInv, PageOK
    <2>2. CASE at' = "send" /\ UNCHANGED streamVars
      <3>1. TypeInv'
        BY <1>0, <2>1, <2>2 DEF Inv, TypeInv, streamVars, esiVars
      <3>2. PageInv'
        BY <1>0, <2>2 DEF Inv, PageInv, PageOK, streamVars
      <3>3. fetch[1].ver \in Versions
        BY <2>1, SweepConstants DEF Versions
      <3>4. ControlInv'
        BY <1>0, <2>1, <2>2, <3>3 DEF Inv, ControlInv, OnlyFirst, NothingSent, streamVars
      <3>5. GroupInv'
        BY <2>2 DEF GroupInv
      <3> QED
        BY <3>1, <3>2, <3>4, <3>5 DEF Inv
    <2>3. CASE Return("deferred")
      <3>1. first' \in 0..MaxVersion
        BY <2>1
      <3> QED
        BY <1>0, <2>3, <3>1, ReturnKeepsInv
    <2> QED
      BY <1>2, <2>2, <2>3 DEF FirstFetched
  <1> QED
    BY <1>1, <1>2

(* Page 1 is sent, and the goroutines start. *)
LEMMA SendFirstKeepsInv ==
    ASSUME Inv, SendFirst
    PROVE  /\ Inv'
           /\ Put(Batch(first, 1)) => /\ Batch(first, 1) \in Batches \ sent
                                      /\ floor <= first /\ first <= ver
  <1> DEFINE b == Batch(first, 1)
  <1>0. /\ at = "send" /\ OnlyFirst /\ NothingSent /\ fetch[1].stage = "got"
        /\ first \in Versions /\ floor <= first /\ first <= ver
        /\ UNCHANGED <<first, groupErr, mismatch, grew, spent, esiVars>>
    BY DEF Inv, ControlInv, SendFirst
  <1>1. PagesOf[first] \in Nat /\ PagesOf[first] >= 1 /\ 1 \in Pages
    BY <1>0, SweepConstants
  <1>2. b \in Batches /\ b.ver = first /\ b.page = 1
    BY <1>0, <1>1, BatchType
  <1>3. sent = {}
    BY <1>0 DEF NothingSent
  <1> HIDE DEF b
  <1>4. CASE /\ Put(b) /\ orders' = 1
             /\ at' = IF PagesOf[first] = 1 THEN "return" ELSE "group"
             /\ fetch' = [p \in Pages |-> IF p \in 2..PagesOf[first] THEN Asking ELSE Idle]
    <2>1. /\ out' \subseteq sent' /\ sent' \subseteq Batches
          /\ IsFiniteSet(out') /\ Cardinality(out') <= ChanCap
          /\ sent' = {b}
          /\ UNCHANGED <<ver, phase, floor, meta, count, err, cancel>>
      BY <1>2, <1>3, <1>4, PutType DEF Inv
    <2>2. /\ fetch' \in [Pages -> Fetches]
          /\ \A p \in Pages : fetch'[p] = IF p \in Further THEN Asking ELSE Idle
      BY <1>4, IdleType DEF Further
    <2>3. TypeInv'
      BY <1>0, <1>4, <2>1, <2>2 DEF Inv, TypeInv, esiVars
    <2>4. \A p \in Pages : PageOK(p, Asking)' /\ PageOK(p, Idle)'
      BY IdleType DEF PageOK, Idle
    <2>5. PageInv'
      BY <2>2, <2>4 DEF PageInv
    <2>6. /\ 1 \notin Further /\ \A p \in Pages : p > PagesOf[first] => p \notin Further
          /\ PagesOf[first] = 1 => Further = {}
      BY <1>1 DEF Further, Pages
    <2>7. ControlInv'
      <3>1. at' \in {"return", "group"} /\ phase = "open"
        BY <1>0, <1>4 DEF Inv, ControlInv, TypeInv
      <3>2. fetch'[1] = Idle
        BY <1>1, <2>2, <2>6
      <3>3. at' = "return" => PagesOf[first] = 1 /\ \A p \in Pages : fetch'[p] = Idle
        BY <1>4, <2>2, <2>6
      <3>4. \A p \in Pages : p > PagesOf[first] => fetch'[p] = Idle
        BY <2>2, <2>6
      <3> QED
        BY <1>0, <1>4, <2>1, <3>1, <3>2, <3>3, <3>4 DEF Inv, ControlInv, OnlyFirst, b
    <2>8. Further' = Further /\ Further \subseteq Pages
      BY <1>0, <1>1, SweepConstants DEF Further, Pages
    <2>9. \A p \in Further : fetch'[p] = Asking /\ fetch'[p].stage = "ask"
      BY <2>2, <2>8, IdleType
    <2>10. SentOK'
      <3>1. b = Batch(first, 1) /\ first' = first
        BY <1>0 DEF b
      <3> QED
        BY <1>0, <1>1, <1>2, <2>1, <2>6, <2>8, <2>9, <3>1 DEF SentOK
    <2>11. Noticed'
      BY <1>0, <1>2, <2>1, <2>8, <2>9 DEF Noticed
    <2>12. CountOK'
      <3>1. Counted' = {1}
        BY <2>8, <2>9 DEF Counted
      <3>2. Cardinality(Counted') = 1
        BY <3>1, FS_Singleton
      <3> QED
        BY <1>4, <3>2 DEF CountOK
    <2> QED
      BY <1>0, <1>2, <1>3, <2>3, <2>5, <2>7, <2>10, <2>11, <2>12 DEF Inv, GroupInv, b
  <1>5. CASE Return("canceled") /\ UNCHANGED <<orders, fetch>>
    <2>1. first' \in 0..MaxVersion
      BY <1>0 DEF Inv, TypeInv
    <2>2. Inv'
      BY <1>0, <1>5, <2>1, ReturnKeepsInv
    <2> QED
      BY <1>0, <1>2, <1>3, <2>2 DEF b
  <1> QED
    BY <1>4, <1>5 DEF SendFirst, b

(* Sweep returns after its only page, or after g.Wait. *)
LEMMA EndKeepsInv ==
    ASSUME Inv, ReturnSingle \/ Wait
    PROVE  Inv'
  <1>0. /\ OnlyFirst /\ fetch[1].stage \in {"off", "failed", "got"}
        /\ UNCHANGED <<first, fetch, groupErr, mismatch, grew, orders, spent, esiVars>>
    <2>1. at \in {"return", "group"} /\ Idle.stage = "off"
      BY DEF ReturnSingle, Wait, Idle
    <2> QED
      BY <2>1 DEF Inv, ControlInv, ReturnSingle, Wait, OnlyFirst
  <1>1. first' \in 0..MaxVersion
    BY <1>0 DEF Inv, TypeInv
  <1>2. \E e : Return(e)
    BY DEF ReturnSingle, Wait
  <1> QED
    BY <1>0, <1>1, <1>2, ReturnKeepsInv

(* The rest of the world. *)
LEMMA WorldKeepsInv ==
    ASSUME Inv, Consume \/ ContextEnds \/ UpstreamRolls \/ TimePasses \/ UNCHANGED vars
    PROVE  Inv'
  <1>1. CASE Consume
    <2>1. PICK b \in out : Take(b)
      BY <1>1 DEF Consume
    <2>2. /\ out' = out \ {b}
          /\ UNCHANGED <<ver, phase, floor, sent, meta, count, err, cancel>>
          /\ UNCHANGED <<fetchVars, esiVars>>
      BY <1>1, <2>1 DEF Take, Consume
    <2>3. IsFiniteSet(out') /\ Cardinality(out') <= ChanCap
      <3>1. IsFiniteSet(out) /\ Cardinality(out) <= ChanCap /\ Cardinality(out) \in Nat
        BY FS_CardinalityType DEF Inv, TypeInv
      <3>2. /\ IsFiniteSet(out \ {b})
            /\ Cardinality(out \ {b})
                 = IF b \in out THEN Cardinality(out) - 1 ELSE Cardinality(out)
        BY <3>1, FS_RemoveElement
      <3> QED
        BY <2>2, <3>1, <3>2, SweepConstants
    <2>4. TypeInv'
      BY <2>2, <2>3 DEF Inv, TypeInv, fetchVars, esiVars
    <2>5. PageInv' /\ ControlInv'
      BY <2>2 DEF Inv, PageInv, PageOK, ControlInv, OnlyFirst, NothingSent, fetchVars
    <2>6. GroupInv'
      BY <2>2 DEF Inv, GroupInv, SentOK, Noticed, CountOK, Counted, Further, fetchVars
    <2> QED
      BY <2>4, <2>5, <2>6 DEF Inv
  <1>2. CASE ContextEnds
    <2>1. /\ cancel' = TRUE /\ UNCHANGED <<ver, phase, floor, out, sent, meta, count, err>>
          /\ UNCHANGED <<fetchVars, esiVars>>
      BY <1>2 DEF ContextEnds, Cancel
    <2>2. TypeInv'
      BY <2>1 DEF Inv, TypeInv, fetchVars, esiVars
    <2>3. PageInv' /\ ControlInv'
      BY <2>1 DEF Inv, PageInv, PageOK, ControlInv, OnlyFirst, NothingSent, fetchVars
    <2>4. GroupInv'
      BY <2>1 DEF Inv, GroupInv, SentOK, Noticed, CountOK, Counted, Further, fetchVars
    <2> QED
      BY <2>2, <2>3, <2>4 DEF Inv
  <1>3. CASE UpstreamRolls
    <2>1. /\ ver < MaxVersion /\ ver' = ver + 1
          /\ UNCHANGED <<phase, floor, out, sent, meta, count, err, cancel>>
          /\ UNCHANGED <<fetchVars, esiVars>>
      BY <1>3 DEF UpstreamRolls, Roll
    <2>2. /\ ver \in Nat /\ floor \in Nat /\ floor <= ver /\ ver' \in Versions
          /\ first \in Nat /\ \A p \in Pages : fetch[p].ver \in Nat
          /\ \A b \in Batches : b.ver \in Nat
      BY <2>1, SweepConstants DEF Inv, TypeInv, Versions, Fetches, Batches, PageSet, Batch
    <2>3. TypeInv'
      BY <2>1, <2>2 DEF Inv, TypeInv, fetchVars, esiVars
    <2>4. PageInv'
      BY <2>1, <2>2 DEF Inv, PageInv, PageOK, fetchVars
    <2>5. ControlInv'
      BY <2>1, <2>2 DEF Inv, ControlInv, OnlyFirst, NothingSent, fetchVars
    <2>6. GroupInv'
      <3>1. sent \subseteq Batches
        BY DEF Inv, TypeInv
      <3> QED
        BY <2>1, <2>2, <3>1
           DEF Inv, GroupInv, SentOK, Noticed, CountOK, Counted, Further, fetchVars
    <2> QED
      BY <2>3, <2>4, <2>5, <2>6 DEF Inv
  <1>4. CASE TimePasses
    <2>1. gates' = Tick(gates) /\ UNCHANGED <<streamVars, fetchVars, bucket, charged, missed>>
      BY <1>4 DEF TimePasses
    <2>2. gates' \in GateType(Nat)
      BY <2>1, TickType DEF Inv, TypeInv
    <2>3. TypeInv'
      BY <2>1, <2>2 DEF Inv, TypeInv, streamVars, fetchVars
    <2>4. PageInv' /\ ControlInv'
      BY <2>1 DEF Inv, PageInv, PageOK, ControlInv, OnlyFirst, NothingSent, streamVars,
                  fetchVars
    <2>5. GroupInv'
      BY <2>1 DEF Inv, GroupInv, SentOK, Noticed, CountOK, Counted, Further, streamVars,
                  fetchVars
    <2> QED
      BY <2>3, <2>4, <2>5 DEF Inv
  <1>5. CASE UNCHANGED vars
    BY <1>5 DEF vars, streamVars, fetchVars, esiVars, Inv, TypeInv, PageInv, PageOK,
                ControlInv, OnlyFirst, NothingSent, GroupInv, SentOK, Noticed, CountOK,
                Counted, Further
  <1> QED
    BY <1>1, <1>2, <1>3, <1>4, <1>5

(* The invariant is inductive. *)
LEMMA SweepInvariant == Spec => []Inv
  <1>1. Init => Inv
    <2> SUFFICES ASSUME Init PROVE Inv
      OBVIOUS
    <2>1. /\ \A p \in Pages : fetch[p] = Idle
          /\ fetch \in [Pages -> Fetches]
      BY IdleType DEF Init
    <2>2. gates \in GateType(Nat)
      BY DEF Init, FreshGates, GateType, OutageThreshold
    <2>3. IsFiniteSet(out) /\ Cardinality(out) <= ChanCap
      BY FS_EmptySet, SweepConstants DEF Init, StreamInit
    <2>4. ver \in Versions /\ floor \in Versions /\ floor <= ver /\ 0 \in 0..MaxVersion
      BY SweepConstants DEF Init, StreamInit, Versions
    <2>5. TypeInv
      BY <2>1, <2>2, <2>3, <2>4, SweepAssumption DEF Init, StreamInit, TypeInv
    <2>6. PageInv
      BY <2>1 DEF PageInv, PageOK, Idle
    <2>7. ControlInv
      BY <2>1, SweepConstants DEF Init, StreamInit, ControlInv, OnlyFirst, Idle
    <2>8. GroupInv
      BY DEF Init, GroupInv
    <2> QED
      BY <2>5, <2>6, <2>7, <2>8 DEF Inv
  <1>2. Inv /\ [Next]_vars => Inv'
    <2> SUFFICES ASSUME Inv, [Next]_vars PROVE Inv'
      OBVIOUS
    <2>1. CASE Begin
      BY <2>1, BeginKeepsInv
    <2>2. CASE MainStep
      BY <2>2, CheckFloorKeepsInv, FirstKeepsInv, SendFirstKeepsInv, EndKeepsInv DEF MainStep
    <2>3. ASSUME NEW p \in Pages, PageStep(p) PROVE Inv'
      BY <2>3, RequestKeepsInv, WorkerFailedKeepsInv, WorkerComparesKeepsInv,
         WorkerSendsKeepsInv DEF PageStep, RequestStep
    <2>4. CASE Consume \/ ContextEnds \/ UpstreamRolls \/ TimePasses \/ UNCHANGED vars
      BY <2>4, WorldKeepsInv
    <2> QED
      BY <2>1, <2>2, <2>3, <2>4 DEF Next
  <1> QED
    BY <1>1, <1>2, PTL DEF Spec

-----------------------------------------------------------------------------
(* Types *)

(* No more pages are counted than there are. *)
LEMMA OrdersBound ==
    ASSUME Inv, at # "off"
    PROVE  orders <= MaxPages
  <1>1. CASE at = "group"
    <2>1. /\ orders <= Cardinality(Counted) /\ Cardinality(Counted) <= PagesOf[first]
          /\ Cardinality(Counted) \in Nat /\ PagesOf[first] \in Nat
          /\ PagesOf[first] <= MaxPages /\ MaxPages \in Nat /\ orders \in Nat
      BY <1>1, CountedFinite, SweepConstants
         DEF Inv, TypeInv, ControlInv, GroupInv, CountOK
    <2> QED
      BY <2>1
  <1>2. CASE at # "group"
    BY <1>2, SweepConstants DEF Inv, TypeInv, ControlInv, NothingSent
  <1> QED
    BY <1>1, <1>2

(* Returning changes no counter. *)
LEMMA OffKeepsOrders ==
    ASSUME Inv, [Next]_vars, at' = "off"
    PROVE  UNCHANGED orders
  <1>1. CASE MainStep
    BY <1>1 DEF MainStep, CheckFloor, FirstFailed, FirstFetched, SendFirst, ReturnSingle,
                Wait
  <1>2. CASE \E p \in Pages : PageStep(p)
    BY <1>2 DEF PageStep, Ask, Serve, Receive, GiveUp, NothingReturned, Judge, Backoff,
                WorkerFailed, WorkerCompares, WorkerSends, Worker
  <1>3. CASE Consume \/ ContextEnds \/ UpstreamRolls \/ TimePasses \/ UNCHANGED vars
    BY <1>3 DEF Consume, ContextEnds, UpstreamRolls, TimePasses, vars, fetchVars
  <1>4. ~Begin
    BY DEF Begin
  <1> QED
    BY <1>1, <1>2, <1>3, <1>4 DEF Next

(* Every variable of the sweep keeps its type: the channel within its        *)
(* capacity, no page beyond its attempts, no order counted twice.            *)
THEOREM SweepTypeCorrect == Spec => []TypeOK
  <1> DEFINE Bounded == orders <= MaxPages
             Running == at # "off" => orders <= MaxPages
  <1>1. Inv => Running
    BY OrdersBound
  <1>2. Init => Bounded
    BY SweepConstants DEF Init
  <1>3. Inv /\ Running' /\ Bounded /\ [Next]_vars => Bounded'
    BY OffKeepsOrders
  <1>4. Inv /\ Bounded => TypeOK
    <2> SUFFICES ASSUME Inv, Bounded PROVE TypeOK
      OBVIOUS
    <2>1. orders \in 0..MaxPages
      BY SweepConstants DEF Inv, TypeInv
    <2>2. \A p \in Pages : /\ fetch[p].stage \in Stages
                           /\ fetch[p].attempt \in 0..PageAttempts
                           /\ fetch[p].ver \in 0..MaxVersion
                           /\ fetch[p].err \in SweepErrors \cup {"nil"}
      BY DEF Inv, TypeInv, Fetches
    <2>3. gates.consecutive \in 0..OutageThreshold
      BY DEF Inv, TypeInv, GateType
    <2> QED
      BY <2>1, <2>2, <2>3 DEF Inv, TypeInv, TypeOK
  <1> HIDE DEF Bounded, Running
  <1> QED
    BY <1>1, <1>2, <1>3, <1>4, SweepInvariant, PTL DEF Spec

-----------------------------------------------------------------------------
(* The promise *)

(* A page set has as many batches as pages. *)
LEMMA PageSetSize ==
    ASSUME NEW v \in Versions
    PROVE  Cardinality(PageSet(v)) = PagesOf[v]
  <1> DEFINE n == PagesOf[v]
             f == [p \in 1..n |-> Batch(v, p)]
  <1>1. n \in Nat
    BY SweepConstants
  <1>2. f \in Bijection(1..n, PageSet(v))
    BY DEF Bijection, Injection, Surjection, IsInjective, PageSet, Batch
  <1>3. ExistsBijection(1..n, PageSet(v))
    BY <1>2 DEF ExistsBijection
  <1> HIDE DEF n
  <1>4. IsFiniteSet(1..n) /\ Cardinality(1..n) = n
    BY <1>1, IntervalSize
  <1>5. Cardinality(PageSet(v)) = Cardinality(1..n)
    BY <1>3, <1>4, FS_Bijection
  <1> QED
    BY <1>4, <1>5 DEF n

(* A batch is known by its version and its page. *)
LEMMA BatchIsPage ==
    ASSUME NEW b \in Batches
    PROVE  b = Batch(b.ver, b.page) /\ b.page \in Nat /\ b.page >= 1
  BY SweepConstants DEF Batches, PageSet, Batch

(* When every goroutine has returned without an error and no mismatch was    *)
(* noted, what was sent is page 1's snapshot, whole, and was counted right.  *)
LEMMA NilMeansWhole ==
    ASSUME Inv, at = "group", \A p \in Pages \ {1} : fetch[p] = Idle,
           groupErr = "nil", ~mismatch, ~grew
    PROVE  sent = PageSet(first) /\ orders = PagesOf[first]
  <1> DEFINE n == PagesOf[first]
  <1>1. first \in Versions /\ n \in Nat /\ n >= 1 /\ 1 \notin Further /\ Further \subseteq Pages
    BY CountedFinite, SweepConstants DEF Inv, ControlInv
  <1>2. \A p \in Further : fetch[p].stage = "off"
    BY <1>1 DEF Idle
  <1>3. SentOK /\ Noticed /\ CountOK /\ sent \subseteq Batches
    BY DEF Inv, TypeInv, GroupInv
  <1>4. ASSUME NEW b \in sent PROVE b \in PageSet(first)
    <2>1. b = Batch(first, b.page) /\ b.page \in 1..n
      BY <1>1, <1>3, BatchIsPage DEF SentOK, Noticed
    <2> QED
      BY <2>1 DEF PageSet
  <1>5. ASSUME NEW p \in 1..n PROVE Batch(first, p) \in sent
    <2>1. CASE p = 1
      BY <1>3, <2>1 DEF SentOK
    <2>2. CASE p # 1
      <3>1. p \in Further
        BY <1>1, <2>2 DEF Further
      <3>2. PICK b \in sent : b.page = p
        BY <1>2, <1>3, <3>1 DEF SentOK
      <3>3. b = Batch(first, p)
        BY <1>3, <3>2, BatchIsPage DEF Noticed
      <3> QED
        BY <3>2, <3>3
    <2> QED
      BY <2>1, <2>2
  <1>6. Counted = 1..n
    BY <1>1, <1>2 DEF Counted, Further
  <1>7. orders = n
    <2>1. orders = Cardinality(Counted) /\ Cardinality(1..n) = n
      BY <1>1, <1>3, IntervalSize DEF CountOK
    <2> QED
      BY <1>6, <2>1
  <1> QED
    BY <1>4, <1>5, <1>7 DEF PageSet

(* Returning an error closes the stream with it. *)
LEMMA ReturnFails ==
    ASSUME Inv, NEW e \in SweepErrors, Return(e), phase = "open"
    PROVE  CloseFailed(e)
  <1>1. e # "nil" /\ meta = 0 /\ count = 0
    BY DEF SweepErrors, Inv, ControlInv
  <1> QED
    BY <1>1 DEF Return, CloseFailed

(* Returning nil closes the stream when the snapshot is whole. *)
LEMMA ReturnSucceeds ==
    ASSUME Inv, Return("nil"), phase = "open", first \in Versions,
           sent = PageSet(first), orders = PagesOf[first]
    PROVE  CloseOk(first)
  <1>1. err = {} /\ Cardinality(sent) = orders
    BY PageSetSize DEF Inv, ControlInv
  <1> QED
    BY <1>1 DEF Return, CloseOk

(* Sweep's own steps are steps of the stream. *)
LEMMA MainRefines ==
    ASSUME Inv, MainStep
    PROVE  StreamNext \/ UNCHANGED streamVars
  <1>0. phase = "open"
    BY DEF Inv, ControlInv, MainStep, CheckFloor, FirstFailed, FirstFetched, SendFirst,
           ReturnSingle, Wait
  <1>1. ASSUME NEW e \in SweepErrors, Return(e) PROVE StreamNext
    BY <1>0, <1>1, ReturnFails DEF StreamNext, Close
  <1>2. CASE CheckFloor
    BY <1>1, <1>2 DEF CheckFloor, SweepErrors
  <1>3. CASE FirstFailed
    <2>1. fetch[1].err \in SweepErrors
      BY <1>3, SweepConstants DEF FirstFailed, Inv, PageInv, PageOK
    <2> QED
      BY <1>1, <1>3, <2>1 DEF FirstFailed
  <1>4. CASE FirstFetched
    BY <1>1, <1>4 DEF FirstFetched, SweepErrors
  <1>5. CASE SendFirst
    <2>1. CASE Put(Batch(first, 1))
      <3>1. /\ Batch(first, 1) \in Batches \ sent /\ floor <= first /\ first <= ver
        BY <1>5, <2>1, SendFirstKeepsInv
      <3>2. Emit(Batch(first, 1))
        BY <1>0, <2>1, <3>1 DEF Put, Emit, Batch
      <3> QED
        BY <3>1, <3>2 DEF StreamNext
    <2>2. CASE Return("canceled")
      BY <1>1, <2>2 DEF SweepErrors
    <2> QED
      BY <1>5, <2>1, <2>2 DEF SendFirst
  <1>6. CASE ReturnSingle
    <2>1. /\ at = "return" /\ first \in Versions /\ PagesOf[first] = 1
          /\ sent = {Batch(first, 1)} /\ orders = 1
      BY <1>6 DEF ReturnSingle, Inv, ControlInv
    <2>2. sent = PageSet(first)
      BY <2>1 DEF PageSet
    <2>3. CloseOk(first)
      BY <1>0, <1>6, <2>1, <2>2, ReturnSucceeds DEF ReturnSingle
    <2> QED
      BY <2>1, <2>3 DEF StreamNext, Close
  <1>7. CASE Wait
    <2>1. CASE groupErr # "nil" \/ mismatch \/ grew
      <3>1. \E e \in SweepErrors : Return(e)
        BY <1>7, <2>1 DEF Wait, Inv, TypeInv, SweepErrors
      <3> QED
        BY <1>1, <3>1
    <2>2. CASE ~(groupErr # "nil" \/ mismatch \/ grew)
      <3>1. Return("nil") /\ sent = PageSet(first) /\ orders = PagesOf[first]
        BY <1>7, <2>2, NilMeansWhole DEF Wait
      <3>2. first \in Versions
        BY <1>7 DEF Wait, Inv, ControlInv
      <3>3. CloseOk(first)
        BY <1>0, <3>1, <3>2, ReturnSucceeds
      <3> QED
        BY <3>2, <3>3 DEF StreamNext, Close
    <2> QED
      BY <2>1, <2>2
  <1> QED
    BY <1>2, <1>3, <1>4, <1>5, <1>6, <1>7 DEF MainStep

(* So are the steps of the pages: only a send shows. *)
LEMMA PageRefines ==
    ASSUME Inv, NEW p \in Pages, PageStep(p)
    PROVE  StreamNext \/ UNCHANGED streamVars
  <1>1. CASE RequestStep(p)
    BY <1>1 DEF RequestStep, Ask, Serve, Receive, GiveUp, NothingReturned, Judge, Backoff
  <1>2. CASE WorkerFailed(p) \/ WorkerCompares(p)
    BY <1>2 DEF WorkerFailed, WorkerCompares
  <1>3. CASE WorkerSends(p)
    <2>1. phase = "open"
      BY <1>3 DEF WorkerSends, Worker, Inv, ControlInv
    <2>2. CASE UNCHANGED streamVars
      BY <2>2
    <2>3. CASE /\ Put(Batch(fetch[p].ver, p))
               /\ Batch(fetch[p].ver, p) \in Batches \ sent
               /\ floor <= fetch[p].ver /\ fetch[p].ver <= ver
      <3>1. Emit(Batch(fetch[p].ver, p))
        BY <2>1, <2>3 DEF Put, Emit, Batch
      <3> QED
        BY <2>3, <3>1 DEF StreamNext
    <2> QED
      BY <1>3, <2>2, <2>3, WorkerSendsKeepsInv
  <1> QED
    BY <1>1, <1>2, <1>3 DEF PageStep, RequestStep

(* The sweep keeps the safety half of its promise: batches come at most once *)
(* and from snapshots served since the sweep began, the channel keeps its    *)
(* bound, and a nil error means that exactly one complete snapshot was sent  *)
(* and counted, whatever was retried, refused or served from another         *)
(* snapshot.                                                                 *)
THEOREM SweepKeepsPromise == Spec => Contract!StreamSafety
  <1>1. Init => StreamInit
    BY DEF Init
  <1>2. Inv /\ [Next]_vars => [StreamNext]_streamVars
    <2> SUFFICES ASSUME Inv, [Next]_vars PROVE StreamNext \/ UNCHANGED streamVars
      OBVIOUS
    <2>1. CASE Begin
      BY <2>1 DEF Begin, StreamNext
    <2>2. CASE MainStep
      BY <2>2, MainRefines
    <2>3. ASSUME NEW p \in Pages, PageStep(p) PROVE StreamNext \/ UNCHANGED streamVars
      BY <2>3, PageRefines
    <2>4. CASE Consume
      <3>1. PICK b \in out : Take(b)
        BY <2>4 DEF Consume
      <3>2. b \in Batches
        BY <3>1 DEF Inv, TypeInv
      <3> QED
        BY <3>1, <3>2 DEF StreamNext
    <2>5. CASE ContextEnds \/ UpstreamRolls
      BY <2>5 DEF ContextEnds, UpstreamRolls, StreamNext
    <2>6. CASE TimePasses \/ UNCHANGED vars
      BY <2>6 DEF TimePasses, vars
    <2> QED
      BY <2>1, <2>2, <2>3, <2>4, <2>5, <2>6 DEF Next
  <1>3. StreamInit => Contract!StreamInit
    BY DEF StreamInit, Contract!StreamInit, Versions, Contract!Versions
  <1>4. StreamNext => Contract!StreamNext
    <2>0. \A S : Contract!Cardinality(S) = Cardinality(S)
      BY Zenon DEF Cardinality, Contract!Cardinality
    <2>1. Contract!Versions = Versions /\ Contract!SweepErrors = SweepErrors
      BY DEF Versions, Contract!Versions, SweepErrors, Contract!SweepErrors
    <2>2. \A v : Contract!PageSet(v) = PageSet(v)
      BY DEF PageSet, Batch, Contract!PageSet, Contract!Batch
    <2>3. Contract!Batches = Batches
      BY DEF Batches, PageSet, Batch, Versions, Contract!Batches, Contract!PageSet,
             Contract!Batch, Contract!Versions
    <2>4. \A done : Open(done) => Contract!Open(done)
      BY DEF Open, Contract!Open
    <2>5. \A b : (Emit(b) => Contract!Emit(b)) /\ (Take(b) => Contract!Take(b))
      BY <2>0 DEF Emit, Take, Contract!Emit, Contract!Take
    <2>6. \A v : CloseOk(v) => Contract!CloseOk(v)
      BY <2>0, <2>2 DEF CloseOk, Contract!CloseOk
    <2>7. \A e : CloseFailed(e) => Contract!CloseFailed(e)
      BY DEF CloseFailed, Contract!CloseFailed
    <2>8. Cancel \/ Roll => Contract!Cancel \/ Contract!Roll
      BY DEF Cancel, Roll, Contract!Cancel, Contract!Roll
    <2> QED
      BY <2>1, <2>3, <2>4, <2>5, <2>6, <2>7, <2>8
         DEF StreamNext, Close, Contract!StreamNext, Contract!Close
  <1>5. Contract!streamVars = streamVars
    BY DEF streamVars, Contract!streamVars
  <1>6. Inv /\ [Next]_vars => [Contract!StreamNext]_(Contract!streamVars)
    BY <1>2, <1>4, <1>5 DEF streamVars, Contract!streamVars
  <1> QED
    BY <1>1, <1>3, <1>6, SweepInvariant, PTL DEF Spec, Contract!StreamSafety

-----------------------------------------------------------------------------
(* TokensSpent *)

(* The tokens charged for answers that are on their way, one element each:   *)
(* all of them, those of the other pages, and the number of page p's.        *)
Pending(f) ==
    {x \in Pages \X (1..5) :
        f[x[1]].stage = "answered" /\ x[2] <= TokenCost(f[x[1]].resp.status)}
PendingBut(f, p) == {x \in Pending(f) : x[1] # p}
Owed(f, p) == IF f[p].stage = "answered" THEN TokenCost(f[p].resp.status) ELSE 0

(* What was charged has been counted, has been missed, or is on its way. *)
AccountInv == spent + missed + Cardinality(Pending(fetch)) = charged

(* Page p's share of what is on its way. *)
LEMMA PendingSplit ==
    ASSUME NEW f \in [Pages -> Fetches], NEW p \in Pages
    PROVE  /\ Owed(f, p) \in Nat /\ Cardinality(PendingBut(f, p)) \in Nat
           /\ Cardinality(Pending(f)) = Cardinality(PendingBut(f, p)) + Owed(f, p)
  <1> DEFINE c == Owed(f, p)
             Mine == {p} \X (1..c)
             A == PendingBut(f, p)
  <1>1. c \in 0..5
    <2>1. f[p].resp.status \in Nat
      BY DEF Fetches, ResponseType
    <2> QED
      BY <2>1, TokenCostType DEF Owed
  <1>2. Pending(f) = A \cup Mine /\ A \cap Mine = {}
    <2>1. ASSUME NEW x \in Pending(f), x \notin A PROVE x \in Mine
      BY <2>1 DEF Pending, PendingBut, Owed
    <2>2. ASSUME NEW x \in Mine PROVE x \in Pending(f) /\ x \notin A
      BY <1>1, <2>2 DEF Pending, PendingBut, Owed
    <2> QED
      BY <2>1, <2>2 DEF PendingBut
  <1> HIDE DEF c
  <1>3. IsFiniteSet(Pages) /\ IsFiniteSet(1..5) /\ IsFiniteSet(1..c) /\ Cardinality(1..c) = c
    <2>1. MaxPages \in Nat /\ c \in Nat /\ 5 \in Nat
      BY <1>1, SweepConstants
    <2>2. IsFiniteSet(1..MaxPages)
      BY <2>1, IntervalSize
    <2>3. IsFiniteSet(1..5)
      BY <2>1, IntervalSize
    <2>4. IsFiniteSet(1..c) /\ Cardinality(1..c) = c
      BY <2>1, IntervalSize
    <2> QED
      BY <2>2, <2>3, <2>4 DEF Pages
  <1>4. IsFiniteSet(Pages \X (1..5))
    BY <1>3, FS_Product
  <1>5. A \subseteq Pages \X (1..5)
    BY DEF PendingBut, Pending
  <1>6. IsFiniteSet(A) /\ Cardinality(A) \in Nat
    BY <1>4, <1>5, FS_Subset, FS_CardinalityType
  <1>7. IsFiniteSet(Mine) /\ Cardinality(Mine) = c
    <2>1. IsFiniteSet({p}) /\ Cardinality({p}) = 1
      BY FS_Singleton
    <2>2. IsFiniteSet(Mine) /\ Cardinality(Mine) = Cardinality({p}) * Cardinality(1..c)
      BY <1>3, <2>1, FS_Product
    <2> QED
      BY <1>1, <1>3, <2>1, <2>2
  <1> HIDE DEF Mine, A
  <1>8. Cardinality(A \cup Mine) = Cardinality(A) + Cardinality(Mine) - Cardinality(A \cap Mine)
    BY <1>6, <1>7, FS_Union
  <1>9. Cardinality(A \cap Mine) = 0
    BY <1>2, FS_EmptySet
  <1> QED
    BY <1>1, <1>2, <1>6, <1>7, <1>8, <1>9 DEF c, A

(* The sum behind the next lemma. *)
LEMMA AccountSum ==
    ASSUME NEW s \in Nat, NEW s2 \in Nat, NEW m \in Nat, NEW m2 \in Nat,
           NEW c \in Nat, NEW c2 \in Nat,
           NEW n \in Nat, NEW o \in Nat, NEW o2 \in Nat,
           s + m + (n + o) = c, s2 + m2 + o2 + c = s + m + o + c2
    PROVE  s2 + m2 + (n + o2) = c2
  OBVIOUS

(* Of a page that moves, every token is somewhere on the account. *)
Balanced(p) ==
    spent' + missed' + Owed(fetch', p) + charged = spent + missed + Owed(fetch, p) + charged'

LEMMA AccountStep ==
    ASSUME Inv, AccountInv, NEW p \in Pages,
           fetch' \in [Pages -> Fetches], \A q \in Pages \ {p} : fetch'[q] = fetch[q],
           spent' \in Nat, charged' \in Nat, missed' \in Nat, Balanced(p)
    PROVE  AccountInv'
  <1>1. fetch \in [Pages -> Fetches] /\ spent \in Nat /\ charged \in Nat /\ missed \in Nat
    BY DEF Inv, TypeInv
  <1>2. PendingBut(fetch', p) = PendingBut(fetch, p)
    <2>1. ASSUME NEW x \in Pages \X (1..5), x[1] # p PROVE fetch'[x[1]] = fetch[x[1]]
      <3>1. x[1] \in Pages \ {p}
        BY <2>1
      <3> QED
        BY <3>1
    <2> QED
      BY <2>1 DEF PendingBut, Pending
  <1> DEFINE n == Cardinality(PendingBut(fetch, p))
  <1>3. /\ n \in Nat /\ Owed(fetch, p) \in Nat
        /\ Cardinality(Pending(fetch)) = n + Owed(fetch, p)
    BY <1>1, PendingSplit
  <1>4. /\ Owed(fetch', p) \in Nat
        /\ Cardinality(Pending(fetch')) = Cardinality(PendingBut(fetch', p)) + Owed(fetch', p)
    BY PendingSplit
  <1>5. Cardinality(Pending(fetch')) = n + Owed(fetch', p)
    BY <1>2, <1>4
  <1> HIDE DEF n
  <1>6. spent + missed + (n + Owed(fetch, p)) = charged
    BY <1>3 DEF AccountInv
  <1>7. spent' + missed' + (n + Owed(fetch', p)) = charged'
    BY <1>1, <1>3, <1>4, <1>6, AccountSum DEF Balanced
  <1> QED
    BY <1>5, <1>7 DEF AccountInv

(* Nothing is on its way when no page is answered. *)
LEMMA NothingPending ==
    ASSUME NEW f, \A p \in Pages : f[p].stage # "answered"
    PROVE  Cardinality(Pending(f)) = 0
  <1>1. Pending(f) = {}
    <2>1. ASSUME NEW x \in Pages \X (1..5) PROVE x[1] \in Pages
      OBVIOUS
    <2> QED
      BY <2>1 DEF Pending
  <1> QED
    BY <1>1, FS_EmptySet

(* Every request is counted once, when its response arrives, or missed. *)
LEMMA RequestAccount ==
    ASSUME Inv, AccountInv, NEW p \in Pages, RequestStep(p)
    PROVE  AccountInv'
  <1>0. /\ fetch \in [Pages -> Fetches] /\ PageInv /\ TypeInv /\ ver \in Versions
        /\ bucket \in Nat /\ charged \in Nat /\ spent \in Nat /\ missed \in Nat
        /\ PageOK(p, fetch[p])
    BY DEF Inv, TypeInv, PageInv
  <1>1. /\ fetch' \in [Pages -> Fetches] /\ \A q \in Pages \ {p} : fetch'[q] = fetch[q]
        /\ spent' \in Nat /\ charged' \in Nat /\ missed' \in Nat
    BY <1>0, RequestShape
  <1>3. CASE Ask(p) \/ Judge(p) \/ Backoff(p)
    <2>1. /\ fetch[p].stage # "answered" /\ fetch'[p].stage # "answered"
          /\ UNCHANGED <<spent, charged, missed>>
      <3>1. CASE Ask(p)
        BY <1>0, <3>1, AskEffect DEF Becomes, Ask, esiVars
      <3>2. CASE Judge(p)
        BY <1>0, <3>2, JudgeEffect DEF Becomes, Judge, esiVars
      <3>3. CASE Backoff(p)
        <4>1. fetch[p].attempt < PageAttempts
          BY <1>0, <3>3 DEF Backoff, PageOK
        <4> QED
          BY <1>0, <3>3, <4>1, BackoffEffect DEF Becomes, Backoff, esiVars
      <3> QED
        BY <1>3, <3>1, <3>2, <3>3
    <2>2. Owed(fetch', p) = 0 /\ Owed(fetch, p) = 0
      BY <2>1 DEF Owed
    <2>3. Balanced(p)
      BY <1>0, <2>1, <2>2 DEF Balanced
    <2> QED
      BY <1>1, <2>3, AccountStep
  <1>4. CASE Serve(p)
    <2>1. PICK status \in Statuses, v \in {0, ver}, l \in Nat \cup {None} :
             /\ charged' = charged + TokenCost(status)
             /\ Becomes(fetch, fetch', p, "answered", fetch[p].attempt, v,
                        Response(status, bucket', l, 0, 0), fetch[p].err)
      BY <1>0, <1>4, ServeEffect
    <2>2. fetch'[p].stage = "answered" /\ fetch'[p].resp.status = status
      BY <2>1 DEF Becomes, Response
    <2>3. /\ Owed(fetch', p) = TokenCost(status) /\ TokenCost(status) \in Nat
          /\ Owed(fetch, p) = 0 /\ UNCHANGED <<spent, missed>>
      BY <1>4, <2>2, TokenCostType DEF Owed, Serve, Statuses
    <2>4. Balanced(p)
      BY <1>0, <2>1, <2>3 DEF Balanced
    <2> QED
      BY <1>1, <2>4, AccountStep
  <1>5. CASE Receive(p) \/ GiveUp(p)
    <2> DEFINE c == TokenCost(fetch[p].resp.status)
    <2>1. /\ UNCHANGED charged
          /\ \/ spent' = spent + c /\ missed' = missed /\ fetch[p].stage = "answered"
             \/ spent' = spent /\ missed' = missed + Owed(fetch, p)
      <3>1. CASE Receive(p)
        BY <3>1 DEF Receive
      <3>2. CASE GiveUp(p)
        <4>1. fetch[p].stage = "wire" => c = 0
          BY <1>0 DEF PageOK, NoResponse, Response, TokenCost
        <4> QED
          BY <3>2, <4>1 DEF GiveUp, NothingReturned, Owed
      <3> QED
        BY <1>5, <3>1, <3>2
    <2>2. fetch'[p].stage # "answered"
      BY <1>0, <1>5, ReceiveEffect, GiveUpEffect DEF Becomes
    <2>3. c \in Nat
      <3>1. fetch[p].resp.status \in Nat
        BY <1>0 DEF Fetches, ResponseType
      <3> QED
        BY <3>1, TokenCostType
    <2> HIDE DEF c
    <2>4. Owed(fetch', p) = 0 /\ (fetch[p].stage = "answered" => Owed(fetch, p) = c)
          /\ Owed(fetch, p) \in Nat
      BY <2>2, <2>3 DEF Owed, c
    <2>5. Balanced(p)
      BY <1>0, <2>1, <2>3, <2>4 DEF Balanced
    <2> QED
      BY <1>1, <2>5, AccountStep
  <1> QED
    BY <1>3, <1>4, <1>5 DEF RequestStep

(* The steps around the requests keep the account. *)
LEMMA OtherAccount ==
    ASSUME Inv, AccountInv, [Next]_vars, \A p \in Pages : ~RequestStep(p)
    PROVE  AccountInv'
  <1>0. /\ fetch \in [Pages -> Fetches] /\ spent \in Nat /\ charged \in Nat
        /\ missed \in Nat /\ Idle.stage = "off"
    BY DEF Inv, TypeInv, Idle
  <1>1. CASE UNCHANGED <<fetch, spent, charged, missed>>
    BY <1>1 DEF AccountInv
  <1>2. CASE Begin
    <2>1. spent' = 0 /\ charged' = 0 /\ missed' = 0 /\ \A p \in Pages : fetch'[p].stage # "answered"
      BY <1>0, <1>2 DEF Begin
    <2>2. Cardinality(Pending(fetch')) = 0
      BY <2>1, NothingPending
    <2> QED
      BY <2>1, <2>2 DEF AccountInv
  <1>3. CASE CheckFloor
    <2>1. CASE fetch' = [fetch EXCEPT ![1] = Asking]
      <3>1. /\ fetch' \in [Pages -> Fetches] /\ fetch'[1].stage = "ask"
            /\ \A q \in Pages \ {1} : fetch'[q] = fetch[q] /\ 1 \in Pages
            /\ UNCHANGED <<spent, charged, missed>>
        BY <1>0, <1>3, <2>1, IdleType, SweepConstants DEF CheckFloor, esiVars
      <3>2. fetch[1] = Idle
        BY <1>3 DEF CheckFloor, Inv, ControlInv
      <3>3. Owed(fetch', 1) = 0 /\ Owed(fetch, 1) = 0
        BY <1>0, <3>1, <3>2 DEF Owed
      <3>4. Balanced(1)
        BY <1>0, <3>1, <3>3 DEF Balanced
      <3> QED
        BY <1>0, <3>1, <3>4, AccountStep, SweepConstants
    <2>2. CASE UNCHANGED fetch
      BY <1>1, <1>3, <2>2 DEF CheckFloor, esiVars
    <2> QED
      BY <1>3, <2>1, <2>2 DEF CheckFloor
  <1>4. CASE SendFirst
    <2>1. UNCHANGED <<spent, charged, missed>>
      BY <1>4 DEF SendFirst, esiVars
    <2>2. CASE UNCHANGED fetch
      BY <1>1, <2>1, <2>2
    <2>3. CASE fetch' = [p \in Pages |-> IF p \in 2..PagesOf[first] THEN Asking ELSE Idle]
      <3>1. \A p \in Pages : fetch'[p].stage # "answered"
        BY <1>0, <2>3, IdleType
      <3>2. \A p \in Pages : fetch[p].stage # "answered"
        BY <1>0, <1>4 DEF SendFirst, Inv, ControlInv, OnlyFirst
      <3>3. Cardinality(Pending(fetch')) = 0 /\ Cardinality(Pending(fetch)) = 0
        BY <3>1, <3>2, NothingPending
      <3> QED
        BY <2>1, <3>3 DEF AccountInv
    <2> QED
      BY <1>4, <2>2, <2>3 DEF SendFirst
  <1>5. CASE FirstFailed \/ FirstFetched \/ ReturnSingle \/ Wait
    BY <1>1, <1>5 DEF FirstFailed, FirstFetched, ReturnSingle, Wait, esiVars
  <1>6. ASSUME NEW p \in Pages, WorkerFailed(p) \/ WorkerCompares(p) \/ WorkerSends(p)
        PROVE  AccountInv'
    <2>1. UNCHANGED <<spent, charged, missed>> /\ fetch[p].stage # "answered"
      BY <1>6 DEF WorkerFailed, WorkerCompares, WorkerSends, esiVars
    <2>2. /\ fetch' \in [Pages -> Fetches] /\ \A q \in Pages \ {p} : fetch'[q] = fetch[q]
          /\ fetch'[p].stage # "answered"
      <3>1. CASE WorkerFailed(p) \/ WorkerSends(p)
        BY <1>0, <3>1, IdleEffect DEF WorkerFailed, WorkerSends
      <3>2. CASE WorkerCompares(p)
        <4>1. fetch' = [fetch EXCEPT ![p].stage = "send"]
          BY <3>2 DEF WorkerCompares
        <4>2. Becomes(fetch, fetch', p, "send", fetch[p].attempt, fetch[p].ver,
                      fetch[p].resp, fetch[p].err)
          BY <1>0, <4>1, SetStage DEF Stages
        <4> QED
          BY <4>2 DEF Becomes
      <3> QED
        BY <1>6, <3>1, <3>2
    <2>3. Owed(fetch', p) = 0 /\ Owed(fetch, p) = 0
      BY <2>1, <2>2 DEF Owed
    <2>4. Balanced(p)
      BY <1>0, <2>1, <2>3 DEF Balanced
    <2> QED
      BY <1>0, <2>1, <2>2, <2>4, AccountStep
  <1>7. CASE Consume \/ ContextEnds \/ UpstreamRolls \/ TimePasses \/ UNCHANGED vars
    BY <1>1, <1>7
       DEF Consume, ContextEnds, UpstreamRolls, TimePasses, vars, fetchVars, esiVars
  <1> QED
    BY <1>2, <1>3, <1>4, <1>5, <1>6, <1>7 DEF Next, MainStep, PageStep, RequestStep

(* When a sweep ends, TokensSpent and the requests given up after ESI had    *)
(* handled them add up to what ESI charged: whatever failed and was          *)
(* repeated, every response is counted, and counted once.                    *)
THEOREM ResponsesAreCounted == Spec => []EveryResponseCounted
  <1>1. Init => AccountInv
    <2> SUFFICES ASSUME Init PROVE AccountInv
      OBVIOUS
    <2>1. \A p \in Pages : fetch[p].stage # "answered"
      BY DEF Init, Idle
    <2>2. Cardinality(Pending(fetch)) = 0
      BY <2>1, NothingPending
    <2> QED
      BY <2>2 DEF Init, AccountInv
  <1>2. Inv /\ AccountInv /\ [Next]_vars => AccountInv'
    BY RequestAccount, OtherAccount
  <1>3. Inv /\ AccountInv => EveryResponseCounted
    <2> SUFFICES ASSUME Inv, AccountInv, phase = "closed" PROVE spent + missed = charged
      BY DEF EveryResponseCounted
    <2>1. spent \in Nat /\ missed \in Nat /\ charged \in Nat
      BY DEF Inv, TypeInv
    <2>2. \A p \in Pages : fetch[p].stage # "answered"
      BY DEF Inv, ControlInv, OnlyFirst, Idle
    <2>3. Cardinality(Pending(fetch)) = 0
      BY <2>2, NothingPending
    <2> QED
      BY <2>1, <2>3 DEF AccountInv
  <1> QED
    BY <1>1, <1>2, <1>3, SweepInvariant, PTL DEF Spec

-----------------------------------------------------------------------------
(* The reserve *)

(* The bucket holds enough for version v's whole page set, with what was     *)
(* charged for this sweep added back.                                        *)
Covers(v) == bucket + charged >= Reserve + 2 * PagesOf[v]

(* Between ESI's answer to page 1 and the budget check nobody else spends:   *)
(* the header, and then the budget, say what the bucket holds.               *)
FirstKnown ==
    at = "first" =>
        /\ fetch[1].stage = "answered" =>
              fetch[1].resp.remaining = bucket /\ (fetch[1].ver # 0 => charged >= 2)
        /\ fetch[1].stage = "got" =>
              gates.known /\ gates.remaining = bucket /\ charged >= 2

ReserveInv ==
    /\ FirstKnown
    /\ at \in {"send", "group", "return"} => Covers(first)
    /\ phase = "closed" /\ err = {} => meta \in Versions /\ Covers(meta)

(* Nothing about the reserve moves when the sweep, page 1, the bucket and    *)
(* the budget do not.                                                        *)
LEMMA ReserveFrame ==
    ASSUME ReserveInv, UNCHANGED <<at, first, phase, err, meta, bucket, charged>>,
           fetch'[1] = fetch[1],
           gates'.known = gates.known, gates'.remaining = gates.remaining
    PROVE  ReserveInv'
  <1>1. FirstKnown'
    BY DEF ReserveInv, FirstKnown
  <1>2. \A v : Covers(v) => Covers(v)'
    BY DEF Covers
  <1> QED
    BY <1>1, <1>2 DEF ReserveInv, Covers

(* The requests keep the reserve's account. *)
LEMMA RequestReserve ==
    ASSUME Inv, ReserveInv, NEW p \in Pages, RequestStep(p)
    PROVE  ReserveInv'
  <1>0. /\ fetch \in [Pages -> Fetches] /\ PageInv /\ TypeInv /\ ver \in Versions
        /\ bucket \in Nat /\ charged \in Nat /\ spent \in Nat /\ gates \in GateType(Nat)
        /\ PageOK(p, fetch[p]) /\ 1 \in Pages
    BY SweepConstants DEF Inv, TypeInv, PageInv
  <1>1. /\ UNCHANGED <<streamVars, at, first>>
        /\ \A q \in Pages \ {p} : fetch'[q] = fetch[q]
        /\ fetch[p].stage \in Requesting
    BY <1>0, RequestShape
  <1>2. \/ at = "first" /\ p = 1
        \/ at = "group" /\ p \in Further /\ p # 1
    BY <1>1, WhoRequests
  <1>3. phase = "open" /\ phase' = "open"
    BY <1>1, <1>2 DEF Inv, ControlInv, streamVars
  <1>4. at = "group" => first \in Versions
    BY DEF Inv, ControlInv
  <1>5. CASE Ask(p) \/ GiveUp(p) \/ Judge(p) \/ Backoff(p)
    <2>1. UNCHANGED <<bucket, charged, gates>>
      BY <1>5 DEF Ask, GiveUp, NothingReturned, Judge, Backoff, esiVars
    <2>2. fetch'[p].stage \notin {"answered", "got"}
      <3>1. CASE Ask(p)
        BY <1>0, <3>1, AskEffect DEF Becomes
      <3>2. CASE GiveUp(p)
        BY <1>0, <3>2, GiveUpEffect DEF Becomes
      <3>4. CASE Judge(p)
        BY <1>0, <3>4, JudgeEffect DEF Becomes
      <3>3. CASE Backoff(p)
        <4>1. fetch[p].attempt < PageAttempts
          BY <1>0, <3>3 DEF Backoff, PageOK
        <4> QED
          BY <1>0, <3>3, <4>1, BackoffEffect DEF Becomes
      <3> QED
        BY <1>5, <3>1, <3>2, <3>3, <3>4
    <2>3. FirstKnown'
      BY <1>1, <1>2, <2>2 DEF FirstKnown
    <2> QED
      BY <1>1, <1>2, <1>3, <2>1, <2>3 DEF ReserveInv, Covers
  <1>6. CASE Serve(p)
    <2>1. PICK status \in Statuses, v \in {0, ver}, l \in Nat \cup {None} :
             /\ bucket' \in Nat /\ charged' = charged + TokenCost(status)
             /\ bucket' >= bucket - TokenCost(status)
             /\ v # 0 => status = 200 /\ p <= PagesOf[ver]
             /\ Becomes(fetch, fetch', p, "answered", fetch[p].attempt, v,
                        Response(status, bucket', l, 0, 0), fetch[p].err)
      BY <1>0, <1>6, ServeEffect
    <2>2. /\ fetch'[p].stage = "answered" /\ fetch'[p].ver = v
          /\ fetch'[p].resp.remaining = bucket'
      BY <2>1 DEF Becomes, Response
    <2>3. TokenCost(status) \in Nat /\ TokenCost(200) = 2
      BY TokenCostType DEF Statuses
    <2>4. v # 0 => charged' >= 2
      BY <1>0, <2>1, <2>3
    <2>5. FirstKnown'
      BY <1>1, <1>2, <2>2, <2>4 DEF FirstKnown
    <2>6. ASSUME at = "group" PROVE Covers(first)'
      <3>1. bucket + charged >= Reserve + 2 * PagesOf[first]
        BY <2>6 DEF ReserveInv, Covers
      <3>2. /\ first \in Versions /\ PagesOf[first] \in Nat /\ Reserve \in Int
            /\ TokenCost(status) \in Nat
            /\ bucket' \in Nat /\ bucket' >= bucket - TokenCost(status)
        BY <1>4, <2>1, <2>3, <2>6, SweepConstants
      <3>3. bucket' + (charged + TokenCost(status)) >= Reserve + 2 * PagesOf[first]
        BY <1>0, <3>1, <3>2
      <3> QED
        BY <1>1, <2>1, <3>3 DEF Covers
    <2> QED
      BY <1>1, <1>2, <1>3, <2>5, <2>6 DEF ReserveInv
  <1>7. CASE Receive(p)
    <2> DEFINE r == fetch[p].resp
               h == Observe(gates, r)
    <2>1. /\ fetch[p].stage = "answered" /\ gates' = [h EXCEPT !.blockedFor = 0]
          /\ UNCHANGED <<bucket, charged>>
      BY <1>7 DEF Receive
    <2>2. r \in ResponseType(Nat) /\ r.remaining # None
      BY <1>0, <2>1 DEF PageOK, Fetches
    <2>3. h \in GateType(Nat) /\ h.known /\ h.remaining = r.remaining
      BY <1>0, <2>2, ObserveType
    <2> HIDE DEF h
    <2>4. gates'.known /\ gates'.remaining = r.remaining
      BY <2>1, <2>3 DEF GateType
    <2>5. /\ fetch'[p].stage # "answered"
          /\ fetch'[p].stage = "got" => fetch[p].ver # 0
      BY <1>0, <1>7, ReceiveEffect DEF Becomes
    <2>6. FirstKnown'
      <3>1. CASE at = "first" /\ p = 1
        <4>1. r.remaining = bucket /\ (fetch[1].ver # 0 => charged >= 2)
          BY <2>1, <3>1 DEF ReserveInv, FirstKnown
        <4> QED
          BY <2>1, <2>4, <2>5, <3>1, <4>1 DEF FirstKnown
      <3>2. CASE at = "group"
        BY <1>1, <3>2 DEF FirstKnown
      <3> QED
        BY <1>2, <3>1, <3>2
    <2> QED
      BY <1>1, <1>2, <1>3, <2>1, <2>6 DEF ReserveInv, Covers
  <1> QED
    BY <1>5, <1>6, <1>7 DEF RequestStep

(* Fits: what page 1 said is left covers the rest and the reserve. *)
LEMMA FitsCovers ==
    ASSUME NEW v \in Versions, bucket \in Nat, charged \in Nat, charged >= 2,
           gates.known, gates.remaining = bucket, Fits(gates, RemainingCost(v), Reserve)
    PROVE  Covers(v)
  <1>1. Reserve \in Int /\ PagesOf[v] \in Nat
    BY SweepConstants
  <1>2. RemainingCost(v) = (PagesOf[v] - 1) * 2
    BY TokenCostType DEF RemainingCost
  <1>3. bucket - (PagesOf[v] - 1) * 2 >= Reserve
    BY <1>2 DEF Fits
  <1> QED
    BY <1>1, <1>3 DEF Covers

(* An error says nothing about the reserve. *)
LEMMA ReturnReserve ==
    ASSUME NEW e, Return(e),
           e = "nil" => first \in Versions /\ Covers(first),
           UNCHANGED <<bucket, charged>>
    PROVE  ReserveInv'
  <1>1. /\ phase' = "closed" /\ at' = "off"
        /\ err' = IF e = "nil" THEN {} ELSE {e}
        /\ meta' = IF e = "nil" THEN first ELSE 0
    BY DEF Return
  <1>2. FirstKnown'
    BY <1>1 DEF FirstKnown
  <1>3. CASE e = "nil"
    BY <1>1, <1>2, <1>3 DEF ReserveInv, Covers
  <1>4. CASE e # "nil"
    BY <1>1, <1>2, <1>4 DEF ReserveInv
  <1> QED
    BY <1>3, <1>4

(* Sweep's own steps: the check after page 1 is what the rest relies on. *)
LEMMA MainReserve ==
    ASSUME Inv, ReserveInv, MainStep
    PROVE  ReserveInv'
  <1>0. /\ fetch \in [Pages -> Fetches] /\ bucket \in Nat /\ charged \in Nat
        /\ phase = "open" /\ 1 \in Pages /\ UNCHANGED <<bucket, charged, gates>>
    BY SweepConstants
       DEF Inv, TypeInv, ControlInv, MainStep, CheckFloor, FirstFailed, FirstFetched,
           SendFirst, ReturnSingle, Wait, esiVars
  <1>1. ASSUME NEW e, Return(e), e # "nil" PROVE ReserveInv'
    BY <1>0, <1>1, ReturnReserve
  <1>2. CASE CheckFloor
    <2>1. CASE Return("deferred")
      BY <1>1, <2>1
    <2>2. CASE /\ at' = "first" /\ fetch' = [fetch EXCEPT ![1] = Asking]
               /\ UNCHANGED streamVars
      <3>1. fetch'[1].stage = "ask" /\ phase' = "open"
        BY <1>0, <2>2, IdleType DEF streamVars
      <3> QED
        BY <2>2, <3>1 DEF ReserveInv, FirstKnown
    <2> QED
      BY <1>2, <2>1, <2>2 DEF CheckFloor
  <1>3. CASE FirstFailed
    <2>1. fetch[1].err \in SweepErrors /\ Return(fetch[1].err)
      BY <1>0, <1>3 DEF FirstFailed, Inv, PageInv, PageOK
    <2> QED
      BY <1>1, <2>1 DEF SweepErrors
  <1>4. CASE FirstFetched
    <2>1. /\ at = "first" /\ fetch[1].stage = "got" /\ first' = fetch[1].ver
      BY <1>4 DEF FirstFetched
    <2>2. fetch[1].ver \in Versions
      BY <1>0, <2>1, SweepConstants DEF Inv, PageInv, PageOK, Fetches, Versions
    <2>3. CASE Return("deferred")
      BY <1>1, <2>3
    <2>4. CASE /\ Fits(gates, RemainingCost(first'), Reserve)
               /\ at' = "send" /\ UNCHANGED streamVars
      <3>1. gates.known /\ gates.remaining = bucket /\ charged >= 2
        BY <2>1 DEF ReserveInv, FirstKnown
      <3>2. Covers(fetch[1].ver)
        BY <1>0, <2>1, <2>2, <2>4, <3>1, FitsCovers
      <3>3. Covers(first)'
        BY <1>0, <2>1, <3>2 DEF Covers
      <3> QED
        BY <1>0, <2>4, <3>3 DEF ReserveInv, FirstKnown, streamVars
    <2> QED
      BY <1>4, <2>3, <2>4 DEF FirstFetched
  <1>5. CASE SendFirst
    <2>1. CASE Return("canceled")
      BY <1>1, <2>1
    <2>2. CASE /\ Put(Batch(first, 1))
               /\ at' = IF PagesOf[first] = 1 THEN "return" ELSE "group"
      <3>1. Covers(first)' /\ phase' = "open"
        BY <1>0, <1>5, <2>2 DEF SendFirst, Put, ReserveInv, Covers
      <3> QED
        BY <2>2, <3>1 DEF ReserveInv, FirstKnown
    <2> QED
      BY <1>5, <2>1, <2>2 DEF SendFirst
  <1>6. CASE ReturnSingle \/ Wait
    <2>1. at \in {"return", "group"} /\ \E e : Return(e)
      BY <1>6 DEF ReturnSingle, Wait
    <2>2. first \in Versions /\ Covers(first)
      BY <2>1 DEF Inv, ControlInv, ReserveInv
    <2> QED
      BY <1>0, <2>1, <2>2, ReturnReserve
  <1> QED
    BY <1>2, <1>3, <1>4, <1>5, <1>6 DEF MainStep

(* The reserve survives every sweep that succeeds: what is left, with the    *)
(* requests that had to be repeated added back, is at least the reserve. The *)
(* budget check runs on a number no other request can have changed since ESI *)
(* sent it.                                                                  *)
THEOREM ReserveSurvives == Spec => []ReserveKept
  <1>1. Init => ReserveInv
    BY DEF Init, StreamInit, ReserveInv, FirstKnown
  <1>2. ASSUME Inv, ReserveInv, [Next]_vars PROVE ReserveInv'
    <2>0. fetch \in [Pages -> Fetches] /\ gates \in GateType(Nat) /\ 1 \in Pages
      BY <1>2, SweepConstants DEF Inv, TypeInv
    <2>1. CASE Begin
      BY <2>1 DEF Begin, Open, ReserveInv, FirstKnown
    <2>2. CASE MainStep
      BY <1>2, <2>2, MainReserve
    <2>3. ASSUME NEW p \in Pages, RequestStep(p) PROVE ReserveInv'
      BY <1>2, <2>3, RequestReserve
    <2>4. ASSUME NEW p \in Pages, WorkerFailed(p) \/ WorkerCompares(p) \/ WorkerSends(p)
          PROVE  ReserveInv'
      <3>1. at = "group" /\ at' = "group" /\ UNCHANGED <<first, gates, bucket, charged>>
        BY <2>4 DEF WorkerFailed, WorkerCompares, WorkerSends, Worker, esiVars
      <3>2. phase' = phase /\ phase = "open"
        BY <1>2, <2>4, <3>1
           DEF WorkerFailed, WorkerCompares, WorkerSends, Put, streamVars, Inv, ControlInv
      <3> QED
        BY <1>2, <3>1, <3>2 DEF ReserveInv, FirstKnown, Covers
    <2>5. CASE Consume \/ ContextEnds \/ UpstreamRolls \/ UNCHANGED vars
      <3>1. UNCHANGED <<at, first, phase, err, meta, bucket, charged, fetch, gates>>
        BY <2>5 DEF Consume, ContextEnds, UpstreamRolls, Take, Cancel, Roll, vars, fetchVars,
                    esiVars, streamVars
      <3> QED
        BY <1>2, <3>1, ReserveFrame
    <2>6. CASE TimePasses
      <3>1. UNCHANGED <<at, first, phase, err, meta, bucket, charged, fetch>>
        BY <2>6 DEF TimePasses, fetchVars, streamVars
      <3>2. gates'.known = gates.known /\ gates'.remaining = gates.remaining
        BY <2>0, <2>6, TickType DEF TimePasses
      <3> QED
        BY <1>2, <3>1, <3>2, ReserveFrame
    <2> QED
      BY <1>2, <2>1, <2>2, <2>3, <2>4, <2>5, <2>6 DEF Next, PageStep, RequestStep
  <1>3. Inv /\ ReserveInv => ReserveKept
    <2> SUFFICES ASSUME Inv, ReserveInv, phase = "closed", err = {}
                 PROVE  bucket + (charged - PagesOf[meta] * TokenCost(200)) >= Reserve
      BY DEF ReserveKept
    <2>1. meta \in Versions /\ bucket + charged >= Reserve + 2 * PagesOf[meta]
      BY DEF ReserveInv, Covers
    <2>2. PagesOf[meta] \in Nat /\ Reserve \in Int /\ bucket \in Nat /\ charged \in Nat
      BY <2>1, SweepConstants DEF Inv, TypeInv
    <2>3. TokenCost(200) = 2
      BY TokenCostType
    <2> QED
      BY <2>1, <2>2, <2>3
  <1> QED
    BY <1>1, <1>2, <1>3, SweepInvariant, PTL DEF Spec

-----------------------------------------------------------------------------
(* Retries and the gates *)

(* fetchPage is about to ask again. *)
Again(f) == f.stage = "backoff" \/ (f.stage = "ask" /\ f.attempt > 1)

(* Another page's response has armed the gates and is not through yet: it is *)
(* still to be judged, or its failure is on its way to the errgroup.         *)
Unsettled == {"returned", "failed"}
FailureElsewhere(p) == \E q \in Pages \ {p} : fetch[q].stage \in Unsettled

(* retriesBlocked was asked before the backoff; since then only another      *)
(* page's response can have armed the gates, and as long as they are armed   *)
(* that page fails when it is judged, which ends this page too.              *)
RetryInv ==
    \A p \in Pages :
        Again(fetch[p]) /\ RetriesBlocked(gates, LimitFloor) => Done(p) \/ FailureElsewhere(p)

(* A step of page q that arms nothing leaves the other pages as they were. *)
LEMMA RetryFrame ==
    ASSUME RetryInv, NEW q \in Pages,
           fetch[q].stage \in Unsettled /\ RetriesBlocked(gates', LimitFloor)
               => fetch'[q].stage \in Unsettled,
           \A p \in Pages \ {q} : fetch'[p] = fetch[p],
           RetriesBlocked(gates', LimitFloor) => RetriesBlocked(gates, LimitFloor),
           \A p \in Pages : Done(p) => Done(p)',
           Again(fetch'[q]) /\ RetriesBlocked(gates', LimitFloor) => Again(fetch[q])
    PROVE  RetryInv'
  <1> SUFFICES ASSUME NEW p \in Pages, Again(fetch'[p]), RetriesBlocked(gates', LimitFloor)
               PROVE  Done(p)' \/ FailureElsewhere(p)'
    BY DEF RetryInv
  <1>1. Again(fetch[p]) /\ RetriesBlocked(gates, LimitFloor)
    <2>1. CASE p = q
      BY <2>1
    <2>2. CASE p # q
      BY <2>2
    <2> QED
      BY <2>1, <2>2
  <1>2. CASE Done(p)
    BY <1>2
  <1>3. CASE FailureElsewhere(p)
    <2>1. PICK w \in Pages \ {p} : fetch[w].stage \in Unsettled
      BY <1>3 DEF FailureElsewhere
    <2>2. fetch'[w].stage \in Unsettled
      <3>1. CASE w = q
        BY <2>1, <3>1
      <3>2. CASE w # q
        BY <2>1, <3>2
      <3> QED
        BY <3>1, <3>2
    <2> QED
      BY <2>1, <2>2 DEF FailureElsewhere
  <1> QED
    BY <1>1, <1>2, <1>3 DEF RetryInv

(* No page is asked for again: nothing to show. *)
LEMMA NobodyAgain ==
    ASSUME \A p \in Pages : ~Again(fetch'[p])
    PROVE  RetryInv'
  BY DEF RetryInv

(* What a received response does to the gates' verdict on retries. *)
LEMMA ReceiveVerdict ==
    ASSUME TypeInv, NEW p \in Pages, fetch[p].resp.status = 200,
           RetriesBlocked([Observe(gates, fetch[p].resp) EXCEPT !.blockedFor = 0], LimitFloor)
    PROVE  RetriesBlocked(gates, LimitFloor)
  <1> DEFINE h == Observe(gates, fetch[p].resp)
             k == [h EXCEPT !.blockedFor = 0]
  <1>1. fetch[p].resp \in ResponseType(Nat) /\ gates \in GateType(Nat)
    BY DEF TypeInv, Fetches
  <1>2. /\ h \in GateType(Nat) /\ h.pausedFor = 0 /\ h.limitKnown = gates.limitKnown
        /\ h.limitRemain = gates.limitRemain
    BY <1>1, ObserveType, ObserveOk
  <1> HIDE DEF h
  <1>3. /\ k.pausedFor = 0 /\ k.limitKnown = gates.limitKnown
        /\ k.limitRemain = gates.limitRemain
    BY <1>2 DEF GateType
  <1>4. RetriesBlocked(k, LimitFloor)
    BY DEF h
  <1> HIDE DEF k
  <1> QED
    BY <1>3, <1>4 DEF RetriesBlocked, Healthy

(* The requests respect the gates. *)
LEMMA RequestRetry ==
    ASSUME Inv, RetryInv, NEW q \in Pages, RequestStep(q)
    PROVE  RetryInv'
  <1>0. /\ fetch \in [Pages -> Fetches] /\ PageInv /\ TypeInv /\ ver \in Versions
        /\ bucket \in Nat /\ charged \in Nat /\ PageOK(q, fetch[q])
    BY DEF Inv, TypeInv, PageInv
  <1>1. /\ \A p \in Pages \ {q} : fetch'[p] = fetch[p]
        /\ UNCHANGED <<cancel, groupErr>>
    BY <1>0, RequestShape DEF streamVars
  <1>2. \A p \in Pages : Done(p)' = Done(p)
    BY <1>1 DEF Done
  <1>3. CASE Ask(q) \/ Serve(q) \/ GiveUp(q)
    <2>1. UNCHANGED gates /\ fetch[q].stage \notin Unsettled
      BY <1>3 DEF Ask, Serve, GiveUp, NothingReturned, esiVars, Unsettled
    <2>2. fetch'[q].stage \in {"wire", "failed", "answered", "returned"}
      <3>1. CASE Ask(q)
        BY <1>0, <3>1, AskEffect DEF Becomes
      <3>2. CASE Serve(q)
        BY <1>0, <3>2, ServeEffect DEF Becomes
      <3>3. CASE GiveUp(q)
        BY <1>0, <3>3, GiveUpEffect DEF Becomes
      <3> QED
        BY <1>3, <3>1, <3>2, <3>3
    <2>3. ~Again(fetch'[q])
      BY <2>2 DEF Again
    <2> QED
      BY <1>1, <1>2, <2>1, <2>3, RetryFrame
  <1>4. CASE Judge(q)
    <2>1. UNCHANGED gates
      BY <1>4 DEF Judge, esiVars
    <2>2. fetch'[q].stage = IF MayRetry(q) THEN "backoff" ELSE "failed"
      BY <1>0, <1>4, JudgeEffect DEF Becomes
    <2>3. RetriesBlocked(gates', LimitFloor) => fetch'[q].stage = "failed"
      BY <2>1, <2>2 DEF MayRetry
    <2>4. /\ RetriesBlocked(gates', LimitFloor) => fetch'[q].stage \in Unsettled
          /\ ~(Again(fetch'[q]) /\ RetriesBlocked(gates', LimitFloor))
      BY <2>3 DEF Again, Unsettled
    <2> QED
      BY <1>1, <1>2, <2>1, <2>4, RetryFrame
  <1>5. CASE Backoff(q)
    <2>1. UNCHANGED gates /\ Again(fetch[q]) /\ fetch[q].stage \notin Unsettled
      BY <1>5 DEF Backoff, Again, esiVars, Unsettled
    <2> QED
      BY <1>1, <1>2, <2>1, RetryFrame
  <1>6. CASE Receive(q)
    <2> DEFINE r == fetch[q].resp
               g == [Observe(gates, r) EXCEPT !.blockedFor = 0]
    <2>1. gates' = g /\ fetch[q].stage \notin Unsettled
      BY <1>0, <1>6, ReceiveEffect DEF Unsettled
    <2>2. CASE fetch[q].ver # 0
      <3>1. r.status = 200 /\ fetch'[q].stage = "got"
        BY <1>0, <1>6, <2>2, ReceiveEffect DEF Becomes
      <3>2. RetriesBlocked(g, LimitFloor) => RetriesBlocked(gates, LimitFloor)
        BY <1>0, <3>1, ReceiveVerdict
      <3> HIDE DEF g
      <3>3. ~Again(fetch'[q])
        BY <3>1 DEF Again
      <3> QED
        BY <1>1, <1>2, <2>1, <3>2, <3>3, RetryFrame
    <2>3. CASE fetch[q].ver = 0
      <3>1. fetch'[q].stage = "returned"
        BY <1>0, <1>6, <2>3, ReceiveEffect DEF Becomes
      <3>2. ASSUME NEW p \in Pages, Again(fetch'[p]) PROVE FailureElsewhere(p)'
        <4>1. p # q
          BY <3>1, <3>2 DEF Again
        <4> QED
          BY <3>1, <4>1 DEF FailureElsewhere, Unsettled
      <3> QED
        BY <3>2 DEF RetryInv
    <2> QED
      BY <2>2, <2>3
  <1> QED
    BY <1>3, <1>4, <1>5, <1>6 DEF RequestStep

(* A goroutine that ends takes the others with it, or fails nothing. *)
LEMMA WorkerRetry ==
    ASSUME Inv, RetryInv, NEW q \in Pages,
           WorkerFailed(q) \/ WorkerCompares(q) \/ WorkerSends(q)
    PROVE  RetryInv'
  <1>0. /\ fetch \in [Pages -> Fetches] /\ PageOK(q, fetch[q]) /\ at = "group"
        /\ fetch[1] = Idle /\ Idle.stage = "off" /\ UNCHANGED gates
        /\ groupErr \in SweepErrors \cup {"nil"}
    BY DEF Inv, TypeInv, PageInv, ControlInv, WorkerFailed, WorkerCompares, WorkerSends,
           Worker, Idle, esiVars
  <1>1. CASE WorkerFailed(q)
    <2>1. groupErr' # "nil" /\ fetch' = [fetch EXCEPT ![q] = Idle]
      BY <1>0, <1>1 DEF WorkerFailed, GroupFails, PageOK, SweepErrors
    <2>2. ASSUME NEW p \in Pages, Again(fetch'[p]) PROVE Done(p)'
      <3>1. fetch'[p] # Idle
        BY <1>0, <2>2 DEF Again
      <3>2. p # 1
        BY <1>0, <2>1, <3>1
      <3>3. p > 1
        BY <3>2 DEF Pages
      <3> QED
        BY <2>1, <3>3 DEF Done
    <2> QED
      BY <2>2 DEF RetryInv
  <1>2. CASE WorkerCompares(q)
    <2>1. /\ fetch[q].stage = "got" /\ UNCHANGED <<cancel, groupErr>>
          /\ fetch' = [fetch EXCEPT ![q].stage = "send"]
      BY <1>2 DEF WorkerCompares, streamVars
    <2>2. Becomes(fetch, fetch', q, "send", fetch[q].attempt, fetch[q].ver, fetch[q].resp,
                  fetch[q].err)
      BY <1>0, <2>1, SetStage DEF Stages
    <2>3. ~Again(fetch'[q]) /\ \A p \in Pages \ {q} : fetch'[p] = fetch[p]
      BY <2>2 DEF Becomes, Again
    <2>4. \A p \in Pages : Done(p) => Done(p)'
      BY <2>1 DEF Done
    <2> QED
      BY <1>0, <2>1, <2>3, <2>4, RetryFrame DEF Unsettled
  <1>3. CASE WorkerSends(q)
    <2>1. /\ fetch[q].stage = "send" /\ UNCHANGED cancel
          /\ fetch' = [fetch EXCEPT ![q] = Idle]
          /\ groupErr # "nil" => groupErr' # "nil"
      BY <1>3 DEF WorkerSends, Put, GroupFails, streamVars
    <2>2. fetch'[q] = Idle /\ \A p \in Pages \ {q} : fetch'[p] = fetch[p]
      BY <1>0, <2>1, IdleEffect
    <2>3. ~Again(fetch'[q])
      BY <1>0, <2>2 DEF Again
    <2>4. \A p \in Pages : Done(p) => Done(p)'
      BY <2>1 DEF Done
    <2> QED
      BY <1>0, <2>1, <2>2, <2>3, <2>4, RetryFrame DEF Unsettled
  <1> QED
    BY <1>1, <1>2, <1>3

(* The steps of Sweep itself and of its surroundings. *)
LEMMA OtherRetry ==
    ASSUME Inv, RetryInv,
           \/ Begin \/ MainStep
           \/ Consume \/ ContextEnds \/ UpstreamRolls \/ TimePasses \/ UNCHANGED vars
    PROVE  RetryInv'
  <1>0. /\ fetch \in [Pages -> Fetches] /\ gates \in GateType(Nat) /\ 1 \in Pages
        /\ ~Again(Idle) /\ ~Again(Asking)
    BY IdleType, SweepConstants DEF Inv, TypeInv, Again, Idle
  <1>1. CASE UNCHANGED <<fetch, gates, groupErr, cancel>>
    BY <1>1 DEF RetryInv, Done, FailureElsewhere
  <1>2. CASE Begin
    <2>1. \A p \in Pages : fetch'[p] = Idle
      BY <1>2 DEF Begin
    <2> QED
      BY <1>0, <2>1, NobodyAgain
  <1>3. CASE CheckFloor
    <2>1. CASE UNCHANGED fetch /\ Return("deferred")
      BY <1>1, <1>3, <2>1 DEF CheckFloor, Return, esiVars
    <2>2. CASE fetch' = [fetch EXCEPT ![1] = Asking]
      <3>1. \A p \in Pages : fetch'[p] = Asking \/ fetch'[p] = Idle
        BY <1>0, <1>3, <2>2 DEF CheckFloor, Inv, ControlInv, OnlyFirst
      <3> QED
        BY <1>0, <3>1, NobodyAgain
    <2> QED
      BY <1>3, <2>1, <2>2 DEF CheckFloor
  <1>4. CASE SendFirst
    <2>1. CASE UNCHANGED fetch /\ Return("canceled")
      BY <1>1, <1>4, <2>1 DEF SendFirst, Return, esiVars
    <2>2. CASE fetch' = [p \in Pages |-> IF p \in 2..PagesOf[first] THEN Asking ELSE Idle]
      <3>1. \A p \in Pages : fetch'[p] = Asking \/ fetch'[p] = Idle
        BY <2>2
      <3> QED
        BY <1>0, <3>1, NobodyAgain
    <2> QED
      BY <1>4, <2>1, <2>2 DEF SendFirst
  <1>5. CASE FirstFailed \/ FirstFetched \/ ReturnSingle \/ Wait
    BY <1>1, <1>5 DEF FirstFailed, FirstFetched, ReturnSingle, Wait, Return, esiVars,
                      streamVars
  <1>6. CASE Consume \/ UpstreamRolls \/ UNCHANGED vars
    BY <1>1, <1>6 DEF Consume, UpstreamRolls, Take, Roll, vars, fetchVars, esiVars, streamVars
  <1>7. CASE ContextEnds
    BY <1>7 DEF ContextEnds, Cancel, RetryInv, Done
  <1>8. CASE TimePasses
    <2>1. gates' = Tick(gates) /\ UNCHANGED <<fetch, groupErr, cancel>>
      BY <1>8 DEF TimePasses, fetchVars, streamVars
    <2>2. /\ gates'.pausedFor <= gates.pausedFor
          /\ gates'.limitKnown = gates.limitKnown /\ gates'.limitRemain = gates.limitRemain
          /\ gates' \in GateType(Nat)
      BY <1>0, <2>1, TickType
    <2>3. gates.pausedFor \in Nat /\ gates'.pausedFor \in Nat
      BY <1>0, <2>2 DEF GateType
    <2>4. RetriesBlocked(gates', LimitFloor) => RetriesBlocked(gates, LimitFloor)
      BY <2>2, <2>3 DEF RetriesBlocked, Healthy
    <2> QED
      BY <2>1, <2>4 DEF RetryInv, Done, FailureElsewhere
  <1> QED
    BY <1>2, <1>3, <1>4, <1>5, <1>6, <1>7, <1>8 DEF MainStep

(* Only Client.get puts a request on the wire, and only under a live context. *)
LEMMA OnlyAskSends ==
    ASSUME Inv, [Next]_vars, NEW p \in Pages,
           fetch[p].stage = "ask", fetch'[p].stage = "wire"
    PROVE  ~Done(p)
  <1>0. /\ fetch \in [Pages -> Fetches] /\ TypeInv /\ PageInv /\ Idle.stage = "off"
        /\ Asking.stage = "ask" /\ fetch' # fetch /\ 1 \in Pages
    BY IdleType, SweepConstants DEF Inv, TypeInv, Idle
  <1>1. CASE Begin
    BY <1>0, <1>1 DEF Begin
  <1>2. CASE MainStep
    <2>1. \/ fetch' = [fetch EXCEPT ![1] = Asking]
          \/ fetch' = [q \in Pages |-> IF q \in 2..PagesOf[first] THEN Asking ELSE Idle]
      BY <1>0, <1>2 DEF MainStep, CheckFloor, FirstFailed, FirstFetched, SendFirst,
                        ReturnSingle, Wait
    <2> QED
      BY <1>0, <2>1
  <1>3. ASSUME NEW q \in Pages, RequestStep(q) PROVE ~Done(p)
    <2>1. p = q
      BY <1>0, <1>3, RequestShape
    <2>2. Ask(p) \/ Serve(p) \/ Receive(p) \/ GiveUp(p) \/ Judge(p) \/ Backoff(p)
      BY <1>3, <2>1 DEF RequestStep
    <2>3. Ask(p)
      BY <2>2 DEF Serve, Receive, GiveUp, NothingReturned, Judge, Backoff
    <2> QED
      BY <1>0, <2>3, AskEffect DEF Becomes
  <1>4. ASSUME NEW q \in Pages, WorkerFailed(q) \/ WorkerCompares(q) \/ WorkerSends(q)
        PROVE  ~Done(p)
    <2>1. /\ fetch[q].stage \in {"failed", "got", "send"}
          /\ \/ fetch' = [fetch EXCEPT ![q] = Idle]
             \/ fetch' = [fetch EXCEPT ![q].stage = "send"]
      BY <1>4 DEF WorkerFailed, WorkerCompares, WorkerSends
    <2>2. p # q
      BY <2>1
    <2>3. fetch'[p] = fetch[p]
      BY <1>0, <2>1, <2>2
    <2> QED
      BY <2>3
  <1>5. CASE Consume \/ ContextEnds \/ UpstreamRolls \/ TimePasses \/ UNCHANGED vars
    BY <1>0, <1>5 DEF Consume, ContextEnds, UpstreamRolls, TimePasses, vars, fetchVars
  <1> QED
    BY <1>1, <1>2, <1>3, <1>4, <1>5 DEF Next, PageStep, RequestStep

(* Retries respect the gates, however many pages are in flight: a page is    *)
(* asked for again while retriesBlocked only if another page, whose response *)
(* came since, is still to be judged or has failed without having reached    *)
(* the errgroup.  That the gates were asked before the backoff and not after *)
(* it costs no more than that.                                               *)
THEOREM RetriesRespectGates == Spec => RetryRespectsGates
  <1>1. Init => RetryInv
    BY DEF Init, RetryInv, Again, Idle
  <1>2. Inv /\ RetryInv /\ [Next]_vars => RetryInv'
    BY RequestRetry, WorkerRetry, OtherRetry DEF Next, PageStep, RequestStep
  <1>3. Inv /\ RetryInv /\ [Next]_vars =>
          [\A p \in Pages :
              /\ fetch[p].attempt > 1 /\ fetch[p].stage = "ask" /\ fetch'[p].stage = "wire"
              /\ RetriesBlocked(gates, LimitFloor)
              => \E q \in Pages \ {p} : fetch[q].stage \in {"returned", "failed"}]_vars
    <2> SUFFICES ASSUME Inv, RetryInv, [Next]_vars, NEW p \in Pages,
                        fetch[p].attempt > 1, fetch[p].stage = "ask",
                        fetch'[p].stage = "wire", RetriesBlocked(gates, LimitFloor)
                 PROVE  \E q \in Pages \ {p} : fetch[q].stage \in {"returned", "failed"}
      OBVIOUS
    <2>1. ~Done(p)
      BY OnlyAskSends
    <2> QED
      BY <2>1 DEF RetryInv, Again, FailureElsewhere, Unsettled
  <1> QED
    BY <1>1, <1>2, <1>3, SweepInvariant, PTL DEF Spec, RetryRespectsGates

=============================================================================
