----------------------------- MODULE PageStream -----------------------------
(* What a sweep promises the cycle that consumes it: batches arrive on a     *)
(* bounded channel, each at most once; the channel is closed before Sweep    *)
(* returns; and a nil error means that what was sent is exactly one complete *)
(* snapshot, no older than the upstream's snapshot when the sweep began.     *)
EXTENDS Snapshots

CONSTANT
    ChanCap      \* capacity of the channel between Sweep and CopyOrders

ASSUME ChanAssumption == ChanCap \in Nat \ {0}

VARIABLES
    ver,     \* the snapshot the upstream serves now
    phase,   \* "idle": no sweep yet, "open": sweeping, "closed": returned
    floor,   \* the upstream's snapshot when the sweep began
    out,     \* batches in the channel
    sent,    \* batches ever put into the channel by this sweep
    meta,    \* the snapshot SweepMeta describes, 0 when the sweep failed
    count,   \* SweepMeta.OrderCount, 0 when the sweep failed
    err,     \* what the returned error is; {} is nil
    cancel   \* the sweep's context is done

streamVars == <<ver, phase, floor, out, sent, meta, count, err, cancel>>

(* The errors Sweep returns, as far as anyone tells them apart. *)
SweepErrors ==
    {"deferred", "inconsistent", "errorlimited", "http", "transport", "canceled"}

StreamInit ==
    /\ ver \in Versions
    /\ phase = "idle" /\ floor = 1
    /\ out = {} /\ sent = {}
    /\ meta = 0 /\ count = 0 /\ err = {}
    /\ cancel = FALSE

(* Run creates the channel and starts Sweep; its context may be done already. *)
Open(done) ==
    /\ phase \in {"idle", "closed"}
    /\ phase' = "open" /\ floor' = ver
    /\ out' = {} /\ sent' = {}
    /\ meta' = 0 /\ count' = 0 /\ err' = {}
    /\ cancel' = done
    /\ UNCHANGED ver

(* One page's orders go into the channel. *)
Emit(b) ==
    /\ phase = "open"
    /\ b \notin sent
    /\ floor <= b.ver /\ b.ver <= ver
    /\ Cardinality(out) < ChanCap
    /\ out' = out \cup {b} /\ sent' = sent \cup {b}
    /\ UNCHANGED <<ver, phase, floor, meta, count, err, cancel>>

(* The channel is closed and Sweep returns. *)
CloseOk(v) ==
    /\ phase = "open"
    /\ sent = PageSet(v)
    /\ phase' = "closed" /\ meta' = v /\ count' = Cardinality(sent)
    /\ UNCHANGED <<ver, floor, out, sent, err, cancel>>

CloseFailed(e) ==
    /\ phase = "open"
    /\ phase' = "closed" /\ err' = {e}
    /\ UNCHANGED <<ver, floor, out, sent, meta, count, cancel>>

Close == \/ \E v \in Versions : CloseOk(v)
         \/ \E e \in SweepErrors : CloseFailed(e)

(* The receiving end. *)
Take(b) ==
    /\ b \in out
    /\ out' = out \ {b}
    /\ UNCHANGED <<ver, phase, floor, sent, meta, count, err, cancel>>

Cancel ==
    /\ cancel' = TRUE
    /\ UNCHANGED <<ver, phase, floor, out, sent, meta, count, err>>

(* The upstream regenerates the book. *)
Roll ==
    /\ ver < MaxVersion
    /\ ver' = ver + 1
    /\ UNCHANGED <<phase, floor, out, sent, meta, count, err, cancel>>

StreamNext ==
    \/ \E done \in BOOLEAN : Open(done)
    \/ \E b \in Batches : Emit(b) \/ Take(b)
    \/ Close
    \/ Cancel
    \/ Roll

(* A sweep that is not held up by a full channel for ever ends; a cancelled *)
(* one ends even then.                                                       *)
Finish == (cancel \/ Cardinality(out) < ChanCap) /\ Close

StreamSafety == StreamInit /\ [][StreamNext]_streamVars

StreamSpec == StreamSafety /\ WF_streamVars(Finish)

=============================================================================
