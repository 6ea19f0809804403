----------------------------- MODULE RegionBook -----------------------------
(* What the service promises the consumer of one region: the live partition  *)
(* holds nothing, or exactly one complete upstream snapshot; it is replaced  *)
(* in one step and never by an older snapshot; and region_status announces   *)
(* only the snapshot that is live.                                           *)
EXTENDS Snapshots

VARIABLES
    live,  \* rows of the region's partition of market.orders
    told   \* the snapshot region_status last announced, 0 before the first

bookVars == <<live, told>>

Init == live = {} /\ told = 0

(* The apply transaction commits. *)
Publish(v) ==
    /\ \A b \in live : b.ver <= v
    /\ live' = PageSet(v)
    /\ UNCHANGED told

(* region_status is updated. *)
Announce(v) ==
    /\ live = PageSet(v)
    /\ told' = v
    /\ UNCHANGED live

Next == \E v \in Versions : Publish(v) \/ Announce(v)

Spec == Init /\ [][Next]_bookVars

=============================================================================
