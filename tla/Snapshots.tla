----------------------------- MODULE Snapshots -----------------------------
(* The upstream order book of one region.  ESI regenerates a region's book   *)
(* as a whole, so a book is a snapshot: a version and its pages.  An order   *)
(* is never told apart from the page that carries it, so the unit of data is *)
(* the batch: the orders of one page of one version.                         *)
EXTENDS Naturals, FiniteSets

CONSTANTS
    MaxVersion,  \* bound: how many snapshots the upstream ever generates
    PagesOf      \* PagesOf[v] is the X-Pages header of version v

Versions == 1..MaxVersion

ASSUME SnapshotAssumption ==
    /\ MaxVersion \in Nat \ {0}
    /\ PagesOf \in [Versions -> Nat \ {0}]

(* The orders of page p of version v: what one OrdersPage call returns. *)
Batch(v, p) == [ver |-> v, page |-> p]

(* The complete page set of version v. *)
PageSet(v) == {Batch(v, p) : p \in 1..PagesOf[v]}

Batches == UNION {PageSet(v) : v \in Versions}

=============================================================================
