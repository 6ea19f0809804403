------------------------------- MODULE Delta -------------------------------
(* The SQL of the order store over one region: deduplicate the staged rows,  *)
(* compute the delta against the live partition, apply it, compare           *)
(* checksums.  A table is a function from the order ids it holds to their    *)
(* contents; staging is a sequence, because an order can be staged twice.    *)
EXTENDS Sequences, Naturals

CONSTANTS
    Orders,     \* order ids
    Contents,   \* what the other columns of a row can hold
    Hashed(_)   \* Hashed(c): the price, volume_remain and issued columns of c

Empty == [o \in {} |-> o]
Row == [id : Orders, body : Contents]
Ids(stg) == {stg[i].id : i \in DOMAIN stg}

(* DISTINCT ON (order_id) keeps one copy of each order; nothing says which.  *)
Dedups(stg) ==
    {s \in [Ids(stg) -> Contents] :
        \A o \in Ids(stg) : \E i \in DOMAIN stg : stg[i] = [id |-> o, body |-> s[o]]}

(* The full outer join: op I, D and U. *)
Inserted(live, s) == DOMAIN s \ DOMAIN live
Deleted(live, s) == DOMAIN live \ DOMAIN s

(* Every column but the key is compared. *)
Updated(live, s) == {o \in DOMAIN s \cap DOMAIN live : live[o] # s[o]}

(* applySQL: one statement deletes, updates and inserts. *)
Applied(live, s) ==
    LET fresh == Inserted(live, s) \cup Updated(live, s)
    IN  [o \in (DOMAIN live \ Deleted(live, s)) \cup Inserted(live, s) |->
            IF o \in fresh THEN s[o] ELSE live[o]]

(* checksumOf: the row count and an order-independent sum of one hash per    *)
(* row, taken as collision-free.  The key and the hashed columns enter it.   *)
Checksum(t) == {<<o, Hashed(t[o])>> : o \in DOMAIN t}

=============================================================================
