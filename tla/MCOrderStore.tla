---------------------------- MODULE MCOrderStore ----------------------------
(* The order store for TLC: two orders; contents x and y differ in a column  *)
(* the checksum leaves out, z in one it hashes; a duplicated order.          *)
EXTENDS OrderStore

CONSTANTS o1, o2, x, y, z, r1, r2

MCOrders == {o1, o2}
MCContents == {x, y, z}
MCHashed(c) == IF c = y THEN x ELSE c
MCRow(o, c) == [id |-> o, body |-> c]
MCStagings == {<<MCRow(o1, x), MCRow(o2, x)>>, <<MCRow(o2, y), MCRow(o2, z)>>}

=============================================================================
