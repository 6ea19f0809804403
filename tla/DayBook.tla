------------------------------ MODULE DayBook ------------------------------
(* What the history import promises the consumer of one day: the day's rows  *)
(* are always what reading some state of EVE Ref's day file from the first   *)
(* record would give, however many imports it took, and each import moves to *)
(* a later state of the file.                                                *)
EXTENDS Integers

CONSTANTS
    Days,      \* the days EVE Ref has files for
    Keys,      \* (region, type) pairs
    Regions,   \* the pairs whose region the service tracks
    MaxStamp   \* bound: http_last_modified values are 1..MaxStamp

VARIABLES
    file,      \* the records of each day file
    table      \* market.history: the stamp of each tracked row, 0 if absent

bookVars == <<file, table>>

Records == [key : Keys, stamp : 1..MaxStamp]

(* The most recently scraped copy of a pair in a set of records, 0 if none.  *)
NewestStamp(s, k) ==
    LET of == {r.stamp : r \in {x \in s : x.key = k}}
    IN  IF of = {} THEN 0 ELSE CHOOSE n \in of : \A o \in of : o <= n

WholeFile(s) == [k \in Regions |-> NewestStamp(s, k)]

Init ==
    /\ file = [d \in Days |-> {}]
    /\ table = [d \in Days |-> [k \in Regions |-> 0]]

(* EVE Ref appends a record; scrape times never go back within a file.       *)
Append(d) ==
    /\ \E r \in Records \ file[d] :
          /\ \A o \in file[d] : o.stamp <= r.stamp
          /\ file' = [file EXCEPT ![d] = @ \cup {r}]
    /\ UNCHANGED table

(* A day is imported as the whole file would be: cut is what had been        *)
(* appended when the file was read, so nothing after it is older.            *)
Import(d) ==
    /\ \E cut \in SUBSET file[d] :
          /\ \A r \in file[d] \ cut : \A o \in cut : o.stamp <= r.stamp
          /\ \A k \in Regions : table[d][k] <= NewestStamp(cut, k)
          /\ table' = [table EXCEPT ![d] = WholeFile(cut)]
    /\ UNCHANGED file

Next == \E d \in Days : Append(d) \/ Import(d)

Spec == Init /\ [][Next]_bookVars

=============================================================================
