------------------------------ MODULE History ------------------------------
(* HistoryImporter: poll EVE Ref's index, load the bookkeeping, select the   *)
(* days that are missing or have grown, and import each with the rows newer  *)
(* than the watermark of its last import.  EVE Ref's files grow, the calendar*)
(* moves and faults strike between any two steps.  A record is known by its  *)
(* (region, type) pair and its scrape time, which fix the rest of the row.   *)
EXTENDS Config, FiniteSets

CONSTANTS
    Keys, Regions, MaxStamp,   \* as in DayBook
    FirstDay, LastDay,   \* bound: the days of the model
    Today0,        \* the day it is at first
    BackfillDays, RecentDays,  \* HistoryConfig
    YearLength,    \* days in a year
    MaxRecords(_), \* bound: records of each day file
    BadDays,       \* days whose file carries a record Parse rejects
    MaxFaults      \* bound: transient failures, crashes and shutdowns

ASSUME HistoryAssumption ==
    /\ Regions \subseteq Keys
    /\ {MaxStamp, BackfillDays, RecentDays, MaxFaults} \subseteq Nat
    /\ ValidHistory(BackfillDays, RecentDays)
    /\ {FirstDay, LastDay, Today0} \subseteq Int /\ YearLength \in Nat \ {0}
    /\ Today0 \in FirstDay..LastDay
    /\ BadDays \subseteq FirstDay..LastDay

Days == FirstDay..LastDay

VARIABLES
    file,      \* EVE Ref: the records of each day file
    today,     \* the UTC date
    faults,    \* failures so far
    \* the database
    years,     \* yearly partitions of market.history
    table,     \* market.history, as in DayBook
    day,       \* market.everef_day
    \* the service instance
    pc,        \* the next call of the importer
    stopping,  \* its context is done
    totals,    \* the index as polled, until the days are selected
    due,       \* the days still to import in this pass, each with the total
               \* polled and the watermark loaded for it
    parsed,    \* what Parse returned for the first of them
    firing     \* streak: the sites whose failure has been reported

dbVars == <<years, table, day>>
procVars == <<pc, stopping, totals, due, parsed, firing>>
worldVars == <<file, today, faults>>
vars == <<worldVars, dbVars, procVars>>

Book == INSTANCE DayBook WITH
    Days <- Days, Keys <- Keys, Regions <- Regions, MaxStamp <- MaxStamp,
    file <- file, table <- table

Records == [key : Keys, stamp : 1..MaxStamp]
Sites == {"totals", "bookkeeping", "import-day"}
Labels == {"down", "poll", "load", "open", "write", "sleep", "idle"}
EverefDay == [seen : BOOLEAN, total : Nat, watermark : 0..MaxStamp]
Tasks == [day : Days, total : Nat, after : 0..MaxStamp]
Unseen == [seen |-> FALSE, total |-> 0, watermark |-> 0]
NoTotals == [d \in Days |-> 0]
NoDays == [d \in Days |-> Unseen]
Nothing == [rows |-> {}, watermark |-> 0]

(* Every variable keeps its type. *)
TypeOK ==
    /\ file \in [Days -> SUBSET Records]
    /\ today \in Days /\ faults \in 0..MaxFaults
    /\ years \subseteq Int
    /\ table \in [Days -> [Regions -> 0..MaxStamp]]
    /\ day \in [Days -> EverefDay]
    /\ pc \in Labels /\ stopping \in BOOLEAN
    /\ totals \in [Days -> Nat]
    /\ due \subseteq Tasks
    /\ parsed \in [rows : SUBSET Records, watermark : 0..MaxStamp]
    /\ firing \subseteq Sites

Init ==
    /\ file = [d \in Days |-> {}] /\ today = Today0 /\ faults = 0
    /\ years = {} /\ day = NoDays
    /\ table = [d \in Days |-> [k \in Regions |-> 0]]
    /\ pc = "down" /\ stopping = FALSE
    /\ totals = NoTotals
    /\ due = {} /\ parsed = Nothing
    /\ firing = {}

-----------------------------------------------------------------------------
(* EVE Ref and the calendar *)

(* A scrape appends a record to a day that has begun.  The index counts the  *)
(* records of the file as it is.                                             *)
Grow(d) ==
    /\ d <= today /\ Cardinality(file[d]) < MaxRecords(d)
    /\ \E r \in Records \ file[d] :
          /\ \A o \in file[d] : o.stamp <= r.stamp
          /\ file' = [file EXCEPT ![d] = @ \cup {r}]
    /\ UNCHANGED <<today, faults, dbVars, procVars>>

NextDay ==
    /\ today < LastDay
    /\ today' = today + 1
    /\ UNCHANGED <<file, faults, dbVars, procVars>>

Fault == faults < MaxFaults /\ faults' = faults + 1

(* A call fails: one of the bounded faults, unless free makes it fail anyway.*)
Failure(free) == (free /\ UNCHANGED faults) \/ Fault

-----------------------------------------------------------------------------
(* The importer *)

Year(d) == d \div YearLength
Goto(l) == pc' = l

(* once returns: what it held is gone. *)
Return ==
    /\ Goto("idle")
    /\ totals' = NoTotals
    /\ due' = {}
    /\ parsed' = Nothing

(* A failure of a site is noted unless the context is done. *)
Note(site) == firing' = IF stopping THEN firing ELSE firing \cup {site}
Ends(site) == firing' = firing \ {site}

(* run: EnsureHistoryPartitions for the backfill window, then Run. *)
Start ==
    /\ pc = "down"
    /\ Goto("poll")
    /\ years' = years \cup Year(today - BackfillDays)..Year(today)
    /\ UNCHANGED <<worldVars, table, day, stopping, totals, due, parsed, firing>>

Tick ==
    /\ pc = "idle" /\ ~stopping
    /\ Goto("poll")
    /\ UNCHANGED <<worldVars, dbVars, stopping, totals, due, parsed, firing>>

(* Client.Totals *)
PollTotals ==
    /\ pc = "poll" /\ ~stopping
    /\ Goto("load")
    /\ totals' = [d \in Days |-> Cardinality(file[d])]
    /\ Ends("totals")
    /\ UNCHANGED <<worldVars, dbVars, stopping, due, parsed>>

PollFails ==
    /\ pc = "poll"
    /\ Failure(stopping)
    /\ Note("totals") /\ Return
    /\ UNCHANGED <<file, today, dbVars, stopping>>

(* selectDays: within the backfill window and not empty, a day is due when   *)
(* it was never imported, or is recent and the index reports more records    *)
(* than at its last import.                                                  *)
IsDue(d) ==
    /\ d >= today - BackfillDays
    /\ totals[d] > 0
    /\ \/ ~day[d].seen
       \/ d > today - RecentDays /\ totals[d] > day[d].total

LoadDays ==
    /\ pc = "load" /\ ~stopping
    /\ Goto("open")
    /\ due' =
          {[day |-> d, total |-> totals[d], after |-> day[d].watermark] :
              d \in {e \in Days : IsDue(e)}}
    /\ totals' = NoTotals
    /\ Ends("bookkeeping")
    /\ UNCHANGED <<worldVars, dbVars, stopping, parsed>>

LoadFails ==
    /\ pc = "load"
    /\ Failure(stopping)
    /\ Note("bookkeeping") /\ Return
    /\ UNCHANGED <<file, today, dbVars, stopping>>

(* The days come oldest first. *)
IsNext(t) == t \in due /\ \A o \in due : t.day <= o.day

\* mutant: a row must be newer than the watermark
KeptExclusive(f, after) == {r \in f : r.key \in Regions /\ (after = 0 \/ r.stamp > after)}

(* Parse: the rows of tracked regions scraped at or after the last import's  *)
(* watermark, and the newest stamp of the whole file.                        *)
Kept(f, after) == {r \in f : r.key \in Regions /\ (after = 0 \/ r.stamp >= after)}

\* mutant: the watermark is one past the newest record
WatermarkPast(f) ==
    IF f = {} THEN 0 ELSE (CHOOSE r \in f : \A o \in f : o.stamp <= r.stamp).stamp + 1

Watermark(f) ==
    IF f = {} THEN 0 ELSE (CHOOSE r \in f : \A o \in f : o.stamp <= r.stamp).stamp

Parse(f, after) == [rows |-> Kept(f, after), watermark |-> Watermark(f)]

(* OpenDay and Parse: the file as it is now, not as the index counted it. *)
OpenDay ==
    /\ pc = "open" /\ ~stopping
    /\ \E t \in due :
          /\ IsNext(t) /\ t.day \notin BadDays
          /\ parsed' = Parse(file[t.day], t.after)
    /\ Goto("write")
    /\ UNCHANGED <<worldVars, dbVars, stopping, totals, due, firing>>

(* The loop goes on with the next day. *)
Continue ==
    /\ Goto("open")
    /\ \E t \in due : IsNext(t) /\ due' = due \ {t}
    /\ parsed' = Nothing
    /\ UNCHANGED totals

(* A day file that is not there yet is no failure. *)
DayNotFound ==
    /\ pc = "open" /\ ~stopping /\ due # {}
    /\ Fault /\ Continue
    /\ UNCHANGED <<file, today, dbVars, stopping, firing>>

\* mutant: a failed day ends the pass
OpenFailsReturns ==
    /\ pc = "open" /\ ~stopping
    /\ \E t \in due : IsNext(t) /\ Failure(t.day \in BadDays)
    /\ Note("import-day") /\ Return
    /\ UNCHANGED <<file, today, dbVars, stopping>>

(* The download fails, or a record of the file does not parse.               *)
OpenFails ==
    /\ pc = "open" /\ ~stopping
    /\ \E t \in due : IsNext(t) /\ Failure(t.day \in BadDays)
    /\ Note("import-day") /\ Continue
    /\ UNCHANGED <<file, today, dbVars, stopping>>

\* mutant: partitions are only created at start
NoYear(d) == years

(* ensureHistoryYear commits by itself, before the import's transaction. *)
EnsureHistoryYear(d) == years \cup {Year(d)}

(* DISTINCT ON picks the newest copy of each pair; ON CONFLICT overwrites.   *)
Upsert(rows, old) ==
    [k \in Regions |->
        IF \E r \in rows : r.key = k THEN Book!NewestStamp(rows, k) ELSE old[k]]

(* The transaction of ImportHistory.  A row without a partition aborts it.   *)
ImportHistory(t) ==
    /\ years' = EnsureHistoryYear(t.day)
    /\ parsed.rows # {} => Year(t.day) \in years'
    /\ table' = [table EXCEPT ![t.day] = Upsert(parsed.rows, @)]
    /\ day' = [day EXCEPT ![t.day] =
          [seen |-> TRUE, total |-> t.total, watermark |-> parsed.watermark]]

WriteDay ==
    /\ pc = "write" /\ ~stopping
    /\ \E t \in due : IsNext(t) /\ ImportHistory(t)
    /\ Ends("import-day") /\ Goto("sleep")
    /\ UNCHANGED <<worldVars, stopping, totals, due, parsed>>

\* mutant: the day is deleted before the transaction that imports it
WriteFailsCleared ==
    /\ pc = "write" /\ Failure(stopping)
    /\ \E t \in due : /\ IsNext(t)
                      /\ table' = [table EXCEPT ![t.day] = [k \in Regions |-> 0]]
                      /\ day' = [day EXCEPT ![t.day] = Unseen]
    /\ Note("import-day") /\ Continue
    /\ UNCHANGED <<file, today, years, stopping>>

(* ensureHistoryYear may have worked, the transaction did not. *)
WriteFails ==
    /\ pc = "write"
    /\ \E t \in due :
          /\ IsNext(t)
          /\ years' \in {years, EnsureHistoryYear(t.day)}
          /\ Failure(\/ stopping
                     \/ parsed.rows # {} /\ Year(t.day) \notin EnsureHistoryYear(t.day))
    /\ Note("import-day") /\ Continue
    /\ UNCHANGED <<file, today, table, day, stopping>>

(* The transaction commits and its acknowledgement is lost. *)
CommitUnheard ==
    /\ pc = "write"
    /\ \E t \in due : IsNext(t) /\ ImportHistory(t)
    /\ Fault
    /\ Note("import-day") /\ Continue
    /\ UNCHANGED <<file, today, stopping>>

(* The pause between day files. *)
Space ==
    /\ pc = "sleep" /\ ~stopping
    /\ Continue
    /\ UNCHANGED <<worldVars, dbVars, stopping, firing>>

(* The pass is over, or is cut short by the shutdown. *)
EndPass ==
    /\ \/ pc = "open" /\ (due = {} \/ stopping)
       \/ pc = "sleep" /\ stopping
    /\ Return
    /\ UNCHANGED <<worldVars, dbVars, stopping, firing>>

(* SIGTERM cancels the context; Run returns once the pass has. *)
Shutdown ==
    /\ pc # "down" /\ ~stopping
    /\ Fault
    /\ stopping' = TRUE
    /\ UNCHANGED <<file, today, dbVars, pc, totals, due, parsed, firing>>

(* The memory is lost when the process exits or is killed. *)
Gone ==
    /\ pc' = "down"
    /\ stopping' = FALSE
    /\ totals' = NoTotals
    /\ due' = {}
    /\ parsed' = Nothing
    /\ firing' = {}

Exit ==
    /\ pc = "idle" /\ stopping
    /\ Gone
    /\ UNCHANGED <<worldVars, dbVars>>

Crash ==
    /\ pc # "down"
    /\ Fault /\ Gone
    /\ UNCHANGED <<file, today, dbVars>>

Step ==
    \/ Start \/ Tick \/ PollTotals \/ PollFails
    \/ LoadDays \/ LoadFails
    \/ OpenDay \/ DayNotFound \/ OpenFails
    \/ WriteDay \/ WriteFails \/ CommitUnheard
    \/ Space \/ EndPass \/ Exit

Next ==
    \/ \E d \in Days : Grow(d)
    \/ NextDay
    \/ Step \/ Shutdown \/ Crash

(* The importer's calls return and it is restarted when it is down: polls    *)
(* come on a ticker, requests time out, the container is restarted.          *)
Spec == Init /\ [][Next]_vars /\ WF_vars(Step)

-----------------------------------------------------------------------------
(* Properties *)

(* A row the table lacks is never out of reach: its scrape time is not below *)
(* the watermark the next import of the day filters with, and the recorded   *)
(* count is below what the index will report, so that a recent day is        *)
(* fetched again (selectDays, Filter.After, ImportHistory).                  *)
NothingSkipped ==
    \A d \in Days : day[d].seen =>
        \A r \in file[d] :
            r.key \in Regions /\ table[d][r.key] < r.stamp =>
                /\ day[d].watermark <= r.stamp
                /\ day[d].total < Cardinality(file[d])

(* Importing a growing file piece by piece, with crashes, failed commits and *)
(* lost acknowledgements in between, gives at every commit what one import   *)
(* of the whole file would give (Parse, ImportHistory).                      *)
ImportsWholeFiles == Book!Spec

(* A day that keeps within the recent window and whose file parses ends up   *)
(* complete, whatever failed on the way and whatever the days before it do   *)
(* (once, selectDays, ensureHistoryYear).                                    *)
Complete(d) == table[d] = Book!WholeFile(file[d])
RecentDaysCaughtUp ==
    \A d \in Days \ BadDays :
        []<>(file[d] = {} \/ d <= today - RecentDays \/ Complete(d))

(* A day inside the backfill window that EVE Ref has is imported in the end, *)
(* also one that is no longer recent.                                        *)
BackfillImported ==
    \A d \in Days \ BadDays :
        []<>(file[d] = {} \/ d < today - BackfillDays \/ day[d].seen)

=============================================================================
