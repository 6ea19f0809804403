# marketmanager: TLA+ models and proofs

marketmanager keeps a Postgres copy of the EVE Online regional order books. It
sweeps every page of a region from ESI, stages the pages, publishes the snapshot
in one transaction, and tells a consumer through `region_status`. Beside that it
imports EVE Ref's daily history files. This directory models the path from the
scheduler's decision to the consumer's read, the history import, the housekeeping,
and the life of the process from its first migration to its exit.

## Inventory

| Component | State it keeps | Operations | Who it talks to |
|---|---|---|---|
| Scheduler (`ingest/scheduler.go`, `streak.go`) | due time per region, keys that are firing | `Run`, `prime`, `pass`, `runRegion`, `canary`, `outage`, `probe` | calls Cycle one region at a time; reads the gates; reports to Sentry |
| Cycle (`ingest/cycle.go`) | nothing between runs | `Run`, `recordFailure`, `fail` | starts the sweep in a goroutine, joins it by a channel of 8 batches; calls the store |
| Sweep (`ingest/sweep.go`, `page.go`) | flags and counts of one sweep | `Sweep`, `fetchPage` | one goroutine per page, all through the ESI client; writes to the cycle's channel |
| ESI client and gates (`esi/*.go`) | last budget, last error limit, block and pause instants, 5xx counter | `get`, `Observe`, `Fits`, `BelowFloor`, `Block`, `BlockedFor`, `Healthy`, `PausedFor` | shared by scheduler, sweep and all page goroutines |
| Order store (`store/orders.go`, `status.go`) | staging table, partition, `region_status`, `ingest_log` | `CopyOrders`, `RegionRowCount`, `ApplyDelta`, `VerifyRegion`, `ResyncRegion`, `MarkRefreshed`, `MarkFailed`, `LogIngest`, `PruneIngestLog`, `AnalyzeParents` | called by cycle and maintenance; read by the consumer |
| History import (`ingest/history.go`, `store/history.go`, `everef/*`) | `market.history`, its yearly partitions, and per day the count and watermark of the last import (`everef_day`) | `Run`, `once`, `selectDays`, `importDay`, `Totals`, `OpenDay`, `Parse`, `ImportHistory`, `ensureHistoryYear` | EVE Ref's index and day files, store |
| Maintenance (`ingest/maintenance.go`) | failures already reported | `Run`, `prune`, `analyze` | store; shares the partitions' locks with the cycle and the consumers |
| Migrations and region objects (`store/store.go`, `regions.go`) | `schema_migrations`, run-time tables | `Migrate`, `EnsureRegionObjects`, `EnsureHistoryPartitions` | start-up; only `Migrate` holds the advisory lock |
| Process (`cmd/marketmanager`) | context, errgroup | `main`, `run`, `capturePanic`, HTTP shutdown, `/healthz` | starts and ends everything |
| Configuration (`config`) | none | `Load` | process |

What is hard: the sweep and the copy run concurrently and either may fail first;
each page is a goroutine with its own retries; the upstream may change snapshot
between two pages; every database call can fail, or commit and lose its answer;
the process can be stopped anywhere; three gates, fed by every response, decide
about requests that are made later; the scheduler must make progress out of every
combination of those gates and stay silent in most of them. A day file is counted,
downloaded and recorded at three different moments while it grows. A migration is
looked up in one transaction and applied in another while a second instance starts.
A resync wants the partition for itself while consumers and ANALYZE hold it.
`PROJECT.json` lists these hazards line by line with the property that watches each.

What makes each part correct: the cycle publishes whole snapshots, never older ones,
announces only what is live and leaves a trace of every run; the sweep hands over one
snapshot or an error and keeps the token reserve; the scheduler recovers, stays
silent while told to, and reports a run of failures once; the importer shows what a
whole file would give and puts no row out of reach; migrations are applied once and
in order and no start waits for ever; the store shows no half-written partition and
heals drift; the process dies as a whole.

## Modules

| Module | What it is |
|---|---|
| `Snapshots` | The upstream's order book: versions, pages, batches. |
| `RegionBook` | Abstract: what the consumer of a region is promised. |
| `PageStream` | Abstract: what a sweep promises the cycle. |
| `Cycle` | `Cycle.Run` and the store calls it makes, over `PageStream`. |
| `CycleCrash` | `Cycle` over a Postgres that crashes, recovers and loses the sessions. |
| `CycleProofs` | TLAPS: type correctness, the announced snapshot is live, an announcement matches the checksum, every cycle is recorded, `Cycle` implements `RegionBook`. |
| `Gates` | The three gates and what `Client.get` does to them, as operators. |
| `GatesProofs` | TLAPS: what a response and a tick do to the gates; lemmas for the next two. |
| `Sweep` | `Fetcher.Sweep` and `fetchPage` against ESI, over `Gates`; implements `PageStream`. |
| `SweepProofs` | TLAPS: type correctness, the sweep keeps `PageStream`'s promise, the reserve, every response is counted, retries and the gates. |
| `Scheduler` | `Scheduler.Run` over `Gates`; a cycle is its requests and its ending. |
| `SchedulerProofs` | TLAPS: type correctness, one run of failures is one report, no hot loop, silence in an outage. |
| `Config` | The range checks of `config.Load` that bound a constant of another module; its operators appear in the assumptions of `Sweep` and `History`. |
| `DayBook` | Abstract: what the consumer of a day of history is promised. |
| `History` | `HistoryImporter` with the EVE Ref client, `Parse` and `ImportHistory`; implements `DayBook`. |
| `HistoryProofs` | TLAPS: type correctness, nothing is skipped, `History` implements `DayBook`. |
| `Startup` | `main`, `run`, `Migrate`, the run-time tables, the errgroup and the exit, for several instances. |
| `StartupProofs` | TLAPS: type correctness, no migration twice, migrations in order. |
| `Delta` | The SQL of the order store as operators on tables: deduplication, delta, checksum. |
| `OrderStore` | One partition under Postgres' locks: consumers, apply, verification, resync, `Maintenance`. |
| `StoreProofs` | TLAPS: type correctness, the delta computes the snapshot, readers see whole snapshots and read them again. |
| `MCCycle`, `MCCycleCrash`, `MCSweep`, `MCScheduler`, `MCHistory`, `MCStartup`, `MCOrderStore` | Values of the structured constants for TLC. |

The composition is by contract. `Sweep` is shown to implement `PageStream`
(`StreamRefined`), `Cycle` uses `PageStream` in place of the sweep and is shown to
implement `RegionBook` (`BookRefined`); together a consumer sees whole snapshots,
each replaced in one step by one that is not older, and announced only once live.
`Cycle` takes an apply as one step on whole batches; `OrderStore` opens that step up
to rows, locks and open transactions, and `WholeSnapshots` is what justifies it.
`Startup` takes each worker as a goroutine that runs until its context ends; that it
then returns is `ShutdownEnds` of `Scheduler` and, for the importer, `Exit` of `History`.

### Correspondence

*Data.* An order is never told apart from the page that carried it: the unit is the
batch, one page of one version. `staging`, `live` and the channel are sets of
batches; `orders`, `count`, `copied` count batches where the code counts orders.

*Cycle.* `pc` names the next call of `Run`. A database call is one action with the
outcomes success, failure, and (for a write) failure after the commit. `Faults`
says which failures a run explores. `shutdown` is the parent context: while it is
done every database call fails. `Restart` is the process started again, killed or
not. `told` stands for `refreshed_at`/`last_modified`, `errs` for
`consecutive_errors`, `logged` for this cycle's `ingest_log` row. The drift guard hashes
five of thirteen columns: `Skew(b)` is a batch that is wrong in one of the other eight,
and `Hash` is what the guard sees of a table, so a skewed batch passes it.

*CycleCrash.* A crash ends every session. `lost` says that the session the next call is
given did not survive: `CallFails` is that call. The session of the copy is held and
always lost; one that lies in the pool is lost unless it has been idle for more than a
second, when pgxpool pings it and replaces it. The cycle starts from a loaded partition.

*Gates.* An instant in the code (`blockedUntil`, `pausedUntil`) is the time left
until it, in ticks, so no clock is in the state. `consecutive` saturates at the
threshold, above which it is no longer told apart.

*Sweep.* `fetch[p]` is one `fetchPage` with its attempt and the response it holds; a
request is on the wire, then handled and charged by ESI, then received, or given up
by the client before or after ESI handled it. `Receive` and `GiveUp` are `Client.get`, which
feeds the gates and returns; `Judge` is the rest of the attempt in `fetchPage`, which asks
the gates later, when other pages' responses may have moved them. `missed` is history: the
tokens charged for responses that were given up. The errgroup is `groupErr`: its first
error cancels the others' context. The instant a 420 blocks until is left out here: only
the scheduler reads it.

*Scheduler.* `due`, `wake` and the gates are ticks left. `prime`, `pass` and
`runRegion` are split at each call that takes time. A cycle is a series of requests
(at most `MaxRequests`), each feeding the gates, and an ending that what it met
allows: `fault` is a database error or an inconsistent page set. The probe is a request
for `Plex`, the global PLEX market, which is one of the ingested regions. The rate limiter
and the one-second ticker only add time, which may pass anywhere. `reported`,
`rested` and `tripped` are history.

*History.* A record is its (region, type) pair and its scrape time
(`http_last_modified`); prices and volumes follow from the two. `table[d][k]` is the
scrape time of the row stored for a pair. EVE Ref appends to a day's file with scrape
times that do not go back, and the index counts the file as it is when polled
(external, from how `selectDays` and `Filter.After` rely on it). `pc` names the next
call of `once`; `due` holds the selected days with the count polled and the watermark
loaded for each, both of which are old when they are used. `years` are the partitions,
which `ensureHistoryYear` commits on its own. `stopping` is the cancelled context,
`Crash` a kill at any point; either loses `due` and `parsed` and keeps the database.

*Startup.* `pc[p]` names the next call of instance `p`, whose binary embeds migrations
`1..Files(p)`. `lock` is the session that holds the advisory lock; after a kill it is
`"dead"` until the server notices. What a check read from `schema_migrations` is only
known to the instance until it applies. `CREATE TABLE IF NOT EXISTS` is a look and a
later entry in the catalogue, which fails when another session was faster. The
errgroup is the set of goroutines that have not returned and its first error; `drain`
waits for the context and then is `close`, the running `Server.Shutdown`.

*OrderStore.* `held` and `queue` are Postgres' lock table for one partition, external
and first come first served. `live` is what is committed, `work` what the resync's
transaction has. A row is an order id and a content, of which `Hashed` keeps what the
checksum sees. `DISTINCT ON` picks either copy of a duplicated order, anew at each
use. `ApplyDrifts` is the fault the checksum guard exists for. A consumer in `Slow`
may never end its transaction. A consumer reads while it holds its lock: at the default
isolation level what is committed when the statement starts (`Now`), and one in `Frozen`,
which has raised its isolation level, what was committed when its transaction took its
snapshot (`view`), before it first asked for the partition. A TRUNCATE is not MVCC-safe
(`PROJECT.md:520-525`): when a resync commits, every older snapshot shows the partition
empty from then on (`CutSnapshots`).

## Runs

Passing:

| Run | Shows | Bounds |
|---|---|---|
| `cycle_book` | `TypeOK`, `ToldNotAhead`, `BookRefined` under every fault but drift | 3 snapshots of 2, 2, 1 pages, channel of 1, error counter to 2 |
| `cycle_live` | `EveryCycleRecorded`, `CycleEnds`, and `AnnouncedIsLive` with applies that drift, in hashed columns or others | 2 snapshots of 2 pages |
| `sweep` | `StreamRefined` with its liveness, `ReserveKept`, `EveryResponseCounted`, `RetryRespectsGates`, `TypeOK` | 4 snapshots of 1, 2, 2, 3 pages: the third differs from the second only in Last-Modified, the fourth from the third only in X-Pages; 2 attempts, 2 requests in flight; 5 tokens, too few for a second page, or 8, which a repeated request makes too few for three |
| `scheduler` | `TypeOK`, `ReportOnce`, `NoHotLoop`, `OutageMeansSilent`, and, with a top-priority region that ESI always answers 503 with a reset of a tick at most, `Recovery`, `ShutdownEnds` | 3 regions (two may retry), 2 attempts, 2 requests per cycle |
| `history` | `TypeOK`, `NothingSkipped`, `ImportsWholeFiles`, `RecentDaysCaughtUp`, `BackfillImported` | 3 days in a window of 3, of which the last is recent; days 1 and 2 in one year, day 3 in the next; 2 stamps; a tracked and an untracked pair; files of up to 2 records, one that never parses; 1 fault |
| `startup` | `TypeOK`, `CheckStillHolds`, `AppliedInOrder`, `EveryInstanceServes`, `DiesWhole` | 2 instances with 1 and 2 migrations, 2 run-time tables, 3 faults |
| `store` | `TypeOK`, `WholeSnapshots`, `ReadsRepeat`, `DriftHeals`, `NobodyWaitsForEver`, `LogPruned` | 2 orders, 3 contents of which the checksum tells 2 apart, 2 snapshots (one with a duplicate), 2 consumers (one may never finish, the other keeps its first snapshot), 1 fault |

Why these are enough: two pages suffice for a mixed page set, three snapshots for
one that is replaced while a sweep of the second runs over into the third; a channel
of 1 is the tightest the code's 8 can behave like when full. Two attempts give a
first, a repeated and a last one. The scheduler's tick is some 20 seconds, so that
the canary interval (25s) is 1, the retry delay (30s) 2 and the default pause
(a minute) 3: the order of the three is kept. Two requests reach the outage
threshold inside one cycle, two regions across two.

In `history` the calendar moves from day 2 to day 3, so a day falls out of the recent
window, one comes in, and the year turns under a running process. Two stamps on two
records give the three cases of a watermark: a file that grew by a newer record, by
one of the same scrape, and by one of another region only. The broken file is the
oldest, so it comes first in every pass. One fault at every place is enough for each
safety property to be challenged at each step; the theorems cover any number. In
`startup` either binary may migrate first; two instances and three faults let one
be killed with the lock, the other collide, and a third fault hit the restart. In
`store` one fault at any place is enough: a drift can be followed by a resync that fails
for its lock, which is not counted, and a resync also follows a tie in `DISTINCT ON`. The
first consumer reads at the default isolation level and holds the lock for any time; the
second keeps a snapshot across deltas, a resync and its own reads, and is the one that
queues behind the waiting TRUNCATE.

`WholeSnapshots` sets three reads apart, and says so: before the first load, while a drift
lasts, and from a snapshot that a resync cut before the consumer reached the partition.
The last does occur in `store`; `PROJECT.md:520-525` accepts it for readers
that raise their isolation level. `ReadsRepeat` says what still protects such a reader.
`RetryRespectsGates` likewise does not say that no page is ever repeated into armed
gates: `retriesBlocked` is asked once, before the backoff, and between two pages the
answer can be overtaken. It says how long the gap can last.

Each property of a passing run has a mutant of the code's definition, listed in
`PROJECT.json`, that violates it.

Violations, each a disagreement between the code and what the repository says of it
(`findings` in `PROJECT.json` quotes both sides):

| Run | Shows |
|---|---|
| `cycle_unlogged` | A Postgres crash between copy and apply deletes a loaded partition and announces it, if the pool replaces the dead session before the next call uses it. |
| `cycle_mark_lost` | A failed `MarkRefreshed` leaves no trace of the cycle. |
| `scheduler_starved` | One failing hub can stop all other regions. |
| `scheduler_plex` | The failing PLEX market stops all other regions, because the probe asks for it and its failure extends the pause. |
| `scheduler_blocked` | A pass goes on after a 420. |

### Observations

Behaviour the models show that no run is about:

- `cycle.go:239`: the errors of the sweep and of the copy are joined and a deferral is
  looked for first, so a failed copy next to a deferred sweep is recorded as a
  deferral: not counted, not retried, not reported.
- `cycle.go:252`: the error counter and the `ingest_log` row are two writes and can
  disagree. A cycle whose verification fails is recorded as failed although its
  snapshot is live.
- `page.go:83`: a request that times out after ESI has charged it leaves no response to
  count. If the page is then repeated, a successful sweep reports fewer tokens than it was
  charged, against "a retry is never invisible in the budget accounting" (`page.go:74-75`).
  `EveryResponseCounted` says by how much: `missed`.
- `errorlimit.go:28`: any error response with a reset header blocks, so a 503 can be
  reported as a tripped error limit.
- `scheduler.go:145`: a 420 whose window resets before the next pass is not reported.
- `scheduler.go:162`: a hub that falls due while a pass is at a lower priority waits for
  the rest of the pass.
- `errorlimit.go:68`: the error budget is refreshed by error responses only; a low value
  suspends retries until the next error.
- `main.go:231`: `Server.Shutdown` that meets its five-second deadline makes an ordinary
  SIGTERM end with an error that is reported as fatal.
- `regions.go:62`: the tables made after the advisory lock is freed can collide between
  two instances; one start fails and succeeds when it is repeated.
- `history.go:122`: `Spacing` is waited after an imported day only, so failing days
  follow each other without a pause.
- `history.go:54`: a region added to the set gets no rows of days already imported
  unless those are recent and grow; a day that leaves the recent window while the
  service is down stays as it was.
- `store/history.go:139`: two importers at once, against the README's single instance,
  can overwrite a newer row with an older one.
- `orders.go:275`: a drift in a column the checksum leaves out is announced; the next delta
  undoes it (`DriftHeals`).
- `orders.go:163`: for an order staged twice with different contents, apply and
  verification may keep different copies, which looks like drift and causes a resync.

Deadlock is checked everywhere but where the system really may stop: the scheduler
after a shutdown, the importer when nothing grows and every instance when it serves,
with the model's faults used up.

## Fairness

- `Cycle`: the goroutines of `Run` and `drainOrders` run when they can, and the sweep
  finishes when the channel does not hold it up or when it is cancelled. The last is
  what `sweep` shows of `Sweep`.
- `Sweep`: every page goroutine and the main one run when they can. This includes
  that a request is answered or times out (the client has a request timeout) and that
  a backoff ends. Nothing is assumed of the consumer of the channel.
- `Scheduler` (`PromptSpec`): the loop runs, time passes, and `Stop` is strongly
  fair because Go's `select` chooses among ready cases at random. No tick of 20
  seconds passes while the loop has only local work, a probe or the next one-second
  pass to do. Nothing is assumed about how long a cycle takes, when ESI recovers or
  when a shutdown comes. The safety
  properties are proved of `Spec`, where time may pass anywhere.
- `History`: the importer goes on (`WF` of its steps): requests time out, database calls
  return, the ticker ticks, the container is restarted. Nothing is assumed of EVE Ref,
  the calendar or the shutdowns.
- `Startup`: each instance goes on; the server ends the session of a dead process in
  the end; and the advisory lock is granted in the order of its queue, which is strong
  fairness of `Lock` for each instance.
- `OrderStore`: the server grants a lock whose turn has come; statements return;
  `lock_timeout` fires; consumers outside `Slow` end their transactions, those in it
  need not. `PruneTick` is strongly fair because the tick stays in its channel and
  `select` draws at random among the ready cases.

Failures that a model counts against `MaxFaults` stop coming in the end; the liveness
properties of `History`, `Startup` and `OrderStore` therefore say that the system
recovers from any of them, not that it makes progress while they go on for ever. A
file that never parses and a consumer that never finishes are not counted.

## Proofs

`CycleProofs` proves, for every number of snapshots, page counts, channel capacity
and bound on the error counter:

- `TypeCorrect`: `Spec => []TypeOK`, for every set of faults;
- `AnnouncementMatchesChecksum`: `Spec => AnnouncedIsLive`, for every set of faults;
- `CyclesAreRecorded`: `Spec => []EveryCycleRecorded`, when `Faults` holds neither
  `mark` nor `note`, the failures of the recording calls; `cycle_mark_lost` shows
  what a failing `MarkRefreshed` does to it;
- `AnnouncedSnapshotIsLive`: `Spec => []ToldNotAhead`, and
- `CycleImplementsBook`: `Spec => BookRefined`, both when `Faults` does not hold
  `drift`. With it the partition is wrong until the repair, and when announced it is
  right in the hashed columns, by `AnnouncementMatchesChecksum`. `Spec` leaves out the
  Postgres crash that empties staging (`CrashSpec` of `CycleCrash`), which breaks the
  three; `cycle_unlogged` shows how.

`ToldNotAhead` alone is not inductive. `CycleInv` follows a snapshot through the
cycle: what was sent lies between `floor` and `ver` and, after a nil error, is one
page set (`StreamInv`); what the copy has read was sent (`RowsInv`); `copied` is the number of staged batches, all of them sent
(`CopyInv`), so when it equals `count` staging is the whole page set (`StagedInv`,
a subset of a finite set with the same cardinality); and the partition is empty or
one page set no newer than `floor` or than what is being published (`LiveInv`).
Each step of `Next` preserves each part; `BookSteps` then maps every step to
`Publish`, `Announce` or a stutter of `RegionBook`. With drift `LiveInv` fails and
`MarkInv` takes its place: whoever is about to announce has a partition with staging's
checksum, because the verification found it so or a resync made it so. `RecordInv`
says what has been recorded at each step of the way out: a fault is counted before
its row is written.

`GatesProofs` has the facts about the gates: a response keeps their type, never
shortens a block, a 420 always blocks, the budget is the one the last response names,
a 200 ends a pause and leaves the error budget alone.

`SweepProofs` proves, for any snapshots and page counts, any channel capacity,
concurrency, attempts, reserve and floors, and whatever ESI answers:

- `SweepTypeCorrect`: `Spec => []TypeOK`;
- `SweepKeepsPromise`: `Spec => Contract!StreamSafety`, which is `StreamRefined`
  without its fairness (`PageStream` states the two parts apart for this);
- `ResponsesAreCounted`: `Spec => []EveryResponseCounted`;
- `ReserveSurvives`: `Spec => []ReserveKept`;
- `RetriesRespectGates`: `Spec => RetryRespectsGates`.

They share one invariant. `PageInv` says what a `fetchPage` holds at each stage: a
page that is held was served since the sweep began and exists in its snapshot; an
error is there when a page has failed. `ControlInv` says what `Sweep` has done at each
of its own steps, `GroupInv` what the goroutines have: a page whose goroutine is still
running has not been sent, one whose goroutine ended without an error has, a page of
another snapshot is noticed before it is sent, and `orders` counts the pages compared.
When all have ended without an error these add up to the whole page set
(`NilMeansWhole`). It needs that ESI's headers tell two snapshots apart
(`SweepAssumption`), which the code relies on as well.

`AccountInv` adds for the tokens that what ESI charged is what was counted, what is
still on its way and what was given up, in every state; when all pages have ended nothing
is on its way. `ReserveInv` follows the budget from ESI's answer to page 1 to
the check: nobody else has a request then, so the header, and after it the gate, say
what the bucket holds; from the check on, bucket and charges together cover the page
set and the reserve. `RetryInv` closes the gap between `retriesBlocked` and the end of the backoff: the gates a
page passed can only be armed by another page's response; that page then has yet to ask
`retriesBlocked`, which will fail it, or has failed, and its failure cancels the group.

`SchedulerProofs` proves, for any regions, priorities, attempts and delays, and
whatever ESI answers:

- `SchedulerTypeCorrect`: `Spec => []TypeOK`;
- `OneReportPerFailureRun`: `Spec => []ReportOnce`;
- `NoRegionSpins`: `Spec => NoHotLoop`;
- `OutageIsSilent`: `Spec => OutageMeansSilent`.

`RunInv` bounds the attempt of the region that runs. `ReportInv` ties history to
state: a region with a report since its last success is firing. `RestInv` says why a
region that has just run cannot run again at once: it is not due, or a gate is closed
that only time opens. `SilentInv` says that a cycle that has not asked yet, and a
backoff, began with the outage gate open and that nobody else can have armed it since.

`HistoryProofs` proves, for any days, pairs, tracked regions, windows, stamps, file
sizes and numbers of faults:

- `HistoryTypeCorrect`: `Spec => []TypeOK`;
- `NothingIsSkipped`: `Spec => []NothingSkipped`;
- `ImportsAreWhole`: `Spec => ImportsWholeFiles`, the refinement of `DayBook`.

The invariant says that what the database has of a day is what some earlier state `S`
of its file would give (`Recorded`: the rows, the watermark and a count no larger than
`S`), and that what is about to be written was parsed from a later state `C` with the
watermark of `S` (`Read`). The core is `UpsertIsWhole`: the rows of `C` not older than
the watermark of `S`, put over the rows of `S`, are the rows of `C`. It needs both
that the filter is inclusive and that the watermark is taken over the whole file.
`TaskInv` keeps a task's watermark that of its day until the day is written.

`StartupProofs` proves, for any instances, binaries, tables and numbers of faults:

- `StartupTypeCorrect`: `Spec => []TypeOK`;
- `NoMigrationTwice`: `Spec => []CheckStillHolds`;
- `MigrationsInOrder`: `Spec => []AppliedInOrder`.

`StartupInv` adds that whoever is between lock and unlock holds the lock
(`OneMigrates`) and that the files before the one it is at are applied (`Progress`).

`StoreProofs` proves, for any orders, contents, staged rows, consumers and faults:

- `StoreTypeCorrect`: `Spec => []TypeOK`, the lock queue and the rows included;
- `DeltaIsSnapshot`: insert, delete and update by comparison of every column leave
  exactly the deduplicated snapshot, whatever the partition held;
- `ReadersSeeWholeSnapshots`: `Spec => []WholeSnapshots`;
- `SnapshotReadsRepeat`: `Spec => ReadsRepeat`.

The third rests on `ReadInv`: a resync about to commit holds a whole snapshot (`WorkInv`),
what is committed may be read (`LiveInv`), and so may every snapshot a transaction keeps
(`ViewInv`). The fourth rests on the lock table: nobody waits twice or for what it holds
(`QueueInv`), locks that conflict are never held together (`Exclusion`), and a resync holds
the exclusive lock from its TRUNCATE to its commit (`CycleInv`), when it cuts snapshots.

The assumptions of a proof are those of its module (`HistoryAssumption`,
`StartupAssumption`, ...): that constants are numbers of the right range, the checks
of `config.Load` among them.

Every safety property that a passing run checks is a theorem. Not proved, only
model-checked: liveness (`CycleEnds`, `Recovery`, `ShutdownEnds`, `RecentDaysCaughtUp`,
`BackfillImported`, `EveryInstanceServes`, `DiesWhole`, `DriftHeals`,
`NobodyWaitsForEver`, `LogPruned`, and the fairness in `StreamRefined`), which is
outside the prover's reach.

## Not modelled

- Wording, timings, log lines, Sentry's transport, TLS and HTTP, header syntax, JSON,
  bzip2, CSV and decimals: conversions without state. What they let through or reject
  is an outcome of the call.
- Reading and parsing of environment variables. The range checks that matter to a
  module are in `Config`.
- `/healthz` and the health probe, which ping Postgres and keep nothing, and
  `HistoryCoverage`, which feeds a log line.
- The contents of the migrations: a migration is its number.
- Collisions of the checksum's hash.
- More than one region in `Cycle` and `OrderStore`: the code runs regions one after
  another, and partitions, staging tables and status rows are per region.
- Two instances running cycles or imports at once, which the repository's README
  forbids. `Startup` has two, because a deployment overlaps and `Migrate` is made for it.

## Plan

Done: the region's path (`Snapshots`, `RegionBook`, `PageStream`, `Cycle`, `Gates`,
`Sweep`, `Scheduler`), the history import (`DayBook`, `History`), the process and its
migrations (`Startup`), the partition at row level with maintenance (`Delta`,
`OrderStore`), and the proofs above.

Left:

1. The step from `Sweep` to `RegionBook` as one theorem: so far it is two,
   `SweepKeepsPromise` and `CycleImplementsBook`, joined by `PageStream`.
2. The age of the error budget in `Scheduler` (retries suspended by a stale value).
