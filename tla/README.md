# Verification of the Reporting Framework

TLA+ specifications, TLC configurations and TLAPS proofs for the commercetools
Reporting Framework: a set of TypeScript services that turn orders into
day-partitioned aggregates, answer report queries from them and from other
sources, and draw the answers in the Merchant Center. Paths below are relative
to the repository (`src/` in `PROJECT.json`).

Run a configuration with `tlc -config X.cfg M`, check the proofs of a module
with `tlapm M_proofs.tla`. `PROJECT.json` lists the components, the runs, which
lines each definition models, a mutant per property, the findings, the hazards
and the theorems.

1. The system · 2. Modules · 3. Runs · 4. Proofs · 5. What is not modelled ·
6. Observations · 7. Plan

## 1. The system

Orders enter by events and by a scheduled scan. Both write one *fact* per order;
the job folds the facts of a day into *cubes*, which it stores as partitions,
and writes a *watermark*. The gateway runs a report: it resolves its definition,
frames it by the subject's access, plans which *source* serves which metric,
queries the sources, checks the scope of what comes back, merges, and caches.
ct-native is the source that reads the cubes; GA4, a warehouse, an ERP and
others speak the same protocol. The app shows reports and edits stored ones.

All durable state is Custom Objects of a commercetools project: JSON values
under (container, key) with a version. A put that carries a version is a
compare-and-swap. A put without one is an upsert. There are no transactions and
no listeners; every interaction below is a sequence of single calls with awaits
in between.

| Component | Where | State | Operations | Interacts with |
|---|---|---|---|---|
| Object store port | `shared/src/ct/ports.ts`, `shared-node/src/ct-adapter.ts` | the objects and their versions | get, put, delete, query, order scan | everyone |
| Order events | `reporting-rollup-event/src` | none of its own | decode a delivery, fetch the order, write its fact | facts; the platform repeats and reorders deliveries |
| Order facts | `reporting-rollup-job/src/job.ts` `writeOrderFact`, `restate-categories.mjs` | one fact per order in a container per month | write if newer, force-write, purge | events, job and restatement compete |
| Job lock | `shared/src/ct/lock.ts` | one lock object per job | acquire, release, (heartbeat: never called) | overlapping scheduled runs |
| Rollup job | `reporting-rollup-job/src/job.ts`, `shared/src/ct/keyset.ts` | cursor, watermark; in memory: dirty days, page, budget | scan, checkpoint, write facts, fold dirty days, advance the watermark | orders, facts, partitions |
| Day partitions | `reporting-rollup-job/src/fold.ts`, `shared/src/rollup/keying.ts` | the shards of each (cube, day) | rebuild, skip if unchanged, remove surplus shards | readers |
| Order mapping | `shared/src/rollup/order-mapping.ts` | none | order to fact, facts to cells, first orders, cohorts | job and events |
| ct-native source | `connectors/ct-native/ct-native-source/src` | none | read shards and watermark, aggregate, say what is missing; live catalogue, stock and promotions | partitions, watermark |
| Source client | `reporting-gateway/src/sources` | one circuit breaker per source, in memory | query with timeout, count failures, open, half-open, trip | concurrent reports |
| Registry | `reporting-gateway/src/registry` | a snapshot of the source descriptors, the load in flight | get, invalidate, load | source client errors invalidate it |
| Report run and cache | `reporting-gateway/src/run-report.ts`, `cache/memory.ts` | an LRU of results | plan, fan out, merge, cache | registry, source client |
| Semantic model | `shared/src/semantic` | none | metrics, dimensions, formulas, their validation | everyone above |
| Planner | `shared/src/planner` | none | choose sources, plan, merge, cache key | report run |
| Access framing | `shared/src/framing/access.ts` | none | capabilities and row scope of a subject | report run |
| Reports | `shared/src/catalogue`, `reporting-gateway/src/reports` | stored reports | built-in reports, overrides | gateway, builder |
| GA4 source and prewarm | `connectors/ga4` | cached answers, token bucket | query, cache, spend quota; warm the cache | report run |
| Warehouse, ERP | `connectors/warehouse`, `connectors/erp-oms` | none that others rely on | answer queries | report run |
| App | `reporting-app/src` | the URL, a cache per tab, a draft | discover the gateway, load, run, filter, refresh; edit, preview, save, delete; draw, name | gateway, stored reports |

What makes it hard:

* *Concurrency without transactions.* Deliveries, a scheduled job, a restatement
  script, readers and authors touch the same objects; each decision is taken on
  a value read one await earlier. Requests of the gateway, queries of the GA4
  source and the hooks of the app interleave in the same way over state in
  memory.
* *Delivery.* Events are at least once and out of order. The job scans the same
  orders by last modification as a safety net. A call that was given up on is
  still handled by the source.
* *Failure.* The platform kills a job at its timeout; a run may also stop of its
  own accord when its budget is used up, between any two steps. A process
  restarts and forgets its breaker, bucket and caches. Any call may fail.
* *Eventual visibility.* An order edit shows up in queries a little later than
  its timestamp.
* *Claims to readers.* A day without a partition means "no trade" on or before
  the watermark, and "not yet known" after it; a tile is `ok`, `partial` or
  `unavailable`; an answer without `degradedReason` is fresh.

What makes each component correct:

* facts: never older than what was stored, always something the order was, in
  its month;
* lock: no run takes it from another that it could have seen; a lease longer
  than the work; no lock left for ever;
* partitions: a finished fold leaves exactly its content; a skipped fold had all
  of it stored; a read gets one fold;
* job: nothing behind the cursor without its fact; nothing below the watermark
  that was not folded; eventually every day is right - each of them but for what
  a race of writers or a run cut short is known to lose;
* breaker: opens after the threshold, probes after the cool-down, an old answer
  does not undo a newer verdict; quota: never overspent, whatever overlaps;
* registry and cache: after an invalidation no older snapshot; no answer
  outlives the freshness of its worst part; every request is answered;
* plan, answers and merge: the figures of a report are those of the orders, in
  whatever split over sources; nobody sees what was not granted; what is said to
  be whole is whole;
* app: what stands on the page is the answer to what the page asks for, each
  result in its own frame, and no spinner without a call.

## 2. Modules

```
CustomObjects                 one object: Absent/Present, PutAccepted, AfterPut
  |-- OrderFacts ------------ implements --> FactLedger
  |-- JobLock
  |-- Ga4Source               cache, quota bucket
Partition                     writer and readers of one (cube, day)
RollupJob                     orders, deliveries, cursor, facts, partitions, watermark
SourceClient                  circuit breakers
  |-- SourceCalls             SourceClient + Ga4Source + the pre-warm pass
ReportRun                     registry, concurrent requests, result cache
Semantics Calendar Access     what a metric, a range, a policy is
  |-- Catalogue               the reports
  |-- Rows -- OrderCubes      orders to facts to cubes
        |-- Connectors        descriptors, validation, the answer of each source
        |-- Planner -- Merge  plans; rows of a tile
              |-- TileRun     a report from end to end, next to the job
                    |-- Charts, Labels, Drafts -- Screen    what the user sees of it
AppShell -- ReportViewer      catalogue, viewer, tab cache
        |-- ReportBuilder     draft, preview, save, delete
              |-- AppSession  one tab: viewer and builder
MC<module>                    constants for TLC
<module>_proofs               theorems
TileRunTerms                  TileRun's strengthened invariants, for its proofs
```

The modules divide the system by the grain at which its parts interfere, and
each composition takes as one step what a finer module has taken apart:
`OrderFacts` and `RollupJob` have a step per await of a fact's writers, the
former with forced runs, purges and months, the latter with scan, cursor and
fold; `TileRun` takes the arrival of a fact as one step; `Partition` has a step per shard, `RollupJob` and
`TileRun` take a fold as one step, justified by `CompleteFoldIsExact` for folds
that finish; `JobLock` is about overlapping runs, the others have one run at a
time, which the lock gives wherever its run was not overrun
(`ExclusiveUnlessOverrun`); `ReportRun` has concurrent requests with
their cache and an open answer per source, `TileRun` one request with real
plans and figures. Where an idealisation does not hold in the code (the findings
below), the finer module is the one that shows it.

### CustomObjects
An object is `[version, value]`, version 0 if absent. `PutAccepted(stored, seen)`
is when the platform answers other than 409: the version is that of the object, or
there is none, in the object or in the put. A put *without* a version is the upsert
that `ct-adapter.ts` sends, in every run. The ports the repository's tests use
are create-only in that case (`reporting-rollup-job/tests/rollup.test.ts:53`),
which the comments in `lock.ts` and `job.ts` presuppose; the difference is one of
the findings. Versions start at 1 again after a delete.

### OrderFacts and FactLedger
`history[o]` is the sequence of business days of an order's versions, `facts`
the month containers. A writer (delivery or job) is `Fetch` (the order as it is
now), `Read` or `IgnoreStale` (get and monotonic guard), `Write` or `Drop` (put,
or ConcurrentModificationError), or `Fail` at any await, which stands for a 500
and a redelivery, or the end of the run. A delivery may be repeated at any time:
`Fetch` is always possible for an existing order. `PurgeList`/`PurgeDelete` are
the restatement script; `ForceRewrite` is `ROLLUP_FORCE_REWRITE`. `purged` is a
history variable of the properties.
Abstracted: the measures of a fact, decoding, deleted orders (acknowledged and
otherwise ignored), message types that are ignored.

`FactLedger` is what the facts promise: per month and order a version that only
grows, except in a *contested* cell. A cell is contested while a writer is about
to write it without anything to compare with (it found none, or it is forced),
and once it was purged. `ImplementsLedger` is the refinement.

### JobLock
A run is a slot; `Start`, `Observe`/`Decline`, `Claim`/`LoseClaim`, `Finish`,
`CheckOwner`/`LeaveToOwner`, `Delete` follow `acquireLock`, `withJobLock` and
`releaseLock` call by call. Time is relative: the lock keeps the ticks it is
still valid, a run the ticks since it called `now()`, so that the state space
is finite without a bound on time. `Crash` covers a dead process, the
platform's kill, and a store error that leaves the release undone. `Tick`
respects the platform's timeout: a run is killed rather than grow older.
`heartbeat` is not modelled: nothing calls it.
`fresh` and `overrun` are history variables of the properties: the runs whose
last reading of the lock still stands because nobody wrote it since, and the
runs that lost their lock to a put that had not read it.

### Partition
A content is what a fold computed, identified with its hash; it only matters
how many shards it fills: `ShardCells` cuts cells into shards, and
`EstimateCardinality` is the estimate of it that the budget is checked with. `Begin`, `Unchanged`/`Changed` (the hash of shard 0),
`PutShard`, `DeleteSurplus`, `Complete`, and `Crash` between any two of them.
Readers read shard by shard until one is absent. `disturbed` and `damaged` are
history variables of the properties only.

### RollupJob
`orders` is the commerce side, `shown` what its query shows; `Settle` makes an
edit visible at most `MaxSettle` ticks later. `ScanPage` takes the first
`PageSize` orders behind the keyset position `(lastModifiedAt, id)` and modified
before `until`; `WriteFact` writes their facts one by one and marks their days
dirty; `SaveCursor` is the checkpoint; `FoldDay` rebuilds one dirty day from the
facts; `FinishRun` writes the watermark. `Exhaust` is the moment the budget runs
out, observed by the code at its next check; `Crash` the end of the process.
`writes[w]` is the fact a writer is about to put. A delivery is `Fetch`,
`Compare`, `Deliver` or at any point `FailDelivery`; the run is `ReadFact` and
`WriteFact`, or `SkipStale`. `Put` is accepted unless the fact the writer read has
been replaced since, and dropped otherwise; a writer that found no fact replaces
what it finds. So a put of the job may lose to an older delivery and an older
version may end on top of a newer one, with the cursor saved past the order: such
orders are in `lost`, until they are edited again. `left` has the days that were
dirty when a run ended. Both are history variables, and the properties say that
nothing else is lost. Abstracted: the cells of a partition (it holds the order
versions it was folded from), the cohort snapshot, cubes (one), months (one),
labels (only that they need a complete scan).

### SourceClient, Ga4Source, SourceCalls
`SourceClient` has a breaker per source and a slot per call: a call is let
through (`closed`, or `open` past the cool-down), and each exit of `query` and
`trip` counts or resets failures when its answer comes back, however late.
`Ga4Source` is the handler of the GA4 source await by await: read the cache,
take a token or serve a stale entry, call the Data API, write the cache by
compare-and-swap; `Restart` fills the bucket and drops what is in flight.
`SourceCalls` composes them: a call of the gateway *is* a query of the source,
which goes on when the gateway has given up on it; the pre-warm pass sends its
targets one after the other past the breaker. `load` and `spent` are history
variables.

### ReportRun
A request is a slot: `registry.get`, the epoch, the second `registry.get`, the
look-up in the cache, the sources, the reload after a capability error, the
sources of the comparison, the write into the cache. Requests that meet a load
in flight wait for it (`RegistryCache.inFlight`); `Invalidate` forgets the
snapshot. The registry's container is a version that grows; which source serves
which metric is a function of it, and what the sources answer is left open. A
request is followed for one tile: tiles share the registry and the cache, which
other requests stand for. The two uses of the millisecond `loadedAt` are kept
apart: as an age in ticks, and as the part of a cache key that tells loads
apart (`stamp`).

### Semantics, Calendar, Access, Catalogue, Rows
Operators, no state: the whole metric and dimension registry with what decides
anything (kind, aggregation, additivity, sensitivity, money, formulas), date
arithmetic on day numbers, the resolution of policies, and the fifteen built-in
reports with what a run takes from them. `RegistryAssumption` is
`validateRegistry`: TLC evaluates it over the registry, the theorems assume no
more about metrics than this. `CatalogueAssumption` is what
`validate-catalogue.ts` checks of the built-in reports (layout apart), and TLC
evaluates it too.

### OrderCubes, Connectors, Planner, Merge, TileRun
`OrderCubes` maps an order to its fact and facts to the cells of the six cubes;
a line gets its category from the resolver (`CategoryOf`: the first category of
its product, by its key), whose products and keys are constants. `Connectors` has
the descriptor of each source, the validation of a query against it, the error
codes of the protocol, and the answer of each: cubes for ct-native, which skip what the
watermark vouches for, and fixed `Holdings` for what other systems hold. A
third-party connector `Web` speaks the same protocol, so that metrics have
competing sources. `Planner` is `selectSources`, `planTile`, `planReport`,
`reportAvailability` and `toSourceQuery`; `Merge` is `merge.ts`.

`TileRun` is one request next to the job. `Receive` plans or refuses; for each
tile `BeginTile` sends its queries, which are answered in any order
(`AnswerQuery`, `ReadWatermark` then `ReadCubes`, or `LoseQuery` for a source
out of reach), and `Conclude` merges and gives the tile its status; `Finish`
gives the report its own. Meanwhile orders arrive (`PlaceOrder`) and passes of
the job rebuild days and publish (`StartPass`, `RebuildDay`, `Publish`). A pass
may publish with days still to rebuild, as the code does when the budget ends the
fold; it keeps the former cohort snapshot then, and `published.left` remembers
the days until a later pass rebuilds them.
`answers` carries, for the properties only, what was published when the
watermark was read, and what had arrived and whether any of it had been
back-dated when the cubes were. `CUBE_DIMENSIONS`, `CUBE_MEASURES`, `DueRows`
and `ReadOnce` belong to the properties too: what a query is due, computed from
the orders without folding. `TileRunTerms` models no code; it has the inductive
invariants and the terms of the proofs of `TileRun_proofs`.

### Charts, Labels, Drafts, Screen
What each chart draws of a result, as a set of marks; names for the keys of
dimensions, as far as their entities have been loaded; the draft of the builder,
the definition made of it and what the form complains about. `Screen` draws the
tile `TileRun` has just shown, with no, some or all names there.

### AppShell, ReportViewer, ReportBuilder, AppSession
One browser tab. `ReportViewer` has the hooks of the viewer: the definition
fetched with its `latest` reference, the filters in the URL, the run of the
report with the cache of the tab. `Effects` are those React runs after a render
and before the next event. `ReportBuilder` has the draft, the preview and the
changes under way: a save is the write and then the read of the list, and goes
on when the page is left. `AppSession` composes them over the stored reports,
which other authors change too. Calls are served at one moment and answered at
a later one, in any order; the lifetime of a cached answer is left open.

## 3. Runs

Passing:

| Run | Instance | Shows |
|---|---|---|
| `facts_platform` | a delivery and the forced job, upsert, purge; 1 order, 3 versions, 3 days in 2 months, 3 writes per object; 677k states | whatever is stored is a state its order really had, in its month; the writers implement `FactLedger` |
| `lock_crashes` | 3 runs, the upsert, 2 crashes, fairness; 579k states | two runs are under the lock together, and a release removes another run's lock, only by a put that had not read the lock it replaced; an own lock does not expire under the work, and a dead run's lock is taken over |
| `partition_reads` | contents of 1, 2 and 3 shards, 4 folds, 2 interruptions, a reader; 22k states | completed folds are exact; skipping and reading are right unless an interrupted fold has not been made good |
| `rollup` | 2 orders that may change days, 3 edits, 4 ticks, page size 1, a delivery, 1 interruption, fairness; 1.03M states | no order is behind the cursor without its fact, the watermark is honest and partitions converge, but for orders whose version lost a race of writers, days left dirty, and orders that left a day |
| `source_calls` | 2 slots, threshold 2, cool-down 2, one token, TTL 1, 2 ticks, 1 restart, the upsert; 2.8M states | breaker, quota and cache keep their word while gateway, source and pre-warm pass interleave |
| `report_run` | 2 slots, 2 requests, 2 tiles (one sealed and compared), 2 versions of the registry, 2 faults, a cache of one entry, fairness; 341k states | what is cached and served matches what it was planned on, reloads are current, what a request learns of the registry never goes back, every request is answered |
| `tile_run` | 7 orders, top N of 1 item, 2 rows kept; the scenarios below; 38k states | from orders to the marks of a chart: figures, coverage, scope, sensitivity, status |
| `session` | 2 reports, 2 filters, a tab cache of one answer, 2 runs and 2 changes under way, 5 clicks, 1 fault, 1 change of the world; 1.5M states | the page shows what it asks for, never older than before, in its own frame, and no spinner hangs |

`tile_run`'s scenarios: each of the fifteen built-in and four stored reports for
a viewer over every subset of the sources, and for the manager of one store over
one, all but one and all sources; varied ranges, grains and filters; a source
out of reach; the job at work while the report runs, and orders that arrive
meanwhile, passes that stop before every day is folded; a report of the builder
with every kind of chart twice, pivots of a rate and of a ratio of money, and a
series of what is only live; charts with gaps in a further series and in the
bubbles' size; and a report of queries that the planner makes and a source
refuses.

Violated, each a finding about a statement in the repository:

| Run | Statement | What happens |
|---|---|---|
| `lock_upsert` | `MutualExclusion`; `lock.ts:53`: the put "makes this a compare-and-swap" | no lock exists, so no version is sent and the upsert is accepted from both runs |
| `partition_torn` | `fold.ts:37`: unchanged means "byte-identical to what was already stored" | a fold dies after shard 0; the next fold of that content finds its hash there and skips the missing shards, for ever |
| `rollup_lost_days` | `job.ts:210`: "remaining days resume next run" | the cursor is stored, the dirty days are not; no later run folds them |
| `net_twice` | `rollup-reader.ts:68`: net revenue is that of the orders unless the query splits by product or category | the query also asks for the cost of goods; the reader adds `revenueNet` of the orders' cube and of the lines' cube |

`DroppedIsSuperseded` and `OneFactPerOrder` (`OrderFacts`) and `ReadIsOneFold`
(`Partition`) are written down in the modules as properties the code does not
have, and no run checks them. `Converges` does not hold either where business
days move; `ConvergesUnlessMoved` says what does.

### Bounds
The interesting cases need few actors.

* *Facts.* A regression of a fact takes two writers and an order edited between
  their reads: a delivery and the job, three versions. A moved month takes two
  months; the third day makes a move within a month differ from one across.
  `MaxObjectVersion` is a guard on puts.
* *Lock.* One holder, one that took over and one that arrives. Times only matter
  by how timeout and TTL compare, so `Timeout = 2, TTL = 3` is the smallest pair
  with the platform's `Timeout < TTL` and a tick to spare between reading the
  clock and claiming.
* *Partition.* A grow, a shrink and an interrupted fold between: contents of one
  to three shards and four folds.
* *Job.* Two orders that tie on their timestamp with a page boundary between
  them, a day boundary, an edit that settles late and one run after the last
  edit: four ticks, days of two, three edits between two orders. A delivery that
  fetched before an edit and puts after it, or before it against the job's put of
  the newer version, takes one delivery beside the run. One interruption is
  enough for a day that is left; `rollup_lost_days` needs no delivery.
* *Source calls.* Two calls overlap; the threshold is reached by both or by one
  and the pre-warm pass; one token makes the second query meet an empty bucket.
* *Report run.* One entry in the cache makes every second write evict; two
  versions of the registry and two faults give a load that was invalidated
  while in flight, and one that fails.
* *Tile run.* Seven orders have three customers, each with two of them, and a
  guest; two currencies, two stores and none, two months, lines of two
  categories, a promotion and shipments; one of the two that may come late is
  recent, the other is before a later order of its customer. Top N of 1 and two
  rows kept make residuals and cut rows.
* *Session.* Two filters give two keys with room for one in the cache. Slots of
  equal kind are symmetric. Five clicks leave the builder, come back and switch
  reports and filters. `Watched` is the one request whose shown ages are kept.

### Fairness
`JobLock`: time passes, the schedule goes on starting runs, a run that does not
crash goes on; the first two are the platform's schedule, and a run that hangs
is one the platform kills at its timeout, a `Crash`. `RollupJob`: the same for
`Tick`, `StartRun` and the steps of a run, and every edit eventually shows in
queries. `ReportRun`: every await is answered, the registry's load and each
request's own; sources are called with an abort timer and the store answers with
a page or an error. Nothing is assumed of deliveries, edits, crashes, faults,
new requests or the budget. All use weak fairness on disjunctions of steps that
stay enabled until one is taken or the run crashes.

`CHECK_DEADLOCK FALSE` stands where the system may stop: a partition nobody
folds any more, an idle gateway, a finished report, a tab nobody clicks in.

## 4. Proofs

The theorems hold for any number of orders, writers, runs, readers, shards,
calls, requests, reports, sources and policies, and for any bounds. The
inductive invariants were checked with TLC on the instances of the runs before
they were proved (of `ExactInv`, which speaks of all keys there might be, TLC
checks what follows for the keys there are). A proof module is laid out as: lemmas on the operators, the
invariant by its named parts, one lemma per part that `Init` and each action
keep it, the theorem.

| Theorem | Assumptions | Argument |
|---|---|---|
| `OrderFacts!TypeCorrect` | none | the type invariant is inductive |
| `FactsMatchOrders` | none | `ProvenanceInv`: what a writer carries is a version of its order; histories only grow |
| `OnlyCreateRacesRegress` | none | `GuardInv`: object versions only grow while nothing is purged, so an object that still has the version a writer read still has the value it compared with |
| `FactsImplementLedger` | none | `RefinementInv`: every step is a ledger step or a stutter; a write over a newer version is one whose cell was contested |
| `LockExcludes`, `ReleaseDeletesOwnLock` | none | `LockInv`: a lock that names a run is held by it with a lease from its own clock reading, so it looks live to whoever reads it; therefore a claimant whose reading still stands found the lock of no live run, a holder that nobody overran owns the lock, and a release whose reading still stands deletes its own |
| `JobLock!TypeCorrect`, `LeasesOutliveWork` | none | `LeaseInv`: a lock that names a run is held by it, with `left = TTL - age` |
| `CompletedFoldsAreExact` | none | `FoldInv`, over the loop: shards below `at` are the content's, removed ones absent; nothing is assumed of what was stored before |
| `SkippedFoldsAreStored` | none | before the first write of a fold, an undamaged partition is empty or exactly one fold |
| `QuietReadsAreOneFold` | none | `ReadInv`: what a reader got while no fold ran is what is stored; with the invariant above, its first absent shard ends that fold |
| `Partition!TypeCorrect`, `RollupJob!TypeCorrect` | none; `Lag <= MaxClock` | what the folds and reads know of their positions; a time in the bounds is of a day in the bounds, for any length of a day |
| `NothingIsSkipped` | `MaxSettle <= Lag` | `WriterInv`: facts, pages and writes under way are of versions their orders had, and a reading that still stands is of an older fact. `ScanInv`: an order at or before the cursor, or at or before the position of the page in work, has a fact as new as itself, lost a race, or is still in the page; positions are older than `clock - Lag`, so nothing slips in behind them |
| `FoldsAreLabelled` | none | a run reaches the fold with its scan complete or its budget gone, and the budget does not come back |
| `WatermarkIsHonest` | `MaxSettle <= Lag` | `JobInv`: an order the position has passed is in its day's partition, or its day is dirty or was left, or it lost a race or is still in the page; a complete scan has passed everything before `until` |
| `BreakerIsConsistent`, `CoolDownIsKept` | none | `BreakerInv`: a breaker is open exactly while its count is at the threshold; each exit of a call is taken in turn |
| `LoadIsBounded` | finitely many slots | `LoadInv`: the calls since the last answer are accounted for by the failures counted and the calls on their way, so they pass the threshold by at most those in flight |
| `QuotaIsKept` | none | `BucketInv`: what was spent and what is in the bucket is at most what capacity, refills and restarts have granted |
| `UnflaggedAnswersAreFresh` | none | `Ga4Inv`: an entry expires a TTL after its figures, a query carries figures it may return, or was refused or failed before it took older ones |
| `PartsRun`, `PartsKeepTheirPromises`, `CallsAreTyped` | finitely many slots | each step of the composition is a step or a stutter of the client and of the source (`StepsOfParts`), so each runs as specified alone and keeps there what it keeps alone |
| `WarmedIsCached`, `CacheHidesOutages` | the same | `CallsInv`: entries are never removed; a query for cached figures that could read the cache ends in an answer however GA4 and the quota behave (if it ends before the gateway gives up) |
| `ReportRun!TypeIsKept` | none | inductive as it stands, over every way an entry is stored, touched, evicted or expired |
| `RegistryGoesForward` | none | `ForwardInv`: a load begins after the one before has ended and reads at or after its beginning; a failing one leaves what was current, which is no older than anything a request has planned on |
| `WaitersAlwaysHaveALoad`, `ReloadsAreCurrent` | none | `WaitInv`: a request that waits has a load in flight, and what that has read or will read is as new as the error that asked for it, unless it was joined or failed |
| `SnapshotsAreRecent` | none | `RecentInv`: versions are replaced in order, and a load's pages were current at or after its beginning |
| `HitsArePlannedAlike` | none | `NamedInv`: a stamp names one load, and the snapshot of a stamp has one set of sources; an entry's key names the snapshot it was planned on, except where it straddles two |
| `WatermarkIsVouched` | none | `IInv`: orders and facts only accumulate; a day neither in the pass's todo nor left by one before holds what the pass knows of it; a rebuilt day loses nothing |
| `SensitiveIsHidden` | `RegistryAssumption` | `PlansInv`: the plans are those of the report and the request the run began with; the columns of a plan are permitted metrics and the leaves of their formulas, and a leaf is no more sensitive than the metric that needs it |
| `OkTilesKeepTheirWord` | `RegistryAssumption` | `RunInv`: each query of the tile is pending or has at most one answer, and what is shown was merged from the answers of its plan; a plan has finitely many queries, so as many answers as queries are answers to all of them; the queries of a plan cover its base metrics |
| `RowsStayInScope` | `ErrorAssumption`, `DescriptorAssumption`, `ScenarioAssumption` | `ScopeInv`: every answer kept is in the scope of the subject. An answer has no column but those it declares (a lemma per source), so the check of its declared columns is a check of its rows; collapsing, joining, rolling up, the residual of the top N and the limit keep the values of restricted columns, or replace them by *other* |
| `CohortsAreExact` | `OrderAssumption` | `JobInv`: what was published is orders there are. A customer of the snapshot has one first month, and a cohort counts its customers month by month from then |
| `NewAreCountedOnce` | `OrderAssumption`, `FirstAssumption` | `JobInv`: what was scanned is in the fold of its day, with the first orders known then, or that day is still to be rebuilt. So each customer's first order is counted in its day when the job has caught up and left no day; and if none was back-dated, a day's first orders are those of all the orders |
| `MergingConserves` | `MergeAssumption`, `DescriptorAssumption`, `HoldingsAssumption`, `CubeAssumption`, `ScenarioAssumption`, `ErrorAssumption`; those on orders | `FaithfulInv`: each answer kept has finitely many rows of whole figures, dated in the calendar where its query asks for dates (a lemma per source). Then the join, the roll-up and the top N with its rest each keep the sum of a figure that adds up |
| `FiguresOfCubesAreExact`, `CubesCoverPublished` | the same, `AmountAssumption`, `MeasureAssumption` | `ExactInv`, below |
| `EstimateIsWhatIsStored` | none | the shards of `ShardCells` are the cells divided by those of an object, rounded up (`ShardsAreCut`); so the estimate counts the objects there will be, and a cube within the budget has at most five a day and no more than the budget in all |
| `SplitIsExact`, `ComparisonAligns`, `WeekHoldsItsDays`, `MonthsNestInQuarters` | calendars as in `Calendar` | integer arithmetic |
| `ScopeOnlyNarrows`, `UnassignedSeesNothing`, `SensitiveNeedsGrant`, `DenialWins` | none | set reasoning on the resolution of policies |
| `PageShowsWhatItAsks`, `FiguresNeverAge`, `FramesAreKept`, `SpinnersHaveACall` | `WrittenAssumption` (what others write is a report) | `TabInv` below |

`TabInv` of `AppSession` joins: the types; `RunsInv`, the run asked for last is
that of the hook's dependencies, and what it shows while not loading is its
answer; `FetchInv`, the same for the definition and its calls; `CacheOK`, one
entry per key; `AgesInv`, nothing in the tab is from a later world, and unless
two runs of it were out together nothing cached or answered for the watched
request is older than what was shown of it; `VersionsInv`, the versions of a
report on the page, in the cache and in answers are one for each time of
writing; `DraftInv`, the builder is busy with one preview or one save, and with
neither its preview is that of the tiles last sent, unless that one failed.

`ExactInv` of `TileRun` says that an answer read from the cubes says enough at the
moment it is read: it covers what had been published when the watermark was
read, which the cubes still hold, and nothing that had not arrived; and if it
covers all that had arrived, it shows the figures due. An answer does not change
afterwards, so the whole argument is about one reading. It goes along the
pipeline, each stage with a lemma on sums: the facts of a day fold to cells
that share out its orders or its lines by their key (`FoldDay`, per cube and
measure); the top N of a store and the residual of the others share out the
store's cells, so the sums over keys without product and currency are kept; the
days share out the rows; filters and scope take the rows of some keys whole;
what is read adds the cells of a key up over the cubes, of which only one has
the measure. A day's cells are about the orders of the day, all of them when the
answer covers what arrived, and between those published and those arrived
otherwise; amounts that are not negative make the sums lie in between. The sums
themselves are recursive functions over finite sets. The induction is over the set
of all subsets of the rows, ordered by inclusion, of which a set of
counterexamples would have a smallest (`SubsetInduction`).

The assumptions on constants are stated as `ASSUME`s of the modules and hold of
the code: `RegistryAssumption` is what `validateRegistry` checks,
`DescriptorAssumption` that no source enforces a scope on dates,
`ErrorAssumption` that no error code means "no error", `ScenarioAssumption` that
a request sees registered sources. `OrderAssumption` says what an order is:
integer amounts, finitely many lines each with its id, a business day in the
calendar, and no SKU `__other__`, which is the name of the residual;
`AmountAssumption` that orders and lines have no negative amounts (a refund is a
measure of its own, counted upwards: `order-mapping.ts:162`);
`HoldingsAssumption` that the other systems hold finitely many rows of integers;
`FirstAssumption` that a map of first orders, which is a function, is not
`Null`; `NullAssumption` that no number is `Null`. Of the semantic model,
`MergeAssumption` says that no average adds up, and `CubeAssumption` and
`MeasureAssumption` that the table of `rollup-reader.ts` names for each stored
metric a cube that has its measure (but for the active customers, whom no cube
counts). TLC evaluates each of them in the runs. The hypotheses of the theorems
are needed as well, and so are the exceptions the properties name: without them
TLC finds two runs under the lock (`lock_upsert`; also a run that read an expired
lock and claims it after it was taken over and released, since versions start
again at 1), a release that deletes the lock of a successor which had read none,
a watermark over days that were not folded, an order behind the cursor whose put
lost to an older delivery, and, with forcing or a purge, an older order over a
newer fact.

### What the attempts to prove showed
* `SensitiveStaysHidden` was first stated as "granted by class or by name". It is
  not inductive, since the leaves of a derived metric are columns too: a subject
  who is granted a derived sensitive metric by name sees the metrics of its
  formula. The property now says so.
* `FramesAreTheirOwn` had claimed that a preview is the draft's while no error
  is shown. A failed preview keeps the earlier one, and a later save that
  succeeds clears the message (`report-builder.tsx:98-141`), which takes more
  clicks than the run has. The property now leaves out the preview of a draft
  whose own preview failed.
* `FiguresAreExact` and `ReadsCoverPublished` hold of fewer figures than had been
  stated. The residual of the top N adds up the products of a store in all their
  currencies, under the currency of one of them, so a figure of products is exact
  in sum over products and currencies, not per currency, and not under a filter
  by either. A measure that two of the cubes read both have is counted twice
  whatever the metric is (`net_twice`). Who is a new customer is as of the
  job's passes, so these figures are exact if no order had been
  back-dated when the cubes were read (not when the report ends: an order that
  comes later does no harm), and they may go down as well as up, so they are not
  bounded by what was published. In return neither statement needs the tile's
  status any more.
* `MergeConserves` needs a top N that keeps its rest by a metric that adds up. By
  another, what is beyond the first N is not collected in a rest.
* `MetricValue` had one `CASE` of overlapping cases, which leaves open which one
  is meant; they are told apart now.
* `FactLedger` had needed create-only puts. With `contested` cells it is
  implemented with the upsert.
* Exclusion and release had been proved for create-only puts up to a first crash.
  What makes them fail is always a put that had not read the lock it replaces;
  with that named (`overrun`), both hold with the upsert and through crashes.
* `NothingIsSkipped` had rested on facts that keep the newest version. With the
  writers' steps apart, the orders of `lost` are the exact difference.

### Proved, no longer run
`RegressionOnlyByCreateRace`, `FoldsFollowCompleteScans`,
`OpenAtThreshold`, `WaitersHaveALoad` and the type invariants of `OrderFacts`,
`JobLock`, `Partition`, `RollupJob` and `ReportRun` are theorems, and checked by no run.

### What stays with TLC
* Liveness: `RequestsAreAnswered`, `ConvergesUnlessMoved`, `CrashedLockExpires`.
  TLAPS reaches neither fairness nor ENABLED.
* `PlannedIsAccepted`, `MarksShowAnswers`, `ChartsFindTheirFields`: they hold of
  the reports and descriptors there are, not of all. `PlannedIsAccepted` is an
  equivalence: it names the four kinds of query that are planned and refused.

## 5. What is not modelled

* *In modelled parts.* Layout, titles, formats, links and colours; the `having`
  clause, which no built-in report has; priorities and quota headroom of the
  planner, which no caller passes; redactions and minimum aggregations, which are
  resolved and read nowhere; `requiredCapabilities.permissions`, which no built-in
  report states; the previous year aligned by date, which none asks for; the ghost
  of a comparison in a chart; the status message of the builder; the demo mode of
  ct-native and GA4; tokens, sessions and the shared secret; exports; limits of
  rows; the hashing of customers and the digits of currencies.
* *Whole parts.* The ERP extract (nothing reads the objects it writes, and the
  live mode of its source answers 501), the paging and the memo of the category
  resolver (the products and categories it reads are constants), the sample
  connector (its metrics are not in the registry), the page of data sources (shows
  the answer of one call), scripts, the event generator, deployment, generated
  types, HTTP and SDK internals.
* *Hazards without a property.* `select-source.ts:245` (a tile of which every
  metric is hidden makes the sort of the sources throw; the model has it as the
  outcome "error", and no statement says what it should be), `keying.ts:31` (the
  fact of an order that changes months stays in the old month too), `fold.ts:50`
  (facts are read by offset pages while others insert them).

## 6. Observations

What the models showed of the code beside the findings. None has a run of its own.

Facts and job
* A writer that loses its compare-and-swap is dropped even if the winner was
  older, although `job.ts:63-64` has it that "the winner had a version too, so it is
  safe"; and of two writers that both found no fact the older may put last. The scan
  makes it good if it comes later; if the loser is the job itself, its cursor is
  saved past the order, and the older fact stays until the order changes again.
  An order deleted in commercetools keeps its fact.
* A run whose budget ends after the scan advances the watermark over days it has
  not folded, where `job.ts:245-250` says that everything modified up to `until` has
  been folded and that "a budget-truncated run makes no such claim".
* `lock.ts:88` says of the release that "we never delete a successor's lock". The
  delete passes no version: a run that read no lock, or an expired one of the same
  version, may claim between the release's read and its delete, and loses its lock.
* A late order of a customer whose later day was folded makes both count as new.
* A customer with two first orders on one day is in the cohort of the store whose
  fact is scanned first.
* `foldOrderCategoriesDaily` and `foldPromotionsDaily` join the parts of a cell's
  key with an empty string; the residual of `topNWithResidual` takes the currency
  of its first cell, so the products beyond the top N count towards one currency
  whatever theirs is. `customerGroup` is declared and in no cube.

* `getCategoryResolver` and `getChannelKeyMap` keep the promise of their first
  load, also when it is rejected: one failed load fails every later call of the
  process. What was loaded is never loaded again, so a category given to a product
  later is not seen before a restart.
* A restatement deletes the cursor before it purges the facts; a run under way
  puts its cursor back, and facts purged behind it are not rescanned.

Answers of ct-native
* `units`, `discount`, `shipments` are doubled like net revenue (`net_twice`) when
  a query reads two cubes that have them.
* `customers.active` is never written, `returns.units` never folded: both answer
  nothing, and the latter takes precedence over the ERP, which has it.
* A filter on a dimension a cube lacks empties its answer. An answer without rows
  is `empty`, which makes its tile partial.
* Live figures use the first breakdown dimension only, ignore the row scope of
  promotions, and have neither currency nor date, so a product count and money by
  category do not meet on one row. `kpi-variants` counts products. A grain of an
  hour would be read as a year.

Plans and merge
* Two or more sources and a tile with all metrics hidden: the run ends in 500.
* With a warehouse installed, ROAS is planned on it by the set cover and refused,
  since it does not answer across templates; likewise the ERP across datasets.
* GA4 declares its metrics live and at grains; they are planned without a range
  and refused. Any tile of a point in time is planned without a range, and only
  the live metrics of ct-native and the ERP answer that. ct-native refuses price
  metrics unless one currency is pinned, and stock or promotions next to another
  live metric; its descriptor tells neither.
* `date` is exempt from the dimensions per metric in the planner and not in
  `validateAgainstDescriptor`; a roll-up's grain is accepted by the one and refused
  by the other; `requiresFilters` is not looked at.
* The totals row adds up several currencies, where `report-definition.ts:31-36`
  says it is null; so does the bucket of others. Totals are taken after the limit,
  and a roll-up over time adds whatever the metric's aggregation is. A live row
  without a date is dropped by a roll-up.
* `onGrainMismatch` only adds notices; `requiresSources` is unused. In a lenient
  report a tile may be `ok` with unavailable metrics.

Access
* A denied base metric still shows as a column of a visible derived one, and the
  leaves of a sensitive metric granted by name are shown with it.
* `middleware/context.ts` says a subject without an id stays unrestricted;
  `resolveAccess` gives it nothing. `loadPolicies` reads the first hundred.
* The hash of an access frame has neither its metrics nor its permissions.
* The warehouse ignores filters and row scopes it declares; the ERP accepts any.

Gateway and GA4
* All requests pass once the cool-down is over. A 429 counts as a failure.
* A GA4 that is slow to fail outlasts the gateway's abort timer before its source
  falls back on the cache, and opens the breaker in front of cached figures.
* The key of a cached tile has the registry's `loadedAt`, so every reload makes
  new keys. `restatementEpoch` is never bumped. A stale value is never served.
* A gap in the comparison is cached for the full TTL. An invalidation does not
  stop a load in flight, which later requests join.
* A compare-and-swap lost by GA4's cache fails a query that has its figures; an
  older answer may overwrite a newer entry; GA4's answers are always `partial`.
* The windows the pre-warm job asks for end today.

App
* Two runs of one request under way may show the older figures last
  (`use-report-query.ts:55`). Refresh passes the tab's cache, not the gateway's.
* A preview stands next to an edited draft without a mark, where
  `report-builder.tsx` says that it is exactly what a saved report will show.
* A save of which the list's refetch fails is reported as failed. Stored reports
  are written without a version. When their container cannot be read, an
  override falls back on the built-in report without a word. Deleting does not
  set the builder busy.
* A definition and its run may be of different versions of a report.
* Labels that coincide collapse in charts. A donut drops what is beyond seven
  slices; it and a treemap draw the first of their metrics. Lines and bars keep
  one currency per date or category. Missing bars of a further series and missing
  sizes of bubbles are drawn as 0 (`breakdown.tsx:110`, `scatter.tsx:55`), a missing
  step of a funnel not at all. A pivot adds up a ratio of money (`aov`) in its
  totals, where `pivot-table.tsx:25-26` says that a ratio is left blank
  (`charts.spec.ts:370` tests one declared not to add up), and money of several currencies.
  A comparison is keyed by its own dates, so it never lines up.
* The form lets through a sparkline without a dimension, a line of live metrics
  and a funnel of metrics that do not add up, which draw nothing, although
  `report-builder.tsx:83-84` and `types.ts:14-15` say that the builder cannot author
  a chart that will not draw. The filter bar
  offers only values already in the URL; one with a comma is split.

## 7. Plan

Done: facts, lock, partitions, job; source client, GA4 source, pre-warm pass and
their composition; registry, report run and cache; the whole way of a report from
orders to charts; the app's tab; the safety proofs of each.

Next, in this order:

1. The part of convergence that is safety, with orders that move.
2. `ChartsFindTheirFields` for any report from an assumption on its charts that
   TLC evaluates over the catalogue.
3. The memo of the category resolver, with loads that fail.
