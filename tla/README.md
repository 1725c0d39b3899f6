# Verification of BrokerageService

TLA+ modules that model the brokerage service, TLC configurations that check
them on small instances, and proofs that TLAPS checks for every instance.
Source paths are relative to the root of the repository.

## 1. The system

One Python code base runs in three roles (trading, realtime data, historical
data), each an asyncio event loop. Nothing is preempted between two awaits, so
in every module **one action is the code between two awaits** of one task;
calls given to an executor (`run_in_executor`) take effect at one point between
their start and their return. Where a crash between two file operations matters
(`RawSync`) the step is smaller: one file operation. What survives a crash is on
disk: JSONL journals, CSV and Parquet files, JSON indexes and job files.

| Component | State | Operations | Correct when |
|---|---|---|---|
| Order lifecycle (`order_open_service`, `order_close_service`, `operation_service`, `trading_core`, `position_guard`, `ostium_execution_adapter`, `ostium_client`) | operation registry and its journal, two idempotency caches, idempotency file, tasks, pending transactions | submit open/close, steps of the task, timeout of the closing handler, replay, restart | the answer to a poll is true, an error means nothing was sent, one key sends one order, operations settle |
| Realtime candle ingest (`ostium_candle_ingest_service`, `csv_store`) | symbols, tick buffers, paused and degraded sets, backoff deadlines, candle file | polling round, flush, `PUT /symbols`, start/stop | no tick lost, candles final and only of open minutes, a sick symbol comes back |
| Historical sync (`sync_manager`, `coverage_index`, `rebuild_coverage`, `parquet_store`) | jobs, month locks, global lock, `sync_jobs.json`, coverage index, Parquet months | start a job, workers, retries, rebuild, load | one job per range, no month fetched twice, honest counters, jobs end |
| WebSocket hub and live market data (`hub`, `ws_routes`, `live_marketdata_service`, `candle_builder`) | connections, subscriptions, sequence, replay buffer, tick queue, open candles | connect, subscribe, broadcast, resume, disconnect, tick loop | a subscriber misses nothing, a resume brings everything or is refused, candles go forward |
| Paper execution (`paper_engine`, `paper_risk_engine`, `paper_venue_adapter`) | positions, balance, trade history | open, close, SL/TP, liquidation, time-to-live, price rounds | a position is settled once, money is conserved, overdue positions are closed |
| Raw BI5 sync (`raw_sync_worker`, `raw_bi5_store`) | job files, lock file, day files, manifests, watermark | create, run, resume | one runner, done means complete, files are immutable |
| Candle store and backfill (`csv_store`, `gap_validator`, `backfill_service`) | one CSV file per month, the round of the backfill | append, patch, range reads, gaps, rounds | a round fills its range whatever is written meanwhile |
| Candle queries (`read_through_service`, `candle_stitching_service`, `mixed_ohlcv_stitcher`, `query_service`) | none of their own | `/broker/ohlcv`, `/api/v1/data/ohlcv` with pages | a response is complete exactly if it says so, pages neither repeat nor skip |
| Data layer service (`data_layer_prod_service`) | uptime, degradation, published status | start with prefetch, writer and gates loops, stop | degraded means something is missing, ready means covered, a repair recovers |
| Runtime (`lifecycle/manager`), reconcile, SL/TP store | | | not wired into the application |
| Providers, calendar, integrity gate, reports, tools | files, tables | see `PROJECT.json` | see `PROJECT.json` |

Interactions: the HTTP routes call the order services, which call the trading
core, which asks the position guard and a venue adapter (Ostium, or paper when
the canary says so). The realtime ingest, the live market data service, the
data layer's writer, the backfill and the read-through share the CSV candle
store; the queries read it while they write. Sync jobs, CLI tools and the
query service share the Parquet tree. The live market data service feeds candle
builder and hub, and gives the paper engine its prices.

Behaviours that are hard here: requests repeated by clients while the first is
still running; a timer that races a task; transactions that leave the process
before anything is recorded; append-only files whose writes are allowed to
fail; the time or the price of a round that grows old during the round; an
index rewritten as a whole by two parties; locks held across awaits, or released
before what they protect is used; a buffer that turns over while it is replayed;
a process that dies between two files that belong together; gaps computed
before an await and filled after it. `PROJECT.json` lists each as a hazard at
its line, with the properties that would catch it, or the reason why none does.

## 2. Modules

| Module | Models | Checked by | Proved by |
|---|---|---|---|
| `OperationLedger` | abstract: what a client is promised about an operation | as `LedgerKept` of `OrderLifecycle` | `OrderLifecycle_proofs` |
| `OrderLifecycle` | opening and closing through the Ostium adapter; implements `OperationLedger` | `MCOrderLifecycle`: `OrderLifecycle.cfg`, `OrderLifecycleLive.cfg`, `CloseRetry.cfg` | `OrderLifecycle_proofs` |
| `CandleIngest` | the Ostium polling loop and its store | `MCCandleIngest`: `CandleIngest.cfg` | `CandleIngest_proofs` |
| `SyncManager` | sync jobs, locks, coverage index | `MCSyncManager`: `SyncManager.cfg`, `SyncManagerLive.cfg` | `SyncManager_proofs` |
| `EventStream` | abstract: what a WebSocket client is promised | as `PromisesKept` of `LiveMarketData` | `LiveMarketData_proofs` |
| `WebSocketHub` | the hub and the endpoint of each connection | through `LiveMarketData` | `LiveMarketData_proofs` |
| `LiveMarketData` | feed, tick loop, candle builder; EXTENDS `WebSocketHub`, implements `EventStream` | `MCLiveMarketData`: `LiveMarketData.cfg` | `LiveMarketData_proofs` |
| `PaperAccount` | abstract: an account whose positions are settled once | as `AccountKept` of `PaperEngine` | `PaperEngine_proofs` |
| `PaperEngine` | engine, venue adapter and risk loop; implements `PaperAccount` | `MCPaperEngine`: `PaperEngine.cfg` | `PaperEngine_proofs` |
| `RawSync` | raw BI5 jobs, lock, files | `MCRawSync`: `RawSync.cfg` | `RawSync_proofs` |
| `CandleStore` | the monthly CSV files: writers and readers as operators | through the next three | `CandleQueries_proofs`, `DataLayer_proofs` |
| `Backfill` | backfill rounds beside a live writer; EXTENDS `CandleStore` | through `CandleQueries` | `CandleQueries_proofs` |
| `CandleQueries` | the two candle APIs over every state of `Backfill`, which it EXTENDS | `MCCandleQueries`: `CandleQueries.cfg` | `CandleQueries_proofs` |
| `DataLayer` | prefetch, writer loop, gates, status; EXTENDS `CandleStore` | `MCDataLayer`: `DataLayer.cfg`, `ReopenGate.cfg` | `DataLayer_proofs` |

The definitions with the comment "Mutant of X" are plausible bugs of X. Each is
checked, in place of X, to break the property it was written for, which shows
that the property can fail. They are used by no specification.

### OperationLedger, OrderLifecycle

| Variables | In the code |
|---|---|
| `store`, `journal` | `OperationService._store`, last line per id of `operations.jsonl` |
| `openCache`, `closeCache` | `_open_idempotency_cache`, `_close_idempotency_cache` |
| `idem` | the idempotency JSONL file of the adapter |
| `task`, `result`, `success` | the await the background task is at, what the adapter returned |
| `waiting` | closing handlers in `asyncio.wait` |
| `orders`, `trades` | the chain: transactions not yet executed, trade indexes in use |
| `sent`, `sentNow`, `unsaved` | history, for the properties |

`SubmitOpen` is `fast_ack_open`; `OpenGate`, `OpenGuard` (or `OpenGuardBlind`,
when the adapter turns a failed scan into no positions), `OpenPrice`,
`SendOrder`, `OpenReceipt`, `FindTrade` / `FindTradeUnsaved` / `FindGivesUp`
and `OpenConfirm` are the awaits of `_run_open_operation`. `SubmitClose`,
`CloseCheck`, `ClosePrice`, `SendOrder`, `CloseReceipt`, `CloseConfirm` are those
of `_run_close`; `HandlerResumes` is the end of `asyncio.wait`. `VenueFills` and
`VenueDrops` are the chain, `Restart` a crash with `rehydrate`.
Every await of the chain may raise; with `FlakyReads` a read may miss slots,
with `DiskFaults` an append may fail.

`OperationLedger` knows none of this: an operation is new, working or over, and
what a poll is told of it and what is kept on disk change together unless the
disk fails. The mapping is the registry itself, with `PhaseOf` for the task.

Left out: which of the gates in front of the guard refuses (quality gate,
canary, live guards: one refusal), the routing to the paper venue, the limit of
lines rehydrated (`OPERATIONS_REHYDRATE_MAX_LINES`), prices and slippage, the
read-only routes.

### CandleIngest

A tick is its timestamp, a candle the set of ticks it was built from. `now` is
the clock, `started` the `now_ts` a round goes on using. `StartRound` is the
round up to the first fetch (pause, resume, flush of what has just been paused,
choice of the symbols to poll); `PollTick` and `PollFails` are one fetch each;
`FinishRound` is the flush and the gate metrics. `FlushRaises` is a failing append:
it abandons the round, with some symbols done and one of them in part.
`UpdateSymbols` is `PUT /symbols`; `Restart` loses what is buffered.

Left out: prices, displayed counters, the heartbeat polls (they refresh a
displayed price only), the other writers of the candle store, and the exact
arithmetic of missing minutes and warm-up, which is a choice in `Verdicts`.

### SyncManager

`StartJob` / `JobCreated` / `StartFails` are `start_job` before and after the
rebuild it awaits with the global lock held; `TakeMonth` to `CountMonth` are a
worker in `_process_month`, the month lock being held in the stages of
`Holding`; `WorkersDone`, `JobEnds`, `NothingToDo` are `_run_job`. `Restart` is a
crash with `_load_jobs`. A scan of the disk may or may not see what is written
while it runs (`Found`), and a read-modify-write of the index may overwrite
what the rebuild wrote (`WriteIndex`). `disk` are the months whose file can be
read, `spoiled` those whose file has no row that can be: the rebuild (`Rebuilt`)
gives them the mark of a month without data, and `_process_month` skips them.

Left out: contents of a month beyond that, suspect months, ETA, the limit of
20 persisted jobs, a failing write of `sync_jobs.json`, a file of which only the
footer can be read, a file that cannot be opened for a moment only, and a
file that is rewritten twice during one scan.

### EventStream, WebSocketHub, LiveMarketData

| Variables | In the code |
|---|---|
| `conns`, `subs`, `subscribers`, `buffer`, `log` | `_connections`, `_subscriptions`, `_channel_subscribers`, `_buffer`; `_seq` is the length of `log` |
| `lock` | the endpoint that holds `_lock` across an await; all other uses of the lock are within one step |
| `endpoint`, `cast` | the await of each endpoint task; the sends a broadcast has left |
| `queue`, `loop`, `lastTicker`, `builder`, `store` | the feed's queue, the tick loop, `_last_ticker_broadcast`, the minute of each `CandleBuilder`, the candle files |
| `up`, `got`, `cursor` | the clients |

A broadcast numbers and buffers its message under the lock, reads the
subscribers, and then sends to one after another. A resume reads the buffer
under the lock and replays it without the lock, except for the answer "resync
required", which is sent with the lock held. `Serve` are the steps of an
endpoint that only wait. `TakeTick` to `CandleSent` are the awaits of the tick
loop; `Build` is `on_tick` with the append of the closed candle. `Emit` is a
round of the feed, whose clock may be set back.

`EventStream` knows neither locks, buffers nor tasks: an event is *owed* to a
client from its publication (or from an accepted resume), and delivered unless
the connection is cut. The refinement maps `owed` to what a broadcast and a
replay still have to send.

Simplified: the endpoint of a client that went away has ended before the client
connects again. Left out: prices, error replies to malformed requests,
statistics, heartbeats.

### PaperAccount, PaperEngine

The engine itself never suspends, so each of its operations is one step;
`AskOpen` / `RunOpen` and `AskClose` / `RunClose` are a request before and
after the await for its price. `RiskAsks` is one fetch of the risk loop,
`RiskChecks` the checks of every position against the prices of the round:
liquidation, stop loss, take profit, time to live, in this order. Amounts are
integers and the rates are constants; the results are rounded down.

`PaperAccount` has positions that are new, open or settled, and cash. The
refinement maps the table of positions and the trade history to it.

In the application as it is wired the price callback never suspends
(`_get_price` awaits nothing); the model lets it, as the adapter accepts
any awaitable, and so has more interleavings than the code.

Left out: volumes, timestamps of fills, and the persistence of the account,
which the code does not have: a restart starts with the initial balance. The
code does not refuse an opening whose costs exceed what is left after the
collateral, so `balance` may be negative, and `PaperAccount` allows that.

### RawSync

Each file operation is a step; `loop` names the task whose section between
two awaits is running, so other tasks of the process interleave only at
downloads, whereas `Crash`, `DiskError` and `Cancel` (shutdown) come between any
two. `RunJob` is `run_job` up to its first save, `Step` the rest of it: the walk
over symbols and days, the file, its manifest, the watermark, the saved
counters, the end in the `finally` clause. `Unlock` is external: an operator
who removes the lock file of a dead process.

Left out: two processes on one directory, hashes and urls, `list_jobs` and
`snapshot`. No reader uses the watermark; no property is about it. A day file
of length zero cannot be written, so the branch for it is unreachable. A lock
file that cannot be read would be taken over (`raw_sync_worker.py:145-148`);
the model has no such file, because it is written in one step.

### CandleStore, Backfill, CandleQueries

A candle is its minute, a file the set of the minutes in it, a zone the
distance of its month boundaries from those of UTC. The code files a candle
under the month of the time zone its own time stamp carries, and looks it up
under the zone of the requested start, so the operators take the zone:
`Patch(UTC, ...)`, `ReadRange(Canonical, ...)`. Two live writers differ in it:
`CandleBuilder` stamps in the canonical zone, the Ostium ingest in UTC.
`Backfill` has both (`LiveAppend`, `Zone`), and `writers` says which of them the
process runs: the builder alone (trading role with its own feed), the ingest
alone (realtime data layer), or both on one store (monolith). A `BackfillService`
exists only beside the builder (`app_factory.py:414`). Its round is `Begin`, one
`Fill` or `SkipGap` per gap, `End`, with the store open to the live writers in
between; what the provider answers is patched as it is, in UTC, also what was not
asked for.

`Sorted` names the k-th minute by the number of minutes before it, which is
what sorting a set of minutes gives, and which, unlike the sort of the library,
can be reasoned about.

`CandleQueries` adds no state. A request is an operator of the state in which
it reads the files; what the providers answer is any set of minutes that is
complete or lacks one. The frontier of a stitched range is taken before the
await and the store is read after it, so the frontier is quantified separately
from the store. `FromSource` serves what the fallback answers as it is, cuts a
stitched range to the newest `limit`, and refuses with 422 what the policy denies
and with 503 what needs a provider that is not there. A range that is named
comes with a limit of at least its length (`candle_helpers.py:41-48`).

Left out: prices, validation report, response headers, the policies that decide
whether two sources agree (a choice), the legacy path without Parquet, ranges
that do not begin and end at a minute. Read-through is evaluated in every state,
though the code offers it only where a `BackfillService` runs.

### DataLayer

`Start` is `start` with or without a provider, `Prefetched` its prefetch,
`WriterAsks` / `WriterAnswered` a round of the writer loop around its await,
`GatesRound` a round that asks for nothing. Every round ends in `Gates`, which
is `_update_gate_metrics` with the publication of the status. `Observed` is
the uptime, less the closed and the missing minutes; when the window cannot be
read, the except clause counts nothing as missing or closed (`Count`, `counted`).
Without a provider no loop runs, but the startup gate publishes a status (`Enter`).
The other writers of the store are the ingest (`LiveAppend`, in its mode only) and
any repair (`Repair`). All of them stamp in UTC: the module is about the data
layer roles and the monolith without `CandleBuilder`; a process that also
runs `CandleBuilder` on the same store is outside of it.

Left out: symbols without a calendar, the second and later symbols (they share
nothing but the status), counters nothing reads, and that `symbol_state` is also
written by the ingest.

## 3. What the runs show

`order_safety` (three operations, one symbol, two trade indexes, one key, one
restart, failing appends). Three operations are a first request, its retry and
a closing, or two independent openings and a retry; two indexes are a position
and another one that can be mistaken for it; two lives are one recovery, and
what survives it is only the two files.
`RegistryIsTruthful`: whatever the order of timer and task, a poll sees an
unsettled status exactly while the task runs, and a restart never contradicts
an acknowledged outcome. `ErrorMeansNothingSent`: a client may retry after an
error, with one exception the model names (the idempotency entry could not be
written). `OneOrderPerKey`, `ReplayNamesSamePosition`: both idempotency
mechanisms. `LedgerKept`: the services implement `OperationLedger`, so an
operation is accepted once, sends at most one transaction, is settled once (no
late writer), and an opening key sends once in a life. Operations are
interchangeable, so the run is symmetric in them.

`order_liveness` (two operations, flaky reads, no restart): operations settle
if their awaits return.

`candle_ingest` (one answering and one silent symbol, minutes of two units, a
break in the second minute, four minutes, `PUT /symbols`, failing
appends, one restart; the lists of `PUT /symbols` hold one symbol at a time, so
that a second symbol keeps its ticks in a failing flush is shown by the
theorem only): `NoTickLost`, `CandlesAreFinal`, `NoBreakCandles`, and in
`TypeOK` the three dictionaries of the backoff in step. The minutes are one
before the break, the break and two after it; two units are the least that
has a "still running" and an "over"; the backoff reaches its cap at once.

`sync_jobs` (two jobs of two workers each, two months, the ranges {1, 2} and
{2}, one retry, failing index access, files that cannot be read back, one restart):
`OneRunningJobPerRange`, `RunningJobIsRun`, `NoRefetch`, `DoneMeansSynced`,
`IndexClaimsOnlyFiles`, and in `TypeOK` the counters of a job. `DoneMeansSynced`
promises for each month of a finished job a file, readable or not, or that the
source has no data; that it need not be readable is one of the divergences below.
The ranges overlap in one month, so the month
lock is contended, between jobs of different keys; jobs are interchangeable,
so the run is symmetric in them.

`sync_liveness` (the same with one worker per job and without a restart, which
would end the obligation to finish): `EveryJobEnds`, with both the month lock and
the global lock contended by the two jobs.

`live_feed` (two clients, one symbol, a buffer of two events, a queue of one
tick, three rounds of the feed, one of them possibly with the clock set back,
two connections and three requests over all, failing appends, one restart).
`PromisesKept`: the hub refines `EventStream`. `AnnouncementsAreTrue`: candles
are broadcast in increasing order, each once, and are on disk unless the append
raised. `LoopComesBack`: the tick loop is stuck neither behind a slow client nor
behind the lock. A buffer of two is passed by three events, and three rounds
give up to five; two connections are two clients or one that comes back; a
queue of one already drops ticks.

`paper_trading` (two openings, one closing, prices 8 and 16, a time to live of
one unit). A long bought at 16 is liquidated at 8, one bought at 8 is under its
stop, a short takes its profit or is liquidated: every verdict of the loop
happens, at a price that is fresh, old or missing. `AccountKept`: the engine
refines `PaperAccount`. `ManualClosingsAreAnswered`: "closed" is told to the
request that closed. `OverdueIsClosed`: also without any price.

`raw_sync` (two jobs, two symbols, two days, overlapping ranges, one job
forced, one fault anywhere). `OneJobAtATime`, `DoneIsComplete`, `Immutable`,
`TasksEnd`. One fault is enough to leave any pair of files apart, a job half
counted or the lock behind; the second job and the resumed one meet what it left.

`candle_backfill` (five minutes in months of two, a canonical zone that is off
by one, each of the three sets of live writers, pages of one and two, four
Parquet histories). `RoundFills` is about the writers: a round that is answered in
full leaves nothing of its range missing, whichever zone the candles carry that
are written meanwhile. `ResponseIsHonest` and `PagesAreExact` ask every range and
page in every state: read-through with its limit of missing minutes, stitched at
a frontier that has moved meanwhile, paged over both sources. Five minutes are
two whole months and a seam within a gap; off by one in months of two, every
second minute lies between the two month boundaries. Each property names where the
code gives way, and without each of the following conditions TLC finds the
property violated: a minute in two files (`Twice`) may hide a gap from the count
that decides whether a range is complete; where files overlap in a range
(`Overlapping`), what is read of the store is out of order; a canonical read may
miss a minute between the two month boundaries (`FindsItsMonths` is about all
others); a page is exact over the store of the realtime data layer, which the
ingest alone writes (`writers = {"ingest"}`), the one store that pages are
configured to read (`data_routes.py:253-258`); and a walk over pages may stop early.

`data_layer` (seven minutes, days of four, one closed minute, all three write
modes, restarts at any point, answers with holes and duplicates, counts that
fail). `MissingIsReal`, `ReadyIsCovered`, `MissingRecovers`, and in `TypeOK` the range
of every counter. The window has moved past the start and over the break.
`ReadyIsCovered` is about the rounds that could read the window: in the others the
code counts nothing as missing and may turn ready on its uptime alone.

Runs that end in a violation, each of a sentence of the repository:

| Run | The code | The sentence |
|---|---|---|
| `close_retry` | a closing is cached when it has finished, so a retry before that sends again | `models.py:220` "sense segona TX" |
| `reopen_gate` | the closed minutes count as staleness in the first round after a reopening, and this degradation is never lifted | `realtime_datalayer_estat.md:139` "DEGRADED només per errors reals durant market_open" |

Divergences met while modelling that have no run of their own:

* two concurrent openings for one symbol both pass the position guard, because
  nothing is reserved between the guard and the order (`position_guard.py:2`
  "evita obrir posicions duplicades per símbol");
* after a restart a processed `client_order_id` is refused by the guard because
  of its own position, before the adapter can answer with it
  (`trading_core.py:179`, `models.py:183`);
* a failing append in the round that pauses a symbol leaves its last minute
  buffered until the market opens (`ostium_candle_ingest_service.py:299-304`);
* `_mark_degraded` resets the deadline just before it is doubled, so the backoff
  never exceeds twice its base (`ostium_candle_ingest_service.py:365`, `:503`);
* the time of the round makes a current tick look like one of the future when
  the fetches before it took long (`ostium_candle_ingest_service.py:335`, `:397`);
* every rebuild of the coverage index drops the entries of empty months, so they
  are fetched again (`rebuild_coverage.py:178`, against `sync_manager.py:343`);
* a rebuild marks a file that cannot be read or has no rows as an empty month
  (`rebuild_coverage.py:122-150`); the next job skips it (`sync_manager.py:349-357`)
  and ends DONE, where `sync_manager.py:344` says "API confirmed no data";
* when the disk refuses the last save of a raw job, the lock file stays, and every
  later job fails until it is removed by hand (`raw_sync_worker.py:313`);
* the paper risk loop judges a position by prices it fetched before the position
  was opened (`paper_risk_engine.py:117`), and the paper balance may go below zero
  (`paper_engine.py:122`);
* paging stops early when a full page of Parquet rows holds all candles the
  store has left, although Parquet has more (`mixed_ohlcv_stitcher.py:175`);
* candles filed under UTC (backfill, read-through, ingest) are not found at the
  seam of two months by a read whose range carries the canonical zone and ends
  within the seam, and the candles of `CandleBuilder` not by a UTC read;
* where two writers file a minute of the seam under different months, or two files
  overlap, a range has the minute twice or is out of order, and it is called
  complete although another minute is missing, because only the number of the
  candles is compared (`candle.py:129` "is_complete: Whether range has no gaps");
* if the window of the gates cannot be read, nothing counts as missing or closed
  and the layer turns ready without candles (`data_layer_prod_service.py:340`);
* with `DATA_LAYER_GATES_MAX_MISSING_PER_24H` set to zero, a symbol is degraded for the
  minute that is still running; the default is one
  (`data_layer_prod_service.py:89`, `:376`).

## 4. Fairness

`OrderLifecycle.FairSpec` assumes that an await of a task returns or raises: the
event loop resumes it then. The code does not put a timeout on every call to the
chain, so what `EveryOperationSettles` shows is conditional on that: no loop of
polls, no race and no stale read keeps an operation unsettled for ever. Nothing is
assumed of clients, of the venue, of the timer of `asyncio.wait` or of restarts.

`SyncManager.FairSpec` assumes that the rebuild in the executor returns (weak
fairness) and is strongly fair to the steps of each job: asyncio locks serve
their waiters in order, so a job that again and again finds its lock free gets
it; sleeps and fetches end. A job takes finitely many steps, so fairness to
the job as a whole is enough.

`LiveMarketData.FairSpec` assumes that a send returns, because the transport
takes the message or the connection breaks, and that the loop runs when it can
(weak fairness); the broadcasts and the endpoints wait for the lock, whose
waiters are served in order (strong fairness). Nothing is assumed of clients
or of the feed.

`PaperEngine.FairSpec`: the risk loop sleeps for a fixed time and a fetched
price arrives or fails. `RawSync.FairSpec`: the event loop runs what is ready
and a download ends by its timeout; nobody need start a job or remove a lock.
`DataLayer.FairSpec`: the loops wake up and a provider call returns or times
out; `MissingRecovers` is conditional on the repair, which nobody owes.

`CandleIngest` and `Backfill` have no liveness property: both loops run forever,
and what a round owes is a safety property (`RoundFills`), as is the
bound of the backoff.

## 5. What is proved

Every safety invariant and every action property of the runs, for every value
of the constants that satisfies the named assumptions of the modules. One
theorem (`DegradedIsReal`) needs one hypothesis more, named below. Each theorem follows from an
inductive invariant, and the proofs that a step keeps it have one case per
action. `PROJECT.json` lists the theorems with the property each states.

**`OrderLifecycle_proofs`**: any operations, keys, symbols, indexes, number of
lives, with and without faults.

* `TypeCorrect`, `RegistryCorrect`, `ErrorsAreBeforeTheOrder`, `SettledStatusIsFinal`,
  `KeySendsOneOrder`, `ReplaysAgree`, `OperationsAreOneShot`.
* `OperationsAreOneShot` is the refinement of `OperationLedger`: submitting is
  `Accept`, the transaction is `Send`, the end of a task is `Settle`, a timeout of the
  closing handler is `Pend`, a restart is `Crash`, and every other await, the venue
  included, is a stutter. `Send` needs both invariants: that it is the first of
  its operation comes from `RegistryInv`, that it is the first of its key in
  this life from `KeyInv`. `SettledIsFinal` needs no run of its own, because the
  ledger implies it; it is stated and proved in this module.
* That a late "pending" cannot overwrite a settled status depends on which
  tasks may still be waited for, and that an error comes before the transaction
  only depends on where the transaction is sent. `RegistryInv` adds `Control`, what
  is true of an operation at each await. `TaskStepEffect` says once what the
  fourteen steps of a task have in common: each moves the task to its next await
  or settles the operation; the proof is then about these two cases.
* `KeyInv`: the cache of a key names the one operation of this life created for
  it. `ReplayInv` builds on it: a task past its lookup has found nothing filed
  under its key, and nobody else files anything under it before it does.

**`SyncManager_proofs`**: any jobs, months, ranges, workers, retries, restarts,
with and without index faults (months are finitely many).

* `OneRunningJob`, `NoStaleRunningJob`, `FetchedOnce`, `DoneIsSynced`, `IndexIsBacked`,
  from `SyncInv`. What it adds: a running job is the one its key names and
  nobody registers while `start_job` awaits its rebuild (`Registered`); two jobs
  are never inside one month (`MonthMutex`); the stage of a month says what is on
  disk (`StageTruth`); a month that is over has a file, is empty or counted as
  failed (`Accounted`), and a scan has found no file that is not there, which is why a job without failures is DONE; and the
  persisted status is as true as the one in memory (`SavedTruth`), which carries
  `DoneMeansSynced` over a restart. `MonthMoves` says once what a step of
  `_process_month` may do.
* `TypeCorrect`, with the counters: by `TallyInv`, the tallies of a job and its
  months that are still pending add up to its range.

**`LiveMarketData_proofs`**: any clients, channels, symbols, sizes of buffer and
queue.

* `TypeCorrect`: the rosters of the hub agree, the buffer is the tail of the
  log, an endpoint holds the lock exactly while it sends "resync required".
* `CandlesAnnouncedOnce`: `AnnouncementsAreTrue`. `AnnouncedInOrder` adds that all that
  was announced of a symbol is older than the minute being built, and that the
  candle about to be announced lies between the two.
* `HubKeepsPromises`: the refinement of `EventStream`, each step of the service
  being a step of the stream or a stutter. The interesting case is a resume:
  what is read under the lock and sent without it is all that the client has
  missed, because the buffer is the tail of the log and whatever is numbered
  later is owed to a client that is already subscribed.

**`PaperEngine_proofs`**: any orders, prices, stops, rates, times to live.

* `TypeCorrect`, with a balance that may become negative but stays an integer.
* `ClosingsAreAnswered`: `ToldOnce` says that exactly one request is told of a
  position closed by hand and none of another.
* `AccountIsKept`: the refinement of `PaperAccount`. A round of the risk loop closes
  a set of positions at once; the sum of their results, a fold in the model, is
  taken apart one position at a time (`SumIsSummedUp`).

**`RawSync_proofs`**: any jobs, symbols, days, faults at any step.

* `TypeCorrect`, `LockedWhileRunning`, `FilesAreImmutable`, `DoneJobsAreComplete`.
* `TurnsOK` is what asyncio gives: a task that does not have the loop is at its
  download. `WalkInv` counts: a task that has not failed misses no more of the
  files behind it than it has counted as failed, and what is saved says no more
  than that.

**`CandleIngest_proofs`**: any symbols, calendar, backoff, list of symbols, with
failing appends and restarts.

* `TypeCorrect`: the three dictionaries in step, and no deadline beyond the cap
  although two clocks enter it (`started <= now` is what makes it inductive).
* `NoBreakIsStored`, `CandlesStay`, `TicksAreKept`: from `SoundInv`. `FlushedTo` says
  what a flush does to a symbol, whether complete, cut short or not at all, so
  that the failing flush is no case of its own.

**`CandleQueries_proofs`** (`CandleStore`, `Backfill`, `CandleQueries`): any months,
canonical zone, window, limits and histories.

* `TypeCorrect`, `RoundIsFilled`, `ResponsesAreHonest`, `PagesAreTheNextCandles`.
* No hypothesis on the zones of the writers: a minute is in one of the two files its
  zones name (`Filed`, part of `TypeOK`). What a read of a range returns is then
  taken apart (`ReadRangeReads`): each candle of the range in the files it walks,
  in ascending order unless files overlap, each once unless one is in two
  files. `CanonicalFindsItsMonths` and, without the builder, `ReadRangeFindsAll` say
  what a walk over the months of one zone finds of candles filed by the other.
* `BackfillInv` adds to `RoundFills` that the gaps of a round are within its range;
  `FindGapsFinds`, `GapsAreApart` and `FindGapsCovers` say of `find_gaps` which
  minutes are in a gap and that gaps are apart: the first two for every ascending
  sequence, the last for any sequence. The order in which gaps are filled does
  not enter the proof. A page is exact because cutting each source to the limit
  before the merge cuts nothing of the merged page (`CutAndMerge`).

**`DataLayer_proofs`**: any calendar, thresholds, modes, restarts.

* `TypeCorrect` with the ranges of the counters, `ReadyHasCandles`, and
  `DegradedIsReal` under `MaxMissing24h # 0`. The
  hypothesis was found by the proof and TLC confirms it: with zero the minute
  that is still running is enough to degrade a symbol. The default is one
  (`data_layer_prod_service.py:89`).
* `LayerInv` adds that no stored candle is of the running minute or a later one
  (`Past`). `MissingIsRight` and `ObservedIsRight` are about the counting: at
  most one of the minutes counted as missing is not really missing, and no
  closed minute counts as observed.

How the data is reasoned about. The provers cannot use an induction theorem
with an operator as parameter, so an induction over minutes, sequences or sets
is a least-element argument: if the claim fails somewhere, take the least
number where it fails (`LeastNat`, `UpTo`, `SumsUpExists`). Folds are unfolded
once, to the function they define. `CandleQueries` and `DataLayer` both extend
`CandleStore` with variables of their own, so the lemmas about the store they
share are proved in both modules.

Only model-checked, because liveness and ENABLED are out of the prover's reach:
`EveryOperationSettles`, `EveryJobEnds`, `LoopComesBack`,
`OverdueIsClosed`, `TasksEnd`, `MissingRecovers`; and the two runs that end in a
violation.

## 6. Plan

The safety properties are proved; what may follow:

1. More modelling: `OrderLifecycle` with the paper venue and the canary routing,
   the 20-job limit of `sync_jobs.json`, two processes on one raw store.
2. `DataLayer` beside `CandleBuilder` on one store, with the canonical zone in
   its counts.
3. The lemmas about `CandleStore` in a module of their own.

Recursive functions or folds are used instead of `RECURSIVE` operators throughout.

## 7. Not modelled

The components with status `not_modelled` in `PROJECT.json`, with their
reasons: code that the application does not start (`ServiceManager`, reconcile
and the SL/TP store), read-only routes and reports, binary decoding and HTTP
providers, numeric checks of prices, indicators and backtests, wiring and
configuration, one-shot tools, the user interface, the laboratory and the
archive. They make up most of the repository by lines, and have no concurrent
or durable state of their own.

Of the components that are modelled, section 2 names under each module what
is left out. The common abstractions: prices (a candle is its minute, a tick
its time; only the paper engine computes with them), wording of replies, logging
and metrics that nothing reads.
