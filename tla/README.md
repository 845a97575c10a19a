# Quant Fund Dashboard: specifications and proofs

TLA+ models of the data pipeline behind the dashboard: the jobs that fetch
fund and ETF data from TSETMC, validate it, store it in Postgres and report on
it. Python line numbers below and in the modules refer to `src/`.

## 1. The system

One worker process (`worker.py`) runs every job once at boot, one after the
other, and then on intervals in the threads of an APScheduler
(`max_instances=1`, `coalesce=True`): at most one instance of a job runs at a
time, jobs of different kinds overlap freely. One web process
(`main.py`, `routers/web.py`) serves pages and JSON from the same database, some
of it through a Redis cache. Both containers run `scripts/run_migrations.py`
before they start. The database runs at READ COMMITTED; the SQLAlchemy session
is opened with `autoflush=False` (`core/database.py:14`).

| Part | State it keeps | Operations | What is hard about it |
|---|---|---|---|
| History backfill, `services/history_bootstrap.py` | `fund_histories`, `history_backfill_state` (checked_at, source_count), `etf_market_histories` | select a batch, fetch, upsert, fill ETF prices, record the attempt | each step fails on its own; restarts; retry windows against the passing of time; starvation by dead sources |
| Progress endpoint, `routers/web.py:615-677` | none | three counting statements | they see three different databases |
| Fund sync, `services/fund_sync.py` with `validation.py`, `preprocessing.py`, `data_quality.py` | `funds`, `fund_histories`, `data_quality_issues`, `sync_status` | fetch a category; clean, validate, quarantine or upsert each record; commit; write the status; invalidate the cache | one transaction over hundreds of records; a refused statement poisons it; two commits; failure of the second |
| Circuit breaker, `services/providers.py:44-123` | failures, is_open, last_failure_time: one instance for all threads | can_execute, record_success, record_failure; calls with retries and pauses | attempts already admitted when it opens; late successes; lock-out |
| ETF sync, `services/tasks.py` | `etf_market`, `etf_market_histories`, `funds.ins_code` | network phase; per entry: check the mapping, match, choose the NAV, upsert | unflushed objects against SQL filters; data fetched before the transaction; self-healing that must converge |
| Benchmark sync, `services/benchmark_sync.py` | `benchmark_histories` | incremental upsert in one transaction | the source is late, corrects, leaves out, sends what is no number; only days after the newest are written |
| Validation sweep, `services/validation_sweep.py`, `validation.py:84-258` | `data_quality_issues` | outliers, gaps, staleness of every fund | thresholds of one rule against the window of another; index arithmetic over lists with missing values; rows change between the SELECT and the INSERT |
| Chart of a fund, `routers/web.py:131-298` with `analytics.py`, `risk.py`, `repositories.py:213-247` | none | two reads of the rows, one of the index; drawdown, flows, comparison | the reads see different databases; missing and zero values; two series with different days |
| Boot, `scripts/run_migrations.py` | `schema_migrations`, the tables, the seed | create_all, lock, apply files, seed | two containers at once; crashes |
| Cache, `services/cache_service.py`, `routers/web.py:405-494` | Redis keys with a TTL | fill, invalidate | a fill that races the invalidation; which keys are invalidated |
| Statistics, the rest of `services/analytics.py`, `risk.py`, `etf_analytics.py` | none | returns, volatility, Sharpe ratio | floating point |
| Pages, templates, browser scripts | none | rendering, polling | none for this project |

What makes each part correct, in a sentence: the backfill's evidence never
claims more than is stored, every reachable source is eventually complete and
no source is asked too often; the progress number neither counts twice nor
forgets; a sync cycle stores what is sound, keeps out what is not, leaves a
trace of everything it kept out, and its status speaks of committed data; the
breaker opens after failures of several calls and closes again; the ETF mapping
is one to one, every premium rests on a NAV that agrees with the price, and
mistakes of the mapping heal; the index table has no hole that could have been
filled and follows its source; the sweep records a silent fund, unless it is a
market-making one (section 3), and points at or
before the row that jumped; the numbers and curves of one chart agree with each
other whatever was written while it was computed.

## 2. The modules

`MC*.tla` only define constants for TLC. Definitions named `Var...` are
plausible wrong versions of the definition that follows them (a dropped guard,
a missing reset); no specification uses them, and each property tells one of
them from the code.

### Backfill, ProgressLedger, BackfillAudit, BackfillReport, Backfill_proofs

`Backfill` is the job with its environment. One variable per column that
matters: `stored[f]` is the set of days with a row in `fund_histories`,
`sourceCount` and `checkedAge` are the columns of `history_backfill_state`
(None: no row, or NULL). Wall-clock times are ages in ticks that saturate just
beyond the largest window compared with. `pc`, `todo`, `cur`, `got`, `result`
are the program counter and the locals of `backfill_single_fund`; a batch is
ordered by the counts read when it was selected, as the query does.

| Action | Code |
|---|---|
| `NothingDue`, `SelectBatch` | `_funds_needing_backfill` (44-83) and the early return |
| `StartFund` | head of the loop (237-242) |
| `FetchFails`, `FetchAnswers` | `fetch_fund_history_detail`: None, or the records, of which the newest `Target` are kept |
| `StoreHistory` | the upserts and the commit of `_backfill_fund` |
| `FillEtfHistory` | 205-216: its own try block; a failure does not change what is returned |
| `StoreOrReloadFails` | an exception that reaches 243-245 |
| `MarkChecked`, `MarkFails` | `_mark_checked`, which swallows its own failure |
| `EndBatch`, `AbortBatch` | the end of the loop; a crash, or an exception outside the inner try |
| `LiveRow`, `NewDay`, `Tick` | the live sync's upsert of the newest day, the source, the clock |

`ProgressLedger` is what the backfill promises, apart from how it works: rows are
only added, a count of the source goes on record only when that many rows are
there, an attempt without an answer leaves the count alone, and nothing but an
attempt makes the record young. It has the three variables of the two tables and
four actions (`Grow`, `Attest`, `Attempt`, `Age`). `Backfill` has it as
`Ledger == INSTANCE ProgressLedger WITH ...`, variable by variable, and
`KeepsTheLedger == Ledger!Spec` says that the job, its failures, the live sync
and the clock implement it.

`BackfillAudit` adds history variables (age of the last download and of the last
committed answer); `BackfillReport` composes the backfill with the endpoint and
the fund sync's writes to `net_asset`. Not in these modules: values in the
rows, and several source records of one date (they would be counted apart in
source_count and stored as one row).

### FundSync, Publication, FundSync_proofs

One cycle of `sync_funds_pipeline`, started with the full list of categories or
the stock list. A published record keeps what the cycle tells apart: its
registration number, its NAV, whether NAV x units agrees with net_asset, its
date, and whether the database accepts the row. `txFunds`/`txHist` are the
uncommitted writes; `poisoned` stands for a session that refuses everything
until a rollback, which the handler at 129-134 does not do. `CommitData` and
`CommitStatus` are the two transactions, `DataRefused` the refusal of the first
(a poisoned session, or two issues with one key in a single INSERT ... ON
CONFLICT), `Fault` a crash or a failed commit at any point. `lastSuccess` and
`startedAt` are both identified by the cycle that wrote them.

`Publication` is what readers of the database see of a cycle: `Publish` changes
registry, history and violations in one step, with validated rows only, and every
registry row that changes is also an observation in the history; `Announce`
writes the status of data that is already there, with counts that add up.
`FundSync` has it as `Promise == INSTANCE Publication WITH ...`; `KeepsThePromise` says that
a cycle, wherever it stops, is such a step or nothing.

### CircuitBreaker, BreakerGate, CircuitBreaker_proofs

The three methods of the breaker are atomic (they hold its lock);
`request_with_retry` is a small program per thread: `Call`/`CallRejected`,
`AttemptSucceeds`/`AttemptFails`, `Retry`. `ended` and `live` are history
variables: the calls whose failures make up the current count.

`BreakerGate` is what the jobs may expect: a gate with a count and an age, shut
from `Threshold` failures on until `Cooldown` has passed since the last of them,
that any number of calls may be inside of (`Enter`, `Succeed`, `Fail`, `Tick`).
There is no flag, no retry and no pause. `KeepsTheGate` says that the breaker
with its callers is such a gate: `count <- failures`, `age <- sinceFailure`, and
inside are the threads whose call has not ended.

### EtfMapping, EtfMapping_proofs

A cycle of `update_etf_market_data`. `FetchBoard` is phase 1: it may list any
subset of the ETFs, each once, with or without NAV and prices. (The code joins
two flows as they come, `providers.py:166-198`; a code listed by both, whose first
match is still unflushed when the second entry is looked up, is left out.) Identity (symbol, sector,
market) is left out: a missing part never replaces a stored one
(`tasks.py:297-300`) and nothing else reads it. Phase 2 is one
action per entry (`StoreMapped`, `StoreUnmapped`) and a `Commit` or `RollBack`.
`code` is the committed `funds.ins_code`; `sqlCode` what the running
transaction's queries filter on; `memCode` and `memNav` the changed objects of
the session, which keep the NAV they were loaded with. The insertion of a new
`etf_market` row flushes them (`upsert_etf_market`). Prices and NAVs change
between any two steps.

### Boot, Deployment, Boot_proofs

`Boot` is every container's way through `run_migrations.py`, one action per
statement that another process can see, beside the live syncs of a worker that
is already up. Rows of an open transaction have an `owner`; others that want to
write them wait, as in Postgres. The snapshot is inserted row by row in its own
order and committed once; a live sync queries a row and then writes it
(`upsert_fund` is not an ON CONFLICT statement), in any order, so the two can
find each other's rows and even wait for each other (`DeadlockSeed`, or
`CycleFails` if the database picks the other victim).

| Action | Code |
|---|---|
| `LookForTables`, `CreateTables` | `create_all`: the look and the CREATE are one transaction, but not under the lock; the loser of a race fails and exits |
| `TakeLock`, `ReadTracker` | the advisory lock; `schema_migrations` |
| `ApplyFile`, `FileFails`, `FilesDone` | one transaction per file with its tracker row; failure is `return 1` and a restart |
| `CountFunds`, `InsertSeed`, `CommitSeed`, `SeedConflict`, `SeedFails` | `_seed_if_empty` |
| `Crash` | a container dies or is restarted, in its boot or later; its connections close at once |

`Deployment` is what an operator sees of all that: files in effect, content,
running services. `Upgrade` adds the next file; `Start` needs the last one, and
loads the whole snapshot into an empty database or nothing; `Sync` makes rows live
while the worker runs. `KeepsTheDeployment` says that however many containers
boot, fail and restart beside each other, the database only ever moves that way.
In particular no row goes back from live (`LiveIsKept`).

Left out: what the files do to the schema (they are written to be harmless
twice, which the model does not use), SEED_IF_EMPTY=0, and the second
`create_all` in `main.py:23` and `worker.py:23`, which finds the tables there.

### FundRows, ValidationSweep, FundRows_proofs, ValidationSweep_proofs

`FundRows` is the history of one fund, a row per day with NAV and net_asset, and
its writers: the live sync (`LiveRow`: a record of today or still of yesterday,
a missing NAV or net_asset stored as 0, `Number`), the backfill (`BackfillRow`:
any of `RepairDays`, what is missing stays missing) and `NewDay`. It is a part: the
two modules that follow extend it. A row per day leaves out the several rows that
undated live records give a day, each under the start of its cycle.

`ValidationSweep` has the three rules as operators over the rows of the window
and the job around them. `SweepRead` is the SELECT and the evaluation,
`SweepCommit` the INSERT and the commit, `SweepFails` the handler. Days stand for
times: a row is dated midnight and a cutoff carries the time of the day, so a
row is in the window when its day is later than `now - Window`. `staleness_days`
goes by the clock of the host, which is a day behind after midnight in Tehran:
hence `clock` in `SweepRead`. Returns are whole multiples of 1/`Scale` (the NAVs
of the run divide it), medians and distances are doubled and comparisons cross
multiplied, so that the arithmetic is exact. One fund: a sweep never relates
two. Severity, detail text and the rounding of z are left out.

| Definition | Code |
|---|---|
| `Swept`, `Priced` | the query (validation_sweep.py:27-46); the NAVs that are not None |
| `Returns`, `Far`, `Big`, `Outliers` | `detect_outlier_returns`, with the fall-back to the standard deviation when the MAD is zero |
| `OutlierDay` | `dates[index]`: the index counts returns, the list has every date |
| `Gaps`, `Threshold`, `Stale` | `detect_large_gaps`, `staleness_days` and the threshold by fund type |
| `SweepCommit` | `record_issues`: an upsert, nothing is ever deleted |

### BenchmarkSync, FundChart, FundChart_proofs

`BenchmarkSync` is the job and its source. The source publishes a value per
trading day (`Publish`) and now and then leaves a day without value, sends what
`float()` refuses, is late or corrects a value (`Deviate`). `BenchFetch` is the
answer, `BenchStore` the transaction: the days after the newest stored one, all
or, when one of them does not convert, none; `BenchFails` a failed commit.

`FundChart` adds a request of `/api/fund/{reg_no}/chart`. It reads in two steps:
`OpenChart` loads the rows of the window, `CloseChart` reads the rows for the risk
metrics and the index. In between everybody writes. A row the session has loaded
is handed out as it was loaded (`Row`), which is what the SQLAlchemy identity map
does. The response is a set of operators over the two reads; properties quantify
over the states in which a request is about to give it. Ratios are pairs
<<value, base>>. Left out: the ETF prices, the step series with its anchor and
live point, the returns and the active return.

## 3. The runs

All runs check for deadlock but those of `ValidationSweep` and `FundChart`, whose
days, writes and deviations run out. Bounds: `MaxFaults` (database failures and
crashes), `MaxElapsed` (ticks within a batch or between two), `MaxChanges`
(changes of prices and NAVs, rollbacks; rows written), `MaxDay`, `MaxEvents`
(deviations of the source), `MaxMissed` (days without a sweep that succeeds).
`boot` counts crashes, restarts, failing files and failing seeds under
`MaxFaults`.

| Run | Checks | Shows |
|---|---|---|
| `backfill` | EvidenceBacked, KeepsTheLedger, CompleteStays, QueueNotBlocked | Two funds, one of them dead, two days, target 2, batches of one, one fault; windows 2 / 3 / 12 for 15 min / 6 h / 24 h, batches no longer than the failed-retry window. 258k states |
| `backfill_report` | NoDoubleCount, MissedIsFull, RetrySpacing | One fund going through every class while a request runs, any delay, one fault. A fund complete all the while is missed only when it reaches the target between the two counts. 1.2M states |
| `fund_sync` | TypeOK, QuarantineHolds, KeepsThePromise, HealthyMeansStored, QuarantineAudited, MovesAreAudited, RerunAddsUndatedOnly | Two funds, two categories, seven answers that contain every kind of record, dated and undated, two start times, one fault anywhere. 2.0M states |
| `breaker` | TypeOK, OpenNeedsTwoCalls, KeepsTheGate, Recloses | Three threads, the numbers of the code (5 failures, 3 attempts), cooldown 3 ticks. 51k states |
| `etf_mapping` | TypeOK, OneFundPerCode, BasisPlausible, NotStolen, WrongMappingsHeal, FreeFundsAreFound, MappingsSettle | Two ETFs and two funds, either symbol in either name, with every seeded mapping; prices 0 and 10, NAVs 0, 13 (agrees with 10) and 20 (does not); three enriched quotes: none, one whose own NAV fits, one where only subscription and redemption do. 167k states |
| `boot` | SchemaOK, SeedIsWhole, WarmWhenUp, KeepsTheDeployment, EverythingUp | Web and worker on an empty volume, two files, a snapshot of one ETF and two funds, two live syncs, two faults anywhere. 42k states |
| `validation_sweep` | GapsUncounted, OutlierPointsBack, LoneJump, SilenceIsRecorded | Six histories of up to 22 days (flat with a jump, noisy, holed, sparse, with a gap, one old row), four days, two rows written, one failed sweep. 118k states |
| `fund_chart` | ComparisonIsFair, CurveWithinMaximum, NoFlowWithoutUnits, NoHoles, IndexCatchesUp | Three histories of five days, an empty or full index table, a chart of four days over risk metrics of six rows, one row written at any moment, by the live sync also from a record without NAV or without net_asset, one deviation of the source, one failed commit. 389k states |

`validation_sweep` scales the windows of the code (90, 30, 10, 90 and 30 days) to
22, 8, 3, 22 and 8: what matters is that window and market-making threshold are
equal, as are gap and summary, and that the window holds more than the seventeen
returns from which a lone jump among equal values exceeds four standard
deviations. `MinReturns` and the outlier factors are those of the code. In
`fund_chart` one write suffices, since a request has two reads and one gap between
them.

Two funds suffice where the code only ever relates a fund to the others of its
batch or to the rival for a mapping; three threads are the least with which
failures of calls admitted earlier can exceed the threshold of five by more
than one call.

The remaining runs each show a sentence of the documentation that the code does
not keep:

| Run | Property | Sentence | What happens |
|---|---|---|---|
| `backfill_confirmed` | ConfirmedRecently | docs/03:104, complete means freshly confirmed | a failed attempt renews checked_at (history_bootstrap.py:96), so a count confirmed long ago stays "fresh" |
| `fund_sync_refused` | SoundRecordsSurvive | docs/03:240, bad data does not break the pipeline | one refused row loses every record of the cycle (fund_sync.py:129 has no rollback) |
| `sweep_market_making` | MarketMakingSilenceFound | docs/03:257, a market-making fund silent for more than 90 days is recorded | the sweep reads the rows of 90 days and asks whether the last is older than 90 (validation_sweep.py:18, validation.py:30) |
| `chart_index` | EndsOnTheDay | docs/05:75, the distance of the lines at the end is exactly the value added | the index is looked up on the fund's own days only and carried between them (web.py:221-227): a fund with few rows is compared with an index that is days old |

`sweep_market_making` has the constants of `validation_sweep` with one more day,
so that a fund whose only row is of day 2 passes its threshold, and no writes.

Also seen while modelling, without a run of their own:

- a record without recordDate gets started_at as its key (fund_sync.py:82) and
  every cycle adds a row of it, against docs/01:88. `RerunAddsUndatedOnly` says
  that these are the only rows a rerun adds; the run has such a record;
- an empty answer of a category is skipped before any counter moves
  (fund_sync.py:57) and the cycle may be healthy, against docs/03:46;
- a missing number is stored as 0 by the live sync (preprocessing.py:47-50),
  against docs/03:242. Next to a net_asset of 0 the chart shows all the money of
  the fund leave and come back; `NoFlowWithoutUnits` says that nothing else makes
  a flow while units are steady;
- no gap is ever counted by the health endpoint, though docs/03:265 has every
  violation shown (`GapsUncounted`, proved below);
- a malformed index value on a day not yet stored stops the benchmark sync for
  as long as the source keeps it (`Behind` leaves that case out);
- `received` and `expected` are always equal (fund_sync.py:64-67), so the coverage
  of a cycle is never below one.

### Fairness

`Backfill`: weak fairness of the job's next step (the scheduler triggers it
every ten seconds and requests have timeouts) and of the clock; strong fairness
of an answer for each fund that is not dead: a source that is asked for ever
answers some time. Nothing is assumed of faults, the live sync or dead sources.
`CircuitBreaker`: weak fairness of each thread (jobs are scheduled again,
requests time out, pauses end) and of the clock. A thread's step may be failing
for ever; `Recloses` does not need a success. `EtfMapping`: weak fairness of the
steps of a cycle and of starting one; strong fairness of a board that lists
every ETF. `Boot`: strong fairness of each container's steps (the restart policy
starts it again; Postgres wakes the waiters of a lock or a row in turn) and weak
fairness of the statements of a live sync. That a live sync ever succeeds is not
assumed, so `EverythingUp` covers the boot whose seed can never be loaded: ETF
rows stored while `funds` was still empty conflict with the snapshot at every
boot, and the dashboard stays cold until the live fund sync succeeds.
`FundChart`: weak fairness of `BenchFetch` and `BenchStore` (the job runs every 15
minutes); a fetch or commit may fail, at most `MaxFaults` times.
`ValidationSweep`: sweeps go on succeeding, `[]<><<SweepCommit>>_vars`. It follows
from weak fairness of the job's steps and a bounded number of failures, and is
stated directly because TLC would otherwise evaluate every rule once more to
decide whether a sweep is enabled. That sweeps keep up with the days is
`MaxMissed`: a fund must be swept before its last row leaves the window.

### What the windows are worth

`QueueNotBlocked` rests on the failed-retry window being longer than a batch.
With a batch that takes longer than FAILED_RETRY_MINUTES, as many dead sources
as the batch has places are due again each time a batch ends; they have the
fewest rows, so they fill every batch. `CompleteStays` rests on the ratio of
SOURCE_COMPLETE_MAX_AGE_HOURS to STALE_SOURCE_RETRY_HOURS: with less than about
four times the retry window TLC finds a fund that drops out of the count while
it waits for its turn.

## 4. The proofs

TLAPS checks them for every value of the constants that satisfies the module's
assumption: any number of threads, containers, files, rows and faults.

**CircuitBreaker_proofs** (assumption `BreakerAssumption`: the attempts of a
call are fewer than the threshold, 3 < 5 in the code, and the threads are
finite). `OpenIffThreshold` and `TypeOK` are inductive together. `OpenNeedsTwoCalls`
is not: it says nothing of how the count came about. The inductive invariant adds
`FewCallsFewFailures`: while no call behind the count has ended and only one is
live, the count is at most what that call has failed so far; after one call has
ended alone, at most `Retries`. Each failed attempt adds one to both sides, a
success and a reset make both zero.

`GateKept` is the refinement. It needs `OpenIffThreshold`: the gate has no flag, so
`Call` is `Enter` only if the flag says what the count says. A failed attempt is
`Fail` whether the call goes on (`sleep`) or gives up; `Retry`, and a call that is
turned away, change nothing a caller can see.

**Boot_proofs** (assumption `BootAssumption`: containers and live syncs are
different things, the worker is a container, there is a file). Four parts, each
inductive given the ones before it:

- `TypeOK`, which contains that a container is between lock and close exactly
  when it holds the lock;
- `SchemaInv`: the holder's `todo` is exactly what the tracker lacks. That needs
  the lock: nobody else changes the tracker in between. A file is applied only
  when it is the least of them, so the applied files are always the first ones,
  and whoever is behind the files has seen them all applied;
- `SeedInv`: rows a container owns are new and it owns them only while seeding,
  so a commit of the snapshot replaces nothing;
- `WarmInv`: live syncs need a worker that is up; so without faults the database
  is empty or loaded, and loaded as soon as one container is up. It needs
  `SeedIsWhole`, because the code looks at `funds` only.

`DeploymentKept` is the refinement and uses all four. `ApplyFile` is `Upgrade` by
`SchemaInv`: the tracker is closed downwards and the file is the least it lacks. The
four ways out of seeding are `Start`, and `CommitSeed` finds all rows absent by
`SeedInv`, though what it looked at was `funds` alone and earlier. A live commit
is `Sync` by `WarmInv`: the worker still runs.

**Backfill_proofs** (assumption `BackfillAssumption`: the days are a finite set
of numbers, the failed-retry window is at most the retry window, both below the
age at which the clock saturates). `EvidenceBacked` says that a count on record
is at most the number of stored days. It is not inductive: the count is computed
by the download, recorded later, and the job may fail or restart in between.
`EvidenceInv` adds that a result exists only at `mark`, where the rows it counts
are committed; rows are only added, and the size of a growing finite set never
shrinks. `RetrySpacing` is an action property over the history variables of
`BackfillAudit`. `SpacingInv` carries it: unless an attempt is unmarked, its
record is at least as recent as the download, and the windows of the funds still
waiting in the batch have passed and stay so, because time only adds to ages and
only the fund in work is recorded.

`LedgerKept` is the refinement: each action of the job is a `Grow`, `Attest`,
`Attempt` or `Age`, or leaves the three variables alone. `StoreHistory` and the
live sync are `Grow`; `MarkChecked` is `Attest` when there is a result, and then
`EvidenceInv` gives that the count is at most what is stored, and else `Attempt`.

The other results build on the ledger. The endpoint asks three questions of three
databases: `NoDoubleCount` and `MissedIsFull` follow from `RequestInv`, which says
that what the first answer counts stays at the target (`FullStays`), so the second
counts none of it, and that what is complete throughout is in one of the two or
reached the target in between. `OnlyTimeUncompletes`: a fund stops being complete
in no step but the tick that makes its check older than MaxAge, whatever the
source, the faults or the live sync do. `CompleteWhileServed` draws the conclusion
for the number on the dashboard: it never falls (`CompleteStays`) while the job
attempts every complete fund below the target before that tick. That hypothesis,
`Served`, is the scheduler's promptness; it holds in every state of the `backfill`
run, whose windows make it so, and is not itself proved.

**FundSync_proofs** (assumption of `FundSync`: answers are lists of records with
a NAV and the flag that it agrees with net_asset). The invariants:

- `RowsInv`: every row, committed or written in the open transaction, comes from
  a record that passed the cross-field check, or has NAV 0 (`QuarantineHolds`);
- `CountInv`: expected is received plus what is left of the list, and received is
  valid plus failed (`EveryRecordCounted`);
- `StatusInv`: past the first commit the cycle is among those whose data is
  stored (`StatusNotAheadOfData`);
- `AuditInv`: while the transaction is open, `prevNav` still equals the stored
  NAVs, and each fund written is audited by its own observation: a large move is
  among the issues of the same transaction. That gives `MovesAreAudited` at the
  commit. It rests on one writer: a second sync would change the stored NAVs
  under `prevNav`; the scheduler's max_instances=1 rules it out;
- `SeenInv`: every record the cycle received waits in the list or is processed:
  in the open transaction if nothing failed, and, if it was quarantined, with its
  issue and a failure on the count. Across the two commits that gives
  `HealthyMeansStored` and `QuarantineAudited`;
- `ControlInv`: a start time exactly while a cycle runs, whatever way it ended;
  with `RowsInv` and `CountInv` it is `TypeOK`;
- `RerunInv`: the open transaction has rows of accepted records only, and a
  record that carries its date is found under that date in every later cycle.
  So a cycle that receives only records committed before adds rows of the undated
  ones and no others (`Rerun`, for `RerunAddsUndatedOnly`).

`PromiseKept` is the refinement: all steps but `CommitData` and `CommitStatus`
leave the published variables alone; `CommitData` is `Publish`, by `RowsInv` and by
an invariant that each registry row of the open transaction is also a history row
of it; `CommitStatus` is `Announce`, by `StatusInv` and `CountInv`.

**FundRows_proofs** has what the next two use: `LatestIs` (a nonempty set of days
up to some day has a latest one and `Latest` is it) and its mirror `FirstDay`;
`LeastIs`, that an order on finitely many things has a least, from well-foundedness;
the ranks of days (`BeforeCount`, `RankGrows`, `RankReached`, `NthIs`: the days of a
finite set can be counted off in order, and the number of earlier days says which
one a day is); where rows lie, and that NAV and net_asset are numbers or missing.

**ValidationSweep_proofs** (assumption `ValidationSweepAssumption`: the window is
no longer than the market-making threshold, the summary no longer than a gap; 90
and 90, 30 and 30 in the code). `NoStaleMarketMaking` and `NoGapCounted` speak of
what is on record, so the invariants cover `found` as well, the violations
between the evaluation and the commit, and `NoGapCounted` rests on days only going
by: a start that is outside the counted days stays outside.
`NoStaleMarketMaking` is the other side of the run `sweep_market_making`: not on one
history but on none is such a fund recorded, whatever the schedule.

`OutlierNeverLater` (`OutlierPointsBack`): an outlier is recorded under a day no
later than the day of the jump, and under that day itself when no NAV of the
window is missing or zero. The code takes the list of dates at an index that
counts returns. By ranks: a return has at least as many days before it as returns,
and the day at a smaller index is not a later one.

`LoneJumpSeen` (`LoneJump`) is about numbers: in a window of equal NAVs with one
jump, the jump is reported exactly from seventeen returns on. Returns are all 0
but one, so median and MAD are 0 (`FlatMedian`: any half of the returns contains a
0) and the fall-back is the standard deviation of values all 0 but one
(`LoneSums`: the sum over any finite set of such a function is its one value, by a
least counterexample among subsets; then `FourDeviations` is arithmetic on n). It
assumes `MinReturns` in 3..17; the code has 5.

**FundChart_proofs** (assumptions `FundRowsAssumption`, `BenchmarkAssumption`,
`ChartAssumption`). `NoHoles` is not inductive: the answer is stored later than it
is read, and the source moves in between. `IndexInv` adds that the answer has no
hole either, whatever the source has done since (a day that got its number after a
later one did is `late`), and that neither table nor answer has a day the source
has not. The response is proved about from two invariants: `LoadedInv` (loaded
rows are of days that still have one, none older than the window was on the first
day) and `ValuesInv` (the stored index is positive, so no quotient divides by
zero). `ComparisonFair`: both lines start from their values on the first day both
have, and the index on a day is a stored one, none later than that day. `NoFlow`:
a fund whose units do not change shows a flow only next to a net_asset of 0, for any
number of units, since net assets are compared by cross multiplication. `CurveWithinMaximumWhilePrompt`:
no drawdown of the curve is deeper than the maximum shown beside it, though the
two come from different queries and rows move in between, as long as every day of
the curve is still among the rows of the risk query. `CurveAndMaximum` turns that
into a bound on the days that pass, MaxDay + ChartDays <= Start + RiskRows: with
252 rows for the risk metrics (repositories.py:219) and a window of 30 days the code
has about 222 to spare, the run two. The steps are that drawdowns are ordered
(`DeeperIsTransitive`, by cross multiplication) and that a finite set of them has
a deepest one (`DeepestIs`).

**EtfMapping_proofs** (assumption `MappingAssumption`: no code is `None`).
`OneFundPerCode` speaks of the database and of the cycle's objects; the queries
see neither but `sqlCode`, which lags behind the objects because of
autoflush=False. `SessionInv` relates them: `sqlCode` has no shared code either, so
the lookup finds one fund at most; and no changed object carries a code whose
entry is still to be stored, so a fund `_match_fund` may take for an entry is the
only one that gets its code. `NotStolen` follows from the same steps.
`BasisPlausible` needs `BasisInv`, which covers the rows that wait for the commit.

Only model-checked: liveness (`EverythingUp`, `Recloses`, `QueueNotBlocked`,
`IndexCatchesUp`, `SilenceIsRecorded`, `WrongMappingsHeal`, `FreeFundsAreFound`,
`MappingsSettle`), which needs fairness and ENABLED, beyond the prover; and
`CompleteStays` without its hypothesis `Served`. Every other property of the
passing runs has a theorem. The theorems are about the models: that
`TypeOK`-like facts of the environment (dates, answers, histories) hold of the
real source is what the assumptions say.

## 5. The plan

Written: Backfill with its ledger and report, FundSync with its publication,
CircuitBreaker with its gate, Boot with its deployment, EtfMapping, FundRows,
ValidationSweep, BenchmarkSync, FundChart, and proofs about all of them. Left, in this order:

1. Backfill over a multiset of source records: several records of one date.
2. The enrichment step of the ETF sync with its partial answers, and an abstract
   mapping that the cycle implements.
3. `Served` from the windows and the batch: a bound on how long a complete fund
   waits for its turn.

Proved modules use no RECURSIVE operator.

## 6. Not modelled

Volatility, Sharpe ratio, betas and annualised returns of `analytics.py`,
`risk.py` and `etf_analytics.py` (floating-point statistics); the step series, the
live point and the ETF prices of the chart; `quality_score` (a function of counts
that are modelled); the cache beyond the moment it is invalidated: under which
key a page is stored, which decides whether the three keys of
`cache_service.py:19-23` delete anything, and how a fill that is under way meets
the invalidation, is up to fastapi-cache, which is not in the repository; the
other read-only endpoints, templates and browser scripts; the HTTP layer below
`request_with_retry`; locks between the transactions of two jobs, except as a
commit that fails.
