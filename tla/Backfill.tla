------------------------------ MODULE Backfill ------------------------------
(***************************************************************************)
(* The NAV history backfill of services/history_bootstrap.py.              *)
(*                                                                         *)
(* Every ten seconds the worker runs one job (max_instances=1).  The job   *)
(* selects a batch of funds whose stored history is below the target and   *)
(* that were not checked recently, and processes them one after the other: *)
(* fetch the history from TSETMC, upsert the newest records and commit,    *)
(* fill in the ETF price history, and record the attempt in the table      *)
(* history_backfill_state.  Every one of these steps may fail on its own,  *)
(* the process may stop between any two of them, time passes meanwhile,    *)
(* and the live fund sync keeps adding history rows.                       *)
(*                                                                         *)
(* Wall-clock times are kept as ages in ticks, saturating at AgeCap, which *)
(* lies beyond every window the code compares an age with.                 *)
(*                                                                         *)
(* Definitions named Var... are plausible wrong versions of the one that   *)
(* follows them; the properties tell each from the code.                   *)
(***************************************************************************)
EXTENDS Integers, FiniteSets

CONSTANTS
  Funds,        \* registration numbers in the table funds
  EtfFunds,     \* the funds with is_etf and an ins_code
  Dead,         \* funds the source never answers for
  Days,         \* trading days, numbered in order
  Target,       \* BACKFILL_TARGET_RECORDS
  BatchSize,    \* BACKFILL_BATCH_SIZE
  FailedRetry,  \* FAILED_RETRY_MINUTES, in ticks
  Retry,        \* STALE_SOURCE_RETRY_HOURS, in ticks
  MaxAge,       \* SOURCE_COMPLETE_MAX_AGE_HOURS, in ticks
  MaxElapsed,   \* ticks that may pass in one batch, or between two batches
  MaxFaults,    \* bound on database failures and crashes of the worker
  None          \* NULL

ASSUME BackfillAssumption ==
  /\ EtfFunds \subseteq Funds /\ Dead \subseteq Funds
  /\ Days \subseteq Nat /\ IsFiniteSet(Days)
  /\ Target \in Nat \ {0} /\ BatchSize \in Nat \ {0}
  /\ FailedRetry \in Nat /\ Retry \in Nat /\ MaxAge \in Nat
  /\ FailedRetry <= Retry /\ Retry < MaxAge
  /\ MaxElapsed \in Nat /\ MaxFaults \in Nat
  /\ None \notin Nat /\ None \notin Funds

VARIABLES
  source,       \* the dated records TSETMC would return for each fund
  stored,       \* fund_histories: the days with a row, for each fund
  priced,       \* funds whose ETF price window is in etf_market_histories
  sourceCount,  \* history_backfill_state.source_count
  checkedAge,   \* age of history_backfill_state.checked_at, None: no row
  pc,           \* where the job stands
  todo,         \* the batch: fund |-> history_count when it was selected
  cur,          \* the fund being processed
  got,          \* the records just fetched for cur
  result,       \* what _backfill_fund returned for cur
  elapsed,      \* ticks since the batch was selected or the last one ended
  faults        \* database failures and crashes so far

table == <<stored, priced, sourceCount, checkedAge>>
job == <<pc, todo, cur, got, result>>
vars == <<source, table, job, elapsed, faults>>

-----------------------------------------------------------------------------
(* Helpers. *)

AgeCap == MaxAge + 1
Ages == 0..AgeCap

Older(age) == IF age = None \/ age = AgeCap THEN age ELSE age + 1

\* The n newest days of S: the sort and the slice of _backfill_fund.
Newest(S, n) == {d \in S : Cardinality({e \in S : e > d}) < n}

HistoryCount(f) == Cardinality(stored[f])

Full(f) == HistoryCount(f) >= Target

\* A known source is asked again only when its count has expired.
VarDueLate(f) ==
  /\ ~Full(f)
  /\ \/ checkedAge[f] = None
     \/ checkedAge[f] \in Ages /\ checkedAge[f] > MaxAge
     \/ sourceCount[f] = None /\ checkedAge[f] \in Ages /\ checkedAge[f] > FailedRetry

\* The short window for every fund.
VarDueSoon(f) ==
  /\ ~Full(f)
  /\ \/ checkedAge[f] = None
     \/ checkedAge[f] \in Ages /\ checkedAge[f] > FailedRetry

\* The filter of _funds_needing_backfill.
Due(f) ==
  /\ ~Full(f)
  /\ \/ checkedAge[f] = None
     \/ checkedAge[f] \in Ages /\ checkedAge[f] > Retry
     \/ sourceCount[f] = None /\ checkedAge[f] \in Ages /\ checkedAge[f] > FailedRetry

\* Its order_by and limit: the funds with the fewest rows come first.
Batches ==
  LET due == {f \in Funds : Due(f)}
  IN  {S \in SUBSET due :
         /\ Cardinality(S) = IF Cardinality(due) < BatchSize
                             THEN Cardinality(due) ELSE BatchSize
         /\ \A f \in S, g \in due \ S : HistoryCount(f) <= HistoryCount(g)}

\* The two counts of the progress endpoint overlap.
VarSourceLimitedToo(f) ==
  /\ sourceCount[f] # None
  /\ HistoryCount(f) >= sourceCount[f]
  /\ checkedAge[f] # None /\ checkedAge[f] <= MaxAge

\* What /api/dashboard/history-backfill counts as complete.
SourceLimited(f) ==
  /\ ~Full(f)
  /\ sourceCount[f] # None
  /\ HistoryCount(f) >= sourceCount[f]
  /\ checkedAge[f] # None /\ checkedAge[f] <= MaxAge

Complete(f) == Full(f) \/ SourceLimited(f)

-----------------------------------------------------------------------------
(* Initial states: a fresh or a seeded database, history_backfill_state    *)
(* empty, the worker about to run its first batch.                         *)

Init ==
  /\ source \in [Funds -> SUBSET Days]
  /\ stored \in [Funds -> SUBSET Days]
  /\ \A f \in Funds : stored[f] \subseteq source[f]
  /\ priced = {}
  /\ sourceCount = [f \in Funds |-> None]
  /\ checkedAge = [f \in Funds |-> None]
  /\ pc = "idle"
  /\ todo = [f \in {} |-> 0]
  /\ cur = None
  /\ got = {}
  /\ result = None
  /\ elapsed = 0
  /\ faults = 0

-----------------------------------------------------------------------------
(* The job. *)

\* The result of one fund is still there when the next one fails.
VarEndFundKeepsResult(next) == pc' = next /\ cur' = None /\ got' = {} /\ UNCHANGED result

\* The locals of one iteration go out of scope.
EndFund(next) == pc' = next /\ cur' = None /\ got' = {} /\ result' = None

NothingDue ==
  /\ pc = "idle"
  /\ \A f \in Funds : ~Due(f)
  /\ elapsed' = 0
  /\ UNCHANGED <<source, table, job, faults>>

SelectBatch ==
  /\ pc = "idle"
  /\ \E S \in Batches : S # {} /\ todo' = [f \in S |-> HistoryCount(f)]
  /\ pc' = "batch"
  /\ elapsed' = 0
  /\ UNCHANGED <<source, table, cur, got, result, faults>>

StartFund(f) ==
  /\ pc = "batch"
  /\ f \in DOMAIN todo
  /\ \A g \in DOMAIN todo : todo[f] <= todo[g]
  /\ todo' = [g \in DOMAIN todo \ {f} |-> todo[g]]
  /\ cur' = f
  /\ pc' = "fetch"
  /\ UNCHANGED <<source, table, got, result, elapsed, faults>>

\* fetch_fund_history_detail returns None, or the answer is not a usable one.
FetchFails ==
  /\ pc = "fetch"
  /\ pc' = "mark"
  /\ UNCHANGED <<source, table, todo, cur, got, result, elapsed, faults>>

FetchAnswers(f) ==
  /\ pc = "fetch" /\ cur = f /\ f \notin Dead
  /\ got' = Newest(source[f], Target)
  /\ pc' = "store"
  /\ UNCHANGED <<source, table, todo, cur, result, elapsed, faults>>

StoreHistory ==
  /\ pc = "store"
  /\ stored' = [stored EXCEPT ![cur] = @ \union got]
  /\ pc' = "etf"
  /\ UNCHANGED <<source, priced, sourceCount, checkedAge, todo, cur, got,
                 result, elapsed, faults>>

\* The part after the commit.  fund.is_etf is read again from the database;
\* a failure of the ETF part proper stays inside its own try block.
FillEtfHistory ==
  /\ pc = "etf"
  /\ \/ priced' = priced \union ({cur} \intersect EtfFunds)
     \/ cur \in EtfFunds /\ UNCHANGED priced
  /\ result' = Cardinality(got)
  /\ pc' = "mark"
  /\ UNCHANGED <<source, stored, sourceCount, checkedAge, todo, cur, got,
                 elapsed, faults>>

\* An exception while storing, or while re-reading the fund after the commit:
\* the handler of backfill_single_fund rolls back and result stays None.
StoreOrReloadFails ==
  /\ pc \in {"store", "etf"} /\ faults < MaxFaults
  /\ faults' = faults + 1
  /\ pc' = "mark"
  /\ UNCHANGED <<source, table, todo, cur, got, result, elapsed>>

\* Only an answer is recorded.
VarMarkAnswersOnly ==
  /\ pc = "mark"
  /\ IF result = None THEN UNCHANGED <<checkedAge, sourceCount>>
     ELSE /\ checkedAge' = [checkedAge EXCEPT ![cur] = 0]
          /\ sourceCount' = [sourceCount EXCEPT ![cur] = result]
  /\ EndFund("batch")
  /\ UNCHANGED <<source, stored, priced, todo, elapsed, faults>>

\* An attempt that fails erases what an earlier one found.
VarMarkForgets ==
  /\ pc = "mark"
  /\ checkedAge' = [checkedAge EXCEPT ![cur] = 0]
  /\ sourceCount' = [sourceCount EXCEPT ![cur] = result]
  /\ EndFund("batch")
  /\ UNCHANGED <<source, stored, priced, todo, elapsed, faults>>

MarkChecked ==
  /\ pc = "mark"
  /\ checkedAge' = [checkedAge EXCEPT ![cur] = 0]
  /\ sourceCount' = [sourceCount EXCEPT ![cur] = IF result = None THEN @ ELSE result]
  /\ EndFund("batch")
  /\ UNCHANGED <<source, stored, priced, todo, elapsed, faults>>

\* _mark_checked swallows its own failure: the attempt leaves no trace.
MarkFails ==
  /\ pc = "mark" /\ faults < MaxFaults
  /\ faults' = faults + 1
  /\ EndFund("batch")
  /\ UNCHANGED <<source, table, todo, elapsed>>

EndBatch ==
  /\ pc = "batch"
  /\ DOMAIN todo = {}
  /\ pc' = "idle"
  /\ elapsed' = 0
  /\ UNCHANGED <<source, table, todo, cur, got, result, faults>>

\* The process stops, or reading the next fund's reg_no fails outside every
\* try block but the finally: the rest of the batch is dropped.
AbortBatch ==
  /\ pc # "idle" /\ faults < MaxFaults
  /\ faults' = faults + 1
  /\ EndFund("idle")
  /\ todo' = [f \in {} |-> 0]
  /\ UNCHANGED <<source, table, elapsed>>

-----------------------------------------------------------------------------
(* The environment. *)

\* sync_funds_pipeline upserts the day TSETMC currently publishes.
LiveRow(f) ==
  /\ f \notin Dead
  /\ \E d \in source[f] :
       /\ \A e \in source[f] : e <= d
       /\ stored' = [stored EXCEPT ![f] = @ \union {d}]
  /\ UNCHANGED <<source, priced, sourceCount, checkedAge, job, elapsed, faults>>

\* A trading day ends: the source lists one more record.
NewDay(f) ==
  /\ \E d \in Days :
       /\ \A e \in source[f] : e < d
       /\ source' = [source EXCEPT ![f] = @ \union {d}]
  /\ UNCHANGED <<table, job, elapsed, faults>>

Tick ==
  /\ elapsed < MaxElapsed
  /\ elapsed' = elapsed + 1
  /\ checkedAge' = [f \in Funds |-> Older(checkedAge[f])]
  /\ UNCHANGED <<source, stored, priced, sourceCount, job, faults>>

-----------------------------------------------------------------------------
JobStep ==
  \/ NothingDue \/ SelectBatch \/ EndBatch
  \/ \E f \in Funds : StartFund(f) \/ FetchAnswers(f)
  \/ FetchFails \/ StoreHistory \/ FillEtfHistory \/ MarkChecked

Fault == StoreOrReloadFails \/ MarkFails \/ AbortBatch

Environment == Tick \/ \E f \in Funds : LiveRow(f) \/ NewDay(f)

Next == JobStep \/ Fault \/ Environment

Spec == Init /\ [][Next]_vars

\* What of it the dashboard relies on.
Ledger == INSTANCE ProgressLedger
            WITH stored <- stored, sourceCount <- sourceCount, checkedAge <- checkedAge,
                 Funds <- Funds, Days <- Days, AgeCap <- AgeCap, None <- None

\* The scheduler keeps triggering the job, every request has a timeout, the
\* clock runs, and a source that is not dead answers now and then.
Fairness ==
  /\ WF_vars(JobStep)
  /\ WF_vars(Tick)
  /\ \A f \in Funds \ Dead : SF_vars(FetchAnswers(f))

FairSpec == Spec /\ Fairness

-----------------------------------------------------------------------------
(* Properties. *)

\* Types, and the locals of an iteration are those of its own fund: nothing is
\* carried from one fund of the batch to the next (history_bootstrap.py:237-247).
TypeOK ==
  /\ source \in [Funds -> SUBSET Days]
  /\ stored \in [Funds -> SUBSET Days]
  /\ priced \subseteq EtfFunds
  /\ sourceCount \in [Funds -> Nat \union {None}]
  /\ checkedAge \in [Funds -> Ages \union {None}]
  /\ pc \in {"idle", "batch", "fetch", "store", "etf", "mark"}
  /\ DOMAIN todo \subseteq Funds /\ \A f \in DOMAIN todo : todo[f] \in Nat
  /\ cur \in Funds \union {None}
  /\ pc \in {"fetch", "store", "etf", "mark"} => cur \in Funds
  /\ pc \in {"idle", "batch", "fetch"} => got = {} /\ result = None
  /\ got \subseteq Days
  /\ result \in Nat \union {None}
  /\ elapsed \in 0..MaxElapsed
  /\ faults \in 0..MaxFaults

\* source_count is never ahead of the stored history: the records it counts
\* were all committed before it was, whatever failed in between.  The
\* progress endpoint calls a fund complete on that ground (web.py:642-656).
EvidenceBacked ==
  \A f \in Funds : sourceCount[f] # None => sourceCount[f] <= HistoryCount(f)

\* The job with all its failures and restarts writes its three columns as the
\* ledger promises: no row is ever lost, a count is recorded only in one step
\* with its time and only when the rows are there, a failed attempt touches
\* nothing but the time (history_bootstrap.py:86-113, docs/03:104-106).
KeepsTheLedger == Ledger!Spec

\* The number on the dashboard does not jump back between two checks: a fund
\* once counted complete stays so, while the job is served within MaxElapsed
\* (history_bootstrap.py:38-41).
CompleteStays == [][\A f \in Funds : Complete(f) => Complete(f)']_vars

\* "so one stale fund cannot block the queue" (models.py:98): funds whose
\* source never answers do not keep the others from becoming complete.
QueueNotBlocked == \A f \in Funds \ Dead : <>[]Complete(f)
=============================================================================
