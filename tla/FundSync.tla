------------------------------ MODULE FundSync ------------------------------
(***************************************************************************)
(* One cycle of services/fund_sync.py (sync_funds_pipeline): for each fund *)
(* category fetch the published records, clean and validate every one,     *)
(* quarantine those with a critical violation, upsert the rest, then commit *)
(* the data with the violations, and after that, in a second transaction,  *)
(* the status row the dashboard shows.                                     *)
(*                                                                         *)
(* A published record is abstracted to                                     *)
(*   reg     registration number, 0 when missing or not a number,          *)
(*   nav     navStat, None when missing,                                   *)
(*   agrees  nav x units matches net_asset within CROSS_FIELD_TOLERANCE,   *)
(*   day     recordDate: a day, None when missing, Garbage when it does    *)
(*           not parse (or another field does not convert),                *)
(*   fits    the database accepts the row.                                 *)
(*                                                                         *)
(* The session keeps its writes in txFunds and txHist until the commit; a  *)
(* statement the database refuses poisons the whole transaction.           *)
(*                                                                         *)
(* Definitions named Var... are plausible wrong versions of the one that   *)
(* follows them; the properties tell each from the code.                   *)
(***************************************************************************)
EXTENDS Integers, Sequences, FiniteSets

CONSTANTS
  Categories,   \* FUND_TYPES: the list a full cycle walks
  StockOnly,    \* the list of the cycle that runs every minute
  Responses,    \* the lists of records one category may answer with
  Stamps,       \* values of started_at
  MaxFaults,    \* bound on failed commits and crashes
  None,         \* NULL or a missing key
  Garbage       \* a value that does not convert

Elems(s) == {s[i] : i \in 1..Len(s)}

Items == UNION {Elems(s) : s \in Responses}

ASSUME FundSyncAssumption ==
  /\ MaxFaults \in Nat
  /\ None \notin Stamps
  /\ <<>> \in Responses
  /\ Responses \subseteq Seq(Items)
  /\ \A item \in Items : item.nav \in Nat \union {None} /\ item.agrees \in BOOLEAN

VARIABLES
  funds,        \* table funds: reg |-> [nav, agrees]
  hist,         \* table fund_histories: <<reg, observed_at>> |-> [nav, agrees]
  issues,       \* table data_quality_issues: its keys <<reg, rule, observed_at>>
  status,       \* the sync_status row of fund_sync, None before the first
  cacheStale,   \* data was committed and the cache not invalidated since
  pc,           \* where the cycle stands
  types,        \* categories still to fetch
  items,        \* records of the current category still to process
  prevNav,      \* prev_nav_map
  startedAt,
  txFunds, txHist,   \* rows written and not committed
  poisoned,     \* the transaction is aborted or the session needs a rollback
  cycleIssues,
  count,        \* total_expected, total_received, total_valid, total_failed
  seen,         \* history: the records of this cycle
  before,       \* history: records of the cycles whose data was committed
  dataStamps,   \* history: started_at of those cycles
  faults

tables == <<funds, hist, issues, status>>
locals == <<pc, types, items, prevNav, startedAt, txFunds, txHist, poisoned,
            cycleIssues, count, seen>>
vars == <<tables, cacheStale, locals, before, dataStamps, faults>>

-----------------------------------------------------------------------------
(* Helpers. *)

NoRows == [x \in {} |-> 0]

\* INSERT ... ON CONFLICT DO UPDATE of the rows of f into g.
Upsert(g, f) ==
  [x \in DOMAIN g \union DOMAIN f |-> IF x \in DOMAIN f THEN f[x] ELSE g[x]]

\* clean_fund_data: a missing number becomes zero.
CleanNav(item) == IF item.nav = None THEN 0 ELSE item.nav

Row(item) == [nav |-> CleanNav(item), agrees |-> item.agrees]

\* Every row is dated with the cycle.
VarObservedNow(item) == startedAt

ObservedAt(item) == IF item.day = None THEN startedAt ELSE item.day

\* Only rises are seen.
VarMovedUp(prev, nav) == prev # 0 /\ nav # 0 /\ 4 * (nav - prev) > prev

\* nav_move_ratio(prev_nav, nav) > NAV_MOVE_ALERT, a quarter.
Moved(prev, nav) ==
  /\ prev # 0 /\ nav # 0
  /\ 4 * (IF nav > prev THEN nav - prev ELSE prev - nav) > prev

PrevNav(reg) == IF reg \in DOMAIN prevNav THEN prevNav[reg] ELSE 0

\* New funds are exempt, as they are from the check of the move.
VarCrossFieldKnown(item) == CleanNav(item) # 0 /\ PrevNav(item.reg) # 0 /\ ~item.agrees

\* cross_field_error evaluates nothing when a factor is zero or missing.
CrossFieldError(item) == CleanNav(item) # 0 /\ ~item.agrees

\* One issue per record.
VarValidateOne(item) ==
  IF Moved(PrevNav(item.reg), CleanNav(item))
  THEN <<<<item.reg, "nav_move", ObservedAt(item)>>>>
  ELSE IF CrossFieldError(item)
       THEN <<<<item.reg, "cross_field", ObservedAt(item)>>>> ELSE <<>>

\* validate_live_record: the keys of the issues it returns, in order.
Validate(item) ==
  LET key(rule) == <<item.reg, rule, ObservedAt(item)>>
  IN  (IF CrossFieldError(item) THEN <<key("cross_field")>> ELSE <<>>)
      \o (IF Moved(PrevNav(item.reg), CleanNav(item)) THEN <<key("nav_move")>> ELSE <<>>)

\* One INSERT ... ON CONFLICT may not touch a row twice.
SameKeyTwice(s) == \E i, j \in 1..Len(s) : i # j /\ s[i] = s[j]

NoCount == [expected |-> 0, received |-> 0, valid |-> 0, failed |-> 0]

\* A skipped record is not a failed one.
VarReceivedSkips(valid, failed) ==
  [count EXCEPT !.received = @ + 1, !.valid = @ + valid]

Received(valid, failed) ==
  [count EXCEPT !.received = @ + 1, !.valid = @ + valid, !.failed = @ + failed]

-----------------------------------------------------------------------------
Init ==
  /\ funds = NoRows /\ hist = NoRows /\ issues = {} /\ status = None
  /\ cacheStale = FALSE
  /\ pc = "idle"
  /\ types = <<>> /\ items = <<>> /\ prevNav = NoRows /\ startedAt = None
  /\ txFunds = NoRows /\ txHist = NoRows /\ poisoned = FALSE
  /\ cycleIssues = <<>> /\ count = NoCount
  /\ seen = {} /\ before = {} /\ dataStamps = {}
  /\ faults = 0

\* started_at survives in the module.
VarCloseKeepsStamp ==
  /\ pc' = "idle"
  /\ types' = <<>> /\ items' = <<>> /\ prevNav' = NoRows /\ UNCHANGED startedAt
  /\ txFunds' = NoRows /\ txHist' = NoRows /\ poisoned' = FALSE
  /\ cycleIssues' = <<>> /\ count' = NoCount
  /\ seen' = {}

\* The end of a cycle: rollback and close forget everything not committed.
Close ==
  /\ pc' = "idle"
  /\ types' = <<>> /\ items' = <<>> /\ prevNav' = NoRows /\ startedAt' = None
  /\ txFunds' = NoRows /\ txHist' = NoRows /\ poisoned' = FALSE
  /\ cycleIssues' = <<>> /\ count' = NoCount
  /\ seen' = {}

StartCycle ==
  /\ pc = "idle"
  /\ types' \in {Categories, StockOnly}
  /\ startedAt' \in Stamps
  /\ prevNav' = [reg \in DOMAIN funds |-> funds[reg].nav]
  /\ pc' = "fetch"
  /\ UNCHANGED <<tables, cacheStale, items, txFunds, txHist, poisoned,
                 cycleIssues, count, seen, before, dataStamps, faults>>

\* fetch_funds_by_type; a failed request answers with an empty list.
FetchCategory ==
  /\ pc = "fetch" /\ types # <<>>
  /\ types' = Tail(types)
  /\ \E response \in Responses :
       /\ items' = response
       /\ count' = [count EXCEPT !.expected = @ + Len(response)]
       /\ seen' = seen \union Elems(response)
       /\ pc' = IF response = <<>> THEN "fetch" ELSE "item"
  /\ UNCHANGED <<tables, cacheStale, prevNav, startedAt, txFunds, txHist,
                 poisoned, cycleIssues, before, dataStamps, faults>>

NextItem ==
  /\ items' = Tail(items)
  /\ pc' = IF Tail(items) = <<>> THEN "fetch" ELSE "item"
  /\ UNCHANGED <<tables, cacheStale, types, prevNav, startedAt, seen,
                 before, dataStamps, faults>>

\* No registration number, or a field or the date that does not convert.
SkipItem ==
  /\ pc = "item"
  /\ LET item == Head(items) IN item.reg = 0 \/ item.day = Garbage
  /\ count' = Received(0, 1)
  /\ UNCHANGED <<txFunds, txHist, poisoned, cycleIssues>>
  /\ NextItem

Usable(item) == item.reg # 0 /\ item.day # Garbage

QuarantineItem ==
  /\ pc = "item"
  /\ LET item == Head(items)
     IN  /\ Usable(item) /\ CrossFieldError(item)
         /\ cycleIssues' = cycleIssues \o Validate(item)
  /\ count' = Received(0, 1)
  /\ UNCHANGED <<txFunds, txHist, poisoned>>
  /\ NextItem

StoreItem ==
  /\ pc = "item"
  /\ LET item == Head(items)
     IN  /\ Usable(item) /\ ~CrossFieldError(item)
         /\ cycleIssues' = cycleIssues \o Validate(item)
         /\ IF item.fits /\ ~poisoned
            THEN /\ txFunds' = Upsert(txFunds, [r \in {item.reg} |-> Row(item)])
                 /\ txHist' = Upsert(txHist,
                      [k \in {<<item.reg, ObservedAt(item)>>} |-> Row(item)])
                 /\ count' = Received(1, 0)
                 /\ UNCHANGED poisoned
            ELSE /\ poisoned' = TRUE
                 /\ count' = Received(0, 1)
                 /\ UNCHANGED <<txFunds, txHist>>
  /\ NextItem

\* record_issues and the first commit.
CommitData ==
  /\ pc = "fetch" /\ types = <<>>
  /\ ~poisoned /\ ~SameKeyTwice(cycleIssues)
  /\ funds' = Upsert(funds, txFunds)
  /\ hist' = Upsert(hist, txHist)
  /\ issues' = issues \union Elems(cycleIssues)
  /\ cacheStale' = TRUE
  /\ before' = before \union seen
  /\ dataStamps' = dataStamps \union {startedAt}
  /\ pc' = "status"
  /\ UNCHANGED <<status, types, items, prevNav, startedAt, txFunds, txHist,
                 poisoned, cycleIssues, count, seen, faults>>

\* The database refuses the statement or the commit: the outer handler rolls
\* back, and neither the data nor a status is written.
DataRefused ==
  /\ pc = "fetch" /\ types = <<>>
  /\ poisoned \/ SameKeyTwice(cycleIssues)
  /\ Close
  /\ UNCHANGED <<tables, cacheStale, before, dataStamps, faults>>

\* The status does not wait for the commit of the data.
VarCommitStatusFirst ==
  /\ pc \in {"fetch", "status"} /\ types = <<>>
  /\ status' = [status |-> IF count.failed = 0 THEN "healthy" ELSE "partial",
                startedAt |-> startedAt,
                count |-> count,
                lastSuccess |-> None]
  /\ pc' = "cache"
  /\ UNCHANGED <<funds, hist, issues, cacheStale, types, items, prevNav,
                 startedAt, txFunds, txHist, poisoned, cycleIssues, count,
                 seen, before, dataStamps, faults>>

CommitStatus ==
  /\ pc = "status"
  /\ status' = [status |-> IF count.failed = 0 THEN "healthy" ELSE "partial",
                startedAt |-> startedAt,
                count |-> count,
                lastSuccess |-> IF count.failed = 0 THEN startedAt
                                ELSE IF status = None THEN None ELSE status.lastSuccess]
  /\ pc' = "cache"
  /\ UNCHANGED <<funds, hist, issues, cacheStale, types, items, prevNav,
                 startedAt, txFunds, txHist, poisoned, cycleIssues, count,
                 seen, before, dataStamps, faults>>

Invalidate ==
  /\ pc = "cache"
  /\ cacheStale' = FALSE
  /\ Close
  /\ UNCHANGED <<tables, before, dataStamps, faults>>

\* A commit fails (deadlock with the ETF sync, lost connection), or the
\* process stops: whatever was not committed is gone.
Fault ==
  /\ pc # "idle" /\ faults < MaxFaults
  /\ faults' = faults + 1
  /\ Close
  /\ UNCHANGED <<tables, cacheStale, before, dataStamps>>

CycleStep ==
  \/ FetchCategory \/ SkipItem \/ QuarantineItem \/ StoreItem
  \/ CommitData \/ DataRefused \/ CommitStatus \/ Invalidate

Next == StartCycle \/ CycleStep \/ Fault

Spec == Init /\ [][Next]_vars

-----------------------------------------------------------------------------
(* Properties. *)

\* Types, and a cycle that ended left nothing of itself behind.
TypeOK ==
  /\ \A r \in DOMAIN funds : funds[r].nav \in Nat /\ funds[r].agrees \in BOOLEAN
  /\ \A k \in DOMAIN hist : hist[k].nav \in Nat /\ hist[k].agrees \in BOOLEAN
  /\ pc \in {"idle", "fetch", "item", "status", "cache"}
  /\ pc = "item" => items # <<>>
  /\ startedAt \in Stamps \union {None}
  /\ (pc = "idle") = (startedAt = None)
  /\ poisoned \in BOOLEAN /\ cacheStale \in BOOLEAN
  /\ \A c \in DOMAIN count : count[c] \in Nat
  /\ dataStamps \subseteq Stamps
  /\ faults \in 0..MaxFaults

\* A record whose fields contradict each other reaches neither funds nor
\* fund_histories from a sync cycle (fund_sync.py:95-106, docs/03:253).
QuarantineHolds ==
  /\ \A r \in DOMAIN funds : funds[r].nav # 0 => funds[r].agrees
  /\ \A k \in DOMAIN hist : hist[k].nav # 0 => hist[k].agrees

\* A status row speaks of committed data only: a failure between the two
\* commits may leave it behind the data, never ahead of it.
StatusNotAheadOfData == status # None => status.startedAt \in dataStamps

\* Every record fetched is counted once, as valid or as failed.
EveryRecordCounted ==
  status # None =>
    /\ status.count.received = status.count.expected
    /\ status.count.valid + status.count.failed = status.count.received

Promise == INSTANCE Publication
             WITH funds <- funds, hist <- hist, issues <- issues, status <- status,
                  dataStamps <- dataStamps, Stamps <- Stamps, None <- None

\* The cycle keeps the promise of Publication: registry, history and violations
\* change in one step, with rows that passed validation, and the status follows
\* the data it speaks of (fund_sync.py:136-173).
KeepsThePromise == Promise!Spec

Stored(item) ==
  item.reg \in DOMAIN funds /\ <<item.reg, ObservedAt(item)>> \in DOMAIN hist

StatusWritten == pc = "status" /\ pc' = "cache"

\* "healthy" is written only when every record of the cycle is in both tables
\* (fund_sync.py:159-169).
HealthyMeansStored ==
  [][StatusWritten /\ status'.status = "healthy" => \A item \in seen : Stored(item)]_vars

\* A quarantined record leaves an issue behind it, in the same transaction as
\* the rest of its cycle, and the cycle is not called healthy (docs/03:253).
QuarantineAudited ==
  [][StatusWritten =>
       \A item \in seen : Usable(item) /\ CrossFieldError(item) =>
         /\ <<item.reg, "cross_field", ObservedAt(item)>> \in issues
         /\ status'.status = "partial"]_vars

\* A stored NAV never moves by more than a quarter without a nav_move issue at
\* the observation that moved it (validation.py:189-197).
MovedByAQuarter(old, new) ==
  old # 0 /\ new # 0 /\ (4 * new > 5 * old \/ 4 * new < 3 * old)

MovesAreAudited ==
  [][\A r \in DOMAIN funds : MovedByAQuarter(funds[r].nav, funds'[r].nav) =>
       \E k \in DOMAIN hist' :
         /\ k[1] = r /\ hist'[k] = funds'[r]
         /\ <<r, "nav_move", k[2]>> \in issues']_vars

\* The history rows of the undated records of the cycle.
Undated == {<<item.reg, startedAt>> : item \in {i \in seen : i.day = None}}

\* "Running the same cycle again makes no duplicate data" (docs/01:88) holds of the
\* records with a date only: a cycle whose records were all committed before adds
\* a row for an undated one, under its own started_at (fund_sync.py:78-83), and
\* no other.
RerunAddsUndatedOnly ==
  [][seen \subseteq before => DOMAIN hist' \ DOMAIN hist \subseteq Undated]_vars

\* "Bad data does not break the pipeline, the error of each row is counted
\* separately" (docs/03:240): a sound record is stored at the end of a cycle
\* that no fault interrupted, whatever the other records were.
SoundRecordsSurvive ==
  [][(pc # "idle" /\ pc' = "idle" /\ faults' = faults) =>
       \A item \in seen : Usable(item) /\ ~CrossFieldError(item) /\ item.fits =>
         Stored(item)]_vars
=============================================================================
