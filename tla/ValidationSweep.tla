--------------------------- MODULE ValidationSweep ---------------------------
(***************************************************************************)
(* services/validation_sweep.py every 15 minutes and the rules it applies   *)
(* (services/validation.py:84-158, 202-258), for one fund: one SELECT of    *)
(* the rows of the last SWEEP_WINDOW_DAYS, the rules over that snapshot,    *)
(* one INSERT of the violations. Rows go on changing between the two, and   *)
(* nothing ever deletes a violation.                                        *)
(*                                                                         *)
(* Days stand for times: a row is dated midnight, a cutoff has the time of  *)
(* the day. NAVs divide Scale, so a return is a whole number of 1/Scale.    *)
(*                                                                         *)
(* Definitions named Var... are plausible wrong versions of the one that   *)
(* follows them; the properties tell each from the code.                   *)
(***************************************************************************)
EXTENDS FundRows, FiniteSetsExt

CONSTANTS
  Window,        \* SWEEP_WINDOW_DAYS
  MaxGap,        \* MAX_GAP_DAYS
  StaleAfter,    \* STALENESS_DAYS
  StaleAfterMM,  \* STALENESS_DAYS_MARKET_MAKING
  MinReturns,    \* OUTLIER_MIN_RETURNS
  Summary,       \* days counted by /api/health/data
  Scale,
  MaxMissed,     \* days without a sweep that succeeds
  MaxFaults      \* bound on sweeps that fail

ASSUME ValidationSweepAssumption ==
  /\ {Window, MaxGap, StaleAfter, StaleAfterMM, MinReturns, Summary, Scale,
      MaxMissed, MaxFaults} \subseteq Nat
  /\ Summary <= MaxGap /\ Window <= StaleAfterMM

VARIABLES
  kind,      \* fund_type: market making or not
  issues,    \* keys <<rule, observed_at>> of data_quality_issues
  pc,        \* "idle", or "write" between the SELECT and the INSERT
  found,     \* keys of the violations of this sweep
  missed,    \* days since a sweep succeeded
  faults

sweep == <<kind, issues, pc, found, missed, faults>>
vars == <<fundRows, sweep>>

-----------------------------------------------------------------------------
(* The rules, over the rows of the window. *)

Swept == {d \in DOMAIN rows : d > now - Window}

Priced == {d \in Swept : rows[d].nav # None}

Abs(x) == IF x < 0 THEN -x ELSE x

\* The returns, as pairs <<day, return>>: a day has one when there is a NAV before
\* it and that is not zero.
Returns ==
  LET priced == Priced
      prev(d) == rows[Latest(Before(priced, d))].nav
      jumps == {d \in priced : Before(priced, d) # {} /\ prev(d) > 0}
  IN  {<<d, ((rows[d].nav - prev(d)) * Scale) \div prev(d)>> : d \in jumps}

Jumps == {p[1] : p \in Returns}

\* The k-th smallest value of a set of pairs <<day, value>>.
Ordered(f, k) ==
  CHOOSE v \in {p[2] : p \in f} :
    /\ Cardinality({p \in f : p[2] < v}) < k
    /\ k <= Cardinality({p \in f : p[2] <= v})

\* statistics.median, doubled.
TwiceMedian(f) ==
  LET n == Cardinality(f)
  IN  Ordered(f, (n + 1) \div 2) + Ordered(f, (n \div 2) + 1)

\* OUTLIER_MIN_ABS_MOVE, a twentieth.
Big(r) == 20 * Abs(r) > Scale

\* The distances from the median, all doubled.
Deviations(ret) ==
  LET centre == TwiceMedian(ret) IN {<<p[1], Abs(2 * p[2] - centre)>> : p \in ret}

\* No fall-back when the MAD is zero.
VarFar(ret) ==
  LET dev == Deviations(ret)
      mad == TwiceMedian(dev)
  IN  {p[1] : p \in {q \in dev : mad > 0 /\ 6745 * q[2] > 20000 * mad}}

\* The sums the standard deviation is made of.
Total(ret) == MapThenSumSet(LAMBDA p : p[2], ret)
SquareTotal(ret) == MapThenSumSet(LAMBDA p : p[2] * p[2], ret)

\* More than four scales from the median: the scale is the MAD over 0.6745, or
\* the standard deviation when the MAD is zero.
Far(ret) ==
  LET n == Cardinality(ret)
      dev == Deviations(ret)
      mad == TwiceMedian(dev)
      spread == n * SquareTotal(ret) - Total(ret) * Total(ret)
      far(x) == IF mad > 0 THEN 6745 * x > 20000 * mad
                ELSE x * x * n * (n - 1) > 64 * spread
  IN  {p[1] : p \in {q \in dev : far(q[2])}}

\* detect_outlier_returns: the days whose return is an outlier.
Outliers ==
  LET ret == Returns
  IN  IF Cardinality(ret) < MinReturns THEN {}
      ELSE {p[1] : p \in {q \in ret : Big(q[2])}} \intersect Far(ret)

\* The index of a return is taken for the index of its day.
VarOutlierDay(d) == Nth(Swept, Rank(Jumps, d))

\* The index counts returns, and is used in the list of all days.
OutlierDay(d) == Nth(Swept, Rank(Jumps, d) + 1)

\* A gap is dated by the day that ends it.
VarGaps == {d \in Swept : Before(Swept, d) # {} /\ d - Latest(Before(Swept, d)) > MaxGap}

\* detect_large_gaps; a gap is dated by the day it starts.
Gaps == {Latest(Before(Swept, d)) :
           d \in {e \in Swept : Before(Swept, e) # {}
                                  /\ e - Latest(Before(Swept, e)) > MaxGap}}

\* One threshold for every kind of fund.
VarThreshold == StaleAfterMM

Threshold == IF kind = "market making" THEN StaleAfterMM ELSE StaleAfter

\* The clock of staleness_days is the host's: a day late after midnight.
Stale(clock) ==
  IF Swept # {} /\ clock - Latest(Swept) > Threshold THEN {Latest(Swept)} ELSE {}

\* sweep_fund_history, as keys of violations.
Violations(clock) ==
  ({"outlier"} \X {OutlierDay(d) : d \in Outliers})
    \union ({"gap"} \X Gaps) \union ({"staleness"} \X Stale(clock))

-----------------------------------------------------------------------------
Init ==
  /\ RowsInit
  /\ kind \in {"market making", "other"}
  /\ issues = {} /\ pc = "idle" /\ found = {} /\ missed = 0 /\ faults = 0

SweepRead ==
  /\ pc = "idle"
  /\ pc' = "write"
  /\ \E clock \in {now - 1, now} : found' = Violations(clock)
  /\ UNCHANGED <<fundRows, kind, issues, missed, faults>>

EndSweep == pc' = "idle" /\ found' = {} /\ UNCHANGED <<fundRows, kind>>

SweepCommit ==
  /\ pc = "write"
  /\ issues' = issues \union found
  /\ missed' = 0
  /\ EndSweep
  /\ UNCHANGED faults

SweepFails ==
  /\ pc = "write" /\ faults < MaxFaults
  /\ faults' = faults + 1
  /\ EndSweep
  /\ UNCHANGED <<issues, missed>>

\* A sweep succeeds at least once in MaxMissed days.
Day ==
  /\ missed < MaxMissed
  /\ missed' = missed + 1
  /\ NewDay
  /\ UNCHANGED <<kind, issues, pc, found, faults>>

Rewrite == (LiveRow \/ BackfillRow) /\ UNCHANGED sweep

Next == SweepRead \/ SweepCommit \/ SweepFails \/ Day \/ Rewrite

Spec == Init /\ [][Next]_vars

\* The scheduler runs the job every 15 minutes (worker.py:133-141), a sweep that
\* is idle can start and one that has read can commit, so sweeps go on succeeding.
FairSpec == Spec /\ []<><<SweepCommit>>_vars

-----------------------------------------------------------------------------
(* Properties. *)

Reading == pc = "idle" /\ pc' = "write"

Whole == \A d \in Swept : rows[d].nav \notin {None, 0}

\* An outlier is never dated after the row that jumped, and by that row itself
\* when no NAV of the window is missing or zero (validation.py:98-129, 225).
OutlierPointsBack ==
  [][Reading => \A v \in found' : v[1] = "outlier" =>
       \E p \in Returns : /\ Big(p[2]) /\ v[2] <= p[1]
                          /\ Whole => v[2] = p[1]]_vars

\* The returns are all zero but one, which is large.
OneJump(ret) == \E p \in ret : Big(p[2]) /\ \A q \in ret \ {p} : q[2] = 0

\* The change-based case the fall-back is for (validation.py:118-120): one jump in
\* a flat series is seen, whatever its size, exactly from seventeen returns on.
LoneJump ==
  [][Reading /\ Whole /\ OneJump(Returns) =>
       ((\E v \in found' : v[1] = "outlier") <=> Cardinality(Swept) > 17)]_vars

\* The last day of a fund is too old, still in the window, and not on record.
Overdue ==
  /\ kind # "market making"
  /\ \E d \in Swept : /\ \A e \in DOMAIN rows : e <= d
                      /\ now - d > StaleAfter + 1
                      /\ <<"staleness", d>> \notin issues

\* A fund that falls silent does not stay unrecorded, however rows, sweeps and
\* failures interleave (validation.py:247-256).
SilenceIsRecorded == Overdue ~> ~Overdue

\* "staleness: the last observation is older than the threshold (10 days; market-
\* making funds: 90 days, since they rarely publish a NAV): recorded"
\* (docs/03:257). A sweep that reads while the last row of such a fund is older
\* than its threshold, and a day for the clock of the host, finds it stale.
MarketMakingSilenceFound ==
  [][Reading /\ kind = "market making" /\ DOMAIN rows # {}
       /\ now - Latest(DOMAIN rows) > StaleAfterMM + 1 =>
         \E v \in found' : v[1] = "staleness"]_vars

\* A gap never shows in the counts of /api/health/data, which go by the start of
\* the gap and reach back no longer than a gap (web.py:575-579), though docs/03:265
\* has every violation shown on the dashboard.
GapsUncounted ==
  \A v \in issues \union found : v[1] = "gap" => v[2] <= now - Summary
=============================================================================
