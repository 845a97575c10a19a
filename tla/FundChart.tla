------------------------------ MODULE FundChart ------------------------------
(***************************************************************************)
(* One request of /api/fund/{reg_no}/chart (routers/web.py:131-298), with   *)
(* services/analytics.py, services/risk.py and get_fund_risk_metrics, while *)
(* the live sync, the backfill and the benchmark sync write.                *)
(*                                                                         *)
(* A request reads in two steps: the rows of the window first, the rows for *)
(* the risk metrics and the index later. The database shows each statement  *)
(* what is committed by then; the session hands out the rows it has loaded  *)
(* as they were. Indices based on 100, drawdowns and flows are ratios: a    *)
(* pair <<value, base>>. One row per day, so the limit of 90 rows never     *)
(* binds in a window of 30 days.                                            *)
(*                                                                         *)
(* Definitions named Var... are plausible wrong versions of the one that   *)
(* follows them; the properties tell each from the code.                   *)
(***************************************************************************)
EXTENDS BenchmarkSync

CONSTANTS
  ChartDays,   \* the window of the chart
  RiskRows     \* rows of the risk metrics

ASSUME ChartAssumption ==
  /\ ChartDays \in Nat /\ RiskRows \in Nat /\ ChartDays <= RiskRows
  /\ None \notin Nat \X Nat   \* a ratio is not missing

VARIABLES
  reading,   \* a request has read its window
  seen       \* the rows it has loaded: day |-> [nav, aum]

request == <<reading, seen>>
vars == <<fundRows, benchVars, request>>

-----------------------------------------------------------------------------
(* The response, from the rows loaded and the tables at the second read. *)

\* nav_by_date: the days of the window with a NAV.
Labels == {d \in DOMAIN seen : seen[d].nav # None}

Nav(d) == seen[d].nav

Known(d) == {e \in Labels : e <= d /\ e \in DOMAIN bench}

\* The next value is carried back to the days before it.
VarAligned(d) ==
  IF Known(d) # {} THEN bench[Latest(Known(d))]
  ELSE LET after == Labels \intersect DOMAIN bench
       IN  IF after = {} THEN None ELSE bench[CHOOSE e \in after : \A x \in after : e <= x]

\* benchmark_aligned: the index of the day, or of the last label that had one.
Aligned(d) == IF Known(d) = {} THEN None ELSE bench[Latest(Known(d))]

\* first_common takes a NAV of zero for a value.
VarCommon == {d \in Labels : Aligned(d) # None}

Common == {d \in Labels : Nav(d) # 0 /\ Aligned(d) # None}

First(S) == CHOOSE d \in S : \A e \in S : d <= e

\* The labels of the comparison, from first_common on.
Compared == IF Common = {} THEN {} ELSE {d \in Labels : d >= First(Common)}

\* index_to_100 of a series: each value against the first one that is neither missing
\* nor zero.
IndexTo100(series) ==
  LET valid == {d \in DOMAIN series : series[d] \notin {None, 0}}
  IN  [d \in DOMAIN series |->
         IF d \in valid THEN <<series[d], series[First(valid)]>> ELSE None]

FundLine == IndexTo100([d \in Compared |-> Nav(d)])
BenchmarkLine == IndexTo100([d \in Compared |-> Aligned(d)])

Peak(navs, d) ==
  LET before == {navs[e] : e \in {x \in DOMAIN navs : x <= d}}
  IN  CHOOSE v \in before : \A w \in before : w <= v

\* drawdown_series
Drawdown ==
  LET navs == [d \in Labels |-> Nav(d)]
  IN  [d \in Labels |-> IF Peak(navs, d) = 0 THEN None ELSE <<Nav(d), Peak(navs, d)>>]

\* Every query shows the rows as they are now.
VarRow(d) == rows[d]

\* A row the session has loaded is not loaded again.
Row(d) == IF d \in DOMAIN seen THEN seen[d] ELSE rows[d]

\* get_fund_risk_metrics: the last RiskRows rows, those with a positive NAV.
RiskDays == {d \in DOMAIN rows :
  /\ Cardinality({e \in DOMAIN rows : e > d}) < RiskRows
  /\ Row(d).nav # None /\ Row(d).nav > 0}

RiskNavs == [d \in RiskDays |-> Row(d).nav]

Deeper(p, q) == p[1] * q[2] <= q[1] * p[2]

\* maximum_drawdown, None for fewer than two prices.
MaxDrawdown ==
  LET navs == RiskNavs
      drops == {<<navs[d], Peak(navs, d)>> : d \in DOMAIN navs}
  IN  IF Cardinality(DOMAIN navs) < 2 THEN None
      ELSE CHOOSE p \in drops : \A q \in drops : Deeper(p, q)

\* A hole in net_asset is bridged, the NAV of the hole is not.
VarLastAum(d) ==
  LET had == {e \in Labels : e < d /\ seen[e].aum # None}
  IN  IF had = {} THEN None ELSE seen[Latest(had)].aum

LastAum(d) == IF Before(Labels, d) = {} THEN None ELSE seen[Latest(Before(Labels, d))].aum

\* fund_flows, times the NAV before: the change of net_asset the NAV does not explain.
Flow(d) ==
  IF \/ LastAum(d) = None \/ seen[d].aum = None
     \/ Before(Labels, d) = {} \/ Nav(Latest(Before(Labels, d))) = 0
  THEN None
  ELSE seen[d].aum * Nav(Latest(Before(Labels, d))) - LastAum(d) * Nav(d)

-----------------------------------------------------------------------------
Init == RowsInit /\ BenchInit /\ reading = FALSE /\ seen = [d \in {} |-> 0]

\* get_fund_history(since=cutoff)
OpenChart ==
  /\ ~reading
  /\ reading' = TRUE
  /\ seen' = [d \in {e \in DOMAIN rows : e > now - ChartDays} |-> rows[d]]
  /\ UNCHANGED <<fundRows, benchVars>>

\* The second reads, and the response.
CloseChart ==
  /\ reading
  /\ reading' = FALSE
  /\ seen' = [d \in {} |-> 0]
  /\ UNCHANGED <<fundRows, benchVars>>

Next ==
  \/ OpenChart \/ CloseChart
  \/ (LiveRow \/ BackfillRow \/ NewDay) /\ UNCHANGED <<benchVars, request>>
  \/ BenchNext /\ UNCHANGED <<fundRows, request>>

Spec == Init /\ [][Next]_vars

\* The scheduler goes on running the job (worker.py:123-131).
FairSpec == Spec /\ WF_vars(BenchFetch /\ UNCHANGED <<fundRows, request>>)
                 /\ WF_vars(BenchStore /\ UNCHANGED <<fundRows, request>>)

-----------------------------------------------------------------------------
(* Properties. They speak of the response a request may be about to give. *)

\* Both lines of the comparison start at 100 on the same day, and no point of the
\* index is of a later day than its label (web.py:221-245, docs/05:75).
ComparisonIsFair ==
  reading /\ Compared # {} =>
    /\ FundLine[First(Compared)] = <<Nav(First(Compared)), Nav(First(Compared))>>
    /\ BenchmarkLine[First(Compared)] = <<Aligned(First(Compared)), Aligned(First(Compared))>>
    /\ \A d \in Compared : \E e \in DOMAIN bench : e <= d /\ Aligned(d) = bench[e]

\* With whole NAVs the drawdown curve never goes deeper than the maximum drawdown
\* beside it, though the two come from different queries (web.py:144, 193, 264).
CurveWithinMaximum ==
  reading /\ Cardinality(Labels) > 1 /\ (\A d \in Labels : Nav(d) > 0) =>
    \A d \in Labels : MaxDrawdown # None /\ Deeper(MaxDrawdown, Drawdown[d])

\* The labels with a net_asset, as far as fund_flows can tell it from a missing one.
Valued == {d \in Labels : seen[d].aum \notin {None, 0}}

\* net_asset over NAV, the number of units, is the same wherever it is known.
SteadyUnits == \A d, e \in Valued : seen[d].aum * Nav(e) = seen[e].aum * Nav(d)

\* A label and the one before it.
Pair(d) == {e \in Labels : e <= d /\ ~\E x \in Labels : e < x /\ x < d}

\* A fund whose units do not change shows a flow only on or after a day whose
\* net_asset is 0, whatever its NAV does and wherever net_asset is NULL
\* (analytics.py:106-133, docs/05:85). The 0 is how the live sync stores a missing
\* net_asset (preprocessing.py:50, where docs/03:242 promises NULL): next to it the
\* chart shows all the money leave and come back.
NoFlowWithoutUnits ==
  reading /\ (\A d \in Labels : Nav(d) > 0) /\ SteadyUnits =>
    \A d \in Labels : Flow(d) \notin {None, 0} => \E e \in Pair(d) : seen[e].aum = 0

\* "The distance of the two lines at the end is exactly the value the fund adds to
\* the market" (docs/05-charts-and-analytics.md:75): the last point of the index is its value of that day,
\* or of the last day with one.
EndsOnTheDay ==
  reading /\ Compared # {} =>
    LET end == Latest(Compared)
        past == {e \in DOMAIN bench : e <= end}
    IN  Aligned(end) = bench[Latest(past)]
=============================================================================
