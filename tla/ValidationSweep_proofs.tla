------------------------ MODULE ValidationSweep_proofs ------------------------
(***************************************************************************)
(* What the rules can and cannot put on record, for every history of rows   *)
(* and every value of the constants that ValidationSweepAssumption allows:  *)
(* it asks for Window <= StaleAfterMM and Summary <= MaxGap, and the code   *)
(* has 90 <= 90 and 30 <= 30. First what these thresholds make impossible,  *)
(* then the day an outlier points to, then from how many returns on a lone  *)
(* jump of a NAV that otherwise never moves is found.                       *)
(***************************************************************************)
EXTENDS ValidationSweep, FundRows_proofs

\* No staleness of a market-making fund is on record or about to be.
MarketMakingNeverStale ==
  kind = "market making" => \A v \in issues \union found : v[1] # "staleness"

\* No staleness of a market-making fund, on record or about to be.
StaleInv == RowsInv /\ MarketMakingNeverStale

\* Gaps, on record or about to be, start before the days that are counted.
GapInv ==
  RowsInv /\ \A v \in issues \union found : v[1] = "gap" => v[2] \in Int /\ v[2] <= now - Summary

\* The kinds of violation a sweep can report.
LEMMA KindsOfViolation ==
  ASSUME NEW clock, NEW v \in Violations(clock)
  PROVE  \/ v[1] = "outlier"
         \/ v[1] = "gap" /\ v[2] \in Gaps
         \/ v[1] = "staleness" /\ v[2] \in Stale(clock)
BY DEF Violations

\* The rows of the window are a set of days up to today.
LEMMA SweptDays == ASSUME RowsInv PROVE Swept \in SUBSET (0 .. now) /\ now \in Nat
BY DEF RowsInv, Swept

\* A row of the window is not older than the threshold of market making.
LEMMA NothingOld ==
  ASSUME RowsInv, NEW d \in Swept, NEW clock \in Int, clock <= now
  PROVE  ~(clock - d > StaleAfterMM)
<1>1. Window \in Nat /\ StaleAfterMM \in Nat /\ Window <= StaleAfterMM /\ now \in Nat
  BY ValidationSweepAssumption, SweptDays
<1>2. d \in 0 .. now
  BY SweptDays
<1>3. d > now - Window
  BY DEF Swept
<1> QED
  BY <1>1, <1>2, <1>3

\* So there is nothing to report.
LEMMA NothingStale ==
  ASSUME RowsInv, kind = "market making", NEW clock \in Int, clock <= now
  PROVE  Stale(clock) = {}
<1>1. CASE Swept = {}
  BY <1>1 DEF Stale
<1>2. CASE Swept # {}
  <2>1. Latest(Swept) \in Swept
    BY <1>2, SweptDays, LatestIs
  <2>2. ~(clock - Latest(Swept) > StaleAfterMM)
    BY <2>1, NothingOld
  <2> QED
    BY <2>2 DEF Stale, Threshold
<1> QED
  BY <1>1, <1>2

\* A gap starts more than MaxGap days before a row, and no row is of tomorrow.
LEMMA GapsAreOld ==
  ASSUME RowsInv, NEW g \in Gaps
  PROVE  g \in Int /\ g <= now - Summary
<1>1. PICK e \in Swept : /\ Before(Swept, e) # {} /\ e - Latest(Before(Swept, e)) > MaxGap
                         /\ g = Latest(Before(Swept, e))
  BY DEF Gaps
<1>2. Before(Swept, e) \in SUBSET (0 .. now)
  BY SweptDays DEF Before
<1>3. g \in Before(Swept, e)
  BY <1>1, <1>2, SweptDays, LatestIs
<1>4. g \in Nat /\ e \in Nat /\ e <= now /\ now \in Nat
  BY <1>2, <1>3, SweptDays
<1>5. Summary \in Nat /\ MaxGap \in Nat /\ Summary <= MaxGap
  BY ValidationSweepAssumption
<1> QED
  BY <1>1, <1>4, <1>5

\* The rows stay between the first day and today.
LEMMA DaysKept == RowsInv /\ [Next]_vars => RowsInv'
<1> SUFFICES ASSUME RowsInv, [Next]_vars PROVE RowsInv'
  OBVIOUS
<1>1. LiveRow \/ BackfillRow \/ NewDay \/ UNCHANGED <<rows, now>>
  BY DEF Next, SweepRead, SweepCommit, SweepFails, EndSweep, Day, Rewrite, fundRows, vars
<1> QED
  BY <1>1, RowsStep

\* What is found or on record after a step was before, or is a violation of this sweep.
LEMMA WhereIssuesComeFrom ==
  ASSUME [Next]_vars
  PROVE  /\ kind' = kind
         /\ \/ issues' \union found' \subseteq issues \union found
            \/ /\ UNCHANGED <<rows, now, issues>>
               /\ \E clock \in {now - 1, now} : found' = Violations(clock)
<1>1. ASSUME SweepRead
      PROVE  /\ UNCHANGED <<rows, now, kind, issues>>
             /\ \E clock \in {now - 1, now} : found' = Violations(clock)
  BY <1>1 DEF SweepRead, fundRows
<1>2. ASSUME SweepCommit \/ SweepFails
      PROVE  kind' = kind /\ issues' \union found' \subseteq issues \union found
  BY <1>2 DEF SweepCommit, SweepFails, EndSweep
<1>3. ASSUME Day \/ Rewrite \/ UNCHANGED vars
      PROVE  kind' = kind /\ issues' = issues /\ found' = found
  BY <1>3 DEF Day, Rewrite, sweep, vars
<1> QED
  BY <1>1, <1>2, <1>3 DEF Next

\* Every step preserves StaleInv.
LEMMA StaleStep == StaleInv /\ [Next]_vars => StaleInv'
<1> SUFFICES ASSUME StaleInv, [Next]_vars PROVE StaleInv'
  OBVIOUS
<1>1. RowsInv'
  BY DaysKept DEF StaleInv
<1>2. ASSUME kind' = "market making", NEW v \in (issues \union found)'
      PROVE  v[1] # "staleness"
  <2>1. CASE v \in issues \union found
    BY <1>2, <2>1, WhereIssuesComeFrom DEF StaleInv, MarketMakingNeverStale
  <2>2. ASSUME NEW clock \in {now - 1, now}, v \in Violations(clock)
        PROVE  v[1] # "staleness"
    <3>1. clock \in Int /\ clock <= now
      BY <2>2 DEF StaleInv, RowsInv
    <3>2. Stale(clock) = {}
      BY <1>2, <3>1, NothingStale, WhereIssuesComeFrom DEF StaleInv
    <3> QED
      BY <2>2, <3>2, KindsOfViolation
  <2> QED
    BY <1>2, <2>1, <2>2, WhereIssuesComeFrom
<1> QED
  BY <1>1, <1>2 DEF StaleInv, MarketMakingNeverStale

\* Every step preserves GapInv: days only go by.
LEMMA GapStep == GapInv /\ [Next]_vars => GapInv'
<1> SUFFICES ASSUME GapInv, [Next]_vars PROVE GapInv'
  OBVIOUS
<1>1. RowsInv'
  BY DaysKept DEF GapInv
<1>2. now \in Nat /\ now' \in Nat /\ now <= now' /\ Summary \in Nat
  <2>1. now' = now \/ now' = now + 1
    BY DEF Next, SweepRead, SweepCommit, SweepFails, EndSweep, Day, NewDay, Rewrite,
       LiveRow, BackfillRow, Write, fundRows, vars
  <2> QED
    BY <2>1, ValidationSweepAssumption DEF GapInv, RowsInv
<1>3. ASSUME NEW v \in (issues \union found)', v[1] = "gap"
      PROVE  v[2] \in Int /\ v[2] <= now' - Summary
  <2>1. CASE v \in issues \union found
    BY <1>2, <1>3, <2>1 DEF GapInv
  <2>2. ASSUME NEW clock \in {now - 1, now}, v \in Violations(clock)
        PROVE  v[2] \in Int /\ v[2] <= now' - Summary
    <3>1. v[2] \in Gaps
      BY <1>3, <2>2, KindsOfViolation
    <3>2. v[2] \in Int /\ v[2] <= now - Summary
      BY <3>1, GapsAreOld DEF GapInv
    <3> QED
      BY <1>2, <3>2
  <2> QED
    BY <1>3, <2>1, <2>2, WhereIssuesComeFrom
<1> QED
  BY <1>1, <1>3 DEF GapInv

\* A market-making fund is never recorded as stale, however long it is silent: the
\* rule compares with 90 days the last of rows that are at most 90 days old
\* (validation_sweep.py:18, validation.py:30). The sentence docs/03:257 has it
\* recorded; this is how far the code is from it, for every history and schedule.
THEOREM NoStaleMarketMaking == Spec => []MarketMakingNeverStale
<1>1. Init => StaleInv
  BY RowsStart DEF Init, StaleInv, MarketMakingNeverStale
<1>2. StaleInv => MarketMakingNeverStale
  BY DEF StaleInv
<1> QED
  BY <1>1, <1>2, StaleStep, PTL DEF Spec

\* A gap on record never enters the counts of the last 30 days, however early it is
\* found (web.py:575-579).
THEOREM NoGapCounted == Spec => []GapsUncounted
<1>1. Init => GapInv
  BY RowsStart DEF Init, GapInv
<1>2. GapInv => GapsUncounted
  BY DEF GapInv, GapsUncounted
<1> QED
  BY <1>1, <1>2, GapStep, PTL DEF Spec

-----------------------------------------------------------------------------
(* Outliers.                                                               *)

\* Every NAV of the fund is missing or a number, and rows are of days up to today.
OutlierInv == RowsInv /\ RowsOK(rows)

\* At the start.
LEMMA OutlierInit == Init => OutlierInv
BY RowsStart, HistoryRows DEF Init, OutlierInv

\* Rows are only added, and hold a NAV or none.
LEMMA OutlierStep == OutlierInv /\ [Next]_vars => OutlierInv'
<1> SUFFICES ASSUME OutlierInv, [Next]_vars PROVE OutlierInv'
  OBVIOUS
<1>1. RowsInv'
  BY DaysKept DEF OutlierInv
<1>2. (LiveRow \/ BackfillRow) \/ rows' = rows
  BY DEF Next, SweepRead, SweepCommit, SweepFails, EndSweep, Day, NewDay, Rewrite,
     fundRows, vars
<1>3. RowsOK(rows')
  BY <1>2, WriteRows DEF OutlierInv
<1> QED
  BY <1>1, <1>3 DEF OutlierInv

\* A day with a return is priced, and has a NAV before it that is not zero.
LEMMA JumpDays ==
  Jumps = {d \in Priced : /\ Before(Priced, d) # {}
                          /\ rows[Latest(Before(Priced, d))].nav > 0}
<1> DEFINE prev(d) == rows[Latest(Before(Priced, d))].nav
           J == {d \in Priced : Before(Priced, d) # {} /\ prev(d) > 0}
           R(d) == ((rows[d].nav - prev(d)) * Scale) \div prev(d)
<1>1. Returns = {<<d, R(d)>> : d \in J}
  BY DEF Returns
<1> HIDE DEF R, J
<1>2. {p[1] : p \in Returns} = J
  <2>1. \A p \in Returns : p[1] \in J
    BY <1>1
  <2>2. ASSUME NEW d \in J PROVE \E p \in Returns : p[1] = d
    <3>1. <<d, R(d)>> \in Returns /\ <<d, R(d)>>[1] = d
      BY <1>1
    <3> QED
      BY <3>1
  <2> QED
    BY <2>1, <2>2
<1> QED
  BY <1>2 DEF Jumps, J

\* The first priced day has no return, so a day with one has at least one more day
\* before it in the window than days with a return; exactly one more when no NAV of
\* the window is missing or zero.
LEMMA RankOfJump ==
  ASSUME OutlierInv, NEW d \in Jumps
  PROVE  /\ Rank(Jumps, d) \in Nat /\ d \in Swept /\ Jumps \subseteq Swept
         /\ Rank(Jumps, d) + 1 <= Rank(Swept, d)
         /\ Whole => Rank(Jumps, d) + 1 = Rank(Swept, d)
<1>0. Swept \in SUBSET (0 .. now) /\ now \in Nat
  BY SweptDays DEF OutlierInv
<1>1. Jumps \subseteq Priced /\ Priced \subseteq Swept
  BY JumpDays DEF Priced
<1>2. /\ Jumps \in SUBSET (0 .. now) /\ Priced \in SUBSET (0 .. now)
      /\ Priced \in SUBSET Nat
  BY <1>0, <1>1
<1>3. PICK m \in Priced : \A e \in Priced : m <= e
  <2>1. Priced # {}
    BY <1>1
  <2> QED
    BY <1>2, <2>1, FirstDay
<1>4. Before(Priced, m) = {}
  <2>1. \A e \in Priced : ~(e < m)
    BY <1>2, <1>3
  <2> QED
    BY <2>1 DEF Before
<1>5. m \notin Jumps /\ m \in Before(Swept, d)
  <2>1. m \notin Jumps
    BY <1>4, JumpDays
  <2>2. m <= d /\ m # d /\ m \in Nat /\ d \in Nat
    BY <1>1, <1>2, <1>3, <2>1
  <2>3. m < d
    BY <2>2
  <2> QED
    BY <1>1, <2>1, <2>3 DEF Before
<1> DEFINE B == Before(Jumps, d)
<1>6. /\ IsFiniteSet(B) /\ Cardinality(B) \in Nat /\ m \notin B
      /\ IsFiniteSet(Before(Swept, d)) /\ Cardinality(Before(Swept, d)) \in Nat
  <2>1. m \notin B
    BY <1>5 DEF Before
  <2> QED
    BY <1>0, <1>2, <2>1, BeforeCount
<1>7. Cardinality(B \union {m}) = Cardinality(B) + 1 /\ IsFiniteSet(B \union {m})
  BY <1>6, FS_AddElement
<1>8. B \union {m} \subseteq Before(Swept, d)
  BY <1>1, <1>5 DEF Before
<1>9. Cardinality(B) + 1 <= Cardinality(Before(Swept, d))
  BY <1>6, <1>7, <1>8, FS_Subset
<1>10. ASSUME Whole PROVE Before(Swept, d) \subseteq B \union {m}
  <2>1. Priced = Swept /\ \A e \in Swept : rows[e].nav > 0
    <3>1. \A e \in Swept : rows[e].nav \in Nat \union {None}
      BY DEF OutlierInv, RowsOK, IsRow, Swept
    <3>2. \A e \in Swept : rows[e].nav # None /\ rows[e].nav \in Nat \ {0}
      BY <1>10, <3>1 DEF Whole
    <3> QED
      BY <3>2 DEF Priced
  <2>2. ASSUME NEW e \in Before(Swept, d), e # m PROVE e \in B
    <3>1. e \in Priced /\ e < d /\ e \in Nat /\ m \in Nat
      BY <1>2, <2>1, <2>2 DEF Before
    <3>2. m <= e
      BY <1>3, <3>1
    <3>3. m \in Before(Priced, e)
      BY <2>2, <3>1, <3>2 DEF Before
    <3>4. Latest(Before(Priced, e)) \in Before(Priced, e)
      <4>1. Before(Priced, e) \in SUBSET (0 .. now)
        BY <1>2 DEF Before
      <4> QED
        BY <1>0, <3>3, <4>1, LatestIs
    <3>5. rows[Latest(Before(Priced, e))].nav > 0
      BY <2>1, <3>4 DEF Before
    <3>6. e \in Jumps
      BY <3>1, <3>3, <3>5, JumpDays
    <3> QED
      BY <3>1, <3>6 DEF Before
  <2> QED
    BY <2>2
<1>11. Whole => Cardinality(Before(Swept, d)) = Cardinality(B) + 1
  <2> SUFFICES ASSUME Whole PROVE Cardinality(Before(Swept, d)) = Cardinality(B) + 1
    OBVIOUS
  <2>1. Before(Swept, d) = B \union {m}
    BY <1>8, <1>10
  <2> QED
    BY <1>7, <2>1
<1>12. Rank(Jumps, d) = Cardinality(B) + 1 /\ Rank(Swept, d) = Cardinality(Before(Swept, d)) + 1
  BY DEF Rank
<1> HIDE DEF B
<1>13. /\ Rank(Jumps, d) \in Nat /\ Rank(Jumps, d) + 1 <= Rank(Swept, d)
       /\ Whole => Rank(Jumps, d) + 1 = Rank(Swept, d)
  BY <1>6, <1>9, <1>11, <1>12
<1> QED
  BY <1>1, <1>13

\* So the date of an outlier is no later than the day that jumped, and is that day
\* when no NAV of the window is missing or zero.
LEMMA OutlierDate ==
  ASSUME OutlierInv, NEW d \in Jumps
  PROVE  OutlierDay(d) <= d /\ (Whole => OutlierDay(d) = d)
<1> DEFINE k == Rank(Jumps, d) + 1
<1>1. /\ k \in Nat \ {0} /\ k <= Rank(Swept, d) /\ d \in Swept
      /\ Whole => k = Rank(Swept, d)
  BY RankOfJump
<1>2. Swept \in SUBSET (0 .. now) /\ now \in Nat
  BY SweptDays DEF OutlierInv
<1>3. OutlierDay(d) = Nth(Swept, k)
  BY DEF OutlierDay
<1> HIDE DEF k
<1> QED
  BY <1>1, <1>2, <1>3, NthIs

\* An outlier of a sweep is the date of a day with a large return.
LEMMA OutlierOfSweep ==
  ASSUME NEW clock, NEW v \in Violations(clock), v[1] = "outlier"
  PROVE  \E p \in Returns : Big(p[2]) /\ p[1] \in Jumps /\ v[2] = OutlierDay(p[1])
<1>1. PICK d \in Outliers : v[2] = OutlierDay(d)
  BY DEF Violations
<1>2. d \in {p[1] : p \in {q \in Returns : Big(q[2])}}
  BY DEF Outliers
<1> QED
  BY <1>1, <1>2 DEF Jumps

\* An outlier is never dated after the row that jumped, whatever NAVs are missing or
\* zero, and by that row itself when none of the window is: the index of a return is
\* used in the list of all days, which is at least one longer up to the jump
\* (validation.py:98-129, 225).
THEOREM OutlierNeverLater == Spec => OutlierPointsBack
<1> DEFINE A == Reading => \A v \in found' : v[1] = "outlier" =>
                  \E p \in Returns : /\ Big(p[2]) /\ v[2] <= p[1]
                                     /\ Whole => v[2] = p[1]
<1>1. ASSUME OutlierInv, [Next]_vars PROVE [A]_vars
  <2> SUFFICES ASSUME Reading, NEW v \in found', v[1] = "outlier"
               PROVE  \E p \in Returns : /\ Big(p[2]) /\ v[2] <= p[1]
                                         /\ Whole => v[2] = p[1]
    OBVIOUS
  <2>1. PICK clock \in {now - 1, now} : found' = Violations(clock)
    BY <1>1 DEF Reading, Next, SweepRead, SweepCommit, SweepFails, EndSweep, Day, Rewrite,
       sweep, vars
  <2>2. PICK p \in Returns : Big(p[2]) /\ p[1] \in Jumps /\ v[2] = OutlierDay(p[1])
    BY <2>1, OutlierOfSweep
  <2> QED
    BY <1>1, <2>2, OutlierDate
<1> QED
  BY <1>1, OutlierInit, OutlierStep, PTL DEF Spec, OutlierPointsBack

-----------------------------------------------------------------------------
(* One jump in a flat series.                                              *)

\* What MapThenSumSet takes out of a set next.
Pick(s) == CHOOSE x \in s : TRUE

\* The sum over the subsets of S, one element after the other.
Summed(F, S, g) ==
  F = [s \in SUBSET S |-> IF s = {} THEN 0 ELSE g[Pick(s)] + F[s \ {Pick(s)}]]

\* The sum of a function that is zero but at p is its value at p: there is no least
\* subset for which it is anything else.
LEMMA LoneSumIs ==
  ASSUME NEW S, IsFiniteSet(S), NEW p \in S, NEW g, g[p] \in Int,
         \A q \in S \ {p} : g[q] = 0, NEW F, Summed(F, S, g)
  PROVE  F[S] = g[p]
<1> DEFINE Right(s) == F[s] = IF p \in s THEN g[p] ELSE 0
           Bad == {k \in Nat : \E s \in SUBSET S : Cardinality(s) = k /\ ~Right(s)}
<1>1. \A s \in SUBSET S : IsFiniteSet(s) /\ Cardinality(s) \in Nat
  BY FS_Subset, FS_CardinalityType
<1>2. SUFFICES ASSUME Bad # {} PROVE FALSE
  <2>1. Right(S)
    BY <1>1, <1>2
  <2> QED
    BY <2>1
<1>3. PICK k \in Bad : \A j \in Bad : k <= j
  <2>1. Bad \in SUBSET Nat
    OBVIOUS
  <2> HIDE DEF Bad
  <2> QED
    BY <1>2, <2>1, FirstDay
<1>4. PICK s \in SUBSET S : Cardinality(s) = k /\ ~Right(s)
  OBVIOUS
<1>5. s # {}
  <2>1. F[{}] = 0
    BY DEF Summed
  <2> QED
    BY <1>4, <2>1
<1> DEFINE x == Pick(s)
<1>6. x \in s
  BY <1>5 DEF Pick
<1>7. F[s] = g[x] + F[s \ {x}]
  BY <1>5 DEF Summed
<1> HIDE DEF x
<1>8. Right(s \ {x})
  <2>1. s \ {x} \in SUBSET S /\ Cardinality(s \ {x}) = k - 1 /\ k - 1 \in Nat /\ k \in Nat
    <3>1. Cardinality(s \ {x}) = k - 1 /\ Cardinality(s \ {x}) \in Nat
      BY <1>1, <1>4, <1>6, FS_RemoveElement
    <3> QED
      BY <3>1
  <2>2. k - 1 \notin Bad
    <3> HIDE DEF Bad
    <3> QED
      BY <1>3, <2>1
  <2> HIDE DEF Right
  <2> QED
    BY <2>1, <2>2
<1>9. CASE x = p
  BY <1>4, <1>7, <1>8, <1>9, <1>6
<1>10. CASE x # p
  <2>1. g[x] = 0
    BY <1>6, <1>10
  <2> QED
    BY <1>4, <1>7, <1>8, <1>10, <2>1
<1> QED
  BY <1>9, <1>10

\* There is such a sum.
LEMMA LoneSumExists ==
  ASSUME NEW S, NEW p \in S, NEW g, g[p] \in Int, \A q \in S \ {p} : g[q] = 0
  PROVE  \E F : Summed(F, S, g)
<1> DEFINE W == [s \in SUBSET S |-> IF p \in s THEN g[p] ELSE 0]
<1>1. ASSUME NEW s \in SUBSET S
      PROVE  W[s] = IF s = {} THEN 0 ELSE g[Pick(s)] + W[s \ {Pick(s)}]
  <2>1. CASE s = {}
    BY <2>1
  <2>2. CASE s # {}
    <3> DEFINE x == Pick(s)
    <3>1. x \in s
      BY <2>2 DEF Pick
    <3> HIDE DEF x
    <3>2. s \ {x} \in SUBSET S
      OBVIOUS
    <3>3. W[s] = g[x] + W[s \ {x}]
      <4>1. CASE x = p
        BY <3>1, <3>2, <4>1
      <4>2. CASE x # p
        <5>1. g[x] = 0
          BY <3>1, <4>2
        <5> QED
          BY <3>1, <3>2, <4>2, <5>1
      <4> QED
        BY <4>1, <4>2
    <3> QED
      BY <2>2, <3>3 DEF x
  <2> QED
    BY <2>1, <2>2
<1>2. Summed(W, S, g)
  <2>1. W = [s \in SUBSET S |-> IF s = {} THEN 0 ELSE g[Pick(s)] + W[s \ {Pick(s)}]]
    <3> DEFINE B == [s \in SUBSET S |-> IF s = {} THEN 0 ELSE g[Pick(s)] + W[s \ {Pick(s)}]]
    <3>1. \A s \in SUBSET S : W[s] = B[s]
      <4> SUFFICES ASSUME NEW s \in SUBSET S PROVE W[s] = B[s]
        OBVIOUS
      <4>1. B[s] = IF s = {} THEN 0 ELSE g[Pick(s)] + W[s \ {Pick(s)}]
        <5> HIDE DEF W
        <5> QED
          OBVIOUS
      <4> QED
        BY <1>1, <4>1
    <3>2. W = [s \in SUBSET S |-> W[s]] /\ B = [s \in SUBSET S |-> B[s]]
      OBVIOUS
    <3> HIDE DEF W, B
    <3>3. W = B
      BY <3>1, <3>2
    <3> QED
      BY <3>3 DEF B
  <2> QED
    BY <2>1 DEF Summed
<1> QED
  BY <1>2

\* The two sums of the standard deviation, when all returns but one are zero.
LEMMA LoneSums ==
  ASSUME NEW S, IsFiniteSet(S), NEW p \in S, p[2] \in Int, \A q \in S \ {p} : q[2] = 0
  PROVE  /\ Total(S) = p[2]
         /\ SquareTotal(S) = p[2] * p[2]
<1>0. \A s \in SUBSET S : s # {} => Pick(s) \in S
  BY DEF Pick
<1>1. Total(S) = p[2]
  <2> DEFINE g == [q \in S |-> q[2]]
             B(F) == [s \in SUBSET S |-> IF s = {} THEN 0 ELSE Pick(s)[2] + F[s \ {Pick(s)}]]
             C == CHOOSE F : F = B(F)
  <2>1. Total(S) = C[S]
    BY DEF Total, MapThenSumSet, MapThenFoldSet, Pick
  <2>2. \A F : F = B(F) <=> Summed(F, S, g)
    BY <1>0 DEF Summed
  <2>3. g[p] \in Int /\ g[p] = p[2] /\ \A q \in S \ {p} : g[q] = 0
    OBVIOUS
  <2> HIDE DEF B, g
  <2>4. Summed(C, S, g)
    <3>1. \E F : F = B(F)
      BY <2>2, <2>3, LoneSumExists
    <3> QED
      BY <2>2, <3>1
  <2> HIDE DEF C
  <2> QED
    BY <2>1, <2>3, <2>4, LoneSumIs
<1>2. SquareTotal(S) = p[2] * p[2]
  <2> DEFINE g == [q \in S |-> q[2] * q[2]]
             B(F) == [s \in SUBSET S |->
                        IF s = {} THEN 0 ELSE Pick(s)[2] * Pick(s)[2] + F[s \ {Pick(s)}]]
             C == CHOOSE F : F = B(F)
  <2>1. SquareTotal(S) = C[S]
    BY DEF SquareTotal, MapThenSumSet, MapThenFoldSet, Pick
  <2>2. \A F : F = B(F) <=> Summed(F, S, g)
    BY <1>0 DEF Summed
  <2>3. g[p] \in Int /\ g[p] = p[2] * p[2] /\ \A q \in S \ {p} : g[q] = 0
    OBVIOUS
  <2> HIDE DEF B, g
  <2>4. Summed(C, S, g)
    <3>1. \E F : F = B(F)
      BY <2>2, <2>3, LoneSumExists
    <3> QED
      BY <2>2, <3>1
  <2> HIDE DEF C
  <2> QED
    BY <2>1, <2>3, <2>4, LoneSumIs
<1> QED
  BY <1>1, <1>2

\* Values that are all zero but one.
FlatBut(f, p) == /\ IsFiniteSet(f) /\ p \in f /\ p[2] \in Int \ {0}
                 /\ \A q \in f \ {p} : q[2] = 0

\* No place but the first and the last has anything but zero.
LEMMA FlatOrdered ==
  ASSUME NEW f, NEW p, FlatBut(f, p), NEW k \in Nat, 2 <= k, k <= Cardinality(f) - 1
  PROVE  Ordered(f, k) = 0
<1> DEFINE n == Cardinality(f)
           Below(v) == {q \in f : q[2] < v}
           Upto(v) == {q \in f : q[2] <= v}
           Is(v) == Cardinality(Below(v)) < k /\ k <= Cardinality(Upto(v))
<1>1. n \in Nat /\ IsFiniteSet(f \ {p}) /\ Cardinality(f \ {p}) = n - 1
  BY FS_CardinalityType, FS_RemoveElement DEF FlatBut
<1>2. \A v : /\ IsFiniteSet(Below(v)) /\ Cardinality(Below(v)) \in Nat
             /\ IsFiniteSet(Upto(v)) /\ Cardinality(Upto(v)) \in Nat
  <2> SUFFICES ASSUME NEW v
               PROVE  /\ IsFiniteSet(Below(v)) /\ Cardinality(Below(v)) \in Nat
                      /\ IsFiniteSet(Upto(v)) /\ Cardinality(Upto(v)) \in Nat
    OBVIOUS
  <2>1. Below(v) \in SUBSET f /\ Upto(v) \in SUBSET f /\ IsFiniteSet(f)
    BY DEF FlatBut
  <2> HIDE DEF Below, Upto
  <2> QED
    BY <2>1, FS_Subset, FS_CardinalityType
<1>3. IsFiniteSet({p}) /\ Cardinality({p}) = 1
  BY FS_Singleton
<1>4. 0 \in {q[2] : q \in f}
  <2>1. f \ {p} # {}
    BY <1>1, FS_EmptySet
  <2> QED
    BY <2>1 DEF FlatBut
<1>5. Is(0)
  <2>1. Below(0) \in SUBSET {p}
    BY DEF FlatBut
  <2>2. f \ {p} \in SUBSET Upto(0)
    BY DEF FlatBut
  <2> HIDE DEF Below, Upto
  <2>3. Cardinality(Below(0)) <= 1
    BY <1>3, <2>1, FS_Subset
  <2>4. n - 1 <= Cardinality(Upto(0))
    BY <1>1, <1>2, <2>2, FS_Subset
  <2> HIDE DEF n
  <2> QED
    BY <1>1, <1>2, <2>3, <2>4 DEF n
<1>6. ASSUME NEW v \in {q[2] : q \in f}, Is(v) PROVE v = 0
  <2> SUFFICES ASSUME v # 0 PROVE FALSE
    OBVIOUS
  <2>1. v = p[2] /\ v \in Int
    BY DEF FlatBut
  <2>2. CASE v > 0
    <3>1. f \ {p} \in SUBSET Below(v)
      BY <2>1, <2>2 DEF FlatBut
    <3> HIDE DEF Below, Upto
    <3>2. n - 1 <= Cardinality(Below(v))
      BY <1>1, <1>2, <3>1, FS_Subset
    <3> QED
      BY <1>1, <1>2, <1>6, <3>2
  <2>3. CASE v < 0
    <3>1. Upto(v) \in SUBSET {p}
      BY <2>1, <2>3 DEF FlatBut
    <3> HIDE DEF Below, Upto
    <3>2. Cardinality(Upto(v)) <= 1
      BY <1>3, <3>1, FS_Subset
    <3> QED
      BY <1>2, <1>6, <3>2
  <2> QED
    BY <2>1, <2>2, <2>3
<1>7. Ordered(f, k) = CHOOSE v \in {q[2] : q \in f} : Is(v)
  BY DEF Ordered
<1> HIDE DEF Is
<1> QED
  BY <1>4, <1>5, <1>6, <1>7

\* So the median is zero.
LEMMA FlatMedian ==
  ASSUME NEW f, NEW p, FlatBut(f, p), Cardinality(f) >= 3
  PROVE  TwiceMedian(f) = 0
<1> DEFINE n == Cardinality(f)
<1>1. n \in Nat /\ n >= 3
  BY FS_CardinalityType DEF FlatBut
<1> HIDE DEF n
<1> DEFINE j == (n + 1) \div 2
           k == (n \div 2) + 1
<1>2. j \in Nat /\ 2 <= j /\ j <= n - 1 /\ k \in Nat /\ 2 <= k /\ k <= n - 1
  BY <1>1
<1> HIDE DEF j, k
<1>3. Ordered(f, j) = 0 /\ Ordered(f, k) = 0
  BY <1>2, FlatOrdered DEF n
<1> QED
  BY <1>3 DEF TwiceMedian, n, j, k

\* Returns are numbers, one for each day that has one.
LEMMA ReturnsByDay ==
  ASSUME OutlierInv
  PROVE  /\ \A q \in Returns : q[1] \in Jumps /\ q[2] \in Int
         /\ \A q, r \in Returns : q[1] = r[1] => q = r
         /\ IsFiniteSet(Returns) /\ Cardinality(Returns) = Cardinality(Jumps)
<1> DEFINE prev(d) == rows[Latest(Before(Priced, d))].nav
           R(d) == ((rows[d].nav - prev(d)) * Scale) \div prev(d)
<1>1. Returns = {<<d, R(d)>> : d \in Jumps}
  BY JumpDays DEF Returns
<1>2. ASSUME NEW d \in Jumps PROVE R(d) \in Int
  <2>1. d \in Priced /\ Before(Priced, d) # {} /\ prev(d) > 0
    BY JumpDays
  <2>2. Before(Priced, d) \in SUBSET (0 .. now) /\ now \in Nat
    BY SweptDays DEF OutlierInv, Priced, Before
  <2>3. Latest(Before(Priced, d)) \in Priced
    BY <2>1, <2>2, LatestIs DEF Before
  <2>4. \A e \in Priced : rows[e].nav \in Nat
    BY DEF OutlierInv, RowsOK, IsRow, Priced, Swept
  <2>5. prev(d) \in Nat \ {0} /\ rows[d].nav \in Nat /\ Scale \in Nat
    BY <2>1, <2>3, <2>4, ValidationSweepAssumption
  <2> HIDE DEF prev
  <2> QED
    BY <2>5
<1> HIDE DEF R
<1>3. \A q \in Returns : q[1] \in Jumps /\ q[2] \in Int
  BY <1>1, <1>2
<1>4. \A q, r \in Returns : q[1] = r[1] => q = r
  BY <1>1
<1>5. IsFiniteSet(Jumps)
  <2>1. Jumps \in SUBSET (0 .. now) /\ now \in Nat
    BY SweptDays, JumpDays DEF OutlierInv, Priced
  <2>2. IsFiniteSet(0 .. now)
    BY <2>1, FS_Interval
  <2> QED
    BY <2>1, <2>2, FS_Subset
<1> DEFINE F == [d \in Jumps |-> <<d, R(d)>>]
<1>6. F \in Surjection(Jumps, Returns) /\ F \in Injection(Jumps, Returns)
  BY <1>1 DEF Surjection, Injection, IsInjective
<1> HIDE DEF F
<1>7. IsFiniteSet(Returns) /\ Cardinality(Returns) = Cardinality(Jumps)
  BY <1>5, <1>6, FS_Surjection
<1> QED
  BY <1>3, <1>4, <1>7

\* When no NAV of the window is missing or zero, every day but the first has a return.
LEMMA AllButTheFirst ==
  ASSUME OutlierInv, Whole, Swept # {}
  PROVE  Cardinality(Swept) \in Nat /\ Cardinality(Returns) = Cardinality(Swept) - 1
<1>1. Swept \in SUBSET (0 .. now) /\ now \in Nat
  BY SweptDays DEF OutlierInv
<1>2. IsFiniteSet(Swept) /\ Cardinality(Swept) \in Nat
  <2>1. IsFiniteSet(0 .. now)
    BY <1>1, FS_Interval
  <2> QED
    BY <1>1, <2>1, FS_Subset, FS_CardinalityType
<1>3. PICK m \in Swept : \A e \in Swept : m <= e
  <2>1. Swept \in SUBSET Nat
    BY <1>1
  <2> QED
    BY <2>1, FirstDay
<1>4. Jumps = Swept \ {m}
  <2>1. Priced = Swept /\ \A e \in Swept : rows[e].nav > 0
    <3>1. \A e \in Swept : rows[e].nav \in Nat \union {None}
      BY DEF OutlierInv, RowsOK, IsRow, Swept
    <3>2. \A e \in Swept : rows[e].nav # None /\ rows[e].nav \in Nat \ {0}
      BY <3>1 DEF Whole
    <3> QED
      BY <3>2 DEF Priced
  <2>2. \A e \in Swept : Before(Swept, e) # {} <=> e # m
    <3> SUFFICES ASSUME NEW e \in Swept PROVE Before(Swept, e) # {} <=> e # m
      OBVIOUS
    <3>1. e \in Nat /\ m \in Nat /\ m <= e
      BY <1>1, <1>3
    <3>2. CASE e = m
      <4>1. \A a \in Swept : ~(a < m)
        BY <1>1, <1>3
      <4> QED
        BY <3>2, <4>1 DEF Before
    <3>3. CASE e # m
      BY <3>1, <3>3 DEF Before
    <3> QED
      BY <3>2, <3>3
  <2>3. \A e \in Swept : Before(Swept, e) # {} => Latest(Before(Swept, e)) \in Swept
    <3> SUFFICES ASSUME NEW e \in Swept, Before(Swept, e) # {}
                 PROVE  Latest(Before(Swept, e)) \in Swept
      OBVIOUS
    <3>1. Before(Swept, e) \in SUBSET (0 .. now)
      BY <1>1 DEF Before
    <3> QED
      BY <1>1, <3>1, LatestIs DEF Before
  <2> QED
    BY <2>1, <2>2, <2>3, JumpDays
<1>5. Cardinality(Jumps) = Cardinality(Swept) - 1
  BY <1>2, <1>4, FS_RemoveElement
<1> QED
  BY <1>2, <1>5, ReturnsByDay

\* Sixteen times the variance, and the square of twice the distance, of one value
\* among zeros.
LEMMA FourDeviations ==
  ASSUME NEW n \in Nat, n >= 3, NEW r \in Int \ {0}
  PROVE  /\ (2 * Abs(r)) * (2 * Abs(r)) * n * (n - 1) > 64 * (n * (r * r) - r * r) <=> n > 16
         /\ ~(0 * 0 * n * (n - 1) > 64 * (n * (r * r) - r * r))
<1> DEFINE a == r * r * (n - 1)
<1>1. r * r \in Nat /\ r * r > 0
  OBVIOUS
<1>2. a \in Nat /\ a > 0
  <2> DEFINE s == r * r
  <2>1. s \in Nat /\ s > 0 /\ n - 1 \in Nat /\ n - 1 > 0
    BY <1>1
  <2> HIDE DEF s
  <2>2. s * (n - 1) \in Nat /\ s * (n - 1) > 0
    BY <2>1
  <2> QED
    BY <2>2 DEF s
<1>3. (2 * Abs(r)) * (2 * Abs(r)) * n * (n - 1) = 4 * (a * n)
  <2>1. Abs(r) * Abs(r) = r * r /\ Abs(r) \in Int
    BY DEF Abs
  <2>2. (2 * Abs(r)) * (2 * Abs(r)) = 4 * (r * r)
    BY <2>1
  <2> QED
    BY <2>1, <2>2
<1>4. n * (r * r) - r * r = a
  OBVIOUS
<1> HIDE DEF a
<1>5. 4 * (a * n) > 64 * a <=> n > 16
  <2>1. CASE n > 16
    <3>1. a * n >= a * 17
      BY <1>2, <2>1
    <3> QED
      BY <1>2, <2>1, <3>1
  <2>2. CASE n <= 16
    <3>1. a * n <= a * 16
      BY <1>2, <2>2
    <3> QED
      BY <1>2, <2>2, <3>1
  <2> QED
    BY <2>1, <2>2
<1>6. ~(0 * 0 * n * (n - 1) > 64 * a)
  BY <1>2
<1> QED
  BY <1>3, <1>4, <1>5, <1>6

\* A jump among zeros is more than four standard deviations away exactly when there
\* are seventeen returns; nothing else is.
LEMMA FarFromFlat ==
  ASSUME NEW ret, NEW p, FlatBut(ret, p), Cardinality(ret) >= 3,
         \A q, r \in ret : q[1] = r[1] => q = r
  PROVE  Far(ret) = IF Cardinality(ret) > 16 THEN {p[1]} ELSE {}
<1> DEFINE n == Cardinality(ret)
           D(q) == <<q[1], Abs(2 * q[2])>>
           dev == {D(q) : q \in ret}
<1>1. n \in Nat /\ n >= 3 /\ IsFiniteSet(ret) /\ p \in ret
  BY FS_CardinalityType DEF FlatBut
<1>2. \A q \in ret : q[2] \in Int
  BY DEF FlatBut
<1>3. Deviations(ret) = dev
  <2>1. TwiceMedian(ret) = 0
    BY FlatMedian
  <2>2. \A q \in ret : 2 * q[2] - 0 = 2 * q[2]
    BY <1>2
  <2> QED
    BY <2>1, <2>2 DEF Deviations
<1>4. /\ \A q \in ret \ {p} : D(q)[2] = 0
      /\ D(p)[2] = 2 * Abs(p[2]) /\ D(p)[2] \in Int \ {0}
  BY DEF FlatBut, Abs
<1>5. \A q, r \in ret : D(q) = D(r) => q = r
  <2>1. \A q \in ret : D(q)[1] = q[1]
    OBVIOUS
  <2> HIDE DEF D
  <2> QED
    BY <2>1
<1>6. \A q \in ret : D(q)[1] = q[1]
  OBVIOUS
<1> HIDE DEF D
<1>7. IsFiniteSet(dev) /\ Cardinality(dev) = n
  <2> DEFINE F == [q \in ret |-> D(q)]
  <2>1. F \in Surjection(ret, dev) /\ F \in Injection(ret, dev)
    BY <1>5 DEF Surjection, Injection, IsInjective
  <2> HIDE DEF F, dev
  <2> QED
    BY <1>1, <2>1, FS_Surjection
<1>8. FlatBut(dev, D(p))
  BY <1>1, <1>4, <1>7 DEF FlatBut
<1>9. TwiceMedian(dev) = 0
  BY <1>1, <1>7, <1>8, FlatMedian
<1> DEFINE r == p[2]
           far(x) == x * x * n * (n - 1) > 64 * (n * (r * r) - r * r)
<1>10. Far(ret) = {q[1] : q \in {e \in dev : far(e[2])}}
  <2> DEFINE mad == TwiceMedian(Deviations(ret))
             sum == Total(ret)
             squares == SquareTotal(ret)
             farther(x) == IF mad > 0 THEN 6745 * x > 20000 * mad
                           ELSE x * x * n * (n - 1) > 64 * (n * squares - sum * sum)
  <2>1. Far(ret) = {q[1] : q \in {e \in Deviations(ret) : farther(e[2])}}
    BY DEF Far
  <2>2. sum = r /\ squares = r * r /\ ~(mad > 0)
    BY <1>1, <1>3, <1>9, LoneSums DEF FlatBut
  <2> HIDE DEF sum, squares, mad
  <2>3. \A x : farther(x) <=> far(x)
    BY <2>2
  <2> HIDE DEF farther, far, dev
  <2> QED
    BY <1>3, <2>1, <2>3
<1>11. /\ far(D(p)[2]) <=> n > 16
       /\ \A q \in ret \ {p} : ~far(D(q)[2])
  <2>1. r \in Int \ {0}
    BY DEF FlatBut
  <2> HIDE DEF r, n
  <2> QED
    BY <1>1, <1>4, <2>1, FourDeviations DEF r
<1> HIDE DEF far, n, r
<1>12. {e \in dev : far(e[2])} = IF n > 16 THEN {D(p)} ELSE {}
  BY <1>1, <1>11
<1> QED
  BY <1>6, <1>10, <1>12, <1>1 DEF n

\* Whether one jump in a flat window is reported.
LEMMA JumpReported ==
  ASSUME OutlierInv, Whole, OneJump(Returns), MinReturns \in 3 .. 17
  PROVE  Outliers # {} <=> Cardinality(Swept) > 17
<1>1. PICK p \in Returns : Big(p[2]) /\ \A q \in Returns \ {p} : q[2] = 0
  BY DEF OneJump
<1> DEFINE n == Cardinality(Returns)
<1>2. Swept # {}
  BY <1>1, ReturnsByDay, JumpDays DEF Priced
<1>3. n \in Nat /\ Cardinality(Swept) \in Nat /\ n = Cardinality(Swept) - 1
  BY <1>2, AllButTheFirst, ReturnsByDay, FS_CardinalityType
<1>4. FlatBut(Returns, p)
  <2>1. p[2] \in Int /\ Scale \in Nat
    BY ReturnsByDay, ValidationSweepAssumption
  <2>2. p[2] # 0
    BY <1>1, <2>1 DEF Big, Abs
  <2> QED
    BY <1>1, <2>1, <2>2, ReturnsByDay DEF FlatBut
<1>5. CASE n < MinReturns
  BY <1>3, <1>5 DEF Outliers
<1>6. CASE ~(n < MinReturns)
  <2>1. n >= 3
    BY <1>3, <1>6
  <2>2. Far(Returns) = IF n > 16 THEN {p[1]} ELSE {}
    BY <1>4, <2>1, ReturnsByDay, FarFromFlat
  <2>3. p[1] \in {q[1] : q \in {e \in Returns : Big(e[2])}}
    BY <1>1
  <2>4. Outliers # {} <=> n > 16
    <3>1. Outliers = {q[1] : q \in {e \in Returns : Big(e[2])}} \intersect Far(Returns)
      BY <1>6 DEF Outliers
    <3> QED
      BY <2>2, <2>3, <3>1
  <2> QED
    BY <1>3, <2>4
<1> QED
  BY <1>5, <1>6

\* One large jump in a window without missing or zero values is reported exactly
\* from seventeen returns on, however large it is: the standard deviation of the
\* fall-back grows with the jump (validation.py:118-120). The code asks for five
\* returns, and any number of them from three to seventeen comes to the same.
THEOREM LoneJumpSeen == ASSUME MinReturns \in 3 .. 17 PROVE Spec => LoneJump
<1> DEFINE A == Reading /\ Whole /\ OneJump(Returns) =>
                  ((\E v \in found' : v[1] = "outlier") <=> Cardinality(Swept) > 17)
<1>1. ASSUME OutlierInv, [Next]_vars PROVE [A]_vars
  <2> SUFFICES ASSUME Reading, Whole, OneJump(Returns)
               PROVE  (\E v \in found' : v[1] = "outlier") <=> Cardinality(Swept) > 17
    OBVIOUS
  <2>1. PICK clock \in {now - 1, now} : found' = Violations(clock)
    BY <1>1 DEF Reading, Next, SweepRead, SweepCommit, SweepFails, EndSweep, Day, Rewrite,
       sweep, vars
  <2>2. (\E v \in found' : v[1] = "outlier") <=> Outliers # {}
    <3>1. ASSUME NEW d \in Outliers PROVE \E v \in found' : v[1] = "outlier"
      <4>1. <<"outlier", OutlierDay(d)>> \in found'
        BY <2>1 DEF Violations
      <4> QED
        BY <4>1
    <3>2. ASSUME NEW v \in found', v[1] = "outlier" PROVE Outliers # {}
      BY <2>1, <3>2 DEF Violations
    <3> QED
      BY <3>1, <3>2
  <2> QED
    BY <1>1, <2>2, JumpReported
<1> QED
  BY <1>1, OutlierInit, OutlierStep, PTL DEF Spec, LoneJump
=============================================================================
