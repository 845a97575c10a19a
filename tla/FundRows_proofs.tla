--------------------------- MODULE FundRows_proofs ---------------------------
(***************************************************************************)
(* The order of days, the least of finitely many things, the ranks of days, *)
(* and where the rows of a fund can lie and what they hold.                 *)
(***************************************************************************)
EXTENDS FundRows, FiniteSetTheorems, WellFoundedInduction, TLAPS

\* A set of days that ends has a latest one, and Latest is it: the largest day is
\* the one at the least distance from the end.
LEMMA LatestIs ==
  ASSUME NEW n \in Nat, NEW S \in SUBSET (0 .. n), S # {}
  PROVE  Latest(S) \in S /\ \A e \in S : e <= Latest(S)
<1> DEFINE Distances == {k \in 0 .. n : n - k \in S}
<1>1. Distances \subseteq Nat
  OBVIOUS
<1>2. Distances # {}
  <2>1. PICK d \in S : d \in 0 .. n
    OBVIOUS
  <2>2. n - d \in 0 .. n /\ n - (n - d) = d
    BY <2>1
  <2> QED
    BY <2>1, <2>2
<1>3. PICK x \in Distances : \A y \in Distances : ~(<<y, x>> \in OpToRel(<, Nat))
  <2> HIDE DEF Distances
  <2> QED
    BY <1>1, <1>2, NatLessThanWellFounded, WFMin
<1>4. \A y \in Distances : x <= y
  <2> SUFFICES ASSUME NEW y \in Distances PROVE ~(y < x)
    BY <1>1
  <2>1. x \in Nat /\ y \in Nat
    BY <1>1
  <2>2. y < x => <<y, x>> \in OpToRel(<, Nat)
    BY <2>1 DEF OpToRel
  <2> QED
    BY <1>3, <2>2
<1>5. n - x \in S /\ \A e \in S : e <= n - x
  <2> SUFFICES ASSUME NEW e \in S PROVE e <= n - x
    OBVIOUS
  <2>1. e \in 0 .. n
    OBVIOUS
  <2>2. n - e \in 0 .. n /\ n - (n - e) = e
    BY <2>1
  <2>3. x <= n - e /\ x \in Nat
    BY <1>4, <2>2
  <2> QED
    BY <2>1, <2>3
<1> QED
  BY <1>5 DEF Latest

\* A set of days has a first one, and First is it.
LEMMA FirstDay ==
  ASSUME NEW S \in SUBSET Nat, S # {}
  PROVE  \E d \in S : \A e \in S : d <= e
<1>1. S \subseteq Nat
  OBVIOUS
<1>2. PICK x \in S : \A y \in S : ~(<<y, x>> \in OpToRel(<, Nat))
  BY <1>1, NatLessThanWellFounded, WFMin
<1>3. ASSUME NEW y \in S PROVE x <= y
  <2>1. x \in Nat /\ y \in Nat
    BY <1>1
  <2>2. y < x => <<y, x>> \in OpToRel(<, Nat)
    BY <2>1 DEF OpToRel
  <2>3. ~(y < x)
    BY <1>2, <2>2
  <2> QED
    BY <2>1, <2>3
<1> QED
  BY <1>3

\* Days up to some day, ranked by any total and transitive relation R, have a day
\* that R puts before all others: there is no first day up to which they have none.
LEMMA LeastIs ==
  ASSUME NEW n \in Nat, NEW S \in SUBSET (0 .. n), S # {}, NEW R,
         \A a, b \in S : <<a, b>> \in R \/ <<b, a>> \in R,
         \A a, b, c \in S : <<a, b>> \in R /\ <<b, c>> \in R => <<a, c>> \in R
  PROVE  \E m \in S : \A e \in S : <<m, e>> \in R
<1> DEFINE Upto(k) == {e \in S : e <= k}
           HasLeast(k) == \E m \in Upto(k) : \A e \in Upto(k) : <<m, e>> \in R
           Bad == {k \in Nat : Upto(k) # {} /\ ~HasLeast(k)}
<1>0. \A e \in S : e \in Nat /\ e <= n
  <2> SUFFICES ASSUME NEW e \in S PROVE e \in Nat /\ e <= n
    OBVIOUS
  <2>1. e \in 0 .. n
    OBVIOUS
  <2> QED
    BY <2>1
<1>1. SUFFICES ASSUME Bad # {} PROVE FALSE
  <2>1. Upto(n) = S
    BY <1>0
  <2>2. HasLeast(n)
    BY <1>1, <2>1
  <2> QED
    BY <2>1, <2>2
<1>2. PICK k \in Bad : \A j \in Bad : k <= j
  <2>1. Bad \subseteq Nat
    OBVIOUS
  <2> HIDE DEF Bad
  <2> QED
    BY <1>1, <2>1, FirstDay
<1>3. k \in Nat /\ Upto(k) # {} /\ ~HasLeast(k)
  OBVIOUS
<1>4. ASSUME NEW j \in Nat, j < k, Upto(j) # {} PROVE HasLeast(j)
  <2> SUFFICES ASSUME ~HasLeast(j) PROVE FALSE
    OBVIOUS
  <2>1. j \in Bad
    BY <1>4
  <2>2. k <= j
    BY <1>2, <2>1
  <2> QED
    BY <1>3, <1>4, <2>2
<1>5. ASSUME k # 0 PROVE Upto(k) \subseteq Upto(k - 1) \union {k} /\ Upto(k - 1) \subseteq Upto(k)
  <2>1. \A e \in S : e <= k <=> e <= k - 1 \/ e = k
    BY <1>0, <1>3
  <2> QED
    BY <2>1
<1>6. CASE k = 0 \/ Upto(k - 1) = {}
  <2>1. Upto(k) \subseteq {k}
    <3>1. CASE k = 0
      <4>1. \A e \in S : e <= k => e = k
        BY <1>0, <3>1
      <4> QED
        BY <4>1
    <3>2. CASE k # 0
      BY <1>5, <1>6, <3>2
    <3> QED
      BY <3>1, <3>2
  <2>2. k \in S /\ Upto(k) = {k}
    BY <1>3, <2>1
  <2>3. <<k, k>> \in R
    BY <2>2
  <2> HIDE DEF Upto
  <2> QED
    BY <1>3, <2>2, <2>3
<1>7. CASE k # 0 /\ Upto(k - 1) # {}
  <2>1. HasLeast(k - 1)
    <3>1. k - 1 \in Nat /\ k - 1 < k
      BY <1>3, <1>7
    <3> HIDE DEF Upto, HasLeast
    <3> QED
      BY <1>4, <1>7, <3>1
  <2>2. PICK m \in Upto(k - 1) : \A e \in Upto(k - 1) : <<m, e>> \in R
    BY <2>1
  <2>3. \A e \in Upto(k) : e \in Upto(k - 1) \/ e = k
    BY <1>5, <1>7
  <2>4. m \in S /\ m \in Upto(k) /\ Upto(k - 1) \subseteq S /\ Upto(k) \subseteq S
    BY <1>5, <1>7
  <2> HIDE DEF Upto
  <2>5. CASE k \notin Upto(k) \/ <<m, k>> \in R
    BY <1>3, <2>2, <2>3, <2>4, <2>5
  <2>6. CASE k \in Upto(k) /\ <<k, m>> \in R
    <3>1. \A e \in Upto(k - 1) : <<k, e>> \in R
      BY <2>2, <2>4, <2>6
    <3>2. <<k, k>> \in R
      BY <2>4, <2>6
    <3> QED
      BY <1>3, <2>3, <2>6, <3>1, <3>2
  <2> QED
    BY <2>4, <2>5, <2>6
<1> QED
  BY <1>6, <1>7

-----------------------------------------------------------------------------
(* Ranks.                                                                  *)

\* The days before one are finitely many, and one fewer without a day of them.
LEMMA BeforeCount ==
  ASSUME NEW n \in Nat, NEW S \in SUBSET (0 .. n), NEW d
  PROVE  /\ IsFiniteSet(Before(S, d)) /\ Cardinality(Before(S, d)) \in Nat
         /\ Before(S, d) \in SUBSET (0 .. n)
<1>1. IsFiniteSet(0 .. n)
  <2>1. 0 \in Int /\ n \in Int
    OBVIOUS
  <2> QED
    BY <2>1, FS_Interval
<1>2. Before(S, d) \in SUBSET (0 .. n)
  BY DEF Before
<1>3. IsFiniteSet(Before(S, d))
  BY <1>1, <1>2, FS_Subset
<1> QED
  BY <1>2, <1>3, FS_CardinalityType

\* A later day has a higher rank.
LEMMA RankGrows ==
  ASSUME NEW n \in Nat, NEW S \in SUBSET (0 .. n), NEW d \in S, NEW e \in S, d < e
  PROVE  Rank(S, d) < Rank(S, e)
<1>1. S \subseteq Nat /\ d \in Nat /\ e \in Nat
  <2>1. d \in 0 .. n /\ e \in 0 .. n
    OBVIOUS
  <2> QED
    BY <2>1
<1>2. Before(S, d) \union {d} \in SUBSET Before(S, e) /\ d \notin Before(S, d)
  <2>1. \A x \in S : x < d => x < e
    BY <1>1
  <2>2. ~(d < d)
    BY <1>1
  <2> QED
    BY <2>1, <2>2 DEF Before
<1>3. IsFiniteSet(Before(S, d)) /\ IsFiniteSet(Before(S, e))
      /\ Cardinality(Before(S, d)) \in Nat /\ Cardinality(Before(S, e)) \in Nat
  BY BeforeCount
<1>4. Cardinality(Before(S, d) \union {d}) = Cardinality(Before(S, d)) + 1
  BY <1>2, <1>3, FS_AddElement
<1>5. Cardinality(Before(S, d) \union {d}) <= Cardinality(Before(S, e))
  BY <1>2, <1>3, FS_Subset
<1> QED
  BY <1>3, <1>4, <1>5 DEF Rank

\* A rank up to that of a day is the rank of a day, no later: the first day whose
\* rank reaches it has just that rank, or the day before it would reach it too.
LEMMA RankReached ==
  ASSUME NEW n \in Nat, NEW S \in SUBSET (0 .. n), NEW d \in S,
         NEW k \in Nat \ {0}, k <= Rank(S, d)
  PROVE  \E m \in S : Rank(S, m) = k /\ m <= d
<1> DEFINE T == {e \in S : k <= Rank(S, e)}
<1>0. \A e \in S : Rank(S, e) \in Nat /\ e \in Nat
  <2> SUFFICES ASSUME NEW e \in S PROVE Rank(S, e) \in Nat /\ e \in Nat
    OBVIOUS
  <2>1. e \in 0 .. n /\ Cardinality(Before(S, e)) \in Nat
    BY BeforeCount
  <2> QED
    BY <2>1 DEF Rank
<1>1. PICK m \in T : \A e \in T : m <= e
  <2>1. d \in T /\ T \in SUBSET Nat
    BY <1>0
  <2> HIDE DEF T
  <2> QED
    BY <2>1, FirstDay
<1>2. m \in S /\ k <= Rank(S, m) /\ m <= d
  BY <1>1
<1>3. SUFFICES ASSUME Rank(S, m) > k PROVE FALSE
  BY <1>0, <1>2
<1>4. /\ IsFiniteSet(Before(S, m)) /\ Cardinality(Before(S, m)) \in Nat
      /\ Before(S, m) \in SUBSET (0 .. n)
  BY BeforeCount
<1>5. Cardinality(Before(S, m)) >= k /\ Rank(S, m) = Cardinality(Before(S, m)) + 1
  BY <1>3, <1>4 DEF Rank
<1>6. Before(S, m) # {}
  BY <1>5, FS_EmptySet
<1> DEFINE x == Latest(Before(S, m))
<1>7. x \in Before(S, m) /\ \A e \in Before(S, m) : e <= x
  BY <1>4, <1>6, LatestIs
<1> HIDE DEF x
<1>8. x \in S /\ x < m /\ x \in Nat /\ m \in Nat
  BY <1>0, <1>2, <1>7 DEF Before
<1>9. Before(S, x) = Before(S, m) \ {x}
  <2>1. \A e \in S : e < x <=> (e < m /\ e # x)
    <3> SUFFICES ASSUME NEW e \in S PROVE e < x <=> (e < m /\ e # x)
      OBVIOUS
    <3>1. e \in Nat /\ (e < m => e <= x)
      BY <1>0, <1>7 DEF Before
    <3> QED
      BY <1>8, <3>1
  <2> QED
    BY <2>1 DEF Before
<1>10. Cardinality(Before(S, x)) = Cardinality(Before(S, m)) - 1
  BY <1>4, <1>7, <1>9, FS_RemoveElement
<1>11. k <= Rank(S, x)
  BY <1>4, <1>5, <1>10 DEF Rank
<1>12. m <= x
  BY <1>1, <1>8, <1>11
<1> QED
  BY <1>8, <1>12

\* So the k-th day is no later than a day of that or a higher rank, and it is the
\* day itself when the ranks agree.
LEMMA NthIs ==
  ASSUME NEW n \in Nat, NEW S \in SUBSET (0 .. n), NEW d \in S,
         NEW k \in Nat \ {0}, k <= Rank(S, d)
  PROVE  /\ Nth(S, k) \in S /\ Nth(S, k) <= d
         /\ k = Rank(S, d) => Nth(S, k) = d
<1> DEFINE x == Nth(S, k)
<1>1. PICK m \in S : Rank(S, m) = k /\ m <= d
  BY RankReached
<1>2. x \in S /\ Rank(S, x) = k
  BY <1>1 DEF Nth
<1> HIDE DEF x
<1>3. x \in 0 .. n /\ d \in 0 .. n
  BY <1>2
<1>4. Rank(S, x) \in Nat /\ Rank(S, d) \in Nat
  <2>1. Cardinality(Before(S, x)) \in Nat /\ Cardinality(Before(S, d)) \in Nat
    BY <1>2, BeforeCount
  <2> QED
    BY <2>1 DEF Rank
<1>5. ~(d < x)
  <2> SUFFICES ASSUME d < x PROVE FALSE
    OBVIOUS
  <2>1. Rank(S, d) < Rank(S, x)
    BY <1>2, RankGrows
  <2> QED
    BY <1>2, <1>4, <2>1
<1>6. k = Rank(S, d) => ~(x < d)
  <2> SUFFICES ASSUME k = Rank(S, d), x < d PROVE FALSE
    OBVIOUS
  <2>1. Rank(S, x) < Rank(S, d)
    BY <1>2, RankGrows
  <2> QED
    BY <1>2, <1>4, <2>1
<1> QED
  BY <1>2, <1>3, <1>5, <1>6 DEF x

-----------------------------------------------------------------------------
(* The rows of a fund.                                                     *)

RowsOK(table) == \A d \in DOMAIN table : IsRow(table[d])

\* NAV and net_asset are missing or numbers.
LEMMA HistoryRows == RowsInit => RowsOK(rows)
BY FundRowsAssumption DEF RowsInit, RowsOK

\* A row written is a row, and takes none away.
LEMMA WriteRows ==
  ASSUME RowsOK(rows), LiveRow \/ BackfillRow
  PROVE  RowsOK(rows') /\ DOMAIN rows \subseteq DOMAIN rows' /\ now' = now
<1>1. CASE BackfillRow
  <2>1. PICK d, row : Write(d, row) /\ IsRow(row)
    BY <1>1, FundRowsAssumption DEF BackfillRow
  <2> QED
    BY <2>1 DEF Write, RowsOK
<1>2. CASE LiveRow
  <2>1. PICK d \in {now - 1, now} \ {0}, record \in LiveRecords :
          Write(d, [nav |-> Number(record.nav), aum |-> Number(record.aum)])
    BY <1>2 DEF LiveRow
  <2>2. IsRow([nav |-> Number(record.nav), aum |-> Number(record.aum)])
    BY FundRowsAssumption DEF IsRow, Number
  <2> QED
    BY <2>1, <2>2 DEF Write, RowsOK
<1> QED
  BY <1>1, <1>2

\* Rows lie between the first day and today.
RowsInv == now \in Nat \ {0} /\ DOMAIN rows \subseteq 1 .. now

\* At the start.
LEMMA RowsStart == RowsInit => RowsInv
BY FundRowsAssumption DEF RowsInit, RowsInv

\* A live row is of today or yesterday, a backfilled one of the past, and days go by.
LEMMA RowsStep ==
  RowsInv /\ (LiveRow \/ BackfillRow \/ NewDay \/ UNCHANGED <<rows, now>>) => RowsInv'
<1> SUFFICES ASSUME RowsInv, LiveRow \/ BackfillRow \/ NewDay \/ UNCHANGED <<rows, now>>
             PROVE  RowsInv'
  OBVIOUS
<1>1. CASE LiveRow
  <2>1. PICK d \in {now - 1, now} \ {0}, record \in LiveRecords :
          Write(d, [nav |-> Number(record.nav), aum |-> Number(record.aum)])
    BY <1>1 DEF LiveRow
  <2>2. DOMAIN rows' = DOMAIN rows \union {d} /\ now' = now
    BY <2>1 DEF Write
  <2>3. d \in 1 .. now
    BY <2>1 DEF RowsInv
  <2> QED
    BY <2>2, <2>3 DEF RowsInv
<1>2. CASE BackfillRow
  <2>1. PICK d \in RepairDays, row \in BackfillRows : d <= now /\ Write(d, row)
    BY <1>2 DEF BackfillRow
  <2>2. DOMAIN rows' = DOMAIN rows \union {d} /\ now' = now
    BY <2>1 DEF Write
  <2>3. d \in 1 .. now
    BY <2>1, FundRowsAssumption DEF RowsInv
  <2> QED
    BY <2>2, <2>3 DEF RowsInv
<1>3. CASE NewDay
  BY <1>3 DEF NewDay, RowsInv
<1>4. CASE UNCHANGED <<rows, now>>
  BY <1>4 DEF RowsInv
<1> QED
  BY <1>1, <1>2, <1>3, <1>4
=============================================================================
