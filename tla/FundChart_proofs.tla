--------------------------- MODULE FundChart_proofs ---------------------------
(***************************************************************************)
(* The table of the index has no hole the job could have filled, for every  *)
(* source that never takes a number back and every value of the constants.  *)
(***************************************************************************)
EXTENDS FundChart, FundRows_proofs

\* Days are numbers.
DaysInv == now \in Nat /\ DOMAIN source \subseteq Nat

\* Of the days in S, none is passed over but one whose number came late.
Gapless(S) == \A d \in Numbers(source) \ late : (\E e \in S : e > d) => d \in S

\* What is stored came from the source, in order; so did the answer.
BenchInv == DOMAIN bench \subseteq Numbers(source) /\ Gapless(DOMAIN bench)
AnswerInv == syncing => Numbers(answer) \subseteq Numbers(source) /\ Gapless(Numbers(answer))

IndexInv == DaysInv /\ BenchInv /\ AnswerInv

\* A day of the source has a number or not.
LEMMA NumbersAreDays == ASSUME NEW s PROVE Numbers(s) \subseteq DOMAIN s
BY DEF Numbers

\* At the start the table is empty or has what the source has.
LEMMA IndexStart == Init => IndexInv
<1> SUFFICES ASSUME Init PROVE IndexInv
  OBVIOUS
<1>1. PICK D \in SUBSET Nat : source = Series(D)
  <2>1. PICK missing \in {{}, {Start - 1}} :
          source = Series((1 .. Start - 1) \ (Closed \union missing))
    BY DEF Init, BenchInit
  <2>2. (1 .. Start - 1) \ (Closed \union missing) \in SUBSET Nat
    BY FundRowsAssumption
  <2> QED
    BY <2>1, <2>2
<1>2. DOMAIN source = D /\ Numbers(source) = D
  <2>1. DOMAIN source = D /\ \A d \in D : source[d] = Index(d)
    BY <1>1 DEF Series
  <2>2. ASSUME NEW d \in D PROVE source[d] \notin {None, Garbage}
    <3>1. Index(d) \in Nat
      BY DEF Index
    <3> QED
      BY <2>1, <3>1, BenchmarkAssumption
  <2> QED
    BY <2>1, <2>2 DEF Numbers
<1>3. DaysInv
  <2>1. now = Start
    BY DEF Init, RowsInit
  <2> QED
    BY <1>2, <2>1, FundRowsAssumption DEF DaysInv
<1>4. DOMAIN bench = {} \/ DOMAIN bench = D
  BY <1>2 DEF Init, BenchInit, Series
<1>5. BenchInv
  BY <1>2, <1>4 DEF BenchInv, Gapless
<1>6. AnswerInv
  BY DEF Init, BenchInit, AnswerInv
<1> QED
  BY <1>3, <1>5, <1>6 DEF IndexInv

\* The source gives a day a value: a number stays one, and a day that gets a number
\* after a later one is late.
LEMMA PutStep ==
  ASSUME IndexInv, NEW d \in Nat, NEW value \in Nat \union {None, Garbage}, Put(d, value),
         d \in DOMAIN source => value \in Nat
  PROVE  /\ DOMAIN source' \subseteq Nat
         /\ Numbers(source) \subseteq Numbers(source')
         /\ Numbers(source') \subseteq Numbers(source) \union {d}
         /\ late \subseteq late'
         /\ d \in Numbers(source') \ late' => \A e \in Numbers(source) : ~(e > d) \/ d \in Numbers(source)
<1>1. /\ DOMAIN source' = DOMAIN source \union {d}
      /\ \A e \in DOMAIN source' : source'[e] = IF e = d THEN value ELSE source[e]
  BY DEF Put
<1>2. DOMAIN source' \subseteq Nat
  BY <1>1 DEF IndexInv, DaysInv
<1>3. Numbers(source) \subseteq Numbers(source')
  BY <1>1, BenchmarkAssumption DEF Numbers
<1>4. Numbers(source') \subseteq Numbers(source) \union {d}
  BY <1>1 DEF Numbers
<1>5. late \subseteq late'
  BY DEF Put
<1>6. ASSUME d \in Numbers(source'), d \notin late', d \notin Numbers(source)
      PROVE  \A e \in Numbers(source) : ~(e > d)
  <2>1. value \in Nat
    BY <1>1, <1>6 DEF Numbers
  <2> QED
    BY <1>6, <2>1 DEF Put
<1> QED
  BY <1>2, <1>3, <1>4, <1>5, <1>6

\* What has no hole still has none.
LEMMA GaplessKept ==
  ASSUME IndexInv, NEW d \in Nat, NEW value \in Nat \union {None, Garbage}, Put(d, value),
         d \in DOMAIN source => value \in Nat,
         NEW S \in SUBSET Numbers(source), Gapless(S)
  PROVE  S \subseteq Numbers(source)' /\ Gapless(S)'
<1>1. S \subseteq Numbers(source')
  BY PutStep
<1>2. ASSUME NEW x \in Numbers(source') \ late', NEW e \in S, e > x
      PROVE  x \in S
  <2>1. CASE x \in Numbers(source)
    BY <1>2, <2>1, PutStep DEF Gapless
  <2>2. CASE x \notin Numbers(source)
    BY <1>2, <2>2, PutStep
  <2> QED
    BY <2>1, <2>2
<1> QED
  BY <1>1, <1>2 DEF Gapless

\* Whatever the source does.
LEMMA SourceStep == IndexInv /\ (Publish \/ Deviate) /\ UNCHANGED now => IndexInv'
<1> SUFFICES ASSUME IndexInv, Publish \/ Deviate, UNCHANGED now PROVE IndexInv'
  OBVIOUS
<1>1. PICK d \in Nat, value \in Nat \union {None, Garbage} :
        Put(d, value) /\ (d \in DOMAIN source => value \in Nat)
  <2>1. CASE Publish
    BY <2>1 DEF Publish, Index, IndexInv, DaysInv
  <2>2. CASE Deviate
    <3>1. PICK d \in (1 .. now) \ Closed :
            \/ d \notin DOMAIN source /\ \E value \in {None, Garbage, Index(d)} : Put(d, value)
            \/ d \in DOMAIN source /\ source[d] # Index(d) + 1 /\ Put(d, Index(d) + 1)
      BY <2>2 DEF Deviate
    <3>2. d \in Nat /\ Index(d) \in Nat /\ Index(d) + 1 \in Nat
      BY DEF Index, IndexInv, DaysInv
    <3> QED
      BY <3>1, <3>2
  <2> QED
    BY <2>1, <2>2
<1>2. UNCHANGED benchmark
  BY <1>1 DEF Put
<1>3. DaysInv'
  BY <1>1, PutStep DEF IndexInv, DaysInv
<1>4. BenchInv'
  BY <1>1, <1>2, GaplessKept DEF IndexInv, BenchInv, benchmark
<1>5. AnswerInv'
  BY <1>1, <1>2, GaplessKept DEF IndexInv, AnswerInv, benchmark
<1> QED
  BY <1>3, <1>4, <1>5 DEF IndexInv

\* The answer is the source of that moment.
LEMMA FetchStep == IndexInv /\ BenchFetch => BenchInv' /\ AnswerInv'
<1> SUFFICES ASSUME IndexInv, BenchFetch PROVE BenchInv' /\ AnswerInv'
  OBVIOUS
<1>1. UNCHANGED <<bench, source, late>> /\ answer' = source
  BY DEF BenchFetch, outside
<1>2. Numbers(answer)' = Numbers(source)
  BY <1>1 DEF Numbers
<1> QED
  BY <1>1, <1>2 DEF IndexInv, BenchInv, AnswerInv, Gapless, Numbers

\* Writing what is newer than the table leaves no hole: what is older and missing
\* would be one already.
LEMMA StoreStep == IndexInv /\ BenchStore => BenchInv' /\ AnswerInv'
<1> SUFFICES ASSUME IndexInv, BenchStore PROVE BenchInv' /\ AnswerInv'
  OBVIOUS
<1>1. UNCHANGED <<source, late>> /\ ~syncing'
  BY DEF BenchStore, Done, outside
<1>2. AnswerInv'
  BY <1>1 DEF AnswerInv
<1>3. Numbers(source)' = Numbers(source)
  BY <1>1 DEF Numbers
<1>4. CASE bench' = bench
  BY <1>1, <1>2, <1>3, <1>4 DEF IndexInv, BenchInv, Gapless
<1>5. CASE bench' # bench
  <2>1. /\ DOMAIN bench' = DOMAIN bench \union ToWrite
        /\ \A d \in ToWrite : answer[d] # Garbage
    BY <1>5 DEF BenchStore
  <2>2. ToWrite \subseteq Numbers(answer)
    BY <2>1 DEF ToWrite, Numbers
  <2>3. Numbers(answer) \subseteq Numbers(source) /\ Gapless(Numbers(answer))
    BY DEF BenchStore, IndexInv, AnswerInv
  <2>4. Numbers(source) \subseteq Nat
    BY NumbersAreDays DEF IndexInv, DaysInv
  <2>5. ASSUME NEW d \in Numbers(source) \ late,
               NEW e \in DOMAIN bench \union ToWrite, e > d
        PROVE  d \in DOMAIN bench \union ToWrite
    <3>1. CASE e \in DOMAIN bench
      BY <2>5, <3>1 DEF IndexInv, BenchInv, Gapless
    <3>2. CASE e \in ToWrite
      <4>1. d \in Numbers(answer)
        BY <2>2, <2>3, <2>5, <3>2 DEF Gapless
      <4>2. CASE \A b \in DOMAIN bench : d > b
        BY <4>1, <4>2 DEF Numbers, ToWrite
      <4>3. ASSUME NEW b \in DOMAIN bench, ~(d > b)
            PROVE  d \in DOMAIN bench
        <5>1. b \in Nat /\ d \in Nat
          BY <2>4, <2>5 DEF IndexInv, BenchInv
        <5>2. b = d \/ b > d
          BY <4>3, <5>1
        <5> QED
          BY <2>5, <4>3, <5>2 DEF IndexInv, BenchInv, Gapless
      <4> QED
        BY <4>2, <4>3
    <3> QED
      BY <2>5, <3>1, <3>2
  <2>6. DOMAIN bench \union ToWrite \subseteq Numbers(source)
    BY <2>2, <2>3 DEF IndexInv, BenchInv
  <2> QED
    BY <1>1, <1>2, <1>3, <2>1, <2>5, <2>6 DEF BenchInv, Gapless
<1> QED
  BY <1>2, <1>4, <1>5

\* Every step preserves the invariant.
LEMMA IndexStep == IndexInv /\ [Next]_vars => IndexInv'
<1> SUFFICES ASSUME IndexInv, [Next]_vars PROVE IndexInv'
  OBVIOUS
<1>1. CASE (Publish \/ Deviate) /\ UNCHANGED <<fundRows, request>>
  BY <1>1, SourceStep DEF fundRows
<1>2. CASE BenchFetch /\ UNCHANGED <<fundRows, request>>
  BY <1>2, FetchStep DEF BenchFetch, outside, fundRows, IndexInv, DaysInv
<1>3. CASE BenchStore /\ UNCHANGED <<fundRows, request>>
  BY <1>3, StoreStep DEF BenchStore, Done, outside, fundRows, IndexInv, DaysInv
<1>4. CASE BenchFails /\ UNCHANGED <<fundRows, request>>
  BY <1>4 DEF BenchFails, Done, outside, fundRows, IndexInv, DaysInv, BenchInv, AnswerInv,
     Gapless, Numbers
<1>5. CASE UNCHANGED benchVars /\ (now' = now \/ now' = now + 1)
  BY <1>5 DEF benchVars, benchmark, outside, IndexInv, DaysInv, BenchInv, AnswerInv,
     Gapless, Numbers
<1>6. CASE \/ OpenChart \/ CloseChart \/ UNCHANGED vars
           \/ (LiveRow \/ BackfillRow \/ NewDay) /\ UNCHANGED <<benchVars, request>>
  BY <1>5, <1>6 DEF OpenChart, CloseChart, LiveRow, BackfillRow, Write, NewDay, fundRows, vars
<1> QED
  BY <1>1, <1>2, <1>3, <1>4, <1>6 DEF Next, BenchNext

\* No day is missing from the table that the job could have written: one older than
\* the newest stored had no number when that was fetched (benchmark_sync.py:43-68).
THEOREM NoHolesLeft == Spec => []NoHoles
<1>1. IndexInv => NoHoles
  BY DEF IndexInv, BenchInv, Gapless, NoHoles
<1> QED
  BY <1>1, IndexStart, IndexStep, PTL DEF Spec
-----------------------------------------------------------------------------
(* What a request has loaded, and the values it divides by.                *)

\* The loaded rows are of days that still have one, none older than the window was
\* on the first day.
LoadedInv ==
  /\ RowsInv /\ RowsOK(rows) /\ RowsOK(seen)
  /\ DOMAIN seen \subseteq DOMAIN rows
  /\ now >= Start /\ (now <= MaxDay \/ now = Start)
  /\ \A d \in DOMAIN seen : d > Start - ChartDays

\* Before any request.
LEMMA LoadedStart == Init => LoadedInv
<1> SUFFICES ASSUME Init PROVE LoadedInv
  OBVIOUS
<1>1. RowsInv /\ RowsOK(rows)
  BY RowsStart, HistoryRows DEF Init
<1>2. now = Start /\ Start \in Nat /\ DOMAIN seen = {}
  BY FundRowsAssumption DEF Init, RowsInit
<1> QED
  BY <1>1, <1>2 DEF LoadedInv, RowsOK

\* Rows are overwritten under a request, days go by, and nothing is taken away.
LEMMA LoadedStep == LoadedInv /\ [Next]_vars => LoadedInv'
<1> SUFFICES ASSUME LoadedInv, [Next]_vars PROVE LoadedInv'
  OBVIOUS
<1>0. Start \in Nat /\ MaxDay \in Nat /\ ChartDays \in Nat /\ now \in Nat
  BY FundRowsAssumption, ChartAssumption DEF LoadedInv, RowsInv
<1>1. CASE OpenChart
  <2>1. /\ DOMAIN seen' = {e \in DOMAIN rows : e > now - ChartDays}
        /\ \A d \in DOMAIN seen' : seen'[d] = rows[d]
        /\ UNCHANGED <<rows, now>>
    BY <1>1 DEF OpenChart, fundRows
  <2>2. RowsInv'
    BY <2>1 DEF LoadedInv, RowsInv
  <2>3. \A d \in DOMAIN seen' : d > Start - ChartDays
    BY <1>0, <2>1 DEF LoadedInv, RowsInv
  <2> QED
    BY <2>1, <2>2, <2>3 DEF LoadedInv, RowsOK
<1>2. CASE CloseChart
  <2>1. DOMAIN seen' = {} /\ UNCHANGED <<rows, now>>
    BY <1>2 DEF CloseChart, fundRows
  <2> QED
    BY <2>1 DEF LoadedInv, RowsOK, RowsInv
<1>3. CASE (LiveRow \/ BackfillRow) /\ UNCHANGED request
  <2>1. RowsInv'
    BY <1>3, RowsStep DEF LoadedInv
  <2>2. RowsOK(rows') /\ DOMAIN rows \subseteq DOMAIN rows' /\ now' = now
    BY <1>3, WriteRows DEF LoadedInv
  <2> QED
    BY <1>3, <2>1, <2>2 DEF LoadedInv, request
<1>4. CASE NewDay /\ UNCHANGED request
  <2>1. RowsInv'
    BY <1>4, RowsStep DEF LoadedInv
  <2> QED
    BY <1>0, <1>4, <2>1 DEF NewDay, LoadedInv, request
<1>5. CASE UNCHANGED <<fundRows, request>>
  BY <1>5 DEF fundRows, request, LoadedInv, RowsInv, RowsOK
<1> QED
  BY <1>1, <1>2, <1>3, <1>4, <1>5 DEF Next, vars

Values == Nat \ {0}

\* Index values are positive numbers, missing, or not a number; what is stored is
\* a positive number.
ValuesInv ==
  /\ \A d \in DOMAIN source : source[d] \in Values \union {None, Garbage}
  /\ \A d \in DOMAIN answer : answer[d] \in Values \union {None, Garbage}
  /\ \A d \in DOMAIN bench : bench[d] \in Values

\* The index of a day is positive.
LEMMA IndexValue == ASSUME NEW d \in Nat \ {0} PROVE Index(d) \in Values /\ Index(d) + 1 \in Values
BY DEF Index, Values

\* At the start.
LEMMA ValuesStart == Init => ValuesInv
<1> SUFFICES ASSUME Init PROVE ValuesInv
  OBVIOUS
<1>1. PICK D \in SUBSET (Nat \ {0}) : source = Series(D)
  <2>1. PICK missing \in {{}, {Start - 1}} :
          source = Series((1 .. Start - 1) \ (Closed \union missing))
    BY DEF Init, BenchInit
  <2>2. (1 .. Start - 1) \ (Closed \union missing) \in SUBSET (Nat \ {0})
    BY FundRowsAssumption
  <2> QED
    BY <2>1, <2>2
<1>2. \A d \in DOMAIN source : source[d] \in Values
  BY <1>1, IndexValue DEF Series
<1>3. DOMAIN answer = {} /\ (DOMAIN bench = {} \/ bench = source)
  BY DEF Init, BenchInit, Series
<1> QED
  BY <1>2, <1>3 DEF ValuesInv

\* The source gives a day a value.
LEMMA ValuesPut ==
  ASSUME ValuesInv, NEW d, NEW value \in Values \union {None, Garbage}, Put(d, value)
  PROVE  ValuesInv'
BY DEF ValuesInv, Put, benchmark

\* Every step writes only such values.
LEMMA ValuesStep == LoadedInv /\ ValuesInv /\ [Next]_vars => ValuesInv'
<1> SUFFICES ASSUME LoadedInv, ValuesInv, [Next]_vars PROVE ValuesInv'
  OBVIOUS
<1>1. CASE Publish
  <2>1. Index(now) \in Values
    BY IndexValue DEF LoadedInv, RowsInv
  <2> QED
    BY <1>1, <2>1, ValuesPut DEF Publish
<1>2. CASE Deviate
  <2>1. PICK d \in (1 .. now) \ Closed :
          \E value \in {None, Garbage, Index(d), Index(d) + 1} : Put(d, value)
    BY <1>2 DEF Deviate
  <2>2. d \in Nat \ {0}
    BY DEF LoadedInv, RowsInv
  <2>3. PICK value \in Values \union {None, Garbage} : Put(d, value)
    BY <2>1, <2>2, IndexValue
  <2> QED
    BY <2>3, ValuesPut
<1>3. CASE BenchFetch
  BY <1>3 DEF BenchFetch, ValuesInv, outside
<1>4. CASE BenchStore
  <2>1. source' = source /\ DOMAIN answer' = {}
    BY <1>4 DEF BenchStore, Done, outside, Series
  <2>2. CASE bench' = bench
    BY <2>1, <2>2 DEF ValuesInv
  <2>3. CASE bench' # bench
    <3>1. /\ bench' = [d \in DOMAIN bench \union ToWrite |->
                         IF d \in ToWrite THEN answer[d] ELSE bench[d]]
          /\ \A d \in ToWrite : answer[d] # Garbage
      BY <1>4, <2>3 DEF BenchStore
    <3>2. ToWrite \subseteq DOMAIN answer /\ \A d \in ToWrite : answer[d] # None
      BY DEF ToWrite
    <3>3. \A d \in ToWrite : answer[d] \in Values
      BY <3>1, <3>2 DEF ValuesInv
    <3> QED
      BY <2>1, <3>1, <3>3 DEF ValuesInv
  <2> QED
    BY <2>2, <2>3
<1>5. CASE BenchFails
  BY <1>5 DEF BenchFails, Done, outside, Series, ValuesInv
<1>6. CASE UNCHANGED benchVars
  BY <1>6 DEF benchVars, benchmark, outside, ValuesInv
<1> QED
  BY <1>1, <1>2, <1>3, <1>4, <1>5, <1>6 DEF Next, BenchNext, OpenChart, CloseChart, vars

ChartInv == LoadedInv /\ ValuesInv

\* Both hold in every reachable state.
LEMMA ChartInductive == (Init => ChartInv) /\ (ChartInv /\ [Next]_vars => ChartInv')
BY LoadedStart, LoadedStep, ValuesStart, ValuesStep DEF ChartInv

-----------------------------------------------------------------------------
(* The response. *)

\* The labels are days up to today.
LEMMA LabelDays ==
  ASSUME ChartInv
  PROVE  /\ Labels \subseteq 0 .. now /\ Labels \subseteq Nat
         /\ now \in Nat
         /\ \A d \in Labels : Nav(d) \in Nat
<1>1. DOMAIN seen \subseteq 1 .. now /\ now \in Nat
  BY DEF ChartInv, LoadedInv, RowsInv
<1>2. Labels \subseteq DOMAIN seen
  BY DEF Labels
<1>3. \A d \in Labels : Nav(d) \in Nat
  BY DEF ChartInv, LoadedInv, RowsOK, IsRow, Labels, Nav
<1>4. \A d \in Labels : d \in 1 .. now
  BY <1>1, <1>2
<1> QED
  BY <1>1, <1>3, <1>4

\* The first day of a set of days.
LEMMA FirstIs ==
  ASSUME NEW S \in SUBSET Nat, S # {}
  PROVE  First(S) \in S /\ \A e \in S : First(S) <= e
<1>1. PICK d \in S : \A e \in S : d <= e
  BY FirstDay
<1> QED
  BY <1>1 DEF First

\* A day that is before all others is the first.
LEMMA FirstOnly ==
  ASSUME NEW S \in SUBSET Nat, NEW d \in S, \A e \in S : d <= e
  PROVE  First(S) = d
<1>1. First(S) \in S /\ First(S) <= d
  BY FirstIs
<1>2. First(S) \in Nat /\ d \in Nat /\ d <= First(S)
  BY <1>1
<1> QED
  BY <1>1, <1>2

\* The value aligned with a label is that of a day with an index, no later.
LEMMA AlignedIs ==
  ASSUME ChartInv, NEW d \in Labels, Known(d) # {}
  PROVE  /\ \E e \in DOMAIN bench : e <= d /\ Aligned(d) = bench[e]
         /\ Aligned(d) \in Values
<1>1. Known(d) \in SUBSET (0 .. now) /\ now \in Nat
  BY LabelDays DEF Known
<1>2. Latest(Known(d)) \in Known(d)
  BY <1>1, LatestIs
<1>3. Aligned(d) = bench[Latest(Known(d))]
  BY DEF Aligned
<1> QED
  BY <1>2, <1>3 DEF Known, ChartInv, ValuesInv

\* Both lines of a comparison start on the first day that has both values, where
\* each is its own base.
LEMMA FairComparison ==
  ASSUME ChartInv, Compared # {}
  PROVE  /\ FundLine[First(Compared)] = <<Nav(First(Compared)), Nav(First(Compared))>>
         /\ BenchmarkLine[First(Compared)]
              = <<Aligned(First(Compared)), Aligned(First(Compared))>>
         /\ \A d \in Compared : \E e \in DOMAIN bench : e <= d /\ Aligned(d) = bench[e]
<1> DEFINE F == First(Common)
<1>1. Labels \in SUBSET Nat /\ Common # {} /\ Common \in SUBSET Nat
  BY LabelDays DEF Compared, Common
<1>2. F \in Common
  BY <1>1, FirstIs
<1>3. F \in Labels /\ F \in Nat /\ Nav(F) # 0 /\ Nav(F) # None /\ Known(F) # {}
  BY <1>1, <1>2 DEF Common, Aligned, Labels, Nav
<1>4. Compared = {d \in Labels : d >= F}
  BY <1>1 DEF Compared
<1> HIDE DEF F
<1>5. Compared \in SUBSET Nat /\ F \in Compared /\ \A e \in Compared : F <= e
  <2>1. \A e \in Labels : e >= F <=> F <= e
    BY <1>1, <1>3
  <2>2. F >= F
    BY <1>3
  <2> QED
    BY <1>1, <1>3, <1>4, <2>1, <2>2
<1>6. First(Compared) = F
  BY <1>5, FirstOnly
<1>7. ASSUME NEW series, DOMAIN series = Compared, series[F] \notin {None, 0}
      PROVE  IndexTo100(series)[F] = <<series[F], series[F]>>
  <2> DEFINE valid == {d \in DOMAIN series : series[d] \notin {None, 0}}
  <2>1. valid \in SUBSET Nat /\ F \in valid /\ \A e \in valid : F <= e
    BY <1>5, <1>7
  <2>2. First(valid) = F
    <3> HIDE DEF valid
    <3> QED
      BY <2>1, FirstOnly
  <2>3. IndexTo100(series) = [d \in DOMAIN series |->
          IF d \in valid THEN <<series[d], series[First(valid)]>> ELSE None]
    BY DEF IndexTo100
  <2> HIDE DEF valid
  <2> QED
    BY <1>5, <1>7, <2>1, <2>2, <2>3
<1>8. ASSUME NEW d \in Compared
      PROVE  /\ \E e \in DOMAIN bench : e <= d /\ Aligned(d) = bench[e]
             /\ Aligned(d) \in Values
  <2>1. d \in Labels /\ d \in Nat /\ d >= F
    BY <1>1, <1>4
  <2>2. PICK e \in Known(F) : e \in Labels /\ e <= F
    BY <1>3 DEF Known
  <2>3. e \in Known(d)
    BY <1>1, <1>3, <2>1, <2>2 DEF Known
  <2> QED
    BY <2>1, <2>3, AlignedIs
<1>9. FundLine[F] = <<Nav(F), Nav(F)>>
  <2> DEFINE series == [d \in Compared |-> Nav(d)]
  <2>1. DOMAIN series = Compared /\ series[F] = Nav(F)
    BY <1>5
  <2> HIDE DEF series
  <2>2. IndexTo100(series)[F] = <<Nav(F), Nav(F)>>
    BY <1>3, <1>7, <2>1
  <2> QED
    BY <2>2 DEF FundLine, series
<1>10. BenchmarkLine[F] = <<Aligned(F), Aligned(F)>>
  <2> DEFINE series == [d \in Compared |-> Aligned(d)]
  <2>1. DOMAIN series = Compared /\ series[F] = Aligned(F)
    BY <1>5
  <2>2. Aligned(F) \notin {None, 0}
    BY <1>5, <1>8, BenchmarkAssumption DEF Values
  <2> HIDE DEF series
  <2>3. IndexTo100(series)[F] = <<Aligned(F), Aligned(F)>>
    BY <1>7, <2>1, <2>2
  <2> QED
    BY <2>3 DEF BenchmarkLine, series
<1> QED
  BY <1>6, <1>8, <1>9, <1>10

\* Whatever is written while a request runs, the two lines it draws start at 100 on
\* the same day, and no index value is of a later day (web.py:221-245, docs/05:75).
THEOREM ComparisonFair == Spec => []ComparisonIsFair
<1>1. ChartInv => ComparisonIsFair
  BY FairComparison DEF ComparisonIsFair
<1> QED
  BY <1>1, ChartInductive, PTL DEF Spec

\* Of two labels in a row with the same net_asset per NAV the second has no flow.
LEMMA SteadyPair ==
  ASSUME ChartInv, SteadyUnits, NEW d \in Labels,
         Flow(d) # None, \A e \in Pair(d) : seen[e].aum # 0
  PROVE  Flow(d) = 0
<1> DEFINE before == Before(Labels, d)
           p == Latest(before)
<1>1. /\ before # {} /\ LastAum(d) # None /\ seen[d].aum # None
      /\ Flow(d) = seen[d].aum * Nav(p) - LastAum(d) * Nav(d)
  BY DEF Flow
<1>2. before \in SUBSET (0 .. now) /\ Labels \in SUBSET (0 .. now) /\ now \in Nat
  BY LabelDays DEF Before
<1>3. p \in before /\ \A e \in before : e <= p
  <2> HIDE DEF before
  <2> QED
    BY <1>1, <1>2, LatestIs
<1>4. p \in Labels /\ d \in Pair(d) /\ p \in Pair(d)
  BY <1>2, <1>3 DEF Before, Pair
<1>5. LastAum(d) = seen[p].aum
  BY <1>1 DEF LastAum
<1>6. d \in Valued /\ p \in Valued
  BY <1>1, <1>4, <1>5 DEF Valued
<1>7. seen[d].aum * Nav(p) = seen[p].aum * Nav(d)
  BY <1>6 DEF SteadyUnits
<1>8. seen[p].aum \in Nat /\ Nav(d) \in Nat
  BY <1>1, <1>4, <1>5, LabelDays DEF ChartInv, LoadedInv, RowsOK, IsRow, Labels
<1> HIDE DEF p, before
<1>9. seen[p].aum * Nav(d) \in Int
  BY <1>8
<1> QED
  BY <1>1, <1>5, <1>7, <1>9

\* A fund whose units do not change shows a flow only next to a net_asset of 0
\* (analytics.py:106-133, preprocessing.py:50).
THEOREM NoFlow == Spec => []NoFlowWithoutUnits
<1>1. ChartInv => NoFlowWithoutUnits
  BY SteadyPair DEF NoFlowWithoutUnits
<1> QED
  BY <1>1, ChartInductive, PTL DEF Spec

-----------------------------------------------------------------------------
(* The curve beside the maximum.                                           *)

\* The peak so far is the value of a day so far, and none is higher.
LEMMA PeakIs ==
  ASSUME NEW n \in Nat, NEW navs, DOMAIN navs \subseteq 0 .. n,
         \A e \in DOMAIN navs : navs[e] \in Nat, NEW d \in DOMAIN navs
  PROVE  /\ Peak(navs, d) \in Nat
         /\ \E e \in DOMAIN navs : e <= d /\ Peak(navs, d) = navs[e]
         /\ \A e \in DOMAIN navs : e <= d => navs[e] <= Peak(navs, d)
<1> DEFINE S == {x \in DOMAIN navs : x <= d}
           R == {t \in S \X S : navs[t[2]] <= navs[t[1]]}
           before == {navs[e] : e \in S}
           top == CHOOSE v \in before : \A w \in before : w <= v
<1>1. S \in SUBSET (0 .. n) /\ \A e \in S : navs[e] \in Nat
  OBVIOUS
<1>2. d \in S
  <2>1. d \in Nat
    OBVIOUS
  <2> QED
    BY <2>1
<1> HIDE DEF S
<1>3. \A a, b \in S : <<a, b>> \in R <=> navs[b] <= navs[a]
  OBVIOUS
<1>4. ASSUME NEW a \in S, NEW b \in S PROVE <<a, b>> \in R \/ <<b, a>> \in R
  <2>1. navs[a] \in Nat /\ navs[b] \in Nat
    BY <1>1
  <2>2. navs[b] <= navs[a] \/ navs[a] <= navs[b]
    BY <2>1
  <2> QED
    BY <1>3, <2>2
<1>5. ASSUME NEW a \in S, NEW b \in S, NEW c \in S, <<a, b>> \in R, <<b, c>> \in R
      PROVE  <<a, c>> \in R
  <2>1. navs[a] \in Nat /\ navs[b] \in Nat /\ navs[c] \in Nat
    BY <1>1
  <2>2. navs[c] <= navs[a]
    BY <1>3, <1>5, <2>1
  <2> QED
    BY <1>3, <2>2
<1>6. PICK m \in S : \A e \in S : <<m, e>> \in R
  <2> HIDE DEF R
  <2>1. S \in SUBSET (0 .. n) /\ S # {}
    BY <1>1, <1>2
  <2> QED
    BY <1>4, <1>5, <2>1, LeastIs
<1>7. navs[m] \in before /\ \A w \in before : w <= navs[m]
  BY <1>3, <1>6
<1>8. top \in before /\ \A w \in before : w <= top
  <2> HIDE DEF before
  <2> QED
    BY <1>7
<1>9. Peak(navs, d) = top
  BY DEF Peak, S
<1> QED
  BY <1>1, <1>8, <1>9 DEF S

\* Multiplying keeps the order.
LEMMA TimesKeepsOrder ==
  ASSUME NEW x \in Nat, NEW y \in Nat, NEW k \in Nat \ {0}
  PROVE  x <= y <=> x * k <= y * k
OBVIOUS

\* Ratios are ordered by cross-multiplication.
LEMMA DeeperIsTransitive ==
  ASSUME NEW a1 \in Nat, NEW a2 \in Nat \ {0}, NEW b1 \in Nat, NEW b2 \in Nat \ {0},
         NEW c1 \in Nat, NEW c2 \in Nat \ {0},
         a1 * b2 <= b1 * a2, b1 * c2 <= c1 * b2
  PROVE  a1 * c2 <= c1 * a2
<1>1. (a1 * b2) * c2 <= (b1 * a2) * c2
  <2>1. a1 * b2 \in Nat /\ b1 * a2 \in Nat
    OBVIOUS
  <2> QED
    BY <2>1, TimesKeepsOrder
<1>2. (b1 * c2) * a2 <= (c1 * b2) * a2
  <2>1. b1 * c2 \in Nat /\ c1 * b2 \in Nat
    OBVIOUS
  <2> QED
    BY <2>1, TimesKeepsOrder
<1>3. (a1 * c2) * b2 <= (c1 * a2) * b2
  BY <1>1, <1>2
<1>4. a1 * c2 \in Nat /\ c1 * a2 \in Nat
  OBVIOUS
<1> QED
  BY <1>3, <1>4, TimesKeepsOrder

\* Of finitely many positive prices, one fell the deepest from its peak.
LEMMA DeepestIs ==
  ASSUME NEW n \in Nat, NEW navs, DOMAIN navs \subseteq 0 .. n, DOMAIN navs # {},
         \A e \in DOMAIN navs : navs[e] \in Nat \ {0}
  PROVE  \E m \in DOMAIN navs : \A e \in DOMAIN navs :
           Deeper(<<navs[m], Peak(navs, m)>>, <<navs[e], Peak(navs, e)>>)
<1> DEFINE P(e) == Peak(navs, e)
           S == DOMAIN navs
           R == {t \in S \X S : navs[t[1]] * P(t[2]) <= navs[t[2]] * P(t[1])}
<1>1. ASSUME NEW e \in S PROVE P(e) \in Nat \ {0}
  <2>1. PICK x \in S : P(e) = navs[x]
    BY PeakIs
  <2> QED
    BY <2>1
<1>2. \A e \in S : navs[e] \in Nat \ {0} /\ P(e) \in Nat \ {0}
  BY <1>1
<1> HIDE DEF P
<1>3. \A a, b \in S : <<a, b>> \in R <=> navs[a] * P(b) <= navs[b] * P(a)
  OBVIOUS
<1>4. ASSUME NEW a \in S, NEW b \in S PROVE <<a, b>> \in R \/ <<b, a>> \in R
  <2>1. navs[a] * P(b) \in Nat /\ navs[b] * P(a) \in Nat
    BY <1>2
  <2> QED
    BY <1>3, <2>1
<1>5. ASSUME NEW a \in S, NEW b \in S, NEW c \in S, <<a, b>> \in R, <<b, c>> \in R
      PROVE  <<a, c>> \in R
  <2>1. navs[a] * P(b) <= navs[b] * P(a) /\ navs[b] * P(c) <= navs[c] * P(b)
    BY <1>3, <1>5
  <2>2. navs[a] * P(c) <= navs[c] * P(a)
    BY <1>2, <2>1, DeeperIsTransitive
  <2> QED
    BY <1>3, <2>2
<1>6. PICK m \in S : \A e \in S : <<m, e>> \in R
  <2> HIDE DEF R
  <2>1. S \in SUBSET (0 .. n) /\ S # {}
    OBVIOUS
  <2> QED
    BY <1>4, <1>5, <2>1, LeastIs
<1>7. \A e \in S : navs[m] * P(e) <= navs[e] * P(m)
  BY <1>3, <1>6
<1> QED
  BY <1>7 DEF Deeper, P

\* What the second query reads of the labels is what the first one loaded, and the
\* rest of its rows are positive prices of days up to today.
LEMMA RiskReads ==
  ASSUME ChartInv, \A d \in Labels : Nav(d) > 0
  PROVE  /\ DOMAIN RiskNavs = RiskDays /\ RiskDays \subseteq 0 .. now
         /\ \A e \in RiskDays : RiskNavs[e] \in Nat \ {0}
         /\ \A d \in Labels \intersect RiskDays : RiskNavs[d] = Nav(d)
<1>1. DOMAIN rows \subseteq 1 .. now /\ now \in Nat
  BY DEF ChartInv, LoadedInv, RowsInv
<1>2. DOMAIN RiskNavs = RiskDays /\ RiskDays \subseteq 0 .. now
  BY <1>1 DEF RiskNavs, RiskDays
<1>3. ASSUME NEW e \in RiskDays PROVE RiskNavs[e] \in Nat \ {0}
  <2>1. /\ e \in DOMAIN rows /\ Row(e).nav # None /\ Row(e).nav > 0
        /\ RiskNavs[e] = Row(e).nav
    BY <1>3 DEF RiskNavs, RiskDays
  <2>2. Row(e).nav \in Nat \union {None}
    BY <2>1 DEF Row, ChartInv, LoadedInv, RowsOK, IsRow
  <2> QED
    BY <2>1, <2>2
<1>4. \A d \in Labels \intersect RiskDays : RiskNavs[d] = Nav(d)
  BY DEF RiskNavs, Row, Nav, Labels
<1> QED
  BY <1>2, <1>3, <1>4

\* As long as fewer days than the risk query has rows lie between a label and today,
\* that query reads the label as well: there is one row a day.
LEMMA LabelsAtRisk ==
  ASSUME ChartInv, \A d \in Labels : Nav(d) > 0 /\ now - d < RiskRows
  PROVE  Labels \subseteq RiskDays
<1> SUFFICES ASSUME NEW d \in Labels PROVE d \in RiskDays
  OBVIOUS
<1>1. DOMAIN rows \subseteq 1 .. now /\ now \in Nat /\ RiskRows \in Nat
  BY ChartAssumption DEF ChartInv, LoadedInv, RowsInv
<1>2. d \in DOMAIN seen /\ d \in DOMAIN rows /\ d \in 1 .. now
  BY <1>1 DEF Labels, ChartInv, LoadedInv
<1> DEFINE later == {e \in DOMAIN rows : e > d}
<1>3. later \in SUBSET (d + 1 .. now)
  <2> SUFFICES ASSUME NEW e \in later PROVE e \in d + 1 .. now
    OBVIOUS
  <2>1. e \in 1 .. now /\ e > d
    BY <1>1
  <2> QED
    BY <1>2, <2>1
<1>4. IsFiniteSet(d + 1 .. now) /\ Cardinality(d + 1 .. now) = now - d
  <2>1. d + 1 \in Int /\ now \in Int
    BY <1>1, <1>2
  <2>2. /\ IsFiniteSet(d + 1 .. now)
        /\ Cardinality(d + 1 .. now) = IF d + 1 > now THEN 0 ELSE now - (d + 1) + 1
    BY <2>1, FS_Interval
  <2> QED
    BY <1>1, <1>2, <2>2
<1>5. IsFiniteSet(later) /\ Cardinality(later) <= now - d
  BY <1>3, <1>4, FS_Subset
<1>6. Cardinality(later) < RiskRows
  <2>1. Cardinality(later) \in Nat
    BY <1>5, FS_CardinalityType
  <2>2. now - d < RiskRows /\ now - d \in Int
    BY <1>1, <1>2
  <2> HIDE DEF later
  <2> QED
    BY <1>1, <1>5, <2>1, <2>2
<1>7. Row(d) = seen[d] /\ seen[d].nav # None /\ seen[d].nav > 0
  BY <1>2 DEF Row, Labels, Nav
<1> QED
  BY <1>2, <1>6, <1>7 DEF RiskDays

\* The maximum is over more days, each with a peak at least as high.
LEMMA CurveWithin ==
  ASSUME ChartInv, Cardinality(Labels) > 1,
         \A d \in Labels : Nav(d) > 0 /\ now - d < RiskRows,
         NEW d \in Labels
  PROVE  MaxDrawdown # None /\ Deeper(MaxDrawdown, Drawdown[d])
<1> DEFINE navs == RiskNavs
           line == [e \in Labels |-> Nav(e)]
           drops == {<<navs[e], Peak(navs, e)>> : e \in DOMAIN navs}
           deepest == CHOOSE p \in drops : \A q \in drops : Deeper(p, q)
<1>1. /\ now \in Nat /\ Labels \subseteq 0 .. now
      /\ \A e \in Labels : Nav(e) \in Nat
  BY LabelDays
<1>2. Labels \subseteq RiskDays
  BY LabelsAtRisk
<1>3. /\ DOMAIN navs = RiskDays /\ RiskDays \subseteq 0 .. now
      /\ \A e \in DOMAIN navs : navs[e] \in Nat \ {0}
      /\ \A e \in Labels : navs[e] = Nav(e)
  BY <1>2, RiskReads
<1>4. ~(Cardinality(DOMAIN navs) < 2)
  <2>1. 0 \in Int /\ now \in Int
    BY <1>1
  <2>2. IsFiniteSet(0 .. now)
    BY <2>1, FS_Interval
  <2>3. IsFiniteSet(RiskDays)
    BY <1>3, <2>2, FS_Subset
  <2>4. IsFiniteSet(Labels) /\ Cardinality(Labels) <= Cardinality(RiskDays)
    BY <1>2, <2>3, FS_Subset
  <2>5. Cardinality(Labels) \in Nat /\ Cardinality(RiskDays) \in Nat
    BY <2>3, <2>4, FS_CardinalityType
  <2> QED
    BY <1>3, <2>4, <2>5
<1>5. MaxDrawdown = deepest
  BY <1>4 DEF MaxDrawdown
<1> HIDE DEF navs
<1>6. deepest \in drops /\ \A q \in drops : Deeper(deepest, q)
  <2>1. PICK m \in DOMAIN navs : \A e \in DOMAIN navs :
          Deeper(<<navs[m], Peak(navs, m)>>, <<navs[e], Peak(navs, e)>>)
    BY <1>1, <1>2, <1>3, DeepestIs
  <2>2. <<navs[m], Peak(navs, m)>> \in drops
        /\ \A q \in drops : Deeper(<<navs[m], Peak(navs, m)>>, q)
    BY <2>1
  <2> HIDE DEF drops
  <2> QED
    BY <2>2
<1>7. PICK m \in DOMAIN navs : deepest = <<navs[m], Peak(navs, m)>>
  BY <1>6
<1>8. ASSUME NEW e \in DOMAIN navs
      PROVE  Peak(navs, e) \in Nat /\ \A x \in DOMAIN navs : x <= e => navs[x] <= Peak(navs, e)
  <2>1. \A x \in DOMAIN navs : navs[x] \in Nat
    BY <1>3
  <2> QED
    BY <1>1, <1>3, <2>1, PeakIs
<1>9. deepest # None
  <2>1. navs[m] \in Nat /\ Peak(navs, m) \in Nat
    BY <1>3, <1>8
  <2>2. <<navs[m], Peak(navs, m)>> \in Nat \X Nat
    BY <2>1
  <2> HIDE DEF deepest
  <2> QED
    BY <1>7, <2>2, ChartAssumption
<1>10. d \in DOMAIN navs /\ Deeper(deepest, <<navs[d], Peak(navs, d)>>)
  BY <1>2, <1>3, <1>6
<1> DEFINE top == Peak(line, d)
<1>11. top \in Nat \ {0} /\ top <= Peak(navs, d)
  <2>1. DOMAIN line = Labels /\ \A e \in Labels : line[e] = Nav(e)
    OBVIOUS
  <2> HIDE DEF line
  <2>2. PICK e \in Labels : e <= d /\ top = line[e]
    BY <1>1, <2>1, PeakIs
  <2>3. top = navs[e] /\ e \in DOMAIN navs
    BY <1>2, <1>3, <2>1, <2>2
  <2> HIDE DEF top
  <2> QED
    BY <1>3, <1>8, <1>10, <2>2, <2>3
<1>12. Drawdown[d] = <<Nav(d), top>>
  <2>1. Drawdown = [e \in Labels |-> IF Peak(line, e) = 0 THEN None
                                     ELSE <<Nav(e), Peak(line, e)>>]
    BY DEF Drawdown
  <2>2. top # 0
    BY <1>11
  <2> HIDE DEF line
  <2> QED
    BY <2>1, <2>2
<1>13. Deeper(deepest, <<Nav(d), top>>)
  <2> HIDE DEF top, deepest
  <2>1. PICK a1 \in Nat, a2 \in Nat \ {0} : deepest = <<a1, a2>>
    <3>1. navs[m] \in Nat /\ navs[m] # 0 /\ Peak(navs, m) \in Nat
      BY <1>3, <1>8
    <3>2. m <= m
      <4>1. m \in 0 .. now
        BY <1>3
      <4> QED
        BY <4>1
    <3>3. navs[m] <= Peak(navs, m)
      BY <1>8, <3>2
    <3>4. Peak(navs, m) # 0
      BY <3>1, <3>3
    <3> QED
      BY <1>7, <3>1, <3>4
  <2>2. PICK b \in Nat, high \in Nat, low \in Nat \ {0} :
          b = Nav(d) /\ high = Peak(navs, d) /\ low = top /\ low <= high
    BY <1>1, <1>8, <1>10, <1>11
  <2>3. a1 * high <= b * a2
    BY <1>3, <1>10, <2>1, <2>2 DEF Deeper
  <2>4. a1 * low <= a1 * high
    BY <2>1, <2>2
  <2>5. a1 * low <= b * a2
    <3>1. a1 * low \in Nat /\ a1 * high \in Nat /\ b * a2 \in Nat
      BY <2>1, <2>2
    <3> QED
      BY <2>3, <2>4, <3>1
  <2> QED
    BY <2>1, <2>2, <2>5 DEF Deeper
<1> QED
  BY <1>5, <1>9, <1>12, <1>13

\* While a request is open fewer days go by than the risk query has rows to spare,
\* about 222 in the code, the curve stays within the maximum, although the two queries see
\* different rows (web.py:144, 193, 264).
THEOREM CurveWithinMaximumWhilePrompt ==
  Spec => []((\A d \in Labels : now - d < RiskRows) => CurveWithinMaximum)
<1>1. ChartInv => ((\A d \in Labels : now - d < RiskRows) => CurveWithinMaximum)
  <2> SUFFICES ASSUME ChartInv, \A d \in Labels : now - d < RiskRows,
                      Cardinality(Labels) > 1, \A d \in Labels : Nav(d) > 0
               PROVE  \A d \in Labels : MaxDrawdown # None /\ Deeper(MaxDrawdown, Drawdown[d])
    BY DEF CurveWithinMaximum
  <2> QED
    BY CurveWithin
<1> QED
  BY <1>1, ChartInductive, PTL DEF Spec

\* So it does over any span of days that the spare rows cover.
THEOREM CurveAndMaximum ==
  ASSUME MaxDay + ChartDays <= Start + RiskRows
  PROVE  Spec => []CurveWithinMaximum
<1>1. ChartInv => CurveWithinMaximum
  <2> SUFFICES ASSUME ChartInv, Cardinality(Labels) > 1, \A d \in Labels : Nav(d) > 0
               PROVE  \A d \in Labels : MaxDrawdown # None /\ Deeper(MaxDrawdown, Drawdown[d])
    BY DEF CurveWithinMaximum
  <2>1. ASSUME NEW d \in Labels PROVE now - d < RiskRows
    <3>1. d \in Nat /\ d > Start - ChartDays /\ now \in Nat /\ (now <= MaxDay \/ now = Start)
      BY LabelDays DEF Labels, ChartInv, LoadedInv
    <3> QED
      BY <3>1, FundRowsAssumption, ChartAssumption
  <2> QED
    BY <2>1, CurveWithin
<1> QED
  BY <1>1, ChartInductive, PTL DEF Spec
=============================================================================
