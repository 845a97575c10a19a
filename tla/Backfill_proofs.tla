--------------------------- MODULE Backfill_proofs ---------------------------
(***************************************************************************)
(* Proofs about Backfill, BackfillAudit and BackfillReport: the recorded   *)
(* count is backed by stored rows, the job keeps its ledger, downloads keep *)
(* their distance, a request counts a fund once at most, and a complete    *)
(* fund drops out by the passing of time only; for any funds, days, target, *)
(* batch size, windows and faults.                                         *)
(***************************************************************************)
EXTENDS BackfillReport, FiniteSetTheorems, TLAPS

\* The rows an answer brought are stored before anything is said about them,
\* and nothing is said before the answer is stored.
EvidenceInv ==
  /\ TypeOK
  /\ EvidenceBacked
  /\ pc # "mark" => result = None
  /\ pc = "etf" => got \subseteq stored[cur]
  /\ pc = "mark" /\ result # None => result <= HistoryCount(cur)

\* The part of the assumption the arithmetic needs.
LEMMA Numbers ==
  /\ EtfFunds \subseteq Funds
  /\ Target \in Nat /\ FailedRetry \in Nat /\ Retry \in Nat /\ MaxAge \in Nat
  /\ FailedRetry <= Retry /\ Retry < MaxAge
  /\ MaxElapsed \in Nat /\ MaxFaults \in Nat
  /\ None \notin Nat /\ None \notin Funds
BY BackfillAssumption

\* Sets of days have a size, larger for a larger set.
LEMMA Sizes ==
  ASSUME NEW T \in SUBSET Days, NEW S \in SUBSET T
  PROVE  /\ Cardinality(S) \in Nat /\ Cardinality(T) \in Nat
         /\ Cardinality(S) <= Cardinality(T)
<1>1. IsFiniteSet(Days)
  BY BackfillAssumption
<1>2. IsFiniteSet(T)
  BY <1>1, FS_Subset
<1>3. IsFiniteSet(S) /\ Cardinality(S) <= Cardinality(T)
  BY <1>2, FS_Subset
<1> QED
  BY <1>2, <1>3, FS_CardinalityType

\* A history count is a number.
LEMMA CountIsNat ==
  ASSUME TypeOK, NEW f \in Funds
  PROVE  HistoryCount(f) \in Nat
BY Sizes DEF TypeOK, HistoryCount

\* The newest stored day is a day, when there is one.
LEMMA NewestOfSource ==
  ASSUME TypeOK, NEW f \in Funds
  PROVE  Newest(source[f], Target) \subseteq Days
BY DEF TypeOK, Newest

\* An age stays an age when time passes.
LEMMA OlderAge ==
  ASSUME NEW a \in Ages \union {None}
  PROVE  /\ Older(a) \in Ages \union {None}
         /\ (a = None) = (Older(a) = None)
         /\ a # None => Older(a) >= a
BY Numbers DEF Older, Ages, AgeCap

\* The steps that only move the job along.
LEMMA Moves ==
  ASSUME EvidenceInv, UNCHANGED <<source, table>>,
         TypeOK', pc' # "mark" => result' = None, pc' # "etf",
         pc' = "mark" => result' = None
  PROVE  EvidenceInv'
BY DEF EvidenceInv, EvidenceBacked, HistoryCount, table

\* Rows that are added take nothing from what was recorded.
LEMMA MoreRows ==
  ASSUME EvidenceInv, TypeOK', sourceCount' = sourceCount,
         \A f \in Funds : stored[f] \subseteq stored'[f]
  PROVE  /\ EvidenceBacked'
         /\ \A f \in Funds : HistoryCount(f) <= HistoryCount(f)'
<1>1. ASSUME NEW f \in Funds
      PROVE  /\ HistoryCount(f) \in Nat /\ HistoryCount(f)' \in Nat
             /\ HistoryCount(f) <= HistoryCount(f)'
  <2>1. stored'[f] \in SUBSET Days /\ stored[f] \in SUBSET stored'[f]
    BY DEF TypeOK
  <2> QED
    BY <2>1, Sizes DEF HistoryCount
<1>2. ASSUME NEW f \in Funds, sourceCount[f] # None
      PROVE  sourceCount[f] <= HistoryCount(f)'
  <2>1. sourceCount[f] \in Nat /\ sourceCount[f] <= HistoryCount(f)
    BY <1>2 DEF EvidenceInv, TypeOK, EvidenceBacked
  <2> QED
    BY <1>1, <2>1
<1> QED
  BY <1>1, <1>2 DEF EvidenceBacked

\* A database without markers records nothing.
LEMMA EvidenceInit == Init => EvidenceInv
<1> SUFFICES ASSUME Init PROVE EvidenceInv
  OBVIOUS
<1>1. source \in [Funds -> SUBSET Days] /\ stored \in [Funds -> SUBSET Days]
      /\ priced \subseteq EtfFunds
  BY DEF Init
<1>2. sourceCount \in [Funds -> Nat \union {None}]
      /\ checkedAge \in [Funds -> Ages \union {None}]
  BY DEF Init
<1>3. /\ pc = "idle" /\ got = {} /\ result = None /\ cur = None
      /\ DOMAIN todo = {}
  BY DEF Init
<1>4. elapsed \in 0..MaxElapsed /\ faults \in 0..MaxFaults
  BY Numbers DEF Init
<1>5. TypeOK
  BY <1>1, <1>2, <1>3, <1>4 DEF TypeOK
<1>6. EvidenceBacked
  BY DEF Init, EvidenceBacked
<1> QED
  BY <1>3, <1>5, <1>6 DEF EvidenceInv

\* Every step keeps what is recorded backed by rows.
LEMMA EvidenceStep == EvidenceInv /\ [Next]_vars => EvidenceInv'
<1> SUFFICES ASSUME EvidenceInv, [Next]_vars PROVE EvidenceInv'
  OBVIOUS
<1> USE Numbers
<1>0. TypeOK
  BY DEF EvidenceInv
<1>1. CASE NothingDue
  <2>1. TypeOK'
    BY <1>0, <1>1 DEF NothingDue, TypeOK, table, job
  <2> QED
    BY <1>1, <2>1, Moves DEF NothingDue, EvidenceInv, job
<1>2. CASE SelectBatch
  <2>1. PICK S \in Batches : todo' = [f \in S |-> HistoryCount(f)]
    BY <1>2 DEF SelectBatch
  <2>2. DOMAIN todo' \subseteq Funds /\ \A f \in DOMAIN todo' : todo'[f] \in Nat
    BY <1>0, <2>1, CountIsNat DEF Batches
  <2>3. TypeOK'
    BY <1>0, <1>2, <2>2 DEF SelectBatch, TypeOK, table
  <2> QED
    BY <1>2, <2>3, Moves DEF SelectBatch, EvidenceInv
<1>3. CASE EndBatch
  <2>1. TypeOK'
    BY <1>0, <1>3 DEF EndBatch, TypeOK, table
  <2> QED
    BY <1>3, <2>1, Moves DEF EndBatch, EvidenceInv
<1>4. ASSUME NEW f \in Funds, StartFund(f) PROVE EvidenceInv'
  <2>1. TypeOK'
    BY <1>0, <1>4 DEF StartFund, TypeOK, table
  <2> QED
    BY <1>4, <2>1, Moves DEF StartFund, EvidenceInv
<1>5. ASSUME NEW f \in Funds, FetchAnswers(f) PROVE EvidenceInv'
  <2>1. TypeOK'
    BY <1>0, <1>5, NewestOfSource DEF FetchAnswers, TypeOK, table
  <2> QED
    BY <1>5, <2>1, Moves DEF FetchAnswers, EvidenceInv
<1>6. CASE FetchFails
  <2>1. TypeOK'
    BY <1>0, <1>6 DEF FetchFails, TypeOK, table
  <2> QED
    BY <1>6, <2>1, Moves DEF FetchFails, EvidenceInv
<1>7. CASE StoreHistory
  <2>1. TypeOK'
    BY <1>0, <1>7 DEF StoreHistory, TypeOK
  <2>2. \A f \in Funds : stored[f] \subseteq stored'[f]
    BY <1>0, <1>7 DEF StoreHistory, TypeOK
  <2>3. EvidenceBacked'
    BY <1>7, <2>1, <2>2, MoreRows DEF StoreHistory
  <2>4. got' \subseteq stored'[cur']
    BY <1>0, <1>7 DEF StoreHistory, TypeOK
  <2> QED
    BY <1>7, <2>1, <2>3, <2>4 DEF StoreHistory, EvidenceInv
<1>8. CASE FillEtfHistory
  <2>1. got \in SUBSET stored[cur] /\ stored[cur] \in SUBSET Days
    BY <1>0, <1>8 DEF FillEtfHistory, EvidenceInv, TypeOK
  <2>2. Cardinality(got) \in Nat /\ Cardinality(got) <= HistoryCount(cur)
    BY <2>1, Sizes DEF HistoryCount
  <2>3. TypeOK'
    BY <1>0, <1>8, <2>2 DEF FillEtfHistory, TypeOK
  <2>4. EvidenceBacked' /\ HistoryCount(cur)' = HistoryCount(cur)
    BY <1>8 DEF FillEtfHistory, EvidenceInv, EvidenceBacked, HistoryCount
  <2> QED
    BY <1>8, <2>2, <2>3, <2>4 DEF FillEtfHistory, EvidenceInv
<1>9. CASE MarkChecked
  <2>1. TypeOK'
    BY <1>0, <1>9 DEF MarkChecked, EndFund, TypeOK, Ages, AgeCap
  <2>2. stored' = stored
    BY <1>9 DEF MarkChecked
  <2>3. ASSUME NEW f \in Funds, sourceCount'[f] # None
        PROVE  sourceCount'[f] <= HistoryCount(f)'
    <3>1. HistoryCount(f)' = HistoryCount(f)
      BY <2>2 DEF HistoryCount
    <3>2. CASE f = cur /\ result # None
      BY <1>0, <1>9, <3>1, <3>2 DEF MarkChecked, EvidenceInv, TypeOK
    <3>3. CASE ~(f = cur /\ result # None)
      <4>1. sourceCount'[f] = sourceCount[f]
        BY <1>0, <1>9, <3>3 DEF MarkChecked, TypeOK
      <4> QED
        BY <2>3, <3>1, <4>1 DEF EvidenceInv, EvidenceBacked
    <3> QED
      BY <3>2, <3>3
  <2>4. EvidenceBacked'
    BY <2>3 DEF EvidenceBacked
  <2> QED
    BY <1>9, <2>1, <2>4 DEF MarkChecked, EndFund, EvidenceInv
<1>10. CASE StoreOrReloadFails
  <2>1. TypeOK'
    BY <1>0, <1>10 DEF StoreOrReloadFails, TypeOK, table
  <2> QED
    BY <1>10, <2>1, Moves DEF StoreOrReloadFails, EvidenceInv
<1>11. CASE MarkFails
  <2>1. TypeOK'
    BY <1>0, <1>11 DEF MarkFails, EndFund, TypeOK, table
  <2> QED
    BY <1>11, <2>1, Moves DEF MarkFails, EndFund, EvidenceInv
<1>12. CASE AbortBatch
  <2>1. TypeOK'
    BY <1>0, <1>12 DEF AbortBatch, EndFund, TypeOK, table
  <2> QED
    BY <1>12, <2>1, Moves DEF AbortBatch, EndFund, EvidenceInv
<1>13. CASE Tick
  <2>1. checkedAge' \in [Funds -> Ages \union {None}]
    BY <1>0, <1>13, OlderAge DEF Tick, TypeOK
  <2>2. TypeOK'
    BY <1>0, <1>13, <2>1 DEF Tick, TypeOK, job
  <2> QED
    BY <1>13, <2>2 DEF Tick, job, EvidenceInv, EvidenceBacked, HistoryCount
<1>14. ASSUME NEW f \in Funds, LiveRow(f) PROVE EvidenceInv'
  <2>1. TypeOK'
    BY <1>0, <1>14 DEF LiveRow, TypeOK, job
  <2>2. \A g \in Funds : stored[g] \subseteq stored'[g]
    BY <1>0, <1>14 DEF LiveRow, TypeOK
  <2>3. EvidenceBacked' /\ \A g \in Funds : HistoryCount(g) <= HistoryCount(g)'
    BY <1>14, <2>1, <2>2, MoreRows DEF LiveRow
  <2>4. pc' = "etf" => got' \subseteq stored'[cur']
    BY <1>0, <1>14, <2>2 DEF LiveRow, job, EvidenceInv, TypeOK
  <2>5. pc' = "mark" /\ result' # None => result' <= HistoryCount(cur)'
    <3> SUFFICES ASSUME pc' = "mark", result' # None
                 PROVE  result' <= HistoryCount(cur)'
      OBVIOUS
    <3>1. pc = "mark" /\ result = result' /\ result # None /\ cur' = cur
      BY <1>14 DEF LiveRow, job
    <3>2. cur \in Funds /\ result \in Nat /\ result <= HistoryCount(cur)
      BY <1>0, <3>1 DEF EvidenceInv, TypeOK
    <3>3. HistoryCount(cur) <= HistoryCount(cur)' 
      BY <2>3, <3>1, <3>2 DEF HistoryCount
    <3>4. HistoryCount(cur) \in Nat /\ HistoryCount(cur)' \in Nat
      BY <1>0, <2>1, <3>1, <3>2, Sizes DEF HistoryCount, TypeOK
    <3> QED
      BY <3>1, <3>2, <3>3, <3>4
  <2> QED
    BY <1>14, <2>1, <2>3, <2>4, <2>5 DEF LiveRow, job, EvidenceInv
<1>15. ASSUME NEW f \in Funds, NewDay(f) PROVE EvidenceInv'
  <2>1. TypeOK'
    BY <1>0, <1>15 DEF NewDay, TypeOK, table, job
  <2> QED
    BY <1>15, <2>1 DEF NewDay, table, job, EvidenceInv, EvidenceBacked, HistoryCount
<1>16. CASE UNCHANGED vars
  BY <1>16 DEF vars, table, job, EvidenceInv, TypeOK, EvidenceBacked, HistoryCount
<1> QED
  BY <1>1, <1>2, <1>3, <1>4, <1>5, <1>6, <1>7, <1>8, <1>9, <1>10, <1>11, <1>12,
     <1>13, <1>14, <1>15, <1>16 DEF Next, JobStep, Fault, Environment

\* The types hold in every reachable state.
THEOREM TypeCorrect == Spec => []TypeOK
<1>1. EvidenceInv => TypeOK
  BY DEF EvidenceInv
<1> QED
  BY <1>1, EvidenceInit, EvidenceStep, PTL DEF Spec

\* What is recorded about a source is backed by committed rows, whatever fails
\* between download, storing and recording (history_bootstrap.py:237-247).
THEOREM EvidenceCorrect == Spec => []EvidenceBacked
<1>1. EvidenceInv => EvidenceBacked
  BY DEF EvidenceInv
<1> QED
  BY <1>1, EvidenceInit, EvidenceStep, PTL DEF Spec

-----------------------------------------------------------------------------
(* The ledger: every step of the job and of its environment is one of the   *)
(* ledger's, or leaves it alone.                                            *)

\* Steps that add rows for one fund.
LEMMA GrowStep ==
  ASSUME TypeOK, NEW f \in Funds, NEW D,
         stored' = [stored EXCEPT ![f] = @ \union D],
         UNCHANGED <<sourceCount, checkedAge>>
  PROVE  Ledger!Next
<1>1. stored[f] \subseteq stored'[f] /\ stored' = [stored EXCEPT ![f] = stored'[f]]
  BY DEF TypeOK
<1>2. Ledger!Grow(f)
  BY <1>1 DEF Ledger!Grow
<1> QED
  BY <1>2 DEF Ledger!Next

\* The record of an attempt: with an answer a count that is backed, without
\* one only the time.
LEMMA MarkStep ==
  ASSUME EvidenceInv, MarkChecked
  PROVE  Ledger!Next
<1>0. TypeOK /\ cur \in Funds
  BY DEF EvidenceInv, TypeOK, MarkChecked
<1>1. stored' = stored /\ checkedAge' = [checkedAge EXCEPT ![cur] = 0]
  BY DEF MarkChecked
<1>2. CASE result = None
  <2>1. sourceCount' = sourceCount
    BY <1>0, <1>2 DEF MarkChecked, TypeOK
  <2>2. Ledger!Attempt(cur)
    BY <1>1, <2>1 DEF Ledger!Attempt
  <2> QED
    BY <1>0, <2>2 DEF Ledger!Next
<1>3. CASE result # None
  <2>1. result \in 0..Cardinality(stored[cur])
    <3>1. result \in Nat /\ result <= HistoryCount(cur)
      BY <1>0, <1>3 DEF EvidenceInv, TypeOK, MarkChecked
    <3>2. HistoryCount(cur) \in Nat
      BY <1>0, CountIsNat
    <3> QED
      BY <3>1, <3>2 DEF HistoryCount
  <2>2. sourceCount' = [sourceCount EXCEPT ![cur] = result]
    BY <1>0, <1>3 DEF MarkChecked, TypeOK
  <2>3. Ledger!Attest(cur)
    BY <1>1, <2>1, <2>2 DEF Ledger!Attest, Ledger!Cardinality, Cardinality
  <2> QED
    BY <1>0, <2>3 DEF Ledger!Next
<1> QED
  BY <1>2, <1>3

\* A step of the backfill is a step of the ledger or a stutter.
LEMMA LedgerStep == EvidenceInv /\ [Next]_vars => [Ledger!Next]_(Ledger!ledger)
<1> SUFFICES ASSUME EvidenceInv, [Next]_vars PROVE [Ledger!Next]_(Ledger!ledger)
  OBVIOUS
<1>0. TypeOK
  BY DEF EvidenceInv
<1>1. CASE MarkChecked
  BY <1>1, MarkStep
<1>2. CASE StoreHistory
  <2>1. cur \in Funds
    BY <1>0, <1>2 DEF TypeOK, StoreHistory
  <2> QED
    BY <1>0, <1>2, <2>1, GrowStep DEF StoreHistory
<1>3. ASSUME NEW f \in Funds, LiveRow(f) PROVE [Ledger!Next]_(Ledger!ledger)
  <2>1. PICK d \in source[f] : stored' = [stored EXCEPT ![f] = @ \union {d}]
    BY <1>3 DEF LiveRow
  <2> QED
    BY <1>0, <1>3, <2>1, GrowStep DEF LiveRow
<1>4. CASE Tick
  <2>1. /\ checkedAge' = [f \in Funds |-> Older(checkedAge[f])]
        /\ UNCHANGED <<stored, sourceCount>>
    BY <1>4 DEF Tick
  <2>2. Ledger!Age
    BY <2>1 DEF Ledger!Age, Older
  <2> QED
    BY <2>2 DEF Ledger!Next
<1>5. CASE /\ ~MarkChecked /\ ~StoreHistory /\ ~Tick
           /\ \A f \in Funds : ~LiveRow(f)
  <2>1. UNCHANGED <<stored, sourceCount, checkedAge>>
    BY <1>5 DEF Next, JobStep, Fault, Environment, NothingDue, SelectBatch, EndBatch,
       StartFund, FetchAnswers, FetchFails, FillEtfHistory, StoreOrReloadFails,
       MarkFails, AbortBatch, NewDay, vars, table
  <2> QED
    BY <2>1 DEF Ledger!ledger
<1> QED
  BY <1>1, <1>2, <1>3, <1>4, <1>5

\* Whatever fails or restarts, for any funds, windows and batch size, the
\* backfill writes its columns as the ledger promises (docs/03:104-106).
THEOREM LedgerKept == Spec => KeepsTheLedger
<1>1. Init => Ledger!Init
  BY DEF Init, Ledger!Init
<1>2. Init => EvidenceInv
  BY EvidenceInit
<1>3. EvidenceInv /\ [Next]_vars => EvidenceInv'
  BY EvidenceStep
<1>4. EvidenceInv /\ [Next]_vars => [Ledger!Next]_(Ledger!ledger)
  BY LedgerStep
<1> QED
  BY <1>1, <1>2, <1>3, <1>4, PTL DEF Spec, KeepsTheLedger, Ledger!Spec

-----------------------------------------------------------------------------
(* The count on the dashboard.                                             *)

\* The check behind a fund's count expires in this step.
Expires(f) == ~Full(f) /\ checkedAge[f] = MaxAge /\ checkedAge'[f] = MaxAge + 1

\* The job attempts every fund that counts as complete before its check expires.
Served == \A f \in Funds : Complete(f) => Full(f) \/ checkedAge[f] < MaxAge

\* An answer that is recorded leaves the fund complete; without one, only the check
\* is new.
LEMMA MarkedStaysComplete ==
  ASSUME TypeOK, TypeOK', NEW f \in Funds, Complete(f), checkedAge'[f] = 0,
         stored'[f] = stored[f],
         sourceCount'[f] = sourceCount[f] \/ sourceCount'[f] \in 0 .. HistoryCount(f)
  PROVE  Complete(f)'
<1>1. HistoryCount(f)' = HistoryCount(f) /\ HistoryCount(f) \in Nat
  BY CountIsNat DEF HistoryCount
<1>2. sourceCount[f] \in Nat \union {None} /\ sourceCount'[f] \in Nat \union {None}
  BY DEF TypeOK
<1>3. checkedAge'[f] # None /\ checkedAge'[f] <= MaxAge
  BY Numbers
<1>4. CASE sourceCount'[f] = sourceCount[f]
  BY <1>1, <1>2, <1>3, <1>4 DEF Complete, Full, SourceLimited
<1>5. CASE sourceCount'[f] \in 0 .. HistoryCount(f)
  <2>1. sourceCount'[f] # None
    BY <1>5, Numbers
  <2>2. sourceCount'[f] <= HistoryCount(f)
    BY <1>1, <1>5
  <2> QED
    BY <1>1, <1>2, <1>3, <2>1, <2>2 DEF Complete, Full, SourceLimited
<1> QED
  BY <1>4, <1>5

\* A step of the ledger leaves a complete fund complete, unless its check expires.
LEMMA CompleteStep ==
  ASSUME TypeOK, TypeOK', [Ledger!Next]_(Ledger!ledger), NEW f \in Funds,
         Complete(f), ~Expires(f)
  PROVE  Complete(f)'
<1>1. CASE UNCHANGED Ledger!ledger
  BY <1>1 DEF Ledger!ledger, Complete, Full, SourceLimited, HistoryCount
<1>2. ASSUME NEW g \in Funds, Ledger!Grow(g) \/ Ledger!Attest(g) \/ Ledger!Attempt(g), g # f
      PROVE  Complete(f)'
  <2>1. stored'[f] = stored[f] /\ sourceCount'[f] = sourceCount[f] /\ checkedAge'[f] = checkedAge[f]
    BY <1>2 DEF Ledger!Grow, Ledger!Attest, Ledger!Attempt, TypeOK
  <2> QED
    BY <2>1 DEF Complete, Full, SourceLimited, HistoryCount
<1>3. CASE Ledger!Grow(f)
  <2>1. /\ stored[f] \subseteq stored'[f]
        /\ sourceCount' = sourceCount /\ checkedAge' = checkedAge
    BY <1>3 DEF Ledger!Grow
  <2>2. /\ HistoryCount(f) \in Nat /\ HistoryCount(f)' \in Nat
        /\ HistoryCount(f) <= HistoryCount(f)'
    <3>1. stored'[f] \in SUBSET Days
      BY DEF TypeOK
    <3> QED
      BY <2>1, <3>1, Sizes DEF HistoryCount
  <2>3. sourceCount[f] \in Nat \union {None}
    BY DEF TypeOK
  <2> QED
    BY <2>1, <2>2, <2>3, Numbers DEF Complete, Full, SourceLimited
<1>4. CASE Ledger!Attest(f)
  <2>1. /\ stored' = stored /\ checkedAge'[f] = 0
        /\ sourceCount'[f] \in 0 .. HistoryCount(f)
    BY <1>4 DEF Ledger!Attest, TypeOK, HistoryCount, Ledger!Cardinality, Cardinality
  <2> QED
    BY <2>1, MarkedStaysComplete
<1>5. CASE Ledger!Attempt(f)
  <2>1. stored' = stored /\ checkedAge'[f] = 0 /\ sourceCount' = sourceCount
    BY <1>5 DEF Ledger!Attempt, TypeOK
  <2> QED
    BY <2>1, MarkedStaysComplete
<1>6. CASE Ledger!Age
  <2>1. /\ stored' = stored /\ sourceCount' = sourceCount
        /\ checkedAge'[f] = Older(checkedAge[f])
    BY <1>6 DEF Ledger!Age, Older
  <2>2. HistoryCount(f)' = HistoryCount(f)
    BY <2>1 DEF HistoryCount
  <2>3. CASE Full(f)
    BY <2>2, <2>3 DEF Complete, Full
  <2>4. CASE ~Full(f)
    <3>1. checkedAge[f] # None /\ checkedAge[f] <= MaxAge /\ checkedAge[f] \in Ages
      BY <2>4 DEF Complete, SourceLimited, TypeOK
    <3>2. checkedAge'[f] = checkedAge[f] + 1
      BY <2>1, <3>1, Numbers DEF Older, AgeCap, Ages
    <3>3. checkedAge'[f] # None /\ checkedAge'[f] <= MaxAge
      BY <2>4, <3>1, <3>2, Numbers DEF Expires, Ages, AgeCap
    <3> QED
      BY <2>1, <2>2, <2>4, <3>3 DEF Complete, Full, SourceLimited
  <2> QED
    BY <2>3, <2>4
<1> QED
  BY <1>1, <1>2, <1>3, <1>4, <1>5, <1>6 DEF Ledger!Next

\* Nothing but the age of its check takes a fund out of the count: no failed attempt,
\* no new record at the source, no crash, no answer that is larger than the last one
\* (history_bootstrap.py:86-113, web.py:642-656).
THEOREM OnlyTimeUncompletes ==
  Spec => [][\A f \in Funds : Complete(f) => Complete(f)' \/ Expires(f)]_vars
<1>1. EvidenceInv /\ EvidenceInv' /\ [Next]_vars
        => [\A f \in Funds : Complete(f) => Complete(f)' \/ Expires(f)]_vars
  BY LedgerStep, CompleteStep DEF EvidenceInv
<1> QED
  BY <1>1, EvidenceInit, EvidenceStep, PTL DEF Spec

\* So the number on the dashboard does not jump back as long as the job attempts
\* every fund that counts before its check is 24 hours old (history_bootstrap.py:38-41).
THEOREM CompleteWhileServed == Spec /\ []Served => CompleteStays
<1>1. /\ Served
      /\ [\A f \in Funds : Complete(f) => Complete(f)' \/ Expires(f)]_vars
      => [\A f \in Funds : Complete(f) => Complete(f)']_vars
  BY Numbers DEF Served, Expires
<1> QED
  BY <1>1, OnlyTimeUncompletes, PTL DEF CompleteStays

-----------------------------------------------------------------------------
(* Downloads keep their distance. *)

\* The windows alone, of the filter of _funds_needing_backfill.
Expired(f) ==
  \/ checkedAge[f] = None
  \/ checkedAge[f] > Retry
  \/ sourceCount[f] = None /\ checkedAge[f] > FailedRetry

\* A recorded attempt is at least as recent as the download it belongs to; the
\* windows of the funds that wait in the batch stay expired, because only the
\* fund in work is recorded.
SpacingInv ==
  /\ fetchAge \in [Funds -> Ages \union {None}]
  /\ unmarked \subseteq Funds
  /\ \A f \in Funds \ unmarked : fetchAge[f] # None =>
       checkedAge[f] # None /\ checkedAge[f] <= fetchAge[f]
  /\ \A f \in DOMAIN todo : Expired(f)
  /\ pc \in {"fetch", "store", "etf", "mark"} => cur \notin DOMAIN todo

AgesAreNumbers == \A a \in Ages : a \in Nat

\* Ages are numbers, the cap included.
LEMMA AgesNat == AgesAreNumbers /\ 0 \in Ages /\ MaxAge + 1 \in Ages
BY Numbers DEF AgesAreNumbers, Ages, AgeCap

\* A step that does not take time is not a tick.
LEMMA ObserveNoTick ==
  ASSUME TypeOK, elapsed' \in {0, elapsed}, Observe
  PROVE  /\ fetchAge' = [f \in Funds |-> IF Starts(f) THEN 0 ELSE fetchAge[f]]
         /\ unmarked' = {f \in Funds : \/ Starts(f)
                                       \/ f \in unmarked /\ ~(MarkChecked /\ cur = f)}
<1>1. elapsed \in Nat
  BY Numbers DEF TypeOK
<1>2. ~Tick
  BY <1>1 DEF Tick
<1> QED
  BY <1>2 DEF Observe

\* A fund begins to be downloaded only from the batch.
LEMMA OnlyStartStarts ==
  ASSUME Next, NEW f \in Funds, Starts(f)
  PROVE  StartFund(f)
BY DEF Next, JobStep, Fault, Environment, Starts, NothingDue, SelectBatch, EndBatch,
   StartFund, FetchAnswers, FetchFails, StoreHistory, FillEtfHistory, MarkChecked,
   EndFund, StoreOrReloadFails, MarkFails, AbortBatch, LiveRow, NewDay, Tick, job

\* Time moves every age by at most one and keeps their order.
LEMMA OlderKeepsOrder ==
  ASSUME NEW a \in Ages, NEW b \in Ages, a <= b
  PROVE  Older(a) <= Older(b)
BY Numbers DEF Older, Ages, AgeCap

\* Time: a window that has passed stays passed.
LEMMA SpacingTick ==
  ASSUME TypeOK, SpacingInv, Tick, Observe
  PROVE  SpacingInv'
<1>1. /\ checkedAge' = [f \in Funds |-> Older(checkedAge[f])]
      /\ fetchAge' = [f \in Funds |-> Older(fetchAge[f])]
      /\ UNCHANGED <<unmarked, todo, sourceCount, pc, cur>>
  BY DEF Tick, Observe, job
<1>2. fetchAge' \in [Funds -> Ages \union {None}]
  BY <1>1, OlderAge DEF SpacingInv
<1>3. ASSUME NEW f \in Funds \ unmarked, fetchAge'[f] # None
      PROVE  checkedAge'[f] # None /\ checkedAge'[f] <= fetchAge'[f]
  <2>1. fetchAge[f] # None /\ fetchAge[f] \in Ages
    BY <1>1, <1>3, OlderAge DEF SpacingInv
  <2>2. checkedAge[f] # None /\ checkedAge[f] \in Ages /\ checkedAge[f] <= fetchAge[f]
    BY <2>1 DEF SpacingInv, TypeOK
  <2> QED
    BY <1>1, <2>1, <2>2, OlderAge, OlderKeepsOrder
<1>4. ASSUME NEW f \in DOMAIN todo PROVE Expired(f)'
  <2>1. Expired(f) /\ f \in Funds /\ checkedAge[f] \in Ages \union {None}
    BY DEF SpacingInv, TypeOK
  <2>2. checkedAge'[f] = Older(checkedAge[f]) /\ sourceCount'[f] = sourceCount[f]
    BY <1>1, <2>1
  <2>3. CASE checkedAge[f] = None
    BY <2>2, <2>3 DEF Older, Expired
  <2>4. CASE checkedAge[f] # None
    <3>1. checkedAge[f] \in Nat /\ Older(checkedAge[f]) \in Nat
          /\ Older(checkedAge[f]) >= checkedAge[f]
      BY <2>1, <2>4, OlderAge, AgesNat, Numbers DEF AgesAreNumbers
    <3> QED
      BY <2>1, <2>2, <2>4, <3>1, Numbers DEF Expired
  <2> QED
    BY <2>3, <2>4
<1> QED
  BY <1>1, <1>2, <1>3, <1>4 DEF SpacingInv

\* Recording: the attempt is as recent as the download it records.
LEMMA SpacingMark ==
  ASSUME TypeOK, SpacingInv, MarkChecked, Observe
  PROVE  SpacingInv'
<1>1. /\ cur \in Funds /\ cur \notin DOMAIN todo /\ pc = "mark" /\ pc' = "batch"
      /\ checkedAge' = [checkedAge EXCEPT ![cur] = 0]
      /\ \A f \in Funds : f # cur => sourceCount'[f] = sourceCount[f]
      /\ elapsed' = elapsed /\ todo' = todo
  BY DEF MarkChecked, EndFund, TypeOK, SpacingInv
<1>2. fetchAge' = fetchAge /\ unmarked' = unmarked \ {cur}
  BY <1>1, ObserveNoTick DEF Starts, SpacingInv
<1>3. ASSUME NEW f \in Funds \ unmarked', fetchAge'[f] # None
      PROVE  checkedAge'[f] # None /\ checkedAge'[f] <= fetchAge'[f]
  <2>1. CASE f = cur
    <3>1. checkedAge'[f] = 0 /\ fetchAge'[f] \in Nat
      BY <1>1, <1>2, <1>3, <2>1, AgesNat DEF SpacingInv, AgesAreNumbers, TypeOK
    <3> QED
      BY <3>1, Numbers
  <2>2. CASE f # cur
    BY <1>1, <1>2, <1>3, <2>2 DEF SpacingInv, TypeOK
  <2> QED
    BY <2>1, <2>2
<1>4. ASSUME NEW f \in DOMAIN todo PROVE Expired(f)'
  BY <1>1 DEF Expired, SpacingInv, TypeOK
<1> QED
  BY <1>1, <1>2, <1>3, <1>4 DEF SpacingInv

\* A download starts for a fund of the batch, whose window has passed.
LEMMA SpacingStart ==
  ASSUME TypeOK, SpacingInv, NEW f \in Funds, StartFund(f), Observe
  PROVE  SpacingInv'
<1>1. /\ pc = "batch" /\ pc' = "fetch" /\ cur' = f /\ elapsed' = elapsed
      /\ checkedAge' = checkedAge /\ sourceCount' = sourceCount
      /\ todo' = [g \in DOMAIN todo \ {f} |-> todo[g]]
  BY DEF StartFund, table
<1>2. /\ fetchAge' = [g \in Funds |-> IF g = f THEN 0 ELSE fetchAge[g]]
      /\ unmarked' = unmarked \union {f}
  BY <1>1, ObserveNoTick DEF Starts, MarkChecked, SpacingInv
<1>3. fetchAge' \in [Funds -> Ages \union {None}]
  BY <1>2, AgesNat DEF SpacingInv
<1> QED
  BY <1>1, <1>2, <1>3 DEF SpacingInv, Expired

\* The batch holds only funds whose window has passed.
LEMMA SpacingSelect ==
  ASSUME TypeOK, SpacingInv, SelectBatch, Observe
  PROVE  SpacingInv'
<1>1. PICK S \in Batches : todo' = [f \in S |-> HistoryCount(f)]
  BY DEF SelectBatch
<1>2. \A f \in S : Due(f)
  BY DEF Batches
<1>3. /\ pc = "idle" /\ pc' = "batch" /\ elapsed' = 0
      /\ checkedAge' = checkedAge /\ sourceCount' = sourceCount
  BY DEF SelectBatch, table
<1>4. fetchAge' = fetchAge /\ unmarked' = unmarked
  BY <1>3, ObserveNoTick DEF Starts, MarkChecked, SpacingInv
<1> QED
  BY <1>1, <1>2, <1>3, <1>4 DEF SpacingInv, Expired, Due

\* Everything else starts nothing and records nothing.
LEMMA SpacingOther ==
  ASSUME TypeOK, SpacingInv, Observe, elapsed' \in {0, elapsed}, ~MarkChecked,
         \A f \in Funds : ~Starts(f),
         checkedAge' = checkedAge, sourceCount' = sourceCount,
         todo' = todo \/ DOMAIN todo' = {},
         pc' \in {"fetch", "store", "etf", "mark"} =>
           cur' = cur /\ pc \in {"fetch", "store", "etf", "mark"}
  PROVE  SpacingInv'
<1>1. fetchAge' = fetchAge /\ unmarked' = unmarked
  BY ObserveNoTick DEF SpacingInv
<1>2. CASE todo' = todo
  BY <1>1, <1>2 DEF SpacingInv, Expired
<1>3. CASE DOMAIN todo' = {}
  BY <1>1, <1>3 DEF SpacingInv, Expired
<1> QED
  BY <1>2, <1>3

\* Every step keeps the attempts in step with the downloads.
LEMMA SpacingStep ==
  TypeOK /\ SpacingInv /\ [AuditNext]_<<vars, audit>> => SpacingInv'
<1> SUFFICES ASSUME TypeOK, SpacingInv, [AuditNext]_<<vars, audit>> PROVE SpacingInv'
  OBVIOUS
<1>1. CASE UNCHANGED <<vars, audit>>
  BY <1>1 DEF vars, table, job, audit, SpacingInv, Expired
<1>2. CASE AuditNext
  <2>1. Next /\ Observe
    BY <1>2 DEF AuditNext
  <2>2. CASE Tick
    BY <2>1, <2>2, SpacingTick
  <2>3. CASE MarkChecked
    BY <2>1, <2>3, SpacingMark
  <2>4. CASE \E f \in Funds : StartFund(f)
    BY <2>1, <2>4, SpacingStart
  <2>5. CASE SelectBatch
    BY <2>1, <2>5, SpacingSelect
  <2>6. CASE ~Tick /\ ~MarkChecked /\ ~SelectBatch /\ \A f \in Funds : ~StartFund(f)
    <3>1. \A f \in Funds : ~Starts(f)
      BY <2>1, <2>6, OnlyStartStarts
    <3>2. /\ elapsed' \in {0, elapsed}
          /\ checkedAge' = checkedAge /\ sourceCount' = sourceCount
          /\ todo' = todo \/ DOMAIN todo' = {}
          /\ pc' \in {"fetch", "store", "etf", "mark"} =>
               cur' = cur /\ pc \in {"fetch", "store", "etf", "mark"}
      BY <2>1, <2>6 DEF Next, JobStep, Fault, Environment, NothingDue, EndBatch,
         FetchAnswers, FetchFails, StoreHistory, FillEtfHistory, EndFund,
         StoreOrReloadFails, MarkFails, AbortBatch, LiveRow, NewDay, table, job
    <3> QED
      BY <2>1, <2>6, <3>1, <3>2, SpacingOther
  <2> QED
    BY <2>2, <2>3, <2>4, <2>5, <2>6
<1> QED
  BY <1>1, <1>2

\* Nothing was downloaded before the start.
LEMMA SpacingInit == AuditInit => SpacingInv
BY DEF AuditInit, Init, SpacingInv

\* No fund is downloaded again before its window has passed, unless its last
\* attempt left no record (history_bootstrap.py:29-34, 55-79).
THEOREM DownloadsKeepDistance == AuditSpec => RetrySpacing
<1> DEFINE Step == \A f \in Funds : Starts(f) =>
             \/ fetchAge[f] = None
             \/ f \in unmarked
             \/ fetchAge[f] > (IF sourceCount[f] = None THEN FailedRetry ELSE Retry)
<1>1. EvidenceInv /\ SpacingInv /\ [AuditNext]_<<vars, audit>> => [Step]_<<vars, audit>>
  <2> SUFFICES ASSUME EvidenceInv, SpacingInv, AuditNext, NEW f \in Funds, Starts(f),
                      fetchAge[f] # None, f \notin unmarked
               PROVE  fetchAge[f] > (IF sourceCount[f] = None THEN FailedRetry ELSE Retry)
    BY DEF Step
  <2>1. StartFund(f)
    BY OnlyStartStarts DEF AuditNext
  <2>2. Expired(f)
    BY <2>1 DEF StartFund, SpacingInv
  <2>3. /\ checkedAge[f] # None /\ checkedAge[f] <= fetchAge[f]
        /\ checkedAge[f] \in Nat /\ fetchAge[f] \in Nat
    BY AgesNat DEF SpacingInv, EvidenceInv, TypeOK, AgesAreNumbers
  <2> QED
    BY <2>2, <2>3, Numbers DEF Expired
<1>2. AuditInit => EvidenceInv /\ SpacingInv
  BY EvidenceInit, SpacingInit DEF AuditInit
<1>3. EvidenceInv /\ SpacingInv /\ [AuditNext]_<<vars, audit>> => (EvidenceInv /\ SpacingInv)'
  <2>1. [AuditNext]_<<vars, audit>> => [Next]_vars
    BY DEF AuditNext
  <2>2. EvidenceInv => TypeOK
    BY DEF EvidenceInv
  <2> QED
    BY <2>1, <2>2, EvidenceStep, SpacingStep
<1> HIDE DEF Step
<1>4. AuditSpec => [][Step]_<<vars, audit>>
  BY <1>1, <1>2, <1>3, PTL DEF AuditSpec
<1> QED
  BY <1>4 DEF RetrySpacing, Step

-----------------------------------------------------------------------------
(* The progress endpoint, whose three questions see three databases.       *)

\* Rows are only ever added: a fund that reached the target stays there.
LEMMA FullStays ==
  ASSUME TypeOK, TypeOK', [Next]_vars, NEW f \in Funds, Full(f)
  PROVE  Full(f)'
<1>1. stored[f] \subseteq stored'[f]
  <2>1. CASE StoreHistory
    BY <2>1 DEF StoreHistory, TypeOK
  <2>2. CASE \E g \in Funds : LiveRow(g)
    BY <2>2 DEF LiveRow, TypeOK
  <2>3. CASE ~StoreHistory /\ \A g \in Funds : ~LiveRow(g)
    BY <2>3 DEF Next, JobStep, Fault, Environment, NothingDue, SelectBatch, EndBatch,
       StartFund, FetchAnswers, FetchFails, FillEtfHistory, MarkChecked,
       StoreOrReloadFails, MarkFails, AbortBatch, NewDay, Tick, vars, table
  <2> QED
    BY <2>1, <2>2, <2>3
<1>2. stored'[f] \in SUBSET Days /\ stored[f] \in SUBSET stored'[f]
  BY <1>1 DEF TypeOK
<1>3. /\ HistoryCount(f) \in Nat /\ HistoryCount(f)' \in Nat
      /\ HistoryCount(f) <= HistoryCount(f)'
  BY <1>2, Sizes DEF HistoryCount
<1> QED
  BY <1>3, Numbers DEF Full

\* What the first answer counts stays at the target, so the second, which asks
\* for funds short of it, counts none of them; and what was complete all along
\* is in one of the two, or reached the target after the first was asked.
RequestInv ==
  /\ active \subseteq Funds /\ steady \subseteq active
  /\ full \subseteq Funds
  /\ \A f \in full : Full(f)
  /\ \A f \in steady : Complete(f)
  /\ rpc # "done" => limited = {}
  /\ NoDoubleCount
  /\ MissedIsFull

\* No request is open at the start.
LEMMA RequestInit == ReportInit => RequestInv
BY DEF ReportInit, RequestInv, NoDoubleCount, MissedIsFull

\* The database changes under an open request.
LEMMA RequestBackfill ==
  ASSUME TypeOK, TypeOK', RequestInv, BackfillStep
  PROVE  RequestInv'
<1>1. [Next]_vars /\ UNCHANGED <<active, request>> /\ steady' = {f \in steady : Complete(f)'}
  BY DEF BackfillStep, AuditNext
<1>2. \A f \in Funds : Full(f) => Full(f)'
  BY <1>1, FullStays
<1>3. steady' \subseteq steady /\ \A f \in steady' : Complete(f)'
  BY <1>1
<1>4. UNCHANGED <<active, rpc, full, limited>>
  BY <1>1 DEF request
<1>5. \A f \in full' : Full(f)'
  BY <1>2, <1>4 DEF RequestInv
<1>6. MissedIsFull'
  BY <1>2, <1>3, <1>4 DEF RequestInv, MissedIsFull
<1> QED
  BY <1>3, <1>4, <1>5, <1>6 DEF RequestInv, NoDoubleCount

\* Every step of the request, of the fund sync and of the job.
LEMMA RequestStep ==
  ASSUME TypeOK, TypeOK', RequestInv,
         [ReportNext]_<<vars, audit, active, request, steady>>
  PROVE  RequestInv'
<1>1. CASE AskTotal
  <2>1. UNCHANGED <<stored, sourceCount, checkedAge>>
    BY <1>1 DEF AskTotal, vars, table
  <2> QED
    BY <1>1, <2>1 DEF AskTotal, RequestInv, NoDoubleCount, MissedIsFull, Complete, Full,
       SourceLimited, HistoryCount
<1>2. CASE AskFull
  <2>1. UNCHANGED <<stored, sourceCount, checkedAge>>
    BY <1>2 DEF AskFull, vars, table
  <2> QED
    BY <1>2, <2>1 DEF AskFull, RequestInv, NoDoubleCount, MissedIsFull, Complete, Full,
       SourceLimited, HistoryCount
<1>3. CASE AskLimited
  <2>1. UNCHANGED <<stored, sourceCount, checkedAge>>
    BY <1>3 DEF AskLimited, vars, table
  <2>2. /\ limited' = {f \in active : SourceLimited(f)}
        /\ UNCHANGED <<active, full, steady>> /\ rpc' = "done"
    BY <1>3 DEF AskLimited
  <2>3. /\ \A f \in Funds : Full(f)' = Full(f)
        /\ \A f \in Funds : Complete(f)' = Complete(f)
    BY <2>1 DEF Complete, Full, SourceLimited, HistoryCount
  <2>4. NoDoubleCount'
    BY <2>2 DEF RequestInv, NoDoubleCount, SourceLimited
  <2>5. MissedIsFull'
    BY <2>2, <2>3 DEF RequestInv, MissedIsFull, Complete
  <2> QED
    BY <2>2, <2>3, <2>4, <2>5 DEF RequestInv
<1>4. CASE Answer
  BY <1>4 DEF Answer, RequestInv, NoDoubleCount, MissedIsFull
<1>5. ASSUME NEW f \in Funds, SyncNetAsset(f) PROVE RequestInv'
  <2>1. UNCHANGED <<stored, sourceCount, checkedAge, rpc, full, limited>>
    BY <1>5 DEF SyncNetAsset, vars, table, request
  <2>2. active' \subseteq Funds /\ steady' \subseteq active' /\ steady' \subseteq steady
    BY <1>5 DEF SyncNetAsset, RequestInv
  <2> QED
    BY <2>1, <2>2 DEF RequestInv, NoDoubleCount, MissedIsFull, Complete, Full,
       SourceLimited, HistoryCount
<1>6. CASE BackfillStep
  BY <1>6, RequestBackfill
<1>7. CASE UNCHANGED <<vars, audit, active, request, steady>>
  BY <1>7 DEF vars, table, request, RequestInv, NoDoubleCount, MissedIsFull, Complete, Full,
     SourceLimited, HistoryCount
<1> QED
  BY <1>1, <1>2, <1>3, <1>4, <1>5, <1>6, <1>7 DEF ReportNext

\* A request leaves the job alone, so what holds of the job holds beside it.
LEMMA RequestInductive ==
  /\ ReportInit => EvidenceInv /\ RequestInv
  /\ EvidenceInv /\ RequestInv /\ [ReportNext]_<<vars, audit, active, request, steady>>
       => (EvidenceInv /\ RequestInv)'
<1>1. ReportInit => EvidenceInv /\ RequestInv
  BY EvidenceInit, RequestInit DEF ReportInit, AuditInit
<1>2. [ReportNext]_<<vars, audit, active, request, steady>> => [Next]_vars
  BY DEF ReportNext, AskTotal, AskFull, AskLimited, Answer, SyncNetAsset, BackfillStep,
     AuditNext
<1>3. EvidenceInv => TypeOK
  BY DEF EvidenceInv
<1>4. EvidenceInv' => TypeOK'
  BY DEF EvidenceInv
<1> QED
  BY <1>1, <1>2, <1>3, <1>4, EvidenceStep, RequestStep

\* The answer counts no fund twice, whatever the job and the fund sync write
\* between the statements of the request (web.py:627-663).
THEOREM CountedOnce == ReportSpec => []NoDoubleCount
<1>1. EvidenceInv /\ RequestInv => NoDoubleCount
  BY DEF RequestInv
<1> QED
  BY <1>1, RequestInductive, PTL DEF ReportSpec

\* A fund complete all the while is missing from the answer only because it
\* reached the target between the statements (web.py:627-663).
THEOREM MissedOnlyWhenFull == ReportSpec => []MissedIsFull
<1>1. EvidenceInv /\ RequestInv => MissedIsFull
  BY DEF RequestInv
<1> QED
  BY <1>1, RequestInductive, PTL DEF ReportSpec
=============================================================================
