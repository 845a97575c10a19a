--------------------------- MODULE FundSync_proofs ---------------------------
(***************************************************************************)
(* Proofs about FundSync: what is stored passed validation, the counts add *)
(* up, the status speaks of committed data, and every large move of a NAV  *)
(* is audited; for any responses, categories, start times and faults.      *)
(***************************************************************************)
EXTENDS FundSync, TLAPS

\* A row that may be stored.
RowOK(row) ==
  row.nav \in Nat /\ row.agrees \in BOOLEAN /\ (row.nav # 0 => row.agrees)

RowsOK(table) == \A x \in DOMAIN table : RowOK(table[x])

\* Rows stored and rows written in the open transaction.
RowsInv ==
  /\ RowsOK(funds) /\ RowsOK(hist) /\ RowsOK(txFunds) /\ RowsOK(txHist)
  /\ items \in Seq(Items)
  /\ pc = "item" => items # <<>>

\* Upsert keeps rows sound.
LEMMA UpsertRows ==
  ASSUME NEW f, NEW g, RowsOK(f), RowsOK(g)
  PROVE  RowsOK(Upsert(g, f))
BY DEF RowsOK, Upsert

\* The row of a usable record without a cross-field error is sound.
LEMMA StoredRow ==
  ASSUME NEW item \in Items, ~CrossFieldError(item)
  PROVE  RowOK(Row(item))
BY FundSyncAssumption DEF CrossFieldError, Row, RowOK, CleanNav

\* The first record of a list, and the rest.
LEMMA HeadTail ==
  ASSUME NEW s \in Seq(Items), s # <<>>
  PROVE  /\ Head(s) \in Items /\ Tail(s) \in Seq(Items)
         /\ Len(s) \in Nat /\ Len(Tail(s)) = Len(s) - 1
OBVIOUS

\* Ending the transaction leaves the committed rows as they are.
LEMMA CloseRows == ASSUME RowsInv, Close, UNCHANGED tables PROVE RowsInv'
<1>1. RowsOK(NoRows)
  BY DEF RowsOK, NoRows
<1>2. <<>> \in Seq(Items)
  OBVIOUS
<1> QED
  BY <1>1, <1>2 DEF RowsInv, Close, tables

\* The registry a cycle starts from is sound.
LEMMA RowsInit == Init => RowsInv
<1>1. RowsOK(NoRows)
  BY DEF RowsOK, NoRows
<1>2. <<>> \in Seq(Items)
  OBVIOUS
<1> QED
  BY <1>1, <1>2 DEF Init, RowsInv

\* Every step keeps the rows sound: only StoreItem writes one.
LEMMA RowsStep == RowsInv /\ [Next]_vars => RowsInv'
<1> SUFFICES ASSUME RowsInv, [Next]_vars PROVE RowsInv'
  OBVIOUS
<1>1. CASE StartCycle
  BY <1>1 DEF StartCycle, RowsInv, tables
<1>2. CASE FetchCategory
  BY <1>2, FundSyncAssumption DEF FetchCategory, RowsInv, tables
<1>3. CASE SkipItem
  BY <1>3, HeadTail DEF SkipItem, NextItem, RowsInv, tables
<1>4. CASE QuarantineItem
  BY <1>4, HeadTail DEF QuarantineItem, NextItem, RowsInv, tables
<1>5. CASE StoreItem
  <2> DEFINE item == Head(items)
  <2>1. item \in Items /\ Tail(items) \in Seq(Items) /\ ~CrossFieldError(item)
    BY <1>5, HeadTail DEF StoreItem, RowsInv
  <2>2. RowsOK(funds') /\ RowsOK(hist') /\ items' \in Seq(Items)
        /\ (pc' = "item" => items' # <<>>)
    BY <1>5, <2>1 DEF StoreItem, NextItem, RowsInv, tables
  <2>3. RowOK(Row(item))
    BY <2>1, StoredRow
  <2>4. RowsOK([r \in {item.reg} |-> Row(item)])
    BY <2>3 DEF RowsOK
  <2>5. RowsOK([k \in {<<item.reg, ObservedAt(item)>>} |-> Row(item)])
    BY <2>3 DEF RowsOK
  <2>6. CASE item.fits /\ ~poisoned
    <3>1. /\ txFunds' = Upsert(txFunds, [r \in {item.reg} |-> Row(item)])
          /\ txHist' = Upsert(txHist,
               [k \in {<<item.reg, ObservedAt(item)>>} |-> Row(item)])
      BY <1>5, <2>6 DEF StoreItem
    <3>2. RowsOK(txFunds')
      BY <3>1, <2>4, UpsertRows DEF RowsInv
    <3>3. RowsOK(txHist')
      BY <3>1, <2>5, UpsertRows DEF RowsInv
    <3> QED
      BY <2>2, <3>2, <3>3 DEF RowsInv
  <2>7. CASE ~(item.fits /\ ~poisoned)
    BY <1>5, <2>2, <2>7 DEF StoreItem, RowsInv
  <2> QED
    BY <2>6, <2>7
<1>6. CASE CommitData
  <2>1. RowsOK(funds') /\ RowsOK(hist')
    BY <1>6, UpsertRows DEF CommitData, RowsInv
  <2> QED
    BY <1>6, <2>1 DEF CommitData, RowsInv
<1>7. CASE DataRefused
  BY <1>7, CloseRows DEF DataRefused
<1>8. CASE CommitStatus
  BY <1>8 DEF CommitStatus, RowsInv
<1>9. CASE Invalidate
  BY <1>9, CloseRows DEF Invalidate
<1>10. CASE Fault
  BY <1>10, CloseRows DEF Fault
<1>11. CASE UNCHANGED vars
  BY <1>11 DEF vars, tables, locals, RowsInv
<1> QED
  BY <1>1, <1>2, <1>3, <1>4, <1>5, <1>6, <1>7, <1>8, <1>9, <1>10, <1>11
     DEF Next, CycleStep

\* No record that contradicts itself is stored by a cycle (fund_sync.py:95-106).
THEOREM QuarantineTheorem == Spec => []QuarantineHolds
<1>1. RowsInv => QuarantineHolds
  BY DEF RowsInv, RowsOK, RowOK, QuarantineHolds
<1> QED
  BY <1>1, RowsInit, RowsStep, PTL DEF Spec
-----------------------------------------------------------------------------
(* Counts and status. *)

\* What is received or still in the list was expected, what was received is
\* valid or failed.
CountInv ==
  /\ count \in [expected : Nat, received : Nat, valid : Nat, failed : Nat]
  /\ count.expected = count.received + Len(items)
  /\ count.valid + count.failed = count.received
  /\ pc # "item" => items = <<>>
  /\ EveryRecordCounted

\* The data of a cycle is committed when its status is written.
StatusInv ==
  /\ pc \in {"status", "cache"} => startedAt \in dataStamps
  /\ StatusNotAheadOfData

Counts == [expected : Nat, received : Nat, valid : Nat, failed : Nat]

\* One more record received, valid or failed.
LEMMA OneMore ==
  ASSUME NEW c \in Counts, NEW v \in Nat, NEW f \in Nat, NEW d,
         d = [c EXCEPT !.received = @ + 1, !.valid = @ + v, !.failed = @ + f]
  PROVE  /\ d \in Counts
         /\ d.received = c.received + 1 /\ d.expected = c.expected
         /\ d.valid = c.valid + v /\ d.failed = c.failed + f
<1> DEFINE c1 == [c EXCEPT !.received = c.received + 1]
           c2 == [c1 EXCEPT !.valid = c.valid + v]
           c3 == [c2 EXCEPT !.failed = c.failed + f]
<1>1. c1 \in Counts /\ c1.valid = c.valid /\ c1.failed = c.failed
      /\ c1.expected = c.expected /\ c1.received = c.received + 1
  BY DEF Counts
<1> HIDE DEF c1
<1>2. c2 \in Counts /\ c2.valid = c.valid + v /\ c2.failed = c.failed
      /\ c2.expected = c.expected /\ c2.received = c.received + 1
  BY <1>1 DEF Counts
<1> HIDE DEF c2
<1>3. c3 \in Counts /\ c3.valid = c.valid + v /\ c3.failed = c.failed + f
      /\ c3.expected = c.expected /\ c3.received = c.received + 1
  BY <1>2 DEF Counts
<1>4. d = c3
  BY <1>1, <1>2 DEF c1, c2
<1> QED
  BY <1>3, <1>4

\* Counting one record.
LEMMA ReceivedOne ==
  ASSUME NEW v \in {0, 1}, NEW f \in {0, 1}, v + f = 1,
         CountInv, RowsInv, pc = "item", count' = Received(v, f), NextItem
  PROVE  CountInv'
<1>1. items \in Seq(Items) /\ items # <<>>
  BY DEF RowsInv
<1>2. Len(items) \in Nat /\ Len(items') = Len(items) - 1
  BY <1>1, HeadTail DEF NextItem
<1>3. count \in [expected : Nat, received : Nat, valid : Nat, failed : Nat]
      /\ v \in Nat /\ f \in Nat
  BY DEF CountInv
<1>7. /\ count' \in [expected : Nat, received : Nat, valid : Nat, failed : Nat]
      /\ count'.received = count.received + 1 /\ count'.expected = count.expected
      /\ count'.valid = count.valid + v /\ count'.failed = count.failed + f
  BY <1>3, OneMore DEF Received, Counts
<1>8. count'.expected = count'.received + Len(items')
  BY <1>2, <1>3, <1>7 DEF CountInv
<1>9. count'.valid + count'.failed = count'.received
  <2>1. count.valid \in Nat /\ count.failed \in Nat /\ count.received \in Nat
        /\ count.valid + count.failed = count.received
    BY DEF CountInv
  <2> QED
    BY <1>3, <1>7, <2>1
<1>5. pc' # "item" => items' = <<>>
  BY DEF NextItem
<1>6. EveryRecordCounted'
  BY DEF NextItem, tables, CountInv, EveryRecordCounted
<1> QED
  BY <1>5, <1>6, <1>7, <1>8, <1>9 DEF CountInv

\* Ending the transaction clears the counters.
LEMMA CountClose ==
  ASSUME CountInv, Close, UNCHANGED tables
  PROVE  CountInv'
BY DEF CountInv, Close, NoCount, tables, EveryRecordCounted

\* Nothing is counted before the first cycle.
LEMMA CountInit == Init => CountInv
BY DEF Init, CountInv, NoCount, EveryRecordCounted

\* Every step of the cycle keeps the counters in balance.
LEMMA CountStep == RowsInv /\ CountInv /\ [Next]_vars => CountInv'
<1> SUFFICES ASSUME RowsInv, CountInv, [Next]_vars PROVE CountInv'
  OBVIOUS
<1>1. CASE StartCycle
  BY <1>1 DEF StartCycle, CountInv, EveryRecordCounted, tables
<1>2. CASE FetchCategory
  <2>1. PICK response \in Responses :
          /\ items' = response
          /\ count' = [count EXCEPT !.expected = @ + Len(response)]
          /\ pc' = IF response = <<>> THEN "fetch" ELSE "item"
    BY <1>2 DEF FetchCategory
  <2>2. Len(response) \in Nat /\ Len(items) = 0
    BY <1>2, FundSyncAssumption DEF FetchCategory, CountInv
  <2>3. count' \in [expected : Nat, received : Nat, valid : Nat, failed : Nat]
        /\ count'.expected = count'.received + Len(items')
        /\ count'.valid + count'.failed = count'.received
    BY <2>1, <2>2 DEF CountInv
  <2>4. EveryRecordCounted'
    BY <1>2 DEF FetchCategory, tables, CountInv, EveryRecordCounted
  <2> QED
    BY <2>1, <2>3, <2>4 DEF CountInv
<1>3. CASE SkipItem
  BY <1>3, ReceivedOne DEF SkipItem
<1>4. CASE QuarantineItem
  BY <1>4, ReceivedOne DEF QuarantineItem
<1>5. CASE StoreItem
  <2>1. count' = Received(1, 0) \/ count' = Received(0, 1)
    BY <1>5 DEF StoreItem
  <2> QED
    BY <1>5, <2>1, ReceivedOne DEF StoreItem
<1>6. CASE CommitData
  BY <1>6 DEF CommitData, CountInv, EveryRecordCounted
<1>7. CASE DataRefused
  BY <1>7, CountClose DEF DataRefused
<1>8. CASE CommitStatus
  <2>1. Len(items) = 0 /\ count.expected = count.received
    BY <1>8 DEF CommitStatus, CountInv
  <2> QED
    BY <1>8, <2>1 DEF CommitStatus, CountInv, EveryRecordCounted
<1>9. CASE Invalidate
  BY <1>9, CountClose DEF Invalidate
<1>10. CASE Fault
  BY <1>10, CountClose DEF Fault
<1>11. CASE UNCHANGED vars
  BY <1>11 DEF vars, tables, locals, CountInv, EveryRecordCounted
<1> QED
  BY <1>1, <1>2, <1>3, <1>4, <1>5, <1>6, <1>7, <1>8, <1>9, <1>10, <1>11
     DEF Next, CycleStep

\* Only the second commit names a cycle in the status, after the first.
LEMMA StatusStep == StatusInv /\ [Next]_vars => StatusInv'
<1> USE DEF StatusInv, StatusNotAheadOfData, tables
<1>1. ASSUME StatusInv, StartCycle PROVE StatusInv'
  BY <1>1 DEF StartCycle
<1>2. ASSUME StatusInv, FetchCategory PROVE StatusInv'
  BY <1>2 DEF FetchCategory
<1>3. ASSUME StatusInv, SkipItem \/ QuarantineItem \/ StoreItem PROVE StatusInv'
  BY <1>3 DEF SkipItem, QuarantineItem, StoreItem, NextItem
<1>4. ASSUME StatusInv, CommitData PROVE StatusInv'
  BY <1>4 DEF CommitData
<1>5. ASSUME StatusInv, CommitStatus PROVE StatusInv'
  BY <1>5 DEF CommitStatus
<1>6. ASSUME StatusInv, DataRefused \/ Invalidate \/ Fault PROVE StatusInv'
  BY <1>6 DEF DataRefused, Invalidate, Fault, Close
<1>7. ASSUME StatusInv, UNCHANGED vars PROVE StatusInv'
  BY <1>7 DEF vars, locals
<1> QED
  BY <1>1, <1>2, <1>3, <1>4, <1>5, <1>6, <1>7 DEF Next, CycleStep

\* Every record of a cycle that reports is counted once (fund_sync.py:64-134).
THEOREM CountsAddUp == Spec => []EveryRecordCounted
<1>1. RowsInv /\ CountInv => EveryRecordCounted
  BY DEF CountInv
<1>2. RowsInv /\ CountInv /\ [Next]_vars => (RowsInv /\ CountInv)'
  BY RowsStep, CountStep
<1>3. Init => RowsInv /\ CountInv
  BY RowsInit, CountInit
<1> QED
  BY <1>1, <1>2, <1>3, PTL DEF Spec

\* The status never speaks of a cycle whose data is not committed, whatever
\* fails between the two commits (fund_sync.py:136-173).
THEOREM StatusBehindData == Spec => []StatusNotAheadOfData
<1>1. Init => StatusInv
  BY DEF Init, StatusInv, StatusNotAheadOfData
<1>2. StatusInv => StatusNotAheadOfData
  BY DEF StatusInv
<1> QED
  BY <1>1, <1>2, StatusStep, PTL DEF Spec

\* A cycle that is under way has a start time.
StampInv == pc # "idle" => startedAt \in Stamps

\* Only StartCycle sets the start time, and every other step keeps it.
LEMMA StampStep == StampInv /\ [Next]_vars => StampInv'
BY DEF StampInv, Next, CycleStep, StartCycle, FetchCategory, SkipItem,
   QuarantineItem, StoreItem, NextItem, CommitData, DataRefused, CommitStatus,
   Invalidate, Fault, Close, vars, locals

-----------------------------------------------------------------------------
(* Every large move is audited. *)

\* The row a cycle is about to store for r comes from an observation, and if it
\* moves the NAV of r too far, the issue of that observation is recorded.
Audited(r) ==
  \E k \in DOMAIN txHist :
    /\ k[1] = r /\ txHist[k] = txFunds[r]
    /\ Moved(PrevNav(r), txFunds[r].nav) =>
         <<r, "nav_move", k[2]>> \in Elems(cycleIssues)

Days == {item.day : item \in Items} \union Stamps \union {None}
IssueKeys == {item.reg : item \in Items} \X {"cross_field", "nav_move"} \X Days

Open == pc \in {"fetch", "item"}

\* While the transaction is open the NAVs read at the start are still the
\* stored ones: no other action writes funds.
AuditInv ==
  /\ Open => prevNav = [r \in DOMAIN funds |-> funds[r].nav]
  /\ Open => \A r \in DOMAIN txFunds : Audited(r)
  /\ pc = "idle" => txFunds = NoRows
  /\ startedAt \in Stamps \union {None}
  /\ cycleIssues \in Seq(IssueKeys)

\* What a concatenation contains.
LEMMA ElemsConcat ==
  ASSUME NEW S, NEW s \in Seq(S), NEW t \in Seq(S)
  PROVE  Elems(s \o t) = Elems(s) \union Elems(t)
<1>1. ASSUME NEW x \in Elems(s) PROVE x \in Elems(s \o t)
  <2>1. PICK i \in 1..Len(s) : x = s[i]
    BY DEF Elems
  <2>2. i \in 1..Len(s \o t) /\ (s \o t)[i] = x
    BY <2>1
  <2> QED
    BY <2>2 DEF Elems
<1>2. ASSUME NEW x \in Elems(t) PROVE x \in Elems(s \o t)
  <2>1. PICK i \in 1..Len(t) : x = t[i]
    BY DEF Elems
  <2>2. Len(s) + i \in 1..Len(s \o t) /\ (s \o t)[Len(s) + i] = x
    BY <2>1
  <2> QED
    BY <2>2 DEF Elems
<1>3. ASSUME NEW x \in Elems(s \o t) PROVE x \in Elems(s) \union Elems(t)
  <2>1. PICK i \in 1..Len(s \o t) : x = (s \o t)[i]
    BY DEF Elems
  <2>2. CASE i <= Len(s)
    BY <2>1, <2>2 DEF Elems
  <2>3. CASE i > Len(s)
    <3>1. i - Len(s) \in 1..Len(t) /\ x = t[i - Len(s)]
      BY <2>1, <2>3
    <3> QED
      BY <3>1 DEF Elems
  <2> QED
    BY <2>1, <2>2, <2>3
<1> QED
  BY <1>1, <1>2, <1>3

\* The issues of a record are issues, and both violations are among them.
LEMMA ValidateIssues ==
  ASSUME NEW item \in Items, startedAt \in Stamps \union {None}
  PROVE  /\ Validate(item) \in Seq(IssueKeys)
         /\ Moved(PrevNav(item.reg), CleanNav(item)) =>
              <<item.reg, "nav_move", ObservedAt(item)>> \in Elems(Validate(item))
         /\ CrossFieldError(item) =>
              <<item.reg, "cross_field", ObservedAt(item)>> \in Elems(Validate(item))
<1> DEFINE key(rule) == <<item.reg, rule, ObservedAt(item)>>
           first == IF CrossFieldError(item) THEN <<key("cross_field")>> ELSE <<>>
           second == IF Moved(PrevNav(item.reg), CleanNav(item))
                     THEN <<key("nav_move")>> ELSE <<>>
<1>1. ObservedAt(item) \in Days
  BY DEF ObservedAt, Days
<1>2. key("cross_field") \in IssueKeys /\ key("nav_move") \in IssueKeys
  BY <1>1 DEF IssueKeys
<1>3. Validate(item) = first \o second
  BY DEF Validate
<1> HIDE DEF key
<1>4. first \in Seq(IssueKeys) /\ second \in Seq(IssueKeys)
  BY <1>2
<1>5. Elems(Validate(item)) = Elems(first) \union Elems(second)
  <2> HIDE DEF first, second
  <2> QED
    BY <1>3, <1>4, ElemsConcat
<1>6. ASSUME Moved(PrevNav(item.reg), CleanNav(item))
      PROVE  key("nav_move") \in Elems(second)
  BY <1>6 DEF Elems
<1>7. ASSUME CrossFieldError(item)
      PROVE  key("cross_field") \in Elems(first)
  BY <1>7 DEF Elems
<1> QED
  BY <1>3, <1>4, <1>5, <1>6, <1>7 DEF key

\* Issues are only added while the transaction is open.
LEMMA StillAudited ==
  ASSUME NEW r, Audited(r), UNCHANGED <<txFunds, txHist, prevNav>>,
         Elems(cycleIssues) \subseteq Elems(cycleIssues')
  PROVE  Audited(r)'
BY DEF Audited, PrevNav

\* Storing a record: it is audited by its own observation, the others by
\* theirs, which have another registration number.
LEMMA StoreAudited ==
  ASSUME RowsInv, AuditInv, StoreItem
  PROVE  AuditInv'
<1>0. PICK item \in Items : item = Head(items)
  BY HeadTail DEF StoreItem, RowsInv
<1>1. PICK obs : obs = ObservedAt(item)
  OBVIOUS
<1> DEFINE key == <<item.reg, obs>>
<1>2. /\ Validate(item) \in Seq(IssueKeys)
      /\ Moved(PrevNav(item.reg), CleanNav(item)) =>
           <<item.reg, "nav_move", obs>> \in Elems(Validate(item))
  BY <1>1, ValidateIssues DEF AuditInv
<1>3. cycleIssues' = cycleIssues \o Validate(item) /\ cycleIssues \in Seq(IssueKeys)
  BY <1>0 DEF StoreItem, AuditInv
<1>4. cycleIssues' \in Seq(IssueKeys)
      /\ Elems(cycleIssues') = Elems(cycleIssues) \union Elems(Validate(item))
  BY <1>2, <1>3, ElemsConcat
<1>5. /\ prevNav' = prevNav /\ funds' = funds /\ startedAt' = startedAt
      /\ Open /\ Open' /\ pc' # "idle"
  BY DEF StoreItem, NextItem, tables, Open
<1>6. \A r \in DOMAIN txFunds' : Audited(r)'
  <2>1. CASE item.fits /\ ~poisoned
    <3>1. /\ txFunds' = Upsert(txFunds, [r \in {item.reg} |-> Row(item)])
          /\ txHist' = Upsert(txHist, [k \in {key} |-> Row(item)])
      BY <1>0, <1>1, <2>1 DEF StoreItem
    <3>2. /\ DOMAIN txFunds' = DOMAIN txFunds \union {item.reg}
          /\ DOMAIN txHist' = DOMAIN txHist \union {key}
          /\ txFunds'[item.reg] = Row(item) /\ txHist'[key] = Row(item)
          /\ \A r \in DOMAIN txFunds : r # item.reg => txFunds'[r] = txFunds[r]
          /\ \A k \in DOMAIN txHist : k # key => txHist'[k] = txHist[k]
      BY <3>1 DEF Upsert
    <3>3. Audited(item.reg)'
      <4>1. key \in DOMAIN txHist' /\ key[1] = item.reg /\ key[2] = obs
            /\ txHist'[key] = txFunds'[item.reg]
        BY <3>2
      <4>2. txFunds'[item.reg].nav = CleanNav(item)
        BY <3>2 DEF Row
      <4>3. PrevNav(item.reg)' = PrevNav(item.reg)
        BY <1>5 DEF PrevNav
      <4>4. Moved(PrevNav(item.reg), txFunds[item.reg].nav)' =>
              <<item.reg, "nav_move", key[2]>> \in Elems(cycleIssues')
        BY <1>2, <1>4, <4>1, <4>2, <4>3 DEF Moved
      <4> QED
        BY <4>1, <4>4 DEF Audited
    <3>4. ASSUME NEW r \in DOMAIN txFunds', r # item.reg PROVE Audited(r)'
      <4>1. r \in DOMAIN txFunds /\ txFunds'[r] = txFunds[r]
        BY <3>2, <3>4
      <4>2. PICK k \in DOMAIN txHist :
              /\ k[1] = r /\ txHist[k] = txFunds[r]
              /\ Moved(PrevNav(r), txFunds[r].nav) =>
                   <<r, "nav_move", k[2]>> \in Elems(cycleIssues)
        BY <1>5, <4>1 DEF AuditInv, Audited
      <4>3. k # key
        BY <3>4, <4>2
      <4>4. k \in DOMAIN txHist' /\ txHist'[k] = txFunds'[r]
        BY <3>2, <4>1, <4>2, <4>3
      <4>5. PrevNav(r)' = PrevNav(r)
        BY <1>5 DEF PrevNav
      <4>6. Moved(PrevNav(r), txFunds[r].nav)' =>
              <<r, "nav_move", k[2]>> \in Elems(cycleIssues')
        BY <1>4, <4>1, <4>2, <4>5 DEF Moved
      <4> QED
        BY <4>2, <4>4, <4>6 DEF Audited
    <3> QED
      BY <3>3, <3>4
  <2>2. CASE ~(item.fits /\ ~poisoned)
    <3>1. txFunds' = txFunds /\ txHist' = txHist
      BY <1>0, <2>2 DEF StoreItem
    <3> QED
      BY <1>4, <1>5, <3>1, StillAudited DEF AuditInv
  <2> QED
    BY <2>1, <2>2
<1> QED
  BY <1>4, <1>5, <1>6 DEF AuditInv

\* With no transaction open there is nothing to relate.
LEMMA AuditClose ==
  ASSUME Close, UNCHANGED funds
  PROVE  AuditInv'
<1>1. <<>> \in Seq(IssueKeys)
  OBVIOUS
<1> QED
  BY <1>1 DEF Close, AuditInv, Open

\* No transaction is open initially.
LEMMA AuditInit == Init => AuditInv
<1>1. <<>> \in Seq(IssueKeys)
  OBVIOUS
<1> QED
  BY <1>1 DEF Init, AuditInv, Open

\* Every step of the cycle leaves written rows audited.
LEMMA AuditStep == RowsInv /\ AuditInv /\ [Next]_vars => AuditInv'
<1> SUFFICES ASSUME RowsInv, AuditInv, [Next]_vars PROVE AuditInv'
  OBVIOUS
<1>1. CASE StartCycle
  <2>1. txFunds' = NoRows
    BY <1>1 DEF StartCycle, AuditInv
  <2>2. DOMAIN txFunds' = {}
    BY <2>1 DEF NoRows
  <2> QED
    BY <1>1, <2>2 DEF StartCycle, AuditInv, Open, tables
<1>2. CASE FetchCategory
  BY <1>2, StillAudited DEF FetchCategory, AuditInv, Open, tables
<1>3. CASE SkipItem
  BY <1>3, StillAudited DEF SkipItem, NextItem, AuditInv, Open, tables
<1>4. CASE QuarantineItem
  <2>1. PICK item \in Items : item = Head(items)
    BY <1>4, HeadTail DEF QuarantineItem, RowsInv
  <2>2. Validate(item) \in Seq(IssueKeys) /\ cycleIssues \in Seq(IssueKeys)
    BY ValidateIssues DEF AuditInv
  <2>3. cycleIssues' = cycleIssues \o Validate(item)
    BY <1>4, <2>1 DEF QuarantineItem
  <2>4. cycleIssues' \in Seq(IssueKeys)
        /\ Elems(cycleIssues) \subseteq Elems(cycleIssues')
    BY <2>2, <2>3, ElemsConcat
  <2>5. /\ UNCHANGED <<txFunds, txHist, prevNav, funds, startedAt>>
        /\ Open /\ Open' /\ pc' # "idle"
    BY <1>4 DEF QuarantineItem, NextItem, Open, tables
  <2> QED
    BY <2>4, <2>5, StillAudited DEF AuditInv
<1>5. CASE StoreItem
  BY <1>5, StoreAudited
<1>6. CASE CommitData
  BY <1>6 DEF CommitData, AuditInv, Open
<1>7. CASE DataRefused
  BY <1>7, AuditClose DEF DataRefused, tables
<1>8. CASE CommitStatus
  BY <1>8 DEF CommitStatus, AuditInv, Open
<1>9. CASE Invalidate
  BY <1>9, AuditClose DEF Invalidate, tables
<1>10. CASE Fault
  BY <1>10, AuditClose DEF Fault, tables
<1>11. CASE UNCHANGED vars
  BY <1>11, StillAudited DEF vars, tables, locals, AuditInv, Open
<1> QED
  BY <1>1, <1>2, <1>3, <1>4, <1>5, <1>6, <1>7, <1>8, <1>9, <1>10, <1>11
     DEF Next, CycleStep

\* Only the first commit changes the table of funds.
LEMMA OnlyCommitWrites == ASSUME [Next]_vars, ~CommitData PROVE funds' = funds
BY DEF Next, CycleStep, StartCycle, FetchCategory, SkipItem, QuarantineItem,
   StoreItem, NextItem, DataRefused, CommitStatus, Invalidate, Fault, vars, tables

\* What the commit does to the NAV of one fund.
LEMMA CommitAudits ==
  ASSUME RowsInv, AuditInv, CommitData, NEW r \in DOMAIN funds,
         MovedByAQuarter(funds[r].nav, funds'[r].nav)
  PROVE  \E k \in DOMAIN hist' : /\ k[1] = r /\ hist'[k] = funds'[r]
                                 /\ <<r, "nav_move", k[2]>> \in issues'
<1>1. /\ funds' = Upsert(funds, txFunds) /\ hist' = Upsert(hist, txHist)
      /\ issues' = issues \union Elems(cycleIssues) /\ Open
  BY DEF CommitData, Open
<1>2. funds[r].nav \in Nat
  BY DEF RowsInv, RowsOK, RowOK
<1>3. r \in DOMAIN txFunds
  <2> SUFFICES ASSUME r \notin DOMAIN txFunds PROVE FALSE
    OBVIOUS
  <2>1. funds'[r] = funds[r]
    BY <1>1 DEF Upsert
  <2> QED
    BY <1>2, <2>1 DEF MovedByAQuarter
<1>4. funds'[r] = txFunds[r] /\ txFunds[r].nav \in Nat
  BY <1>1, <1>3 DEF Upsert, RowsInv, RowsOK, RowOK
<1>5. PrevNav(r) = funds[r].nav
  BY <1>1 DEF AuditInv, PrevNav
<1>6. Moved(PrevNav(r), txFunds[r].nav)
  BY <1>2, <1>4, <1>5 DEF MovedByAQuarter, Moved
<1>7. PICK k \in DOMAIN txHist :
        /\ k[1] = r /\ txHist[k] = txFunds[r]
        /\ <<r, "nav_move", k[2]>> \in Elems(cycleIssues)
  BY <1>1, <1>3, <1>6 DEF AuditInv, Audited
<1>8. k \in DOMAIN hist' /\ hist'[k] = txHist[k]
  BY <1>1, <1>7 DEF Upsert
<1> QED
  BY <1>1, <1>4, <1>7, <1>8

\* A NAV that moves by more than a quarter has a nav_move issue at the
\* observation that moved it, committed with it (validation.py:189-197).
THEOREM LargeMovesAudited == Spec => MovesAreAudited
<1> DEFINE Step == \A r \in DOMAIN funds :
                     MovedByAQuarter(funds[r].nav, funds'[r].nav) =>
                       \E k \in DOMAIN hist' :
                         /\ k[1] = r /\ hist'[k] = funds'[r]
                         /\ <<r, "nav_move", k[2]>> \in issues'
<1>1. RowsInv /\ AuditInv /\ [Next]_vars => [Step]_vars
  <2> SUFFICES ASSUME RowsInv, AuditInv, [Next]_vars PROVE Step
    OBVIOUS
  <2>1. CASE CommitData
    BY <2>1, CommitAudits
  <2>2. CASE ~CommitData
    <3>1. funds' = funds
      BY <2>2, OnlyCommitWrites
    <3>2. \A r \in DOMAIN funds : funds[r].nav \in Nat
      BY DEF RowsInv, RowsOK, RowOK
    <3> QED
      BY <3>1, <3>2 DEF MovedByAQuarter
  <2> QED
    BY <2>1, <2>2
<1>2. Init => RowsInv /\ AuditInv
  BY RowsInit, AuditInit
<1>3. RowsInv /\ AuditInv /\ [Next]_vars => (RowsInv /\ AuditInv)'
  BY RowsStep, AuditStep
<1> HIDE DEF Step
<1>4. Spec => [][Step]_vars
  BY <1>1, <1>2, <1>3, PTL DEF Spec
<1> QED
  BY <1>4 DEF MovesAreAudited, Step
-----------------------------------------------------------------------------
(* The cycle keeps its promise to the readers of the database. *)

\* The first commit publishes validated rows, each registry row with the
\* observation it comes from.
LEMMA CommitPublishes ==
  ASSUME RowsInv, AuditInv, CommitData
  PROVE  Promise!Publish(startedAt)
<1>1. /\ funds' = Upsert(funds, txFunds) /\ hist' = Upsert(hist, txHist)
      /\ issues \subseteq issues' /\ dataStamps' = dataStamps \union {startedAt}
      /\ UNCHANGED status /\ Open
  BY DEF CommitData, Open
<1>2. DOMAIN funds \subseteq DOMAIN funds' /\ DOMAIN hist \subseteq DOMAIN hist'
  BY <1>1 DEF Upsert
<1>3. \A k \in DOMAIN hist' :
        (k \in DOMAIN hist /\ hist'[k] = hist[k]) \/ Promise!Validated(hist'[k])
  BY <1>1 DEF Upsert, RowsInv, RowsOK, RowOK, Promise!Validated
<1>4. ASSUME NEW r \in DOMAIN funds', ~(r \in DOMAIN funds /\ funds'[r] = funds[r])
      PROVE  Promise!Validated(funds'[r]) /\ Promise!Observed(r)
  <2>1. r \in DOMAIN txFunds /\ funds'[r] = txFunds[r]
    BY <1>1, <1>4 DEF Upsert
  <2>2. PICK k \in DOMAIN txHist : k[1] = r /\ txHist[k] = txFunds[r]
    BY <1>1, <2>1 DEF AuditInv, Audited
  <2>3. k \in DOMAIN hist' /\ hist'[k] = txHist[k]
    BY <1>1, <2>2 DEF Upsert
  <2>4. Promise!Validated(funds'[r])
    BY <2>1 DEF RowsInv, RowsOK, RowOK, Promise!Validated
  <2> QED
    BY <2>1, <2>2, <2>3, <2>4 DEF Promise!Observed
<1> QED
  BY <1>1, <1>2, <1>3, <1>4 DEF Promise!Publish

\* The second commit announces a cycle whose data is there.
LEMMA StatusAnnounces ==
  ASSUME CountInv, StatusInv, CommitStatus
  PROVE  Promise!Announce(startedAt)
<1>1. Len(items) = 0 /\ count.expected = count.received
  BY DEF CommitStatus, CountInv
<1>2. count.valid + count.failed = count.received /\ startedAt \in dataStamps
  BY DEF CommitStatus, CountInv, StatusInv
<1>3. /\ status'.startedAt = startedAt /\ status'.count = count
      /\ status'.status = IF count.failed = 0 THEN "healthy" ELSE "partial"
      /\ UNCHANGED <<funds, hist, issues, dataStamps>>
  BY DEF CommitStatus
<1> QED
  BY <1>1, <1>2, <1>3 DEF Promise!Announce, Promise!Balanced

\* Every other step leaves the database as it is.
LEMMA OthersArePrivate ==
  ASSUME [Next]_vars, ~CommitData, ~CommitStatus
  PROVE  UNCHANGED <<funds, hist, issues, status, dataStamps>>
BY DEF Next, CycleStep, StartCycle, FetchCategory, SkipItem, QuarantineItem,
   StoreItem, NextItem, DataRefused, Invalidate, Fault, vars, tables

\* The status never speaks of a cycle whose data is not committed, its counts
\* add up, and the three tables change together with validated rows, whatever
\* fails between the two commits (fund_sync.py:136-173).
THEOREM PromiseKept == Spec => KeepsThePromise
<1> DEFINE Inv == RowsInv /\ CountInv /\ StatusInv /\ AuditInv /\ StampInv
<1>1. Init => Inv
  <2>1. Init => StatusInv /\ StampInv
    BY DEF Init, StatusInv, StatusNotAheadOfData, StampInv
  <2> QED
    BY <2>1, RowsInit, CountInit, AuditInit
<1>2. Inv /\ [Next]_vars => Inv'
  BY RowsStep, CountStep, StatusStep, AuditStep, StampStep
<1>3. Init => Promise!Init
  BY DEF Init, NoRows, Promise!Init
<1>4. Inv /\ [Next]_vars => [Promise!Next]_(Promise!published)
  <2> SUFFICES ASSUME Inv, [Next]_vars PROVE [Promise!Next]_(Promise!published)
    OBVIOUS
  <2>1. CASE CommitData
    <3>1. startedAt \in Stamps
      BY <2>1 DEF CommitData, StampInv
    <3> QED
      BY <2>1, <3>1, CommitPublishes DEF Promise!Next
  <2>2. CASE CommitStatus
    <3>1. startedAt \in Stamps
      BY <2>2 DEF CommitStatus, StampInv
    <3> QED
      BY <2>2, <3>1, StatusAnnounces DEF Promise!Next
  <2>3. CASE ~CommitData /\ ~CommitStatus
    BY <2>3, OthersArePrivate DEF Promise!published
  <2> QED
    BY <2>1, <2>2, <2>3
<1> HIDE DEF Inv
<1> QED
  BY <1>1, <1>2, <1>3, <1>4, PTL DEF Spec, KeepsThePromise, Promise!Spec
-----------------------------------------------------------------------------
(* Every record of a cycle is accounted for. *)

CrossFieldKey(item) == <<item.reg, "cross_field", ObservedAt(item)>>

HistKey(item) == <<item.reg, ObservedAt(item)>>

Quarantined(item) == Usable(item) /\ CrossFieldError(item)

\* What the open transaction shows of a record that was processed: it is written
\* unless something failed, and a quarantined one left its issue and a failure.
Processed(item) ==
  /\ count.failed = 0 => item.reg \in DOMAIN txFunds /\ HistKey(item) \in DOMAIN txHist
  /\ Quarantined(item) => CrossFieldKey(item) \in Elems(cycleIssues) /\ count.failed # 0

\* The same of the tables, after the first commit.
Published(item) ==
  /\ count.failed = 0 => Stored(item)
  /\ Quarantined(item) => CrossFieldKey(item) \in issues /\ count.failed # 0

\* A record of the cycle waits in the list or is processed.
SeenInv ==
  /\ Open => \A item \in seen : item \in Elems(items) \/ Processed(item)
  /\ pc = "status" => \A item \in seen : Published(item)
  /\ pc = "idle" => seen = {}

\* A list holds its first record and those of the rest.
LEMMA ElemsHeadTail ==
  ASSUME NEW s \in Seq(Items), s # <<>>
  PROVE  Elems(s) = {Head(s)} \union Elems(Tail(s))
<1>1. s = <<Head(s)>> \o Tail(s)
  OBVIOUS
<1>2. <<Head(s)>> \in Seq(Items) /\ Tail(s) \in Seq(Items)
  BY HeadTail
<1>3. Elems(s) = Elems(<<Head(s)>>) \union Elems(Tail(s))
  <2> DEFINE h == <<Head(s)>>
             t == Tail(s)
  <2>1. h \in Seq(Items) /\ t \in Seq(Items) /\ s = h \o t
    BY <1>1, <1>2
  <2> HIDE DEF h, t
  <2>2. Elems(h \o t) = Elems(h) \union Elems(t)
    BY <2>1, ElemsConcat
  <2>3. Elems(s) = Elems(h) \union Elems(t)
    BY <2>1, <2>2
  <2> QED
    BY <2>3 DEF h, t
<1>4. Elems(<<Head(s)>>) = {Head(s)}
  BY DEF Elems
<1> QED
  BY <1>3, <1>4

\* What was processed stays so: rows, issues and failures are only added.
LEMMA StaysProcessed ==
  ASSUME NEW item, Processed(item), CountInv, CountInv',
         count'.failed >= count.failed, startedAt' = startedAt,
         DOMAIN txFunds \subseteq DOMAIN txFunds', DOMAIN txHist \subseteq DOMAIN txHist',
         Elems(cycleIssues) \subseteq Elems(cycleIssues')
  PROVE  Processed(item)'
<1>1. count.failed \in Nat /\ count'.failed \in Nat
  BY DEF CountInv
<1>2. count'.failed = 0 => count.failed = 0
  BY <1>1
<1>3. HistKey(item)' = HistKey(item) /\ CrossFieldKey(item)' = CrossFieldKey(item)
  BY DEF HistKey, CrossFieldKey, ObservedAt
<1>4. count'.failed = 0 =>
        item.reg \in DOMAIN txFunds' /\ HistKey(item)' \in DOMAIN txHist'
  BY <1>2, <1>3 DEF Processed
<1>5. Quarantined(item) =>
        CrossFieldKey(item)' \in Elems(cycleIssues') /\ count'.failed # 0
  BY <1>2, <1>3 DEF Processed
<1> QED
  BY <1>4, <1>5 DEF Processed, Quarantined, Usable, CrossFieldError, CleanNav

\* One record is taken from the list and processed.
LEMMA ProcessOne ==
  ASSUME RowsInv, CountInv, CountInv', SeenInv, pc = "item", NextItem,
         NEW first, first = Head(items), Processed(first)',
         count'.failed >= count.failed,
         DOMAIN txFunds \subseteq DOMAIN txFunds', DOMAIN txHist \subseteq DOMAIN txHist',
         Elems(cycleIssues) \subseteq Elems(cycleIssues')
  PROVE  SeenInv'
<1>1. /\ items' = Tail(items) /\ startedAt' = startedAt /\ seen' = seen
      /\ pc' \in {"fetch", "item"} /\ Open
  BY DEF NextItem, Open
<1>2. Elems(items) = {first} \union Elems(items')
  BY <1>1, ElemsHeadTail DEF RowsInv
<1>3. ASSUME NEW item \in seen PROVE item \in Elems(items') \/ Processed(item)'
  <2>1. CASE item = first
    BY <2>1
  <2>2. CASE item \in Elems(items')
    BY <2>2
  <2>3. CASE item \notin Elems(items)
    <3>1. Processed(item)
      BY <1>1, <2>3 DEF SeenInv
    <3> QED
      BY <1>1, <3>1, StaysProcessed
  <2> QED
    BY <1>2, <2>1, <2>2, <2>3
<1> QED
  BY <1>1, <1>3 DEF SeenInv

\* Without a cycle there is no record.
LEMMA SeenInit == Init => SeenInv
BY DEF Init, SeenInv, Open

\* A list that arrives waits as a whole; earlier categories are processed.
LEMMA SeenFetch ==
  ASSUME CountInv, SeenInv, FetchCategory
  PROVE  SeenInv'
<1>1. PICK response \in Responses :
        /\ items' = response /\ seen' = seen \union Elems(response)
        /\ count' = [count EXCEPT !.expected = @ + Len(response)]
        /\ pc' = IF response = <<>> THEN "fetch" ELSE "item"
  BY DEF FetchCategory
<1>2. /\ items = <<>> /\ Open
      /\ UNCHANGED <<startedAt, txFunds, txHist, cycleIssues>>
  BY DEF FetchCategory, CountInv, Open
<1>3. Elems(<<>>) = {}
  BY DEF Elems
<1>4. count'.failed = count.failed
  BY <1>1 DEF CountInv
<1>5. ASSUME NEW item \in seen PROVE Processed(item)'
  <2>1. Processed(item)
    BY <1>2, <1>3 DEF SeenInv
  <2> QED
    BY <1>2, <1>4, <2>1 DEF Processed, Quarantined, Usable, CrossFieldError, CleanNav,
       HistKey, CrossFieldKey, ObservedAt
<1> QED
  BY <1>1, <1>5 DEF SeenInv, Open

\* A record that cannot be used fails.
LEMMA SeenSkip ==
  ASSUME RowsInv, CountInv, CountInv', SeenInv, SkipItem
  PROVE  SeenInv'
<1>1. PICK item : item = Head(items)
  OBVIOUS
<1>2. ~Usable(item) /\ count' = Received(0, 1) /\ pc = "item" /\ NextItem
      /\ UNCHANGED <<txFunds, txHist, cycleIssues>>
  BY <1>1 DEF SkipItem, Usable
<1>3. count'.failed = count.failed + 1 /\ count.failed \in Nat
  BY <1>2, OneMore DEF Received, CountInv, Counts
<1>4. Processed(item)'
  BY <1>2, <1>3 DEF Processed, Quarantined, Usable
<1> QED
  BY <1>1, <1>2, <1>3, <1>4, ProcessOne

\* A quarantined record fails and leaves its issue.
LEMMA SeenQuarantine ==
  ASSUME RowsInv, CountInv, CountInv', AuditInv, SeenInv, QuarantineItem
  PROVE  SeenInv'
<1>1. PICK item \in Items : item = Head(items)
  BY HeadTail DEF QuarantineItem, RowsInv
<1>2. /\ cycleIssues' = cycleIssues \o Validate(item)
      /\ CrossFieldError(item) /\ count' = Received(0, 1) /\ pc = "item" /\ NextItem
      /\ UNCHANGED <<txFunds, txHist>>
  BY <1>1 DEF QuarantineItem
<1>3. count'.failed = count.failed + 1 /\ count.failed \in Nat
  BY <1>2, OneMore DEF Received, CountInv, Counts
<1>4. /\ Validate(item) \in Seq(IssueKeys)
      /\ CrossFieldKey(item) \in Elems(Validate(item))
  BY <1>2, ValidateIssues DEF AuditInv, CrossFieldKey
<1>5. Elems(cycleIssues') = Elems(cycleIssues) \union Elems(Validate(item))
  BY <1>2, <1>4, ElemsConcat DEF AuditInv
<1>6. CrossFieldKey(item)' = CrossFieldKey(item)
  BY <1>2 DEF NextItem, CrossFieldKey, ObservedAt
<1>7. Processed(item)'
  BY <1>3, <1>4, <1>5, <1>6 DEF Processed
<1> QED
  BY <1>1, <1>2, <1>3, <1>5, <1>7, ProcessOne

\* A record is written, or it fails because the session refuses it.
LEMMA SeenStore ==
  ASSUME RowsInv, CountInv, CountInv', AuditInv, SeenInv, StoreItem
  PROVE  SeenInv'
<1>1. PICK item \in Items : item = Head(items)
  BY HeadTail DEF StoreItem, RowsInv
<1>2. /\ cycleIssues' = cycleIssues \o Validate(item)
      /\ ~CrossFieldError(item) /\ pc = "item" /\ NextItem
  BY <1>1 DEF StoreItem
<1>3. Validate(item) \in Seq(IssueKeys)
  BY ValidateIssues DEF AuditInv
<1>4. Elems(cycleIssues) \subseteq Elems(cycleIssues')
  BY <1>2, <1>3, ElemsConcat DEF AuditInv
<1>5. HistKey(item)' = HistKey(item)
  BY <1>2 DEF NextItem, HistKey, ObservedAt
<1>6. CASE item.fits /\ ~poisoned
  <2>1. /\ txFunds' = Upsert(txFunds, [r \in {item.reg} |-> Row(item)])
        /\ txHist' = Upsert(txHist, [k \in {HistKey(item)} |-> Row(item)])
        /\ count' = Received(1, 0)
    BY <1>1, <1>6 DEF StoreItem, HistKey
  <2>2. count'.failed = count.failed /\ count.failed \in Nat
    <3>1. count'.failed = count.failed + 0 /\ count.failed \in Nat
      BY <2>1, OneMore DEF Received, CountInv, Counts
    <3> QED
      BY <3>1
  <2>3. /\ DOMAIN txFunds' = DOMAIN txFunds \union {item.reg}
        /\ DOMAIN txHist' = DOMAIN txHist \union {HistKey(item)}
    BY <2>1 DEF Upsert
  <2>4. Processed(item)'
    BY <1>2, <1>5, <2>3 DEF Processed, Quarantined, CrossFieldError, CleanNav
  <2> QED
    BY <1>1, <1>2, <1>4, <2>2, <2>3, <2>4, ProcessOne
<1>7. CASE ~(item.fits /\ ~poisoned)
  <2>1. count' = Received(0, 1) /\ UNCHANGED <<txFunds, txHist>>
    BY <1>1, <1>7 DEF StoreItem
  <2>2. count'.failed = count.failed + 1 /\ count.failed \in Nat
    BY <2>1, OneMore DEF Received, CountInv, Counts
  <2>3. Processed(item)'
    BY <1>2, <2>2 DEF Processed, Quarantined, CrossFieldError, CleanNav
  <2> QED
    BY <1>1, <1>2, <1>4, <2>1, <2>2, <2>3, ProcessOne
<1> QED
  BY <1>6, <1>7

\* The first commit publishes what the transaction holds.
LEMMA SeenCommit ==
  ASSUME CountInv, SeenInv, CommitData
  PROVE  SeenInv'
<1>1. /\ funds' = Upsert(funds, txFunds) /\ hist' = Upsert(hist, txHist)
      /\ issues' = issues \union Elems(cycleIssues) /\ pc' = "status"
      /\ UNCHANGED <<startedAt, count, seen>> /\ Open /\ items = <<>>
  BY DEF CommitData, Open, CountInv
<1>2. ASSUME NEW item \in seen PROVE Published(item)'
  <2>1. Processed(item)
    BY <1>1 DEF SeenInv, Elems
  <2>2. /\ DOMAIN txFunds \subseteq DOMAIN funds' /\ DOMAIN txHist \subseteq DOMAIN hist'
    BY <1>1 DEF Upsert
  <2> QED
    BY <1>1, <2>1, <2>2 DEF Processed, Published, Stored, Quarantined, Usable,
       CrossFieldError, CleanNav, HistKey, CrossFieldKey, ObservedAt
<1> QED
  BY <1>1, <1>2 DEF SeenInv, Open

\* Every step accounts for every record.
LEMMA SeenStep ==
  ASSUME RowsInv, CountInv, CountInv', AuditInv, SeenInv, [Next]_vars
  PROVE  SeenInv'
<1>1. CASE StartCycle
  BY <1>1 DEF StartCycle, SeenInv, Open
<1>2. CASE FetchCategory
  BY <1>2, SeenFetch
<1>3. CASE SkipItem
  BY <1>3, SeenSkip
<1>4. CASE QuarantineItem
  BY <1>4, SeenQuarantine
<1>5. CASE StoreItem
  BY <1>5, SeenStore
<1>6. CASE CommitData
  BY <1>6, SeenCommit
<1>7. CASE CommitStatus
  BY <1>7 DEF CommitStatus, SeenInv, Open
<1>8. CASE DataRefused \/ Invalidate \/ Fault
  BY <1>8 DEF DataRefused, Invalidate, Fault, Close, SeenInv, Open
<1>9. CASE UNCHANGED vars
  BY <1>9 DEF vars, tables, locals, SeenInv, Open, Processed, Published, Stored,
     Quarantined, Usable, CrossFieldError, CleanNav, HistKey, CrossFieldKey, ObservedAt
<1> QED
  BY <1>1, <1>2, <1>3, <1>4, <1>5, <1>6, <1>7, <1>8, <1>9 DEF Next, CycleStep

CycleInv == RowsInv /\ CountInv /\ AuditInv /\ SeenInv

\* The parts of the invariant of a cycle are inductive together.
LEMMA CycleInductive == (Init => CycleInv) /\ (CycleInv /\ [Next]_vars => CycleInv')
<1>1. Init => CycleInv
  BY RowsInit, CountInit, AuditInit, SeenInit DEF CycleInv
<1>2. CycleInv /\ [Next]_vars => CycleInv'
  BY RowsStep, CountStep, AuditStep, SeenStep DEF CycleInv
<1> QED
  BY <1>1, <1>2

\* The status is written by the second commit only.
LEMMA StatusWrittenOnce == ASSUME [Next]_vars, StatusWritten PROVE CommitStatus
BY DEF StatusWritten, Next, CycleStep, StartCycle, FetchCategory, SkipItem,
   QuarantineItem, StoreItem, NextItem, CommitData, DataRefused, Invalidate, Fault,
   Close, vars, locals

\* A cycle is called healthy only when every record it received is in both
\* tables (fund_sync.py:159-169).
THEOREM HealthyIsStored == Spec => HealthyMeansStored
<1> DEFINE Step == StatusWritten /\ status'.status = "healthy" =>
                     \A item \in seen : Stored(item)
<1>1. CycleInv /\ [Next]_vars => [Step]_vars
  <2> SUFFICES ASSUME CycleInv, [Next]_vars, StatusWritten, status'.status = "healthy"
               PROVE  \A item \in seen : Stored(item)
    OBVIOUS
  <2>1. CommitStatus
    BY StatusWrittenOnce
  <2>2. pc = "status" /\ count.failed = 0
    BY <2>1 DEF CommitStatus
  <2> QED
    BY <2>2 DEF CycleInv, SeenInv, Published
<1> HIDE DEF Step
<1>2. Spec => [][Step]_vars
  BY <1>1, CycleInductive, PTL DEF Spec
<1> QED
  BY <1>2 DEF HealthyMeansStored, Step

\* Every quarantined record of a cycle that reports has its issue on record, and
\* the cycle is partial (docs/03:253, fund_sync.py:95-106).
THEOREM QuarantineIsAudited == Spec => QuarantineAudited
<1> DEFINE Step == StatusWritten =>
             \A item \in seen : Usable(item) /\ CrossFieldError(item) =>
               /\ <<item.reg, "cross_field", ObservedAt(item)>> \in issues
               /\ status'.status = "partial"
<1>1. CycleInv /\ [Next]_vars => [Step]_vars
  <2> SUFFICES ASSUME CycleInv, [Next]_vars, StatusWritten,
                      NEW item \in seen, Usable(item), CrossFieldError(item)
               PROVE  /\ <<item.reg, "cross_field", ObservedAt(item)>> \in issues
                      /\ status'.status = "partial"
    OBVIOUS
  <2>1. CommitStatus
    BY StatusWrittenOnce
  <2>2. Published(item)
    BY <2>1 DEF CommitStatus, CycleInv, SeenInv
  <2> QED
    BY <2>1, <2>2 DEF CommitStatus, Published, Quarantined, CrossFieldKey
<1> HIDE DEF Step
<1>2. Spec => [][Step]_vars
  BY <1>1, CycleInductive, PTL DEF Spec
<1> QED
  BY <1>2 DEF QuarantineAudited, Step

-----------------------------------------------------------------------------
(* Types. *)

\* What the types say besides rows and counts: a cycle has a start time exactly
\* while it runs, whatever way it ended.
ControlInv ==
  /\ pc \in {"idle", "fetch", "item", "status", "cache"}
  /\ startedAt \in Stamps \union {None}
  /\ pc = "idle" <=> startedAt = None
  /\ poisoned \in BOOLEAN /\ cacheStale \in BOOLEAN
  /\ dataStamps \subseteq Stamps
  /\ faults \in 0..MaxFaults

\* The part of the assumption the control needs.
LEMMA Bounds == MaxFaults \in Nat /\ None \notin Stamps
BY FundSyncAssumption

\* Every step keeps the control variables in step with each other.
LEMMA ControlStep == ControlInv /\ [Next]_vars => ControlInv'
<1> SUFFICES ASSUME ControlInv, [Next]_vars PROVE ControlInv'
  OBVIOUS
<1> USE Bounds DEF ControlInv
<1>1. CASE StartCycle
  BY <1>1 DEF StartCycle
<1>2. CASE FetchCategory
  BY <1>2 DEF FetchCategory
<1>3. CASE SkipItem \/ QuarantineItem \/ StoreItem
  BY <1>3 DEF SkipItem, QuarantineItem, StoreItem, NextItem
<1>4. CASE CommitData
  BY <1>4 DEF CommitData
<1>5. CASE CommitStatus
  BY <1>5 DEF CommitStatus
<1>6. CASE DataRefused \/ Invalidate \/ Fault
  <2>1. Close /\ dataStamps' = dataStamps
    BY <1>6 DEF DataRefused, Invalidate, Fault
  <2>2. faults' \in 0..MaxFaults
    BY <1>6 DEF DataRefused, Invalidate, Fault
  <2>3. cacheStale' \in BOOLEAN
    BY <1>6, Zenon DEF DataRefused, Invalidate, Fault
  <2>4. poisoned' \in BOOLEAN
    BY <2>1, Zenon DEF Close
  <2> QED
    BY <2>1, <2>2, <2>3, <2>4 DEF Close
<1>7. CASE UNCHANGED vars
  BY <1>7 DEF vars, locals
<1> QED
  BY <1>1, <1>2, <1>3, <1>4, <1>5, <1>6, <1>7 DEF Next, CycleStep

\* The types hold in every reachable state, and a cycle that ended, whichever
\* way, left no start time behind (fund_sync.py:179-186).
THEOREM TypeCorrect == Spec => []TypeOK
<1>1. Init => ControlInv
  <2>1. Init => poisoned \in BOOLEAN /\ cacheStale \in BOOLEAN
    BY Zenon DEF Init
  <2>2. Init => faults \in 0..MaxFaults
    BY Bounds DEF Init
  <2> QED
    BY <2>1, <2>2 DEF Init, ControlInv
<1>2. RowsInv /\ CountInv /\ ControlInv => TypeOK
  BY DEF RowsInv, RowsOK, RowOK, CountInv, ControlInv, TypeOK
<1>3. Init => CycleInv
  BY CycleInductive
<1>4. CycleInv /\ [Next]_vars => CycleInv'
  BY CycleInductive
<1>5. CycleInv => RowsInv /\ CountInv
  BY DEF CycleInv
<1> QED
  BY <1>1, <1>2, <1>3, <1>4, <1>5, ControlStep, PTL DEF Spec

-----------------------------------------------------------------------------
(* A cycle over records that are stored already. *)

\* The records that end in the tables, unless the session refuses them.
Accepted(item) == Usable(item) /\ ~CrossFieldError(item)

DatedKey(item) == <<item.reg, item.day>>

\* The transaction holds the rows of the accepted records and no others; what
\* was committed of a record that carries its date is found under that date.
RerunInv ==
  /\ Open => Elems(items) \subseteq seen
  /\ Open => \A k \in DOMAIN txHist :
       \E item \in seen : Accepted(item) /\ k = HistKey(item)
  /\ Open /\ ~poisoned => \A item \in seen : Accepted(item) =>
       item \in Elems(items) \/ HistKey(item) \in DOMAIN txHist
  /\ \A item \in before : Accepted(item) /\ item.day # None =>
       DatedKey(item) \in DOMAIN hist
  /\ pc = "idle" => seen = {} /\ DOMAIN txHist = {}

\* Nothing is stored at the start.
LEMMA RerunInit == Init => RerunInv
BY DEF Init, RerunInv, Open, NoRows

\* A new list waits as a whole.
LEMMA RerunFetch ==
  ASSUME CountInv, RerunInv, FetchCategory
  PROVE  RerunInv'
<1>1. PICK response \in Responses :
        items' = response /\ seen' = seen \union Elems(response)
  BY DEF FetchCategory
<1>2. /\ items = <<>> /\ Open /\ pc' # "idle"
      /\ UNCHANGED <<hist, before, startedAt, txHist, poisoned>>
  BY DEF FetchCategory, CountInv, Open, tables
<1>3. Elems(<<>>) = {}
  BY DEF Elems
<1>4. ASSUME NEW item PROVE /\ HistKey(item)' = HistKey(item)
                            /\ Accepted(item)' = Accepted(item)
  BY <1>2 DEF HistKey, ObservedAt, Accepted, Usable, CrossFieldError, CleanNav
<1> QED
  BY <1>1, <1>2, <1>3, <1>4 DEF RerunInv, DatedKey, Accepted, Usable, CrossFieldError,
     CleanNav

\* One record is taken from the list: no row, or its own.
LEMMA RerunOne ==
  ASSUME RowsInv, RerunInv, pc = "item", NextItem,
         NEW first, first = Head(items), poisoned => poisoned',
         DOMAIN txHist \subseteq DOMAIN txHist',
         DOMAIN txHist' \subseteq DOMAIN txHist \union {HistKey(first)},
         HistKey(first) \in DOMAIN txHist' \ DOMAIN txHist => Accepted(first),
         Accepted(first) /\ ~poisoned' => HistKey(first) \in DOMAIN txHist'
  PROVE  RerunInv'
<1>1. /\ items' = Tail(items) /\ pc' \in {"fetch", "item"} /\ Open
      /\ UNCHANGED <<hist, before, startedAt, seen>>
  BY DEF NextItem, Open, tables
<1>2. Elems(items) = {first} \union Elems(items')
  BY <1>1, ElemsHeadTail DEF RowsInv
<1>3. ASSUME NEW item PROVE HistKey(item)' = HistKey(item)
  BY <1>1 DEF HistKey, ObservedAt
<1>4. Elems(items') \subseteq seen' /\ first \in seen
  BY <1>1, <1>2 DEF RerunInv
<1>5. \A k \in DOMAIN txHist' : \E item \in seen : Accepted(item) /\ k = HistKey(item)
  BY <1>1, <1>4 DEF RerunInv
<1>6. ~poisoned' => \A item \in seen : Accepted(item) =>
        item \in Elems(items') \/ HistKey(item) \in DOMAIN txHist'
  BY <1>1, <1>2 DEF RerunInv
<1>7. \A item \in before : Accepted(item) /\ item.day # None =>
        DatedKey(item) \in DOMAIN hist'
  BY <1>1 DEF RerunInv
<1> QED
  BY <1>1, <1>3, <1>4, <1>5, <1>6, <1>7 DEF RerunInv, DatedKey, Accepted, Usable,
     CrossFieldError, CleanNav, HistKey, ObservedAt

\* The commit stores what the transaction holds.
LEMMA RerunCommit ==
  ASSUME CountInv, RerunInv, CommitData
  PROVE  RerunInv'
<1>1. /\ hist' = Upsert(hist, txHist) /\ before' = before \union seen
      /\ pc' = "status" /\ items = <<>> /\ Open /\ ~poisoned
  BY DEF CommitData, CountInv, Open
<1>2. DOMAIN hist' = DOMAIN hist \union DOMAIN txHist
  BY <1>1 DEF Upsert
<1>3. ASSUME NEW item \in before', Accepted(item), item.day # None
      PROVE  DatedKey(item) \in DOMAIN hist'
  <2>1. CASE item \in before
    BY <1>2, <1>3, <2>1 DEF RerunInv
  <2>2. CASE item \in seen
    <3>1. HistKey(item) \in DOMAIN txHist
      BY <1>1, <1>3, <2>2 DEF RerunInv, Elems
    <3> QED
      BY <1>2, <1>3, <3>1 DEF HistKey, DatedKey, ObservedAt
  <2> QED
    BY <1>1, <1>3, <2>1, <2>2
<1> QED
  BY <1>1, <1>3 DEF RerunInv, Open, DatedKey, Accepted, Usable, CrossFieldError, CleanNav

\* Every step keeps rows and records in step.
LEMMA RerunStep ==
  ASSUME RowsInv, CountInv, RerunInv, [Next]_vars
  PROVE  RerunInv'
<1> USE DEF DatedKey, Accepted, Usable, CrossFieldError, CleanNav
<1>1. CASE StartCycle
  <2>1. /\ UNCHANGED <<hist, before, items, seen, txHist>>
        /\ pc = "idle" /\ items = <<>>
    BY <1>1 DEF StartCycle, tables, CountInv
  <2> QED
    BY <1>1, <2>1 DEF StartCycle, RerunInv, Elems
<1>2. CASE FetchCategory
  BY <1>2, RerunFetch
<1>3. CASE SkipItem \/ QuarantineItem
  <2>1. PICK first : first = Head(items)
    OBVIOUS
  <2>2. /\ pc = "item" /\ NextItem /\ UNCHANGED <<txHist, poisoned>> /\ ~Accepted(first)
    BY <1>3, <2>1 DEF SkipItem, QuarantineItem
  <2> QED
    BY <2>1, <2>2, RerunOne
<1>4. CASE StoreItem
  <2>1. PICK first : first = Head(items)
    OBVIOUS
  <2>2. pc = "item" /\ NextItem /\ Accepted(first)
    BY <1>4, <2>1 DEF StoreItem
  <2>3. CASE first.fits /\ ~poisoned
    <3>1. txHist' = Upsert(txHist, [k \in {HistKey(first)} |-> Row(first)])
          /\ poisoned' = poisoned
      BY <1>4, <2>1, <2>3 DEF StoreItem, HistKey
    <3>2. DOMAIN txHist' = DOMAIN txHist \union {HistKey(first)}
      BY <3>1 DEF Upsert
    <3> QED
      BY <2>1, <2>2, <3>1, <3>2, RerunOne
  <2>4. CASE ~(first.fits /\ ~poisoned)
    <3>1. txHist' = txHist /\ poisoned'
      BY <1>4, <2>1, <2>4 DEF StoreItem
    <3> QED
      BY <2>1, <2>2, <3>1, RerunOne
  <2> QED
    BY <2>3, <2>4
<1>5. CASE CommitData
  BY <1>5, RerunCommit
<1>6. CASE CommitStatus
  BY <1>6 DEF CommitStatus, RerunInv, Open
<1>7. CASE DataRefused \/ Invalidate \/ Fault
  BY <1>7 DEF DataRefused, Invalidate, Fault, Close, RerunInv, Open, tables, NoRows
<1>8. CASE UNCHANGED vars
  BY <1>8 DEF vars, tables, locals, RerunInv, Open, HistKey, ObservedAt
<1> QED
  BY <1>1, <1>2, <1>3, <1>4, <1>5, <1>6, <1>7, <1>8 DEF Next, CycleStep

\* Only the first commit changes the history.
LEMMA OnlyCommitAdds == ASSUME [Next]_vars, ~CommitData PROVE hist' = hist
BY DEF Next, CycleStep, StartCycle, FetchCategory, SkipItem, QuarantineItem,
   StoreItem, NextItem, DataRefused, CommitStatus, Invalidate, Fault, vars, tables

\* A cycle that receives only records committed before adds rows of its undated
\* records, under its own started_at, and no others, whatever else the source
\* sends in other cycles (docs/01:88, fund_sync.py:78-83).
THEOREM Rerun == Spec => RerunAddsUndatedOnly
<1> DEFINE Step == seen \subseteq before => DOMAIN hist' \ DOMAIN hist \subseteq Undated
           Inv == RowsInv /\ CountInv /\ RerunInv
<1>1. Inv /\ [Next]_vars => [Step]_vars
  <2> SUFFICES ASSUME RerunInv, [Next]_vars, seen \subseteq before,
                      NEW k \in DOMAIN hist', k \notin DOMAIN hist
               PROVE  k \in Undated
    OBVIOUS
  <2>1. CommitData
    BY OnlyCommitAdds
  <2>2. k \in DOMAIN txHist /\ Open
    BY <2>1 DEF CommitData, Upsert, Open
  <2>3. PICK item \in seen : Accepted(item) /\ k = HistKey(item)
    BY <2>2 DEF RerunInv
  <2>4. item.day = None
    <3> SUFFICES ASSUME item.day # None PROVE FALSE
      OBVIOUS
    <3>1. DatedKey(item) \in DOMAIN hist
      BY <2>3 DEF RerunInv
    <3> QED
      BY <2>3, <3>1 DEF HistKey, DatedKey, ObservedAt
  <2> QED
    BY <2>3, <2>4 DEF HistKey, ObservedAt, Undated
<1>2. Init => Inv
  BY RowsInit, CountInit, RerunInit
<1>3. Inv /\ [Next]_vars => Inv'
  BY RowsStep, CountStep, RerunStep
<1> HIDE DEF Step, Inv
<1>4. Spec => [][Step]_vars
  BY <1>1, <1>2, <1>3, PTL DEF Spec
<1> QED
  BY <1>4 DEF RerunAddsUndatedOnly, Step
=============================================================================
