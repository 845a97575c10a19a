------------------------------ MODULE FundRows ------------------------------
(***************************************************************************)
(* The rows of one fund in fund_histories and those who write them while    *)
(* others read: the live sync, which dates its row with the day of the      *)
(* record and turns a missing number into 0 (preprocessing.py:47-50,        *)
(* against docs/03:242), and the backfill, which overwrites any day of the  *)
(* past and keeps what is missing missing (history_bootstrap.py:184-194).   *)
(*                                                                         *)
(* There is one row per day. The code has one per observed_at: an undated   *)
(* live record gets the start of its cycle for a key (fund_sync.py:82), so  *)
(* a day could have several; those are left out.                            *)
(***************************************************************************)
EXTENDS Integers, FiniteSets

CONSTANTS
  None,          \* NULL
  Histories,     \* the rows at the start: functions from days to rows
  LiveRecords,   \* records of the fund the live sync may receive and accept
  BackfillRows,  \* rows the backfill may write
  RepairDays,    \* the days the backfill may overwrite
  Start, MaxDay, \* the first and the last day
  MaxChanges     \* bound on the rows written

\* A number or missing, each of them.
IsRow(row) == row.nav \in Nat \union {None} /\ row.aum \in Nat \union {None}

ASSUME FundRowsAssumption ==
  /\ Start \in Nat \ {0} /\ MaxDay \in Nat /\ MaxChanges \in Nat
  /\ \A h \in Histories : DOMAIN h \subseteq 1..Start /\ \A d \in DOMAIN h : IsRow(h[d])
  /\ RepairDays \subseteq Nat \ {0}
  /\ \A row \in LiveRecords \union BackfillRows : IsRow(row)

VARIABLES
  rows,      \* day |-> [nav, aum]
  now,       \* today
  changes

fundRows == <<rows, now, changes>>

RowsInit == rows \in Histories /\ now = Start /\ changes = 0

Write(d, row) ==
  /\ changes < MaxChanges
  /\ changes' = changes + 1
  /\ rows' = [e \in DOMAIN rows \union {d} |-> IF e = d THEN row ELSE rows[e]]
  /\ UNCHANGED now

\* clean_fund_data: float(x or 0.0).
Number(x) == IF x = None THEN 0 ELSE x

\* A record is of today, or still of yesterday.
LiveRow == \E d \in {now - 1, now} \ {0}, record \in LiveRecords :
             Write(d, [nav |-> Number(record.nav), aum |-> Number(record.aum)])

BackfillRow == \E d \in RepairDays, row \in BackfillRows : d <= now /\ Write(d, row)

NewDay ==
  /\ now < MaxDay
  /\ now' = now + 1
  /\ UNCHANGED <<rows, changes>>

-----------------------------------------------------------------------------
(* Days in order. *)

Latest(S) == CHOOSE d \in S : \A e \in S : e <= d

Before(S, d) == {e \in S : e < d}

Rank(S, d) == Cardinality(Before(S, d)) + 1

\* The k-th day of S.
Nth(S, k) == CHOOSE d \in S : Rank(S, d) = k
=============================================================================
