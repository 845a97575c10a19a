--------------------------- MODULE ProgressLedger ---------------------------
(***************************************************************************)
(* What the backfill promises the dashboard, apart from how it works: rows *)
(* of the history are only ever added; the count of a source is recorded   *)
(* only when that many rows are there; an attempt without an answer leaves *)
(* the recorded count alone; nothing but an attempt makes the record young. *)
(* services/history_bootstrap.py, docs/03-data-pipeline.md:104-106.         *)
(***************************************************************************)
EXTENDS Integers, FiniteSets

CONSTANTS
  Funds,
  Days,
  AgeCap,       \* ages saturate here
  None          \* NULL

VARIABLES
  stored,       \* the days with a row, for each fund
  sourceCount,  \* the count of its source on record
  checkedAge    \* age of that record

ledger == <<stored, sourceCount, checkedAge>>

Init ==
  /\ stored \in [Funds -> SUBSET Days]
  /\ sourceCount = [f \in Funds |-> None]
  /\ checkedAge = [f \in Funds |-> None]

Grow(f) ==
  /\ stored[f] \subseteq stored'[f]
  /\ stored' = [stored EXCEPT ![f] = stored'[f]]
  /\ UNCHANGED <<sourceCount, checkedAge>>

Attest(f) ==
  /\ \E n \in 0..Cardinality(stored[f]) :
       sourceCount' = [sourceCount EXCEPT ![f] = n]
  /\ checkedAge' = [checkedAge EXCEPT ![f] = 0]
  /\ UNCHANGED stored

Attempt(f) ==
  /\ checkedAge' = [checkedAge EXCEPT ![f] = 0]
  /\ UNCHANGED <<stored, sourceCount>>

Age ==
  /\ checkedAge' = [f \in Funds |->
       IF checkedAge[f] = None \/ checkedAge[f] = AgeCap
       THEN checkedAge[f] ELSE checkedAge[f] + 1]
  /\ UNCHANGED <<stored, sourceCount>>

Next == Age \/ \E f \in Funds : Grow(f) \/ Attest(f) \/ Attempt(f)

Spec == Init /\ [][Next]_ledger
=============================================================================
