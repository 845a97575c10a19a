----------------------------- MODULE Publication -----------------------------
(***************************************************************************)
(* What a cycle of the fund sync promises the readers of the database,     *)
(* apart from how it works: the registry, the history and the violations   *)
(* change together, every row that changes has passed validation, and the  *)
(* status comes after the data it speaks of, with counts that add up.      *)
(* services/fund_sync.py:22-29, docs/03-data-pipeline.md:36-46.            *)
(***************************************************************************)
EXTENDS Integers

CONSTANTS
  Stamps,     \* values of started_at
  None        \* NULL

VARIABLES
  funds,      \* registry: reg |-> row
  hist,       \* history: <<reg, observed_at>> |-> row
  issues,     \* keys <<reg, rule, observed_at>> of the violations on record
  status,     \* the status row, None before the first
  dataStamps  \* the cycles whose data is there

published == <<funds, hist, issues, status, dataStamps>>

Init ==
  /\ funds = [x \in {} |-> 0] /\ hist = [x \in {} |-> 0]
  /\ issues = {} /\ status = None /\ dataStamps = {}

Validated(row) == row.nav # 0 => row.agrees

\* A registry row that changes is the row of an observation in the history.
Observed(r) == \E k \in DOMAIN hist' : k[1] = r /\ hist'[k] = funds'[r]

Publish(stamp) ==
  /\ DOMAIN funds \subseteq DOMAIN funds' /\ DOMAIN hist \subseteq DOMAIN hist'
  /\ \A r \in DOMAIN funds' :
       (r \in DOMAIN funds /\ funds'[r] = funds[r])
         \/ (Validated(funds'[r]) /\ Observed(r))
  /\ \A k \in DOMAIN hist' :
       (k \in DOMAIN hist /\ hist'[k] = hist[k]) \/ Validated(hist'[k])
  /\ issues \subseteq issues'
  /\ dataStamps' = dataStamps \union {stamp}
  /\ UNCHANGED status

Balanced(count) ==
  count.received = count.expected /\ count.valid + count.failed = count.received

Announce(stamp) ==
  /\ stamp \in dataStamps
  /\ UNCHANGED <<funds, hist, issues, dataStamps>>
  /\ status'.startedAt = stamp
  /\ Balanced(status'.count)
  /\ status'.status = "healthy" <=> status'.count.failed = 0

Next == \E stamp \in Stamps : Publish(stamp) \/ Announce(stamp)

Spec == Init /\ [][Next]_published
=============================================================================
