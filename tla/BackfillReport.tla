---------------------------- MODULE BackfillReport ---------------------------
(***************************************************************************)
(* GET /api/dashboard/history-backfill (routers/web.py) beside the backfill *)
(* job.  The endpoint asks three questions, each a statement of its own     *)
(* under READ COMMITTED: it may see three different databases.              *)
(***************************************************************************)
EXTENDS BackfillAudit

VARIABLES
  active,       \* the funds with net_asset > 0
  rpc,          \* where the request stands
  total,        \* total_eligible
  full,         \* the funds the first query counts
  limited,      \* the funds the second query counts
  steady        \* history: funds active and complete since the request began

request == <<rpc, total, full, limited>>

ReportInit ==
  /\ AuditInit
  /\ active \in SUBSET Funds
  /\ rpc = "idle" /\ total = 0 /\ full = {} /\ limited = {}
  /\ steady = {}

AskTotal ==
  /\ rpc = "idle"
  /\ rpc' = "full"
  /\ total' = Cardinality(active)
  /\ steady' = {f \in active : Complete(f)}
  /\ UNCHANGED <<vars, audit, active, full, limited>>

AskFull ==
  /\ rpc = "full"
  /\ rpc' = "limited"
  /\ full' = {f \in active : Full(f)}
  /\ UNCHANGED <<vars, audit, active, total, limited, steady>>

\* The cutoff of the second query is a tick too strict.
VarAskLimitedStrict ==
  /\ rpc = "limited"
  /\ rpc' = "done"
  /\ limited' = {f \in active : SourceLimited(f) /\ checkedAge[f] < MaxAge}
  /\ UNCHANGED <<vars, audit, active, total, full, steady>>

AskLimited ==
  /\ rpc = "limited"
  /\ rpc' = "done"
  /\ limited' = {f \in active : SourceLimited(f)}
  /\ UNCHANGED <<vars, audit, active, total, full, steady>>

Answer ==
  /\ rpc = "done"
  /\ rpc' = "idle" /\ total' = 0 /\ full' = {} /\ limited' = {} /\ steady' = {}
  /\ UNCHANGED <<vars, audit, active>>

\* The fund sync writes net_asset.
SyncNetAsset(f) ==
  /\ active' = (active \ {f}) \union ({f} \ active)
  /\ steady' = steady \ {f}
  /\ UNCHANGED <<vars, audit, request>>

BackfillStep ==
  /\ AuditNext
  /\ steady' = {f \in steady : Complete(f)'}
  /\ UNCHANGED <<active, request>>

ReportNext ==
  \/ AskTotal \/ AskFull \/ AskLimited \/ Answer
  \/ \E f \in Funds : SyncNetAsset(f)
  \/ BackfillStep

ReportSpec == ReportInit /\ [][ReportNext]_<<vars, audit, active, request, steady>>

-----------------------------------------------------------------------------
(* Properties. *)

\* complete = full + source_limited counts no fund twice, although the two
\* numbers come from two statements and rows are added in between.
NoDoubleCount == full \intersect limited = {}

\* "complete: either 90 records are stored, or everything the source has is"
\* (web.py:642-645): a fund that is complete all the while the request runs is
\* left out of the number only when it reached the target between the two
\* statements, so the next answer has it.
MissedIsFull ==
  rpc = "done" => \A f \in steady : f \in full \union limited \/ Full(f)
=============================================================================
