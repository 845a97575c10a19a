---------------------------- MODULE BackfillAudit ----------------------------
(***************************************************************************)
(* Backfill with history variables: when each fund was last downloaded,    *)
(* when its source last answered, and whether the attempt left its trace   *)
(* in history_backfill_state.  They are observed, never read by a guard.   *)
(***************************************************************************)
EXTENDS Backfill

VARIABLES
  fetchAge,     \* age of the last download started
  successAge,   \* age of the last answer whose rows were committed
  unmarked      \* funds whose last attempt has not been recorded

audit == <<fetchAge, successAge, unmarked>>

AuditInit ==
  /\ Init
  /\ fetchAge = [f \in Funds |-> None]
  /\ successAge = [f \in Funds |-> None]
  /\ unmarked = {}

Starts(f) == pc = "batch" /\ pc' = "fetch" /\ cur' = f

\* What a step of Backfill adds to the history.
Observe ==
  IF Tick
  THEN /\ fetchAge' = [f \in Funds |-> Older(fetchAge[f])]
       /\ successAge' = [f \in Funds |-> Older(successAge[f])]
       /\ UNCHANGED unmarked
  ELSE /\ fetchAge' = [f \in Funds |-> IF Starts(f) THEN 0 ELSE fetchAge[f]]
       /\ successAge' = [f \in Funds |->
            IF cur = f /\ StoreHistory THEN 0 ELSE successAge[f]]
       /\ unmarked' = {f \in Funds :
            \/ Starts(f)
            \/ f \in unmarked /\ ~(MarkChecked /\ cur = f)}

AuditNext == Next /\ Observe

AuditSpec == AuditInit /\ [][AuditNext]_<<vars, audit>>

-----------------------------------------------------------------------------
(* Properties. *)

\* A fund is downloaded again only after its window: 15 minutes when nothing
\* is known about its source, 6 hours when a count is on record; unless the
\* last attempt could not be recorded (history_bootstrap.py:29-34).
RetrySpacing ==
  [][\A f \in Funds : Starts(f) =>
       \/ fetchAge[f] = None
       \/ f \in unmarked
       \/ fetchAge[f] > (IF sourceCount[f] = None THEN FailedRetry ELSE Retry)]_<<vars, audit>>

\* "everything the source had is stored (freshly confirmed)" (docs/03:104,
\* web.py:642-645): a fund counted complete although it is short of the target
\* was answered for by the source within the window.
ConfirmedRecently ==
  \A f \in Funds : SourceLimited(f) =>
    successAge[f] # None /\ successAge[f] <= MaxAge
=============================================================================
