--------------------------- MODULE MCBackfillAudit --------------------------
(* The observed backfill with the constants of MCBackfill. *)
EXTENDS MCBackfill, BackfillAudit
=============================================================================
