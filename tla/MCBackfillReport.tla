--------------------------- MODULE MCBackfillReport --------------------------
(* The progress report beside the observed backfill, constants of MCBackfill. *)
EXTENDS MCBackfill, BackfillReport
=============================================================================
