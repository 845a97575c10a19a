----------------------------- MODULE MCBackfill -----------------------------
(* Constants for TLC. *)
EXTENDS Backfill, TLC
CONSTANTS f1, f2, f3
TwoFunds == {f1, f2}
ThreeFunds == {f1, f2, f3}
OnlyF1 == {f1}
TwoDays == 1..2
OneDay == 1..1
NoFunds == {}
Symmetry == Permutations(Funds)
=============================================================================
