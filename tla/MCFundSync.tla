----------------------------- MODULE MCFundSync -----------------------------
(* Constants for TLC. *)
EXTENDS FundSync

Rec(reg, nav, agrees, day) ==
  [reg |-> reg, nav |-> nav, agrees |-> agrees, day |-> day, fits |-> TRUE]

BothCategories == <<6, 4>>
StockCategory == <<6>>
TwoStamps == {101, 102}

Refused(item) == [item EXCEPT !.fits = FALSE]

\* A sound record, one whose NAV moves, one quarantined, one that does not parse,
\* one without a number, one without a NAV and a date, one the database refuses,
\* and two violations of one fund on one day.
SomeResponses == {
  <<>>,
  <<Rec(1, 3, TRUE, 1)>>,
  <<Rec(1, 5, TRUE, 1), Rec(2, 3, TRUE, 1)>>,
  <<Rec(1, 5, FALSE, 1), Rec(2, 3, TRUE, Garbage)>>,
  <<Rec(0, 3, TRUE, 1), Rec(2, None, TRUE, None)>>,
  <<Refused(Rec(2, 3, TRUE, 1)), Rec(1, 3, TRUE, 1)>>,
  <<Rec(2, 3, FALSE, 1), Rec(2, 3, FALSE, 1)>> }

RefusedResponses == {
  <<>>,
  <<Rec(1, 3, TRUE, 1)>>,
  <<Refused(Rec(2, 3, TRUE, 1))>>,
  <<Rec(2, 3, FALSE, 1)>> }
=============================================================================
