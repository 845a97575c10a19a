----------------------------- MODULE MCFundChart -----------------------------
(* Constants for TLC. *)
EXTENDS FundChart

At(nav, units) == [nav |-> nav, aum |-> nav * units]

Unpriced == [nav |-> None, aum |-> 8]
Unvalued == [nav |-> 4, aum |-> None]

\* Daily, with steady units and with a subscription; sparse.
SomeHistories == {
  [d \in 1..5 |-> At(<<4, 6, 3, 4, 4>>[d], 1)],
  [d \in 1..5 |-> At(<<4, 4, 6, 2, 3>>[d], IF d < 4 THEN 1 ELSE 2)],
  [d \in {2, 5} |-> At(4, 2)] }

\* The live sync gets the same records and stores 0 for what is missing.
SomeLive == {Unpriced, Unvalued, At(6, 2)}
SomeBackfill == {Unpriced, Unvalued, At(8, 1)}
=============================================================================
