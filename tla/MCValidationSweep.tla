-------------------------- MODULE MCValidationSweep --------------------------
(* Constants for TLC. *)
EXTENDS ValidationSweep

Row(nav) == [nav |-> nav, aum |-> 1]

On(days, nav(_)) == [d \in days |-> Row(nav(d))]

\* Daily and flat with a jump near the end (and, once the backfill has been over it,
\* without), daily and noisy, daily with missing
\* values early, sparse, with a gap, and one old row.
SomeHistories == {
  On(1..22, LAMBDA d : IF d < 21 THEN 10 ELSE 20),
  On(1..22, LAMBDA d : IF d = 19 THEN 40 ELSE IF d % 2 = 0 THEN 11 ELSE 10),
  On(1..22, LAMBDA d : IF d \in {3, 7} THEN None ELSE IF d = 20 THEN 40 ELSE IF d % 3 = 0 THEN 11 ELSE 10),
  On({2, 5, 8, 10, 13, 16, 19}, LAMBDA d : IF d = 16 THEN 20 ELSE 10),
  On({4, 14, 17}, LAMBDA d : 10),
  On({2}, LAMBDA d : 10) }

SomeLive == {Row(None), Row(20)}
SomeBackfill == {Row(None), Row(11)}
=============================================================================
