---------------------------- MODULE MCEtfMapping ----------------------------
(* Constants for TLC: either symbol occurs in either name. *)
EXTENDS EtfMapping
CONSTANTS f1, f2, c1, c2
TwoFunds == {f1, f2}
TwoCodes == {c1, c2}
EveryName == TwoCodes \X TwoFunds
SomeQuotes == {[nav |-> 0, sub |-> 0, red |-> 0], [nav |-> 20, sub |-> 13, red |-> 10],
               [nav |-> 13, sub |-> 20, red |-> 0]}
=============================================================================
