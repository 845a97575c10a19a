----------------------------- MODULE BreakerGate -----------------------------
(***************************************************************************)
(* What the circuit breaker promises the jobs that share it, apart from how *)
(* it works: a gate that counts the failures since the last success and,    *)
(* once they have reached Threshold, lets no call in until Cooldown has     *)
(* passed since the last of them. The first call after that finds the count *)
(* cleared. Only calls that are inside report anything, and a call that is  *)
(* turned away changes nothing. services/providers.py:44-92.                *)
(***************************************************************************)
EXTENDS Integers

CONSTANTS
  Threads,
  Threshold,
  Cooldown

VARIABLES
  count,     \* failures since the last success
  age,       \* since the last failure, saturating beyond Cooldown
  inside     \* the calls under way

gate == <<count, age, inside>>

Init == count = 0 /\ age = Cooldown + 1 /\ inside = {}

Shut == count >= Threshold

Enter(t) ==
  /\ t \notin inside
  /\ ~(Shut /\ age <= Cooldown)
  /\ inside' = inside \union {t}
  /\ count' = IF Shut THEN 0 ELSE count
  /\ UNCHANGED age

\* Success opens the gate, also for those outside.
Succeed(t) ==
  /\ t \in inside
  /\ inside' = inside \ {t}
  /\ count' = 0
  /\ UNCHANGED age

\* A failure counts, with the gate shut or not; the call tries again or gives up.
Fail(t) ==
  /\ t \in inside
  /\ inside' \in {inside, inside \ {t}}
  /\ count' = count + 1
  /\ age' = 0

Tick ==
  /\ age <= Cooldown
  /\ age' = age + 1
  /\ UNCHANGED <<count, inside>>

Next == Tick \/ \E t \in Threads : Enter(t) \/ Succeed(t) \/ Fail(t)

Spec == Init /\ [][Next]_gate
=============================================================================
