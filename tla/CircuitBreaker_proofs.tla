------------------------ MODULE CircuitBreaker_proofs -----------------------
(***************************************************************************)
(* Proofs about CircuitBreaker: its type invariant, the agreement of the   *)
(* flag with the counter, that no single call opens the breaker, and that  *)
(* it implements the gate it promises; for any number of threads, any      *)
(* threshold above the number of attempts.                                 *)
(***************************************************************************)
EXTENDS CircuitBreaker, FiniteSetTheorems, TLAPS

\* Failures of t's call so far.
Failed(t) == IF pc[t] = "sleep" THEN attempt[t] + 1 ELSE attempt[t]

\* While fewer than two calls are behind the count, the count is what they
\* alone can have produced.
FewCallsFewFailures ==
  /\ \A t \in live : pc[t] \in {"send", "sleep"}
  /\ ended = 0 /\ live = {} => failures = 0
  /\ ended = 1 /\ live = {} => failures <= Retries
  /\ \A t \in Threads : ended = 0 /\ live = {t} => failures <= Failed(t)

Inv == TypeOK /\ OpenIffThreshold /\ FewCallsFewFailures

\* The part of the assumption the arithmetic needs.
LEMMA Numbers ==
  /\ Threshold \in Nat /\ Cooldown \in Nat /\ Retries \in Nat
  /\ 0 < Retries /\ Retries < Threshold
  /\ MaxSince \in Nat /\ MaxSince = Cooldown + 1
  BY BreakerAssumption DEF MaxSince

\* The initial state satisfies the inductive invariant.
LEMMA InitInv == Init => Inv
<1> SUFFICES ASSUME Init PROVE Inv
  OBVIOUS
<1>1. TypeOK
  <2>1. failures \in Nat /\ isOpen \in BOOLEAN /\ ended \in Nat /\ live \subseteq Threads
    BY DEF Init
  <2>2. sinceFailure \in 0..MaxSince
    BY Numbers DEF Init
  <2>3. pc \in [Threads -> {"idle", "send", "sleep"}]
    BY DEF Init
  <2>4. attempt \in [Threads -> 0..(Retries - 1)]
    BY Numbers DEF Init
  <2>5. \A t \in Threads : pc[t] = "sleep" => attempt[t] < Retries - 1
    BY DEF Init
  <2> QED
    BY <2>1, <2>2, <2>3, <2>4, <2>5 DEF TypeOK
<1>2. OpenIffThreshold
  BY Numbers DEF Init, OpenIffThreshold
<1>3. \A t \in Threads : live # {t}
  BY DEF Init
<1>4. FewCallsFewFailures
  BY <1>3, Numbers DEF Init, FewCallsFewFailures
<1> QED
  BY <1>1, <1>2, <1>4 DEF Inv

\* What a reset of the breaker re-establishes.
LEMMA ResetInv ==
  ASSUME Inv, Reset, sinceFailure' = sinceFailure,
         pc' \in [Threads -> {"idle", "send", "sleep"}],
         attempt' \in [Threads -> 0..(Retries - 1)],
         \A t \in Threads : pc'[t] = "sleep" => attempt'[t] < Retries - 1
  PROVE  Inv'
<1>1. TypeOK'
  BY DEF Reset, Inv, TypeOK, MaxSince
<1>2. OpenIffThreshold'
  BY Numbers DEF Reset, OpenIffThreshold
<1>3. \A t \in Threads : live' # {t}
  BY DEF Reset
<1>4. FewCallsFewFailures'
  BY <1>3, Numbers DEF Reset, FewCallsFewFailures
<1> QED
  BY <1>1, <1>2, <1>4 DEF Inv

\* A failed attempt: the type, the flag, and the failures of few calls.
LEMMA FailureInv ==
  ASSUME Inv, NEW t \in Threads, AttemptFails(t)
  PROVE  Inv'
<1> DEFINE last == attempt[t] = Retries - 1
<1> USE Numbers
<1>1. TypeOK'
  <2>1. CASE last
    BY <2>1 DEF AttemptFails, RecordFailure, Inv, TypeOK
  <2>2. CASE ~last
    BY <2>2 DEF AttemptFails, RecordFailure, Inv, TypeOK
  <2> QED
    BY <2>1, <2>2
<1>2. OpenIffThreshold'
  <2>1. failures \in Nat /\ isOpen \in BOOLEAN /\ (isOpen <=> failures >= Threshold)
    BY DEF Inv, TypeOK, OpenIffThreshold
  <2>2. failures' = failures + 1 /\ isOpen' = (isOpen \/ failures + 1 >= Threshold)
    BY DEF AttemptFails, RecordFailure
  <2>3. CASE isOpen
    <3>1. failures' >= Threshold
      BY <2>1, <2>2, <2>3
    <3>2. isOpen'
      BY <2>2, <2>3
    <3> QED
      BY <3>1, <3>2 DEF OpenIffThreshold
  <2>4. CASE ~isOpen
    BY <2>1, <2>2, <2>4 DEF OpenIffThreshold
  <2> QED
    BY <2>3, <2>4
<1>3. \A s \in live' : pc'[s] \in {"send", "sleep"}
  BY DEF AttemptFails, Inv, TypeOK, FewCallsFewFailures
<1>4. failures' = failures + 1 /\ failures \in Nat /\ ended \in Nat
  BY DEF AttemptFails, RecordFailure, Inv, TypeOK
<1>5. CASE last
  <2>1. ended' = ended + 1 /\ live' = live \ {t}
    BY <1>5 DEF AttemptFails
  <2>2. ASSUME ended' = 1, live' = {} PROVE failures' <= Retries
    <3>1. ended = 0 /\ (live = {} \/ live = {t})
      BY <1>4, <2>1, <2>2
    <3>2. Failed(t) = Retries - 1
      BY <1>5 DEF Failed, AttemptFails
    <3> QED
      BY <1>4, <3>1, <3>2 DEF Inv, FewCallsFewFailures
  <2>3. FewCallsFewFailures'
    BY <1>3, <1>4, <2>1, <2>2 DEF FewCallsFewFailures
  <2> QED
    BY <1>1, <1>2, <2>3 DEF Inv
<1>6. CASE ~last
  <2>1. ended' = ended /\ live' = live \union {t} /\ live' # {}
    BY <1>6 DEF AttemptFails
  <2>2. ASSUME NEW s \in Threads, ended' = 0, live' = {s} PROVE failures' <= Failed(s)'
    <3>1. s = t /\ (live = {} \/ live = {t})
      BY <2>1, <2>2
    <3>2. Failed(t) = attempt[t] /\ Failed(t)' = attempt[t] + 1 /\ attempt[t] \in Nat
      BY <1>6 DEF Failed, AttemptFails, Inv, TypeOK
    <3>3. failures <= Failed(t)
      BY <1>4, <2>1, <2>2, <3>1, <3>2 DEF Inv, FewCallsFewFailures
    <3> QED
      BY <1>4, <3>1, <3>2, <3>3
  <2>3. FewCallsFewFailures'
    BY <1>3, <2>1, <2>2 DEF FewCallsFewFailures
  <2> QED
    BY <1>1, <1>2, <2>3 DEF Inv
<1> QED
  BY <1>5, <1>6

\* Every step preserves it.
LEMMA NextInv == Inv /\ [Next]_vars => Inv'
<1> SUFFICES ASSUME Inv, [Next]_vars PROVE Inv'
  OBVIOUS
<1>1. CASE Tick
  <2>1. sinceFailure' \in 0..MaxSince
    BY <1>1, Numbers DEF Tick, Inv, TypeOK
  <2>2. /\ failures' = failures /\ isOpen' = isOpen /\ pc' = pc
        /\ attempt' = attempt /\ ended' = ended /\ live' = live
    BY <1>1 DEF Tick, culprits
  <2>3. TypeOK'
    BY <2>1, <2>2 DEF Inv, TypeOK
  <2>4. OpenIffThreshold'
    <3>1. (isOpen <=> failures >= Threshold) /\ isOpen \in BOOLEAN
      BY DEF Inv, TypeOK, OpenIffThreshold
    <3> QED
      BY <2>2, <3>1 DEF OpenIffThreshold
  <2>5. FewCallsFewFailures'
    BY <2>2 DEF Inv, FewCallsFewFailures, Failed
  <2> QED
    BY <2>3, <2>4, <2>5 DEF Inv
<1>2. ASSUME NEW t \in Threads, Step(t) PROVE Inv'
  <2>1. CASE Call(t)
    <3>1. /\ pc' \in [Threads -> {"idle", "send", "sleep"}]
          /\ attempt' \in [Threads -> 0..(Retries - 1)]
          /\ \A s \in Threads : pc'[s] = "sleep" => attempt'[s] < Retries - 1
      BY <2>1, Numbers DEF Call, Inv, TypeOK
    <3>2. CASE isOpen
      BY <2>1, <3>1, <3>2, ResetInv DEF Call, Admit
    <3>3. CASE ~isOpen
      <4>1. t \notin live
        BY <2>1 DEF Call, Inv, FewCallsFewFailures
      <4>2. \A s \in live : pc'[s] = pc[s] /\ attempt'[s] = attempt[s]
        BY <2>1, <4>1 DEF Call, Inv, TypeOK
      <4> QED
        BY <2>1, <3>1, <3>3, <4>1, <4>2
        DEF Call, Admit, Inv, TypeOK, OpenIffThreshold, FewCallsFewFailures, Failed, culprits
    <3> QED
      BY <3>2, <3>3
  <2>2. CASE CallRejected(t)
    BY <2>2 DEF CallRejected, vars, breaker, culprits, Inv, TypeOK, OpenIffThreshold,
       FewCallsFewFailures, Failed
  <2>3. CASE AttemptSucceeds(t)
    BY <2>3, ResetInv DEF AttemptSucceeds, RecordSuccess, Inv, TypeOK
  <2>4. CASE AttemptFails(t)
    BY <2>4, FailureInv
  <2>5. CASE Retry(t)
    BY <2>5, Numbers DEF Retry, breaker, culprits, Inv, TypeOK, OpenIffThreshold,
       FewCallsFewFailures, Failed
  <2> QED
    BY <1>2, <2>1, <2>2, <2>3, <2>4, <2>5 DEF Step
<1>3. CASE UNCHANGED vars
  BY <1>3 DEF vars, breaker, culprits, Inv, TypeOK, OpenIffThreshold,
     FewCallsFewFailures, Failed
<1> QED
  BY <1>1, <1>2, <1>3 DEF Next

\* The inductive invariant holds in every reachable state.
LEMMA Invariance == Spec => []Inv
  BY InitInv, NextInv, PTL DEF Spec

\* Type correctness of the breaker and of every thread that calls it.
THEOREM TypeCorrect == Spec => []TypeOK
  <1>1. Inv => TypeOK
    BY DEF Inv
  <1> QED
    BY <1>1, Invariance, PTL

\* The breaker is open exactly when the count has reached the threshold,
\* in every interleaving of late successes, late failures and cooldowns.
THEOREM FlagAgreesWithCounter == Spec => []OpenIffThreshold
  <1>1. Inv => OpenIffThreshold
    BY DEF Inv
  <1> QED
    BY <1>1, Invariance, PTL

\* With more failures to the threshold than attempts in a call, no call opens
\* the breaker alone: at least two have failed since the last success.
THEOREM TwoCallsOpenIt == Spec => []OpenNeedsTwoCalls
  <1>1. Inv => OpenNeedsTwoCalls
    <2> SUFFICES ASSUME Inv, isOpen PROVE ended + Cardinality(live) >= 2
      BY DEF OpenNeedsTwoCalls
    <2>1. IsFiniteSet(live) /\ Cardinality(live) \in Nat
      BY BreakerAssumption, FS_Subset, FS_CardinalityType DEF Inv, TypeOK
    <2>2. failures >= Threshold /\ failures > Retries
      BY BreakerAssumption DEF Inv, TypeOK, OpenIffThreshold
    <2>3. ASSUME NEW t \in Threads PROVE Failed(t) <= Retries
      BY BreakerAssumption DEF Inv, TypeOK, Failed
    <2>4. live = {} => ended >= 2
      BY <2>2, BreakerAssumption DEF Inv, TypeOK, FewCallsFewFailures
    <2>5. \A t \in Threads : live = {t} => ended >= 1
      BY <2>2, <2>3, BreakerAssumption DEF Inv, TypeOK, FewCallsFewFailures, Failed
    <2>6. Cardinality(live) = 0 => live = {}
      BY <2>1, FS_EmptySet
    <2>7. Cardinality(live) = 1 => \E t \in Threads : live = {t}
      BY <2>1, FS_Singleton DEF Inv, TypeOK
    <2> QED
      BY <2>1, <2>4, <2>5, <2>6, <2>7 DEF Inv, TypeOK
  <1> QED
    BY <1>1, Invariance, PTL

-----------------------------------------------------------------------------
(* The gate.                                                               *)

\* The calls under way.
Inside == {t \in Threads : pc[t] # "idle"}

\* A thread that starts or ends its call is the only one that goes in or out.
LEMMA InsideAfter ==
  ASSUME TypeOK, NEW t \in Threads, NEW where \in {"idle", "send", "sleep"},
         pc' = [pc EXCEPT ![t] = where]
  PROVE  Inside' = IF where = "idle" THEN Inside \ {t} ELSE Inside \union {t}
<1>1. pc'[t] = where /\ \A s \in Threads \ {t} : pc'[s] = pc[s]
  BY DEF TypeOK
<1> QED
  BY <1>1 DEF Inside

\* Every step of the threads and of the clock is a step of the gate or a stutter.
LEMMA GateStep == Inv /\ [Next]_vars => [Gate!Next]_(Gate!gate)
<1> SUFFICES ASSUME Inv, [Next]_vars PROVE [Gate!Next]_(Gate!gate)
  OBVIOUS
<1> USE DEF Inside
<1>0. /\ TypeOK /\ failures \in Nat /\ isOpen \in BOOLEAN
      /\ isOpen <=> failures >= Threshold
  BY DEF Inv, TypeOK, OpenIffThreshold
<1>1. CASE Tick
  <2>1. failures' = failures /\ pc' = pc
    BY <1>1 DEF Tick
  <2>2. sinceFailure \in 0 .. Cooldown + 1 /\ Cooldown \in Nat
    BY <1>0, Numbers DEF TypeOK
  <2>3. CASE sinceFailure <= Cooldown
    <3>1. sinceFailure' = sinceFailure + 1
      BY <1>1, <2>2, <2>3, Numbers DEF Tick
    <3> QED
      BY <2>1, <2>3, <3>1 DEF Gate!Next, Gate!Tick
  <2>4. CASE ~(sinceFailure <= Cooldown)
    <3>1. sinceFailure' = sinceFailure
      BY <1>1, <2>2, <2>4, Numbers DEF Tick
    <3> QED
      BY <2>1, <3>1 DEF Gate!gate
  <2> QED
    BY <2>3, <2>4
<1>2. ASSUME NEW t \in Threads, Call(t) PROVE [Gate!Next]_(Gate!gate)
  <2>1. Inside' = Inside \union {t} /\ t \notin Inside
    <3>1. pc' = [pc EXCEPT ![t] = "send"] /\ pc[t] = "idle"
      BY <1>2 DEF Call
    <3> QED
      BY <1>0, <3>1, InsideAfter
  <2>2. /\ ~(isOpen /\ sinceFailure <= Cooldown)
        /\ sinceFailure' = sinceFailure
        /\ failures' = IF isOpen THEN 0 ELSE failures
    BY <1>2 DEF Call, Admit, CoolingDown, Reset
  <2>3. Gate!Enter(t)
    BY <1>0, <2>1, <2>2 DEF Gate!Enter, Gate!Shut
  <2> QED
    BY <2>3 DEF Gate!Next
<1>3. ASSUME NEW t \in Threads, AttemptSucceeds(t) PROVE [Gate!Next]_(Gate!gate)
  <2>1. Inside' = Inside \ {t} /\ t \in Inside
    <3>1. pc' = [pc EXCEPT ![t] = "idle"] /\ pc[t] = "send"
      BY <1>3 DEF AttemptSucceeds
    <3> QED
      BY <1>0, <3>1, InsideAfter
  <2>2. failures' = 0 /\ sinceFailure' = sinceFailure
    BY <1>3 DEF AttemptSucceeds, RecordSuccess, Reset
  <2>3. Gate!Succeed(t)
    BY <2>1, <2>2 DEF Gate!Succeed
  <2> QED
    BY <2>3 DEF Gate!Next
<1>4. ASSUME NEW t \in Threads, AttemptFails(t) PROVE [Gate!Next]_(Gate!gate)
  <2>1. Inside' \in {Inside, Inside \ {t}} /\ t \in Inside
    <3>1. pc[t] = "send"
      BY <1>4 DEF AttemptFails
    <3>2. CASE pc' = [pc EXCEPT ![t] = "idle"]
      BY <1>0, <3>1, <3>2, InsideAfter
    <3>3. CASE pc' = [pc EXCEPT ![t] = "sleep"]
      BY <1>0, <3>1, <3>3, InsideAfter
    <3> QED
      BY <1>4, <3>2, <3>3 DEF AttemptFails
  <2>2. failures' = failures + 1 /\ sinceFailure' = 0
    BY <1>4 DEF AttemptFails, RecordFailure
  <2>3. Gate!Fail(t)
    BY <2>1, <2>2 DEF Gate!Fail
  <2> QED
    BY <2>3 DEF Gate!Next
<1>5. ASSUME NEW t \in Threads, Retry(t) PROVE [Gate!Next]_(Gate!gate)
  <2>1. Inside' = Inside
    <3>1. pc' = [pc EXCEPT ![t] = "send"] /\ pc[t] = "sleep"
      BY <1>5 DEF Retry
    <3> QED
      BY <1>0, <3>1, InsideAfter
  <2> QED
    BY <1>5, <2>1 DEF Retry, breaker, Gate!gate
<1>6. CASE UNCHANGED vars \/ \E t \in Threads : CallRejected(t)
  BY <1>6 DEF CallRejected, vars, breaker, Gate!gate
<1> QED
  BY <1>1, <1>2, <1>3, <1>4, <1>5, <1>6 DEF Next, Step

\* The breaker with its flag, its lock and any number of threads behind it is the
\* gate it promises, whatever they do and in whatever order (providers.py:44-123).
THEOREM GateKept == Spec => KeepsTheGate
<1>1. Init => Gate!Init
  <2>1. Init => Inside = {}
    BY DEF Init, Inside
  <2> QED
    BY <2>1, Numbers DEF Init, Gate!Init, Inside
<1> QED
  BY <1>1, InitInv, NextInv, GateStep, PTL DEF Spec, KeepsTheGate, Gate!Spec
=============================================================================
