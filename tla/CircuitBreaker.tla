--------------------------- MODULE CircuitBreaker ---------------------------
(***************************************************************************)
(* The circuit breaker of services/providers.py and the callers that share *)
(* it.  The worker's jobs run in threads of one process; each request they *)
(* make through request_with_retry asks can_execute once, then sends up to *)
(* Retries attempts with a pause between them, recording every outcome in  *)
(* the one module-level breaker.  Attempts already admitted go on after    *)
(* another thread has opened the breaker.                                  *)
(*                                                                         *)
(* Definitions named Var... are plausible wrong versions of the one that   *)
(* follows them; the properties tell each from the code.                   *)
(***************************************************************************)
EXTENDS Integers, FiniteSets

CONSTANTS
  Threads,      \* the jobs that call request_with_retry
  Threshold,    \* failure_threshold
  Cooldown,     \* cooldown, in ticks
  Retries       \* attempts of one call

ASSUME BreakerAssumption ==
  /\ Threshold \in Nat \ {0}
  /\ Cooldown \in Nat
  /\ Retries \in Nat \ {0}
  /\ Retries < Threshold
  /\ IsFiniteSet(Threads)

VARIABLES
  failures,
  isOpen,
  sinceFailure, \* age of last_failure_time, saturating beyond Cooldown
  pc,           \* where each thread stands
  attempt,      \* its loop variable
  ended,        \* history: calls that failed for good and are in the count
  live          \* history: calls under way whose failures are in the count

breaker == <<failures, isOpen, sinceFailure>>
culprits == <<ended, live>>
vars == <<breaker, pc, attempt, culprits>>

MaxSince == Cooldown + 1

Init ==
  /\ failures = 0
  /\ isOpen = FALSE
  /\ sinceFailure = MaxSince       \* last_failure_time = 0: the epoch
  /\ pc = [t \in Threads |-> "idle"]
  /\ attempt = [t \in Threads |-> 0]
  /\ ended = 0 /\ live = {}

-----------------------------------------------------------------------------
(* The methods of the breaker, each under its lock. *)

\* A closed breaker starts from the count it opened with.
VarResetFlagOnly == isOpen' = FALSE /\ ended' = 0 /\ live' = {} /\ UNCHANGED failures

Reset == failures' = 0 /\ isOpen' = FALSE /\ ended' = 0 /\ live' = {}

RecordSuccess ==
  /\ Reset
  /\ UNCHANGED sinceFailure

\* The breaker opens one failure late.
VarRecordFailureLate ==
  /\ failures' = failures + 1
  /\ sinceFailure' = 0
  /\ isOpen' = (isOpen \/ failures >= Threshold)

RecordFailure ==
  /\ failures' = failures + 1
  /\ sinceFailure' = 0
  /\ isOpen' = (isOpen \/ failures + 1 >= Threshold)

CoolingDown == isOpen /\ sinceFailure <= Cooldown

\* can_execute when it answers True.
Admit ==
  /\ ~CoolingDown
  /\ IF isOpen THEN Reset ELSE UNCHANGED <<isOpen, failures, culprits>>
  /\ UNCHANGED sinceFailure

-----------------------------------------------------------------------------
(* request_with_retry, in thread t. *)

Call(t) ==
  /\ pc[t] = "idle"
  /\ Admit
  /\ pc' = [pc EXCEPT ![t] = "send"]
  /\ attempt' = [attempt EXCEPT ![t] = 0]

\* A refused call counts as contact with the source.
VarCallRejectedRestarts(t) ==
  /\ pc[t] = "idle"
  /\ CoolingDown
  /\ sinceFailure' = 0
  /\ UNCHANGED <<failures, isOpen, pc, attempt, culprits>>

\* can_execute answers False and the call raises.
CallRejected(t) ==
  /\ pc[t] = "idle"
  /\ CoolingDown
  /\ UNCHANGED vars

AttemptSucceeds(t) ==
  /\ pc[t] = "send"
  /\ RecordSuccess
  /\ pc' = [pc EXCEPT ![t] = "idle"]
  /\ UNCHANGED attempt

\* One attempt more than max_retries.
VarAttemptFailsLate(t) ==
  /\ pc[t] = "send"
  /\ RecordFailure
  /\ IF attempt[t] = Retries + 1
     THEN /\ pc' = [pc EXCEPT ![t] = "idle"]
          /\ ended' = ended + 1 /\ live' = live \ {t}
     ELSE /\ pc' = [pc EXCEPT ![t] = "sleep"]
          /\ live' = live \union {t} /\ UNCHANGED ended
  /\ UNCHANGED attempt

\* The last failure ends the call; the earlier ones are followed by a pause.
AttemptFails(t) ==
  /\ pc[t] = "send"
  /\ RecordFailure
  /\ IF attempt[t] = Retries - 1
     THEN /\ pc' = [pc EXCEPT ![t] = "idle"]
          /\ ended' = ended + 1 /\ live' = live \ {t}
     ELSE /\ pc' = [pc EXCEPT ![t] = "sleep"]
          /\ live' = live \union {t} /\ UNCHANGED ended
  /\ UNCHANGED attempt

Retry(t) ==
  /\ pc[t] = "sleep"
  /\ pc' = [pc EXCEPT ![t] = "send"]
  /\ attempt' = [attempt EXCEPT ![t] = @ + 1]
  /\ UNCHANGED <<breaker, culprits>>

Tick ==
  /\ sinceFailure' = IF sinceFailure < MaxSince THEN sinceFailure + 1 ELSE sinceFailure
  /\ UNCHANGED <<failures, isOpen, pc, attempt, culprits>>

Step(t) ==
  Call(t) \/ CallRejected(t) \/ AttemptSucceeds(t) \/ AttemptFails(t) \/ Retry(t)

Next == Tick \/ \E t \in Threads : Step(t)

Spec == Init /\ [][Next]_vars

\* What the jobs rely on: the flag is no part of it, the count says as much.
Gate == INSTANCE BreakerGate
          WITH count <- failures, age <- sinceFailure,
               inside <- {t \in Threads : pc[t] # "idle"},
               Threads <- Threads, Threshold <- Threshold, Cooldown <- Cooldown

\* Every job keeps being scheduled, every attempt ends by its timeout, every
\* pause ends, and time passes.
FairSpec == Spec /\ WF_vars(Tick) /\ \A t \in Threads : WF_vars(Step(t))

-----------------------------------------------------------------------------
(* Properties. *)

\* Types; an attempt that pauses is never the last one (providers.py:116-121).
TypeOK ==
  /\ failures \in Nat
  /\ isOpen \in BOOLEAN
  /\ sinceFailure \in 0..MaxSince
  /\ pc \in [Threads -> {"idle", "send", "sleep"}]
  /\ attempt \in [Threads -> 0..(Retries - 1)]
  /\ \A t \in Threads : pc[t] = "sleep" => attempt[t] < Retries - 1
  /\ ended \in Nat
  /\ live \subseteq Threads

\* The flag and the counter never disagree, whatever mix of late successes,
\* late failures and cooldowns the threads produce (providers.py:53-75).
OpenIffThreshold == isOpen <=> failures >= Threshold

\* The threads, whatever mix of late successes, late failures, retries and cooldowns
\* they produce, find the gate the breaker promises: shut exactly from the threshold
\* on and until the cooldown has passed since the last failure of anybody, though
\* flag and counter are kept apart (providers.py:53-75, 90-92).
KeepsTheGate == Gate!Spec

\* One failing call cannot open the breaker by its own retries; at least two
\* calls must have failed since the last success (threshold 5, 3 attempts).
OpenNeedsTwoCalls == isOpen => ended + Cardinality(live) >= 2

\* No lock-out: an open breaker is closed again in the end.
Recloses == isOpen ~> ~isOpen
=============================================================================
