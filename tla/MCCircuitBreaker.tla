-------------------------- MODULE MCCircuitBreaker --------------------------
(* The breaker with the constants of CircuitBreaker.cfg. *)
EXTENDS CircuitBreaker
=============================================================================
