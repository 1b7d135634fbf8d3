-------------------------- MODULE MCCircuitBreaker --------------------------
(* Small instances of CircuitBreaker, with the thresholds scaled down.     *)
EXTENDS CircuitBreaker, TLC
CONSTANTS c1, c2, c3
Symm == Permutations(Callers)
=============================================================================
