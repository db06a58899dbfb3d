-------------------------- MODULE MCCircuitBreaker --------------------------
(* Small instance of CircuitBreaker for TLC. *)
EXTENDS CircuitBreaker, TLC
CONSTANTS t1, t2, t3
ThreadSymmetry == Permutations(Threads)
=============================================================================
