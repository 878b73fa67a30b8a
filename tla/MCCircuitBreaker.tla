-------------------------- MODULE MCCircuitBreaker --------------------------
(***************************************************************************)
(* Small instances of CircuitBreaker for TLC.                              *)
(***************************************************************************)
EXTENDS CircuitBreaker

\* Enough callers for a late success, a late failure and a trial at once.
MCCalls == {"c1", "c2", "c3"}
=============================================================================
