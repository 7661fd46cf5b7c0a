-------------------------- MODULE MCCircuitBreaker --------------------------
(***************************************************************************)
(* CircuitBreaker for TLC, with the code's own thresholds and three        *)
(* concurrent callers: enough for a late result, a probe and a rejected    *)
(* caller at the same time.                                                *)
(***************************************************************************)
EXTENDS CircuitBreaker, TLC

\* Callers are interchangeable and no checked formula names one.
CallerSymmetry == Permutations(Callers)
=============================================================================
