----------------------------- MODULE MCReasoner -----------------------------
(***************************************************************************)
(* Reasoner for TLC: two callers, thresholds small enough for the breaker  *)
(* to trip, probe and recover within their few turns.                      *)
(***************************************************************************)
EXTENDS Reasoner, TLC

\* Callers are interchangeable and no checked formula names one.
CallerSymmetry == Permutations(Callers)
=============================================================================
