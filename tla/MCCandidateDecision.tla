------------------------- MODULE MCCandidateDecision -------------------------
(* A small instance of CandidateDecision: one admitted candidate, so that   *)
(* every command contends for the same history, and one that is unknown.    *)
EXTENDS CandidateDecision, TLC

CONSTANTS admitted, unknown

Symmetry == Permutations(Command) \union Permutations(Note)
=============================================================================
