--------------------------- MODULE MCTurnRouting ---------------------------
(* Model-checking instances of TurnRouting. *)
EXTENDS TurnRouting, TLC

\* Callers, sessions and keys are interchangeable.
Symmetry ==
  Permutations(Sessions) \cup Permutations(Callers) \cup Permutations(Keys)
=============================================================================
