------------------------- MODULE MCDecisionFeedback -------------------------
(* Model-checking instances of DecisionFeedback. *)
EXTENDS DecisionFeedback
=============================================================================
