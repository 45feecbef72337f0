-------------------------- MODULE MCPolicyInduction --------------------------
(* Model-checking instances of PolicyInduction: two traces of one signature *)
(* in two episodes, and a third one of another signature.                  *)
EXTENDS PolicyInduction
MCTraces == {[episode |-> "e1", signature |-> "s1"], [episode |-> "e2", signature |-> "s1"],
             [episode |-> "e1", signature |-> "s2"]}
=============================================================================
