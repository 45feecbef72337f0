-------------------------- MODULE MCModelResources --------------------------
(* Model-checking instances of ModelResources.                             *)
EXTENDS ModelResources
=============================================================================
