-------------------------- MODULE MCSkillEvolution --------------------------
(* Model-checking instances of SkillEvolution. *)
EXTENDS SkillEvolution
=============================================================================
