-------------------------- MODULE MCHarnessBridge --------------------------
(* HarnessBridge for TLC: the objects of one restored session share its id. *)
EXTENDS HarnessBridge
Restored == [s \in Sessions |-> CHOOSE i \in Ids : TRUE]
============================================================================
