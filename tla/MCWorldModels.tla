--------------------------- MODULE MCWorldModels ---------------------------
(* Model-checking instances of WorldModels. *)
EXTENDS WorldModels

\* Two buckets that share their first tag, one of them with two policies.
MCPolicies == [id : {"a1", "a2"}, key : {"node|npm"}, tag : {"node"}]
                \cup [id : {"b1"}, key : {"node|yarn"}, tag : {"node"}]
=============================================================================
