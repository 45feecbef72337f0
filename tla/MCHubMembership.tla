--------------------------- MODULE MCHubMembership ---------------------------
(* Model-checking instance of HubMembership: a machine whose nickname is *)
(* changed, so that the exchanges of the runtime before it run beside    *)
(* those of the one after.                                               *)
EXTENDS HubMembership
MCRuntimes == {[client |-> "c1", name |-> 1], [client |-> "c1", name |-> 2]}
=============================================================================
