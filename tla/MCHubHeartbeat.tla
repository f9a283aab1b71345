-------------------------- MODULE MCHubHeartbeat ----------------------------
(* Instances of HubHeartbeat for TLC.                                      *)
EXTENDS HubHeartbeat, TLC

Symmetry == Permutations(Ids)
=============================================================================
