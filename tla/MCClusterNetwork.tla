-------------------------- MODULE MCClusterNetwork --------------------------
(* TLC instances of ClusterNetwork: the sets of operations of the runs. *)
EXTENDS ClusterNetwork, TLC

ClusterSymmetry == Permutations(Clusters) \cup Permutations(Cidrs) \cup Permutations(Requests)

OpsCore == {"add", "remove", "delete", "cleanup", "apart", "fail"}
=============================================================================
