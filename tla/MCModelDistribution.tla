------------------------ MODULE MCModelDistribution ------------------------
(* TLC instances of ModelDistribution: the sets of operations of the runs. *)
EXTENDS ModelDistribution, TLC

Slots == Permutations(Monitors) \cup Permutations(Fetches) \cup Permutations(Files)
         \cup Permutations(Nodes) \cup Permutations(Jobs) \cup Permutations(Requests)

OpsCore    == {"pause", "delete", "sync", "fail", "agentRestart"}
OpsDriven  == {"pause", "resume", "retry", "cancel", "deleteCache", "crash"}
=============================================================================
