-------------------------- MODULE MCImageTransfer --------------------------
(* TLC instances of ImageTransfer: the operations of each run. *)
EXTENDS ImageTransfer, TLC

Symmetry_ == Permutations(Jobs) \cup Permutations(Nodes) \cup Permutations(Threads)
                \cup Permutations(Monitors)

OpsCore == {"cancel", "delete", "force", "deleteLocal", "crash", "fail", "moves", "calm", "tidy"}
OpsSettles == {"pause", "cancel", "delete", "fail", "prune", "deleteLocal", "tidy"}
=============================================================================
