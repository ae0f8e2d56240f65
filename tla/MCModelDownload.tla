-------------------------- MODULE MCModelDownload --------------------------
(***************************************************************************)
(* TLC instance of ModelDownload for the run md_core.  It explores two     *)
(* scenes: each is the specification with operations of its own, and a     *)
(* behaviour is one of a scene chosen at its start.                        *)
(***************************************************************************)
EXTENDS ModelDownload, TLC

VARIABLE scene

Slots == Permutations(Threads) \cup Permutations(Monitors) \cup Permutations(Requests)

OpsCore    == {"start", "pin", "force", "drift", "pause", "resume"}
OpsRestart == {"start", "pin", "force", "drift", "pause", "cancel", "delete", "crash"}

Restart == INSTANCE ModelDownload WITH Ops <- OpsRestart

SceneInit == scene \in {"core", "restart"} /\ Init
SceneNext ==
    /\ UNCHANGED scene
    /\ CASE scene = "core" -> Next
         [] scene = "restart" -> Restart!Next
ScenesSpec == SceneInit /\ [][SceneNext]_<<vars, scene>>

\* A pinned job keeps its commit through pauses, cancels, deletions and restarts of the
\* backend, if it is not resumed.
PinKept == scene = "restart" => PinnedTargetKept
=============================================================================
