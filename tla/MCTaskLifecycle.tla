-------------------------- MODULE MCTaskLifecycle --------------------------
(***************************************************************************)
(* TLC instance of TaskLifecycle for the run tl_core: two tasks.  It       *)
(* explores two scenes, each the specification with operations and sizes   *)
(* of its own; a behaviour is one of a scene chosen at its start.          *)
(***************************************************************************)
EXTENDS TaskLifecycle, TLC

CONSTANTS GpuNodes, GpuPublishers

VARIABLE scene

Slots == Permutations(Tasks) \cup Permutations(GpuNodes) \cup Permutations(Publishers)

OpsCore == {"stop", "restart", "delete", "exit", "bench"}
OpsGpu  == {"exit", "events", "crash"}

Gpu == INSTANCE TaskLifecycle
         WITH Nodes <- GpuNodes, Publishers <- GpuPublishers, Ops <- OpsGpu, MaxEvents <- 1

SceneInit == (scene = "core" /\ Init) \/ (scene = "gpu" /\ Gpu!Init)
SceneNext ==
    /\ UNCHANGED scene
    /\ CASE scene = "core" -> Next
         [] scene = "gpu" -> Gpu!Next
ScenesSpec == SceneInit /\ [][SceneNext]_<<vars, scene>>

\* No GPU holds the containers of two tasks, if nobody stops and starts them by hand,
\* whatever the containers do and whenever the backend is started again.
GpuNotShared == scene = "gpu" => Gpu!OneTaskPerNode
=============================================================================
