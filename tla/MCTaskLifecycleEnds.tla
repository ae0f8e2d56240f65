------------------------ MODULE MCTaskLifecycleEnds ------------------------
(***************************************************************************)
(* TLC instance of TaskLifecycle for the run tl_ends: one task on two      *)
(* nodes, in two scenes as in MCTaskLifecycle.  The fairness is that of    *)
(* the scene "ends".                                                       *)
(***************************************************************************)
EXTENDS TaskLifecycle

VARIABLE scene

OpsEnds   == {"pause", "resume", "start", "fail"}
OpsPlaced == {"stop", "restart", "exit", "events", "crash"}

Placed == INSTANCE TaskLifecycle WITH Ops <- OpsPlaced, MaxEvents <- 1

SceneInit == (scene = "ends" /\ Init) \/ (scene = "placed" /\ Placed!Init)
SceneNext ==
    /\ UNCHANGED scene
    /\ CASE scene = "ends" -> Next
         [] scene = "placed" -> Placed!Next
ScenesSpec == SceneInit /\ [][SceneNext]_<<vars, scene>> /\ Fairness

\* A running task has its containers, if no call to an agent fails and nothing is
\* deleted: exits, events, stops, restarts and crashes may come in any order.
PlacedRunning == scene = "placed" => Placed!RunningWherePlaced

\* A publication ends.
PublishingEnds == scene = "ends" => PublishEnds
=============================================================================
