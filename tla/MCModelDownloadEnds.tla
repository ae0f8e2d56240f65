------------------------ MODULE MCModelDownloadEnds ------------------------
(***************************************************************************)
(* TLC instance of ModelDownload for the run md_ends, in two scenes: two   *)
(* jobs that fail and are retried, with fairness, and one job under        *)
(* changes of the settings and removals of the cache.                      *)
(***************************************************************************)
EXTENDS ModelDownload

CONSTANTS
    RegistryJob,    \* the only job of the second scene
    FirstVersion    \* where the branch begins, as versions are interchangeable

VARIABLE scene

OpsEnds     == {"start", "retry"}
OpsRegistry == {"start", "pause", "settings", "prune", "removeCache", "joinTimeout"}

Registry == INSTANCE ModelDownload WITH Ops <- OpsRegistry

SceneInit == scene \in {"ends", "registry"} /\ Init /\ remote = FirstVersion
SceneNext ==
    /\ UNCHANGED scene
    /\ CASE scene = "ends" -> Next
         [] scene = "registry" ->
              /\ Registry!Next
              /\ \A j \in Jobs \ {RegistryJob} : status'[j] = status[j]
ScenesSpec == SceneInit /\ [][SceneNext]_<<vars, scene>> /\ Fairness

\* Two jobs that are admitted never write the cache of the repository at a time,
\* whatever fails and whenever they are retried.
OneWriter == scene = "ends" => SingleWriter

\* No download stays in downloading for ever, if threads and monitors go on: a failed
\* thread ends its job, and the monitor of a job ends.
DownloadsEnd == scene = "ends" => DownloadEnds
=============================================================================
