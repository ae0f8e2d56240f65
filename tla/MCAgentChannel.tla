--------------------------- MODULE MCAgentChannel ---------------------------
(***************************************************************************)
(* TLC instance of AgentChannel, and of LogSegments, for the run ch_core.  *)
(* One of three scenes is chosen at the start of a behaviour; the          *)
(* variables of the module it is not about stay as they are.  In "pages"   *)
(* several pages share a log of two lines and the agent's send_q is never  *)
(* full; in "lines" one page keeps its socket while send_q overflows.      *)
(* The fairness is that of AgentChannel.                                   *)
(***************************************************************************)
EXTENDS AgentChannel

CONSTANTS Alone, Letters, CR, LF, MaxBytes, MaxChunk

VARIABLES text, buf, prev, screen, last, open, scene

Segments == INSTANCE LogSegments WITH MaxBuf <- MaxBytes, Adjacent <- FALSE, Torn <- FALSE

SceneInit == Init /\ Segments!Init /\ scene \in {"pages", "lines", "segments"}
segments == <<text, buf, prev, screen, last, open>>
SceneNext ==
    /\ UNCHANGED scene
    /\ CASE scene = "pages" -> Next /\ lines' <= 2 /\ spilt' = {} /\ UNCHANGED segments
         [] scene = "lines" -> /\ Next /\ sock' = sock /\ UNCHANGED segments
                               /\ \A p \in Pages \ {Alone} : shown'[p] = "no"
         [] scene = "segments" -> Segments!Next /\ UNCHANGED vars
ScenesSpec == SceneInit /\ [][SceneNext]_<<vars, segments, scene>> /\ Fairness

\* The page shows what a terminal would, if lines that are rewritten in place do not
\* follow each other and no read ends between CR and LF.
ScreenIsTerminal == Segments!ScreenIsTerminal
=============================================================================
