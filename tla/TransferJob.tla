---------------------------- MODULE TransferJob ----------------------------
(***************************************************************************)
(* What a transfer of a model or of an image promises to whoever started   *)
(* it: it has its nodes to itself until it ends, the item it delivers is   *)
(* settled once, it completes only when all its nodes have the item, and   *)
(* what has ended is not taken up again.  ModelDistribution and            *)
(* ImageTransfer are the implementations, with admission checks that are   *)
(* made before the row is there, coroutines that write what they have read *)
(* long before, agents that go on by themselves, failures and crashes.     *)
(***************************************************************************)
CONSTANTS Jobs, Nodes, Items, NoItem

VARIABLES
    state,   \* "none", "open", "completed", "ended" (failed, cancelled) or "removed"
    claim,   \* the nodes of a transfer while it is open
    item,    \* what it delivers: NoItem until that is known
    has      \* the items of each node

vars == <<state, claim, item, has>>

Init ==
    /\ state = [j \in Jobs |-> "none"] /\ claim = [j \in Jobs |-> {}]
    /\ item = [j \in Jobs |-> NoItem] /\ has = [n \in Nodes |-> {}]

\* The nodes must not be those of another open transfer.
Start(j) ==
    /\ state[j] = "none"
    /\ state' = [state EXCEPT ![j] = "open"]
    /\ \E N \in SUBSET Nodes, d \in Items \cup {NoItem} :
         /\ \A k \in Jobs : claim[k] \cap N = {}
         /\ claim' = [claim EXCEPT ![j] = N]
         /\ item' = [item EXCEPT ![j] = d]
    /\ UNCHANGED has

Name(j) ==
    /\ state[j] = "open" /\ item[j] = NoItem
    /\ \E d \in Items : item' = [item EXCEPT ![j] = d]
    /\ UNCHANGED <<state, claim, has>>

\* A node keeps what it has got for an open transfer.
NodesKeep ==
    /\ has' \in [Nodes -> SUBSET Items]
    /\ \A j \in Jobs : \A n \in claim[j] : item[j] \in has[n] => item[j] \in has'[n]
NodesChange == UNCHANGED <<state, claim, item>> /\ NodesKeep

Closes(j, s) ==
    /\ state' = [state EXCEPT ![j] = s]
    /\ claim' = [claim EXCEPT ![j] = {}]
Complete(j) ==
    /\ state[j] = "open" /\ item[j] # NoItem /\ \A n \in claim[j] : item[j] \in has[n]
    /\ Closes(j, "completed") /\ UNCHANGED <<item, has>>
\* What is on its way may still arrive.
GiveUp(j) == state[j] = "open" /\ Closes(j, "ended") /\ NodesKeep /\ UNCHANGED item
Remove(j) ==
    /\ state[j] \in {"open", "completed", "ended"} /\ Closes(j, "removed")
    /\ item' = [item EXCEPT ![j] = NoItem] /\ UNCHANGED has

Next ==
    \/ NodesChange
    \/ \E j \in Jobs : Start(j) \/ Name(j) \/ Complete(j) \/ GiveUp(j) \/ Remove(j)

Spec == Init /\ [][Next]_vars
=============================================================================
