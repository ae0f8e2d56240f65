----------------------------- MODULE Membership -----------------------------
(***************************************************************************)
(* What the cluster API promises to the rest of the backend: which nodes   *)
(* form a cluster, and on which slot of its network.  ClusterNetwork is    *)
(* the implementation, with locks, claims, ssh and rollbacks.              *)
(***************************************************************************)
CONSTANTS Nodes, Clusters, Slots, NoRow

VARIABLES
    row,     \* "none", "exists" or "deleted": ids of clusters are not reused
    place   \* NoRow, or the cluster and the slot of a node

Init == row = [c \in Clusters |-> "none"] /\ place = [n \in Nodes |-> NoRow]

Belongs(n, c) == place[n] # NoRow /\ place[n].c = c
SlotTaken(c, i) == \E n \in Nodes : Belongs(n, c) /\ place[n].i = i

\* A cluster appears with all its nodes or not at all.
Form(c, S, ix) ==
    /\ row[c] = "none" /\ \A n \in S : place[n] = NoRow
    /\ \A m, n \in S : m # n => ix[m] # ix[n]
    /\ row' = [row EXCEPT ![c] = "exists"]
    /\ place' = [n \in Nodes |-> IF n \in S THEN [c |-> c, i |-> ix[n]] ELSE place[n]]

Join(c, n, i) ==
    /\ row[c] = "exists" /\ place[n] = NoRow /\ ~SlotTaken(c, i)
    /\ place' = [place EXCEPT ![n] = [c |-> c, i |-> i]]
    /\ UNCHANGED row

Leave(n) ==
    /\ place[n] # NoRow
    /\ place' = [place EXCEPT ![n] = NoRow]
    /\ UNCHANGED row

\* A cluster disappears with all its nodes.
Dissolve(c) ==
    /\ row[c] = "exists"
    /\ row' = [row EXCEPT ![c] = "deleted"]
    /\ place' = [n \in Nodes |-> IF Belongs(n, c) THEN NoRow ELSE place[n]]

Next ==
    \/ \E c \in Clusters, S \in SUBSET Nodes : \E ix \in [S -> Slots] : Form(c, S, ix)
    \/ \E c \in Clusters, n \in Nodes, i \in Slots : Join(c, n, i)
    \/ \E n \in Nodes : Leave(n)
    \/ \E c \in Clusters : Dissolve(c)

Spec == Init /\ [][Next]_<<row, place>>
=============================================================================
