--------------------------- MODULE ClusterNetwork ---------------------------
(***************************************************************************)
(* Clusters and their high-speed network (backend/app/routers/clusters.py, *)
(* services/network_config.py, the rows of models.py).                     *)
(*                                                                         *)
(* Creating a cluster and adding a node are conversations with the nodes   *)
(* over ssh: look at the interfaces, probe the addresses, write netplan,   *)
(* verify, and only then the rows; whatever fails undoes what was done.    *)
(* They run on threads and hold the operation locks of their nodes (an     *)
(* addition that of its cluster as well).  Removal and deletion take no    *)
(* locks.                                                                  *)
(*                                                                         *)
(* The four rails of a node are one: an address is a network and a slot.   *)
(* Two networks are equal or disjoint.  Every stretch of a request between *)
(* two calls to the nodes is one action, a script on a node is one action. *)
(***************************************************************************)
EXTENDS Integers, FiniteSets

CONSTANTS
    Nodes,      \* their ids: locks are taken in this order
    Clusters,   \* ids the table may hand out
    Cidrs,
    MaxSlot,    \* addresses of a network
    Requests,   \* threads
    MaxTroubles, \* unplugged nodes and other equipment at a time
    Declaring,  \* nodes where another netplan file declares the rails at first
    Ops,        \* what users and the environment do in this instance
    NoCluster, NoCidr, NoAddr, NoRow, Free

OpNames == {"empty", "add", "bare", "remove", "delete", "cleanup", "apart", "fail",
            "hang", "rollbackFails"}

ASSUME ConstantsAssumption ==
    /\ Nodes \subseteq Nat /\ IsFiniteSet(Nodes)
    /\ Declaring \subseteq Nodes /\ Ops \subseteq OpNames
    /\ MaxSlot \in Nat \ {0}
    /\ MaxTroubles \in Nat
    /\ Clusters \cap Nodes = {} /\ NoCluster \notin Clusters /\ NoCidr \notin Cidrs
    /\ Free \notin Requests
    /\ NoAddr \notin Cidrs \X Nat
    /\ NoRow \notin [c : Clusters, i : Nat]

Slots == 1..MaxSlot
Address == Cidrs \X Slots                  \* node_ips
Keys == Nodes \cup Clusters                \* of _operation_locks

VARIABLES
    row,      \* "none", "exists" or "deleted" for every cluster id
    cidr,     \* Cluster.network_cidr
    plan,     \* whether Cluster.network_plan is set
    claimed,  \* Node.cluster_id
    member,   \* the node's row in cluster_nodes: cluster and net_index
    dropin,   \* the address in the node's 999-fireworks-network.yaml
    foreign,  \* whether the node's other netplan file declares rails
    bak,      \* whether what it declared is kept in its .fw-bak
    linked,   \* nodes whose rails have a carrier
    devices,  \* addresses of other equipment
    lock,     \* _operation_locks
    req       \* the requests under way

rows == <<row, cidr, plan, claimed, member>>
files == <<dropin, foreign, bak>>
wires == <<linked, devices>>
vars == <<row, cidr, plan, claimed, member, dropin, foreign, bak, linked, devices, lock, req>>

NoRequest == [kind |-> "none", pc |-> "free", c |-> NoCluster, nodes |-> {},
              ix |-> [n \in Nodes |-> 0], cidr |-> NoCidr, net |-> FALSE,
              todo |-> {}, applied |-> {}, bad |-> FALSE, was |-> [n \in Nodes |-> NoAddr]]

Row == [c : Clusters, i : Slots]
Request == [kind : {"none", "create", "add", "delete"},
            pc : {"free", "lock", "check", "probe", "apply", "verify", "reverse", "commit",
                  "undo", "clean"},
            c : Clusters \cup {NoCluster}, nodes : SUBSET Nodes, ix : [Nodes -> 0..MaxSlot],
            cidr : Cidrs \cup {NoCidr}, net : BOOLEAN,     \* net: with a network plan
            todo : SUBSET Nodes,                           \* still to be visited
            applied : SUBSET Nodes, bad : BOOLEAN,         \* written; something failed
            was : [Nodes -> Address \cup {NoAddr}]]        \* see Noted

TypeOK ==
    /\ row \in [Clusters -> {"none", "exists", "deleted"}]
    /\ cidr \in [Clusters -> Cidrs \cup {NoCidr}] /\ plan \in [Clusters -> BOOLEAN]
    /\ claimed \in [Nodes -> Clusters \cup {NoCluster}]
    /\ member \in [Nodes -> Row \cup {NoRow}]
    /\ dropin \in [Nodes -> Address \cup {NoAddr}]
    /\ foreign \in [Nodes -> BOOLEAN] /\ bak \in [Nodes -> BOOLEAN]
    /\ linked \subseteq Nodes /\ devices \subseteq Address
    /\ lock \in [Keys -> Requests \cup {Free}]
    /\ req \in [Requests -> Request]

Init ==
    /\ row = [c \in Clusters |-> "none"] /\ cidr = [c \in Clusters |-> NoCidr]
    /\ plan = [c \in Clusters |-> FALSE]
    /\ claimed = [n \in Nodes |-> NoCluster] /\ member = [n \in Nodes |-> NoRow]
    /\ dropin = [n \in Nodes |-> NoAddr]
    /\ foreign = [n \in Nodes |-> n \in Declaring] /\ bak = [n \in Nodes |-> FALSE]
    /\ linked = Nodes /\ devices = {}
    /\ lock = [k \in Keys |-> Free] /\ req = [r \in Requests |-> NoRequest]

----------------------------------------------------------------------------
(* The scripts that run on a node.                                         *)

\* Mutant of Backup: the kept version is replaced by the version found.
BackupLatest(n) == foreign[n]
\* apply_node_network: other declarations of the rails are taken over, the file they
\* stand in is kept once, and the node's own file is written.
Backup(n) == bak[n] \/ foreign[n]
Applied(n, a) ==
    /\ dropin' = [dropin EXCEPT ![n] = a]
    /\ bak' = [bak EXCEPT ![n] = Backup(n)]
    /\ foreign' = [foreign EXCEPT ![n] = FALSE]

\* rollback_node_network: the kept file returns, the own file goes.
RolledBack(n) ==
    /\ dropin' = [dropin EXCEPT ![n] = NoAddr]
    /\ foreign' = [foreign EXCEPT ![n] = @ \/ bak[n]]
    /\ bak' = [bak EXCEPT ![n] = FALSE]

\* A failing script restores what it has found.
NotRolledBack == "rollbackFails" \in Ops /\ UNCHANGED files

\* Who answers for an address on the wire, and who says so of its own interfaces.
Answers(a) == a \in devices \/ \E m \in linked : dropin[m] = a
AnswersFor(n, a) == a \in devices \/ \E m \in linked \ {n} : dropin[m] = a
BoundElsewhere(T, n, a) == \E m \in T \ {n} : dropin[m] = a

----------------------------------------------------------------------------
(* Locks, and the beginning and the end of a request.                      *)

\* Mutant of Wanted: an addition locks its cluster, but not its node.
WantedClusterOnly(r) == IF req[r].kind = "add" THEN {req[r].c} ELSE req[r].nodes
\* Mutant of Wanted: an addition locks its node, but not its cluster.
WantedNodesOnly(r) == req[r].nodes
\* The keys a request needs, and the order in which it takes them: the keys of
\* clusters are negative.
Wanted(r) == req[r].nodes \cup (IF req[r].kind = "add" THEN {req[r].c} ELSE {})
Missing(r) == {k \in Wanted(r) : lock[k] # r}
\* Mutant of NextKey: the locks are taken in the order of the request.
NextKeyAny(r, k) == k \in Missing(r)
NextKey(r, k) ==
    /\ k \in Missing(r)
    /\ k \in Nodes => /\ Missing(r) \subseteq Nodes
                      /\ \A n \in Missing(r) : k <= n
Unlocked(r) == [k \in Keys |-> IF lock[k] = r THEN Free ELSE lock[k]]

\* The request is over.
End(r) ==
    /\ req' = [req EXCEPT ![r] = NoRequest]
    /\ lock' = Unlocked(r)
Goes(r, pc) == req' = [req EXCEPT ![r].pc = pc] /\ UNCHANGED lock

\* Instances with "apart" are about users who do not delete a cluster while its members
\* change; nothing in the code prevents it.
Apart(c, K) == "apart" \in Ops => \A r \in Requests : req[r].c = c => req[r].kind \notin K

\* The nodes get the first slots; more nodes than slots are refused.
CreateBegin(r, S, ix) ==
    /\ req[r].pc = "free" /\ (S # {} \/ "empty" \in Ops)
    /\ \A m \in S : ix[m] \in Slots /\ ix[m] <= Cardinality(S)
    /\ \A m, n \in S : m # n => ix[m] # ix[n]
    /\ \A n \in Nodes \ S : ix[n] = 0
    /\ req' = [req EXCEPT ![r] = [NoRequest EXCEPT !.kind = "create", !.nodes = S,
                                  !.pc = IF S = {} THEN "check" ELSE "lock",
                                  !.ix = ix, !.net = S # {}]]
    /\ UNCHANGED <<rows, files, wires, lock>>

AddBegin(r, c, n, net) ==
    /\ "add" \in Ops /\ (net \/ "bare" \in Ops) /\ req[r].pc = "free"
    /\ row[c] = "exists" /\ Apart(c, {"delete"})
    /\ req' = [req EXCEPT ![r] = [NoRequest EXCEPT !.kind = "add", !.pc = "lock", !.c = c,
                                  !.nodes = {n}, !.net = net]]
    /\ UNCHANGED <<rows, files, wires, lock>>

\* For FailureLeavesNothing only: what the nodes had when the request got them.
Noted(r) == [n \in Nodes |-> IF n \in req[r].nodes THEN dropin[n] ELSE NoAddr]

Lock(r) ==
    /\ req[r].pc = "lock" /\ UNCHANGED <<rows, files, wires>>
    /\ \E k \in Keys :
         /\ NextKey(r, k) /\ lock[k] = Free
         /\ lock' = [lock EXCEPT ![k] = r]
         /\ req' = IF Missing(r) # {k} THEN req
                   ELSE [req EXCEPT ![r].pc = "check", ![r].was = Noted(r)]

----------------------------------------------------------------------------
(* create_cluster.                                                         *)

Topology(r) == {n \in Nodes : req[r].ix[n] # 0}      \* its nodes and their peers
AddressOf(r, n) == <<req[r].cidr, req[r].ix[n]>>

\* probe_plan_ip_conflicts: node n cannot have the address.
Taken(r, n, a) == AnswersFor(n, a) \/ BoundElsewhere(Topology(r), n, a)

\* find_available_cidr, _ensure_cidr_available
Available(d) == \A c \in Clusters : row[c] = "exists" => cidr[c] # d

\* Occupied nodes and networks in use are refused, and so is a node without a link.
Physical(r) == Topology(r) \subseteq linked
CreateCheck(r) ==
    /\ req[r].pc = "check" /\ req[r].kind = "create" /\ UNCHANGED <<rows, files, wires>>
    /\ \/ /\ Physical(r) /\ \A n \in req[r].nodes : claimed[n] = NoCluster
          /\ \E d \in Cidrs \cup (IF req[r].net THEN {} ELSE {NoCidr}) :
               /\ req[r].net => Available(d)
               /\ req' = [req EXCEPT ![r].cidr = d,
                                     ![r].pc = IF req[r].net THEN "probe" ELSE "commit"]
          /\ UNCHANGED lock
       \/ End(r)

\* Any answer from somebody else ends the request.
CreateProbe(r) ==
    /\ req[r].pc = "probe" /\ req[r].kind = "create" /\ UNCHANGED <<rows, files, wires>>
    /\ IF \E n \in req[r].nodes : Taken(r, n, AddressOf(r, n))
       THEN End(r)
       ELSE /\ req' = [req EXCEPT ![r].pc = "apply", ![r].todo = req[r].nodes]
            /\ UNCHANGED lock

\* Mutant of CommitOK: the table has no unique index on the network.
CommitUnchecked(r) == \A n \in req[r].nodes : claimed[n] = NoCluster /\ member[n] = NoRow
\* Claims, member rows and the cluster in one transaction; the table has unique indexes
\* on the network and on the node of a member.
CommitOK(r) ==
    /\ \A n \in req[r].nodes : claimed[n] = NoCluster /\ member[n] = NoRow
    /\ req[r].cidr = NoCidr \/ Available(req[r].cidr)
CreateCommit(r) ==
    /\ req[r].pc = "commit" /\ req[r].kind = "create" /\ UNCHANGED <<files, wires>>
    /\ IF CommitOK(r)
       THEN \E c \in Clusters :
              /\ row[c] = "none"
              /\ row' = [row EXCEPT ![c] = "exists"]
              /\ cidr' = [cidr EXCEPT ![c] = req[r].cidr]
              /\ plan' = [plan EXCEPT ![c] = req[r].net]
              /\ claimed' = [n \in Nodes |-> IF n \in req[r].nodes THEN c ELSE claimed[n]]
              /\ member' = [n \in Nodes |-> IF n \in req[r].nodes
                                            THEN [c |-> c, i |-> req[r].ix[n]]
                                            ELSE member[n]]
              /\ End(r)
       ELSE /\ Goes(r, "undo") /\ UNCHANGED rows

----------------------------------------------------------------------------
(* Writing and verifying the configuration, for both.                      *)

\* What follows the last node, and a failure.
AfterApply(r, bad) == IF bad THEN "undo" ELSE "verify"
AfterVerify(r) == IF req[r].kind = "create" THEN "commit" ELSE "reverse"

\* Mutant of Collected: the first failure ends the loop over the results.
CollectedUntilFailure(r, n, ok) ==
    IF ok /\ ~req[r].bad THEN req[r].applied \cup {n} ELSE req[r].applied
Collected(r, n, ok) == IF ok THEN req[r].applied \cup {n} ELSE req[r].applied

\* The script's netplan fails and what it did is undone on the node, or it hangs and
\* nothing is undone (the runs with "hang").
Apply(r, n) ==
    /\ req[r].pc = "apply" /\ n \in req[r].todo /\ UNCHANGED <<rows, wires, lock>>
    /\ \E ok, done \in BOOLEAN :
         LET last == req[r].todo = {n}
             bad  == req[r].bad \/ ~ok
         IN  /\ ok => done
             /\ ~ok => ("fail" \in Ops /\ ~done) \/ ("hang" \in Ops /\ done)
             /\ IF done THEN Applied(n, AddressOf(r, n)) ELSE UNCHANGED files
             /\ req' = [req EXCEPT ![r].applied = Collected(r, n, ok),
                                   ![r].bad = bad,
                                   ![r].todo = IF last /\ ~bad THEN req[r].nodes ELSE @ \ {n},
                                   ![r].pc = IF last THEN AfterApply(r, bad) ELSE @]

\* verify_node_network: the node has its address, nobody disputes it, and every peer
\* answers; a dispute is not always noticed.
Reached(r, n) ==
    /\ n \in linked /\ dropin[n] = AddressOf(r, n)
    /\ \A m \in Topology(r) : Answers(AddressOf(r, m))
Verify(r, n) ==
    /\ req[r].pc = "verify" /\ n \in req[r].todo /\ UNCHANGED <<rows, files, wires, lock>>
    /\ \/ /\ Reached(r, n)
          /\ req' = [req EXCEPT ![r].todo = @ \ {n},
                                ![r].pc = IF req[r].todo = {n} THEN AfterVerify(r) ELSE @]
       \/ /\ ~Reached(r, n) \/ AnswersFor(n, AddressOf(r, n))
          /\ req' = [req EXCEPT ![r].pc = "undo", ![r].todo = {}]

\* The nodes that were changed, in reverse order; then a claim is given back.
Undo(r) ==
    /\ req[r].pc = "undo" /\ UNCHANGED wires
    /\ \/ \E n \in req[r].applied :
            /\ \A m \in req[r].applied : req[r].ix[m] <= req[r].ix[n]
            /\ RolledBack(n) \/ NotRolledBack
            /\ req' = [req EXCEPT ![r].applied = @ \ {n}]
            /\ UNCHANGED <<rows, lock>>
       \/ /\ req[r].applied = {}
          /\ claimed' = [n \in Nodes |-> IF n \in req[r].nodes /\ claimed[n] = req[r].c
                                         THEN NoCluster ELSE claimed[n]]
          /\ End(r) /\ UNCHANGED <<row, cidr, plan, member, files>>

----------------------------------------------------------------------------
(* add_cluster_node.                                                       *)

Members(c) == {n \in Nodes : member[n] # NoRow /\ member[n].c = c}
SlotsOf(c) == {member[n].i : n \in Members(c)}
IsTop(c, i) == i \in SlotsOf(c) \cup {0} /\ \A j \in SlotsOf(c) : j <= i

\* The cluster is read: the slot after the highest, and those of the peers.
AddCheck(r) ==
    LET c == req[r].c
    IN  /\ req[r].pc = "check" /\ req[r].kind = "add" /\ UNCHANGED <<rows, files, wires>>
        /\ IF row[c] = "exists" /\ req[r].nodes \cap Members(c) = {} /\ MaxSlot \notin SlotsOf(c)
           THEN \E top \in 0..MaxSlot :
                /\ IsTop(c, top) /\ UNCHANGED lock
                /\ req' = [req EXCEPT
                            ![r].pc = "probe", ![r].cidr = cidr[c], ![r].net = @ /\ plan[c],
                            ![r].ix = [m \in Nodes |-> IF m \in req[r].nodes THEN top + 1
                                                       ELSE IF m \in Members(c) THEN member[m].i
                                                       ELSE 0]]
           ELSE End(r)

\* Mutant of FreeSlots: the search leaves the network.
FreeSlotsUnbounded(r, n) ==
    {i \in 1..MaxSlot + 1 : i >= req[r].ix[n]
                            /\ (req[r].net => ~Taken(r, n, <<req[r].cidr, i>>))}
\* The first slot from there on whose address nobody has, and the claim; a peer whose
\* address somebody else has, no free slot or another claim end the request.
FreeSlots(r, n) ==
    {i \in Slots : i >= req[r].ix[n] /\ (req[r].net => ~Taken(r, n, <<req[r].cidr, i>>))}
\* A node that already has this configuration is only verified.
AfterProbe(r, n, i) ==
    IF ~req[r].net THEN "commit" ELSE IF dropin[n] = <<req[r].cidr, i>> THEN "verify" ELSE "apply"
\* Mutant of Claimable: the claim is not conditional on the old value.
ClaimableAlways(n) == TRUE
Claimable(n) == claimed[n] = NoCluster
Disputed(r) == \E m \in Topology(r) \ req[r].nodes : Taken(r, m, AddressOf(r, m))
AddProbe(r) ==
    /\ req[r].pc = "probe" /\ req[r].kind = "add" /\ UNCHANGED <<files, wires>>
    /\ \E n \in req[r].nodes :
         IF /\ req[r].net => Physical(r) /\ ~Disputed(r)
            /\ FreeSlots(r, n) # {} /\ Claimable(n)
         THEN \E i \in FreeSlots(r, n) :
                /\ \A k \in FreeSlots(r, n) : i <= k
                /\ claimed' = [claimed EXCEPT ![n] = req[r].c]
                /\ req' = [req EXCEPT ![r].ix[n] = i, ![r].todo = {n},
                                      ![r].pc = AfterProbe(r, n, i)]
                /\ UNCHANGED <<row, cidr, plan, member, lock>>
         ELSE End(r) /\ UNCHANGED rows

\* verify_peer_reachability, from every peer.
AddReverse(r) ==
    /\ req[r].pc = "reverse" /\ UNCHANGED <<rows, files, wires>>
    /\ \/ (\A n \in req[r].nodes : Answers(AddressOf(r, n))) /\ Goes(r, "commit")
       \/ (\E n \in req[r].nodes : ~Answers(AddressOf(r, n))) /\ Goes(r, "undo")

\* The member row; the claim was committed before.
AddCommit(r) ==
    /\ req[r].pc = "commit" /\ req[r].kind = "add" /\ UNCHANGED <<files, wires>>
    /\ \E n \in req[r].nodes :
         IF member[n] = NoRow
         THEN /\ member' = [member EXCEPT ![n] = [c |-> req[r].c, i |-> req[r].ix[n]]]
              /\ End(r) /\ UNCHANGED <<row, cidr, plan, claimed>>
         ELSE Goes(r, "undo") /\ UNCHANGED rows

----------------------------------------------------------------------------
(* remove_cluster_node and delete_cluster: without locks.                  *)

\* The node keeps its configuration.
Remove(n) ==
    /\ "remove" \in Ops /\ member[n] # NoRow /\ Apart(member[n].c, {"delete"})
    /\ member' = [member EXCEPT ![n] = NoRow]
    /\ claimed' = [claimed EXCEPT ![n] = IF @ = member[n].c THEN NoCluster ELSE @]
    /\ UNCHANGED <<row, cidr, plan, files, wires, lock, req>>

\* The rows: every node that names the cluster is freed, the members of the cluster go.
Dissolved(c, M) ==
    /\ row' = [row EXCEPT ![c] = "deleted"]
    /\ claimed' = [n \in Nodes |-> IF claimed[n] = c THEN NoCluster ELSE claimed[n]]
    /\ member' = [n \in Nodes |-> IF n \in M /\ n \in Members(c) THEN NoRow ELSE member[n]]
    /\ UNCHANGED <<cidr, plan>>

\* "delete" leaves the nodes as they are; "cleanup" works through the members it has
\* read before it touches the rows.
Delete(c) ==
    /\ "delete" \in Ops /\ row[c] = "exists"
    /\ Apart(c, {"add", "delete"})
    /\ Dissolved(c, Nodes) /\ UNCHANGED <<files, wires, lock, req>>
CleanupBegin(r, c) ==
    /\ "cleanup" \in Ops /\ row[c] = "exists" /\ req[r].pc = "free"
    /\ Apart(c, {"add", "delete"})
    /\ req' = [req EXCEPT ![r] = [NoRequest EXCEPT !.kind = "delete", !.pc = "clean", !.c = c,
                                  !.nodes = Members(c), !.todo = Members(c)]]
    /\ UNCHANGED <<rows, files, wires, lock>>
Clean(r, n) ==
    /\ req[r].pc = "clean" /\ n \in req[r].todo
    /\ RolledBack(n) \/ NotRolledBack
    /\ req' = [req EXCEPT ![r].todo = @ \ {n}]
    /\ UNCHANGED <<rows, wires, lock>>
CleanupEnd(r) ==
    /\ req[r].pc = "clean" /\ req[r].todo = {}
    /\ IF row[req[r].c] = "exists" THEN Dissolved(req[r].c, req[r].nodes) ELSE UNCHANGED rows
    /\ End(r) /\ UNCHANGED <<files, wires>>

----------------------------------------------------------------------------
(* The environment.                                                        *)

Calm == Cardinality(devices) + Cardinality(Nodes \ linked) < MaxTroubles
DeviceJoins(a) ==
    /\ Calm /\ ~Answers(a)
    /\ devices' = devices \cup {a}
    /\ UNCHANGED <<rows, files, linked, lock, req>>
Unplug(n) ==
    /\ Calm /\ n \in linked
    /\ linked' = linked \ {n}
    /\ UNCHANGED <<rows, files, devices, lock, req>>
Plug(n) ==
    /\ n \notin linked /\ linked' = linked \cup {n}
    /\ UNCHANGED <<rows, files, devices, lock, req>>

----------------------------------------------------------------------------
RequestStep(r) ==
    \/ CreateCheck(r) \/ CreateProbe(r) \/ CreateCommit(r)
    \/ AddCheck(r) \/ AddProbe(r) \/ AddReverse(r) \/ AddCommit(r)
    \/ \E n \in Nodes : Apply(r, n) \/ Verify(r, n) \/ Clean(r, n)
    \/ Undo(r) \/ CleanupEnd(r)

Next ==
    \/ \E r \in Requests, S \in SUBSET Nodes : \E ix \in [Nodes -> 0..MaxSlot] :
         CreateBegin(r, S, ix)
    \/ \E r \in Requests, c \in Clusters, n \in Nodes, net \in BOOLEAN : AddBegin(r, c, n, net)
    \/ \E r \in Requests : Lock(r) \/ RequestStep(r)
    \/ \E n \in Nodes : Remove(n)
    \/ \E c \in Clusters : Delete(c) \/ \E r \in Requests : CleanupBegin(r, c)
    \/ \E a \in Address : DeviceJoins(a)
    \/ \E n \in Nodes : Unplug(n) \/ Plug(n)

Spec == Init /\ [][Next]_vars

----------------------------------------------------------------------------
(* Properties.                                                             *)

\* Two members never have the same address, whichever clusters they belong to: slots are
\* handed out under the lock of the cluster, networks are checked again by the table.
AddressesApart ==
    \A m, n \in Nodes :
        member[m] # NoRow /\ member[n] # NoRow /\ m # n /\ plan[member[m].c] =>
            <<cidr[member[m].c], member[m].i>> # <<cidr[member[n].c], member[n].i>>

\* Node.cluster_id agrees with the member rows: nobody's claim or release touches a node
\* that belongs to another cluster.
ClaimsMatch == \A n \in Nodes : member[n] # NoRow => claimed[n] = member[n].c

\* A member of a cluster with a plan carries the address of its slot: no rollback, no
\* reused configuration and no other request leaves it with something else, except the
\* deletion that is about to take the rows away.
Dying(c) == \E r \in Requests : req[r].kind = "delete" /\ req[r].c = c
MembersConfigured ==
    \A n \in Nodes :
        member[n] # NoRow /\ plan[member[n].c] /\ ~Dying(member[n].c) =>
            dropin[n] = <<cidr[member[n].c], member[n].i>>

\* A request that ends without its members leaves no new address on any of its nodes:
\* they have none, or the one they had when it began.
FailureLeavesNothing ==
    [][\A r \in Requests :
          req[r].pc \notin {"free", "clean", "lock"} /\ req'[r].pc = "free" =>
              \A n \in req[r].nodes :
                  member'[n] # NoRow \/ dropin'[n] \in {NoAddr, req[r].was[n]}]_vars

\* What another netplan file said of the rails is still in that file or in its backup,
\* through any number of applications and rollbacks.
ForeignKept == \A n \in Declaring : foreign[n] \/ bak[n]

\* No set of requests waits for each other's locks for ever: the locks are taken one by
\* one, on threads that hold what they have got.
Waits(r, q) == req[r].pc = "lock" /\ \E k \in Missing(r) : NextKey(r, k) /\ lock[k] = q
NoDeadlock ==
    \A Q \in SUBSET Requests : Q # {} => \E r \in Q : \A q \in Q : ~Waits(r, q)

\* The tables change only as the abstract membership may change.
Abstract == INSTANCE Membership WITH place <- member
Implements == Abstract!Spec
=============================================================================
