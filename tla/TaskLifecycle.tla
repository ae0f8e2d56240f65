--------------------------- MODULE TaskLifecycle ---------------------------
(***************************************************************************)
(* Inference tasks: published to a set of nodes, started worker first,     *)
(* paused, resumed, stopped, started, restarted and deleted by users, and  *)
(* followed by a status monitor and by docker events                       *)
(* (backend/app/routers/tasks.py, services/task_monitor.py,                *)
(* services/task_runtime.py, _on_docker_event of services/agent_ws.py).    *)
(*                                                                         *)
(* Atomicity: all of this runs on one event loop, so a stretch from one    *)
(* await to the next is one action.  A call to an agent is one action: its *)
(* effect on the node and its answer.  task_action holds a lock per task   *)
(* over its calls; publishing, the monitor and the events take no lock.    *)
(*                                                                         *)
(* A task is one compose project with one container per node.  Health is   *)
(* display data and drives no transition: it is left out.                  *)
(***************************************************************************)
EXTENDS Naturals, Sequences, FiniteSets

CONSTANTS
    Tasks,       \* ids the tasks table may hand out
    Nodes,
    Publishers,  \* slots for requests that publish a task
    Ops,         \* what users and the environment do in this instance
    MaxEvents,   \* bound on the docker events under way per container
    NoTask, NoNode

Actions == {"pause", "resume", "stop", "start", "restart", "delete"}
OpNames == Actions \cup {"fail", "exit", "events", "bench", "crash"}

ASSUME ConstantsAssumption ==
    /\ NoTask \notin Tasks /\ NoNode \notin Nodes
    /\ Ops \subseteq OpNames /\ MaxEvents \in Nat

VARIABLES
    status,     \* Task.status
    nodesOf,    \* the nodes of the task's TaskNode rows
    head,       \* the node whose role is head
    recorded,   \* the nodes whose TaskNode has a container_name
    cst,        \* TaskNode.container_status
    ctr,        \* the containers as they are on the nodes
    events,     \* docker events on their way to the backend, per container
    pub,        \* the publishing requests
    act,        \* the action that holds the lock of a task
    mon,        \* the monitor's round
    hc,         \* health checks scheduled at startup
    bench,      \* tasks with a benchmark under way
    results     \* tasks with stored TaskBenchmark rows

rowVars  == <<status, nodesOf, head, recorded, cst>>
nodeVars == <<ctr, events>>
vars == <<status, nodesOf, head, recorded, cst, ctr, events, pub, act, mon, hc, bench, results>>

Active == {"published", "running", "paused"}
Status == Active \cup {"unused", "stopped", "error", "deleted"}
ContainerState == {"none", "running", "paused", "exited"}

NoPublish == [pc |-> "idle", task |-> NoTask, nodes |-> {}, head |-> NoNode, at |-> NoNode,
              todo |-> {}, started |-> {}, failed |-> FALSE]
NoAction == [op |-> "none", todo |-> {}, mid |-> NoNode, was |-> "unused",
             cst |-> [n \in Nodes |-> "none"], done |-> {}, errors |-> {}]
NoRound == [task |-> NoTask, was |-> FALSE, todo |-> {}, seen |-> [n \in Nodes |-> "none"]]

PublishRecord == [pc : {"idle", "prepare", "up", "undo", "ps", "rollback"},
                  task : Tasks \cup {NoTask}, nodes : SUBSET Nodes,
                  head : Nodes \cup {NoNode}, at : Nodes \cup {NoNode},
                  todo : SUBSET Nodes, started : SUBSET Nodes, failed : BOOLEAN]
ActionRecord == [op : Actions \cup {"none"}, todo : SUBSET Nodes, mid : Nodes \cup {NoNode},
                 was : Status, cst : [Nodes -> ContainerState],
                 done : SUBSET Nodes, errors : SUBSET Nodes]
RoundRecord == [task : Tasks \cup {NoTask}, was : BOOLEAN, todo : SUBSET Nodes,
                seen : [Nodes -> ContainerState]]

RowsOK ==
    /\ status \in [Tasks -> Status]
    /\ nodesOf \in [Tasks -> SUBSET Nodes] /\ head \in [Tasks -> Nodes \cup {NoNode}]
    /\ \A t \in Tasks : status[t] \notin {"unused", "deleted"} => head[t] \in nodesOf[t]
    /\ recorded \in [Tasks -> SUBSET Nodes]
    /\ \A t \in Tasks : recorded[t] \subseteq nodesOf[t]
    /\ cst \in [Tasks -> [Nodes -> ContainerState]]
    /\ results \subseteq Tasks
ContainersOK ==
    /\ ctr \in [Tasks -> [Nodes -> ContainerState]]
    /\ events \in [Tasks -> [Nodes -> Seq({"running", "paused", "exited"})]]
PublishersOK ==
    /\ pub \in [Publishers -> PublishRecord]
    /\ \A p \in Publishers :
         /\ pub[p].pc = "prepare" => pub[p].head \in pub[p].nodes
         /\ pub[p].pc \in {"up", "undo", "ps", "rollback"} =>
              pub[p].task \in Tasks /\ pub[p].todo \subseteq nodesOf[pub[p].task]
         /\ pub[p].pc \in {"up", "undo", "ps"} => pub[p].at \in nodesOf[pub[p].task]
TypeOK ==
    /\ RowsOK /\ ContainersOK /\ PublishersOK
    /\ act \in [Tasks -> ActionRecord]
    /\ mon \in RoundRecord
    /\ hc \subseteq Tasks /\ bench \subseteq Tasks

Init ==
    /\ status = [t \in Tasks |-> "unused"]
    /\ nodesOf = [t \in Tasks |-> {}] /\ head = [t \in Tasks |-> NoNode]
    /\ recorded = [t \in Tasks |-> {}]
    /\ cst = [t \in Tasks |-> [n \in Nodes |-> "none"]]
    /\ ctr = [t \in Tasks |-> [n \in Nodes |-> "none"]]
    /\ events = [t \in Tasks |-> [n \in Nodes |-> <<>>]]
    /\ pub = [p \in Publishers |-> NoPublish]
    /\ act = [t \in Tasks |-> NoAction]
    /\ mon = NoRound
    /\ hc = {} /\ bench = {} /\ results = {}

----------------------------------------------------------------------------
(* Containers and their events.                                            *)

\* A container changes.  The agent's event may be lost with its connection; a
\* removed container reports its end.
Becomes(t, n, s) ==
    LET event == IF s = "none" THEN "exited" ELSE s
    IN  /\ ctr' = [ctr EXCEPT ![t][n] = s]
        /\ \/ UNCHANGED events
           \/ /\ "events" \in Ops /\ s # ctr[t][n] /\ Len(events[t][n]) < MaxEvents
              /\ events' = [events EXCEPT ![t][n] = Append(@, event)]

\* What an agent call that succeeds makes of a container in state s; a state outside
\* the domain makes docker refuse.
Effect(op) ==
    CASE op = "pause"   -> [s \in {"running"} |-> "paused"]
      [] op = "resume"  -> [s \in {"paused"} |-> "running"]
      [] op = "stop"    -> [s \in ContainerState |-> IF s = "none" THEN "none" ELSE "exited"]
      [] op = "start"   -> [s \in ContainerState \ {"paused"} |-> "running"]
      [] op = "restart" -> [s \in ContainerState |-> IF s = "none" THEN "none" ELSE "exited"]
      [] op = "delete"  -> [s \in ContainerState |-> "none"]

\* compose up starts what is not running; a paused container stays as it is.
Up(s) == IF s = "paused" THEN "paused" ELSE "running"

Exists(t) == status[t] \notin {"unused", "deleted"}

----------------------------------------------------------------------------
(* Publishing: create_task.                                                *)

Occupied == UNION {nodesOf[t] : t \in {u \in Tasks : status[u] \in Active}}

\* The first occupancy check, then the awaits that refresh the nodes and prepare the
\* model and the image.
Publish(p, N, h) ==
    /\ pub[p].pc = "idle" /\ h \in N /\ N \cap Occupied = {}
    /\ \E t \in Tasks : status[t] = "unused"
    /\ pub' = [pub EXCEPT ![p] = [NoPublish EXCEPT !.pc = "prepare", !.nodes = N, !.head = h]]
    /\ UNCHANGED <<rowVars, nodeVars, act, mon, hc, bench, results>>

\* The preparation failed, or the check under BEGIN IMMEDIATE found a conflict.
PublishRefused(p) ==
    /\ pub[p].pc = "prepare"
    /\ pub' = [pub EXCEPT ![p] = NoPublish]
    /\ UNCHANGED <<rowVars, nodeVars, act, mon, hc, bench, results>>

\* Mutant of Starters: the head goes first.
HeadFirst(todo, h) == IF h \in todo THEN {h} ELSE todo

\* Workers start before the head.
Starters(todo, h) == IF todo = {h} THEN todo ELSE todo \ {h}

\* One turn of the deployment loop, or what follows the loop: w holds the request's
\* variables, now the status its refresh reads.
Advance(p, w, now, h) ==
    CASE w.todo # {} /\ now = "published" ->
           \E n \in Starters(w.todo, h) :
               pub' = [pub EXCEPT ![p] = [w EXCEPT !.pc = "up", !.at = n, !.todo = @ \ {n}]]
      [] w.todo = {} /\ w.failed /\ w.started # {} ->
           pub' = [pub EXCEPT ![p] = [w EXCEPT !.pc = "rollback", !.at = NoNode]]
      [] OTHER -> pub' = [pub EXCEPT ![p] = NoPublish]

\* Mutant of AfterTurn: a failed publication leaves the status alone.
AfterTurnOrNothing(w, now) ==
    IF w.todo = {} /\ ~w.failed /\ now = "published" THEN "running" ELSE now

\* What the request makes of the status then: running, if it still is published; error,
\* whatever it is, once an error has nothing more to roll back.
AfterTurn(w, now) ==
    CASE w.todo = {} /\ ~w.failed /\ now = "published" -> "running"
      [] w.todo = {} /\ w.failed /\ w.started = {} -> "error"
      [] OTHER -> now

\* The row and the TaskNode rows are inserted and the first compose_up is sent.
Insert(p, rows) ==
    \E t \in Tasks :
        /\ status[t] = "unused"
        /\ status' = [status EXCEPT ![t] = "published"]
        /\ nodesOf' = [nodesOf EXCEPT ![t] = rows]
        /\ head' = [head EXCEPT ![t] = pub[p].head]
        /\ Advance(p, [NoPublish EXCEPT !.task = t, !.todo = pub[p].nodes], "published", pub[p].head)

\* Mutant of PublishReserve: the check is not repeated.
PublishReserveUnchecked(p) ==
    /\ pub[p].pc = "prepare" /\ Insert(p, pub[p].nodes)
    /\ UNCHANGED <<recorded, cst, nodeVars, act, mon, hc, bench, results>>

\* The occupancy check and the insertion in one write transaction.
PublishReserve(p) ==
    /\ pub[p].pc = "prepare" /\ pub[p].nodes \cap Occupied = {} /\ Insert(p, pub[p].nodes)
    /\ UNCHANGED <<recorded, cst, nodeVars, act, mon, hc, bench, results>>

\* compose_up answered, and the row is read again: a task that is no longer published
\* is taken down on this node, a deleted one makes the handler raise.
PublishUp(p) ==
    LET t == pub[p].task
        n == pub[p].at
    IN  /\ pub[p].pc = "up" /\ Becomes(t, n, Up(ctr[t][n]))
        /\ pub' = [pub EXCEPT ![p] =
                     IF status[t] = "deleted" THEN NoPublish
                     ELSE [pub[p] EXCEPT !.pc = IF status[t] = "published" THEN "ps" ELSE "undo",
                                         !.started = @ \cup {n}]]
        /\ UNCHANGED <<rowVars, act, mon, hc, bench, results>>

\* The turn for the current node has ended, with or without an error.
Turned(p, failed) ==
    LET t == pub[p].task
        w == [pub[p] EXCEPT !.failed = @ \/ failed]
    IN  IF status[t] = "deleted"
        THEN pub' = [pub EXCEPT ![p] = NoPublish] /\ UNCHANGED status
        ELSE /\ Advance(p, w, status[t], head[t])
             /\ status' = [status EXCEPT ![t] = AfterTurn(w, @)]

\* compose_up or the following compose_ps failed; a failed compose_up may still have
\* started the container.
PublishFails(p) ==
    LET t == pub[p].task
        n == pub[p].at
    IN  /\ pub[p].pc \in {"up", "ps"} /\ "fail" \in Ops
        /\ \/ UNCHANGED nodeVars
           \/ pub[p].pc = "up" /\ Becomes(t, n, Up(ctr[t][n]))
        /\ Turned(p, TRUE)
        /\ UNCHANGED <<nodesOf, head, recorded, cst, act, mon, hc, bench, results>>

\* The container of a task that left published during its compose_up is removed.
PublishUndo(p) ==
    /\ pub[p].pc = "undo"
    /\ \/ Becomes(pub[p].task, pub[p].at, "none")
       \/ "fail" \in Ops /\ UNCHANGED nodeVars
    /\ pub' = [pub EXCEPT ![p] = NoPublish]
    /\ UNCHANGED <<rowVars, act, mon, hc, bench, results>>

\* compose_ps answered: the container's name and state are recorded.
PublishPs(p) ==
    LET t == pub[p].task
        n == pub[p].at
    IN  /\ pub[p].pc = "ps"
        /\ IF ~Exists(t) \/ ctr[t][n] = "none" THEN UNCHANGED <<recorded, cst>>
           ELSE /\ recorded' = [recorded EXCEPT ![t] = @ \cup {n}]
                /\ cst' = [cst EXCEPT ![t][n] = ctr[t][n]]
        /\ Turned(p, FALSE)
        /\ UNCHANGED <<nodesOf, head, nodeVars, act, mon, hc, bench, results>>

\* After an error every node that was started is taken down again; then the task
\* becomes error, whatever it says by now.
PublishRollback(p) ==
    LET t == pub[p].task
    IN  /\ pub[p].pc = "rollback"
        /\ \E n \in pub[p].started :
             LET w == [pub[p] EXCEPT !.started = @ \ {n}]
             IN  /\ \/ /\ Becomes(t, n, "none")
                       /\ cst' = IF Exists(t) THEN [cst EXCEPT ![t][n] = "exited"] ELSE cst
                    \/ "fail" \in Ops /\ UNCHANGED <<nodeVars, cst>>
                 /\ Advance(p, w, status[t], head[t])
                 /\ status' = IF Exists(t) THEN [status EXCEPT ![t] = AfterTurn(w, @)] ELSE status
        /\ UNCHANGED <<nodesOf, head, recorded, act, mon, hc, bench, results>>

----------------------------------------------------------------------------
(* User actions: task_action, one at a time per task.                      *)

\* _validate_transition
Allowed(op) == CASE op = "pause"   -> {"published", "running"}
                 [] op = "resume"  -> {"paused"}
                 [] op = "stop"    -> {"published", "running", "paused", "error"}
                 [] op = "restart" -> {"running"}
                 [] op = "start"   -> {"stopped", "error"}
                 [] op = "delete"  -> Active \cup {"stopped", "error"}

\* The status an action that did not fail everywhere leaves behind.
Goal(op) == CASE op = "pause" -> "paused" [] op = "stop" -> "stopped" [] OTHER -> "running"

\* The lock is taken, the row is read once; pause and resume touch the recorded
\* containers, the others every node.
ActStart(t, op) ==
    /\ op \in Ops /\ act[t].op = "none" /\ status[t] \in Allowed(op)
    /\ op \in {"start", "restart", "pause", "resume"} => recorded[t] # {}
    /\ act' = [act EXCEPT ![t] = [NoAction EXCEPT !.op = op, !.was = status[t], !.cst = cst[t],
                 !.todo = IF op \in {"pause", "resume"} THEN recorded[t] ELSE nodesOf[t]]]
    /\ UNCHANGED <<rowVars, nodeVars, pub, mon, hc, bench, results>>

\* Without a recorded container there is nothing to pause or resume and no await.
ActAtOnce(t, op) ==
    /\ op \in Ops \cap {"pause", "resume"} /\ act[t].op = "none" /\ status[t] \in Allowed(op)
    /\ recorded[t] = {}
    /\ status' = [status EXCEPT ![t] = Goal(op)]
    /\ UNCHANGED <<nodesOf, head, recorded, cst, nodeVars, pub, act, mon, hc, bench, results>>

\* A call to one node; restart leaves the container down for a moment.
ActCall(t, n) ==
    LET op == act[t].op
        s  == ctr[t][n]
    IN  /\ n \in act[t].todo /\ act[t].mid = NoNode
        /\ s \in DOMAIN Effect(op) /\ Becomes(t, n, Effect(op)[s])
        /\ act' = [act EXCEPT ![t] = IF op = "restart" /\ s # "none"
                                     THEN [act[t] EXCEPT !.todo = @ \ {n}, !.mid = n]
                                     ELSE [act[t] EXCEPT !.todo = @ \ {n}, !.done = @ \cup {n}]]
        /\ UNCHANGED <<rowVars, pub, mon, hc, bench, results>>

ActRestarted(t) ==
    /\ act[t].mid # NoNode
    /\ Becomes(t, act[t].mid, "running")
    /\ act' = [act EXCEPT ![t] = [act[t] EXCEPT !.mid = NoNode, !.done = @ \cup {act[t].mid}]]
    /\ UNCHANGED <<rowVars, pub, mon, hc, bench, results>>

\* Docker refuses, or the call fails with or without its effect.
ActCallFails(t, n) ==
    LET op == act[t].op
        s  == ctr[t][n]
    IN  /\ n \in act[t].todo /\ act[t].mid = NoNode
        /\ \/ s \notin DOMAIN Effect(op) /\ UNCHANGED nodeVars
           \/ "fail" \in Ops /\ UNCHANGED nodeVars
           \/ "fail" \in Ops /\ s \in DOMAIN Effect(op) /\ Becomes(t, n, Effect(op)[s])
        /\ act' = [act EXCEPT ![t] = [act[t] EXCEPT !.todo = @ \ {n}, !.errors = @ \cup {n}]]
        /\ UNCHANGED <<rowVars, pub, mon, hc, bench, results>>

Called(t) == act[t].op # "none" /\ act[t].todo = {} /\ act[t].mid = NoNode

\* The outcome: error only when every node that counts failed.
Outcome(t) ==
    LET counted == IF act[t].op = "pause" THEN act[t].done \cup act[t].errors ELSE nodesOf[t]
    IN  IF act[t].errors # {} /\ counted \subseteq act[t].errors THEN "error" ELSE Goal(act[t].op)

\* The commit.  A value equal to the one that was read is no change to the ORM and is
\* not written, so what others wrote meanwhile stays.
ActEnd(t) ==
    LET op   == act[t].op
        said == IF Goal(op) = "running" THEN "running"
                ELSE IF op = "pause" THEN "paused" ELSE "exited"
    IN  /\ Called(t) /\ op # "delete"
        /\ status' = IF Outcome(t) = act[t].was THEN status
                     ELSE [status EXCEPT ![t] = Outcome(t)]
        /\ cst' = [cst EXCEPT ![t] = [n \in Nodes |->
                     IF n \in act[t].done /\ act[t].cst[n] # said THEN said ELSE @[n]]]
        /\ act' = [act EXCEPT ![t] = NoAction]
        /\ UNCHANGED <<nodesOf, head, recorded, nodeVars, pub, mon, hc, bench, results>>

\* delete: in one write transaction the rows of the task and all that hangs on it.
ActDeleted(t) ==
    /\ Called(t) /\ act[t].op = "delete"
    /\ status' = [status EXCEPT ![t] = "deleted"]
    /\ recorded' = [recorded EXCEPT ![t] = {}]
    /\ results' = results \ {t}
    /\ act' = [act EXCEPT ![t] = NoAction]
    /\ UNCHANGED <<nodesOf, head, cst, nodeVars, pub, mon, hc, bench>>

----------------------------------------------------------------------------
(* The monitor: _check_task for one task after the other.                  *)

ProbeStart(t) ==
    /\ mon.task = NoTask /\ Exists(t)
    /\ mon' = [NoRound EXCEPT !.task = t, !.was = status[t] = "running", !.todo = recorded[t]]
    /\ UNCHANGED <<rowVars, nodeVars, pub, act, hc, bench, results>>

\* compose_ps of one node; a failure or a missing container leaves no state.
ProbeNode(n) ==
    /\ n \in mon.todo
    /\ \E s \in {ctr[mon.task][n]} \cup (IF "fail" \in Ops THEN {"none"} ELSE {}) :
         mon' = [mon EXCEPT !.todo = @ \ {n}, !.seen[n] = s]
    /\ UNCHANGED <<rowVars, nodeVars, pub, act, hc, bench, results>>

\* Mutant of Ended: one exited container is enough.
EndedByOne(t, seen) == \E n \in nodesOf[t] : seen[n] = "exited"

\* All containers of the task have exited.
Ended(t, seen) == \A n \in nodesOf[t] : seen[n] = "exited"

\* The states seen are written; a task that was running when the round began and still
\* is has stopped when all its containers have exited.
ProbeEnd ==
    LET t == mon.task
    IN  /\ t # NoTask /\ mon.todo = {}
        /\ mon' = NoRound
        /\ IF ~Exists(t) THEN UNCHANGED <<status, cst>>
           ELSE /\ cst' = [cst EXCEPT ![t] = [n \in Nodes |->
                             IF mon.seen[n] = "none" THEN @[n] ELSE mon.seen[n]]]
                /\ status' = IF mon.was /\ status[t] = "running" /\ Ended(t, mon.seen)
                             THEN [status EXCEPT ![t] = "stopped"] ELSE status
        /\ UNCHANGED <<nodesOf, head, recorded, nodeVars, pub, act, hc, bench, results>>

----------------------------------------------------------------------------
(* Events, exits, health checks, benchmarks, crashes.                      *)

\* _on_docker_event, for a container whose name is recorded.
DockerEvent(t, n) ==
    LET state == Head(events[t][n])
        now   == [cst[t] EXCEPT ![n] = state]
    IN  /\ events[t][n] # <<>>
        /\ events' = [events EXCEPT ![t][n] = Tail(@)]
        /\ IF n \notin recorded[t] THEN UNCHANGED <<status, cst>>
           ELSE /\ cst' = [cst EXCEPT ![t] = now]
                /\ status' = IF status[t] = "running" /\ state = "exited" /\ Ended(t, now)
                             THEN [status EXCEPT ![t] = "stopped"] ELSE status
        /\ UNCHANGED <<nodesOf, head, recorded, ctr, pub, act, mon, hc, bench, results>>

\* The program in a container ends.
ContainerExits(t, n) ==
    /\ "exit" \in Ops /\ ctr[t][n] = "running" /\ Becomes(t, n, "exited")
    /\ UNCHANGED <<rowVars, pub, act, mon, hc, bench, results>>

\* _health_check of a task found published at startup: with the head's container up it
\* becomes running, without it the check gives up.
HealthCheck(t) ==
    /\ t \in hc /\ hc' = hc \ {t}
    /\ status' = IF status[t] = "published" /\ head[t] \in recorded[t] /\ ctr[t][head[t]] # "none"
                 THEN [status EXCEPT ![t] = "running"] ELSE status
    /\ UNCHANGED <<nodesOf, head, recorded, cst, nodeVars, pub, act, mon, bench, results>>

BenchStart(t) ==
    /\ "bench" \in Ops /\ t \notin bench /\ status[t] = "running"
    /\ bench' = bench \cup {t}
    /\ UNCHANGED <<rowVars, nodeVars, pub, act, mon, hc, results>>

\* Mutant of BenchStore: the result is stored whatever became of the task.
BenchStoreAnyway(t) ==
    /\ t \in bench /\ bench' = bench \ {t}
    /\ results' = results \cup {t}
    /\ UNCHANGED <<rowVars, nodeVars, pub, act, mon, hc>>

\* The result is stored under the lock lock_task_for_write, if the task still runs.
BenchStore(t) ==
    /\ t \in bench /\ bench' = bench \ {t}
    /\ results' = IF status[t] = "running" THEN results \cup {t} ELSE results
    /\ UNCHANGED <<rowVars, nodeVars, pub, act, mon, hc>>

\* The backend stops and starts again.  Agents finish what they are doing: a restart
\* under way completes, a compose up under way may.
Crash ==
    /\ "crash" \in Ops
    /\ \E late \in SUBSET {p \in Publishers : pub[p].pc = "up"} :
         ctr' = [t \in Tasks |-> [n \in Nodes |->
                   IF act[t].mid = n THEN "running"
                   ELSE IF \E p \in late : pub[p].task = t /\ pub[p].at = n THEN Up(ctr[t][n])
                   ELSE ctr[t][n]]]
    /\ events' = [t \in Tasks |-> [n \in Nodes |-> <<>>]]
    /\ pub' = [p \in Publishers |-> NoPublish]
    /\ act' = [t \in Tasks |-> NoAction]
    /\ mon' = NoRound /\ bench' = {}
    /\ hc' = {t \in Tasks : status[t] = "published"}
    /\ UNCHANGED <<rowVars, results>>

----------------------------------------------------------------------------
PublishStep(p) ==
    \/ PublishRefused(p) \/ PublishReserve(p) \/ PublishUp(p) \/ PublishFails(p)
    \/ PublishUndo(p) \/ PublishPs(p) \/ PublishRollback(p)

ActStep(t) ==
    \/ \E n \in Nodes : ActCall(t, n) \/ ActCallFails(t, n)
    \/ ActRestarted(t) \/ ActEnd(t) \/ ActDeleted(t)

MonitorStep == (\E t \in Tasks : ProbeStart(t)) \/ (\E n \in Nodes : ProbeNode(n)) \/ ProbeEnd

Environment ==
    \/ \E p \in Publishers, N \in SUBSET Nodes, h \in Nodes : Publish(p, N, h)
    \/ \E t \in Tasks, op \in Actions : ActStart(t, op) \/ ActAtOnce(t, op)
    \/ \E t \in Tasks, n \in Nodes : ContainerExits(t, n)
    \/ \E t \in Tasks : BenchStart(t)
    \/ Crash

System ==
    \/ \E p \in Publishers : PublishStep(p)
    \/ \E t \in Tasks : ActStep(t) \/ HealthCheck(t) \/ BenchStore(t)
    \/ \E t \in Tasks, n \in Nodes : DockerEvent(t, n)
    \/ MonitorStep

Next == Environment \/ System

Spec == Init /\ [][Next]_vars

\* Requests and background coroutines keep running: every agent call ends, by its
\* answer or by its timeout.
Fairness ==
    /\ \A p \in Publishers : WF_vars(PublishStep(p))
    /\ \A t \in Tasks : WF_vars(ActStep(t)) /\ WF_vars(HealthCheck(t)) /\ WF_vars(BenchStore(t))
    /\ WF_vars(MonitorStep)

FairSpec == Spec /\ Fairness

----------------------------------------------------------------------------
(* Properties.                                                             *)

\* No node belongs to two active tasks: ports, GPUs and RoCE devices are not shared.
NodeExclusive ==
    \A t, u \in Tasks :
        status[t] \in Active /\ status[u] \in Active /\ t # u => nodesOf[t] \cap nodesOf[u] = {}

\* The same for the containers themselves: none that occupies a GPU next to another
\* task's, however statuses and containers drift apart.
OneTaskPerNode ==
    \A t, u \in Tasks, n \in Nodes :
        ctr[t][n] \in {"running", "paused"} /\ ctr[u][n] \in {"running", "paused"} => t = u

Busy(t) == act[t].op # "none" \/ \E p \in Publishers : pub[p].task = t

\* A running task nobody is working on has its container on every one of its nodes: no
\* "running without containers".
RunningWherePlaced ==
    \A t \in Tasks : status[t] = "running" /\ ~Busy(t) => \A n \in nodesOf[t] : ctr[t][n] # "none"

\* No benchmark row outlives its task.
NoOrphanResults == \A t \in results : Exists(t)

\* A publication ends: the task does not stay published for ever, holding its nodes.
PublishEnds == \A t \in Tasks : status[t] = "published" ~> status[t] # "published"
=============================================================================
