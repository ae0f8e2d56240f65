------------------------ MODULE TaskLifecycleProofs ------------------------
(***************************************************************************)
(* Theorems about TaskLifecycle, for every choice of its constants.        *)
(*                                                                         *)
(* TypeOK is not inductive as it stands: that a request or an action never *)
(* touches the rows of a task that has none takes the facts of Fresh, that *)
(* the calls in its todo belong to an action those of Idle.                *)
(***************************************************************************)
EXTENDS TaskLifecycle, TLAPS

USE DEF rowVars, nodeVars

\* Rows nobody uses yet are empty, and nobody works on them.
Fresh ==
    /\ \A t \in Tasks : act[t].op # "none" => Exists(t)
    /\ \A t \in Tasks : recorded[t] # {} => status[t] # "unused"
    /\ \A p \in Publishers, t \in Tasks : pub[p].task = t => status[t] # "unused"

\* Nodes to visit belong to an action or to a round.
Idle ==
    /\ \A t \in Tasks : act[t].op = "none" => act[t].todo = {}
    /\ mon.task = NoTask => mon.todo = {}

TypeInv == TypeOK /\ Fresh /\ Idle

----------------------------------------------------------------------------
(* The operators the actions are built from.                               *)

LEMMA NoActionTyped == NoAction \in ActionRecord
BY DEF NoAction, ActionRecord, ContainerState, Status, Active

LEMMA UpTyped == \A s : Up(s) \in {"running", "paused"}
BY DEF Up

LEMMA EffectTyped ==
    ASSUME NEW op \in Actions, NEW s \in DOMAIN Effect(op)
    PROVE  Effect(op)[s] \in ContainerState
<1>1. CASE op = "pause" BY <1>1 DEF Effect, ContainerState
<1>2. CASE op = "resume" BY <1>2 DEF Effect, ContainerState
<1>3. CASE op = "stop" BY <1>3 DEF Effect, ContainerState
<1>4. CASE op = "start" BY <1>4 DEF Effect, ContainerState
<1>5. CASE op = "restart" BY <1>5 DEF Effect, ContainerState
<1>6. CASE op = "delete" BY <1>6 DEF Effect, ContainerState
<1> QED BY <1>1, <1>2, <1>3, <1>4, <1>5, <1>6 DEF Actions

LEMMA BecomesTyped ==
    ASSUME ContainersOK, NEW t \in Tasks, NEW n \in Nodes, NEW s \in ContainerState,
           Becomes(t, n, s)
    PROVE  ContainersOK'
<1>1. ctr' \in [Tasks -> [Nodes -> ContainerState]]
      BY DEF Becomes, ContainersOK
<1>2. CASE UNCHANGED events
      BY <1>1, <1>2 DEF ContainersOK
<1>3. CASE ~UNCHANGED events
  <2> DEFINE event == IF s = "none" THEN "exited" ELSE s
             more == Append(events[t][n], event)
  <2>1. events' = [events EXCEPT ![t][n] = more]
        BY <1>3 DEF Becomes
  <2>2. more \in Seq({"running", "paused", "exited"})
        BY DEF ContainersOK, ContainerState
  <2> HIDE DEF more
  <2> QED BY <1>1, <2>1, <2>2 DEF ContainersOK
<1> QED BY <1>2, <1>3

\* What a request makes of a status.
LEMMA AfterTurnTyped ==
    ASSUME NEW w, NEW now
    PROVE  /\ AfterTurn(w, now) \in {now, "running", "error"}
           /\ AfterTurn(w, now) = "running" => now \in {"published", "running"}
BY DEF AfterTurn

LEMMA OutcomeTyped ==
    ASSUME NEW t \in Tasks
    PROVE  Outcome(t) \in {"error", "paused", "stopped", "running"}
BY DEF Outcome, Goal

LEMMA TypeInit == Init => TypeInv
<1> SUFFICES ASSUME Init PROVE TypeInv
    OBVIOUS
<1>1. RowsOK BY DEF Init, RowsOK, Status, Active, ContainerState
<1>2. ContainersOK
  <2>1. <<>> \in Seq({"running", "paused", "exited"})
        OBVIOUS
  <2> QED BY <2>1 DEF Init, ContainersOK, ContainerState
<1>3. PublishersOK BY DEF Init, PublishersOK, PublishRecord, NoPublish
<1>4. act \in [Tasks -> ActionRecord] BY NoActionTyped DEF Init
<1>5. mon \in RoundRecord BY DEF Init, RoundRecord, NoRound, ContainerState
<1>6. hc \subseteq Tasks /\ bench \subseteq Tasks BY DEF Init
<1>7. Fresh BY ConstantsAssumption DEF Init, Fresh, NoAction, NoPublish
<1>8. Idle BY DEF Init, Idle, NoAction, NoRound
<1> QED BY <1>1, <1>2, <1>3, <1>4, <1>5, <1>6, <1>7, <1>8 DEF TypeInv, TypeOK

----------------------------------------------------------------------------
(* The containers.                                                         *)

LEMMA ContainersStay ==
    ASSUME TypeInv, [Next]_vars
    PROVE  ContainersOK'
<1> USE DEF TypeInv, TypeOK
<1>1. CASE UNCHANGED nodeVars
      BY <1>1 DEF ContainersOK
<1>2. ASSUME NEW p \in Publishers, PublishUp(p) \/ PublishFails(p), ~UNCHANGED nodeVars
      PROVE  ContainersOK'
  <2>1. pub[p].task \in Tasks /\ pub[p].at \in Nodes
        BY <1>2 DEF PublishUp, PublishFails, PublishersOK, RowsOK
  <2>2. PICK s : Becomes(pub[p].task, pub[p].at, Up(s))
        BY <1>2 DEF PublishUp, PublishFails
  <2> QED BY <2>1, <2>2, BecomesTyped, UpTyped DEF ContainerState
<1>3. ASSUME NEW p \in Publishers, PublishUndo(p), ~UNCHANGED nodeVars
      PROVE  ContainersOK'
  <2>1. pub[p].task \in Tasks /\ pub[p].at \in Nodes
        BY <1>3 DEF PublishUndo, PublishersOK, RowsOK
  <2> QED BY <1>3, <2>1, BecomesTyped DEF PublishUndo, ContainerState
<1>4. ASSUME NEW p \in Publishers, PublishRollback(p), ~UNCHANGED nodeVars
      PROVE  ContainersOK'
  <2>1. PICK n \in pub[p].started : Becomes(pub[p].task, n, "none")
        BY <1>4 DEF PublishRollback
  <2>2. pub[p].task \in Tasks /\ n \in Nodes
        BY <1>4 DEF PublishRollback, PublishersOK, PublishRecord
  <2> QED BY <2>1, <2>2, BecomesTyped DEF ContainerState
<1>5. ASSUME NEW t \in Tasks, NEW n \in Nodes, ActCall(t, n) \/ ActCallFails(t, n),
             ~UNCHANGED nodeVars
      PROVE  ContainersOK'
  <2>1. act[t].op \in Actions
        BY <1>5 DEF ActCall, ActCallFails, Idle, ActionRecord
  <2>2. PICK s \in DOMAIN Effect(act[t].op) : Becomes(t, n, Effect(act[t].op)[s])
        BY <1>5 DEF ActCall, ActCallFails
  <2> QED BY <2>1, <2>2, EffectTyped, BecomesTyped
<1>6. ASSUME NEW t \in Tasks, ActRestarted(t)
      PROVE  ContainersOK'
  <2>1. act[t].mid \in Nodes
        BY <1>6 DEF ActRestarted, ActionRecord
  <2> QED BY <1>6, <2>1, BecomesTyped DEF ActRestarted, ContainerState
<1>7. ASSUME NEW t \in Tasks, NEW n \in Nodes, ContainerExits(t, n)
      PROVE  ContainersOK'
      BY <1>7, BecomesTyped DEF ContainerExits, ContainerState
<1>8. ASSUME NEW t \in Tasks, NEW n \in Nodes, DockerEvent(t, n)
      PROVE  ContainersOK'
  <2>1. Tail(events[t][n]) \in Seq({"running", "paused", "exited"})
        BY <1>8 DEF DockerEvent, ContainersOK
  <2> QED BY <1>8, <2>1 DEF DockerEvent, ContainersOK
<1>9. CASE Crash
  <2>1. PICK late : ctr' = [t \in Tasks |-> [n \in Nodes |->
                   IF act[t].mid = n THEN "running"
                   ELSE IF \E p \in late : pub[p].task = t /\ pub[p].at = n THEN Up(ctr[t][n])
                   ELSE ctr[t][n]]]
        BY <1>9 DEF Crash
  <2>2. ctr' \in [Tasks -> [Nodes -> ContainerState]]
        BY <2>1, UpTyped DEF ContainersOK, ContainerState
  <2>3. <<>> \in Seq({"running", "paused", "exited"})
        OBVIOUS
  <2> QED BY <1>9, <2>2, <2>3 DEF Crash, ContainersOK
<1>10. CASE ~UNCHANGED nodeVars
  <2>1. ASSUME NEW p \in Publishers, PublishStep(p) PROVE ContainersOK'
        BY <1>10, <2>1, <1>2, <1>3, <1>4
           DEF PublishStep, PublishRefused, PublishReserve, PublishPs
  <2>2. ASSUME NEW t \in Tasks, ActStep(t) PROVE ContainersOK'
        BY <1>10, <2>2, <1>5, <1>6 DEF ActStep, ActEnd, ActDeleted
  <2>3. ~MonitorStep
        BY <1>10 DEF MonitorStep, ProbeStart, ProbeNode, ProbeEnd
  <2>4. ASSUME NEW t \in Tasks, HealthCheck(t) \/ BenchStore(t) PROVE FALSE
        BY <1>10, <2>4 DEF HealthCheck, BenchStore
  <2>5. CASE Environment
        BY <1>10, <2>5, <1>7, <1>9 DEF Environment, Publish, ActStart, ActAtOnce, BenchStart
  <2> QED BY <1>8, <1>10, <2>1, <2>2, <2>3, <2>4, <2>5 DEF vars, Next, System
<1> QED BY <1>1, <1>10
----------------------------------------------------------------------------
(* The rows.  A step gives a status to a task that has none only with its  *)
(* other rows, and marks a task deleted only at the end of its deletion.   *)

RowsMove ==
    /\ RowsOK'
    /\ \A t \in Tasks : status'[t] = "unused" => status[t] = "unused"
    /\ \A t \in Tasks : status'[t] = "deleted" /\ act'[t].op # "none" => status[t] = "deleted"
    /\ \A t \in Tasks : recorded'[t] # {} => status'[t] # "unused"
    /\ \A t \in results' : \/ t \in results \/ status'[t] = "running"
    /\ \A t \in results' : status'[t] = "deleted" => status[t] = "deleted"

\* A step that leaves nodesOf, head and recorded alone and moves only existing tasks,
\* among the statuses of existing tasks.
MovesOn ==
    /\ UNCHANGED <<nodesOf, head, recorded>>
    /\ status' \in [Tasks -> Status]
    /\ \A t \in Tasks : 
          status'[t] = status[t] \/ (Exists(t) /\ status'[t] \notin {"unused", "deleted"})
    /\ cst' \in [Tasks -> [Nodes -> ContainerState]]
    /\ results' \subseteq results \cup {t \in Tasks : status'[t] = "running"}

LEMMA MovesOnRows ==
    ASSUME TypeInv, MovesOn
    PROVE  RowsMove
BY DEF TypeInv, TypeOK, RowsOK, Fresh, MovesOn, RowsMove, Exists

LEMMA TurnedMoves ==
    ASSUME TypeInv, NEW p \in Publishers, NEW failed, pub[p].task \in Tasks, Turned(p, failed)
    PROVE  /\ status' \in [Tasks -> Status]
           /\ \A t \in Tasks : status'[t] = status[t]
                                 \/ (Exists(t) /\ status'[t] \notin {"unused", "deleted"})
<1> DEFINE t == pub[p].task
           w == [pub[p] EXCEPT !.failed = @ \/ failed]
<1>1. CASE UNCHANGED status
      BY <1>1 DEF TypeInv, TypeOK, RowsOK
<1>2. CASE status[t] # "deleted" /\ status' = [status EXCEPT ![t] = AfterTurn(w, status[t])]
  <2>1. Exists(t)
        BY <1>2 DEF TypeInv, Fresh, Exists
  <2>2. AfterTurn(w, status[t]) \in {status[t], "running", "error"}
        BY AfterTurnTyped
  <2> QED BY <1>2, <2>1, <2>2 DEF TypeInv, TypeOK, RowsOK, Status, Active, Exists
<1> QED BY <1>1, <1>2 DEF Turned

LEMMA RowsStay ==
    ASSUME TypeInv, [Next]_vars
    PROVE  RowsMove
<1> USE DEF TypeInv, TypeOK, RowsOK
<1>1. CASE UNCHANGED <<rowVars, results>>
      BY <1>1, MovesOnRows DEF MovesOn
<1>2. ASSUME NEW p \in Publishers, PublishReserve(p) PROVE RowsMove
  <2>1. PICK t \in Tasks :
          /\ status[t] = "unused"
          /\ status' = [status EXCEPT ![t] = "published"]
          /\ nodesOf' = [nodesOf EXCEPT ![t] = pub[p].nodes]
          /\ head' = [head EXCEPT ![t] = pub[p].head]
        BY <1>2 DEF PublishReserve, Insert
  <2>2. pub[p].nodes \in SUBSET Nodes /\ pub[p].head \in pub[p].nodes
        BY <1>2 DEF PublishReserve, PublishersOK, PublishRecord
  <2>3. UNCHANGED <<recorded, cst, results>>
        BY <1>2 DEF PublishReserve
  <2>4. status' \in [Tasks -> Status] /\ nodesOf' \in [Tasks -> SUBSET Nodes]
        BY <2>1, <2>2 DEF Status, Active
  <2>5. head' \in [Tasks -> Nodes \cup {NoNode}]
        BY <2>1, <2>2
  <2>6. \A u \in Tasks : status'[u] \notin {"unused", "deleted"} => head'[u] \in nodesOf'[u]
        BY <2>1, <2>2
  <2>7. \A u \in Tasks : recorded'[u] \subseteq nodesOf'[u]
        BY <2>1, <2>3 DEF Fresh
  <2> QED BY <2>1, <2>3, <2>4, <2>5, <2>6, <2>7 DEF RowsMove, Fresh
<1>3. ASSUME NEW p \in Publishers, PublishFails(p) PROVE RowsMove
  <2>1. pub[p].task \in Tasks
        BY <1>3 DEF PublishFails, PublishersOK
  <2> QED BY <1>3, <2>1, TurnedMoves, MovesOnRows DEF PublishFails, MovesOn
<1>4. ASSUME NEW p \in Publishers, PublishPs(p) PROVE RowsMove
  <2> DEFINE t == pub[p].task
             n == pub[p].at
  <2>1. t \in Tasks /\ n \in nodesOf[t]
        BY <1>4 DEF PublishPs, PublishersOK
  <2>2. /\ status' \in [Tasks -> Status]
        /\ \A u \in Tasks : status'[u] = status[u]
                              \/ (Exists(u) /\ status'[u] \notin {"unused", "deleted"})
        BY <1>4, <2>1, TurnedMoves DEF PublishPs
  <2>3. CASE UNCHANGED <<recorded, cst>>
        BY <1>4, <2>2, <2>3, MovesOnRows DEF PublishPs, MovesOn
  <2>4. CASE /\ Exists(t)
             /\ recorded' = [recorded EXCEPT ![t] = @ \cup {n}]
             /\ cst' = [cst EXCEPT ![t][n] = ctr[t][n]]
    <3>1. UNCHANGED <<nodesOf, head, results>>
          BY <1>4 DEF PublishPs
    <3>2. cst' \in [Tasks -> [Nodes -> ContainerState]]
          BY <2>1, <2>4 DEF ContainersOK
    <3>3. recorded' \in [Tasks -> SUBSET Nodes] /\ \A u \in Tasks : recorded'[u] \subseteq nodesOf[u]
          BY <2>1, <2>4
    <3> QED BY <2>1, <2>2, <2>4, <3>1, <3>2, <3>3 DEF RowsMove, Exists, Fresh
  <2> QED BY <1>4, <2>3, <2>4 DEF PublishPs
<1>5. ASSUME NEW p \in Publishers, PublishRollback(p) PROVE RowsMove
  <2> DEFINE t == pub[p].task
  <2>1. t \in Tasks
        BY <1>5 DEF PublishRollback, PublishersOK
  <2>2. PICK w : status' = IF Exists(t) THEN [status EXCEPT ![t] = AfterTurn(w, @)] ELSE status
        BY <1>5 DEF PublishRollback
  <2>3. AfterTurn(w, status[t]) \in {status[t], "running", "error"}
        BY AfterTurnTyped
  <2>4. cst' \in [Tasks -> [Nodes -> ContainerState]]
    <3>1. PICK n \in pub[p].started :
            UNCHANGED cst \/ cst' = IF Exists(t) THEN [cst EXCEPT ![t][n] = "exited"] ELSE cst
          BY <1>5, Zenon DEF PublishRollback
    <3>2. n \in Nodes /\ "exited" \in ContainerState
          BY <1>5 DEF PublishRollback, PublishersOK, PublishRecord, ContainerState
    <3>3. CASE UNCHANGED cst BY <3>3
    <3>4. CASE cst' = [cst EXCEPT ![t][n] = "exited"]
      <4> HIDE DEF t
      <4> QED BY <2>1, <3>2, <3>4
    <3> QED BY <3>1, <3>3, <3>4
  <2> QED BY <1>5, <2>1, <2>2, <2>3, <2>4, MovesOnRows
          DEF PublishRollback, MovesOn, Exists, Status, Active
<1>6. ASSUME NEW t \in Tasks, NEW op \in Actions, ActAtOnce(t, op) PROVE RowsMove
      BY <1>6, MovesOnRows DEF ActAtOnce, MovesOn, Goal, Allowed, Exists, Status, Active
<1>7. ASSUME NEW t \in Tasks, ActEnd(t) PROVE RowsMove
  <2>1. Exists(t)
        BY <1>7 DEF ActEnd, Called, Fresh
  <2>2. /\ status' \in [Tasks -> Status]
        /\ \A u \in Tasks : status'[u] = status[u]
                              \/ (Exists(u) /\ status'[u] \notin {"unused", "deleted"})
        BY <1>7, <2>1, OutcomeTyped DEF ActEnd, Status, Active
  <2>3. cst' \in [Tasks -> [Nodes -> ContainerState]]
        BY <1>7 DEF ActEnd, ContainerState
  <2> QED BY <1>7, <2>2, <2>3, MovesOnRows DEF ActEnd, MovesOn
<1>8. ASSUME NEW t \in Tasks, ActDeleted(t) PROVE RowsMove
      BY <1>8 DEF ActDeleted, RowsMove, Fresh, Exists, Status, NoAction
<1>9. CASE ProbeEnd
  <2>1. CASE UNCHANGED <<status, cst>>
        BY <1>9, <2>1, MovesOnRows DEF ProbeEnd, MovesOn
  <2>2. CASE Exists(mon.task) /\ ~UNCHANGED <<status, cst>>
    <3>1. mon.task \in Tasks /\ mon.seen \in [Nodes -> ContainerState]
          BY <1>9 DEF ProbeEnd, RoundRecord
    <3>2. cst' \in [Tasks -> [Nodes -> ContainerState]]
      <4> DEFINE new == [n \in Nodes |->
                           IF mon.seen[n] = "none" THEN cst[mon.task][n] ELSE mon.seen[n]]
      <4>1. cst' = [cst EXCEPT ![mon.task] = new]
            BY <1>9, <2>2 DEF ProbeEnd
      <4>2. new \in [Nodes -> ContainerState]
            BY <3>1
      <4> HIDE DEF new
      <4> QED BY <3>1, <4>1, <4>2
    <3>3. status' = status \/ status' = [status EXCEPT ![mon.task] = "stopped"]
          BY <1>9, <2>2 DEF ProbeEnd
    <3> QED BY <1>9, <2>2, <3>1, <3>2, <3>3, MovesOnRows DEF ProbeEnd, MovesOn, Exists, Status
  <2> QED BY <1>9, <2>1, <2>2 DEF ProbeEnd
<1>10. ASSUME NEW t \in Tasks, NEW n \in Nodes, DockerEvent(t, n) PROVE RowsMove
  <2>1. Head(events[t][n]) \in {"running", "paused", "exited"}
        BY <1>10 DEF DockerEvent, ContainersOK
  <2>2. cst' \in [Tasks -> [Nodes -> ContainerState]]
    <3> DEFINE now == [cst[t] EXCEPT ![n] = Head(events[t][n])]
    <3>1. cst' = cst \/ cst' = [cst EXCEPT ![t] = now]
          BY <1>10 DEF DockerEvent
    <3>2. now \in [Nodes -> ContainerState]
          BY <2>1 DEF ContainerState
    <3> HIDE DEF now
    <3> QED BY <3>1, <3>2
  <2>3. \/ status' = status
        \/ status[t] = "running" /\ status' = [status EXCEPT ![t] = "stopped"]
        BY <1>10 DEF DockerEvent
  <2> QED BY <1>10, <2>2, <2>3, MovesOnRows DEF DockerEvent, MovesOn, Exists, Status
<1>11. ASSUME NEW t \in Tasks, HealthCheck(t) PROVE RowsMove
       BY <1>11, MovesOnRows DEF HealthCheck, MovesOn, Exists, Status, Active
<1>12. ASSUME NEW t \in Tasks, BenchStore(t) PROVE RowsMove
       BY <1>12, MovesOnRows DEF BenchStore, MovesOn
<1>13. CASE ~UNCHANGED <<rowVars, results>>
  <2>1. ASSUME NEW p \in Publishers, PublishStep(p) PROVE RowsMove
        BY <1>13, <2>1, <1>2, <1>3, <1>4, <1>5
           DEF PublishStep, PublishRefused, PublishUp, PublishUndo
  <2>2. ASSUME NEW t \in Tasks, ActStep(t) PROVE RowsMove
        BY <1>13, <2>2, <1>7, <1>8 DEF ActStep, ActCall, ActCallFails, ActRestarted
  <2>3. CASE MonitorStep
        BY <1>13, <2>3, <1>9 DEF MonitorStep, ProbeStart, ProbeNode
  <2>4. CASE Environment
        BY <1>13, <2>4, <1>6
           DEF Environment, Publish, ActStart, ContainerExits, BenchStart, Crash
  <2> QED BY <1>10, <1>11, <1>12, <1>13, <2>1, <2>2, <2>3, <2>4 DEF vars, Next, System
<1> QED BY <1>1, <1>13

----------------------------------------------------------------------------
(* The publishing requests.                                                *)

\* A request's record that agrees with the rows.
Follows(q, nodes) ==
    /\ q \in PublishRecord
    /\ q.pc = "prepare" => q.head \in q.nodes
    /\ q.pc \in {"up", "undo", "ps", "rollback"} =>
         q.task \in Tasks /\ q.todo \subseteq nodes[q.task]
    /\ q.pc \in {"up", "undo", "ps"} => q.at \in nodes[q.task]

\* What a step does to the requests, given that it leaves nodesOf alone or gives
\* their nodes to tasks that had no rows.
PubsMove ==
    /\ PublishersOK'
    /\ \A p \in Publishers, t \in Tasks : pub'[p].task = t => status'[t] # "unused"

LEMMA RequestMoves ==
    ASSUME TypeInv, NEW p \in Publishers, NEW q, Follows(q, nodesOf'),
           pub' = [pub EXCEPT ![p] = q],
           \A t \in Tasks : status[t] # "unused" => nodesOf'[t] = nodesOf[t] /\ status'[t] # "unused",
           q.task \in Tasks => status'[q.task] # "unused"
    PROVE  PubsMove
<1>1. pub' \in [Publishers -> PublishRecord]
      BY DEF TypeInv, TypeOK, PublishersOK, Follows
<1>2. ASSUME NEW r \in Publishers PROVE Follows(pub'[r], nodesOf')
  <2>1. CASE r = p BY <2>1 DEF TypeInv, TypeOK, PublishersOK
  <2>2. CASE r # p
    <3>1. pub'[r] = pub[r]
          BY <2>2 DEF TypeInv, TypeOK, PublishersOK
    <3>2. pub[r].task \in Tasks => nodesOf'[pub[r].task] = nodesOf[pub[r].task]
          BY DEF TypeInv, Fresh
    <3> QED BY <3>1, <3>2 DEF TypeInv, TypeOK, PublishersOK, Follows
  <2> QED BY <2>1, <2>2
<1>3. PublishersOK'
      BY <1>1, <1>2 DEF PublishersOK, Follows
<1>4. \A r \in Publishers, t \in Tasks : pub'[r].task = t => status'[t] # "unused"
      BY DEF TypeInv, TypeOK, PublishersOK, Fresh
<1> QED BY <1>3, <1>4 DEF PubsMove

LEMMA NoPublishFollows == \A nodes : Follows(NoPublish, nodes) /\ NoPublish.task \notin Tasks
BY ConstantsAssumption DEF Follows, NoPublish, PublishRecord

\* A turn of the deployment loop.
LEMMA AdvanceFollows ==
    ASSUME NEW p, NEW w \in PublishRecord, NEW now, NEW h, NEW nodes,
           w.task \in Tasks, w.todo \subseteq nodes[w.task], Advance(p, w, now, h)
    PROVE  \E q : /\ pub' = [pub EXCEPT ![p] = q] /\ Follows(q, nodes)
                  /\ q.task \in {w.task, NoTask}
<1>1. CASE w.todo # {} /\ now = "published"
  <2>1. PICK n \in w.todo : pub' = [pub EXCEPT ![p] = [w EXCEPT !.pc = "up", !.at = n, !.todo = @ \ {n}]]
        BY <1>1 DEF Advance, Starters
  <2> DEFINE q == [w EXCEPT !.pc = "up", !.at = n, !.todo = @ \ {n}]
  <2>2. Follows(q, nodes) /\ q.task = w.task
        BY <2>1 DEF Follows, PublishRecord
  <2>3. pub' = [pub EXCEPT ![p] = q]
        BY <2>1
  <2> HIDE DEF q
  <2> QED BY <2>2, <2>3
<1>2. CASE ~(w.todo # {} /\ now = "published") /\ w.todo = {} /\ w.failed /\ w.started # {}
  <2> DEFINE q == [w EXCEPT !.pc = "rollback", !.at = NoNode]
  <2>1. pub' = [pub EXCEPT ![p] = q]
        BY <1>2 DEF Advance
  <2>2. Follows(q, nodes) /\ q.task = w.task
        BY DEF Follows, PublishRecord
  <2> HIDE DEF q
  <2> QED BY <2>1, <2>2
<1>3. CASE ~(w.todo # {} /\ now = "published") /\ ~(w.todo = {} /\ w.failed /\ w.started # {})
  <2>1. pub' = [pub EXCEPT ![p] = NoPublish]
        BY <1>3 DEF Advance
  <2>2. NoPublish.task = NoTask
        BY DEF NoPublish
  <2> QED BY <2>1, <2>2, NoPublishFollows
<1> QED BY <1>1, <1>2, <1>3

LEMMA PublishersStay ==
    ASSUME TypeInv, [Next]_vars
    PROVE  PubsMove
<1>1. RowsMove
      BY RowsStay
<1>2. CASE UNCHANGED <<pub, nodesOf>>
      BY <1>1, <1>2 DEF TypeInv, TypeOK, Fresh, PublishersOK, RowsMove, PubsMove
<1>3. ASSUME UNCHANGED nodesOf, NEW p \in Publishers, NEW q, Follows(q, nodesOf),
             pub' = [pub EXCEPT ![p] = q], q.task \in Tasks => q.task = pub[p].task
      PROVE  PubsMove
  <2>1. \A t \in Tasks : status[t] # "unused" => nodesOf'[t] = nodesOf[t] /\ status'[t] # "unused"
        BY <1>1, <1>3 DEF RowsMove
  <2>2. q.task \in Tasks => status'[q.task] # "unused"
        BY <1>1, <1>3 DEF TypeInv, Fresh, RowsMove
  <2> QED BY <1>3, <2>1, <2>2, RequestMoves
<1>4. ASSUME NEW p \in Publishers, UNCHANGED nodesOf, pub' = [pub EXCEPT ![p] = NoPublish]
      PROVE  PubsMove
      BY <1>3, <1>4, NoPublishFollows
<1>5. ASSUME NEW p \in Publishers, NEW w \in PublishRecord, NEW now, NEW h, UNCHANGED nodesOf,
             w.task = pub[p].task, w.task \in Tasks, w.todo \subseteq nodesOf[w.task],
             Advance(p, w, now, h)
      PROVE  PubsMove
  <2>1. PICK q : /\ pub' = [pub EXCEPT ![p] = q] /\ Follows(q, nodesOf)
                 /\ q.task \in {w.task, NoTask}
        BY <1>5, AdvanceFollows
  <2> QED BY <1>3, <1>5, <2>1, ConstantsAssumption
<1>6. ASSUME NEW p \in Publishers, NEW N \in SUBSET Nodes, NEW h \in Nodes, Publish(p, N, h)
      PROVE  PubsMove
  <2> DEFINE q == [NoPublish EXCEPT !.pc = "prepare", !.nodes = N, !.head = h]
  <2>1. Follows(q, nodesOf) /\ q.task = NoTask
        BY <1>6 DEF Publish, Follows, PublishRecord, NoPublish
  <2>2. pub' = [pub EXCEPT ![p] = q] /\ UNCHANGED nodesOf
        BY <1>6 DEF Publish
  <2> HIDE DEF q
  <2> QED BY <1>3, <2>1, <2>2, ConstantsAssumption
<1>7. ASSUME NEW p \in Publishers, PublishRefused(p) \/ PublishUndo(p) PROVE PubsMove
      BY <1>4, <1>7 DEF PublishRefused, PublishUndo
<1>8. ASSUME NEW p \in Publishers, PublishReserve(p) PROVE PubsMove
  <2>1. PICK t \in Tasks :
          /\ status[t] = "unused"
          /\ status' = [status EXCEPT ![t] = "published"]
          /\ nodesOf' = [nodesOf EXCEPT ![t] = pub[p].nodes]
          /\ Advance(p, [NoPublish EXCEPT !.task = t, !.todo = pub[p].nodes], "published",
                     pub[p].head)
        BY <1>8 DEF PublishReserve, Insert
  <2> DEFINE w == [NoPublish EXCEPT !.task = t, !.todo = pub[p].nodes]
  <2>2. pub[p].nodes \in SUBSET Nodes
        BY DEF TypeInv, TypeOK, PublishersOK, PublishRecord
  <2>3. w \in PublishRecord /\ w.task = t /\ w.todo = pub[p].nodes
        BY <2>2 DEF PublishRecord, NoPublish
  <2>4. nodesOf'[t] = pub[p].nodes /\ status'[t] = "published"
        BY <2>1 DEF TypeInv, TypeOK, RowsOK
  <2>5. Advance(p, w, "published", pub[p].head)
        BY <2>1
  <2> HIDE DEF w
  <2>6. PICK q : /\ pub' = [pub EXCEPT ![p] = q] /\ Follows(q, nodesOf')
                 /\ q.task \in {t, NoTask}
        BY <2>3, <2>4, <2>5, AdvanceFollows
  <2>7. \A u \in Tasks : status[u] # "unused" => nodesOf'[u] = nodesOf[u] /\ status'[u] # "unused"
        BY <2>1 DEF TypeInv, TypeOK, RowsOK
  <2> QED BY <2>4, <2>6, <2>7, RequestMoves, ConstantsAssumption
<1>9. ASSUME NEW p \in Publishers, PublishUp(p) PROVE PubsMove
  <2> DEFINE n == pub[p].at
             pc == IF status[pub[p].task] = "published" THEN "ps" ELSE "undo"
             q == [pub[p] EXCEPT !.pc = pc, !.started = @ \cup {n}]
  <2>1. /\ UNCHANGED nodesOf
        /\ \/ pub' = [pub EXCEPT ![p] = NoPublish]
           \/ pub' = [pub EXCEPT ![p] = q]
    <3>1. CASE status[pub[p].task] = "deleted" BY <1>9, <3>1 DEF PublishUp
    <3>2. CASE status[pub[p].task] # "deleted" BY <1>9, <3>2 DEF PublishUp
    <3> QED BY <3>1, <3>2
  <2>2. pub[p].task \in Tasks /\ n \in nodesOf[pub[p].task] /\ n \in Nodes
        BY <1>9 DEF PublishUp, TypeInv, TypeOK, PublishersOK, RowsOK
  <2>3. pub[p] \in PublishRecord /\ pub[p].todo \subseteq nodesOf[pub[p].task]
        BY <1>9 DEF PublishUp, TypeInv, TypeOK, PublishersOK
  <2>4. Follows(q, nodesOf) /\ q.task = pub[p].task
        BY <2>2, <2>3 DEF Follows, PublishRecord
  <2> HIDE DEF q, pc
  <2> QED BY <1>3, <1>4, <2>1, <2>4
<1>10. ASSUME NEW p \in Publishers, NEW failed \in BOOLEAN, UNCHANGED nodesOf,
              pub[p].pc \in {"up", "ps"}, Turned(p, failed)
       PROVE  PubsMove
  <2> DEFINE w == [pub[p] EXCEPT !.failed = @ \/ failed]
  <2>1. pub[p] \in PublishRecord /\ pub[p].task \in Tasks
          /\ pub[p].todo \subseteq nodesOf[pub[p].task]
        BY <1>10 DEF TypeInv, TypeOK, PublishersOK
  <2>2. (pub[p].failed \/ failed) \in BOOLEAN
        OBVIOUS
  <2>3. w \in PublishRecord /\ w.task = pub[p].task /\ w.todo = pub[p].todo
        BY <2>1, <2>2 DEF PublishRecord
  <2>4. pub' = [pub EXCEPT ![p] = NoPublish]
          \/ Advance(p, w, status[pub[p].task], head[pub[p].task])
        BY <1>10 DEF Turned
  <2> HIDE DEF w
  <2> QED BY <1>4, <1>5, <1>10, <2>1, <2>3, <2>4
<1>11. ASSUME NEW p \in Publishers, PublishFails(p) \/ PublishPs(p) PROVE PubsMove
       BY <1>10, <1>11 DEF PublishFails, PublishPs
<1>12. ASSUME NEW p \in Publishers, PublishRollback(p) PROVE PubsMove
  <2> DEFINE w(n) == [pub[p] EXCEPT !.started = @ \ {n}]
  <2>1. PICK n \in pub[p].started :
          Advance(p, w(n), status[pub[p].task], head[pub[p].task])
        BY <1>12 DEF PublishRollback
  <2>2. pub[p] \in PublishRecord /\ pub[p].task \in Tasks
          /\ pub[p].todo \subseteq nodesOf[pub[p].task]
        BY <1>12 DEF PublishRollback, TypeInv, TypeOK, PublishersOK
  <2>3. w(n) \in PublishRecord /\ w(n).task = pub[p].task /\ w(n).todo = pub[p].todo
        BY <2>2 DEF PublishRecord
  <2>4. UNCHANGED nodesOf
        BY <1>12 DEF PublishRollback
  <2> HIDE DEF w
  <2> QED BY <1>5, <2>1, <2>2, <2>3, <2>4
<1>13. CASE Crash
  <2>1. pub' = [p \in Publishers |-> NoPublish]
        BY <1>13 DEF Crash
  <2>2. \A p \in Publishers : Follows(pub'[p], nodesOf') /\ pub'[p].task \notin Tasks
        BY <2>1, NoPublishFollows
  <2>3. pub' \in [Publishers -> PublishRecord]
        BY <2>1, NoPublishFollows DEF Follows
  <2> QED BY <2>2, <2>3 DEF PubsMove, PublishersOK, Follows
<1>14. CASE ~UNCHANGED <<pub, nodesOf>>
  <2>1. ASSUME NEW p \in Publishers, PublishStep(p) PROVE PubsMove
        BY <2>1, <1>7, <1>8, <1>9, <1>11, <1>12 DEF PublishStep
  <2>2. ASSUME NEW t \in Tasks, ActStep(t) PROVE FALSE
        BY <1>14, <2>2 DEF ActStep, ActCall, ActCallFails, ActRestarted, ActEnd, ActDeleted
  <2>3. ~MonitorStep
        BY <1>14 DEF MonitorStep, ProbeStart, ProbeNode, ProbeEnd
  <2>4. CASE Environment
        BY <1>14, <2>4, <1>6, <1>13
           DEF Environment, ActStart, ActAtOnce, ContainerExits, BenchStart
  <2>5. ASSUME NEW t \in Tasks,
               HealthCheck(t) \/ BenchStore(t) \/ \E n \in Nodes : DockerEvent(t, n)
        PROVE  FALSE
        BY <1>14, <2>5 DEF HealthCheck, BenchStore, DockerEvent
  <2> QED BY <1>14, <2>1, <2>2, <2>3, <2>4, <2>5 DEF vars, Next, System
<1> QED BY <1>2, <1>14

----------------------------------------------------------------------------
(* The actions, the monitor's round and the sets of tasks.                 *)

\* What a step does to the actions' records.
ActsMove ==
    /\ act' \in [Tasks -> ActionRecord]
    /\ \A t \in Tasks : act'[t].op = "none" => act'[t].todo = {}
    /\ \A t \in Tasks : act'[t].op # "none" => Exists(t)

LEMMA ActMoves ==
    ASSUME TypeInv, NEW t \in Tasks, NEW a \in ActionRecord, act' = [act EXCEPT ![t] = a],
           a.op = "none" => a.todo = {}, a.op # "none" => Exists(t)
    PROVE  ActsMove
BY DEF TypeInv, TypeOK, Fresh, Idle, ActsMove

\* A call to a node has been made.
LEMMA CallMoves ==
    ASSUME TypeInv, NEW t \in Tasks, NEW a \in ActionRecord, act' = [act EXCEPT ![t] = a],
           a.op = act[t].op, a.todo \subseteq act[t].todo
    PROVE  ActsMove
BY ActMoves DEF TypeInv, TypeOK, Fresh, Idle

LEMMA ActionsStay ==
    ASSUME TypeInv, [Next]_vars
    PROVE  ActsMove
<1>1. CASE UNCHANGED act
      BY <1>1 DEF TypeInv, TypeOK, Fresh, Idle, ActsMove
<1>2. ASSUME NEW t \in Tasks, NEW op \in Actions, ActStart(t, op) PROVE ActsMove
  <2> DEFINE todo == IF op \in {"pause", "resume"} THEN recorded[t] ELSE nodesOf[t]
             a == [NoAction EXCEPT !.op = op, !.was = status[t], !.cst = cst[t], !.todo = todo]
  <2>1. act' = [act EXCEPT ![t] = a]
        BY <1>2 DEF ActStart
  <2>2. status[t] \in Status /\ cst[t] \in [Nodes -> ContainerState] /\ todo \in SUBSET Nodes
        BY DEF TypeInv, TypeOK, RowsOK
  <2>3. Exists(t)
    <3>1. status[t] \in Allowed(op)
          BY <1>2 DEF ActStart
    <3>2. Allowed(op) \subseteq Active \cup {"stopped", "error"}
          BY DEF Allowed, Actions, Active
    <3> QED BY <3>1, <3>2 DEF Exists, Active
  <2> HIDE DEF todo
  <2>4. a \in ActionRecord /\ a.op # "none"
        BY <2>2, NoActionTyped DEF ActionRecord, NoAction, Actions
  <2> HIDE DEF a
  <2> QED BY <2>1, <2>3, <2>4, ActMoves
<1>3. ASSUME NEW t \in Tasks, NEW n \in Nodes, ActCall(t, n) PROVE ActsMove
  <2> DEFINE a == [act[t] EXCEPT !.todo = @ \ {n}, !.mid = n]
             b == [act[t] EXCEPT !.todo = @ \ {n}, !.done = @ \cup {n}]
  <2>1. act' = [act EXCEPT ![t] = a] \/ act' = [act EXCEPT ![t] = b]
        BY <1>3 DEF ActCall
  <2>2. /\ a \in ActionRecord /\ a.op = act[t].op /\ a.todo \subseteq act[t].todo
        /\ b \in ActionRecord /\ b.op = act[t].op /\ b.todo \subseteq act[t].todo
        BY DEF TypeInv, TypeOK, ActionRecord
  <2> HIDE DEF a, b
  <2> QED BY <2>1, <2>2, CallMoves
<1>4. ASSUME NEW t \in Tasks, NEW n \in Nodes, ActCallFails(t, n) PROVE ActsMove
  <2> DEFINE a == [act[t] EXCEPT !.todo = @ \ {n}, !.errors = @ \cup {n}]
  <2>1. act' = [act EXCEPT ![t] = a]
        BY <1>4 DEF ActCallFails
  <2>2. a \in ActionRecord /\ a.op = act[t].op /\ a.todo \subseteq act[t].todo
        BY DEF TypeInv, TypeOK, ActionRecord
  <2> HIDE DEF a
  <2> QED BY <2>1, <2>2, CallMoves
<1>5. ASSUME NEW t \in Tasks, ActRestarted(t) PROVE ActsMove
  <2> DEFINE a == [act[t] EXCEPT !.mid = NoNode, !.done = @ \cup {act[t].mid}]
  <2>1. act' = [act EXCEPT ![t] = a] /\ act[t].mid # NoNode
        BY <1>5 DEF ActRestarted
  <2>2. a \in ActionRecord /\ a.op = act[t].op /\ a.todo \subseteq act[t].todo
        BY <2>1 DEF TypeInv, TypeOK, ActionRecord
  <2> HIDE DEF a
  <2> QED BY <2>1, <2>2, CallMoves
<1>6. ASSUME NEW t \in Tasks, ActEnd(t) \/ ActDeleted(t) PROVE ActsMove
  <2>1. act' = [act EXCEPT ![t] = NoAction]
        BY <1>6 DEF ActEnd, ActDeleted
  <2>2. NoAction.op = "none" /\ NoAction.todo = {}
        BY DEF NoAction
  <2> QED BY <2>1, <2>2, NoActionTyped, ActMoves
<1>7. CASE Crash
  <2>1. act' = [t \in Tasks |-> NoAction]
        BY <1>7 DEF Crash
  <2>2. NoAction.op = "none" /\ NoAction.todo = {}
        BY DEF NoAction
  <2> QED BY <2>1, <2>2, NoActionTyped DEF ActsMove
<1>8. CASE ~UNCHANGED act
  <2>1. ASSUME NEW p \in Publishers, PublishStep(p) PROVE FALSE
        BY <1>8, <2>1
           DEF PublishStep, PublishRefused, PublishReserve, PublishUp, PublishFails,
               PublishUndo, PublishPs, PublishRollback
  <2>2. ASSUME NEW t \in Tasks, ActStep(t) PROVE ActsMove
        BY <2>2, <1>3, <1>4, <1>5, <1>6 DEF ActStep
  <2>3. ~MonitorStep
        BY <1>8 DEF MonitorStep, ProbeStart, ProbeNode, ProbeEnd
  <2>4. CASE Environment
        BY <1>8, <2>4, <1>2, <1>7
           DEF Environment, Publish, ActAtOnce, ContainerExits, BenchStart
  <2>5. ASSUME NEW t \in Tasks,
               HealthCheck(t) \/ BenchStore(t) \/ \E n \in Nodes : DockerEvent(t, n)
        PROVE  FALSE
        BY <1>8, <2>5 DEF HealthCheck, BenchStore, DockerEvent
  <2> QED BY <1>8, <2>1, <2>2, <2>3, <2>4, <2>5 DEF vars, Next, System
<1> QED BY <1>1, <1>8

\* What a step does to the monitor's round and to the sets of tasks.
RoundMove ==
    /\ mon' \in RoundRecord /\ (mon'.task = NoTask => mon'.todo = {})
    /\ hc' \subseteq Tasks /\ bench' \subseteq Tasks

LEMMA RoundStays ==
    ASSUME TypeInv, [Next]_vars
    PROVE  RoundMove
<1> USE DEF TypeInv, TypeOK
<1>1. CASE UNCHANGED <<mon, hc, bench>>
      BY <1>1 DEF Idle, RoundMove
<1>2. NoRound \in RoundRecord /\ NoRound.todo = {}
      BY DEF NoRound, RoundRecord, ContainerState
<1>3. ASSUME NEW t \in Tasks, ProbeStart(t) PROVE RoundMove
  <2> DEFINE was == status[t] = "running"
             m == [NoRound EXCEPT !.task = t, !.was = was, !.todo = recorded[t]]
  <2>1. mon' = m /\ UNCHANGED <<hc, bench>>
        BY <1>3 DEF ProbeStart
  <2>2. recorded[t] \in SUBSET Nodes /\ was \in BOOLEAN
        BY DEF RowsOK
  <2> HIDE DEF was
  <2>3. m \in RoundRecord /\ m.task = t
        BY <1>2, <2>2 DEF RoundRecord, NoRound
  <2> HIDE DEF m
  <2> QED BY <2>1, <2>3, ConstantsAssumption DEF RoundMove
<1>4. ASSUME NEW n \in Nodes, ProbeNode(n) PROVE RoundMove
  <2>1. PICK s \in {ctr[mon.task][n]} \cup {"none"} :
          mon' = [mon EXCEPT !.todo = @ \ {n}, !.seen[n] = s]
        BY <1>4 DEF ProbeNode
  <2>2. mon.task \in Tasks
        BY <1>4 DEF ProbeNode, Idle, RoundRecord
  <2>3. s \in ContainerState
        BY <2>1, <2>2 DEF ContainersOK, ContainerState
  <2>4. mon' \in RoundRecord /\ mon'.task = mon.task
        BY <2>1, <2>3 DEF RoundRecord
  <2>5. UNCHANGED <<hc, bench>>
        BY <1>4 DEF ProbeNode
  <2> QED BY <2>2, <2>4, <2>5, ConstantsAssumption DEF RoundMove
<1>5. CASE ProbeEnd
      BY <1>2, <1>5 DEF ProbeEnd, RoundMove
<1>6. CASE Crash
      BY <1>2, <1>6 DEF Crash, RoundMove
<1>7. ASSUME NEW t \in Tasks, HealthCheck(t) \/ BenchStart(t) \/ BenchStore(t) PROVE RoundMove
      BY <1>7 DEF HealthCheck, BenchStart, BenchStore, Idle, RoundMove
<1>8. CASE ~UNCHANGED <<mon, hc, bench>>
  <2>1. ASSUME NEW p \in Publishers, PublishStep(p) PROVE FALSE
        BY <1>8, <2>1
           DEF PublishStep, PublishRefused, PublishReserve, PublishUp, PublishFails,
               PublishUndo, PublishPs, PublishRollback
  <2>2. ASSUME NEW t \in Tasks, ActStep(t) PROVE FALSE
        BY <1>8, <2>2 DEF ActStep, ActCall, ActCallFails, ActRestarted, ActEnd, ActDeleted
  <2>3. CASE MonitorStep
        BY <2>3, <1>3, <1>4, <1>5 DEF MonitorStep
  <2>4. CASE Environment
        BY <1>8, <2>4, <1>6, <1>7 DEF Environment, Publish, ActStart, ActAtOnce, ContainerExits
  <2>5. ASSUME NEW t \in Tasks, NEW n \in Nodes, DockerEvent(t, n) PROVE FALSE
        BY <1>8, <2>5 DEF DockerEvent
  <2> QED BY <1>7, <1>8, <2>1, <2>2, <2>3, <2>4, <2>5 DEF vars, Next, System
<1> QED BY <1>1, <1>8

----------------------------------------------------------------------------
LEMMA TypeStep == TypeInv /\ [Next]_vars => TypeInv'
<1> SUFFICES ASSUME TypeInv, [Next]_vars PROVE TypeInv'
    OBVIOUS
<1>1. RowsMove BY RowsStay
<1>2. ContainersOK' BY ContainersStay
<1>3. PubsMove BY PublishersStay
<1>4. ActsMove BY ActionsStay
<1>5. RoundMove BY RoundStays
<1>6. TypeOK'
      BY <1>1, <1>2, <1>3, <1>4, <1>5 DEF TypeOK, RowsMove, PubsMove, ActsMove, RoundMove
<1>7. Fresh'
      BY <1>1, <1>3, <1>4 DEF Fresh, Exists, RowsMove, PubsMove, ActsMove
<1>8. Idle'
      BY <1>4, <1>5 DEF Idle, ActsMove, RoundMove
<1> QED BY <1>6, <1>7, <1>8 DEF TypeInv

\* Whatever users, agents, the monitor and crashes do, a task in use has its head among
\* its nodes, its recorded containers belong to its nodes, and a request deploys only
\* to nodes of the task it published.
THEOREM TypeCorrect == Spec => []TypeOK
<1>1. TypeInv => TypeOK
      BY DEF TypeInv
<1> QED BY <1>1, TypeInit, TypeStep, PTL DEF Spec

----------------------------------------------------------------------------
(* Node exclusion.                                                         *)

\* Without start, pause and resume the only action that ends in an active status is a
\* restart, of a task that was running when it began.
OnlyRestartsRevive ==
    \A t \in Tasks : /\ act[t].op \notin {"start", "pause", "resume"}
                     /\ act[t].op = "restart" => act[t].was = "running"

ExclusiveInv == TypeInv /\ OnlyRestartsRevive /\ NodeExclusive

\* What every step but an insertion does to the rows.
NoneRevived ==
    UNCHANGED nodesOf /\ \A t \in Tasks : status'[t] \in Active => status[t] \in Active

\* A status written for one task, active only if the task was.
LEMMA OneWrite ==
    ASSUME TypeInv, NEW t, NEW s, s \in Active => status[t] \in Active,
           UNCHANGED nodesOf, status' = [status EXCEPT ![t] = s]
    PROVE  NoneRevived
BY DEF TypeInv, TypeOK, RowsOK, NoneRevived

LEMMA RevivesNone ==
    ASSUME ExclusiveInv, Ops \cap {"start", "pause", "resume"} = {}, [Next]_vars,
           ~(\E p \in Publishers : PublishReserve(p))
    PROVE  NoneRevived
<1>0. TypeInv BY DEF ExclusiveInv
<1>1. CASE UNCHANGED <<status, nodesOf>> BY <1>1 DEF NoneRevived
<1>2. ASSUME NEW p \in Publishers, NEW failed, UNCHANGED nodesOf, Turned(p, failed)
      PROVE  NoneRevived
  <2> DEFINE t == pub[p].task
             w == [pub[p] EXCEPT !.failed = @ \/ failed]
  <2>1. UNCHANGED status \/ status' = [status EXCEPT ![t] = AfterTurn(w, status[t])]
        BY <1>2 DEF Turned
  <2>2. AfterTurn(w, status[t]) \in Active => status[t] \in Active
        BY AfterTurnTyped DEF Active
  <2> HIDE DEF t, w
  <2> QED BY <1>0, <1>1, <1>2, <2>1, <2>2, OneWrite
<1>3. ASSUME NEW p \in Publishers, PublishFails(p) \/ PublishPs(p) PROVE NoneRevived
      BY <1>2, <1>3 DEF PublishFails, PublishPs
<1>4. ASSUME NEW p \in Publishers, PublishRollback(p) PROVE NoneRevived
  <2> DEFINE t == pub[p].task
  <2>1. PICK w : status' = IF Exists(t) THEN [status EXCEPT ![t] = AfterTurn(w, @)] ELSE status
        BY <1>4 DEF PublishRollback
  <2>2. AfterTurn(w, status[t]) \in Active => status[t] \in Active
        BY AfterTurnTyped DEF Active
  <2>3. UNCHANGED nodesOf
        BY <1>4 DEF PublishRollback
  <2> HIDE DEF t
  <2> QED BY <1>0, <1>1, <2>1, <2>2, <2>3, OneWrite
<1>5. ASSUME NEW t \in Tasks, ActEnd(t) PROVE NoneRevived
  <2>1. act[t].op \in {"stop", "restart"} /\ (act[t].op = "restart" => act[t].was = "running")
        BY <1>5 DEF ExclusiveInv, TypeInv, TypeOK, OnlyRestartsRevive, ActionRecord, Actions,
                    ActEnd, Called
  <2>2. Outcome(t) \in Active => Outcome(t) = act[t].was
        BY <2>1 DEF Outcome, Goal, Active
  <2>3. UNCHANGED nodesOf /\ (UNCHANGED status
          \/ (Outcome(t) # act[t].was /\ status' = [status EXCEPT ![t] = Outcome(t)]))
        BY <1>5 DEF ActEnd
  <2> QED BY <1>0, <1>1, <2>2, <2>3, OneWrite
<1>6. ASSUME NEW t \in Tasks, ActDeleted(t) PROVE NoneRevived
      BY <1>0, <1>6, OneWrite DEF ActDeleted, Active
<1>7. CASE ProbeEnd
  <2>1. UNCHANGED nodesOf /\ (UNCHANGED status
          \/ status' = [status EXCEPT ![mon.task] = "stopped"])
        BY <1>7 DEF ProbeEnd
  <2> QED BY <1>0, <1>1, <2>1, OneWrite DEF Active
<1>8. ASSUME NEW t \in Tasks, NEW n \in Nodes, DockerEvent(t, n) PROVE NoneRevived
  <2>1. UNCHANGED nodesOf /\ (UNCHANGED status \/ status' = [status EXCEPT ![t] = "stopped"])
        BY <1>8 DEF DockerEvent
  <2> QED BY <1>0, <1>1, <2>1, OneWrite DEF Active
<1>9. ASSUME NEW t \in Tasks, HealthCheck(t) PROVE NoneRevived
      BY <1>0, <1>1, <1>9, OneWrite DEF HealthCheck, Active
<1>10. CASE ~UNCHANGED <<status, nodesOf>>
  <2>1. ASSUME NEW p \in Publishers, PublishStep(p) PROVE NoneRevived
        BY <1>10, <2>1, <1>3, <1>4 DEF PublishStep, PublishRefused, PublishUp, PublishUndo
  <2>2. ASSUME NEW t \in Tasks, ActStep(t) PROVE NoneRevived
        BY <1>10, <2>2, <1>5, <1>6 DEF ActStep, ActCall, ActCallFails, ActRestarted
  <2>3. CASE MonitorStep
        BY <1>10, <2>3, <1>7 DEF MonitorStep, ProbeStart, ProbeNode
  <2>4. ~Environment
        BY <1>10 DEF Environment, Publish, ActStart, ActAtOnce, ContainerExits, BenchStart, Crash
  <2>5. ASSUME NEW t \in Tasks, BenchStore(t) PROVE FALSE
        BY <1>10, <2>5 DEF BenchStore
  <2>6. ~UNCHANGED vars
        BY <1>10 DEF vars
  <2>7. System
        BY <2>4, <2>6 DEF Next
  <2> QED BY <1>8, <1>9, <2>1, <2>2, <2>3, <2>5, <2>7 DEF System
<1> QED BY <1>1, <1>10

LEMMA ReviversStayKnown ==
    ASSUME ExclusiveInv, Ops \cap {"start", "pause", "resume"} = {}, [Next]_vars
    PROVE  OnlyRestartsRevive'
<1> USE DEF ExclusiveInv, TypeInv, TypeOK
<1>1. CASE UNCHANGED act BY <1>1 DEF OnlyRestartsRevive
<1>2. ASSUME NEW t \in Tasks, NEW a, act' = [act EXCEPT ![t] = a],
             (a.op = act[t].op /\ a.was = act[t].was) \/ a = NoAction
      PROVE  OnlyRestartsRevive'
  <2>1. NoAction.op = "none"
        BY DEF NoAction
  <2> QED BY <1>2, <2>1 DEF OnlyRestartsRevive
<1>3. ASSUME NEW t \in Tasks, NEW op \in Actions, ActStart(t, op) PROVE OnlyRestartsRevive'
  <2> DEFINE todo == IF op \in {"pause", "resume"} THEN recorded[t] ELSE nodesOf[t]
             a == [NoAction EXCEPT !.op = op, !.was = status[t], !.cst = cst[t], !.todo = todo]
  <2>1. act' = [act EXCEPT ![t] = a]
        BY <1>3 DEF ActStart
  <2>2. op \notin {"start", "pause", "resume"} /\ (op = "restart" => status[t] = "running")
        BY <1>3 DEF ActStart, Allowed
  <2>3. a.op = op /\ a.was = status[t]
        BY DEF NoAction
  <2> HIDE DEF a, todo
  <2> QED BY <2>1, <2>2, <2>3 DEF OnlyRestartsRevive
<1>4. ASSUME NEW t \in Tasks, NEW n \in Nodes, ActCall(t, n) PROVE OnlyRestartsRevive'
  <2> DEFINE a == [act[t] EXCEPT !.todo = @ \ {n}, !.mid = n]
             b == [act[t] EXCEPT !.todo = @ \ {n}, !.done = @ \cup {n}]
  <2>1. act' = [act EXCEPT ![t] = a] \/ act' = [act EXCEPT ![t] = b]
        BY <1>4 DEF ActCall
  <2>2. /\ a.op = act[t].op /\ a.was = act[t].was
        /\ b.op = act[t].op /\ b.was = act[t].was
        BY DEF ActionRecord
  <2> HIDE DEF a, b
  <2> QED BY <1>2, <2>1, <2>2
<1>5. ASSUME NEW t \in Tasks, NEW n \in Nodes, ActCallFails(t, n) PROVE OnlyRestartsRevive'
  <2> DEFINE a == [act[t] EXCEPT !.todo = @ \ {n}, !.errors = @ \cup {n}]
  <2>1. act' = [act EXCEPT ![t] = a]
        BY <1>5 DEF ActCallFails
  <2>2. a.op = act[t].op /\ a.was = act[t].was
        BY DEF ActionRecord
  <2> HIDE DEF a
  <2> QED BY <1>2, <2>1, <2>2
<1>6. ASSUME NEW t \in Tasks, ActRestarted(t) PROVE OnlyRestartsRevive'
  <2> DEFINE a == [act[t] EXCEPT !.mid = NoNode, !.done = @ \cup {act[t].mid}]
  <2>1. act' = [act EXCEPT ![t] = a]
        BY <1>6 DEF ActRestarted
  <2>2. a.op = act[t].op /\ a.was = act[t].was
        BY DEF ActionRecord
  <2> HIDE DEF a
  <2> QED BY <1>2, <2>1, <2>2
<1>7. ASSUME NEW t \in Tasks, ActEnd(t) \/ ActDeleted(t) PROVE OnlyRestartsRevive'
      BY <1>2, <1>7 DEF ActEnd, ActDeleted
<1>8. CASE Crash
      BY <1>8 DEF Crash, OnlyRestartsRevive, NoAction
<1>9. CASE ~UNCHANGED act
  <2>1. ASSUME NEW p \in Publishers, PublishStep(p) PROVE FALSE
        BY <1>9, <2>1
           DEF PublishStep, PublishRefused, PublishReserve, PublishUp, PublishFails,
               PublishUndo, PublishPs, PublishRollback
  <2>2. ASSUME NEW t \in Tasks, ActStep(t) PROVE OnlyRestartsRevive'
        BY <2>2, <1>4, <1>5, <1>6, <1>7 DEF ActStep
  <2>3. ~MonitorStep
        BY <1>9 DEF MonitorStep, ProbeStart, ProbeNode, ProbeEnd
  <2>4. CASE Environment
        BY <1>9, <2>4, <1>3, <1>8
           DEF Environment, Publish, ActAtOnce, ContainerExits, BenchStart
  <2>5. ASSUME NEW t \in Tasks,
               HealthCheck(t) \/ BenchStore(t) \/ \E n \in Nodes : DockerEvent(t, n)
        PROVE  FALSE
        BY <1>9, <2>5 DEF HealthCheck, BenchStore, DockerEvent
  <2> QED BY <1>9, <2>1, <2>2, <2>3, <2>4, <2>5 DEF vars, Next, System
<1> QED BY <1>1, <1>9

\* No node ever belongs to two active tasks, for any number of tasks, nodes and
\* publishing requests, with failures, crashes, the monitor and docker events, as long
\* as no task returns from stopped, error or paused: the check under BEGIN IMMEDIATE is
\* enough for publications, whatever else moves.
THEOREM NodeExclusiveCorrect ==
    ASSUME Ops \cap {"start", "pause", "resume"} = {}
    PROVE  Spec => []NodeExclusive
<1>1. Init => ExclusiveInv
      BY TypeInit DEF Init, ExclusiveInv, OnlyRestartsRevive, NodeExclusive, Active, NoAction
<1>2. ExclusiveInv /\ [Next]_vars => ExclusiveInv'
  <2> SUFFICES ASSUME ExclusiveInv, [Next]_vars PROVE ExclusiveInv'
      OBVIOUS
  <2>1. TypeInv' /\ OnlyRestartsRevive'
        BY TypeStep, ReviversStayKnown DEF ExclusiveInv
  <2>2. ASSUME NEW p \in Publishers, PublishReserve(p) PROVE NodeExclusive'
    <3>1. PICK t \in Tasks :
            /\ status[t] = "unused"
            /\ status' = [status EXCEPT ![t] = "published"]
            /\ nodesOf' = [nodesOf EXCEPT ![t] = pub[p].nodes]
          BY <2>2 DEF PublishReserve, Insert
    <3>2. pub[p].nodes \cap Occupied = {}
          BY <2>2 DEF PublishReserve
    <3>3. ASSUME NEW u \in Tasks, status[u] \in Active
          PROVE  nodesOf[u] \cap pub[p].nodes = {}
          BY <3>2, <3>3 DEF Occupied
    <3>4. \A u \in Tasks \ {t} : status'[u] = status[u] /\ nodesOf'[u] = nodesOf[u]
          BY <3>1 DEF ExclusiveInv, TypeInv, TypeOK, RowsOK
    <3>5. nodesOf'[t] = pub[p].nodes
          BY <3>1 DEF ExclusiveInv, TypeInv, TypeOK, RowsOK
    <3>6. ASSUME NEW u \in Tasks, NEW v \in Tasks, u # v,
                 status'[u] \in Active, status'[v] \in Active
          PROVE  nodesOf'[u] \cap nodesOf'[v] = {}
      <4>1. CASE u # t /\ v # t
            BY <3>4, <3>6, <4>1 DEF ExclusiveInv, NodeExclusive
      <4>2. CASE u = t \/ v = t
            BY <3>3, <3>4, <3>5, <3>6, <4>2
      <4> QED BY <4>1, <4>2
    <3> QED BY <3>6 DEF NodeExclusive
  <2>3. CASE ~(\E p \in Publishers : PublishReserve(p))
    <3>1. NoneRevived
          BY <2>3, RevivesNone
    <3>2. NodeExclusive'
          BY <3>1 DEF NoneRevived, ExclusiveInv, NodeExclusive
    <3> QED BY <2>1, <3>2 DEF ExclusiveInv
  <2> QED BY <2>1, <2>2, <2>3 DEF ExclusiveInv
<1>3. ExclusiveInv => NodeExclusive
      BY DEF ExclusiveInv
<1> QED BY <1>1, <1>2, <1>3, PTL DEF Spec

----------------------------------------------------------------------------
(* Benchmark results.                                                      *)

\* No benchmark row outlives its task, for any number of tasks and requests and under
\* every operation, failures and crashes included: a result that comes back late is
\* stored only if the task still runs, and whoever deletes the task takes the rows with
\* it (run_task_benchmark, task_action, lock_task_for_write).
THEOREM NoOrphanCorrect == Spec => []NoOrphanResults
<1>1. Init => NoOrphanResults
      BY DEF Init, NoOrphanResults
<1>2. TypeInv /\ NoOrphanResults /\ [Next]_vars => NoOrphanResults'
  <2> SUFFICES ASSUME TypeInv, NoOrphanResults, [Next]_vars PROVE NoOrphanResults'
      OBVIOUS
  <2>1. RowsMove
        BY RowsStay
  <2>2. ASSUME NEW t \in results' PROVE status'[t] \notin {"unused", "deleted"}
    <3>1. CASE status'[t] = "running"
          BY <3>1
    <3>2. CASE t \in results
      <4>1. t \in Tasks /\ status[t] \notin {"unused", "deleted"}
            BY <3>2 DEF NoOrphanResults, Exists, TypeInv, TypeOK, RowsOK
      <4> QED BY <2>1, <2>2, <4>1 DEF RowsMove
    <3> QED BY <2>1, <2>2, <3>1, <3>2 DEF RowsMove
  <2> QED BY <2>2 DEF NoOrphanResults, Exists
<1> QED BY <1>1, <1>2, TypeInit, TypeStep, PTL DEF Spec

----------------------------------------------------------------------------
(* Tasks nobody starts, pauses, resumes or deletes, and agents that answer. *)

Undisturbed == Ops \cap {"start", "pause", "resume", "delete", "fail"} = {}

\* A task is published once, runs and stops.
CalmTasks ==
    /\ \A t \in Tasks : status[t] \in {"unused", "published", "running", "stopped"}
    /\ \A t \in hc : status[t] # "unused"

\* An action stops a task, or restarts one that ran when it was read, and does not fail.
CalmActions ==
    \A t \in Tasks : /\ act[t].op \in {"none", "stop", "restart"}
                     /\ act[t].op = "restart" => act[t].was = "running"
                     /\ act[t].errors = {}

\* A request that deploys has its task for itself, and goes on while nobody stops it.
Deploying(r) == r.pc \in {"up", "ps", "undo"} /\ ~r.failed /\ r.at \notin r.todo
Waiting(r) == r.task = NoTask /\ r.pc \in {"idle", "prepare"}
CalmRequests ==
    /\ \A p \in Publishers :
          \/ Waiting(pub[p])
          \/ /\ Deploying(pub[p]) /\ pub[p].task \in Tasks \ hc
             /\ status[pub[p].task] \in {"published", "stopped"}
    /\ \A p, q \in Publishers : p # q /\ pub[p].task = pub[q].task => pub[p].task = NoTask

CalmInv == TypeInv /\ CalmTasks /\ CalmActions /\ CalmRequests

LEMMA RequestCalm ==
    ASSUME CalmInv, NEW p \in Publishers, NEW r, pub' = [pub EXCEPT ![p] = r],
           hc' = hc,
           \A t \in Tasks : status[t] \in {"published", "stopped"} /\ t # pub[p].task =>
                               status'[t] \in {"published", "stopped"},
           \/ Waiting(r)
           \/ /\ Deploying(r) /\ r.task \in Tasks \ hc
              /\ status'[r.task] \in {"published", "stopped"}
              /\ r.task = pub[p].task \/ \A q \in Publishers : pub[q].task # r.task
    PROVE  CalmRequests'
<1>1. pub'[p] = r /\ \A q \in Publishers : q # p => pub'[q] = pub[q]
      BY DEF CalmInv, TypeInv, TypeOK, PublishersOK
<1>2. NoTask \notin Tasks
      BY ConstantsAssumption
<1>3. ASSUME NEW q \in Publishers
      PROVE  \/ Waiting(pub'[q])
             \/ /\ Deploying(pub'[q]) /\ pub'[q].task \in Tasks \ hc
                /\ status'[pub'[q].task] \in {"published", "stopped"}
  <2>1. CASE q = p BY <1>1, <2>1
  <2>2. CASE q # p /\ Waiting(pub[q]) BY <1>1, <2>2
  <2>3. CASE q # p /\ ~Waiting(pub[q])
        BY <1>1, <1>2, <2>3 DEF CalmInv, CalmRequests
  <2> QED BY <2>1, <2>2, <2>3
<1>4. ASSUME NEW q \in Publishers, NEW o \in Publishers, q # o, pub'[q].task = pub'[o].task
      PROVE  pub'[q].task = NoTask
  <2>1. CASE q # p /\ o # p BY <1>1, <1>4, <2>1 DEF CalmInv, CalmRequests
  <2>2. CASE Waiting(r) BY <1>1, <1>4, <2>1, <2>2 DEF Waiting
  <2>3. CASE ~Waiting(r) /\ (q = p \/ o = p)
        BY <1>1, <1>2, <1>4, <2>3 DEF CalmInv, CalmRequests
  <2> QED BY <2>1, <2>2, <2>3
<1> QED BY <1>1, <1>3, <1>4 DEF CalmRequests, Waiting, Deploying

\* The records of the requests alone do not move.
LEMMA RequestsCalm ==
    ASSUME CalmInv, UNCHANGED pub, hc' \subseteq hc,
           \A t \in Tasks : status[t] \in {"published", "stopped"} /\ t \notin hc =>
                               status'[t] \in {"published", "stopped"}
    PROVE  CalmRequests'
BY DEF CalmInv, CalmRequests, Waiting, Deploying

\* The record q after the loop of the request w has sent compose_up to the node n.
NextUp(q, w, n) ==
    /\ q.task = w.task /\ q.failed = w.failed
    /\ q.pc = "up" /\ q.at = n /\ q.todo = w.todo \ {n}

\* The loop of a request without errors turns to the next node, or ends.
LEMMA AdvanceCalm ==
    ASSUME NEW p, NEW w \in PublishRecord, NEW now, NEW h, ~w.failed, Advance(p, w, now, h)
    PROVE  \/ pub' = [pub EXCEPT ![p] = NoPublish] /\ (w.todo = {} \/ now # "published")
           \/ /\ now = "published"
              /\ \E n \in w.todo : \E q : /\ n = h => w.todo = {h}
                                     /\ pub' = [pub EXCEPT ![p] = q] /\ NextUp(q, w, n)
<1>1. CASE w.todo # {} /\ now = "published"
  <2>1. PICK n \in Starters(w.todo, h) :
           pub' = [pub EXCEPT ![p] = [w EXCEPT !.pc = "up", !.at = n, !.todo = @ \ {n}]]
        BY <1>1 DEF Advance
  <2>2. n \in w.todo /\ (n = h => w.todo = {h})
        BY DEF Starters
  <2> DEFINE q == [w EXCEPT !.pc = "up", !.at = n, !.todo = @ \ {n}]
  <2>3. NextUp(q, w, n) /\ pub' = [pub EXCEPT ![p] = q]
        BY <2>1 DEF PublishRecord, NextUp
  <2> HIDE DEF q
  <2> QED BY <1>1, <2>2, <2>3
<1>2. CASE ~(w.todo # {} /\ now = "published")
  <2>1. pub' = [pub EXCEPT ![p] = NoPublish]
        BY <1>2 DEF Advance
  <2> QED BY <1>2, <2>1
<1> QED BY <1>1, <1>2

\* What a turn makes of the status and of the request.
LEMMA TurnedCalm ==
    ASSUME CalmInv, NEW p \in Publishers, pub[p].pc = "ps", Turned(p, FALSE)
    PROVE  /\ status' \in [Tasks -> Status]
           /\ \/ /\ pub' = [pub EXCEPT ![p] = NoPublish]
                 /\ \A t \in Tasks : \/ status'[t] = status[t]
                                     \/ /\ t = pub[p].task /\ pub[p].todo = {}
                                        /\ status[t] = "published" /\ status'[t] = "running"
              \/ /\ status[pub[p].task] = "published" /\ status' = status
                 /\ \E n \in pub[p].todo : \E q :
                       /\ n = head[pub[p].task] => pub[p].todo = {n}
                       /\ pub' = [pub EXCEPT ![p] = q] /\ NextUp(q, pub[p], n)
<1> DEFINE t == pub[p].task
           w == [pub[p] EXCEPT !.failed = @ \/ FALSE]
<1>1. /\ t \in Tasks /\ ~pub[p].failed /\ pub[p] \in PublishRecord
      /\ status \in [Tasks -> Status] /\ status[t] \in {"published", "stopped"}
      BY DEF CalmInv, CalmRequests, Waiting, Deploying, TypeInv, TypeOK, PublishersOK, RowsOK
<1>2. /\ w \in PublishRecord /\ w.todo = pub[p].todo /\ w.failed = FALSE /\ w.task = t
      /\ pub[p].failed = FALSE
      BY <1>1 DEF PublishRecord
<1>4. Advance(p, w, status[t], head[t]) /\ status' = [status EXCEPT ![t] = AfterTurn(w, @)]
      BY <1>1 DEF Turned
<1> HIDE DEF w, t
<1>5. AfterTurn(w, status[t]) = IF pub[p].todo = {} /\ status[t] = "published"
                               THEN "running" ELSE status[t]
      BY <1>1, <1>2 DEF AfterTurn
<1>6. /\ \A u \in Tasks : u # t => status'[u] = status[u]
      /\ status'[t] = AfterTurn(w, status[t])
      /\ status' \in [Tasks -> Status]
      BY <1>1, <1>4, <1>5 DEF Status, Active
<1>7. \/ pub' = [pub EXCEPT ![p] = NoPublish] /\ (w.todo = {} \/ status[t] # "published")
      \/ /\ status[t] = "published"
         /\ \E n \in w.todo : \E q : /\ n = head[t] => w.todo = {head[t]}
                                /\ pub' = [pub EXCEPT ![p] = q] /\ NextUp(q, w, n)
      BY <1>2, <1>4, AdvanceCalm
<1>8. CASE pub' = [pub EXCEPT ![p] = NoPublish]
      BY <1>5, <1>6, <1>8 DEF t
<1>9. CASE /\ status[t] = "published"
           /\ \E n \in w.todo : \E q : /\ n = head[t] => w.todo = {head[t]}
                                  /\ pub' = [pub EXCEPT ![p] = q] /\ NextUp(q, w, n)
  <2>0. PICK n \in w.todo : \E q : /\ n = head[t] => w.todo = {head[t]}
                                   /\ pub' = [pub EXCEPT ![p] = q] /\ NextUp(q, w, n)
        BY <1>9
  <2>1. PICK q : /\ n = head[t] => w.todo = {head[t]}
                 /\ pub' = [pub EXCEPT ![p] = q] /\ NextUp(q, w, n)
        BY <2>0
  <2>2. NextUp(q, pub[p], n) /\ n \in pub[p].todo /\ (n = head[t] => pub[p].todo = {n})
        BY <1>2, <2>1 DEF NextUp, t
  <2>3. status' = status
        BY <1>1, <1>4, <1>5, <2>2
  <2> QED BY <1>1, <1>6, <1>9, <2>1, <2>2, <2>3 DEF t
<1> QED BY <1>7, <1>8, <1>9

\* The steps that are left.
LEMMA CalmNext ==
    ASSUME CalmInv, Undisturbed, [Next]_vars
    PROVE  \/ UNCHANGED <<rowVars, nodeVars, pub, act, mon, hc>>
           \/ \E p \in Publishers :
                 \/ \E N \in SUBSET Nodes, h \in Nodes : Publish(p, N, h)
                 \/ PublishRefused(p) \/ PublishReserve(p) \/ PublishUp(p)
                 \/ PublishUndo(p) \/ PublishPs(p)
           \/ \E t \in Tasks : \/ \E op \in {"stop", "restart"} : ActStart(t, op)
                               \/ \E n \in Nodes : ActCall(t, n)
                               \/ ActRestarted(t) \/ ActEnd(t) \/ HealthCheck(t)
           \/ MonitorStep
           \/ \E t \in Tasks, n \in Nodes : DockerEvent(t, n) \/ ContainerExits(t, n)
           \/ Crash
<1>1. ASSUME NEW p \in Publishers PROVE ~PublishFails(p) /\ ~PublishRollback(p)
  <2>1. "fail" \notin Ops /\ pub[p].pc # "rollback"
        BY DEF Undisturbed, CalmInv, CalmRequests, Waiting, Deploying
  <2> QED BY <2>1 DEF PublishFails, PublishRollback
<1>2. ASSUME NEW t \in Tasks
      PROVE  /\ ~ActDeleted(t)
             /\ \A n \in Nodes : ~ActCallFails(t, n)
             /\ \A op \in Actions : ActStart(t, op) => op \in {"stop", "restart"}
             /\ \A op \in Actions : ~ActAtOnce(t, op)
  <2>1. /\ act[t].op \in {"none", "stop", "restart"} /\ "fail" \notin Ops
        /\ ctr[t] \in [Nodes -> ContainerState]
        /\ act[t].op = "none" => act[t].todo = {}
        BY DEF Undisturbed, CalmInv, CalmActions, TypeInv, TypeOK, ContainersOK, Idle
  <2>2. ~ActDeleted(t)
        BY <2>1 DEF ActDeleted
  <2>3. ASSUME NEW n \in Nodes, ActCallFails(t, n) PROVE FALSE
    <3>1. act[t].op \in {"stop", "restart"} /\ ctr[t][n] \notin DOMAIN Effect(act[t].op)
          BY <2>1, <2>3 DEF ActCallFails
    <3>2. ContainerState \subseteq DOMAIN Effect("stop") /\ ContainerState \subseteq DOMAIN Effect("restart")
          BY DEF Effect
    <3> QED BY <2>1, <3>1, <3>2
  <2>4. ASSUME NEW op \in Actions PROVE /\ ActStart(t, op) => op \in {"stop", "restart"}
                                        /\ ~ActAtOnce(t, op)
        BY DEF ActStart, ActAtOnce, Undisturbed, Actions
  <2> QED BY <2>2, <2>3, <2>4
<1>3. CASE UNCHANGED vars
      BY <1>3 DEF vars
<1>4. CASE \E t \in Tasks : BenchStart(t) \/ BenchStore(t)
      BY <1>4 DEF BenchStart, BenchStore
<1>5. CASE Environment
      BY <1>2, <1>4, <1>5, Zenon DEF Environment
<1>6. CASE System
  <2>1. CASE \E p \in Publishers : PublishStep(p)
        BY <1>1, <2>1, Zenon DEF PublishStep
  <2>2. CASE \E t \in Tasks : ActStep(t)
        BY <1>2, <2>2, Zenon DEF ActStep
  <2> QED BY <1>4, <1>6, <2>1, <2>2 DEF System
<1> QED BY <1>3, <1>5, <1>6 DEF Next

\* The end of an action stops the task, or leaves it alone.
LEMMA EndCalm ==
    ASSUME CalmInv, NEW t \in Tasks, ActEnd(t)
    PROVE  /\ status' = status \/ status' = [status EXCEPT ![t] = "stopped"]
           /\ status[t] # "unused"
<1>1. /\ act[t].op \in {"stop", "restart"} /\ act[t].errors = {}
      /\ act[t].op = "restart" => act[t].was = "running"
      BY DEF ActEnd, Called, CalmInv, CalmActions
<1>2. status[t] # "unused"
      BY <1>1 DEF CalmInv, TypeInv, Fresh, Exists
<1>3. Outcome(t) = Goal(act[t].op)
      BY <1>1 DEF Outcome
<1>4. Goal("stop") = "stopped" /\ Goal("restart") = "running"
      BY DEF Goal
<1> QED BY <1>1, <1>2, <1>3, <1>4 DEF ActEnd

\* A request that inserts its rows has a task that was nobody's.
LEMMA InsertCalm ==
    ASSUME CalmInv, NEW p \in Publishers, PublishReserve(p)
    PROVE  \E t \in Tasks, n \in pub[p].nodes : \E q :
              /\ status[t] = "unused" /\ status' = [status EXCEPT ![t] = "published"]
              /\ nodesOf' = [nodesOf EXCEPT ![t] = pub[p].nodes]
              /\ head' = [head EXCEPT ![t] = pub[p].head]
              /\ pub' = [pub EXCEPT ![p] = q]
              /\ q.pc = "up" /\ q.task = t /\ ~q.failed /\ q.at = n
              /\ q.todo = pub[p].nodes \ {n}
              /\ n = pub[p].head => pub[p].nodes = {n}
<1>1. PICK t \in Tasks :
        /\ status[t] = "unused" /\ status' = [status EXCEPT ![t] = "published"]
        /\ nodesOf' = [nodesOf EXCEPT ![t] = pub[p].nodes]
        /\ head' = [head EXCEPT ![t] = pub[p].head]
        /\ Advance(p, [NoPublish EXCEPT !.task = t, !.todo = pub[p].nodes], "published",
                   pub[p].head)
      BY DEF PublishReserve, Insert
<1> DEFINE w == [NoPublish EXCEPT !.task = t, !.todo = pub[p].nodes]
<1>2. pub[p].nodes \in SUBSET Nodes /\ pub[p].head \in pub[p].nodes
      BY DEF PublishReserve, CalmInv, TypeInv, TypeOK, PublishersOK, PublishRecord
<1>3. /\ w \in PublishRecord /\ w.task = t /\ w.todo = pub[p].nodes /\ ~w.failed
      /\ Advance(p, w, "published", pub[p].head)
      BY <1>1, <1>2 DEF PublishRecord, NoPublish
<1> HIDE DEF w
<1>3a. PICK n \in w.todo : \E q : /\ n = pub[p].head => w.todo = {pub[p].head}
                                  /\ pub' = [pub EXCEPT ![p] = q] /\ NextUp(q, w, n)
      BY <1>2, <1>3, AdvanceCalm
<1>4. PICK q : /\ n = pub[p].head => w.todo = {pub[p].head}
               /\ pub' = [pub EXCEPT ![p] = q] /\ NextUp(q, w, n)
      BY <1>3a
<1>5. /\ n \in pub[p].nodes /\ q.pc = "up" /\ q.task = t /\ ~q.failed /\ q.at = n
      /\ q.todo = pub[p].nodes \ {n} /\ (n = pub[p].head => pub[p].nodes = {n})
      BY <1>3, <1>4 DEF NextUp
<1>6. /\ status[t] = "unused" /\ status' = [status EXCEPT ![t] = "published"]
      /\ nodesOf' = [nodesOf EXCEPT ![t] = pub[p].nodes]
      /\ head' = [head EXCEPT ![t] = pub[p].head]
      BY <1>1
<1>7. pub' = [pub EXCEPT ![p] = q]
      BY <1>4
<1> QED BY <1>5, <1>6, <1>7

LEMMA RequestStepsCalm ==
    ASSUME CalmInv, NEW p \in Publishers,
           \/ \E N \in SUBSET Nodes, h \in Nodes : Publish(p, N, h)
           \/ PublishRefused(p) \/ PublishReserve(p) \/ PublishUp(p)
           \/ PublishUndo(p) \/ PublishPs(p)
    PROVE  CalmTasks' /\ CalmRequests' /\ act' = act
<1>0. /\ \A t \in Tasks : status[t] \in {"unused", "published", "running", "stopped"}
      /\ \A t \in hc : status[t] # "unused"
      /\ status \in [Tasks -> Status]
      BY DEF CalmInv, CalmTasks, TypeInv, TypeOK, RowsOK
<1>1. act' = act /\ hc' = hc
      BY DEF Publish, PublishRefused, PublishReserve, PublishUp, PublishUndo, PublishPs
<1>2. Waiting(NoPublish)
      BY DEF Waiting, NoPublish
<1>3. CASE \/ \E N \in SUBSET Nodes, h \in Nodes : Publish(p, N, h)
           \/ PublishRefused(p) \/ PublishUndo(p)
  <2>1. PICK r : pub' = [pub EXCEPT ![p] = r] /\ Waiting(r) /\ status' = status
    <3>1. CASE PublishRefused(p) \/ PublishUndo(p)
          BY <1>2, <3>1 DEF PublishRefused, PublishUndo
    <3>2. CASE \E N \in SUBSET Nodes, h \in Nodes : Publish(p, N, h)
      <4>1. PICK N \in SUBSET Nodes, h \in Nodes : Publish(p, N, h)
            BY <3>2
      <4> DEFINE r == [NoPublish EXCEPT !.pc = "prepare", !.nodes = N, !.head = h]
      <4>2. pub' = [pub EXCEPT ![p] = r] /\ status' = status
            BY <4>1 DEF Publish
      <4>3. Waiting(r)
            BY DEF Waiting, NoPublish
      <4> HIDE DEF r
      <4> QED BY <4>2, <4>3
    <3> QED BY <1>3, <3>1, <3>2
  <2>2. CalmRequests'
        BY <1>1, <2>1, RequestCalm
  <2> QED BY <1>0, <1>1, <2>1, <2>2 DEF CalmTasks
<1>4. CASE PublishReserve(p)
  <2>0. PICK t \in Tasks, n \in pub[p].nodes : \E q :
           /\ status[t] = "unused" /\ status' = [status EXCEPT ![t] = "published"]
           /\ pub' = [pub EXCEPT ![p] = q]
           /\ q.pc = "up" /\ q.task = t /\ ~q.failed /\ q.at = n
           /\ q.todo = pub[p].nodes \ {n}
        BY <1>4, InsertCalm
  <2>1. PICK q :
           /\ status[t] = "unused" /\ status' = [status EXCEPT ![t] = "published"]
           /\ pub' = [pub EXCEPT ![p] = q]
           /\ q.pc = "up" /\ q.task = t /\ ~q.failed /\ q.at = n
           /\ q.todo = pub[p].nodes \ {n}
        BY <2>0
  <2>2. \A u \in Tasks : status'[u] = IF u = t THEN "published" ELSE status[u]
        BY <1>0, <2>1
  <2>3. CalmTasks'
        BY <1>0, <1>1, <2>1, <2>2 DEF CalmTasks, CalmInv, TypeInv, TypeOK
  <2>4. \A r \in Publishers : pub[r].task # t
        BY <2>1 DEF CalmInv, TypeInv, Fresh
  <2>5. Deploying(q) /\ q.task \in Tasks \ hc /\ status'[q.task] = "published"
        BY <1>0, <2>1, <2>2 DEF Deploying
  <2>6. CalmRequests'
        BY <1>0, <1>1, <2>1, <2>2, <2>4, <2>5, RequestCalm
  <2> QED BY <1>1, <2>3, <2>6
<1>5. CASE PublishUp(p)
  <2> DEFINE pc == IF status[pub[p].task] = "published" THEN "ps" ELSE "undo"
             r == [pub[p] EXCEPT !.pc = pc, !.started = @ \cup {pub[p].at}]
  <2>1. status' = status /\ (pub' = [pub EXCEPT ![p] = NoPublish] \/ pub' = [pub EXCEPT ![p] = r])
        BY <1>5 DEF PublishUp
  <2>2. /\ Deploying(pub[p]) /\ pub[p].task \in Tasks \ hc
        /\ status[pub[p].task] \in {"published", "stopped"} /\ pub[p] \in PublishRecord
        BY <1>5 DEF PublishUp, CalmInv, CalmRequests, Waiting, TypeInv, TypeOK, PublishersOK
  <2>3. Deploying(r) /\ r.task = pub[p].task
        BY <2>2 DEF Deploying, PublishRecord
  <2> HIDE DEF r
  <2>4. CalmRequests'
        BY <1>1, <1>2, <2>1, <2>2, <2>3, RequestCalm
  <2> QED BY <1>0, <1>1, <2>1, <2>4 DEF CalmTasks
<1>6. CASE PublishPs(p)
  <2>1. Turned(p, FALSE) /\ pub[p].pc = "ps"
        BY <1>6 DEF PublishPs
  <2>2. /\ Deploying(pub[p]) /\ pub[p].task \in Tasks \ hc
        /\ status[pub[p].task] \in {"published", "stopped"}
        BY <2>1 DEF CalmInv, CalmRequests, Waiting
  <2>3. CASE /\ pub' = [pub EXCEPT ![p] = NoPublish]
             /\ \A t \in Tasks : \/ status'[t] = status[t]
                                 \/ /\ t = pub[p].task /\ pub[p].todo = {}
                                    /\ status[t] = "published" /\ status'[t] = "running"
    <3>1. CalmRequests'
          BY <1>1, <1>2, <2>3, RequestCalm
    <3> QED BY <1>0, <1>1, <2>3, <3>1 DEF CalmTasks, CalmInv, TypeInv, TypeOK
  <2>4. CASE /\ status[pub[p].task] = "published" /\ status' = status
             /\ \E n \in pub[p].todo : \E q :
                   pub' = [pub EXCEPT ![p] = q] /\ NextUp(q, pub[p], n)
    <3>0. PICK n \in pub[p].todo : \E q : pub' = [pub EXCEPT ![p] = q] /\ NextUp(q, pub[p], n)
          BY <2>4
    <3>1. PICK q : pub' = [pub EXCEPT ![p] = q] /\ NextUp(q, pub[p], n)
          BY <3>0
    <3>2. Deploying(q) /\ q.task = pub[p].task
          BY <2>2, <3>1 DEF Deploying, NextUp
    <3>3. CalmRequests'
          BY <1>1, <2>2, <2>4, <3>1, <3>2, RequestCalm
    <3> QED BY <1>0, <1>1, <2>4, <3>3 DEF CalmTasks
  <2> QED BY <2>1, <2>3, <2>4, TurnedCalm
<1> QED BY <1>1, <1>3, <1>4, <1>5, <1>6

LEMMA CalmStep ==
    ASSUME CalmInv, Undisturbed, [Next]_vars
    PROVE  CalmInv'
<1>0. /\ \A t \in Tasks : status[t] \in {"unused", "published", "running", "stopped"}
      /\ \A t \in hc : status[t] # "unused" /\ t \in Tasks
      /\ status \in [Tasks -> Status] /\ act \in [Tasks -> ActionRecord]
      BY DEF CalmInv, CalmTasks, TypeInv, TypeOK, RowsOK
<1>1. TypeInv'
      BY TypeStep DEF CalmInv
<1>2. ASSUME UNCHANGED <<status, pub, hc>> PROVE CalmTasks' /\ CalmRequests'
      BY <1>2 DEF CalmInv, CalmTasks, CalmRequests, Waiting, Deploying
<1>3. ASSUME act' = act PROVE CalmActions'
      BY <1>3 DEF CalmInv, CalmActions
<1>4. ASSUME NEW t \in Tasks, UNCHANGED <<pub, hc>>,
             status' = status \/ status' = [status EXCEPT ![t] = "stopped"],
             status[t] # "unused"
      PROVE  CalmTasks' /\ CalmRequests'
  <2>1. \A u \in Tasks : status'[u] = status[u] \/ (u = t /\ status'[u] = "stopped")
        BY <1>0, <1>4
  <2>2. CalmRequests'
        BY <1>4, <2>1, RequestsCalm
  <2> QED BY <1>0, <1>4, <2>1, <2>2 DEF CalmTasks
<1>5. ASSUME NEW t \in Tasks, NEW a, act' = [act EXCEPT ![t] = a],
             /\ a.op \in {"none", "stop", "restart"} /\ a.errors = {}
             /\ a.op = "restart" => a.was = "running"
      PROVE  CalmActions'
      BY <1>0, <1>5 DEF CalmInv, CalmActions
<1>6. CASE UNCHANGED <<rowVars, nodeVars, pub, act, mon, hc>>
      BY <1>1, <1>2, <1>3, <1>6 DEF CalmInv
<1>7. CASE \E p \in Publishers :
              \/ \E N \in SUBSET Nodes, h \in Nodes : Publish(p, N, h)
              \/ PublishRefused(p) \/ PublishReserve(p) \/ PublishUp(p)
              \/ PublishUndo(p) \/ PublishPs(p)
      BY <1>1, <1>3, <1>7, RequestStepsCalm DEF CalmInv
<1>8. ASSUME NEW t \in Tasks, NEW op \in {"stop", "restart"}, ActStart(t, op)
      PROVE  CalmInv'
  <2> DEFINE a == [NoAction EXCEPT !.op = op, !.was = status[t], !.cst = cst[t],
                     !.todo = IF op \in {"pause", "resume"} THEN recorded[t] ELSE nodesOf[t]]
  <2>1. act' = [act EXCEPT ![t] = a] /\ UNCHANGED <<status, pub, hc>>
        BY <1>8 DEF ActStart
  <2>2. a.op = op /\ a.errors = {} /\ a.was = status[t]
        BY DEF NoAction
  <2>3. op = "restart" => status[t] = "running"
        BY <1>8 DEF ActStart, Allowed
  <2> HIDE DEF a
  <2> QED BY <1>1, <1>2, <1>5, <2>1, <2>2, <2>3 DEF CalmInv
<1>9. ASSUME NEW t \in Tasks, ActRestarted(t) \/ \E n \in Nodes : ActCall(t, n)
      PROVE  CalmInv'
  <2>1. UNCHANGED <<status, pub, hc>>
        BY <1>9 DEF ActRestarted, ActCall
  <2>2. \E a : /\ act' = [act EXCEPT ![t] = a]
               /\ a.op = act[t].op /\ a.was = act[t].was /\ a.errors = act[t].errors
    <3>0. act[t] \in ActionRecord
          BY <1>0
    <3>1. CASE ActRestarted(t)
      <4> DEFINE a == [act[t] EXCEPT !.mid = NoNode, !.done = @ \cup {act[t].mid}]
      <4>1. act' = [act EXCEPT ![t] = a]
            BY <3>1 DEF ActRestarted
      <4>2. a.op = act[t].op /\ a.was = act[t].was /\ a.errors = act[t].errors
            BY <3>0 DEF ActionRecord
      <4> HIDE DEF a
      <4> QED BY <4>1, <4>2
    <3>2. ASSUME NEW n \in Nodes, ActCall(t, n)
          PROVE  \E a : /\ act' = [act EXCEPT ![t] = a]
                        /\ a.op = act[t].op /\ a.was = act[t].was
                        /\ a.errors = act[t].errors
      <4> DEFINE a == [act[t] EXCEPT !.todo = @ \ {n}, !.mid = n]
                 b == [act[t] EXCEPT !.todo = @ \ {n}, !.done = @ \cup {n}]
      <4>1. act' = [act EXCEPT ![t] = a] \/ act' = [act EXCEPT ![t] = b]
            BY <3>2 DEF ActCall
      <4>2. /\ a.op = act[t].op /\ a.was = act[t].was /\ a.errors = act[t].errors
            /\ b.op = act[t].op /\ b.was = act[t].was /\ b.errors = act[t].errors
            BY <3>0 DEF ActionRecord
      <4> HIDE DEF a, b
      <4> QED BY <4>1, <4>2
    <3> QED BY <1>9, <3>1, <3>2
  <2>3. CalmActions'
        BY <1>5, <2>2 DEF CalmInv, CalmActions
  <2> QED BY <1>1, <1>2, <2>1, <2>3 DEF CalmInv
<1>10. ASSUME NEW t \in Tasks, ActEnd(t) PROVE CalmInv'
  <2>1. CalmTasks' /\ CalmRequests'
        BY <1>4, <1>10, EndCalm DEF ActEnd
  <2>2. CalmActions'
    <3>1. act' = [act EXCEPT ![t] = NoAction]
          BY <1>10 DEF ActEnd
    <3>2. NoAction.op = "none" /\ NoAction.errors = {}
          BY DEF NoAction
    <3> QED BY <1>5, <3>1, <3>2
  <2> QED BY <1>1, <2>1, <2>2 DEF CalmInv
<1>11. ASSUME NEW t \in Tasks, HealthCheck(t) PROVE CalmInv'
  <2>1. /\ act' = act /\ pub' = pub /\ hc' = hc \ {t} /\ t \in hc
        /\ \A u \in Tasks : status'[u] = status[u] \/ (u = t /\ status'[u] = "running")
        BY <1>0, <1>11 DEF HealthCheck
  <2>2. CalmRequests'
        BY <2>1, RequestsCalm
  <2>3. CalmTasks'
        BY <1>0, <2>1 DEF CalmTasks
  <2> QED BY <1>1, <1>3, <2>1, <2>2, <2>3 DEF CalmInv
<1>12. CASE MonitorStep
  <2>1. CASE UNCHANGED status
        BY <1>1, <1>2, <1>3, <1>12, <2>1
           DEF CalmInv, MonitorStep, ProbeStart, ProbeNode, ProbeEnd
  <2>2. CASE ~UNCHANGED status
    <3>1. /\ mon.task # NoTask /\ status[mon.task] = "running"
          /\ status' = [status EXCEPT ![mon.task] = "stopped"]
          /\ UNCHANGED <<pub, act, hc>>
          BY <1>12, <2>2 DEF MonitorStep, ProbeStart, ProbeNode, ProbeEnd
    <3>2. mon.task \in Tasks
          BY <3>1 DEF CalmInv, TypeInv, TypeOK, RoundRecord
    <3> QED BY <1>1, <1>3, <1>4, <3>1, <3>2 DEF CalmInv
  <2> QED BY <2>1, <2>2
<1>13. ASSUME NEW t \in Tasks, NEW n \in Nodes, DockerEvent(t, n) \/ ContainerExits(t, n)
       PROVE  CalmInv'
  <2>1. /\ UNCHANGED <<pub, act, hc>>
        /\ \/ status' = status
           \/ status[t] = "running" /\ status' = [status EXCEPT ![t] = "stopped"]
        BY <1>13 DEF DockerEvent, ContainerExits
  <2> QED BY <1>1, <1>2, <1>3, <1>4, <2>1 DEF CalmInv
<1>14. CASE Crash
  <2>1. CalmRequests'
        BY <1>14 DEF Crash, CalmRequests, Waiting, NoPublish
  <2>2. CalmTasks'
        BY <1>0, <1>14 DEF Crash, CalmTasks
  <2>3. CalmActions'
        BY <1>14 DEF Crash, CalmActions, NoAction
  <2> QED BY <1>1, <2>1, <2>2, <2>3 DEF CalmInv
<1> QED BY <1>6, <1>7, <1>8, <1>9, <1>10, <1>11, <1>12, <1>13, <1>14, CalmNext

LEMMA CalmInit == Init => CalmInv
<1> SUFFICES ASSUME Init PROVE CalmInv
    OBVIOUS
<1>1. TypeInv
      BY TypeInit
<1> QED BY <1>1 DEF Init, CalmInv, CalmTasks, CalmActions, CalmRequests, Waiting, NoPublish,
            NoAction

----------------------------------------------------------------------------
(* Running tasks have their containers.                                    *)

Placed(t) == \A n \in nodesOf[t] : ctr[t][n] # "none"

\* What is left of a deployment: the containers that do not exist yet are those of the
\* nodes to come and of the call under way, and the head's comes last.
Deployed(p) ==
    LET t == pub[p].task
    IN  /\ pub[p].pc = "undo" => status[t] = "stopped"
        /\ pub[p].todo # {} => head[t] \in pub[p].todo
        /\ \A n \in nodesOf[t] : \/ ctr[t][n] # "none" \/ n \in pub[p].todo
                                 \/ pub[p].pc = "up" /\ n = pub[p].at
        /\ head[t] \notin recorded[t]
Deployments == \A p \in Publishers : pub[p].task \in Tasks => Deployed(p)

\* A health check may call a task running that is published with its head's container
\* recorded: that container was the last.
Ready(t) == status[t] = "running" \/ (status[t] = "published" /\ head[t] \in recorded[t])
ReadyPlaced == \A t \in Tasks : Ready(t) => Placed(t)

PlacedInv == CalmInv /\ Deployments /\ ReadyPlaced

\* A change of a container that does not remove it.
LEMMA BecomesKeeps ==
    ASSUME TypeInv, NEW t, NEW n, NEW s, s # "none", Becomes(t, n, s)
    PROVE  \A u \in Tasks, m \in Nodes : ctr[u][m] # "none" => ctr'[u][m] # "none"
BY DEF Becomes, TypeInv, TypeOK, ContainersOK

LEMMA EffectKeeps ==
    ASSUME TypeInv, NEW t, NEW n, NEW op \in {"stop", "restart"},
           ctr[t][n] \in DOMAIN Effect(op), Becomes(t, n, Effect(op)[ctr[t][n]])
    PROVE  \A u \in Tasks, m \in Nodes : ctr[u][m] # "none" => ctr'[u][m] # "none"
<1>1. Effect(op)[ctr[t][n]] = IF ctr[t][n] = "none" THEN "none" ELSE "exited"
      BY DEF Effect
<1>2. ctr' = [ctr EXCEPT ![t][n] = IF ctr[t][n] = "none" THEN "none" ELSE "exited"]
      BY <1>1 DEF Becomes
<1> QED BY <1>2 DEF TypeInv, TypeOK, ContainersOK

\* A step that neither inserts rows nor records a container, and under which requests
\* at most end and only stopped tasks whose request ends lose a container.
LEMMA PlacedKept ==
    ASSUME PlacedInv, CalmInv', UNCHANGED <<nodesOf, head, recorded>>,
           \A t \in Tasks : /\ status'[t] = "running" => Ready(t)
                            /\ status'[t] = "published" => status[t] = "published"
                            /\ status[t] = "stopped" => status'[t] = "stopped",
           \A p \in Publishers : pub'[p] = pub[p] \/ pub'[p].task = NoTask,
           \A t \in Tasks, n \in Nodes :
              ctr[t][n] # "none" =>
                 \/ ctr'[t][n] # "none"
                 \/ status[t] = "stopped" /\ \A p \in Publishers : pub'[p].task # t
    PROVE  PlacedInv'
<1>0. NoTask \notin Tasks /\ nodesOf \in [Tasks -> SUBSET Nodes]
      BY ConstantsAssumption DEF PlacedInv, CalmInv, TypeInv, TypeOK, RowsOK
<1>1. ASSUME NEW p \in Publishers, pub'[p].task \in Tasks PROVE Deployed(p)'
  <2>1. pub'[p] = pub[p] /\ Deployed(p)
        BY <1>0, <1>1 DEF PlacedInv, Deployments
  <2> QED BY <1>0, <1>1, <2>1 DEF Deployed
<1>2. ASSUME NEW t \in Tasks, Ready(t)' PROVE Placed(t)'
  <2>1. Ready(t) /\ status[t] # "stopped"
        BY <1>2 DEF Ready
  <2>2. Placed(t)
        BY <2>1 DEF PlacedInv, ReadyPlaced
  <2> QED BY <1>0, <2>1, <2>2 DEF Placed
<1> QED BY <1>1, <1>2 DEF PlacedInv, Deployments, ReadyPlaced

\* The step of a request p on its task t.
LEMMA PlacedRequest ==
    ASSUME PlacedInv, CalmInv', NEW p \in Publishers, NEW t \in Tasks,
           \A q \in Publishers \ {p} : pub'[q] = pub[q] /\ pub[q].task # t,
           \A u \in Tasks \ {t} : /\ status'[u] = status[u] /\ nodesOf'[u] = nodesOf[u]
                                  /\ head'[u] = head[u] /\ recorded'[u] = recorded[u]
                                  /\ ctr'[u] = ctr[u],
           pub'[p].task \in Tasks => Deployed(p)',
           Ready(t)' => Placed(t)'
    PROVE  PlacedInv'
<1>1. ASSUME NEW q \in Publishers, pub'[q].task \in Tasks PROVE Deployed(q)'
  <2>1. CASE q = p BY <1>1, <2>1
  <2>2. CASE q # p
    <3>1. Deployed(q) /\ pub'[q] = pub[q] /\ pub[q].task # t
          BY <1>1, <2>2 DEF PlacedInv, Deployments
    <3> QED BY <1>1, <3>1 DEF Deployed
  <2> QED BY <2>1, <2>2
<1>2. ASSUME NEW u \in Tasks, Ready(u)' PROVE Placed(u)'
  <2>1. CASE u = t BY <1>2, <2>1
  <2>2. CASE u # t
    <3>1. Ready(u)
          BY <1>2, <2>2 DEF Ready
    <3> QED BY <2>2, <3>1 DEF Placed, PlacedInv, ReadyPlaced
  <2> QED BY <2>1, <2>2
<1> QED BY <1>1, <1>2 DEF PlacedInv, Deployments, ReadyPlaced

\* Facts about a request that deploys.
LEMMA DeployingFacts ==
    ASSUME PlacedInv, NEW p \in Publishers, pub[p].pc \in {"up", "ps", "undo"}
    PROVE  /\ pub[p].task \in Tasks /\ Deployed(p) /\ Deploying(pub[p])
           /\ pub[p] \in PublishRecord
           /\ status[pub[p].task] \in {"published", "stopped"}
           /\ pub[p].at \in nodesOf[pub[p].task] /\ pub[p].at \in Nodes
           /\ pub[p].todo \subseteq nodesOf[pub[p].task]
           /\ \A q \in Publishers \ {p} : pub[q].task # pub[p].task
<1>1. pub[p].task \in Tasks
      BY ConstantsAssumption DEF PlacedInv, CalmInv, CalmRequests, Waiting
<1>2. NoTask \notin Tasks
      BY ConstantsAssumption
<1> QED BY <1>1, <1>2 DEF PlacedInv, CalmInv, CalmRequests, Waiting, Deployments, TypeInv,
                          TypeOK, PublishersOK, RowsOK, PublishRecord

LEMMA UpPlaced ==
    ASSUME PlacedInv, CalmInv', NEW p \in Publishers, PublishUp(p)
    PROVE  PlacedInv'
<1>0. pub[p].pc = "up" /\ UNCHANGED <<status, nodesOf, head, recorded>>
      BY DEF PublishUp
<1>1. PICK t \in Tasks, n \in Nodes :
        /\ t = pub[p].task /\ n = pub[p].at /\ n \in nodesOf[t] /\ Deployed(p)
        /\ pub[p] \in PublishRecord /\ status[t] \in {"published", "stopped"}
        /\ \A q \in Publishers \ {p} : pub[q].task # t
      BY <1>0, DeployingFacts
<1> DEFINE r == [pub[p] EXCEPT !.pc = IF status[t] = "published" THEN "ps" ELSE "undo",
                               !.started = @ \cup {n}]
<1>2. pub' = [pub EXCEPT ![p] = r]
      BY <1>1 DEF PublishUp
<1>3. /\ r.task = t /\ r.todo = pub[p].todo
      /\ r.pc = IF status[t] = "published" THEN "ps" ELSE "undo"
      BY <1>1 DEF PublishRecord
<1>4. Becomes(t, n, Up(ctr[t][n])) /\ Up(ctr[t][n]) # "none"
      BY <1>1 DEF PublishUp, Up
<1> HIDE DEF r
<1>5. pub'[p] = r /\ \A q \in Publishers \ {p} : pub'[q] = pub[q]
      BY <1>2 DEF PlacedInv, CalmInv, TypeInv, TypeOK, PublishersOK
<1>6. /\ ctr'[t][n] # "none"
      /\ \A m \in Nodes : m # n => ctr'[t][m] = ctr[t][m]
      /\ \A u \in Tasks \ {t} : ctr'[u] = ctr[u]
  <2>1. PICK s : s # "none" /\ ctr' = [ctr EXCEPT ![t][n] = s]
        BY <1>4 DEF Becomes
  <2>2. ctr \in [Tasks -> [Nodes -> ContainerState]]
        BY DEF PlacedInv, CalmInv, TypeInv, TypeOK, ContainersOK
  <2> QED BY <2>1, <2>2
<1>7. nodesOf[t] \subseteq Nodes
      BY <1>1 DEF PlacedInv, CalmInv, TypeInv, TypeOK, RowsOK
<1>8. Deployed(p)'
  <2>1. pub'[p].task = t /\ pub'[p].todo = pub[p].todo /\ pub[p].task = t /\ pub[p].at = n
        BY <1>1, <1>3, <1>5
  <2>2. pub'[p].pc = "undo" => status'[t] = "stopped"
        BY <1>0, <1>1, <1>3, <1>5
  <2>3. \A m \in nodesOf[t] : ctr'[t][m] # "none" \/ m \in pub[p].todo
        BY <1>1, <1>6, <1>7, <2>1 DEF Deployed
  <2> QED BY <1>0, <1>1, <2>1, <2>2, <2>3 DEF Deployed
<1>9. Ready(t)' => Placed(t)'
  <2>1. Ready(t)' => Ready(t)
        BY <1>0 DEF Ready
  <2> QED BY <1>0, <1>1, <1>6, <1>7, <2>1 DEF Placed, PlacedInv, ReadyPlaced
<1> QED BY <1>0, <1>1, <1>5, <1>6, <1>8, <1>9, PlacedRequest

LEMMA PsPlaced ==
    ASSUME PlacedInv, CalmInv', NEW p \in Publishers, PublishPs(p)
    PROVE  PlacedInv'
<1>0. pub[p].pc = "ps" /\ UNCHANGED <<nodesOf, head, ctr>> /\ Turned(p, FALSE)
      BY DEF PublishPs
<1>1. PICK t \in Tasks, n \in Nodes :
        /\ t = pub[p].task /\ n = pub[p].at /\ n \in nodesOf[t] /\ Deployed(p)
        /\ pub[p] \in PublishRecord /\ status[t] \in {"published", "stopped"}
        /\ n \notin pub[p].todo
        /\ \A q \in Publishers \ {p} : pub[q].task # t
      BY <1>0, DeployingFacts DEF Deploying
<1>2. /\ recorded'[t] \in {recorded[t], recorded[t] \cup {n}}
      /\ \A u \in Tasks \ {t} : recorded'[u] = recorded[u]
      BY <1>1 DEF PublishPs, PlacedInv, CalmInv, TypeInv, TypeOK, RowsOK
<1>3. \/ /\ pub' = [pub EXCEPT ![p] = NoPublish]
         /\ \A u \in Tasks : \/ status'[u] = status[u]
                             \/ /\ u = t /\ pub[p].todo = {}
                                /\ status[u] = "published" /\ status'[u] = "running"
      \/ /\ status[t] = "published" /\ status' = status
         /\ \E m \in pub[p].todo : \E q :
               /\ m = head[t] => pub[p].todo = {m}
               /\ pub' = [pub EXCEPT ![p] = q] /\ NextUp(q, pub[p], m)
      BY <1>0, <1>1, TurnedCalm DEF PlacedInv
<1>4. NoPublish.task \notin Tasks /\ pub \in [Publishers -> PublishRecord]
      BY ConstantsAssumption DEF NoPublish, PlacedInv, CalmInv, TypeInv, TypeOK, PublishersOK
<1>5. pub[p].task = t /\ pub[p].at = n /\ pub[p].pc # "up"
      BY <1>0, <1>1
<1>6. CASE /\ pub' = [pub EXCEPT ![p] = NoPublish]
           /\ \A u \in Tasks : \/ status'[u] = status[u]
                               \/ /\ u = t /\ pub[p].todo = {}
                                  /\ status[u] = "published" /\ status'[u] = "running"
  <2>1. pub'[p] = NoPublish /\ \A q \in Publishers \ {p} : pub'[q] = pub[q]
        BY <1>4, <1>6
  <2>2. ASSUME Ready(t)' PROVE Placed(t)'
    <3>1. CASE Ready(t)
          BY <1>0, <1>1, <3>1 DEF Placed, PlacedInv, ReadyPlaced
    <3>2. CASE ~Ready(t)
      <4>1. pub[p].todo = {}
        <5>1. CASE status'[t] # status[t]
              BY <1>1, <1>6, <5>1
        <5>2. CASE status'[t] = status[t]
          <6>1. head[t] \in recorded'[t] /\ head[t] \notin recorded[t]
                BY <1>0, <2>2, <3>2, <5>2 DEF Ready
          <6>2. head[t] = n
                BY <1>2, <6>1
          <6> QED BY <1>1, <1>5, <6>2 DEF Deployed
        <5> QED BY <5>1, <5>2
      <4>2. \A m \in nodesOf[t] : ctr[t][m] # "none"
            BY <1>1, <1>5, <4>1 DEF Deployed
      <4> QED BY <1>0, <4>2 DEF Placed
    <3> QED BY <3>1, <3>2
  <2>3. \A u \in Tasks \ {t} : status'[u] = status[u]
        BY <1>6
  <2> QED BY <1>0, <1>1, <1>2, <1>4, <2>1, <2>2, <2>3, PlacedRequest
<1>7. CASE /\ status[t] = "published" /\ status' = status
           /\ \E m \in pub[p].todo : \E q :
                 /\ m = head[t] => pub[p].todo = {m}
                 /\ pub' = [pub EXCEPT ![p] = q] /\ NextUp(q, pub[p], m)
  <2>0. PICK m \in pub[p].todo : \E q : /\ m = head[t] => pub[p].todo = {m}
                                        /\ pub' = [pub EXCEPT ![p] = q] /\ NextUp(q, pub[p], m)
        BY <1>7
  <2>1. PICK q : /\ m = head[t] => pub[p].todo = {m}
                 /\ pub' = [pub EXCEPT ![p] = q] /\ NextUp(q, pub[p], m)
        BY <2>0
  <2>2. pub'[p] = q /\ \A o \in Publishers \ {p} : pub'[o] = pub[o]
        BY <1>4, <2>1
  <2>3. /\ pub'[p].task = t /\ pub'[p].pc = "up" /\ pub'[p].at = m
        /\ pub'[p].todo = pub[p].todo \ {m}
        BY <1>5, <2>1, <2>2 DEF NextUp
  <2>4. head[t] \in pub[p].todo /\ head[t] # n /\ head[t] \notin recorded'[t]
        BY <1>1, <1>2, <1>5 DEF Deployed
  <2>5. \A k \in nodesOf[t] : \/ ctr[t][k] # "none" \/ k \in pub'[p].todo \/ k = m
        BY <1>1, <1>5, <2>3 DEF Deployed
  <2>6. Deployed(p)'
        BY <1>0, <2>1, <2>3, <2>4, <2>5 DEF Deployed
  <2>7. Ready(t)' => Placed(t)'
        BY <1>0, <1>7, <2>4 DEF Ready
  <2> QED BY <1>0, <1>1, <1>2, <1>7, <2>2, <2>6, <2>7, PlacedRequest
<1> QED BY <1>3, <1>6, <1>7

LEMMA ReservePlaced ==
    ASSUME PlacedInv, CalmInv', NEW p \in Publishers, PublishReserve(p)
    PROVE  PlacedInv'
<1>1. PICK t \in Tasks, n \in pub[p].nodes : \E q :
         /\ status[t] = "unused" /\ status' = [status EXCEPT ![t] = "published"]
         /\ nodesOf' = [nodesOf EXCEPT ![t] = pub[p].nodes]
         /\ head' = [head EXCEPT ![t] = pub[p].head]
         /\ pub' = [pub EXCEPT ![p] = q]
         /\ q.pc = "up" /\ q.task = t /\ ~q.failed /\ q.at = n
         /\ q.todo = pub[p].nodes \ {n}
         /\ n = pub[p].head => pub[p].nodes = {n}
      BY InsertCalm DEF PlacedInv
<1>2. PICK q :
         /\ status[t] = "unused" /\ status' = [status EXCEPT ![t] = "published"]
         /\ nodesOf' = [nodesOf EXCEPT ![t] = pub[p].nodes]
         /\ head' = [head EXCEPT ![t] = pub[p].head]
         /\ pub' = [pub EXCEPT ![p] = q]
         /\ q.pc = "up" /\ q.task = t /\ ~q.failed /\ q.at = n
         /\ q.todo = pub[p].nodes \ {n}
         /\ n = pub[p].head => pub[p].nodes = {n}
      BY <1>1
<1>3. pub[p].head \in pub[p].nodes /\ pub[p].nodes \subseteq Nodes
      BY DEF PublishReserve, PlacedInv, CalmInv, TypeInv, TypeOK, PublishersOK, PublishRecord
<1>4. recorded[t] = {} /\ \A o \in Publishers : pub[o].task # t
      BY <1>2 DEF PlacedInv, CalmInv, TypeInv, Fresh
<1>5. UNCHANGED <<recorded, ctr>>
      BY DEF PublishReserve
<1>6. /\ status'[t] = "published" /\ nodesOf'[t] = pub[p].nodes /\ head'[t] = pub[p].head
      /\ \A u \in Tasks \ {t} : /\ status'[u] = status[u] /\ nodesOf'[u] = nodesOf[u]
                                /\ head'[u] = head[u]
      BY <1>2 DEF PlacedInv, CalmInv, TypeInv, TypeOK, RowsOK
<1>7. pub'[p] = q /\ \A o \in Publishers \ {p} : pub'[o] = pub[o]
      BY <1>2 DEF PlacedInv, CalmInv, TypeInv, TypeOK, PublishersOK
<1>8. Deployed(p)'
      BY <1>2, <1>3, <1>4, <1>5, <1>6, <1>7 DEF Deployed
<1>9. ~Ready(t)'
      BY <1>4, <1>5, <1>6 DEF Ready
<1> QED BY <1>4, <1>5, <1>6, <1>7, <1>8, <1>9, PlacedRequest

\* What the other steps do to the statuses.
StatusKept ==
    \A t \in Tasks : /\ status'[t] = "running" => Ready(t)
                     /\ status'[t] = "published" => status[t] = "published"
                     /\ status[t] = "stopped" => status'[t] = "stopped"

LEMMA PlacedStep ==
    ASSUME PlacedInv, Undisturbed, [Next]_vars
    PROVE  PlacedInv'
<1>0. /\ CalmInv /\ CalmInv' /\ TypeInv
      /\ status \in [Tasks -> Status] /\ NoTask \notin Tasks
      BY CalmStep, ConstantsAssumption DEF PlacedInv, CalmInv, TypeInv, TypeOK, RowsOK
<1>1. ASSUME UNCHANGED status PROVE StatusKept
      BY <1>1 DEF StatusKept, Ready
<1>2. ASSUME NEW t \in Tasks, status[t] # "unused",
             status' = status \/ status' = [status EXCEPT ![t] = "stopped"]
      PROVE  StatusKept
      BY <1>0, <1>2 DEF StatusKept, Ready
<1>3. ASSUME UNCHANGED <<nodesOf, head, recorded, pub>>, StatusKept,
             \A t \in Tasks, n \in Nodes : ctr[t][n] # "none" => ctr'[t][n] # "none"
      PROVE  PlacedInv'
      BY <1>0, <1>3, PlacedKept DEF StatusKept
<1>4. CASE UNCHANGED <<rowVars, nodeVars, pub, act, mon, hc>>
      BY <1>1, <1>3, <1>4
<1>5. ASSUME NEW p \in Publishers,
             (\E N \in SUBSET Nodes, h \in Nodes : Publish(p, N, h)) \/ PublishRefused(p)
      PROVE  PlacedInv'
  <2>1. PICK r : pub' = [pub EXCEPT ![p] = r] /\ r.task = NoTask
    <3>1. ASSUME NEW N \in SUBSET Nodes, NEW h \in Nodes, Publish(p, N, h)
          PROVE  \E r : pub' = [pub EXCEPT ![p] = r] /\ r.task = NoTask
      <4> DEFINE r == [NoPublish EXCEPT !.pc = "prepare", !.nodes = N, !.head = h]
      <4>1. pub' = [pub EXCEPT ![p] = r]
            BY <3>1 DEF Publish
      <4>2. r.task = NoTask
            BY DEF NoPublish
      <4> HIDE DEF r
      <4> QED BY <4>1, <4>2
    <3>2. PublishRefused(p) => pub' = [pub EXCEPT ![p] = NoPublish]
          BY DEF PublishRefused
    <3>3. NoPublish.task = NoTask
          BY DEF NoPublish
    <3> QED BY <1>5, <3>1, <3>2, <3>3
  <2>2. \A q \in Publishers : pub'[q] = pub[q] \/ pub'[q].task = NoTask
        BY <1>0, <2>1 DEF TypeInv, TypeOK, PublishersOK
  <2>3. UNCHANGED <<status, nodesOf, head, recorded, ctr>>
        BY <1>5 DEF Publish, PublishRefused
  <2> QED BY <1>0, <1>1, <2>2, <2>3, PlacedKept DEF StatusKept
<1>6. ASSUME NEW p \in Publishers, PublishUndo(p) PROVE PlacedInv'
  <2>1. PICK t \in Tasks, n \in Nodes :
          /\ t = pub[p].task /\ n = pub[p].at /\ Deployed(p) /\ pub[p].pc = "undo"
          /\ \A q \in Publishers \ {p} : pub[q].task # t
        BY <1>6, DeployingFacts DEF PublishUndo
  <2>2. /\ pub' = [pub EXCEPT ![p] = NoPublish] /\ NoPublish.task = NoTask
        /\ UNCHANGED <<status, nodesOf, head, recorded>>
        BY <1>6 DEF PublishUndo, NoPublish
  <2>3. pub'[p].task = NoTask /\ \A q \in Publishers \ {p} : pub'[q] = pub[q]
        BY <1>0, <2>2 DEF TypeInv, TypeOK, PublishersOK
  <2>4. \A u \in Tasks, m \in Nodes : u # t => ctr'[u][m] = ctr[u][m]
    <3>1. ctr' = ctr \/ ctr' = [ctr EXCEPT ![t][n] = "none"]
          BY <1>6, <2>1 DEF PublishUndo, Becomes
    <3>2. ctr \in [Tasks -> [Nodes -> ContainerState]]
          BY <1>0 DEF TypeInv, TypeOK, ContainersOK
    <3> QED BY <3>1, <3>2
  <2>5. status[t] = "stopped" /\ \A q \in Publishers : pub'[q].task # t
        BY <1>0, <2>1, <2>3 DEF Deployed
  <2>6. \A u \in Tasks, m \in Nodes :
           ctr[u][m] # "none" =>
              \/ ctr'[u][m] # "none"
              \/ status[u] = "stopped" /\ \A q \in Publishers : pub'[q].task # u
        BY <2>4, <2>5
  <2>7. \A q \in Publishers : pub'[q] = pub[q] \/ pub'[q].task = NoTask
        BY <2>3
  <2> QED BY <1>0, <1>1, <2>2, <2>6, <2>7, PlacedKept DEF StatusKept
<1>7. ASSUME NEW t \in Tasks, NEW op \in {"stop", "restart"}, ActStart(t, op)
      PROVE  PlacedInv'
      BY <1>1, <1>3, <1>7 DEF ActStart
<1>8. ASSUME NEW t \in Tasks, NEW n \in Nodes, ActCall(t, n) PROVE PlacedInv'
  <2>1. act[t].op \in {"stop", "restart"} /\ n \in act[t].todo
        BY <1>0, <1>8 DEF ActCall, CalmInv, CalmActions, TypeInv, Idle
  <2>2. ctr[t][n] \in DOMAIN Effect(act[t].op)
        BY <1>8 DEF ActCall
  <2>3. Becomes(t, n, Effect(act[t].op)[ctr[t][n]])
        BY <1>8 DEF ActCall
  <2>4. \A u \in Tasks, m \in Nodes : ctr[u][m] # "none" => ctr'[u][m] # "none"
        BY <1>0, <2>1, <2>2, <2>3, EffectKeeps
  <2> QED BY <1>1, <1>3, <1>8, <2>4 DEF ActCall
<1>9. ASSUME NEW t \in Tasks, ActRestarted(t) PROVE PlacedInv'
  <2>1. \A u \in Tasks, m \in Nodes : ctr[u][m] # "none" => ctr'[u][m] # "none"
        BY <1>0, <1>9, BecomesKeeps DEF ActRestarted
  <2> QED BY <1>1, <1>3, <1>9, <2>1 DEF ActRestarted
<1>10. ASSUME NEW t \in Tasks, ActEnd(t) PROVE PlacedInv'
       BY <1>0, <1>2, <1>3, <1>10, EndCalm DEF ActEnd
<1>11. ASSUME NEW t \in Tasks, HealthCheck(t) PROVE PlacedInv'
  <2>1. StatusKept
        BY <1>0, <1>11 DEF HealthCheck, StatusKept, Ready
  <2> QED BY <1>3, <1>11, <2>1 DEF HealthCheck
<1>12. CASE MonitorStep
  <2>1. StatusKept
    <3>1. CASE UNCHANGED status
          BY <1>1, <3>1
    <3>2. CASE ~UNCHANGED status
      <4>1. /\ mon.task # NoTask /\ status[mon.task] = "running"
            /\ status' = [status EXCEPT ![mon.task] = "stopped"]
            BY <1>12, <3>2 DEF MonitorStep, ProbeStart, ProbeNode, ProbeEnd
      <4>2. mon.task \in Tasks
            BY <1>0, <4>1 DEF TypeInv, TypeOK, RoundRecord
      <4> QED BY <1>2, <4>1, <4>2
    <3> QED BY <3>1, <3>2
  <2>2. UNCHANGED <<nodesOf, head, recorded, pub, ctr>>
        BY <1>12 DEF MonitorStep, ProbeStart, ProbeNode, ProbeEnd
  <2> QED BY <1>3, <2>1, <2>2
<1>13. ASSUME NEW t \in Tasks, NEW n \in Nodes, DockerEvent(t, n) PROVE PlacedInv'
  <2>1. UNCHANGED <<nodesOf, head, recorded, pub, ctr>>
        BY <1>13 DEF DockerEvent
  <2>2. \/ status' = status
        \/ status[t] = "running" /\ status' = [status EXCEPT ![t] = "stopped"]
        BY <1>13 DEF DockerEvent
  <2> QED BY <1>1, <1>2, <1>3, <2>1, <2>2
<1>14. ASSUME NEW t \in Tasks, NEW n \in Nodes, ContainerExits(t, n) PROVE PlacedInv'
  <2>1. \A u \in Tasks, m \in Nodes : ctr[u][m] # "none" => ctr'[u][m] # "none"
        BY <1>0, <1>14, BecomesKeeps DEF ContainerExits
  <2> QED BY <1>1, <1>3, <1>14, <2>1 DEF ContainerExits
<1>15. CASE Crash
  <2>1. \A t \in Tasks, n \in Nodes : ctr[t][n] # "none" => ctr'[t][n] # "none"
        BY <1>15 DEF Crash, Up
  <2>2. \A p \in Publishers : pub'[p].task = NoTask
        BY <1>15 DEF Crash, NoPublish
  <2>3. UNCHANGED <<status, nodesOf, head, recorded>>
        BY <1>15 DEF Crash
  <2> QED BY <1>0, <1>1, <2>1, <2>2, <2>3, PlacedKept DEF StatusKept
<1> QED BY <1>0, <1>4, <1>5, <1>6, <1>7, <1>8, <1>9, <1>10, <1>11, <1>12, <1>13, <1>14, <1>15,
           CalmNext, UpPlaced, PsPlaced, ReservePlaced

\* A running task nobody is working on has a container on every one of its nodes, for
\* any number of tasks, nodes and publishing requests, if users do no more than publish,
\* stop and restart and no call to an agent fails: containers may exit, the monitor and
\* the docker events may set the status and the backend may crash at any moment, in the
\* middle of a deployment too.  That the head is deployed last is what makes the health
\* check of a task found published right (create_task, _health_check).
THEOREM RunningPlacedCorrect ==
    ASSUME Undisturbed
    PROVE  Spec => []RunningWherePlaced
<1>1. Init => PlacedInv
  <2> SUFFICES ASSUME Init PROVE PlacedInv
      OBVIOUS
  <2>1. CalmInv
        BY CalmInit
  <2>2. NoTask \notin Tasks
        BY ConstantsAssumption
  <2> QED BY <2>1, <2>2 DEF Init, PlacedInv, Deployments, NoPublish, ReadyPlaced, Ready
<1>2. PlacedInv /\ [Next]_vars => PlacedInv'
      BY PlacedStep
<1>3. PlacedInv => RunningWherePlaced
      BY DEF PlacedInv, ReadyPlaced, Ready, Placed, RunningWherePlaced
<1> QED BY <1>1, <1>2, <1>3, PTL DEF Spec

----------------------------------------------------------------------------
(* No node holds the containers of two tasks.                              *)

\* Users only publish, and agents answer.
HandsOff == Ops \cap (Actions \cup {"fail"}) = {}

NobodyActs == \A t \in Tasks : act[t].op = "none" /\ act[t].mid = NoNode

\* A request goes on deploying a task that stays published, and no container of the
\* nodes to come exists.
Awaits(p) ==
    LET t == pub[p].task
    IN  /\ status[t] = "published" /\ pub[p].pc \in {"up", "ps"}
        /\ \A n \in Nodes : n \in pub[p].todo \/ (pub[p].pc = "up" /\ n = pub[p].at) =>
                               ctr[t][n] = "none"
Awaited == \A p \in Publishers : pub[p].task \in Tasks => Awaits(p)

\* Containers are those of the rows, run and exit, and the status stopped is not ahead
\* of them.
ExitIn(e) == \E i \in DOMAIN e : e[i] = "exited"
ContainersOfRows ==
    \A t \in Tasks, n \in Nodes :
       /\ ctr[t][n] # "none" => n \in nodesOf[t] /\ status[t] # "unused"
       /\ ctr[t][n] # "paused"
       /\ status[t] = "stopped" => ctr[t][n] # "running"

\* Whatever calls a container exited is right, and stays right.
ExitsAreReal ==
    /\ \A t \in Tasks, n \in Nodes :
          ExitIn(events[t][n]) \/ cst[t][n] = "exited" => ctr[t][n] = "exited"
    /\ mon.task \in Tasks =>
          \A n \in Nodes : mon.seen[n] = "exited" => ctr[mon.task][n] = "exited"

SteadyInv == CalmInv /\ NobodyActs /\ Awaited /\ ContainersOfRows /\ ExitsAreReal

LEMMA ExitAppended ==
    ASSUME NEW e \in Seq({"running", "paused", "exited"}), NEW x, ExitIn(Append(e, x))
    PROVE  ExitIn(e) \/ x = "exited"
<1>1. PICK i \in DOMAIN Append(e, x) : Append(e, x)[i] = "exited"
      BY DEF ExitIn
<1>2. i \in 1..(Len(e) + 1) /\ Len(e) \in Nat
      BY <1>1
<1>3. CASE i = Len(e) + 1 BY <1>1, <1>3
<1>4. CASE i \in 1..Len(e)
  <2>1. e[i] = "exited" /\ i \in DOMAIN e
        BY <1>1, <1>4
  <2> QED BY <2>1 DEF ExitIn
<1> QED BY <1>2, <1>3, <1>4

LEMMA ExitTaken ==
    ASSUME NEW e \in Seq({"running", "paused", "exited"}), e # <<>>
    PROVE  /\ Head(e) = "exited" => ExitIn(e)
           /\ ExitIn(Tail(e)) => ExitIn(e)
<1>1. Len(e) \in Nat /\ Len(e) # 0 /\ DOMAIN e = 1..Len(e)
      OBVIOUS
<1>2. Head(e) = e[1] /\ 1 \in DOMAIN e
      BY <1>1
<1>3. ASSUME ExitIn(Tail(e)) PROVE ExitIn(e)
  <2>1. PICK i \in DOMAIN Tail(e) : Tail(e)[i] = "exited"
        BY <1>3 DEF ExitIn
  <2>2. i + 1 \in DOMAIN e /\ e[i + 1] = "exited"
        BY <1>1, <2>1
  <2> QED BY <2>2 DEF ExitIn
<1> QED BY <1>2, <1>3 DEF ExitIn

\* A container that starts or exits.
LEMMA BecomesReal ==
    ASSUME ContainersOK, NEW t \in Tasks, NEW n \in Nodes, NEW s \in {"running", "exited"},
           Becomes(t, n, s)
    PROVE  /\ ctr'[t][n] = s
           /\ \A u \in Tasks, m \in Nodes : u # t \/ m # n => ctr'[u][m] = ctr[u][m]
           /\ \A u \in Tasks, m \in Nodes :
                 ExitIn(events'[u][m]) => \/ ExitIn(events[u][m])
                                          \/ u = t /\ m = n /\ s = "exited"
<1>1. /\ ctr'[t][n] = s
      /\ \A u \in Tasks, m \in Nodes : u # t \/ m # n => ctr'[u][m] = ctr[u][m]
      BY DEF Becomes, ContainersOK
<1>2. UNCHANGED events \/ events' = [events EXCEPT ![t][n] = Append(events[t][n], s)]
      BY DEF Becomes
<1>3. events[t][n] \in Seq({"running", "paused", "exited"})
      BY DEF ContainersOK
<1>4. ASSUME NEW u \in Tasks, NEW m \in Nodes, ExitIn(events'[u][m])
      PROVE  ExitIn(events[u][m]) \/ (u = t /\ m = n /\ s = "exited")
  <2>1. CASE events'[u][m] = events[u][m]
        BY <1>4, <2>1
  <2>2. CASE u = t /\ m = n /\ events'[t][n] = Append(events[t][n], s)
        BY <1>3, <1>4, <2>2, ExitAppended
  <2> HIDE DEF ExitIn
  <2> QED BY <1>2, <2>1, <2>2 DEF ContainersOK
<1> QED BY <1>1, <1>4

\* A container starts when its task is published and its row is there, and then at most
\* exits; no other step disturbs the invariant.
LEMMA SteadyKept ==
    ASSUME SteadyInv, CalmInv', NobodyActs', Awaited',
           \A t \in Tasks, n \in Nodes :
              \/ ctr'[t][n] = ctr[t][n]
              \/ /\ ctr[t][n] = "none" /\ ctr'[t][n] = "running"
                 /\ status'[t] = "published" /\ n \in nodesOf'[t]
              \/ ctr[t][n] = "running" /\ ctr'[t][n] = "exited",
           \A t \in Tasks : status[t] # "unused" =>
                               nodesOf'[t] = nodesOf[t] /\ status'[t] # "unused",
           \A t \in Tasks, n \in Nodes :
              /\ ExitIn(events'[t][n]) => ExitIn(events[t][n]) \/ ctr'[t][n] = "exited"
              /\ cst'[t][n] = "exited" => cst[t][n] = "exited" \/ ctr'[t][n] = "exited"
              /\ status'[t] = "stopped" => status[t] = "stopped" \/ ctr'[t][n] # "running",
           \A n \in Nodes :
              mon'.task \in Tasks /\ mon'.seen[n] = "exited" =>
                 \/ mon'.task = mon.task /\ mon.seen[n] = "exited"
                 \/ ctr'[mon'.task][n] = "exited"
    PROVE  SteadyInv'
<1>1. ContainersOfRows'
      BY DEF SteadyInv, ContainersOfRows
<1>2. \A t \in Tasks, n \in Nodes : ctr[t][n] = "exited" => ctr'[t][n] = "exited"
      BY DEF SteadyInv
<1>3. ASSUME NEW t \in Tasks, NEW n \in Nodes
      PROVE  ExitIn(events'[t][n]) \/ cst'[t][n] = "exited" => ctr'[t][n] = "exited"
      BY <1>2 DEF SteadyInv, ExitsAreReal
<1>4. ASSUME mon'.task \in Tasks, NEW n \in Nodes, mon'.seen[n] = "exited"
      PROVE  ctr'[mon'.task][n] = "exited"
      BY <1>2, <1>4 DEF SteadyInv, ExitsAreReal
<1>5. ExitsAreReal'
      BY <1>3, <1>4 DEF ExitsAreReal
<1> QED BY <1>1, <1>5 DEF SteadyInv

\* Requests that stay as they are, or end.
LEMMA AwaitedKept ==
    ASSUME Awaited,
           \A p \in Publishers : pub'[p] = pub[p] \/ pub'[p].task \notin Tasks,
           \A p \in Publishers : pub[p].task \in Tasks =>
              /\ status'[pub[p].task] = status[pub[p].task]
              /\ \A n \in Nodes : ctr[pub[p].task][n] = "none" => ctr'[pub[p].task][n] = "none"
    PROVE  Awaited'
<1> SUFFICES ASSUME NEW p \in Publishers, pub'[p].task \in Tasks
             PROVE  Awaits(p)'
    BY DEF Awaited
<1>1. pub'[p] = pub[p] /\ Awaits(p)
      BY DEF Awaited
<1> QED BY <1>1 DEF Awaits

\* A step of a request p on its task t.
LEMMA AwaitedRequest ==
    ASSUME Awaited, NEW p \in Publishers, NEW t \in Tasks,
           \A q \in Publishers \ {p} : pub'[q] = pub[q] /\ pub[q].task # t,
           \A u \in Tasks \ {t} : status'[u] = status[u] /\ ctr'[u] = ctr[u],
           pub'[p].task \in Tasks => Awaits(p)'
    PROVE  Awaited'
<1>1. ASSUME NEW q \in Publishers, pub'[q].task \in Tasks PROVE Awaits(q)'
  <2>1. CASE q = p BY <1>1, <2>1
  <2>2. CASE q # p
    <3>1. Awaits(q) /\ pub'[q] = pub[q] /\ pub[q].task # t
          BY <1>1, <2>2 DEF Awaited
    <3> QED BY <1>1, <3>1 DEF Awaits
  <2> QED BY <2>1, <2>2
<1> QED BY <1>1 DEF Awaited

\* The steps that are left.
LEMMA SteadyNext ==
    ASSUME SteadyInv, HandsOff, [Next]_vars
    PROVE  /\ act' = act \/ Crash
           /\ \/ UNCHANGED <<rowVars, nodeVars, pub, act, mon, hc>>
              \/ \E p \in Publishers :
                    \/ \E N \in SUBSET Nodes, h \in Nodes : Publish(p, N, h)
                    \/ PublishRefused(p) \/ PublishReserve(p) \/ PublishUp(p) \/ PublishPs(p)
              \/ \E t \in Tasks : HealthCheck(t)
              \/ MonitorStep
              \/ \E t \in Tasks, n \in Nodes : DockerEvent(t, n) \/ ContainerExits(t, n)
              \/ Crash
<1>1. Undisturbed /\ CalmInv
      BY DEF HandsOff, Undisturbed, Actions, SteadyInv
<1>2. ASSUME NEW t \in Tasks
      PROVE  /\ \A op \in {"stop", "restart"} : ~ActStart(t, op)
             /\ \A n \in Nodes : ~ActCall(t, n)
             /\ ~ActRestarted(t) /\ ~ActEnd(t)
      BY DEF HandsOff, Actions, ActStart, ActCall, ActRestarted, ActEnd, Called, SteadyInv,
             NobodyActs, CalmInv, TypeInv, Idle
<1>3. ASSUME NEW p \in Publishers PROVE ~PublishUndo(p)
  <2>1. pub[p].pc # "undo"
        BY ConstantsAssumption
           DEF SteadyInv, Awaited, Awaits, CalmInv, CalmRequests, Waiting
  <2> QED BY <2>1 DEF PublishUndo
<1>4. \/ UNCHANGED <<rowVars, nodeVars, pub, act, mon, hc>>
      \/ \E p \in Publishers :
            \/ \E N \in SUBSET Nodes, h \in Nodes : Publish(p, N, h)
            \/ PublishRefused(p) \/ PublishReserve(p) \/ PublishUp(p) \/ PublishPs(p)
      \/ \E t \in Tasks : HealthCheck(t)
      \/ MonitorStep
      \/ \E t \in Tasks, n \in Nodes : DockerEvent(t, n) \/ ContainerExits(t, n)
      \/ Crash
      BY <1>1, <1>2, <1>3, CalmNext
<1>5. act' = act \/ Crash
      BY <1>4 DEF Publish, PublishRefused, PublishReserve, PublishUp, PublishPs, HealthCheck,
                  MonitorStep, ProbeStart, ProbeNode, ProbeEnd, DockerEvent, ContainerExits
<1> QED BY <1>4, <1>5

LEMMA SteadyRequest ==
    ASSUME SteadyInv, CalmInv', NobodyActs', NEW p \in Publishers,
           \/ \E N \in SUBSET Nodes, h \in Nodes : Publish(p, N, h)
           \/ PublishRefused(p) \/ PublishReserve(p) \/ PublishUp(p) \/ PublishPs(p)
    PROVE  SteadyInv'
<1>0. /\ CalmInv /\ TypeInv /\ NoTask \notin Tasks
      /\ status \in [Tasks -> Status] /\ nodesOf \in [Tasks -> SUBSET Nodes]
      /\ ctr \in [Tasks -> [Nodes -> ContainerState]]
      /\ pub \in [Publishers -> PublishRecord]
      /\ cst \in [Tasks -> [Nodes -> ContainerState]]
      BY ConstantsAssumption DEF SteadyInv, CalmInv, TypeInv, TypeOK, RowsOK, ContainersOK,
                                 PublishersOK
<1>1. mon' = mon
      BY DEF Publish, PublishRefused, PublishReserve, PublishUp, PublishPs
<1>2. NoPublish.task \notin Tasks
      BY <1>0 DEF NoPublish
<1>3. CASE (\E N \in SUBSET Nodes, h \in Nodes : Publish(p, N, h)) \/ PublishRefused(p)
  <2>1. PICK r : pub' = [pub EXCEPT ![p] = r] /\ r.task \notin Tasks
    <3>1. ASSUME NEW N \in SUBSET Nodes, NEW h \in Nodes, Publish(p, N, h)
          PROVE  \E r : pub' = [pub EXCEPT ![p] = r] /\ r.task \notin Tasks
      <4> DEFINE r == [NoPublish EXCEPT !.pc = "prepare", !.nodes = N, !.head = h]
      <4>1. pub' = [pub EXCEPT ![p] = r]
            BY <3>1 DEF Publish
      <4>2. r.task \notin Tasks
            BY <1>0 DEF NoPublish
      <4> HIDE DEF r
      <4> QED BY <4>1, <4>2
    <3>2. PublishRefused(p) => pub' = [pub EXCEPT ![p] = NoPublish]
          BY DEF PublishRefused
    <3> QED BY <1>2, <1>3, <3>1, <3>2
  <2>2. UNCHANGED <<rowVars, nodeVars>>
        BY <1>3 DEF Publish, PublishRefused
  <2>3. \A q \in Publishers : pub'[q] = pub[q] \/ pub'[q].task \notin Tasks
        BY <1>0, <2>1
  <2>4. Awaited'
        BY <2>2, <2>3, AwaitedKept DEF SteadyInv
  <2> QED BY <1>1, <2>2, <2>4, SteadyKept
<1>4. CASE PublishReserve(p)
  <2>1. PICK t \in Tasks, n \in pub[p].nodes : \E q :
           /\ status[t] = "unused" /\ status' = [status EXCEPT ![t] = "published"]
           /\ nodesOf' = [nodesOf EXCEPT ![t] = pub[p].nodes]
           /\ head' = [head EXCEPT ![t] = pub[p].head]
           /\ pub' = [pub EXCEPT ![p] = q]
           /\ q.pc = "up" /\ q.task = t /\ ~q.failed /\ q.at = n
           /\ q.todo = pub[p].nodes \ {n}
           /\ n = pub[p].head => pub[p].nodes = {n}
        BY <1>0, <1>4, InsertCalm
  <2>2. PICK q :
           /\ status[t] = "unused" /\ status' = [status EXCEPT ![t] = "published"]
           /\ nodesOf' = [nodesOf EXCEPT ![t] = pub[p].nodes]
           /\ pub' = [pub EXCEPT ![p] = q]
           /\ q.pc = "up" /\ q.task = t
        BY <2>1
  <2>3. UNCHANGED <<nodeVars, cst>>
        BY <1>4 DEF PublishReserve
  <2>4. \A m \in Nodes : ctr[t][m] = "none"
        BY <2>2 DEF SteadyInv, ContainersOfRows
  <2>5. /\ status'[t] = "published"
        /\ \A u \in Tasks \ {t} : status'[u] = status[u] /\ nodesOf'[u] = nodesOf[u]
        BY <1>0, <2>2
  <2>6. pub'[p] = q /\ \A o \in Publishers \ {p} : pub'[o] = pub[o]
        BY <1>0, <2>2
  <2>7. \A o \in Publishers : pub[o].task # t
        BY <1>0, <2>2 DEF TypeInv, Fresh
  <2>8. Awaits(p)'
        BY <2>2, <2>3, <2>4, <2>5, <2>6 DEF Awaits
  <2>9. Awaited'
        BY <2>3, <2>5, <2>6, <2>7, <2>8, AwaitedRequest DEF SteadyInv
  <2> QED BY <1>1, <2>2, <2>3, <2>5, <2>9, SteadyKept
<1>5. ASSUME pub[p].pc \in {"up", "ps"}
      PROVE  /\ pub[p].task \in Tasks /\ Awaits(p) /\ pub[p].at \in Nodes
             /\ pub[p].at \in nodesOf[pub[p].task]
             /\ \A q \in Publishers \ {p} : pub[q].task # pub[p].task
  <2>1. pub[p].task \in Tasks
        BY <1>0, <1>5 DEF CalmInv, CalmRequests, Waiting
  <2> QED BY <1>0, <1>5, <2>1 DEF SteadyInv, Awaited, CalmInv, CalmRequests, TypeInv, TypeOK,
                                  PublishersOK
<1>6. CASE PublishUp(p)
  <2>0. pub[p].pc = "up" /\ UNCHANGED rowVars
        BY <1>6 DEF PublishUp
  <2>1. PICK t \in Tasks, n \in Nodes :
          /\ t = pub[p].task /\ n = pub[p].at /\ n \in nodesOf[t] /\ Awaits(p)
          /\ \A q \in Publishers \ {p} : pub[q].task # t
        BY <1>5, <2>0
  <2>2. status[t] = "published" /\ ctr[t][n] = "none"
        BY <2>0, <2>1 DEF Awaits
  <2> DEFINE r == [pub[p] EXCEPT !.pc = "ps", !.started = @ \cup {n}]
  <2>3. pub' = [pub EXCEPT ![p] = r]
        BY <1>6, <2>1, <2>2 DEF PublishUp
  <2>4. r.task = t /\ r.pc = "ps" /\ r.todo = pub[p].todo
        BY <1>0, <2>1 DEF PublishRecord
  <2> HIDE DEF r
  <2>5. Becomes(t, n, "running")
        BY <1>6, <2>1, <2>2 DEF PublishUp, Up
  <2>6. /\ ctr'[t][n] = "running"
        /\ \A u \in Tasks, m \in Nodes : u # t \/ m # n => ctr'[u][m] = ctr[u][m]
        /\ \A u \in Tasks, m \in Nodes : ExitIn(events'[u][m]) => ExitIn(events[u][m])
        BY <1>0, <2>5, BecomesReal DEF TypeInv, TypeOK
  <2>7. pub'[p] = r /\ \A o \in Publishers \ {p} : pub'[o] = pub[o]
        BY <1>0, <2>3
  <2>8. Awaits(p)'
    <3>1. n \notin pub[p].todo
          BY <1>0, <2>0, <2>1 DEF CalmInv, CalmRequests, Waiting, Deploying
    <3> QED BY <2>0, <2>1, <2>2, <2>4, <2>6, <2>7, <3>1 DEF Awaits
  <2>9. \A u \in Tasks \ {t} : ctr'[u] = ctr[u]
        BY <1>0, <2>5 DEF Becomes
  <2>10. Awaited'
        BY <2>0, <2>1, <2>7, <2>8, <2>9, AwaitedRequest DEF SteadyInv
  <2> QED BY <1>1, <2>0, <2>1, <2>2, <2>6, <2>10, SteadyKept
<1>7. CASE PublishPs(p)
  <2>0. pub[p].pc = "ps" /\ UNCHANGED <<nodesOf, nodeVars>> /\ Turned(p, FALSE)
        BY <1>7 DEF PublishPs
  <2>1. PICK t \in Tasks, n \in Nodes :
          /\ t = pub[p].task /\ n = pub[p].at /\ Awaits(p)
          /\ \A q \in Publishers \ {p} : pub[q].task # t
        BY <1>5, <2>0
  <2>2. \A u \in Tasks, m \in Nodes : cst'[u][m] = "exited" =>
           cst[u][m] = "exited" \/ ctr'[u][m] = "exited"
        BY <1>0, <1>7, <2>1 DEF PublishPs
  <2>3. \/ /\ pub' = [pub EXCEPT ![p] = NoPublish]
           /\ \A u \in Tasks : \/ status'[u] = status[u]
                               \/ u = t /\ status[u] = "published" /\ status'[u] = "running"
        \/ /\ status' = status
           /\ \E m \in pub[p].todo : \E q :
                 pub' = [pub EXCEPT ![p] = q] /\ NextUp(q, pub[p], m)
        BY <1>0, <2>0, <2>1, TurnedCalm
  <2>4. \A u \in Tasks \ {t} : status'[u] = status[u] /\ ctr'[u] = ctr[u]
        BY <2>0, <2>3
  <2>5. \A u \in Tasks : /\ status[u] # "unused" => status'[u] # "unused"
                         /\ status'[u] = "stopped" => status[u] = "stopped"
        BY <2>3
  <2>6. Awaited'
    <3>1. CASE pub' = [pub EXCEPT ![p] = NoPublish]
      <4>1. pub'[p].task \notin Tasks /\ \A o \in Publishers \ {p} : pub'[o] = pub[o]
            BY <1>0, <1>2, <3>1
      <4> QED BY <2>1, <2>4, <4>1, AwaitedRequest DEF SteadyInv
    <3>2. CASE /\ status' = status
               /\ \E m \in pub[p].todo : \E q :
                     pub' = [pub EXCEPT ![p] = q] /\ NextUp(q, pub[p], m)
      <4>1. PICK m \in pub[p].todo : \E q :
               pub' = [pub EXCEPT ![p] = q] /\ NextUp(q, pub[p], m)
            BY <3>2
      <4>2. PICK q : pub' = [pub EXCEPT ![p] = q] /\ NextUp(q, pub[p], m)
            BY <4>1
      <4>3. pub'[p] = q /\ \A o \in Publishers \ {p} : pub'[o] = pub[o]
            BY <1>0, <4>2
      <4>4. /\ pub'[p].task = t /\ pub'[p].pc = "up" /\ pub'[p].at = m
            /\ pub'[p].todo = pub[p].todo \ {m}
            BY <2>1, <4>2, <4>3 DEF NextUp
      <4>5. Awaits(p)'
            BY <2>0, <2>1, <3>2, <4>4 DEF Awaits
      <4> QED BY <2>1, <2>4, <4>3, <4>5, AwaitedRequest DEF SteadyInv
    <3> QED BY <2>3, <3>1, <3>2
  <2> QED BY <1>1, <2>0, <2>2, <2>5, <2>6, SteadyKept
<1> QED BY <1>3, <1>4, <1>6, <1>7

\* All containers of a task that is found to have ended exited.
LEMMA EndedExited ==
    ASSUME SteadyInv, NEW t \in Tasks, NEW seen, Ended(t, seen),
           \A n \in Nodes : seen[n] = "exited" => ctr[t][n] = "exited"
    PROVE  \A n \in Nodes : ctr[t][n] # "running"
BY DEF Ended, SteadyInv, ContainersOfRows

LEMMA SteadyStep ==
    ASSUME SteadyInv, HandsOff, [Next]_vars
    PROVE  SteadyInv'
<1>0. /\ CalmInv /\ TypeInv /\ NoTask \notin Tasks
      /\ status \in [Tasks -> Status]
      /\ ctr \in [Tasks -> [Nodes -> ContainerState]]
      /\ cst \in [Tasks -> [Nodes -> ContainerState]]
      /\ pub \in [Publishers -> PublishRecord]
      BY ConstantsAssumption DEF SteadyInv, CalmInv, TypeInv, TypeOK, RowsOK, ContainersOK,
                                 PublishersOK
<1>1. CalmInv'
  <2>1. Undisturbed
        BY DEF HandsOff, Undisturbed, Actions
  <2> QED BY <1>0, <2>1, CalmStep
<1>2. NobodyActs'
  <2>1. act' = act \/ act' = [t \in Tasks |-> NoAction]
        BY SteadyNext DEF Crash
  <2> QED BY <2>1 DEF SteadyInv, NobodyActs, NoAction
<1>3. ASSUME NEW p \in Publishers, pub[p].task \in Tasks
      PROVE  status[pub[p].task] = "published" /\ pub[p].task \notin hc
      BY <1>0, <1>3 DEF SteadyInv, Awaited, Awaits, CalmInv, CalmRequests, Waiting
<1>4. CASE UNCHANGED <<rowVars, nodeVars, pub, act, mon, hc>>
  <2>1. Awaited'
        BY <1>4, AwaitedKept DEF SteadyInv
  <2> QED BY <1>1, <1>2, <1>4, <2>1, SteadyKept
<1>5. ASSUME NEW t \in Tasks, HealthCheck(t) PROVE SteadyInv'
  <2>1. /\ UNCHANGED <<nodesOf, cst, nodeVars, pub, mon>> /\ t \in hc
        /\ \A u \in Tasks : status'[u] = status[u] \/ (u = t /\ status'[u] = "running")
        BY <1>0, <1>5 DEF HealthCheck
  <2>2. Awaited'
        BY <1>3, <2>1, AwaitedKept DEF SteadyInv
  <2> QED BY <1>1, <1>2, <2>1, <2>2, SteadyKept
<1>6. ASSUME NEW t \in Tasks, status[t] = "running",
             status' = [status EXCEPT ![t] = "stopped"]
      PROVE  /\ \A u \in Tasks : /\ status[u] # "unused" => status'[u] # "unused"
                                /\ status'[u] = "stopped" => status[u] = "stopped" \/ u = t
             /\ \A p \in Publishers : pub[p].task \in Tasks =>
                   status'[pub[p].task] = status[pub[p].task]
      BY <1>0, <1>3, <1>6
<1>7. CASE MonitorStep
  <2>0. UNCHANGED <<nodesOf, nodeVars, pub>> /\ NoRound.task \notin Tasks /\ mon \in RoundRecord
        BY <1>0, <1>7 DEF MonitorStep, ProbeStart, ProbeNode, ProbeEnd, NoRound, TypeInv, TypeOK
  <2>1. CASE (\E t \in Tasks : ProbeStart(t)) \/ (\E n \in Nodes : ProbeNode(n))
    <3>1. UNCHANGED <<status, cst>>
          BY <2>1 DEF ProbeStart, ProbeNode
    <3>2. ASSUME NEW n \in Nodes, mon'.task \in Tasks, mon'.seen[n] = "exited"
          PROVE  \/ mon'.task = mon.task /\ mon.seen[n] = "exited"
                 \/ ctr'[mon'.task][n] = "exited"
      <4>1. ASSUME NEW t \in Tasks, ProbeStart(t) PROVE FALSE
        <5> DEFINE r == [NoRound EXCEPT !.task = t, !.was = status[t] = "running",
                                        !.todo = recorded[t]]
        <5>1. mon' = r
              BY <4>1 DEF ProbeStart
        <5>2. r.seen[n] = "none"
              BY DEF NoRound
        <5> HIDE DEF r
        <5> QED BY <3>2, <5>1, <5>2
      <4>2. ASSUME NEW m \in Nodes, ProbeNode(m)
            PROVE  \/ mon'.task = mon.task /\ mon.seen[n] = "exited"
                   \/ ctr'[mon'.task][n] = "exited"
        <5>1. mon'.task = mon.task /\ mon'.seen[n] \in {mon.seen[n], ctr[mon.task][n], "none"}
              BY <2>0, <4>2 DEF ProbeNode, RoundRecord
        <5> QED BY <2>0, <3>2, <5>1
      <4> QED BY <2>1, <4>1, <4>2
    <3>3. Awaited'
          BY <2>0, <3>1, AwaitedKept DEF SteadyInv
    <3> QED BY <1>1, <1>2, <2>0, <3>1, <3>2, <3>3, SteadyKept
  <2>2. CASE ProbeEnd
    <3>0. mon'.task \notin Tasks
          BY <2>0, <2>2 DEF ProbeEnd
    <3>1. mon.task \in Tasks
          BY <2>0, <2>2 DEF ProbeEnd, RoundRecord
    <3>2. \A n \in Nodes : mon.seen[n] = "exited" => ctr[mon.task][n] = "exited"
          BY <3>1 DEF SteadyInv, ExitsAreReal
    <3>3. \A u \in Tasks, n \in Nodes : cst'[u][n] = "exited" =>
             cst[u][n] = "exited" \/ ctr'[u][n] = "exited"
          BY <1>0, <2>0, <2>2, <3>1, <3>2 DEF ProbeEnd
    <3>4. CASE UNCHANGED status
      <4>1. Awaited'
            BY <2>0, <3>4, AwaitedKept DEF SteadyInv
      <4> QED BY <1>1, <1>2, <2>0, <3>0, <3>3, <3>4, <4>1, SteadyKept
    <3>5. CASE ~UNCHANGED status
      <4>1. /\ status[mon.task] = "running" /\ status' = [status EXCEPT ![mon.task] = "stopped"]
            /\ Ended(mon.task, mon.seen)
            BY <2>2, <3>5 DEF ProbeEnd
      <4>2. \A n \in Nodes : ctr[mon.task][n] # "running"
            BY <3>1, <3>2, <4>1, EndedExited
      <4>3. Awaited'
            BY <1>6, <2>0, <3>1, <4>1, AwaitedKept DEF SteadyInv
      <4> QED BY <1>1, <1>2, <1>6, <2>0, <3>0, <3>1, <3>3, <4>1, <4>2, <4>3, SteadyKept
    <3> QED BY <3>4, <3>5
  <2> QED BY <1>7, <2>1, <2>2 DEF MonitorStep
<1>8. ASSUME NEW t \in Tasks, NEW n \in Nodes, DockerEvent(t, n) PROVE SteadyInv'
  <2>0. UNCHANGED <<nodesOf, ctr, pub, mon>> /\ events[t][n] # <<>>
        BY <1>8 DEF DockerEvent
  <2>1. PICK state : /\ state = Head(events[t][n])
                     /\ events' = [events EXCEPT ![t][n] = Tail(events[t][n])]
        BY <1>8 DEF DockerEvent
  <2>2. /\ events[t][n] \in Seq({"running", "paused", "exited"})
        /\ events \in [Tasks -> [Nodes -> Seq({"running", "paused", "exited"})]]
        BY <1>0 DEF TypeInv, TypeOK, ContainersOK
  <2>3. /\ ExitIn(Tail(events[t][n])) => ExitIn(events[t][n])
        /\ state = "exited" => ctr[t][n] = "exited"
    <3>1. ExitIn(events[t][n]) => ctr[t][n] = "exited"
          BY DEF SteadyInv, ExitsAreReal
    <3> QED BY <2>0, <2>1, <2>2, <3>1, ExitTaken
  <2>4. \A u \in Tasks, m \in Nodes : ExitIn(events'[u][m]) => ExitIn(events[u][m])
    <3>1. \A u \in Tasks, m \in Nodes :
             \/ events'[u][m] = events[u][m]
             \/ u = t /\ m = n /\ events'[u][m] = Tail(events[t][n])
          BY <2>1, <2>2
    <3> QED BY <2>3, <3>1
  <2> DEFINE now == [cst[t] EXCEPT ![n] = state]
  <2>5. \/ UNCHANGED <<cst, status>>
        \/ /\ cst' = [cst EXCEPT ![t] = now]
           /\ \/ UNCHANGED status
              \/ /\ status[t] = "running" /\ Ended(t, now)
                 /\ status' = [status EXCEPT ![t] = "stopped"]
        BY <1>8, <2>1 DEF DockerEvent
  <2>6. \A m \in Nodes : now[m] = "exited" => ctr[t][m] = "exited"
        BY <1>0, <2>3 DEF SteadyInv, ExitsAreReal
  <2> HIDE DEF now
  <2>7. \A u \in Tasks, m \in Nodes : cst'[u][m] = "exited" =>
           cst[u][m] = "exited" \/ ctr'[u][m] = "exited"
        BY <1>0, <2>0, <2>5, <2>6
  <2>8. CASE UNCHANGED status
    <3>1. Awaited'
          BY <2>0, <2>8, AwaitedKept DEF SteadyInv
    <3> QED BY <1>1, <1>2, <2>0, <2>4, <2>7, <2>8, <3>1, SteadyKept
  <2>9. CASE ~UNCHANGED status
    <3>1. /\ status[t] = "running" /\ Ended(t, now)
          /\ status' = [status EXCEPT ![t] = "stopped"]
          BY <2>5, <2>9
    <3>2. \A m \in Nodes : ctr[t][m] # "running"
          BY <2>6, <3>1, EndedExited
    <3>3. Awaited'
          BY <1>6, <2>0, <3>1, AwaitedKept DEF SteadyInv
    <3> QED BY <1>1, <1>2, <1>6, <2>0, <2>4, <2>7, <3>1, <3>2, <3>3, SteadyKept
  <2> QED BY <2>8, <2>9
<1>9. ASSUME NEW t \in Tasks, NEW n \in Nodes, ContainerExits(t, n) PROVE SteadyInv'
  <2>1. /\ UNCHANGED <<rowVars, pub, mon>> /\ ctr[t][n] = "running"
        /\ Becomes(t, n, "exited")
        BY <1>9 DEF ContainerExits
  <2>2. /\ ctr'[t][n] = "exited"
        /\ \A u \in Tasks, m \in Nodes : u # t \/ m # n => ctr'[u][m] = ctr[u][m]
        /\ \A u \in Tasks, m \in Nodes :
              ExitIn(events'[u][m]) => ExitIn(events[u][m]) \/ (u = t /\ m = n)
        BY <1>0, <2>1, BecomesReal DEF TypeInv, TypeOK
  <2>3. \A u \in Tasks, m \in Nodes : ctr[u][m] = "none" => ctr'[u][m] = "none"
        BY <2>1, <2>2
  <2>4. Awaited'
        BY <2>1, <2>3, AwaitedKept DEF SteadyInv
  <2> QED BY <1>1, <1>2, <2>1, <2>2, <2>4, SteadyKept
<1>10. CASE Crash
  <2>1. /\ pub' = [p \in Publishers |-> NoPublish] /\ UNCHANGED rowVars
        /\ mon' = NoRound /\ events' = [t \in Tasks |-> [n \in Nodes |-> <<>>]]
        BY <1>10 DEF Crash
  <2>2. mon'.task \notin Tasks /\ \A p \in Publishers : pub'[p].task \notin Tasks
        BY <1>0, <2>1 DEF NoRound, NoPublish
  <2>3. Awaited'
        BY <2>2 DEF Awaited
  <2>4. \A t \in Tasks, n \in Nodes : ~ExitIn(events'[t][n])
        BY <2>1 DEF ExitIn
  <2>5. ASSUME NEW t \in Tasks, NEW n \in Nodes, ctr'[t][n] # ctr[t][n]
        PROVE  /\ ctr[t][n] = "none" /\ ctr'[t][n] = "running"
               /\ status'[t] = "published" /\ n \in nodesOf'[t]
    <3>1. PICK late \in SUBSET {p \in Publishers : pub[p].pc = "up"} :
             ctr' = [u \in Tasks |-> [m \in Nodes |->
                       IF act[u].mid = m THEN "running"
                       ELSE IF \E p \in late : pub[p].task = u /\ pub[p].at = m
                       THEN Up(ctr[u][m]) ELSE ctr[u][m]]]
          BY <1>10 DEF Crash
    <3>2. act[t].mid # n
          BY ConstantsAssumption DEF SteadyInv, NobodyActs
    <3>3. PICK p \in late : pub[p].task = t /\ pub[p].at = n /\ ctr'[t][n] = Up(ctr[t][n])
          BY <2>5, <3>1, <3>2
    <3>4. p \in Publishers /\ pub[p].pc = "up"
          BY <3>1
    <3>5. Awaits(p) /\ n \in nodesOf[t]
          BY <1>0, <3>3, <3>4 DEF SteadyInv, Awaited, TypeInv, TypeOK, PublishersOK
    <3>6. ctr[t][n] = "none" /\ status[t] = "published"
          BY <3>3, <3>4, <3>5 DEF Awaits
    <3> QED BY <2>1, <3>3, <3>5, <3>6 DEF Up
  <2> QED BY <1>1, <1>2, <2>1, <2>2, <2>3, <2>4, <2>5, SteadyKept
<1> QED BY <1>0, <1>1, <1>2, <1>4, <1>5, <1>7, <1>8, <1>9, <1>10, SteadyNext, SteadyRequest

\* No node holds the running containers of two tasks, for any number of tasks, nodes and
\* publishing requests, if nobody acts on a task by hand and no call to an agent fails:
\* whatever containers do, whatever the monitor read before and however late a docker
\* event is, a task is called stopped, and its nodes are given away, only when its
\* containers have exited; and no deployment goes on behind a stopped task
\* (_check_task, _on_docker_event, create_task).
THEOREM OneTaskCorrect ==
    ASSUME HandsOff
    PROVE  Spec => []OneTaskPerNode
<1>1. Spec => []NodeExclusive
  <2>1. Ops \cap {"start", "pause", "resume"} = {}
        BY DEF HandsOff, Actions
  <2> QED BY <2>1, NodeExclusiveCorrect
<1>2. Init => SteadyInv
  <2> SUFFICES ASSUME Init PROVE SteadyInv
      OBVIOUS
  <2>1. CalmInv /\ NoTask \notin Tasks
        BY CalmInit, ConstantsAssumption
  <2>2. NobodyActs
        BY DEF Init, NobodyActs, NoAction
  <2>3. Awaited
        BY <2>1 DEF Init, Awaited, NoPublish
  <2>4. ContainersOfRows /\ ExitsAreReal
        BY <2>1 DEF Init, ContainersOfRows, ExitsAreReal, ExitIn, NoRound
  <2> QED BY <2>1, <2>2, <2>3, <2>4 DEF SteadyInv
<1>3. SteadyInv /\ [Next]_vars => SteadyInv'
      BY SteadyStep
<1>4. SteadyInv /\ NodeExclusive => OneTaskPerNode
  <2> SUFFICES ASSUME SteadyInv, NodeExclusive, NEW t \in Tasks, NEW u \in Tasks,
                      NEW n \in Nodes, ctr[t][n] \in {"running", "paused"},
                      ctr[u][n] \in {"running", "paused"}, t # u
               PROVE  FALSE
      BY DEF OneTaskPerNode
  <2>1. /\ status[t] \notin {"unused", "stopped"} /\ n \in nodesOf[t]
        /\ status[u] \notin {"unused", "stopped"} /\ n \in nodesOf[u]
        BY DEF SteadyInv, ContainersOfRows
  <2>2. status[t] \in Active /\ status[u] \in Active
        BY <2>1 DEF SteadyInv, CalmInv, CalmTasks, Active
  <2> QED BY <2>1, <2>2 DEF NodeExclusive
<1> QED BY <1>1, <1>2, <1>3, <1>4, PTL DEF Spec
=============================================================================
