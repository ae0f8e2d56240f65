---------------------- MODULE ModelDistributionProofs ----------------------
(***************************************************************************)
(* Theorems about ModelDistribution, for every choice of its constants.    *)
(***************************************************************************)
EXTENDS ModelDistribution, TLAPS

USE DEF rowVars

\* What TypeOK needs beside itself: roles of pending requests are disjoint, and a worker's
\* coroutine that has returned has a result.
ReqOK ==
    \A r \in Requests :
        req[r].pc = "size" => req[r].st # "unused" /\ req[r].head \in Nodes \ req[r].workers
DoneOK == \A m \in Monitors, n \in Nodes : mon[m].sub[n].pc = "done" => mon[m].sub[n].res # "none"

TypeInv == TypeOK /\ ReqOK /\ DoneOK

\* The record of a coroutine may become w.
Returned(w) == \A n \in Nodes : w.sub[n].pc = "done" => w.sub[n].res # "none"
Move(m, w) ==
    /\ w \in MonitorRecord /\ Returned(w)
    /\ w.pc = "free" \/ w.job = mon[m].job
    /\ mon' = [mon EXCEPT ![m] = w]

UsedStays == \A j \in Jobs : status[j] # "unused" => status'[j] # "unused"

----------------------------------------------------------------------------
(* The operators the actions are built from.                               *)

LEMMA Constants ==
    /\ Pending \in SyncEntry /\ NoSub \in SubRecord
    /\ FreeMonitor \in MonitorRecord /\ Returned(FreeMonitor) /\ FreeMonitor.pc = "free"
    /\ NoFetchJob \in FetchRecord /\ NoFetchJob.st = "none"
    /\ NoRequest \in RequestRecord /\ NoRequest.pc = "idle"
<1>1. Pending \in SyncEntry /\ NoSub \in SubRecord
      BY DEF Pending, NoSub, SyncEntry, SubRecord, FetchId
<1>2. [n \in Nodes |-> Pending] \in [Nodes -> SyncEntry] /\ [n \in Nodes |-> NoSub] \in [Nodes -> SubRecord]
      BY <1>1
<1>3. FreeMonitor \in MonitorRecord /\ FreeMonitor.pc = "free"
      BY <1>2 DEF FreeMonitor, MonitorRecord, Status
<1>4. Returned(FreeMonitor)
      BY DEF Returned, FreeMonitor, NoSub
<1>5. NoFetchJob \in FetchRecord /\ NoFetchJob.st = "none"
      BY DEF NoFetchJob, FetchRecord, Live
<1>6. NoRequest \in RequestRecord /\ NoRequest.pc = "idle"
      BY DEF NoRequest, RequestRecord
<1> QED BY <1>1, <1>3, <1>4, <1>5, <1>6

\* A coroutine that takes a step keeps the coroutines well-formed.
LEMMA MoveTyped ==
    ASSUME TypeInv, UsedStays, NEW m \in Monitors, mon[m].pc # "free",
           NEW w, Move(m, w)
    PROVE  MonitorsOK' /\ DoneOK'
<1>1. /\ mon' \in [Monitors -> MonitorRecord]
      /\ \A k \in Monitors : mon'[k] = IF k = m THEN w ELSE mon[k]
      BY DEF Move, TypeInv, TypeOK, MonitorsOK
<1>2. \A k \in Monitors : mon'[k].pc # "free" => mon'[k].job \in Jobs /\ status'[mon'[k].job] # "unused"
      BY <1>1 DEF Move, TypeInv, TypeOK, MonitorsOK, UsedStays
<1>3. DoneOK'
      BY <1>1 DEF Move, DoneOK, Returned, TypeInv
<1> QED BY <1>1, <1>2, <1>3 DEF MonitorsOK

LEMMA EndsMoves ==
    ASSUME TypeInv, NEW m \in Monitors, Ends(m)
    PROVE  Move(m, FreeMonitor)
BY Constants DEF Ends, Move

LEMMA GoesMoves ==
    ASSUME TypeInv, NEW m \in Monitors, NEW w \in MonitorRecord, Returned(w),
           w.job = mon[m].job, Goes(m, w)
    PROVE  \E v : Move(m, v)
<1>1. CASE Exists(mon[m].job)
  <2>1. Move(m, w)
        BY <1>1 DEF Goes, Move
  <2> QED BY <2>1
<1>2. CASE ~Exists(mon[m].job)
  <2>1. Move(m, FreeMonitor)
        BY <1>2, Constants DEF Goes, Move
  <2> QED BY <2>1
<1> QED BY <1>1, <1>2

\* A status that is written to a row in use.
LEMMA WriteTyped ==
    ASSUME RowsOK, NEW j \in Jobs, status[j] # "unused", NEW s \in Status \ {"unused"},
           \/ status' = [status EXCEPT ![j] = s]
           \/ UNCHANGED status,
           UNCHANGED <<head, workers, sync>>, phase' \in [Jobs -> Phases \cup {"none"}]
    PROVE  RowsOK' /\ UsedStays
<1>1. status' \in [Jobs -> Status]
      BY DEF RowsOK
<1>2. \A k \in Jobs : (status'[k] # "unused") = (status[k] # "unused")
      BY DEF RowsOK
<1> QED BY <1>1, <1>2 DEF RowsOK, UsedStays

\* The fields of a worker's coroutine.
LEMMA SubTyped ==
    ASSUME NEW w \in MonitorRecord, Returned(w), NEW n \in Nodes, NEW s \in SubRecord,
           s.pc = "done" => s.res # "none", NEW v, v = [w EXCEPT !.sub[n] = s]
    PROVE  v \in MonitorRecord /\ Returned(v) /\ v.job = w.job /\ v.pc = w.pc
<1>1. v.sub = [w.sub EXCEPT ![n] = s]
      BY DEF MonitorRecord
<1>2. v \in MonitorRecord /\ v.job = w.job /\ v.pc = w.pc
      BY DEF MonitorRecord
<1>3. Returned(v)
      BY <1>1 DEF Returned, MonitorRecord
<1> QED BY <1>2, <1>3

----------------------------------------------------------------------------
(* Type correctness: requests and the environment.                         *)

LEMMA InitTyped == Init => TypeInv
<1> SUFFICES ASSUME Init PROVE TypeInv
    OBVIOUS
<1>1. RowsOK
      BY Constants DEF Init, RowsOK, Status, Occupying
<1>2. AgentsOK
      BY Constants DEF Init, AgentsOK
<1>3. MonitorsOK /\ DoneOK
      BY Constants DEF Init, MonitorsOK, DoneOK, Returned
<1>4. req \in [Requests -> RequestRecord] /\ ReqOK
      BY Constants DEF Init, ReqOK
<1> QED BY <1>1, <1>2, <1>3, <1>4 DEF TypeInv, TypeOK

\* A coroutine for a job in use.
LEMMA SpawnTyped ==
    ASSUME TypeInv, NEW j \in Jobs, Spawn(j), status'[j] # "unused", UsedStays
    PROVE  MonitorsOK' /\ DoneOK'
<1> DEFINE w == [FreeMonitor EXCEPT !.job = j, !.pc = "begin"]
<1>1. w \in MonitorRecord /\ w.job = j /\ w.sub = FreeMonitor.sub
      BY Constants DEF MonitorRecord
<1>2. PICK m \in Monitors : mon' = [mon EXCEPT ![m] = w]
      BY DEF Spawn
<1>3. Returned(w)
      BY <1>1, Constants DEF Returned
<1> HIDE DEF w
<1>4. /\ mon' \in [Monitors -> MonitorRecord]
      /\ \A k \in Monitors : mon'[k] = IF k = m THEN w ELSE mon[k]
      BY <1>1, <1>2 DEF TypeInv, TypeOK, MonitorsOK
<1>5. MonitorsOK'
      BY <1>1, <1>4 DEF TypeInv, TypeOK, MonitorsOK, UsedStays
<1>6. DoneOK'
      BY <1>3, <1>4 DEF TypeInv, DoneOK, Returned
<1> QED BY <1>5, <1>6

LEMMA StartCheckTyped ==
    ASSUME TypeInv, NEW r \in Requests, NEW h \in Nodes, NEW W \in SUBSET Nodes,
           NEW s \in {"downloading", "sending"}, StartCheck(r, h, W, s)
    PROVE  TypeInv'
<1>1. [pc |-> "size", st |-> s, head |-> h, workers |-> W] \in RequestRecord
      BY DEF RequestRecord
<1>2. req' \in [Requests -> RequestRecord] /\ ReqOK'
      BY <1>1 DEF StartCheck, TypeInv, TypeOK, ReqOK
<1> QED BY <1>2 DEF StartCheck, TypeInv, TypeOK, RowsOK, AgentsOK, MonitorsOK, DoneOK

LEMMA StartInsertTyped ==
    ASSUME TypeInv, NEW r \in Requests, StartInsert(r)
    PROVE  TypeInv'
<1>1. PICK j \in Jobs : /\ status[j] = "unused" /\ Spawn(j)
                        /\ status' = [status EXCEPT ![j] = req[r].st]
                        /\ head' = [head EXCEPT ![j] = req[r].head]
                        /\ workers' = [workers EXCEPT ![j] = req[r].workers]
      BY DEF StartInsert
<1>2. /\ req[r] \in RequestRecord
      /\ req[r].st # "unused" /\ req[r].head \in Nodes \ req[r].workers
      BY DEF StartInsert, TypeInv, TypeOK, ReqOK
<1>3. RowsOK' /\ UsedStays /\ status'[j] # "unused"
      BY <1>1, <1>2
      DEF StartInsert, TypeInv, TypeOK, RowsOK, RequestRecord, Status, Occupying, Phases, UsedStays
<1>4. MonitorsOK' /\ DoneOK'
      BY <1>1, <1>3, SpawnTyped
<1>5. req' \in [Requests -> RequestRecord] /\ ReqOK'
      BY Constants DEF StartInsert, TypeInv, TypeOK, ReqOK
<1> QED BY <1>3, <1>4, <1>5 DEF StartInsert, TypeInv, TypeOK, AgentsOK

\* Pause, Cancel and Delete write the status only.
LEMMA StatusTyped ==
    ASSUME TypeInv, NEW j \in Jobs, Pause(j) \/ Cancel(j) \/ Delete(j)
    PROVE  TypeInv'
<1>1. RowsOK' /\ UsedStays
  <2>1. status[j] # "unused"
        BY DEF Pause, Cancel, Delete, Exists, Phases, Occupying
  <2>2. PICK s \in Status \ {"unused"} : status' = [status EXCEPT ![j] = s]
        BY DEF Pause, Cancel, Delete, Status, Occupying, Phases
  <2>3. phase' \in [Jobs -> Phases \cup {"none"}]
        BY DEF Pause, Cancel, Delete, TypeInv, TypeOK, RowsOK, Phases
  <2> QED BY <2>1, <2>2, <2>3, WriteTyped DEF Pause, Cancel, Delete, TypeInv, TypeOK
<1>2. MonitorsOK'
      BY <1>1 DEF Pause, Cancel, Delete, TypeInv, TypeOK, MonitorsOK, UsedStays
<1> QED BY <1>1, <1>2 DEF Pause, Cancel, Delete, TypeInv, TypeOK, AgentsOK, ReqOK, DoneOK

\* Resume and Retry start a coroutine.
LEMMA AgainTyped ==
    ASSUME TypeInv, NEW j \in Jobs, Resume(j) \/ Retry(j)
    PROVE  TypeInv'
<1>1. status[j] # "unused" /\ Spawn(j)
      BY DEF Resume, Retry
<1>2. phase' \in [Jobs -> Phases \cup {"none"}]
      BY DEF Resume, Retry, TypeInv, TypeOK, RowsOK
<1>3. PICK s \in Status \ {"unused"} : status' = [status EXCEPT ![j] = s]
  <2>1. CASE Resume(j)
    <3>1. phase[j] \in Phases \cup {"none"}
          BY DEF TypeInv, TypeOK, RowsOK
    <3> QED BY <2>1, <3>1 DEF Resume, Status, Occupying, Phases
  <2>2. CASE Retry(j)
        BY <2>2 DEF Retry, Status, Occupying, Phases
  <2> QED BY <2>1, <2>2
<1>4. RowsOK' /\ UsedStays
      BY <1>1, <1>2, <1>3, WriteTyped DEF Resume, Retry, TypeInv, TypeOK
<1>5. status'[j] # "unused"
      BY <1>3 DEF TypeInv, TypeOK, RowsOK
<1>6. MonitorsOK' /\ DoneOK'
      BY <1>1, <1>4, <1>5, SpawnTyped
<1> QED BY <1>4, <1>6 DEF Resume, Retry, TypeInv, TypeOK, AgentsOK, ReqOK

----------------------------------------------------------------------------
(* Type correctness: agents and crashes.                                   *)

LEMMA FetchTyped ==
    ASSUME AgentsOK, NEW f \in Fetches, NEW n \in Nodes, NEW j \in Jobs \cup {NoJob},
           NEW M \in SUBSET Files, StartsFetch(f, n, j, M), UNCHANGED have
    PROVE  AgentsOK'
<1> DEFINE new == [st |-> "running", node |-> n, job |-> j, files |-> M]
<1>1. new \in FetchRecord /\ new.node \in Nodes
      BY DEF FetchRecord, Live
<1>2. fetch' = [fetch EXCEPT ![f] = new]
      BY DEF StartsFetch
<1> HIDE DEF new
<1> QED BY <1>1, <1>2 DEF AgentsOK

LEMMA AgentTyped ==
    ASSUME TypeInv,
           \/ \E src, dst \in Nodes : ManualSync(src, dst)
           \/ \E n \in Nodes : NodeModelDelete(n) \/ AgentRestarts(n)
           \/ \E f \in Fetches : FetchEnds(f)
    PROVE  TypeInv'
<1>1. UNCHANGED <<rowVars, phase, mon, req>>
      BY DEF ManualSync, NodeModelDelete, AgentRestarts, FetchEnds
<1>2. AgentsOK'
  <2>1. ASSUME NEW src \in Nodes, NEW dst \in Nodes, ManualSync(src, dst)
        PROVE  AgentsOK'
    <3>1. PICK f \in Fetches : StartsFetch(f, dst, NoJob, have[src])
          BY <2>1 DEF ManualSync
    <3>2. have[src] \in SUBSET Files /\ AgentsOK
          BY DEF TypeInv, TypeOK, AgentsOK
    <3> QED BY <2>1, <3>1, <3>2, FetchTyped DEF ManualSync
  <2>2. ASSUME NEW n \in Nodes, NodeModelDelete(n)
        PROVE  AgentsOK'
        BY <2>2 DEF NodeModelDelete, TypeInv, TypeOK, AgentsOK
  <2>3. ASSUME NEW n \in Nodes, AgentRestarts(n)
        PROVE  AgentsOK'
        BY <2>3, Constants DEF AgentRestarts, TypeInv, TypeOK, AgentsOK
  <2>4. ASSUME NEW f \in Fetches, FetchEnds(f)
        PROVE  AgentsOK'
    <3>1. fetch[f] \in FetchRecord /\ fetch[f].node \in Nodes /\ AgentsOK
          BY <2>4 DEF FetchEnds, TypeInv, TypeOK, AgentsOK, Live
    <3>2. have' \in [Nodes -> SUBSET Files]
          BY <2>4, <3>1 DEF FetchEnds, AgentsOK, FetchRecord
    <3>3. PICK s \in {"completed", "failed", "cancelled"} : fetch' = [fetch EXCEPT ![f].st = s]
      <4>1. CASE fetch' = [fetch EXCEPT ![f].st = "completed"]
            BY <4>1
      <4>2. CASE fetch' = [fetch EXCEPT ![f].st = IF @ = "running" THEN "failed" ELSE "cancelled"]
        <5>1. CASE fetch[f].st = "running"
          <6>1. fetch' = [fetch EXCEPT ![f].st = "failed"]
                BY <4>2, <5>1
          <6> QED BY <6>1
        <5>2. CASE fetch[f].st # "running"
          <6>1. fetch' = [fetch EXCEPT ![f].st = "cancelled"]
                BY <4>2, <5>2
          <6> QED BY <6>1
        <5> QED BY <5>1, <5>2
      <4> QED BY <2>4, <4>1, <4>2 DEF FetchEnds
    <3> DEFINE new == [fetch[f] EXCEPT !.st = s]
    <3>4. new \in FetchRecord /\ new.node = fetch[f].node
          BY <3>1 DEF FetchRecord
    <3>5. fetch' = [fetch EXCEPT ![f] = new]
          BY <3>3
    <3> HIDE DEF new
    <3> QED BY <3>1, <3>2, <3>4, <3>5 DEF AgentsOK
  <2> QED BY <2>1, <2>2, <2>3, <2>4
<1> QED BY <1>1, <1>2 DEF TypeInv, TypeOK, RowsOK, MonitorsOK, ReqOK, DoneOK

LEMMA CrashTyped ==
    ASSUME TypeInv, Crash
    PROVE  TypeInv'
<1>1. PICK g \in [Monitors -> {j \in Jobs : status[j] \in Phases} \cup {NoJob}] :
        mon' = [m \in Monitors |-> IF g[m] = NoJob THEN FreeMonitor
                                   ELSE [FreeMonitor EXCEPT !.job = g[m], !.pc = "begin"]]
      BY DEF Crash
<1>2. \A m \in Monitors : /\ mon'[m] \in MonitorRecord /\ Returned(mon'[m])
                          /\ mon'[m].pc # "free" => mon'[m].job \in Jobs /\ status[mon'[m].job] # "unused"
  <2> TAKE m \in Monitors
  <2>1. CASE g[m] = NoJob
        BY <1>1, <2>1, Constants
  <2>2. CASE g[m] # NoJob
    <3> DEFINE w == [FreeMonitor EXCEPT !.job = g[m], !.pc = "begin"]
    <3>1. g[m] \in Jobs /\ status[g[m]] \in Phases
          BY <2>2
    <3>2. w \in MonitorRecord /\ w.job = g[m] /\ w.sub = FreeMonitor.sub
          BY <3>1, Constants DEF MonitorRecord
    <3>3. Returned(w)
          BY <3>2, Constants DEF Returned
    <3>4. mon'[m] = w
          BY <1>1, <2>2
    <3> HIDE DEF w
    <3> QED BY <3>1, <3>2, <3>3, <3>4 DEF Phases
  <2> QED BY <2>1, <2>2
<1>3. mon' \in [Monitors -> MonitorRecord]
  <2>1. DOMAIN mon' = Monitors /\ mon' = [m \in Monitors |-> mon'[m]]
        BY <1>1
  <2> QED BY <1>2, <2>1
<1>4. MonitorsOK' /\ DoneOK'
      BY <1>2, <1>3 DEF Crash, MonitorsOK, DoneOK, Returned
<1>5. have' \in [Nodes -> SUBSET Files]
  <2>1. PICK late \in [Monitors -> SUBSET Files] :
          have' = [n \in Nodes |-> have[n] \cup
                     UNION {late[m] : m \in {k \in Monitors : late[k] # {} /\ head[mon[k].job] = n}}]
        BY DEF Crash
  <2> QED BY <2>1 DEF TypeInv, TypeOK, AgentsOK
<1>6. phase' \in [Jobs -> Phases \cup {"none"}] /\ req' \in [Requests -> RequestRecord] /\ ReqOK'
      BY Constants DEF Crash, ReqOK
<1> QED BY <1>4, <1>5, <1>6 DEF Crash, TypeInv, TypeOK, RowsOK, AgentsOK

----------------------------------------------------------------------------
(* Type correctness: the coroutine before the workers.                     *)

\* The coroutine of a step belongs to a job in use.
LEMMA MonitorUsed ==
    ASSUME TypeInv, NEW m \in Monitors, mon[m].pc # "free"
    PROVE  /\ mon[m] \in MonitorRecord /\ Returned(mon[m])
           /\ mon[m].job \in Jobs /\ status[mon[m].job] # "unused"
           /\ head[mon[m].job] \in Nodes \ workers[mon[m].job]
           /\ workers[mon[m].job] \in SUBSET Nodes
BY DEF TypeInv, TypeOK, RowsOK, MonitorsOK, DoneOK, Returned

\* A step that writes the status, the entries of the workers and its own coroutine.
LEMMA StepTyped ==
    ASSUME TypeInv, NEW m \in Monitors, mon[m].pc # "free", \E v : Move(m, v),
           NEW s \in Status \ {"unused"},
           UNCHANGED status \/ status' = [status EXCEPT ![mon[m].job] = s],
           sync' \in [Jobs -> [Nodes -> SyncEntry]], AgentsOK',
           UNCHANGED <<head, workers, phase, req>>
    PROVE  TypeInv'
<1>1. mon[m].job \in Jobs /\ status[mon[m].job] # "unused"
      BY MonitorUsed
<1>2. status' \in [Jobs -> Status] /\ UsedStays
      BY <1>1 DEF TypeInv, TypeOK, RowsOK, UsedStays
<1>3. \A j \in Jobs : status'[j] # "unused" => status[j] # "unused"
      BY <1>1 DEF TypeInv, TypeOK, RowsOK
<1>4. RowsOK'
      BY <1>2, <1>3 DEF TypeInv, TypeOK, RowsOK
<1>5. MonitorsOK' /\ DoneOK'
      BY <1>2, MoveTyped
<1> QED BY <1>4, <1>5 DEF TypeInv, TypeOK, ReqOK

LEMMA BeginTyped ==
    ASSUME TypeInv, NEW m \in Monitors, Begin(m)
    PROVE  TypeInv'
<1> DEFINE w == [mon[m] EXCEPT !.pc = "prep", !.seen = status[mon[m].job]]
<1>1. mon[m].pc # "free"
      BY DEF Begin
<1>2. w \in MonitorRecord /\ Returned(w) /\ w.job = mon[m].job
      BY <1>1, MonitorUsed DEF MonitorRecord, Returned, TypeInv, TypeOK, RowsOK
<1>3. \E v : Move(m, v)
      BY <1>2, EndsMoves, GoesMoves DEF Begin
<1>4. sync' \in [Jobs -> [Nodes -> SyncEntry]] /\ AgentsOK'
      BY DEF Begin, TypeInv, TypeOK, RowsOK, AgentsOK
<1>5. "failed" \in Status \ {"unused"}
      BY DEF Status
<1> QED BY <1>1, <1>3, <1>4, <1>5, StepTyped DEF Begin

LEMMA ToWorkersMoves ==
    ASSUME TypeInv, NEW m \in Monitors, mon[m].pc # "free", NEW s \in Status, ToWorkers(m, s)
    PROVE  \E v : Move(m, v)
<1> DEFINE w == [mon[m] EXCEPT !.pc = "share", !.seen = s, !.plan = sync[mon[m].job]]
<1>1. w \in MonitorRecord /\ Returned(w) /\ w.job = mon[m].job
      BY MonitorUsed DEF MonitorRecord, Returned, TypeInv, TypeOK, RowsOK
<1> QED BY <1>1, EndsMoves, GoesMoves DEF ToWorkers

LEMMA ToWorkersTyped ==
    ASSUME TypeInv, NEW m \in Monitors, mon[m].pc # "free", NEW s \in Status \ {"unused"},
           ToWorkers(m, s), UNCHANGED <<head, workers, sync, phase, have, fetch, req>>
    PROVE  TypeInv'
<1>1. \E v : Move(m, v)
      BY ToWorkersMoves
<1>2. sync' \in [Jobs -> [Nodes -> SyncEntry]] /\ AgentsOK'
      BY DEF TypeInv, TypeOK, RowsOK, AgentsOK
<1>3. "completed" \in Status \ {"unused"}
      BY DEF Status
<1>4. \E q \in Status \ {"unused"} :
        UNCHANGED status \/ status' = [status EXCEPT ![mon[m].job] = q]
      BY <1>3 DEF ToWorkers
<1> QED BY <1>1, <1>2, <1>4, StepTyped

LEMMA PreparedTyped ==
    ASSUME TypeInv, NEW m \in Monitors, Prepared(m) \/ Mirrored(m)
    PROVE  TypeInv'
<1>1. mon[m].pc # "free"
      BY DEF Prepared, Mirrored
<1>2. CASE ToWorkers(m, status[mon[m].job])
      BY <1>1, <1>2, MonitorUsed, ToWorkersTyped DEF Prepared, Mirrored, TypeInv, TypeOK, RowsOK
<1>3. CASE Mirrored(m)
      BY <1>1, <1>3, ToWorkersTyped DEF Mirrored, Status, Occupying, Phases
<1>4. CASE Prepared(m) /\ mon[m].seen # "syncing"
  <2> DEFINE w == [mon[m] EXCEPT !.pc = "send", !.todo = Files]
  <2>1. w \in MonitorRecord /\ Returned(w) /\ w.job = mon[m].job
        BY <1>1, MonitorUsed DEF MonitorRecord, Returned
  <2>2. \E v : Move(m, v)
        BY <1>4, <2>1, GoesMoves DEF Prepared
  <2>3. sync' \in [Jobs -> [Nodes -> SyncEntry]] /\ AgentsOK'
        BY <1>4 DEF Prepared, TypeInv, TypeOK, RowsOK, AgentsOK
  <2>4. "sending" \in Status \ {"unused"}
        BY DEF Status, Occupying, Phases
  <2> QED BY <1>1, <1>4, <2>2, <2>3, <2>4, StepTyped DEF Prepared, Writes
<1> QED BY <1>2, <1>3, <1>4 DEF Prepared

\* PrepareFails, ShareFails and SendFails end the coroutine.
LEMMA FailsTyped ==
    ASSUME TypeInv, NEW m \in Monitors, PrepareFails(m) \/ ShareFails(m) \/ SendFails(m)
    PROVE  TypeInv'
<1>1. mon[m].pc # "free" /\ \E v : Move(m, v)
      BY EndsMoves DEF PrepareFails, ShareFails, SendFails
<1>2. AgentsOK'
  <2>1. CASE UNCHANGED have
        BY <2>1 DEF PrepareFails, ShareFails, SendFails, TypeInv, TypeOK, AgentsOK
  <2>2. CASE SendFails(m)
    <3>1. mon[m].flying \in SUBSET Files /\ head[mon[m].job] \in Nodes
          BY <1>1, MonitorUsed DEF MonitorRecord
    <3>2. have' \in [Nodes -> SUBSET Files]
          BY <2>2, <3>1 DEF SendFails, TypeInv, TypeOK, AgentsOK
    <3> QED BY <2>2, <3>2 DEF SendFails, TypeInv, TypeOK, AgentsOK
  <2> QED BY <2>1, <2>2 DEF PrepareFails, ShareFails
<1>3. sync' \in [Jobs -> [Nodes -> SyncEntry]]
      BY DEF PrepareFails, ShareFails, SendFails, TypeInv, TypeOK, RowsOK
<1>4. "failed" \in Status \ {"unused"}
      BY DEF Status
<1> QED BY <1>1, <1>2, <1>3, <1>4, StepTyped DEF PrepareFails, ShareFails, SendFails, Writes

LEMMA SendTyped ==
    ASSUME TypeInv, NEW m \in Monitors,
           (\E f \in Files : SendCheck(m, f) \/ SendDone(m, f)) \/ SendEnd(m)
    PROVE  TypeInv'
<1>1. mon[m].pc # "free"
      BY DEF SendCheck, SendDone, SendEnd
<1>2. mon[m] \in MonitorRecord /\ Returned(mon[m]) /\ head[mon[m].job] \in Nodes
      BY <1>1, MonitorUsed
<1>3. sync' \in [Jobs -> [Nodes -> SyncEntry]] /\ "failed" \in Status \ {"unused"}
      BY DEF SendCheck, SendDone, SendEnd, TypeInv, TypeOK, RowsOK, Status
<1>4. ASSUME NEW f \in Files, SendCheck(m, f)
      PROVE  TypeInv'
  <2> DEFINE go == status[mon[m].job] = "sending"
             w == [mon[m] EXCEPT !.todo = @ \ {f}, !.flying = IF go THEN @ \cup {f} ELSE @]
  <2>1. w \in MonitorRecord /\ Returned(w) /\ w.job = mon[m].job
        BY <1>2 DEF MonitorRecord, Returned
  <2>2. Goes(m, w)
        BY <1>4 DEF SendCheck
  <2> HIDE DEF w
  <2>3. \E v : Move(m, v)
        BY <2>1, <2>2, GoesMoves
  <2> QED BY <1>1, <1>3, <1>4, <2>3, StepTyped DEF SendCheck, TypeInv, TypeOK, AgentsOK
<1>5. ASSUME NEW f \in Files, SendDone(m, f)
      PROVE  TypeInv'
  <2> DEFINE w == [mon[m] EXCEPT !.flying = @ \ {f}]
  <2>1. w \in MonitorRecord /\ Returned(w) /\ w.job = mon[m].job
        BY <1>2 DEF MonitorRecord, Returned
  <2>2. mon' = [mon EXCEPT ![m] = w]
        BY <1>5 DEF SendDone
  <2> HIDE DEF w
  <2>3. \E v : Move(m, v)
        BY <2>1, <2>2 DEF Move
  <2>4. AgentsOK'
        BY <1>2, <1>5 DEF SendDone, TypeInv, TypeOK, AgentsOK
  <2> QED BY <1>1, <1>3, <1>5, <2>3, <2>4, StepTyped DEF SendDone
<1>6. CASE SendEnd(m)
  <2> DEFINE w == [mon[m] EXCEPT !.pc = "mirror", !.seen = "sending"]
  <2>1. w \in MonitorRecord /\ Returned(w) /\ w.job = mon[m].job
        BY <1>2 DEF MonitorRecord, Returned, Status, Occupying, Phases
  <2>2. \E v : Move(m, v)
        BY <1>6, <2>1, EndsMoves, GoesMoves DEF SendEnd
  <2> QED BY <1>1, <1>3, <1>6, <2>2, StepTyped DEF SendEnd, TypeInv, TypeOK, AgentsOK
<1> QED BY <1>4, <1>5, <1>6

----------------------------------------------------------------------------
(* Type correctness: the coroutine and the workers.                        *)

\* sync_jobs of one row, and one entry of it.
LEMMA EntriesTyped ==
    ASSUME RowsOK, NEW j \in Jobs, NEW p \in [Nodes -> SyncEntry],
           UNCHANGED sync \/ sync' = [sync EXCEPT ![j] = p]
    PROVE  sync' \in [Jobs -> [Nodes -> SyncEntry]]
BY DEF RowsOK

LEMMA PatchTyped ==
    ASSUME RowsOK, NEW m \in Monitors, mon[m].job \in Jobs, NEW n \in Nodes, NEW f \in FetchId,
           UNCHANGED sync \/ Patches(m, n, f)
    PROVE  sync' \in [Jobs -> [Nodes -> SyncEntry]]
<1> DEFINE e == [st |-> "syncing", fid |-> f]
           p == [sync[mon[m].job] EXCEPT ![n] = e]
<1>1. e \in SyncEntry
      BY DEF SyncEntry
<1>2. p \in [Nodes -> SyncEntry]
      BY <1>1 DEF RowsOK
<1>3. UNCHANGED sync \/ sync' = [sync EXCEPT ![mon[m].job] = p]
      BY DEF Patches
<1> HIDE DEF p
<1> QED BY <1>2, <1>3, EntriesTyped

LEMMA CheckedTyped ==
    ASSUME TypeInv, NEW m \in Monitors, mon[m].pc # "free", NEW w \in MonitorRecord, Returned(w),
           w.job = mon[m].job, Checked(m, w), UNCHANGED <<status, head, workers, phase, have, fetch, req>>
    PROVE  TypeInv'
<1> DEFINE v == [w EXCEPT !.pc = "sync", !.plan = FreeMonitor.plan]
<1>1. v \in MonitorRecord /\ Returned(v) /\ v.job = mon[m].job
      BY Constants DEF MonitorRecord, Returned
<1>2. Goes(m, w) \/ Goes(m, v)
      BY DEF Checked
<1> HIDE DEF v
<1>3. \E x : Move(m, x)
      BY <1>1, <1>2, GoesMoves
<1>4. w.plan \in [Nodes -> SyncEntry] /\ mon[m].job \in Jobs
      BY MonitorUsed DEF MonitorRecord
<1>5. sync' \in [Jobs -> [Nodes -> SyncEntry]]
      BY <1>4, EntriesTyped DEF Checked, TypeInv, TypeOK
<1>6. "failed" \in Status \ {"unused"}
      BY DEF Status
<1> QED BY <1>3, <1>5, <1>6, StepTyped DEF TypeInv, TypeOK, AgentsOK

LEMMA ShareTyped ==
    ASSUME TypeInv, NEW m \in Monitors, Share(m)
    PROVE  TypeInv'
<1> DEFINE j == mon[m].job
           todo == {n \in workers[j] : mon[m].plan[n].st # "completed"}
           w == [mon[m] EXCEPT !.files = have[head[j]], !.check = todo]
           u == [w EXCEPT !.pc = "check"]
           v == [w EXCEPT !.pc = "sync", !.plan = FreeMonitor.plan]
<1>1. mon[m].pc # "free"
      BY DEF Share
<1>2. w \in MonitorRecord /\ w.job = j /\ w.sub = mon[m].sub
  <2>1. have[head[j]] \in SUBSET Files /\ todo \in SUBSET Nodes
        BY <1>1, MonitorUsed DEF TypeInv, TypeOK, AgentsOK
  <2> QED BY <1>1, <2>1, MonitorUsed DEF MonitorRecord
<1>3. Goes(m, u) \/ Goes(m, v)
      BY DEF Share
<1> HIDE DEF w
<1>4. Returned(w)
      BY <1>1, <1>2, MonitorUsed DEF Returned
<1>5. u \in MonitorRecord /\ Returned(u) /\ u.job = j /\ v \in MonitorRecord /\ Returned(v) /\ v.job = j
      BY <1>2, <1>4, Constants DEF MonitorRecord, Returned
<1> HIDE DEF u, v
<1>6. \E x : Move(m, x)
      BY <1>3, <1>5, GoesMoves
<1>7. "failed" \in Status \ {"unused"}
      BY DEF Status
<1> QED BY <1>1, <1>6, <1>7, StepTyped DEF Share, TypeInv, TypeOK, RowsOK, AgentsOK

LEMMA CheckWorkerTyped ==
    ASSUME TypeInv, NEW m \in Monitors, NEW n \in Nodes, CheckWorker(m, n)
    PROVE  TypeInv'
<1> DEFINE old == mon[m].plan[n]
           next == IF old.st = "syncing" /\ old.fid # NoFetch
                   THEN [NoSub EXCEPT !.pc = "adopt", !.fid = old.fid]
                   ELSE [NoSub EXCEPT !.pc = "fetch"]
           w == [mon[m] EXCEPT !.check = @ \ {n}]
           u == [w EXCEPT !.plan[n].st = "completed"]
           v == [w EXCEPT !.plan[n].st = "syncing", !.sub[n] = next]
<1>1. mon[m].pc # "free"
      BY DEF CheckWorker
<1>2. old \in SyncEntry
      BY <1>1, MonitorUsed DEF MonitorRecord
<1>3. next \in SubRecord /\ next.pc # "done"
      BY <1>2, Constants DEF SubRecord, SyncEntry
<1>4. w \in MonitorRecord /\ Returned(w) /\ w.job = mon[m].job
      BY <1>1, MonitorUsed DEF MonitorRecord, Returned
<1>5. Checked(m, u) \/ Checked(m, v)
      BY DEF CheckWorker
<1> HIDE DEF w, next
<1>6. u \in MonitorRecord /\ Returned(u) /\ u.job = mon[m].job
      BY <1>4 DEF MonitorRecord, Returned, SyncEntry
<1>7. v \in MonitorRecord /\ Returned(v) /\ v.job = mon[m].job
  <2> DEFINE x == [w EXCEPT !.plan[n].st = "syncing"]
  <2>1. x \in MonitorRecord /\ Returned(x) /\ x.job = mon[m].job
        BY <1>4 DEF MonitorRecord, Returned, SyncEntry
  <2>2. v = [x EXCEPT !.sub[n] = next]
        OBVIOUS
  <2> HIDE DEF x, v
  <2> QED BY <1>3, <2>1, <2>2, SubTyped
<1> HIDE DEF u, v
<1> QED BY <1>1, <1>5, <1>6, <1>7, CheckedTyped DEF CheckWorker

----------------------------------------------------------------------------
(* Type correctness: the workers' coroutines.                              *)

LEMMA SubMoves ==
    ASSUME TypeInv, NEW m \in Monitors, mon[m].pc = "sync", NEW n \in Nodes, NEW s \in SubRecord,
           s.pc = "done" => s.res # "none", mon' = [mon EXCEPT ![m].sub[n] = s]
    PROVE  Move(m, [mon[m] EXCEPT !.sub[n] = s])
<1> DEFINE w == [mon[m] EXCEPT !.sub[n] = s]
<1>1. w \in MonitorRecord /\ Returned(w) /\ w.job = mon[m].job
      BY MonitorUsed, SubTyped
<1>2. mon' = [mon EXCEPT ![m] = w]
      OBVIOUS
<1> HIDE DEF w
<1>3. Move(m, w)
      BY <1>1, <1>2 DEF Move
<1> QED BY <1>3 DEF w

LEMMA SubGoesMoves ==
    ASSUME TypeInv, NEW m \in Monitors, mon[m].pc = "sync", NEW n \in Nodes, NEW f \in FetchId,
           NEW pc \in {"stopOld", "fetch", "record", "poll", "stop"}, SubGoes(m, n, pc, f)
    PROVE  Move(m, [mon[m] EXCEPT !.sub[n] = [mon[m].sub[n] EXCEPT !.pc = pc, !.fid = f]])
<1> DEFINE s == [mon[m].sub[n] EXCEPT !.pc = pc, !.fid = f]
<1>0. mon[m].sub[n] \in SubRecord
      BY MonitorUsed DEF MonitorRecord
<1>1. s \in SubRecord /\ s.pc # "done"
      BY <1>0 DEF SubRecord
<1>2. mon' = [mon EXCEPT ![m].sub[n] = s]
      BY MonitorUsed DEF SubGoes, MonitorRecord, TypeInv, TypeOK, MonitorsOK
<1> HIDE DEF s
<1>3. Move(m, [mon[m] EXCEPT !.sub[n] = s])
      BY <1>1, <1>2, SubMoves
<1> QED BY <1>3 DEF s

LEMMA ReturnsMoves ==
    ASSUME TypeInv, NEW m \in Monitors, mon[m].pc = "sync", NEW n \in Nodes,
           NEW res \in {"paused", "completed", "failed", "cancelled"}, Returns(m, n, res)
    PROVE  Move(m, [mon[m] EXCEPT !.sub[n] = [mon[m].sub[n] EXCEPT !.pc = "done", !.res = res]])
<1> DEFINE s == [mon[m].sub[n] EXCEPT !.pc = "done", !.res = res]
<1>0. mon[m].sub[n] \in SubRecord
      BY MonitorUsed DEF MonitorRecord
<1>1. s \in SubRecord /\ s.res # "none"
      BY <1>0 DEF SubRecord
<1>2. mon' = [mon EXCEPT ![m].sub[n] = s]
      BY MonitorUsed DEF Returns, MonitorRecord, TypeInv, TypeOK, MonitorsOK
<1> HIDE DEF s
<1>3. Move(m, [mon[m] EXCEPT !.sub[n] = s])
      BY <1>1, <1>2, SubMoves
<1> QED BY <1>3 DEF s

\* What an agent may say of the fetch job a worker's coroutine waits for.
LEMMA AgentStates ==
    ASSUME TypeInv, NEW m \in Monitors, mon[m].pc = "sync", NEW n \in Nodes
    PROVE  /\ mon[m].sub[n].fid \in FetchId
           /\ AgentState(m, n) \in Live \cup {"none", "completed", "failed", "cancelled"}
<1>1. mon[m].sub[n].fid \in FetchId
      BY MonitorUsed DEF MonitorRecord, SubRecord
<1> QED BY <1>1 DEF AgentState, FetchId, FetchRecord, TypeInv, TypeOK, AgentsOK

\* Steps of a worker's coroutine change its record, its entry and fetch jobs.
LEMMA SyncStepMoves ==
    ASSUME TypeInv, NEW m \in Monitors, NEW n \in Nodes, SyncStep(m, n), ~PollAgain(m, n)
    PROVE  \E v : Move(m, v)
<1>1. mon[m].pc = "sync"
      BY DEF SyncStep, Adopt, OldStopped, Fetch, Record, PollEnd, PollAgain, PollStop, Stopped,
             SyncFails, Turn
<1>2. ASSUME NEW res \in {"paused", "completed", "failed", "cancelled"}, Returns(m, n, res)
      PROVE  \E v : Move(m, v)
  <2>1. Move(m, [mon[m] EXCEPT !.sub[n] = [mon[m].sub[n] EXCEPT !.pc = "done", !.res = res]])
        BY <1>1, <1>2, ReturnsMoves
  <2> QED BY <2>1
<1>3. ASSUME NEW pc \in {"stopOld", "fetch", "record", "poll", "stop"}, NEW f \in FetchId,
             SubGoes(m, n, pc, f)
      PROVE  \E v : Move(m, v)
  <2>1. Move(m, [mon[m] EXCEPT !.sub[n] = [mon[m].sub[n] EXCEPT !.pc = pc, !.fid = f]])
        BY <1>1, <1>3, SubGoesMoves
  <2> QED BY <2>1
<1>4. mon[m].sub[n].fid \in FetchId /\ NoFetch \in FetchId /\ Fetches \subseteq FetchId
      BY <1>1, AgentStates DEF FetchId
<1>5. AgentState(m, n) \in Live \cup {"none", "completed", "failed", "cancelled"}
      BY <1>1, AgentStates
<1>6. CASE Adopt(m, n)
      BY <1>2, <1>3, <1>4, <1>5, <1>6 DEF Adopt, Live
<1>7. CASE OldStopped(m, n)
      BY <1>2, <1>3, <1>4, <1>5, <1>7 DEF OldStopped, Live
<1>8. CASE Fetch(m, n)
      BY <1>3, <1>4, <1>8 DEF Fetch
<1>9. CASE Record(m, n)
      BY <1>3, <1>4, <1>9 DEF Record
<1>10. CASE PollEnd(m, n)
      BY <1>2, <1>5, <1>10 DEF PollEnd, Live
<1>11. CASE PollStop(m, n)
      BY <1>2, <1>3, <1>4, <1>11 DEF PollStop
<1>12. CASE Stopped(m, n)
      BY <1>2, <1>5, <1>12 DEF Stopped, Live
<1>13. CASE SyncFails(m, n)
      BY <1>2, <1>13 DEF SyncFails
<1> QED BY <1>6, <1>7, <1>8, <1>9, <1>10, <1>11, <1>12, <1>13 DEF SyncStep

LEMMA SyncStepTyped ==
    ASSUME TypeInv, NEW m \in Monitors, NEW n \in Nodes, SyncStep(m, n)
    PROVE  TypeInv'
<1>1. mon[m].pc = "sync" /\ UNCHANGED <<status, head, workers, phase, have, req>>
      BY DEF SyncStep, Adopt, OldStopped, Fetch, Record, PollEnd, PollAgain, PollStop, Stopped,
             SyncFails, Turn
<1>2. mon[m].job \in Jobs /\ mon[m].files \in SUBSET Files /\ RowsOK /\ AgentsOK
      BY <1>1, MonitorUsed DEF MonitorRecord, TypeInv, TypeOK
<1>3. sync' \in [Jobs -> [Nodes -> SyncEntry]]
  <2>1. mon[m].sub[n].fid \in FetchId /\ sync[mon[m].job][n].fid \in FetchId
        BY <1>1, <1>2, AgentStates DEF RowsOK, SyncEntry
  <2>2. \E f \in FetchId : UNCHANGED sync \/ Patches(m, n, f)
        BY <2>1 DEF SyncStep, Adopt, OldStopped, Fetch, Record, PollEnd, PollAgain, PollStop,
                    Stopped, SyncFails
  <2> QED BY <1>2, <2>2, PatchTyped
<1>4. AgentsOK'
  <2>1. ASSUME NEW f \in Fetches, StartsFetch(f, n, mon[m].job, mon[m].files)
        PROVE  AgentsOK'
        BY <1>1, <1>2, <2>1, FetchTyped
  <2>2. ASSUME NEW f, fetch[f].st = "running", fetch' = [fetch EXCEPT ![f].st = "cancelling"]
        PROVE  AgentsOK'
    <3>1. CASE f \in Fetches
      <4> DEFINE new == [fetch[f] EXCEPT !.st = "cancelling"]
      <4>1. new \in FetchRecord /\ new.node = fetch[f].node
            BY <1>2, <3>1 DEF AgentsOK, FetchRecord, Live
      <4>2. fetch' = [fetch EXCEPT ![f] = new]
            BY <2>2
      <4>3. fetch[f].node \in Nodes
            BY <1>2, <2>2, <3>1 DEF AgentsOK
      <4> HIDE DEF new
      <4> QED BY <1>1, <1>2, <3>1, <4>1, <4>2, <4>3 DEF AgentsOK
    <3>2. CASE f \notin Fetches
          BY <1>1, <1>2, <2>2, <3>2 DEF AgentsOK
    <3> QED BY <3>1, <3>2
  <2>3. CASE UNCHANGED fetch
        BY <1>1, <1>2, <2>3 DEF AgentsOK
  <2> QED BY <2>1, <2>2, <2>3
          DEF SyncStep, Adopt, OldStopped, Fetch, Record, PollEnd, PollAgain, PollStop, Stopped,
              SyncFails
<1>5. CASE PollAgain(m, n)
      BY <1>1, <1>2, <1>3, <1>4, <1>5
      DEF PollAgain, TypeInv, TypeOK, RowsOK, MonitorsOK, ReqOK, DoneOK
<1>6. CASE ~PollAgain(m, n)
  <2>1. \E v : Move(m, v)
        BY <1>6, SyncStepMoves
  <2>2. "failed" \in Status \ {"unused"}
        BY DEF Status
  <2> QED BY <1>1, <1>3, <1>4, <2>1, <2>2, StepTyped
<1> QED BY <1>5, <1>6

LEMMA ConcludesWrites ==
    ASSUME NEW m \in Monitors, NEW seen, NEW plan, Concludes(m, seen, plan)
    PROVE  \E s \in Status \ {"unused"} :
             UNCHANGED status \/ status' = [status EXCEPT ![mon[m].job] = s]
BY DEF Concludes, Verdict, Status

LEMMA MergeTyped ==
    ASSUME TypeInv, NEW m \in Monitors, Merge(m)
    PROVE  TypeInv'
<1> DEFINE j == mon[m].job
           done == {n \in workers[j] : mon[m].sub[n].pc = "done"}
           plan == [n \in Nodes |-> IF n \in done THEN [st |-> mon[m].sub[n].res,
                                                        fid |-> mon[m].sub[n].fid]
                                    ELSE sync[j][n]]
           w == [FreeMonitor EXCEPT !.job = j, !.pc = "final", !.plan = plan, !.seen = status[j]]
<1>1. mon[m].pc # "free" /\ j \in Jobs /\ status[j] \in Status
      BY MonitorUsed DEF Merge, TypeInv, TypeOK, RowsOK
<1>2. plan \in [Nodes -> SyncEntry]
  <2> SUFFICES ASSUME NEW n \in Nodes
               PROVE  (IF n \in done THEN [st |-> mon[m].sub[n].res, fid |-> mon[m].sub[n].fid]
                       ELSE sync[j][n]) \in SyncEntry
      OBVIOUS
  <2>1. CASE n \in done
    <3>1. mon[m].sub[n] \in SubRecord /\ mon[m].sub[n].res # "none"
          BY <1>1, <2>1, MonitorUsed DEF MonitorRecord, Returned
    <3> QED BY <2>1, <3>1 DEF SubRecord, SyncEntry
  <2>2. CASE n \notin done
        BY <1>1, <2>2 DEF TypeInv, TypeOK, RowsOK
  <2> QED BY <2>1, <2>2
<1>3. sync' \in [Jobs -> [Nodes -> SyncEntry]]
      BY <1>1, <1>2, EntriesTyped DEF Merge, TypeInv, TypeOK
<1>4. Goes(m, w) \/ Ends(m)
      BY DEF Merge
<1>5. \E s \in Status \ {"unused"} : UNCHANGED status \/ status' = [status EXCEPT ![j] = s]
  <2>1. CASE UNCHANGED status
        BY <2>1 DEF Status
  <2>2. CASE Concludes(m, status[j], plan)
        BY <2>2, ConcludesWrites
  <2> QED BY <2>1, <2>2 DEF Merge
<1> HIDE DEF plan
<1>6. w \in MonitorRecord /\ w.job = j /\ w.sub = FreeMonitor.sub
      BY <1>1, <1>2, Constants DEF MonitorRecord
<1>7. Returned(w)
      BY <1>6, Constants DEF Returned
<1> HIDE DEF w
<1>8. \E v : Move(m, v)
      BY <1>4, <1>6, <1>7, EndsMoves, GoesMoves
<1> QED BY <1>1, <1>3, <1>5, <1>8, StepTyped DEF Merge, TypeInv, TypeOK, AgentsOK

LEMMA FinalTyped ==
    ASSUME TypeInv, NEW m \in Monitors, Final(m)
    PROVE  TypeInv'
<1>1. mon[m].pc # "free" /\ \E v : Move(m, v)
      BY EndsMoves DEF Final
<1>2. \E s \in Status \ {"unused"} : UNCHANGED status \/ status' = [status EXCEPT ![mon[m].job] = s]
      BY ConcludesWrites DEF Final
<1> QED BY <1>1, <1>2, StepTyped DEF Final, TypeInv, TypeOK, RowsOK, AgentsOK

LEMMA StepKeepsTypes == TypeInv /\ [Next]_vars => TypeInv'
<1> SUFFICES ASSUME TypeInv, [Next]_vars PROVE TypeInv'
    OBVIOUS
<1>1. CASE Environment
      BY <1>1, StartCheckTyped, StatusTyped, AgainTyped, AgentTyped, CrashTyped DEF Environment
<1>2. ASSUME NEW r \in Requests, StartInsert(r) PROVE TypeInv'
      BY <1>2, StartInsertTyped
<1>3. ASSUME NEW m \in Monitors, MonitorStep(m) PROVE TypeInv'
      BY <1>3, BeginTyped, PreparedTyped, FailsTyped, SendTyped, ShareTyped, CheckWorkerTyped,
         MergeTyped, FinalTyped DEF MonitorStep
<1>4. ASSUME NEW m \in Monitors, NEW n \in Nodes, SyncStep(m, n) PROVE TypeInv'
      BY <1>4, SyncStepTyped
<1>5. ASSUME NEW f \in Fetches, FetchEnds(f) PROVE TypeInv'
      BY <1>5, AgentTyped
<1>6. CASE UNCHANGED vars
      BY <1>6 DEF vars, TypeInv, TypeOK, RowsOK, AgentsOK, MonitorsOK, ReqOK, DoneOK
<1> QED BY <1>1, <1>2, <1>3, <1>4, <1>5, <1>6 DEF Next, System

\* The variables keep their types: rows in use have a head that is no worker, fetch jobs
\* have a node, coroutines belong to rows in use.
THEOREM TypeCorrect == Spec => []TypeOK
<1>1. TypeInv => TypeOK
      BY DEF TypeInv
<1> QED BY <1>1, InitTyped, StepKeepsTypes, PTL DEF Spec

----------------------------------------------------------------------------
(* Delivery: the inductive invariant.  The operators take the state they   *)
(* are about as arguments, to speak of it before and after a step.         *)

\* A fetch job on record for node n is one that a coroutine started there.
Of(f, n, F) == f \in Fetches /\ F[f].st # "none" => F[f].node = n /\ F[f].job # NoJob

\* A coroutine past the sending phase, or about to skip it, works for a complete head; one
\* that is sending has only skipped files if the row has left sending.
HeadOK(w, S, hd, H) ==
    /\ w.pc = "prep" /\ w.seen = "syncing" => H[hd[w.job]] = Files
    /\ w.pc = "send" /\ S[w.job] = "sending" => Files \subseteq w.todo \cup w.flying \cup H[hd[w.job]]
    /\ w.pc \in {"mirror", "share", "check", "sync", "final"} => H[hd[w.job]] = Files
    /\ w.pc \in {"check", "sync"} => w.files = Files

\* Workers a coroutine takes for complete are.
WorkersOK(w, H, F) ==
    \A n \in Nodes :
        /\ w.plan[n].st = "completed" => H[n] = Files
        /\ w.sub[n].res = "completed" => H[n] = Files
        /\ Of(w.plan[n].fid, n, F) /\ Of(w.sub[n].fid, n, F)

EntryOK(e, n, H, F) == (e.st = "completed" => H[n] = Files) /\ Of(e.fid, n, F)
EntriesOK(Y, H, F) == \A j \in Jobs, n \in Nodes : EntryOK(Y[j][n], n, H, F)

FetchedOK(H, F) ==
    \A f \in Fetches :
        F[f].st # "none" /\ F[f].job # NoJob =>
            F[f].files = Files /\ (F[f].st = "completed" => H[F[f].node] = Files)

\* A job has at most one coroutine, and none once it has failed or completed.
Alone ==
    /\ \A m, k \in Monitors :
         mon[m].pc # "free" /\ mon[k].pc # "free" /\ mon[m].job = mon[k].job => m = k
    /\ \A m \in Monitors : mon[m].pc # "free" => status[mon[m].job] \notin {"failed", "completed"}

SyncingInv == \A j \in Jobs : status[j] = "syncing" => have[head[j]] = Files

DeliveryInv ==
    /\ TypeInv /\ Alone /\ SyncingInv
    /\ \A m \in Monitors : mon[m].pc # "free" => HeadOK(mon[m], status, head, have)
    /\ \A m \in Monitors : WorkersOK(mon[m], have, fetch)
    /\ EntriesOK(sync, have, fetch) /\ FetchedOK(have, fetch)

\* Nodes lose nothing, and a fetch slot that somebody mentions is not given to another job.
Growing ==
    /\ \A n \in Nodes : have[n] \subseteq have'[n]
    /\ \A f \in Fetches : fetch'[f].st # "none" =>
         \/ Unused(f)
         \/ fetch[f].st # "none" /\ fetch'[f].node = fetch[f].node /\ fetch'[f].job = fetch[f].job

----------------------------------------------------------------------------
(* Delivery: what growing nodes preserve.                                  *)

LEMMA FullStays ==
    ASSUME TypeInv, TypeInv', Growing, NEW n \in Nodes, have[n] = Files
    PROVE  have'[n] = Files
BY DEF Growing, TypeInv, TypeOK, AgentsOK

LEMMA OfStays ==
    ASSUME Growing, NEW f, NEW n \in Nodes, Of(f, n, fetch), ~Unused(f)
    PROVE  Of(f, n, fetch')
BY DEF Growing, Of

LEMMA HeadStays ==
    ASSUME TypeInv, TypeInv', Growing, NEW w \in MonitorRecord, w.job \in Jobs,
           head[w.job] \in Nodes, HeadOK(w, status, head, have),
           head'[w.job] = head[w.job],
           status'[w.job] = "sending" => status[w.job] = "sending"
    PROVE  HeadOK(w, status', head', have')
<1>1. have[head[w.job]] \subseteq have'[head[w.job]]
      BY DEF Growing
<1>2. have[head[w.job]] = Files => have'[head[w.job]] = Files
      BY FullStays
<1> QED BY <1>1, <1>2 DEF HeadOK

LEMMA WorkersStay ==
    ASSUME TypeInv, TypeInv', Growing, NEW m \in Monitors, WorkersOK(mon[m], have, fetch)
    PROVE  WorkersOK(mon[m], have', fetch')
<1> SUFFICES ASSUME NEW n \in Nodes
             PROVE  /\ mon[m].plan[n].st = "completed" => have'[n] = Files
                    /\ mon[m].sub[n].res = "completed" => have'[n] = Files
                    /\ Of(mon[m].plan[n].fid, n, fetch') /\ Of(mon[m].sub[n].fid, n, fetch')
    BY DEF WorkersOK
<1>1. have[n] = Files => have'[n] = Files
      BY FullStays
<1>2. ~Unused(mon[m].plan[n].fid) /\ ~Unused(mon[m].sub[n].fid)
      BY DEF Unused
<1>3. Of(mon[m].plan[n].fid, n, fetch') /\ Of(mon[m].sub[n].fid, n, fetch')
      BY <1>2, OfStays DEF WorkersOK
<1> QED BY <1>1, <1>3 DEF WorkersOK

LEMMA EntriesStay ==
    ASSUME TypeInv, TypeInv', Growing, EntriesOK(sync, have, fetch)
    PROVE  EntriesOK(sync, have', fetch')
<1> SUFFICES ASSUME NEW j \in Jobs, NEW n \in Nodes
             PROVE  EntryOK(sync[j][n], n, have', fetch')
    BY DEF EntriesOK
<1>1. have[n] = Files => have'[n] = Files
      BY FullStays
<1>2. Of(sync[j][n].fid, n, fetch')
      BY OfStays DEF Unused, EntriesOK, EntryOK
<1> QED BY <1>1, <1>2 DEF EntriesOK, EntryOK

LEMMA FetchedStays ==
    ASSUME TypeInv, TypeInv', Growing, FetchedOK(have, fetch), UNCHANGED fetch
    PROVE  FetchedOK(have', fetch')
<1> SUFFICES ASSUME NEW f \in Fetches, fetch[f].st # "none", fetch[f].job # NoJob
             PROVE  fetch[f].files = Files /\ (fetch[f].st = "completed" => have'[fetch[f].node] = Files)
    BY DEF FetchedOK
<1>1. fetch[f].node \in Nodes
      BY DEF TypeInv, TypeOK, AgentsOK
<1> QED BY <1>1, FullStays DEF FetchedOK

LEMMA FreeWorkers == WorkersOK(FreeMonitor, have', fetch')
BY ConstantsAssumption DEF WorkersOK, FreeMonitor, Pending, NoSub, Of

\* A step of one coroutine that leaves the record w.
LEMMA StepDelivers ==
    ASSUME DeliveryInv, TypeInv', Growing, NEW m \in Monitors, mon[m].pc # "free", NEW w,
           mon' = [mon EXCEPT ![m] = w], w.pc = "free" \/ w.job = mon[m].job, UNCHANGED head,
           \A j \in Jobs \ {mon[m].job} : status'[j] = status[j],
           w.pc # "free" => /\ status'[w.job] \notin {"failed", "completed"}
                            /\ HeadOK(w, status', head, have'),
           WorkersOK(w, have', fetch'),
           status'[mon[m].job] = "syncing" => have'[head[mon[m].job]] = Files,
           EntriesOK(sync', have', fetch'), FetchedOK(have', fetch')
    PROVE  DeliveryInv'
<1>1. \A k \in Monitors : mon'[k] = IF k = m THEN w ELSE mon[k]
      BY DEF DeliveryInv, TypeInv, TypeOK, MonitorsOK
<1>2. \A k \in Monitors \ {m} : mon[k].pc # "free" =>
        mon[k].job \in Jobs /\ mon[k].job # mon[m].job /\ status'[mon[k].job] = status[mon[k].job]
      BY DEF DeliveryInv, TypeInv, TypeOK, MonitorsOK, Alone
<1>3. Alone'
      BY <1>1, <1>2 DEF DeliveryInv, Alone
<1>4. SyncingInv'
  <2> SUFFICES ASSUME NEW j \in Jobs, status'[j] = "syncing" PROVE have'[head[j]] = Files
      BY DEF SyncingInv
  <2>1. CASE j # mon[m].job
    <3>1. status[j] = "syncing" /\ head[j] \in Nodes
          BY <2>1 DEF DeliveryInv, TypeInv, TypeOK, RowsOK
    <3> QED BY <3>1, FullStays DEF DeliveryInv, SyncingInv
  <2> QED BY <2>1
<1>5. ASSUME NEW k \in Monitors, mon'[k].pc # "free"
      PROVE  HeadOK(mon'[k], status', head', have')
  <2>1. CASE k = m
        BY <1>1, <1>5, <2>1
  <2>2. CASE k # m
    <3>1. mon[k].pc # "free" /\ mon'[k] = mon[k] /\ head[mon[k].job] \in Nodes /\ mon[k] \in MonitorRecord
          BY <1>1, <1>5, <2>2, MonitorUsed DEF DeliveryInv
    <3>2. HeadOK(mon[k], status', head', have')
          BY <1>2, <2>2, <3>1, HeadStays DEF DeliveryInv
    <3> QED BY <3>1, <3>2
  <2> QED BY <2>1, <2>2
<1>6. ASSUME NEW k \in Monitors
      PROVE  WorkersOK(mon'[k], have', fetch')
      BY <1>1, WorkersStay DEF DeliveryInv
<1> QED BY <1>3, <1>4, <1>5, <1>6 DEF DeliveryInv

----------------------------------------------------------------------------
(* Delivery: requests and the environment.                                 *)

LEMMA InitDelivers == Init => DeliveryInv
<1> SUFFICES ASSUME Init PROVE DeliveryInv
    OBVIOUS
<1>1. TypeInv
      BY InitTyped
<1>2. \A m \in Monitors : mon[m] = FreeMonitor /\ FreeMonitor.pc = "free"
      BY Constants DEF Init
<1>3. \A m \in Monitors : WorkersOK(mon[m], have, fetch)
      BY <1>2, ConstantsAssumption DEF WorkersOK, FreeMonitor, Pending, NoSub, Of
<1>4. EntriesOK(sync, have, fetch)
      BY ConstantsAssumption DEF Init, EntriesOK, EntryOK, Pending, Of
<1>5. FetchedOK(have, fetch)
      BY Constants DEF Init, FetchedOK
<1> QED BY <1>1, <1>2, <1>3, <1>4, <1>5 DEF DeliveryInv, Alone, SyncingInv, Init

\* Steps that start no coroutine and at most withdraw a job.
LEMMA QuietDelivers ==
    ASSUME DeliveryInv, TypeInv', Growing, UNCHANGED <<head, workers, sync, mon>>,
           \A j \in Jobs : status'[j] = status[j] \/ status'[j] \in {"paused", "cancelled", "deleted"},
           FetchedOK(have', fetch')
    PROVE  DeliveryInv'
<1>1. Alone'
      BY DEF DeliveryInv, Alone, TypeInv, TypeOK, MonitorsOK
<1>2. SyncingInv'
  <2> SUFFICES ASSUME NEW j \in Jobs, status'[j] = "syncing" PROVE have'[head[j]] = Files
      BY DEF SyncingInv
  <2>1. status[j] = "syncing" /\ head[j] \in Nodes
        BY DEF DeliveryInv, TypeInv, TypeOK, RowsOK
  <2> QED BY <2>1, FullStays DEF DeliveryInv, SyncingInv
<1>3. ASSUME NEW k \in Monitors, mon[k].pc # "free"
      PROVE  HeadOK(mon[k], status', head', have')
  <2>1. mon[k].job \in Jobs /\ head[mon[k].job] \in Nodes /\ mon[k] \in MonitorRecord
        BY <1>3, MonitorUsed DEF DeliveryInv
  <2>2. status'[mon[k].job] = "sending" => status[mon[k].job] = "sending"
        BY <2>1
  <2> QED BY <1>3, <2>1, <2>2, HeadStays DEF DeliveryInv
<1>4. \A k \in Monitors : WorkersOK(mon[k], have', fetch')
      BY WorkersStay DEF DeliveryInv
<1>5. EntriesOK(sync, have', fetch')
      BY EntriesStay DEF DeliveryInv
<1> QED BY <1>1, <1>2, <1>3, <1>4, <1>5 DEF DeliveryInv

LEMMA StillGrows ==
    ASSUME UNCHANGED <<have, fetch>>
    PROVE  Growing
BY DEF Growing

LEMMA WithdrawDelivers ==
    ASSUME DeliveryInv, NEW j \in Jobs, Pause(j) \/ Cancel(j) \/ Delete(j)
    PROVE  DeliveryInv'
<1>1. TypeInv' /\ Growing
      BY StatusTyped, StillGrows DEF Pause, Cancel, Delete, DeliveryInv
<1>2. \A k \in Jobs : status'[k] = status[k] \/ status'[k] \in {"paused", "cancelled", "deleted"}
      BY DEF Pause, Cancel, Delete, DeliveryInv, TypeInv, TypeOK, RowsOK
<1> QED BY <1>1, <1>2, QuietDelivers DEF Pause, Cancel, Delete, DeliveryInv

\* A job nobody works for gets its coroutine.
LEMMA SpawnDelivers ==
    ASSUME DeliveryInv, TypeInv', NEW j \in Jobs, Spawn(j),
           \A m \in Monitors : mon[m].pc # "free" => mon[m].job # j,
           status'[j] \notin {"failed", "completed", "syncing"},
           \A k \in Jobs \ {j} : status'[k] = status[k] /\ head'[k] = head[k],
           UNCHANGED <<sync, have, fetch>>
    PROVE  DeliveryInv'
<1> DEFINE w == [FreeMonitor EXCEPT !.job = j, !.pc = "begin"]
<1>1. w.job = j /\ w.pc = "begin" /\ w.plan = FreeMonitor.plan /\ w.sub = FreeMonitor.sub
      BY DEF FreeMonitor
<1>2. PICK m \in Monitors : mon[m].pc = "free" /\ mon' = [mon EXCEPT ![m] = w]
      BY DEF Spawn
<1> HIDE DEF w
<1>3. \A k \in Monitors : mon'[k] = IF k = m THEN w ELSE mon[k]
      BY <1>2 DEF DeliveryInv, TypeInv, TypeOK, MonitorsOK
<1>4. Growing
      BY StillGrows
<1>5. Alone'
      BY <1>1, <1>3 DEF DeliveryInv, Alone, TypeInv, TypeOK, MonitorsOK
<1>6. SyncingInv'
      BY DEF DeliveryInv, SyncingInv
<1>7. ASSUME NEW k \in Monitors, mon'[k].pc # "free"
      PROVE  HeadOK(mon'[k], status', head', have')
  <2>1. CASE k = m
        BY <1>1, <1>3, <2>1 DEF HeadOK
  <2>2. CASE k # m
    <3>1. /\ mon[k].pc # "free" /\ mon'[k] = mon[k] /\ mon[k].job \in Jobs \ {j}
          /\ head[mon[k].job] \in Nodes /\ mon[k] \in MonitorRecord
          BY <1>3, <1>7, <2>2, MonitorUsed DEF DeliveryInv
    <3>2. HeadOK(mon[k], status', head', have')
          BY <1>4, <3>1, HeadStays DEF DeliveryInv
    <3> QED BY <3>1, <3>2
  <2> QED BY <2>1, <2>2
<1>8. ASSUME NEW k \in Monitors
      PROVE  WorkersOK(mon'[k], have', fetch')
  <2>1. WorkersOK(w, have', fetch')
        BY <1>1, FreeWorkers DEF WorkersOK
  <2> QED BY <1>3, <1>4, <2>1, WorkersStay DEF DeliveryInv
<1>9. EntriesOK(sync', have', fetch') /\ FetchedOK(have', fetch')
      BY DEF DeliveryInv
<1> QED BY <1>5, <1>6, <1>7, <1>8, <1>9 DEF DeliveryInv

LEMMA RequestDelivers ==
    ASSUME DeliveryInv,
           \/ \E r \in Requests, h \in Nodes, W \in SUBSET Nodes, s \in {"downloading", "sending"} :
                StartCheck(r, h, W, s)
           \/ \E r \in Requests : StartInsert(r)
           \/ \E j \in Jobs : Retry(j)
    PROVE  DeliveryInv'
<1>1. ASSUME NEW r \in Requests, NEW h \in Nodes, NEW W \in SUBSET Nodes,
             NEW s \in {"downloading", "sending"}, StartCheck(r, h, W, s)
      PROVE  DeliveryInv'
  <2>1. TypeInv' /\ Growing
        BY <1>1, StartCheckTyped, StillGrows DEF StartCheck, DeliveryInv
  <2> QED BY <1>1, <2>1, QuietDelivers DEF StartCheck, DeliveryInv
<1>2. ASSUME NEW r \in Requests, StartInsert(r)
      PROVE  DeliveryInv'
  <2>1. PICK j \in Jobs : /\ status[j] = "unused" /\ Spawn(j)
                          /\ status' = [status EXCEPT ![j] = req[r].st]
                          /\ head' = [head EXCEPT ![j] = req[r].head]
        BY <1>2 DEF StartInsert
  <2>2. req[r].st \in {"unused", "downloading", "sending"}
        BY DEF DeliveryInv, TypeInv, TypeOK, RequestRecord
  <2>3. \A m \in Monitors : mon[m].pc # "free" => mon[m].job # j
        BY <2>1 DEF DeliveryInv, TypeInv, TypeOK, MonitorsOK
  <2>4. /\ status'[j] \notin {"failed", "completed", "syncing"}
        /\ \A k \in Jobs \ {j} : status'[k] = status[k] /\ head'[k] = head[k]
        BY <2>1, <2>2 DEF DeliveryInv, TypeInv, TypeOK, RowsOK
  <2>5. TypeInv'
        BY <1>2, StartInsertTyped DEF DeliveryInv
  <2> QED BY <1>2, <2>1, <2>3, <2>4, <2>5, SpawnDelivers DEF StartInsert
<1>3. ASSUME NEW j \in Jobs, Retry(j)
      PROVE  DeliveryInv'
  <2>1. status[j] = "failed" /\ Spawn(j) /\ status' = [status EXCEPT ![j] = "downloading"]
        BY <1>3 DEF Retry
  <2>2. \A m \in Monitors : mon[m].pc # "free" => mon[m].job # j
        BY <2>1 DEF DeliveryInv, Alone
  <2>3. /\ status'[j] \notin {"failed", "completed", "syncing"}
        /\ \A k \in Jobs \ {j} : status'[k] = status[k]
        BY <2>1 DEF DeliveryInv, TypeInv, TypeOK, RowsOK
  <2>4. TypeInv'
        BY <1>3, AgainTyped DEF DeliveryInv
  <2> QED BY <1>3, <2>1, <2>2, <2>3, <2>4, SpawnDelivers DEF Retry
<1> QED BY <1>1, <1>2, <1>3

LEMMA FetchGrows ==
    ASSUME AgentsOK, NEW f \in Fetches, Unused(f), NEW n, NEW j, NEW M, StartsFetch(f, n, j, M),
           UNCHANGED have
    PROVE  Growing
BY DEF Growing, StartsFetch, AgentsOK

LEMMA FetchDelivers ==
    ASSUME AgentsOK, NEW f \in Fetches, NEW n, NEW j, NEW M, StartsFetch(f, n, j, M),
           UNCHANGED have, FetchedOK(have, fetch), j # NoJob => M = Files
    PROVE  FetchedOK(have', fetch')
BY DEF FetchedOK, StartsFetch, AgentsOK

LEMMA AgentDelivers ==
    ASSUME DeliveryInv,
           \/ \E src, dst \in Nodes : ManualSync(src, dst)
           \/ \E n \in Nodes : AgentRestarts(n)
           \/ \E f \in Fetches : FetchEnds(f)
    PROVE  DeliveryInv'
<1>1. TypeInv' /\ UNCHANGED <<rowVars, mon>>
      BY AgentTyped DEF ManualSync, AgentRestarts, FetchEnds, DeliveryInv
<1>2. Growing /\ FetchedOK(have', fetch')
  <2>1. ASSUME NEW src \in Nodes, NEW dst \in Nodes, ManualSync(src, dst)
        PROVE  Growing /\ FetchedOK(have', fetch')
    <3>1. PICK f \in Fetches : Unused(f) /\ StartsFetch(f, dst, NoJob, have[src])
          BY <2>1 DEF ManualSync
    <3> QED BY <2>1, <3>1, FetchGrows, FetchDelivers DEF ManualSync, DeliveryInv, TypeInv, TypeOK
  <2>2. ASSUME NEW n \in Nodes, AgentRestarts(n)
        PROVE  Growing /\ FetchedOK(have', fetch')
        BY <2>2, Constants DEF AgentRestarts, Growing, FetchedOK, DeliveryInv
  <2>3. ASSUME NEW f \in Fetches, FetchEnds(f)
        PROVE  Growing /\ FetchedOK(have', fetch')
    <3>1. fetch[f] \in FetchRecord /\ fetch[f].node \in Nodes /\ fetch[f].st # "none"
          BY <2>3 DEF FetchEnds, DeliveryInv, TypeInv, TypeOK, AgentsOK, Live
    <3>2. \A g \in Fetches : /\ g # f => fetch'[g] = fetch[g]
                             /\ fetch'[g].node = fetch[g].node /\ fetch'[g].job = fetch[g].job
                             /\ fetch'[g].files = fetch[g].files
                             /\ fetch'[g].st # "none" => fetch[g].st # "none"
          BY <2>3, <3>1 DEF FetchEnds, DeliveryInv, TypeInv, TypeOK, AgentsOK, FetchRecord
    <3>3. \A n \in Nodes : have[n] \subseteq have'[n]
          BY <2>3, <3>1 DEF FetchEnds, DeliveryInv, TypeInv, TypeOK, AgentsOK
    <3>4. Growing
          BY <3>2, <3>3 DEF Growing
    <3>5. fetch'[f].st = "completed" /\ fetch[f].files = Files => have'[fetch[f].node] = Files
      <4>1. CASE have' = [have EXCEPT ![fetch[f].node] = @ \cup fetch[f].files]
            BY <3>1, <4>1 DEF DeliveryInv, TypeInv, TypeOK, AgentsOK
      <4>2. CASE UNCHANGED have /\ fetch' = [fetch EXCEPT ![f].st =
                                               IF @ = "running" THEN "failed" ELSE "cancelled"]
            BY <3>1, <4>2 DEF DeliveryInv, TypeInv, TypeOK, AgentsOK, FetchRecord
      <4> QED BY <2>3, <4>1, <4>2 DEF FetchEnds
    <3>6. ASSUME NEW g \in Fetches, fetch'[g].st # "none", fetch'[g].job # NoJob
          PROVE  fetch'[g].files = Files /\ (fetch'[g].st = "completed" => have'[fetch'[g].node] = Files)
      <4>1. fetch[g].files = Files
            BY <3>2, <3>6 DEF DeliveryInv, FetchedOK
      <4>2. CASE g = f
            BY <3>2, <3>5, <4>1, <4>2
      <4>3. CASE g # f
        <5>1. fetch[g].node \in Nodes
              BY <3>2, <3>6 DEF DeliveryInv, TypeInv, TypeOK, AgentsOK
        <5> QED BY <1>1, <3>2, <3>4, <3>6, <4>1, <4>3, <5>1, FullStays DEF DeliveryInv, FetchedOK
      <4> QED BY <4>2, <4>3
    <3> QED BY <3>4, <3>6 DEF FetchedOK
  <2> QED BY <2>1, <2>2, <2>3
<1> QED BY <1>1, <1>2, QuietDelivers

\* A restart of the backend leaves the rows and the agents, and gives every active job one
\* new coroutine.
LEMMA CrashDelivers ==
    ASSUME DeliveryInv, Crash
    PROVE  DeliveryInv'
<1>1. TypeInv' /\ UNCHANGED <<status, head, workers, sync, fetch>>
      BY CrashTyped DEF Crash, DeliveryInv, rowVars
<1>2. \A n \in Nodes : have[n] \subseteq have'[n]
  <2>1. PICK late \in [Monitors -> SUBSET Files] :
          have' = [n \in Nodes |-> have[n] \cup
                    UNION {late[m] : m \in {k \in Monitors : late[k] # {} /\ head[mon[k].job] = n}}]
        BY DEF Crash
  <2> DEFINE more(n) == UNION {late[m] : m \in {k \in Monitors : late[k] # {} /\ head[mon[k].job] = n}}
  <2>2. have' = [n \in Nodes |-> have[n] \cup more(n)]
        BY <2>1
  <2> HIDE DEF more
  <2> QED BY <2>2
<1>3. Growing
      BY <1>1, <1>2 DEF Growing
<1>4. PICK g \in [Monitors -> {j \in Jobs : status[j] \in Phases} \cup {NoJob}] :
        /\ \A m, k \in Monitors : g[m] = g[k] /\ g[m] # NoJob => m = k
        /\ mon' = [m \in Monitors |-> IF g[m] = NoJob THEN FreeMonitor
                                      ELSE [FreeMonitor EXCEPT !.job = g[m], !.pc = "begin"]]
      BY DEF Crash
<1>5. ASSUME NEW m \in Monitors
      PROVE  /\ mon'[m].plan = FreeMonitor.plan /\ mon'[m].sub = FreeMonitor.sub
             /\ mon'[m].pc \in {"free", "begin"}
             /\ mon'[m].pc # "free" => mon'[m].job = g[m] /\ g[m] # NoJob /\ status[g[m]] \in Phases
      BY <1>4 DEF FreeMonitor
<1>6. Alone'
  <2>1. \A m, k \in Monitors :
          mon'[m].pc # "free" /\ mon'[k].pc # "free" /\ mon'[m].job = mon'[k].job => m = k
    <3>1. \A m, k \in Monitors : g[m] = g[k] /\ g[m] # NoJob => m = k
          BY <1>4
    <3>2. \A m \in Monitors : mon'[m].pc # "free" => mon'[m].job = g[m] /\ g[m] # NoJob
          BY <1>5
    <3> QED BY <3>1, <3>2
  <2>2. \A m \in Monitors : mon'[m].pc # "free" => status'[mon'[m].job] \notin {"failed", "completed"}
    <3> SUFFICES ASSUME NEW m \in Monitors, mon'[m].pc # "free"
                 PROVE  status'[mon'[m].job] \notin {"failed", "completed"}
        OBVIOUS
    <3>1. mon'[m].job = g[m] /\ status[g[m]] \in Phases
          BY <1>5
    <3> QED BY <1>1, <3>1 DEF Phases
  <2> QED BY <2>1, <2>2 DEF Alone
<1>7. SyncingInv'
  <2> SUFFICES ASSUME NEW j \in Jobs, status[j] = "syncing" PROVE have'[head[j]] = Files
      BY <1>1 DEF SyncingInv
  <2>1. head[j] \in Nodes
        BY DEF DeliveryInv, TypeInv, TypeOK, RowsOK
  <2> QED BY <1>1, <1>3, <2>1, FullStays DEF DeliveryInv, SyncingInv
<1>8. \A m \in Monitors : mon'[m].pc # "free" => HeadOK(mon'[m], status', head', have')
      BY <1>5 DEF HeadOK
<1>9. \A m \in Monitors : WorkersOK(mon'[m], have', fetch')
      BY <1>5, FreeWorkers DEF WorkersOK
<1>10. EntriesOK(sync', have', fetch') /\ FetchedOK(have', fetch')
       BY <1>1, <1>3, EntriesStay, FetchedStays DEF DeliveryInv
<1> QED BY <1>1, <1>6, <1>7, <1>8, <1>9, <1>10 DEF DeliveryInv

----------------------------------------------------------------------------
(* Delivery: the coroutine up to the head.                                 *)

\* What is known of a coroutine that is about to step.
LEMMA Stepping ==
    ASSUME DeliveryInv, NEW m \in Monitors, mon[m].pc # "free"
    PROVE  /\ mon[m] \in MonitorRecord /\ mon[m].job \in Jobs /\ head[mon[m].job] \in Nodes
           /\ status[mon[m].job] \in Status \ {"failed", "completed", "unused"}
           /\ HeadOK(mon[m], status, head, have) /\ WorkersOK(mon[m], have, fetch)
           /\ status[mon[m].job] = "syncing" => have[head[mon[m].job]] = Files
BY MonitorUsed DEF DeliveryInv, Alone, SyncingInv, TypeInv, TypeOK, RowsOK, MonitorsOK

\* Steps that change neither the agents nor the entries.
LEMMA RowStepDelivers ==
    ASSUME DeliveryInv, TypeInv', NEW m \in Monitors, mon[m].pc # "free", NEW w,
           mon' = [mon EXCEPT ![m] = w], w.pc = "free" \/ w.job = mon[m].job,
           UNCHANGED <<head, sync, have, fetch>>,
           \A j \in Jobs \ {mon[m].job} : status'[j] = status[j],
           w.pc # "free" => /\ status'[w.job] \notin {"failed", "completed"}
                            /\ HeadOK(w, status', head, have),
           WorkersOK(w, have, fetch),
           status'[mon[m].job] = "syncing" => have[head[mon[m].job]] = Files
    PROVE  DeliveryInv'
BY StillGrows, StepDelivers DEF DeliveryInv

LEMMA EndDelivers ==
    ASSUME DeliveryInv, TypeInv', NEW m \in Monitors, mon[m].pc # "free", Ends(m),
           UNCHANGED <<head, sync, have, fetch>>,
           \A j \in Jobs \ {mon[m].job} : status'[j] = status[j],
           status'[mon[m].job] = "syncing" => status[mon[m].job] = "syncing"
    PROVE  DeliveryInv'
<1>1. WorkersOK(FreeMonitor, have, fetch) /\ FreeMonitor.pc = "free"
      BY FreeWorkers, Constants
<1>2. mon' = [mon EXCEPT ![m] = FreeMonitor]
      BY DEF Ends
<1> QED BY <1>1, <1>2, Stepping, RowStepDelivers

\* A coroutine that goes on with w unless its row is gone.
LEMMA GoesDelivers ==
    ASSUME DeliveryInv, TypeInv', Growing, NEW m \in Monitors, mon[m].pc # "free", NEW w,
           Goes(m, w), w.job = mon[m].job, UNCHANGED head,
           \A j \in Jobs \ {mon[m].job} : status'[j] = status[j],
           status'[w.job] \notin {"failed", "completed"},
           HeadOK(w, status', head, have'), WorkersOK(w, have', fetch'),
           status'[mon[m].job] = "syncing" => have'[head[mon[m].job]] = Files,
           EntriesOK(sync', have', fetch'), FetchedOK(have', fetch')
    PROVE  DeliveryInv'
<1> DEFINE u == IF Exists(mon[m].job) THEN w ELSE FreeMonitor
<1>1. u = w \/ (u = FreeMonitor /\ u.pc = "free")
      BY Constants
<1>2. mon' = [mon EXCEPT ![m] = u]
      BY DEF Goes
<1>3. WorkersOK(u, have', fetch')
      BY <1>1, FreeWorkers
<1> HIDE DEF u
<1> QED BY <1>1, <1>2, <1>3, StepDelivers

LEMMA RowGoesDelivers ==
    ASSUME DeliveryInv, TypeInv', NEW m \in Monitors, mon[m].pc # "free", NEW w,
           Goes(m, w), w.job = mon[m].job, UNCHANGED <<head, sync, have, fetch>>,
           \A j \in Jobs \ {mon[m].job} : status'[j] = status[j],
           status'[w.job] \notin {"failed", "completed"},
           HeadOK(w, status', head, have), WorkersOK(w, have, fetch),
           status'[mon[m].job] = "syncing" => have[head[mon[m].job]] = Files
    PROVE  DeliveryInv'
BY StillGrows, GoesDelivers DEF DeliveryInv

LEMMA BeginDelivers ==
    ASSUME DeliveryInv, NEW m \in Monitors, Begin(m)
    PROVE  DeliveryInv'
<1> DEFINE w == [mon[m] EXCEPT !.pc = "prep", !.seen = status[mon[m].job]]
<1>1. mon[m].pc # "free" /\ UNCHANGED <<rowVars, phase, have, fetch, req>>
      BY DEF Begin
<1>2. TypeInv'
      BY BeginTyped DEF DeliveryInv
<1>3. CASE Ends(m)
      BY <1>1, <1>2, <1>3, EndDelivers DEF rowVars
<1>4. CASE Goes(m, w)
  <2>1. /\ w.job = mon[m].job /\ w.pc = "prep" /\ w.seen = status[mon[m].job]
        /\ w.plan = mon[m].plan /\ w.sub = mon[m].sub
        BY <1>1, Stepping DEF MonitorRecord
  <2> HIDE DEF w
  <2>2. HeadOK(w, status, head, have) /\ WorkersOK(w, have, fetch)
        BY <1>1, <2>1, Stepping DEF HeadOK, WorkersOK
  <2> QED BY <1>1, <1>2, <1>4, <2>1, <2>2, Stepping, RowGoesDelivers DEF rowVars
<1> QED BY <1>3, <1>4 DEF Begin

\* What follows the sending phase, for a complete head.
LEMMA ToWorkersDelivers ==
    ASSUME DeliveryInv, TypeInv', NEW m \in Monitors, mon[m].pc # "free",
           have[head[mon[m].job]] = Files, NEW now \in Status \ {"failed", "completed", "unused"},
           ToWorkers(m, now), UNCHANGED <<head, sync, have, fetch>>
    PROVE  DeliveryInv'
<1> DEFINE j == mon[m].job
           w == [mon[m] EXCEPT !.pc = "share", !.seen = now, !.plan = sync[j]]
<1>1. j \in Jobs /\ status \in [Jobs -> Status] /\ mon[m] \in MonitorRecord
      BY Stepping DEF DeliveryInv, TypeInv, TypeOK, RowsOK
<1>2. \A k \in Jobs \ {j} : status'[k] = status[k]
      BY <1>1 DEF ToWorkers
<1>3. CASE workers[j] = {}
  <2>1. Ends(m)
        BY <1>3 DEF ToWorkers
  <2>2. status'[j] = "syncing" => status[j] = "syncing"
        BY <1>1, <1>3 DEF ToWorkers
  <2> QED BY <1>2, <2>1, <2>2, EndDelivers
<1>4. CASE workers[j] # {}
  <2>1. /\ w.job = j /\ w.pc = "share" /\ w.plan = sync[j] /\ w.sub = mon[m].sub
        BY <1>1 DEF MonitorRecord
  <2>2. Goes(m, w) /\ status'[j] \in {now, status[j]}
        BY <1>1, <1>4 DEF ToWorkers
  <2> HIDE DEF w
  <2>3. HeadOK(w, status', head, have)
        BY <2>1 DEF HeadOK
  <2>4. WorkersOK(w, have, fetch)
        BY <1>1, <2>1, Stepping DEF WorkersOK, DeliveryInv, EntriesOK, EntryOK
  <2>5. status'[j] \notin {"failed", "completed"}
        BY <2>2, Stepping
  <2> QED BY <1>2, <2>1, <2>2, <2>3, <2>4, <2>5, RowGoesDelivers
<1> QED BY <1>3, <1>4

LEMMA PreparedDelivers ==
    ASSUME DeliveryInv, NEW m \in Monitors, Prepared(m) \/ Mirrored(m)
    PROVE  DeliveryInv'
<1>1. mon[m].pc \in {"prep", "mirror"} /\ UNCHANGED <<head, sync, have, fetch>>
      BY DEF Prepared, Mirrored
<1>2. TypeInv'
      BY PreparedTyped DEF DeliveryInv
<1>3. CASE Mirrored(m)
  <2>1. have[head[mon[m].job]] = Files /\ "syncing" \in Status
        BY <1>1, <1>3, Stepping DEF Mirrored, HeadOK, Status, Occupying, Phases
  <2> QED BY <1>1, <1>2, <1>3, <2>1, ToWorkersDelivers DEF Mirrored
<1>4. CASE Prepared(m) /\ mon[m].seen = "syncing"
  <2>1. have[head[mon[m].job]] = Files /\ ToWorkers(m, status[mon[m].job])
        BY <1>1, <1>4, Stepping DEF Prepared, HeadOK
  <2> QED BY <1>1, <1>2, <2>1, Stepping, ToWorkersDelivers
<1>5. CASE Prepared(m) /\ mon[m].seen # "syncing"
  <2> DEFINE w == [mon[m] EXCEPT !.pc = "send", !.todo = Files]
             j == mon[m].job
  <2>1. Writes(m, "sending") /\ Goes(m, w)
        BY <1>5 DEF Prepared
  <2>2. /\ w.job = j /\ w.pc = "send" /\ w.todo = Files
        /\ w.plan = mon[m].plan /\ w.sub = mon[m].sub
        BY <1>1, Stepping DEF MonitorRecord
  <2> HIDE DEF w
  <2>3. HeadOK(w, status', head, have) /\ WorkersOK(w, have, fetch)
        BY <1>1, <2>2, Stepping DEF HeadOK, WorkersOK
  <2>4. status \in [Jobs -> Status] /\ j \in Jobs
        BY <1>1, Stepping DEF DeliveryInv, TypeInv, TypeOK, RowsOK
  <2>5. status'[j] \in {"sending", status[j]} /\ \A k \in Jobs \ {j} : status'[k] = status[k]
        BY <2>1, <2>4 DEF Writes
  <2>6. status'[j] \notin {"failed", "completed"}
        BY <1>1, <2>5, Stepping
  <2> QED BY <1>1, <1>2, <2>1, <2>2, <2>3, <2>5, <2>6, Stepping, RowGoesDelivers
<1> QED BY <1>3, <1>4, <1>5

\* A coroutine that gives up writes failed, or nothing.
LEMMA FailDelivers ==
    ASSUME DeliveryInv, NEW m \in Monitors, PrepareFails(m) \/ ShareFails(m) \/ SendFails(m)
    PROVE  DeliveryInv'
<1> DEFINE j == mon[m].job
<1>1. mon[m].pc # "free" /\ Ends(m) /\ UNCHANGED <<head, sync, fetch>> /\ mon[m].pc \in {"prep", "share", "send"}
      BY DEF PrepareFails, ShareFails, SendFails
<1>2. TypeInv'
      BY FailsTyped DEF DeliveryInv
<1>3. status \in [Jobs -> Status] /\ j \in Jobs
      BY <1>1, Stepping DEF DeliveryInv, TypeInv, TypeOK, RowsOK
<1>4. status'[j] \in {"failed", status[j]} /\ \A k \in Jobs \ {j} : status'[k] = status[k]
      BY <1>3 DEF PrepareFails, ShareFails, SendFails, Writes
<1>5. Growing
  <2>1. CASE SendFails(m)
    <3>1. PICK late \in SUBSET mon[m].flying : have' = [have EXCEPT ![head[j]] = @ \cup late]
          BY <2>1 DEF SendFails
    <3> QED BY <1>1, <3>1 DEF Growing, DeliveryInv, TypeInv, TypeOK, AgentsOK
  <2>2. CASE UNCHANGED have
        BY <1>1, <2>2, StillGrows
  <2> QED BY <2>1, <2>2 DEF PrepareFails, ShareFails
<1>6. mon' = [mon EXCEPT ![m] = FreeMonitor] /\ FreeMonitor.pc = "free"
      BY <1>1, Constants DEF Ends
<1>7. status'[j] = "syncing" => have'[head[j]] = Files
      BY <1>1, <1>2, <1>4, <1>5, Stepping, FullStays DEF DeliveryInv
<1>8. EntriesOK(sync', have', fetch') /\ FetchedOK(have', fetch')
      BY <1>1, <1>2, <1>5, EntriesStay, FetchedStays DEF DeliveryInv
<1> QED BY <1>1, <1>2, <1>4, <1>5, <1>6, <1>7, <1>8, FreeWorkers, StepDelivers

LEMMA SendDelivers ==
    ASSUME DeliveryInv, NEW m \in Monitors,
           (\E f \in Files : SendCheck(m, f) \/ SendDone(m, f)) \/ SendEnd(m)
    PROVE  DeliveryInv'
<1> DEFINE j == mon[m].job
<1>1. mon[m].pc = "send" /\ mon[m].pc # "free" /\ UNCHANGED <<rowVars, phase, fetch, req>>
      BY DEF SendCheck, SendDone, SendEnd
<1>2. TypeInv'
      BY SendTyped DEF DeliveryInv
<1>3. /\ mon[m] \in MonitorRecord /\ j \in Jobs /\ head[j] \in Nodes
      /\ status[j] = "sending" => Files \subseteq mon[m].todo \cup mon[m].flying \cup have[head[j]]
      BY <1>1, Stepping DEF HeadOK
<1>4. ASSUME NEW f \in Files, SendCheck(m, f)
      PROVE  DeliveryInv'
  <2> DEFINE w == [mon[m] EXCEPT !.todo = @ \ {f}, !.flying = IF status[j] = "sending" THEN @ \cup {f} ELSE @]
  <2>1. /\ w.job = j /\ w.pc = "send" /\ w.plan = mon[m].plan /\ w.sub = mon[m].sub
        /\ w.todo = mon[m].todo \ {f}
        /\ status[j] = "sending" => w.flying = mon[m].flying \cup {f}
        BY <1>1, <1>3 DEF MonitorRecord
  <2>2. Goes(m, w) /\ UNCHANGED have
        BY <1>4 DEF SendCheck
  <2> HIDE DEF w
  <2>3. HeadOK(w, status, head, have) /\ WorkersOK(w, have, fetch)
        BY <1>1, <1>3, <2>1, Stepping DEF HeadOK, WorkersOK
  <2> QED BY <1>1, <1>2, <2>1, <2>2, <2>3, Stepping, RowGoesDelivers DEF rowVars
<1>5. ASSUME NEW f \in Files, SendDone(m, f)
      PROVE  DeliveryInv'
  <2> DEFINE w == [mon[m] EXCEPT !.flying = @ \ {f}]
  <2>1. /\ w.job = j /\ w.pc = "send" /\ w.plan = mon[m].plan /\ w.sub = mon[m].sub
        /\ w.todo = mon[m].todo /\ w.flying = mon[m].flying \ {f}
        BY <1>1, <1>3 DEF MonitorRecord
  <2>2. mon' = [mon EXCEPT ![m] = w] /\ have' = [have EXCEPT ![head[j]] = @ \cup {f}]
        BY <1>3, <1>5 DEF SendDone, MonitorRecord
  <2> HIDE DEF w
  <2>3. Growing /\ have'[head[j]] = have[head[j]] \cup {f}
        BY <1>1, <1>3, <2>2 DEF Growing, DeliveryInv, TypeInv, TypeOK, AgentsOK
  <2>4. HeadOK(w, status', head, have')
        BY <1>1, <1>3, <2>1, <2>3 DEF HeadOK, rowVars
  <2>5. WorkersOK(w, have', fetch')
        BY <1>1, <1>2, <2>1, <2>3, WorkersStay DEF DeliveryInv, WorkersOK
  <2>6. EntriesOK(sync', have', fetch') /\ FetchedOK(have', fetch')
        BY <1>1, <1>2, <2>3, EntriesStay, FetchedStays DEF DeliveryInv, rowVars
  <2>7. status'[j] = "syncing" => have'[head[j]] = Files
        BY <1>1, <1>2, <1>3, <2>3, Stepping, FullStays DEF DeliveryInv, rowVars
  <2>8. status'[j] \notin {"failed", "completed"} /\ UNCHANGED <<status, head>>
        BY <1>1, Stepping DEF rowVars
  <2> QED BY <1>1, <1>2, <2>1, <2>2, <2>3, <2>4, <2>5, <2>6, <2>7, <2>8, StepDelivers
<1>6. CASE SendEnd(m)
  <2> DEFINE w == [mon[m] EXCEPT !.pc = "mirror", !.seen = "sending"]
  <2>1. UNCHANGED <<head, sync, have, fetch, status>>
        BY <1>6 DEF SendEnd, rowVars
  <2>2. CASE Ends(m)
        BY <1>1, <1>2, <2>1, <2>2, EndDelivers
  <2>3. CASE status[j] = "sending" /\ Goes(m, w)
    <3>1. w.job = j /\ w.pc = "mirror" /\ w.plan = mon[m].plan /\ w.sub = mon[m].sub
          BY <1>3 DEF MonitorRecord
    <3>2. have[head[j]] = Files
          BY <1>3, <1>6, <2>3 DEF SendEnd, DeliveryInv, TypeInv, TypeOK, AgentsOK
    <3> HIDE DEF w
    <3>3. HeadOK(w, status, head, have) /\ WorkersOK(w, have, fetch)
          BY <1>1, <3>1, <3>2, Stepping DEF HeadOK, WorkersOK
    <3> QED BY <1>1, <1>2, <2>1, <2>3, <3>1, <3>3, Stepping, RowGoesDelivers
  <2> QED BY <1>6, <2>2, <2>3 DEF SendEnd
<1> QED BY <1>4, <1>5, <1>6

----------------------------------------------------------------------------
(* Delivery: the coroutine and the workers.                                *)

LEMMA ShareDelivers ==
    ASSUME DeliveryInv, NEW m \in Monitors, Share(m)
    PROVE  DeliveryInv'
<1> DEFINE j == mon[m].job
           todo == {n \in workers[j] : mon[m].plan[n].st # "completed"}
           v == [mon[m] EXCEPT !.files = have[head[j]], !.check = todo, !.pc = "check"]
           u == [mon[m] EXCEPT !.files = have[head[j]], !.check = todo, !.pc = "sync",
                               !.plan = FreeMonitor.plan]
<1>1. mon[m].pc # "free" /\ UNCHANGED <<status, head, sync, have, fetch>>
      BY DEF Share
<1>2. TypeInv'
      BY ShareTyped DEF DeliveryInv
<1>3. mon[m] \in MonitorRecord /\ have[head[j]] = Files
      BY <1>1, Stepping DEF Share, HeadOK
<1>4. Goes(m, v) \/ Goes(m, u)
      BY DEF Share
<1> HIDE DEF todo
<1>5. /\ v.job = j /\ v.pc = "check" /\ v.files = have[head[j]]
      /\ v.plan = mon[m].plan /\ v.sub = mon[m].sub
      BY <1>3 DEF MonitorRecord
<1>6. /\ u.job = j /\ u.pc = "sync" /\ u.files = have[head[j]]
      /\ u.plan = FreeMonitor.plan /\ u.sub = mon[m].sub
      BY <1>3 DEF MonitorRecord
<1> HIDE DEF v, u
<1>7. WorkersOK(v, have, fetch) /\ WorkersOK(u, have, fetch)
  <2>1. WorkersOK(FreeMonitor, have, fetch)
        BY <1>1, FreeWorkers
  <2> QED BY <1>1, <1>5, <1>6, <2>1, Stepping DEF WorkersOK
<1>8. HeadOK(v, status, head, have) /\ HeadOK(u, status, head, have)
      BY <1>3, <1>5, <1>6 DEF HeadOK
<1> QED BY <1>1, <1>2, <1>4, <1>5, <1>6, <1>7, <1>8, Stepping, RowGoesDelivers

\* The entries of a job, written as a whole.
LEMMA EntriesWritten ==
    ASSUME TypeInv, NEW H, NEW F, EntriesOK(sync, H, F), NEW j \in Jobs, NEW plan,
           \A n \in Nodes : EntryOK(plan[n], n, H, F),
           sync' = IF Exists(j) THEN [sync EXCEPT ![j] = plan] ELSE sync
    PROVE  EntriesOK(sync', H, F)
BY DEF EntriesOK, TypeInv, TypeOK, RowsOK

LEMMA CheckedDelivers ==
    ASSUME DeliveryInv, TypeInv', NEW m \in Monitors, mon[m].pc = "check", NEW w \in MonitorRecord,
           w.job = mon[m].job, w.pc = "check", w.files = Files, WorkersOK(w, have, fetch),
           Checked(m, w), UNCHANGED <<status, head, have, fetch>>
    PROVE  DeliveryInv'
<1> DEFINE j == mon[m].job
           u == [w EXCEPT !.pc = "sync", !.plan = FreeMonitor.plan]
<1>1. mon[m].pc # "free" /\ have[head[j]] = Files
      BY Stepping DEF HeadOK
<1>2. CASE Goes(m, w) /\ UNCHANGED sync
  <2>1. HeadOK(w, status, head, have)
        BY <1>1 DEF HeadOK
  <2> QED BY <1>1, <1>2, <2>1, Stepping, RowGoesDelivers
<1>3. CASE Goes(m, u) /\ sync' = IF Exists(j) THEN [sync EXCEPT ![j] = w.plan] ELSE sync
  <2>1. u.job = j /\ u.pc = "sync" /\ u.files = Files /\ u.plan = FreeMonitor.plan /\ u.sub = w.sub
        BY DEF MonitorRecord
  <2> HIDE DEF u
  <2>2. HeadOK(u, status, head, have)
        BY <1>1, <2>1 DEF HeadOK
  <2>3. WorkersOK(u, have', fetch')
        BY <2>1, FreeWorkers DEF WorkersOK
  <2>4. EntriesOK(sync', have, fetch)
    <3>1. \A n \in Nodes : EntryOK(w.plan[n], n, have, fetch)
          BY DEF EntryOK, WorkersOK
    <3> QED BY <1>1, <1>3, <3>1, Stepping, EntriesWritten DEF DeliveryInv
  <2>5. Growing /\ FetchedOK(have', fetch')
        BY StillGrows DEF DeliveryInv
  <2> QED BY <1>1, <1>3, <2>1, <2>2, <2>3, <2>4, <2>5, Stepping, GoesDelivers
<1> QED BY <1>2, <1>3 DEF Checked

LEMMA PlanChanged ==
    ASSUME NEW w \in MonitorRecord, NEW n \in Nodes, NEW s \in {"completed", "syncing"},
           NEW u, u = [w EXCEPT !.plan[n].st = s]
    PROVE  /\ u \in MonitorRecord /\ u.job = w.job /\ u.pc = w.pc /\ u.files = w.files
           /\ u.sub = w.sub
           /\ \A k \in Nodes : /\ u.plan[k].fid = w.plan[k].fid
                              /\ u.plan[k].st = IF k = n THEN s ELSE w.plan[k].st
<1> DEFINE e == [w.plan[n] EXCEPT !.st = s]
           p == [w.plan EXCEPT ![n] = e]
<1>1. w.plan[n] \in SyncEntry /\ w.plan \in [Nodes -> SyncEntry]
      BY DEF MonitorRecord
<1>2. e \in SyncEntry /\ e.fid = w.plan[n].fid /\ e.st = s
      BY <1>1 DEF SyncEntry
<1>3. u = [w EXCEPT !.plan = p]
      BY DEF MonitorRecord
<1> HIDE DEF e
<1>4. p \in [Nodes -> SyncEntry] /\ \A k \in Nodes : p[k] = IF k = n THEN e ELSE w.plan[k]
      BY <1>1, <1>2
<1> HIDE DEF p
<1>5. /\ u \in MonitorRecord /\ u.job = w.job /\ u.pc = w.pc /\ u.files = w.files
      /\ u.sub = w.sub /\ u.plan = p
      BY <1>3, <1>4 DEF MonitorRecord
<1> QED BY <1>2, <1>4, <1>5

LEMMA CheckWorkerDelivers ==
    ASSUME DeliveryInv, NEW m \in Monitors, NEW n \in Nodes, CheckWorker(m, n)
    PROVE  DeliveryInv'
<1> DEFINE old == mon[m].plan[n]
           next == IF old.st = "syncing" /\ old.fid # NoFetch
                   THEN [NoSub EXCEPT !.pc = "adopt", !.fid = old.fid]
                   ELSE [NoSub EXCEPT !.pc = "fetch"]
           w == [mon[m] EXCEPT !.check = @ \ {n}]
           u == [w EXCEPT !.plan[n].st = "completed"]
           v == [w EXCEPT !.plan[n].st = "syncing", !.sub[n] = next]
<1>1. mon[m].pc = "check" /\ mon[m].pc # "free" /\ UNCHANGED <<status, head, have, fetch>>
      BY DEF CheckWorker
<1>2. TypeInv' /\ mon[m] \in MonitorRecord /\ mon[m].files = Files /\ WorkersOK(mon[m], have, fetch)
      BY <1>1, CheckWorkerTyped, Stepping DEF DeliveryInv, HeadOK
<1>3. next.res # "completed" /\ Of(next.fid, n, fetch) /\ next \in SubRecord
  <2>1. old \in SyncEntry /\ Of(old.fid, n, fetch)
        BY <1>2 DEF MonitorRecord, WorkersOK
  <2>2. Of(NoFetch, n, fetch)
        BY ConstantsAssumption DEF Of
  <2> QED BY <2>1, <2>2 DEF NoSub, SubRecord, SyncEntry, FetchId
<1>4. \/ have[n] = Files /\ Checked(m, u)
      \/ Checked(m, v)
      BY DEF CheckWorker
<1>5. /\ w \in MonitorRecord /\ w.job = mon[m].job /\ w.pc = "check" /\ w.files = Files
      /\ w.plan = mon[m].plan /\ w.sub = mon[m].sub
      BY <1>1, <1>2 DEF MonitorRecord
<1> HIDE DEF w, next
<1>6. ASSUME have[n] = Files
      PROVE  /\ u \in MonitorRecord /\ u.job = mon[m].job /\ u.pc = "check" /\ u.files = Files
             /\ WorkersOK(u, have, fetch)
  <2>1. /\ u \in MonitorRecord /\ u.job = mon[m].job /\ u.pc = "check" /\ u.files = Files
        /\ u.sub = w.sub /\ \A k \in Nodes : u.plan[k].fid = w.plan[k].fid
        /\ \A k \in Nodes : u.plan[k].st = IF k = n THEN "completed" ELSE w.plan[k].st
        BY <1>5, PlanChanged
  <2> HIDE DEF u
  <2> QED BY <1>2, <1>5, <1>6, <2>1 DEF WorkersOK
<1>7. /\ v \in MonitorRecord /\ v.job = mon[m].job /\ v.pc = "check" /\ v.files = Files
      /\ WorkersOK(v, have, fetch)
  <2> DEFINE x == [w EXCEPT !.plan[n].st = "syncing"]
  <2>1. /\ x \in MonitorRecord /\ x.job = mon[m].job /\ x.pc = "check" /\ x.files = Files
        /\ x.sub = w.sub /\ \A k \in Nodes : x.plan[k].fid = w.plan[k].fid
        /\ \A k \in Nodes : x.plan[k].st = IF k = n THEN "syncing" ELSE w.plan[k].st
        BY <1>5, PlanChanged
  <2>2. v = [x EXCEPT !.sub[n] = next]
        OBVIOUS
  <2> HIDE DEF x, v
  <2>3. /\ v \in MonitorRecord /\ v.job = x.job /\ v.pc = x.pc /\ v.files = x.files
        /\ v.plan = x.plan /\ \A k \in Nodes : v.sub[k] = IF k = n THEN next ELSE x.sub[k]
        BY <1>3, <2>1, <2>2 DEF MonitorRecord
  <2> QED BY <1>2, <1>3, <1>5, <2>1, <2>3 DEF WorkersOK
<1> HIDE DEF u, v
<1> QED BY <1>1, <1>2, <1>4, <1>6, <1>7, CheckedDelivers

\* A worker's coroutine moves to the record s.
LEMMA SubDelivers ==
    ASSUME DeliveryInv, TypeInv', Growing, NEW m \in Monitors, mon[m].pc = "sync", NEW n \in Nodes,
           NEW s \in SubRecord, mon' = [mon EXCEPT ![m].sub[n] = s], UNCHANGED <<status, head, have>>,
           s.res = "completed" => have[n] = Files, Of(s.fid, n, fetch'),
           EntriesOK(sync', have', fetch'), FetchedOK(have', fetch')
    PROVE  DeliveryInv'
<1> DEFINE w == [mon[m] EXCEPT !.sub[n] = s]
<1>1. mon[m] \in MonitorRecord /\ HeadOK(mon[m], status, head, have)
      BY Stepping
<1>2. /\ w.job = mon[m].job /\ w.pc = "sync" /\ w.files = mon[m].files /\ w.plan = mon[m].plan
      /\ \A k \in Nodes : w.sub[k] = IF k = n THEN s ELSE mon[m].sub[k]
      BY <1>1 DEF MonitorRecord
<1>3. mon' = [mon EXCEPT ![m] = w]
      BY <1>1 DEF DeliveryInv, TypeInv, TypeOK, MonitorsOK, MonitorRecord
<1> HIDE DEF w
<1>4. HeadOK(w, status', head, have')
      BY <1>1, <1>2 DEF HeadOK
<1>5. WorkersOK(mon[m], have', fetch')
      BY WorkersStay DEF DeliveryInv
<1>6. WorkersOK(w, have', fetch')
      BY <1>2, <1>5 DEF WorkersOK
<1> QED BY <1>2, <1>3, <1>4, <1>6, Stepping, StepDelivers

LEMMA SubGoesDelivers ==
    ASSUME DeliveryInv, TypeInv', Growing, NEW m \in Monitors, mon[m].pc = "sync", NEW n \in Nodes,
           NEW f \in FetchId, NEW pc \in {"stopOld", "fetch", "record", "poll", "stop"},
           SubGoes(m, n, pc, f), UNCHANGED <<status, head, have>>, Of(f, n, fetch'),
           EntriesOK(sync', have', fetch'), FetchedOK(have', fetch')
    PROVE  DeliveryInv'
<1> DEFINE s == [mon[m].sub[n] EXCEPT !.pc = pc, !.fid = f]
<1>1. mon[m] \in MonitorRecord /\ mon[m].sub[n] \in SubRecord /\ WorkersOK(mon[m], have, fetch)
      BY Stepping DEF MonitorRecord
<1>2. s \in SubRecord /\ s.res = mon[m].sub[n].res /\ s.fid = f
      BY <1>1 DEF SubRecord
<1>3. mon' = [mon EXCEPT ![m].sub[n] = s]
      BY <1>1 DEF SubGoes, MonitorRecord, DeliveryInv, TypeInv, TypeOK, MonitorsOK
<1> HIDE DEF s
<1> QED BY <1>1, <1>2, <1>3, SubDelivers DEF WorkersOK

LEMMA ReturnsDelivers ==
    ASSUME DeliveryInv, TypeInv', Growing, NEW m \in Monitors, mon[m].pc = "sync", NEW n \in Nodes,
           NEW res \in {"paused", "completed", "failed", "cancelled"}, Returns(m, n, res),
           UNCHANGED <<status, head, have>>, res = "completed" => have[n] = Files,
           EntriesOK(sync', have', fetch'), FetchedOK(have', fetch')
    PROVE  DeliveryInv'
<1> DEFINE s == [mon[m].sub[n] EXCEPT !.pc = "done", !.res = res]
<1>1. mon[m] \in MonitorRecord /\ mon[m].sub[n] \in SubRecord /\ WorkersOK(mon[m], have', fetch')
      BY Stepping, WorkersStay DEF MonitorRecord, DeliveryInv
<1>2. s \in SubRecord /\ s.res = res /\ s.fid = mon[m].sub[n].fid
      BY <1>1 DEF SubRecord
<1>3. mon' = [mon EXCEPT ![m].sub[n] = s]
      BY <1>1 DEF Returns, MonitorRecord, DeliveryInv, TypeInv, TypeOK, MonitorsOK
<1> HIDE DEF s
<1> QED BY <1>1, <1>2, <1>3, SubDelivers DEF WorkersOK

\* A fetch job that an agent reports as completed has filled the node it was started on.
LEMMA AgentCompleted ==
    ASSUME DeliveryInv, NEW m \in Monitors, mon[m].pc = "sync", NEW n \in Nodes
    PROVE  /\ AgentState(m, n) = "completed" => have[n] = Files
           /\ Of(mon[m].sub[n].fid, n, fetch)
<1>1. mon[m].sub[n].fid \in FetchId /\ Of(mon[m].sub[n].fid, n, fetch)
      BY AgentStates, Stepping DEF WorkersOK, DeliveryInv
<1> QED BY <1>1 DEF AgentState, FetchId, Of, FetchedOK, DeliveryInv

LEMMA PatchDelivers ==
    ASSUME DeliveryInv, NEW m \in Monitors, mon[m].pc # "free", NEW n \in Nodes, NEW f,
           Of(f, n, fetch), Patches(m, n, f), UNCHANGED <<have, fetch>>
    PROVE  EntriesOK(sync', have', fetch')
<1>1. mon[m].job \in Jobs /\ sync \in [Jobs -> [Nodes -> SyncEntry]] /\ EntriesOK(sync, have, fetch)
      BY Stepping DEF DeliveryInv, TypeInv, TypeOK, RowsOK
<1>2. EntryOK([st |-> "syncing", fid |-> f], n, have, fetch)
      BY DEF EntryOK
<1> QED BY <1>1, <1>2 DEF Patches, EntriesOK

LEMMA SyncStepDelivers ==
    ASSUME DeliveryInv, NEW m \in Monitors, NEW n \in Nodes, SyncStep(m, n)
    PROVE  DeliveryInv'
<1>1. mon[m].pc = "sync" /\ mon[m].pc # "free" /\ UNCHANGED <<status, head, workers, phase, have, req>>
      BY DEF SyncStep, Adopt, OldStopped, Fetch, Record, PollEnd, PollAgain, PollStop, Stopped,
             SyncFails, Turn
<1>2. TypeInv' /\ TypeInv
      BY SyncStepTyped DEF DeliveryInv
<1>3. mon[m].sub[n].fid \in FetchId /\ NoFetch \in FetchId /\ Fetches \subseteq FetchId
      BY <1>1, <1>2, AgentStates DEF FetchId
<1>4. AgentState(m, n) \in Live \cup {"none", "completed", "failed", "cancelled"}
      BY <1>1, <1>2, AgentStates
<1>5. /\ AgentState(m, n) = "completed" => have[n] = Files
      /\ Of(mon[m].sub[n].fid, n, fetch) /\ Of(NoFetch, n, fetch)
      BY <1>1, AgentCompleted, ConstantsAssumption DEF Of
<1>6. /\ mon[m].files = Files /\ mon[m].job \in Jobs /\ Of(sync[mon[m].job][n].fid, n, fetch)
      /\ EntriesOK(sync, have, fetch) /\ FetchedOK(have, fetch) /\ AgentsOK
      BY <1>1, <1>2, Stepping DEF HeadOK, DeliveryInv, EntriesOK, EntryOK, TypeInv, TypeOK
<1>7. CASE UNCHANGED fetch
  <2>1. Growing
        BY <1>1, <1>7, StillGrows
  <2>2. EntriesOK(sync', have', fetch')
    <3>1. CASE UNCHANGED sync
          BY <1>1, <1>6, <1>7, <3>1
    <3>2. ASSUME NEW f, Of(f, n, fetch), Patches(m, n, f)
          PROVE  EntriesOK(sync', have', fetch')
          BY <1>1, <1>7, <3>2, PatchDelivers
    <3> QED BY <1>5, <1>6, <3>1, <3>2
            DEF SyncStep, Adopt, OldStopped, Fetch, Record, PollEnd, PollAgain, PollStop, Stopped,
                SyncFails
  <2>3. FetchedOK(have', fetch')
        BY <1>1, <1>6, <1>7
  <2>4. ASSUME NEW res \in {"paused", "completed", "failed", "cancelled"}, Returns(m, n, res),
               res = "completed" => have[n] = Files
        PROVE  DeliveryInv'
        BY <1>1, <1>2, <2>1, <2>2, <2>3, <2>4, ReturnsDelivers
  <2>5. ASSUME NEW pc \in {"stopOld", "fetch", "record", "poll", "stop"}, NEW f \in FetchId,
               SubGoes(m, n, pc, f), Of(f, n, fetch)
        PROVE  DeliveryInv'
        BY <1>1, <1>2, <1>7, <2>1, <2>2, <2>3, <2>5, SubGoesDelivers
  <2>6. CASE PollAgain(m, n)
    <3>1. \A k \in Monitors : WorkersOK(mon[k], have, fetch)
          BY DEF DeliveryInv
    <3> QED BY <1>1, <1>2, <1>7, <2>2, <2>3, <2>6, <3>1 DEF PollAgain, DeliveryInv, Alone, SyncingInv
  <2>7. CASE Adopt(m, n)
        BY <1>3, <1>4, <1>5, <2>4, <2>5, <2>7 DEF Adopt, Live
  <2>8. CASE OldStopped(m, n)
        BY <1>3, <1>4, <1>5, <2>4, <2>5, <2>8 DEF OldStopped, Live
  <2>9. CASE Record(m, n)
        BY <1>3, <1>5, <2>5, <2>9 DEF Record
  <2>10. CASE PollEnd(m, n)
        BY <1>4, <1>5, <2>4, <2>10 DEF PollEnd, Live
  <2>11. CASE PollStop(m, n)
        BY <1>3, <1>5, <2>4, <2>5, <2>11 DEF PollStop
  <2>12. CASE Stopped(m, n)
        BY <1>4, <1>5, <2>4, <2>12 DEF Stopped, Live
  <2>13. CASE SyncFails(m, n)
        BY <2>4, <2>13 DEF SyncFails
  <2>14. ASSUME NEW f \in Fetches, SubGoes(m, n, "record", f), StartsFetch(f, n, mon[m].job, Files)
         PROVE  DeliveryInv'
    <3>1. Of(f, n, fetch)
          BY <1>2, <1>6, <1>7, <2>14, Constants, ConstantsAssumption DEF Of, StartsFetch, AgentsOK
    <3> QED BY <1>3, <2>5, <2>14, <3>1
  <2>15. CASE Fetch(m, n)
        BY <1>6, <2>14, <2>15 DEF Fetch
  <2> QED BY <2>6, <2>7, <2>8, <2>9, <2>10, <2>11, <2>12, <2>13, <2>15 DEF SyncStep
<1>8. ASSUME NEW f \in Fetches, Unused(f), StartsFetch(f, n, mon[m].job, Files), UNCHANGED sync,
             SubGoes(m, n, "record", f) \/ Returns(m, n, "failed")
      PROVE  DeliveryInv'
  <2>1. Growing /\ FetchedOK(have', fetch')
        BY <1>1, <1>6, <1>8, FetchGrows, FetchDelivers
  <2>2. EntriesOK(sync', have', fetch')
        BY <1>2, <1>6, <1>8, <2>1, EntriesStay
  <2>3. Of(f, n, fetch')
        BY <1>6, <1>8, ConstantsAssumption DEF Of, StartsFetch, AgentsOK
  <2> QED BY <1>1, <1>2, <1>3, <1>8, <2>1, <2>2, <2>3, SubGoesDelivers, ReturnsDelivers
<1>9. ASSUME fetch[mon[m].sub[n].fid].st = "running", SubGoes(m, n, "stop", mon[m].sub[n].fid),
             fetch' = [fetch EXCEPT ![mon[m].sub[n].fid].st = "cancelling"], UNCHANGED sync
      PROVE  DeliveryInv'
  <2> DEFINE f == mon[m].sub[n].fid
  <2>1. \A g \in Fetches : /\ fetch'[g].node = fetch[g].node /\ fetch'[g].job = fetch[g].job
                           /\ fetch'[g].files = fetch[g].files
                           /\ fetch'[g].st # "none" => fetch[g].st # "none"
                           /\ fetch'[g].st = "completed" => fetch[g].st = "completed"
        BY <1>6, <1>9 DEF AgentsOK, FetchRecord
  <2>2. Growing
        BY <1>1, <2>1 DEF Growing
  <2>3. FetchedOK(have', fetch')
        BY <1>1, <1>6, <2>1 DEF FetchedOK
  <2>4. EntriesOK(sync', have', fetch')
        BY <1>2, <1>6, <1>9, <2>2, EntriesStay
  <2>5. Of(f, n, fetch')
        BY <1>5, <2>1 DEF Of
  <2> QED BY <1>1, <1>2, <1>3, <1>9, <2>2, <2>3, <2>4, <2>5, SubGoesDelivers
<1>10. CASE Fetch(m, n)
       BY <1>6, <1>8, <1>10 DEF Fetch, rowVars
<1>11. CASE SyncFails(m, n)
       BY <1>6, <1>7, <1>8, <1>11 DEF SyncFails, rowVars
<1>12. CASE PollStop(m, n)
       BY <1>7, <1>9, <1>12 DEF PollStop, rowVars
<1> QED BY <1>7, <1>10, <1>11, <1>12
        DEF SyncStep, Adopt, OldStopped, Record, PollEnd, PollAgain, Stopped

LEMMA MergeDelivers ==
    ASSUME DeliveryInv, NEW m \in Monitors, Merge(m)
    PROVE  DeliveryInv'
<1> DEFINE j == mon[m].job
           done == {n \in workers[j] : mon[m].sub[n].pc = "done"}
           plan == [n \in Nodes |-> IF n \in done THEN [st |-> mon[m].sub[n].res,
                                                        fid |-> mon[m].sub[n].fid]
                                    ELSE sync[j][n]]
           w == [FreeMonitor EXCEPT !.job = j, !.pc = "final", !.plan = plan, !.seen = status[j]]
<1>1. mon[m].pc = "sync" /\ mon[m].pc # "free" /\ UNCHANGED <<head, workers, phase, have, fetch, req>>
      BY DEF Merge
<1>2. TypeInv /\ TypeInv' /\ Growing /\ j \in Jobs /\ have[head[j]] = Files
      BY <1>1, MergeTyped, StillGrows, Stepping DEF DeliveryInv, HeadOK
<1>3. \A n \in Nodes : EntryOK(plan[n], n, have, fetch)
  <2> SUFFICES ASSUME NEW n \in Nodes PROVE EntryOK(plan[n], n, have, fetch)
      OBVIOUS
  <2>1. CASE n \in done
        BY <1>1, <2>1, Stepping DEF EntryOK, WorkersOK
  <2>2. CASE n \notin done
        BY <1>2, <2>2 DEF DeliveryInv, EntriesOK
  <2> QED BY <2>1, <2>2
<1>4. /\ sync' = IF Exists(j) THEN [sync EXCEPT ![j] = plan] ELSE sync
      /\ \/ Goes(m, w) /\ UNCHANGED status
         \/ Ends(m) /\ Concludes(m, status[j], plan)
      BY DEF Merge
<1> HIDE DEF plan
<1>5. w.job = j /\ w.pc = "final" /\ w.plan = plan /\ w.sub = FreeMonitor.sub
      BY DEF FreeMonitor
<1>6. EntriesOK(sync', have', fetch') /\ FetchedOK(have', fetch')
      BY <1>1, <1>2, <1>3, <1>4, EntriesWritten DEF DeliveryInv
<1> HIDE DEF w
<1>7. CASE Goes(m, w) /\ UNCHANGED status
  <2>1. HeadOK(w, status', head, have')
        BY <1>1, <1>2, <1>5 DEF HeadOK
  <2>2. WorkersOK(w, have', fetch')
        BY <1>1, <1>3, <1>5, FreeWorkers DEF WorkersOK, EntryOK
  <2> QED BY <1>1, <1>2, <1>5, <1>6, <1>7, <2>1, <2>2, Stepping, GoesDelivers
<1>8. CASE Ends(m) /\ Concludes(m, status[j], plan)
  <2>1. \A k \in Jobs \ {j} : status'[k] = status[k]
        BY <1>2, <1>8 DEF Concludes, TypeInv, TypeOK, RowsOK
  <2>2. mon' = [mon EXCEPT ![m] = FreeMonitor] /\ FreeMonitor.pc = "free"
        BY <1>8, Constants DEF Ends
  <2> QED BY <1>1, <1>2, <1>6, <2>1, <2>2, FreeWorkers, StepDelivers
<1> QED BY <1>4, <1>7, <1>8

LEMMA FinalDelivers ==
    ASSUME DeliveryInv, NEW m \in Monitors, Final(m)
    PROVE  DeliveryInv'
<1> DEFINE j == mon[m].job
<1>1. mon[m].pc # "free" /\ Ends(m) /\ UNCHANGED <<head, workers, sync, have, fetch>>
      BY DEF Final
<1>2. TypeInv /\ TypeInv' /\ j \in Jobs
      BY <1>1, FinalTyped, Stepping DEF DeliveryInv
<1>3. Concludes(m, mon[m].seen, mon[m].plan)
      BY DEF Final
<1>4. \A k \in Jobs \ {j} : status'[k] = status[k]
      BY <1>2, <1>3 DEF Concludes, TypeInv, TypeOK, RowsOK
<1>5. status'[j] = "syncing" => status[j] = "syncing"
      BY <1>2, <1>3 DEF Concludes, Verdict, TypeInv, TypeOK, RowsOK
<1> QED BY <1>1, <1>2, <1>4, <1>5, EndDelivers

----------------------------------------------------------------------------
(* Delivery: the theorem.                                                  *)

\* Nobody empties a node's cache, and no second coroutine is started for a paused job.
NothingIsLost == Ops \cap {"resume", "deleteCache"} = {}

LEMMA StepKeepsDelivery ==
    ASSUME NothingIsLost, DeliveryInv, [Next]_vars
    PROVE  DeliveryInv'
<1>1. CASE Environment
  <2>1. ASSUME NEW j \in Jobs PROVE ~Resume(j)
        BY DEF NothingIsLost, Resume
  <2>2. ASSUME NEW n \in Nodes PROVE ~NodeModelDelete(n)
        BY DEF NothingIsLost, NodeModelDelete
  <2>3. ASSUME NEW j \in Jobs, Pause(j) \/ Cancel(j) \/ Delete(j) PROVE DeliveryInv'
        BY <2>3, WithdrawDelivers
  <2> QED BY <1>1, <2>1, <2>2, <2>3, RequestDelivers, AgentDelivers, CrashDelivers DEF Environment
<1>2. ASSUME NEW r \in Requests, StartInsert(r) PROVE DeliveryInv'
      BY <1>2, RequestDelivers
<1>3. ASSUME NEW m \in Monitors, MonitorStep(m) PROVE DeliveryInv'
      BY <1>3, BeginDelivers, PreparedDelivers, FailDelivers, SendDelivers, ShareDelivers,
         CheckWorkerDelivers, MergeDelivers, FinalDelivers DEF MonitorStep
<1>4. ASSUME NEW m \in Monitors, NEW n \in Nodes, SyncStep(m, n) PROVE DeliveryInv'
      BY <1>4, SyncStepDelivers
<1>5. ASSUME NEW f \in Fetches, FetchEnds(f) PROVE DeliveryInv'
      BY <1>5, AgentDelivers
<1>6. CASE UNCHANGED vars
  <2>1. TypeInv'
        BY <1>6, StepKeepsTypes DEF DeliveryInv
  <2> QED BY <1>6, <2>1 DEF vars, DeliveryInv, Alone, SyncingInv
<1> QED BY <1>1, <1>2, <1>3, <1>4, <1>5, <1>6 DEF Next, System

Delivered(j) == \A n \in Targets(j) : have[n] = Files

\* Coroutines complete jobs in three places, and only there.
LEMMA OthersDoNotComplete ==
    ASSUME TypeInv, Next, NEW j \in Jobs, status[j] # "completed", status'[j] = "completed"
    PROVE  \E m \in Monitors : Prepared(m) \/ Mirrored(m) \/ Merge(m) \/ Final(m)
<1>1. status \in [Jobs -> Status] /\ phase \in [Jobs -> Phases \cup {"none"}]
      BY DEF TypeInv, TypeOK, RowsOK
<1>2. CASE Environment
      BY <1>1, <1>2 DEF Environment, StartCheck, Pause, Resume, Retry, Cancel, Delete, ManualSync,
                        NodeModelDelete, AgentRestarts, Crash, rowVars, Phases
<1>3. ASSUME NEW r \in Requests, StartInsert(r) PROVE FALSE
      BY <1>1, <1>3 DEF StartInsert, TypeInv, TypeOK, RequestRecord
<1>4. ASSUME NEW f \in Fetches, FetchEnds(f) PROVE FALSE
      BY <1>4 DEF FetchEnds, rowVars
<1>5. ASSUME NEW m \in Monitors, NEW n \in Nodes, SyncStep(m, n) PROVE FALSE
      BY <1>5 DEF SyncStep, Adopt, OldStopped, Fetch, Record, PollEnd, PollAgain, PollStop,
                  Stopped, SyncFails, rowVars
<1>6. ASSUME NEW m \in Monitors, MonitorStep(m)
      PROVE  Prepared(m) \/ Mirrored(m) \/ Merge(m) \/ Final(m)
      BY <1>1, <1>6 DEF MonitorStep, Begin, PrepareFails, SendFails, SendEnd, SendCheck, SendDone,
                        Share, ShareFails, CheckWorker, Writes, rowVars
<1> QED BY <1>2, <1>3, <1>4, <1>5, <1>6 DEF Next, System

LEMMA ToWorkersCompletes ==
    ASSUME TypeInv, NEW m \in Monitors, mon[m].pc # "free", NEW now \in Status \ {"completed"},
           ToWorkers(m, now), have[head[mon[m].job]] = Files,
           NEW j \in Jobs, status[j] # "completed", status'[j] = "completed"
    PROVE  Delivered(j)
<1>1. mon[m].job \in Jobs /\ status \in [Jobs -> Status]
      BY MonitorUsed DEF TypeInv, TypeOK, RowsOK
<1>2. j = mon[m].job /\ workers[j] = {}
      BY <1>1 DEF ToWorkers
<1> QED BY <1>2 DEF Delivered, Targets

LEMMA ConcludesCompletes ==
    ASSUME TypeInv, NEW m \in Monitors, mon[m].pc # "free", NEW seen, NEW plan,
           Concludes(m, seen, plan), have[head[mon[m].job]] = Files,
           \A n \in Nodes : plan[n].st = "completed" => have[n] = Files,
           NEW j \in Jobs, status[j] # "completed", status'[j] = "completed"
    PROVE  Delivered(j)
<1>1. mon[m].job \in Jobs /\ status \in [Jobs -> Status] /\ workers[j] \in SUBSET Nodes
      BY MonitorUsed DEF TypeInv, TypeOK, RowsOK
<1>2. j = mon[m].job /\ \A n \in workers[j] : plan[n].st = "completed"
      BY <1>1 DEF Concludes, Verdict
<1> QED BY <1>1, <1>2 DEF Delivered, Targets

LEMMA CompletesDelivered ==
    ASSUME DeliveryInv, Next, NEW j \in Jobs, status[j] # "completed", status'[j] = "completed"
    PROVE  Delivered(j)
<1>0. TypeInv
      BY DEF DeliveryInv
<1>1. PICK m \in Monitors : Prepared(m) \/ Mirrored(m) \/ Merge(m) \/ Final(m)
      BY <1>0, OthersDoNotComplete
<1>2. mon[m].pc \in {"prep", "mirror", "sync", "final"} /\ mon[m].pc # "free"
      BY <1>1 DEF Prepared, Mirrored, Merge, Final
<1>3. /\ HeadOK(mon[m], status, head, have) /\ WorkersOK(mon[m], have, fetch)
      /\ mon[m].job \in Jobs /\ status[mon[m].job] \in Status \ {"completed"}
      /\ status \in [Jobs -> Status]
      BY <1>2, Stepping DEF DeliveryInv, TypeInv, TypeOK, RowsOK
<1>4. CASE Prepared(m)
  <2>1. mon[m].seen = "syncing"
        BY <1>3, <1>4 DEF Prepared, Writes
  <2> QED BY <1>0, <1>2, <1>3, <1>4, <2>1, ToWorkersCompletes DEF Prepared, HeadOK
<1>5. CASE Mirrored(m)
  <2>1. "syncing" \in Status
        BY DEF Status, Occupying, Phases
  <2> QED BY <1>0, <1>2, <1>3, <1>5, <2>1, ToWorkersCompletes DEF Mirrored, HeadOK
<1>6. CASE Merge(m)
  <2> DEFINE done == {n \in workers[mon[m].job] : mon[m].sub[n].pc = "done"}
             plan == [n \in Nodes |-> IF n \in done THEN [st |-> mon[m].sub[n].res,
                                                          fid |-> mon[m].sub[n].fid]
                                      ELSE sync[mon[m].job][n]]
  <2>1. Concludes(m, status[mon[m].job], plan)
        BY <1>6 DEF Merge
  <2>2. \A n \in Nodes : plan[n].st = "completed" => have[n] = Files
        BY <1>3 DEF WorkersOK, DeliveryInv, EntriesOK, EntryOK
  <2> HIDE DEF plan
  <2> QED BY <1>0, <1>2, <1>3, <1>6, <2>1, <2>2, ConcludesCompletes DEF Merge, HeadOK
<1>7. CASE Final(m)
      BY <1>0, <1>2, <1>3, <1>7, ConcludesCompletes DEF Final, HeadOK, WorkersOK
<1> QED BY <1>1, <1>4, <1>5, <1>6, <1>7

\* While no node loses files and no second coroutine is started for a paused job, a job is
\* completed only when its head and all its workers have every file, whatever pauses,
\* cancellations, deletions, retries, failures and restarts of the backend or of agents
\* come in between.
THEOREM DeliveredCorrect ==
    ASSUME NothingIsLost
    PROVE  Spec => DeliveredWhenCompleted
<1>1. Init => DeliveryInv
      BY InitDelivers
<1>2. DeliveryInv /\ [Next]_vars => DeliveryInv'
      BY StepKeepsDelivery
<1>3. DeliveryInv /\ [Next]_vars =>
        [\A j \in Jobs : status[j] # "completed" /\ status'[j] = "completed" =>
             \A n \in Targets(j) : have[n] = Files]_vars
      BY CompletesDelivered DEF Delivered
<1> QED BY <1>1, <1>2, <1>3, PTL DEF Spec, DeliveredWhenCompleted

----------------------------------------------------------------------------
(* Coroutines that carry on: the inductive invariant.                      *)

\* A coroutine with the record w will end a job of status s or write the next status: it
\* does not leave because of what it reads.
Carries(w, s) ==
    \/ w.pc \in {"begin", "mirror"}
    \/ w.pc = "prep" /\ w.seen # "failed" /\ (w.seen \in {"sending", "syncing"} => s = w.seen)
    \/ w.pc = "send" /\ s = "sending"
    \/ w.pc = "share" /\ w.seen = "syncing" /\ s = "syncing"
    \/ w.pc \in {"check", "sync"} /\ s = "syncing"
    \/ w.pc = "final" /\ w.seen = "syncing"

CarriedInv ==
    \A j \in Jobs : status[j] \in Phases =>
        \E m \in Monitors : mon[m].job = j /\ Carries(mon[m], status[j])

\* What a step of coroutine m that leaves the record w may do: it writes the status of its
\* own row, while the row exists; after a write the coroutine has ended or the row is
\* active; an active row is carried by it, or was not before and is left alone.
Outcome(m, w) ==
    LET j == mon[m].job
    IN  /\ mon' = [mon EXCEPT ![m] = w] /\ w \in MonitorRecord
        /\ w.pc # "free" => w.job = j
        /\ \A k \in Jobs : status'[k] # status[k] => k = j /\ Exists(k)
        /\ status'[j] # status[j] => status'[j] \in Phases \/ w.pc = "free"
        /\ status'[j] \in Phases =>
             \/ w.pc # "free" /\ Carries(w, status'[j])
             \/ status'[j] = status[j] /\ ~Carries(mon[m], status[j])

----------------------------------------------------------------------------
(* Outcomes of the steps of a coroutine.                                   *)

LEMMA EndOutcome ==
    ASSUME TypeInv, NEW m \in Monitors, mon[m].pc # "free", Ends(m),
           \A k \in Jobs : status'[k] # status[k] => k = mon[m].job /\ Exists(k),
           status'[mon[m].job] \in Phases =>
             status'[mon[m].job] = status[mon[m].job] /\ ~Carries(mon[m], status[mon[m].job])
    PROVE  Outcome(m, FreeMonitor)
BY Constants DEF Ends, Outcome

LEMMA GoOutcome ==
    ASSUME TypeInv, NEW m \in Monitors, mon[m].pc # "free", NEW w \in MonitorRecord, Goes(m, w),
           w.pc # "free", w.job = mon[m].job,
           \A k \in Jobs : status'[k] # status[k] => k = mon[m].job /\ Exists(k),
           status'[mon[m].job] # status[mon[m].job] => status'[mon[m].job] \in Phases,
           status'[mon[m].job] \in Phases =>
             \/ Carries(w, status'[mon[m].job])
             \/ status'[mon[m].job] = status[mon[m].job] /\ ~Carries(mon[m], status[mon[m].job])
    PROVE  \E v : Outcome(m, v)
<1>1. CASE Exists(mon[m].job)
  <2>1. Outcome(m, w)
        BY <1>1 DEF Goes, Outcome
  <2> QED BY <2>1
<1>2. CASE ~Exists(mon[m].job)
  <2>1. mon' = [mon EXCEPT ![m] = FreeMonitor] /\ status'[mon[m].job] \notin Phases
        BY <1>2, MonitorUsed DEF Goes, Exists, Phases
  <2>2. Outcome(m, FreeMonitor)
        BY <1>2, <2>1, Constants DEF Outcome
  <2> QED BY <2>2
<1> QED BY <1>1, <1>2

LEMMA BeginOutcome ==
    ASSUME TypeInv, NEW m \in Monitors, Begin(m)
    PROVE  \E v : Outcome(m, v)
<1> DEFINE w == [mon[m] EXCEPT !.pc = "prep", !.seen = status[mon[m].job]]
<1>1. mon[m].pc # "free" /\ UNCHANGED status
      BY DEF Begin, rowVars
<1>2. CASE Ends(m) /\ status[mon[m].job] \in {"failed", "cancelled", "paused"}
  <2>1. Outcome(m, FreeMonitor)
        BY <1>1, <1>2, EndOutcome DEF Phases
  <2> QED BY <2>1
<1>3. CASE Goes(m, w)
  <2>1. w \in MonitorRecord /\ w.job = mon[m].job /\ w.pc = "prep" /\ w.seen = status[mon[m].job]
        BY <1>1, MonitorUsed DEF MonitorRecord, TypeInv, TypeOK, RowsOK
  <2>2. status[mon[m].job] \in Phases => Carries(w, status[mon[m].job])
        BY <2>1 DEF Carries, Phases
  <2> HIDE DEF w
  <2> QED BY <1>1, <1>3, <2>1, <2>2, GoOutcome
<1> QED BY <1>2, <1>3 DEF Begin

LEMMA ToWorkersOutcome ==
    ASSUME TypeInv, NEW m \in Monitors, mon[m].pc \in {"prep", "mirror"}, NEW now \in Status,
           ToWorkers(m, now),
           now = "syncing" \/ (now = status[mon[m].job] /\ mon[m].pc = "prep"
                                   /\ mon[m].seen = "syncing")
    PROVE  \E v : Outcome(m, v)
<1> DEFINE j == mon[m].job
           w == [mon[m] EXCEPT !.pc = "share", !.seen = now, !.plan = sync[j]]
<1>1. mon[m].pc # "free" /\ j \in Jobs /\ status \in [Jobs -> Status]
      BY MonitorUsed DEF TypeInv, TypeOK, RowsOK
<1>2. CASE Ends(m) /\ status' = IF Exists(j) THEN [status EXCEPT ![j] = "completed"] ELSE status
  <2>1. /\ \A k \in Jobs : status'[k] # status[k] => k = j /\ Exists(k)
        /\ status'[j] \notin Phases
        BY <1>1, <1>2 DEF Exists, Phases
  <2>2. Outcome(m, FreeMonitor)
        BY <1>1, <1>2, <2>1, EndOutcome
  <2> QED BY <2>2
<1>3. CASE Goes(m, w) /\ status' = IF Exists(j) THEN [status EXCEPT ![j] = now] ELSE status
  <2>1. /\ w \in MonitorRecord /\ w.job = j /\ w.pc = "share" /\ w.seen = now
        BY <1>1, MonitorUsed DEF MonitorRecord, TypeInv, TypeOK, RowsOK
  <2>2. /\ \A k \in Jobs : status'[k] # status[k] => k = j /\ Exists(k)
        /\ status'[j] = IF Exists(j) THEN now ELSE status[j]
        BY <1>1, <1>3
  <2>3. status'[j] # status[j] => status'[j] \in Phases
        BY <2>2 DEF Phases
  <2>4. status'[j] \in Phases =>
          \/ Carries(w, status'[j])
          \/ status'[j] = status[j] /\ ~Carries(mon[m], status[j])
    <3> SUFFICES ASSUME status'[j] \in Phases
                 PROVE  \/ Carries(w, status'[j])
                        \/ status'[j] = status[j] /\ ~Carries(mon[m], status[j])
        OBVIOUS
    <3>1. status'[j] = now
          BY <2>2 DEF Exists, Phases
    <3>2. CASE now = "syncing"
          BY <2>1, <3>1, <3>2 DEF Carries
    <3>3. CASE now # "syncing"
          BY <3>1, <3>3 DEF Carries
    <3> QED BY <3>2, <3>3
  <2> HIDE DEF w
  <2> QED BY <1>1, <1>3, <2>1, <2>2, <2>3, <2>4, GoOutcome
<1> QED BY <1>2, <1>3 DEF ToWorkers

LEMMA PreparedOutcome ==
    ASSUME TypeInv, NEW m \in Monitors, Prepared(m) \/ Mirrored(m)
    PROVE  \E v : Outcome(m, v)
<1>1. mon[m].pc \in {"prep", "mirror"} /\ mon[m].pc # "free"
      BY DEF Prepared, Mirrored
<1>2. mon[m].job \in Jobs /\ status \in [Jobs -> Status] /\ mon[m] \in MonitorRecord
      BY <1>1, MonitorUsed DEF TypeInv, TypeOK, RowsOK
<1>3. CASE Mirrored(m)
      BY <1>1, <1>3, ToWorkersOutcome DEF Mirrored, Status, Occupying, Phases
<1>4. CASE Prepared(m) /\ mon[m].seen = "syncing"
      BY <1>1, <1>2, <1>4, ToWorkersOutcome DEF Prepared
<1>5. CASE Prepared(m) /\ mon[m].seen # "syncing"
  <2> DEFINE j == mon[m].job
             w == [mon[m] EXCEPT !.pc = "send", !.todo = Files]
  <2>1. w \in MonitorRecord /\ w.job = j /\ w.pc = "send"
        BY <1>2 DEF MonitorRecord
  <2>2. Goes(m, w) /\ Writes(m, "sending") /\ mon[m].pc = "prep"
        BY <1>5 DEF Prepared
  <2>3. \/ UNCHANGED status /\ (~Exists(j) \/ mon[m].seen = "sending")
        \/ Exists(j) /\ status' = [status EXCEPT ![j] = "sending"]
        BY <2>2 DEF Writes
  <2>4. /\ \A k \in Jobs : status'[k] # status[k] => k = j /\ Exists(k)
        /\ \/ status'[j] = status[j] /\ (~Exists(j) \/ mon[m].seen = "sending")
           \/ status'[j] = "sending"
        BY <1>2, <2>3
  <2>5. status'[j] \in Phases =>
          \/ Carries(w, status'[j])
          \/ status'[j] = status[j] /\ ~Carries(mon[m], status[j])
        BY <2>1, <2>2, <2>4 DEF Carries, Exists, Phases
  <2>6. status'[j] # status[j] => status'[j] \in Phases
        BY <2>4 DEF Phases
  <2> HIDE DEF w
  <2> QED BY <1>1, <2>1, <2>2, <2>4, <2>5, <2>6, GoOutcome
<1> QED BY <1>3, <1>4, <1>5

LEMMA FailOutcome ==
    ASSUME TypeInv, NEW m \in Monitors, PrepareFails(m) \/ ShareFails(m) \/ SendFails(m)
    PROVE  \E v : Outcome(m, v)
<1> DEFINE j == mon[m].job
<1>1. mon[m].pc \in {"prep", "share", "send"} /\ mon[m].pc # "free" /\ Ends(m)
      BY DEF PrepareFails, ShareFails, SendFails
<1>2. j \in Jobs /\ status \in [Jobs -> Status]
      BY <1>1, MonitorUsed DEF TypeInv, TypeOK, RowsOK
<1>3. \/ status' = [status EXCEPT ![j] = "failed"] /\ Exists(j)
      \/ UNCHANGED status /\ (~Exists(j) \/ (mon[m].seen = "failed" /\ mon[m].pc # "send"))
      BY DEF PrepareFails, ShareFails, SendFails, Writes
<1>4. /\ \A k \in Jobs : status'[k] # status[k] => k = j /\ Exists(k)
      /\ \/ status'[j] = "failed"
         \/ status'[j] = status[j] /\ (~Exists(j) \/ (mon[m].seen = "failed" /\ mon[m].pc # "send"))
      BY <1>2, <1>3
<1>5. status'[j] \in Phases => status'[j] = status[j] /\ ~Carries(mon[m], status[j])
  <2> SUFFICES ASSUME status'[j] \in Phases
               PROVE  status'[j] = status[j] /\ ~Carries(mon[m], status[j])
      OBVIOUS
  <2>1. status'[j] = status[j] /\ mon[m].seen = "failed" /\ mon[m].pc # "send"
        BY <1>4 DEF Exists, Phases
  <2> QED BY <1>1, <2>1 DEF Carries
<1>6. Outcome(m, FreeMonitor)
      BY <1>1, <1>4, <1>5, EndOutcome
<1> QED BY <1>6

LEMMA SendOutcome ==
    ASSUME TypeInv, NEW m \in Monitors,
           (\E f \in Files : SendCheck(m, f) \/ SendDone(m, f)) \/ SendEnd(m)
    PROVE  \E v : Outcome(m, v)
<1> DEFINE j == mon[m].job
<1>1. mon[m].pc = "send" /\ mon[m].pc # "free" /\ UNCHANGED status
      BY DEF SendCheck, SendDone, SendEnd, rowVars
<1>2. j \in Jobs /\ mon[m] \in MonitorRecord
      BY <1>1, MonitorUsed
<1>3. ASSUME NEW f \in Files, SendCheck(m, f) PROVE \E v : Outcome(m, v)
  <2> DEFINE w == [mon[m] EXCEPT !.todo = @ \ {f},
                                 !.flying = IF status[j] = "sending" THEN @ \cup {f} ELSE @]
  <2>1. Goes(m, w)
        BY <1>3 DEF SendCheck
  <2>2. w \in MonitorRecord /\ w.job = j /\ w.pc = "send"
        BY <1>1, <1>2 DEF MonitorRecord
  <2>3. Carries(w, status[j]) \/ ~Carries(mon[m], status[j])
        BY <1>1, <2>2 DEF Carries
  <2> HIDE DEF w
  <2> QED BY <1>1, <2>1, <2>2, <2>3, GoOutcome
<1>4. ASSUME NEW f \in Files, SendDone(m, f) PROVE \E v : Outcome(m, v)
  <2> DEFINE w == [mon[m] EXCEPT !.flying = @ \ {f}]
  <2>1. mon' = [mon EXCEPT ![m] = w]
        BY <1>4 DEF SendDone
  <2>2. w \in MonitorRecord /\ w.job = j /\ w.pc = "send"
        BY <1>1, <1>2 DEF MonitorRecord
  <2>3. Carries(w, status[j]) \/ ~Carries(mon[m], status[j])
        BY <1>1, <2>2 DEF Carries
  <2> HIDE DEF w
  <2>4. Outcome(m, w)
        BY <1>1, <2>1, <2>2, <2>3 DEF Outcome
  <2> QED BY <2>4
<1>5. CASE SendEnd(m)
  <2> DEFINE w == [mon[m] EXCEPT !.pc = "mirror", !.seen = "sending"]
  <2>1. CASE Ends(m) /\ status[j] # "sending"
    <3>1. ~Carries(mon[m], status[j])
          BY <1>1, <2>1 DEF Carries
    <3>2. Outcome(m, FreeMonitor)
          BY <1>1, <2>1, <3>1, EndOutcome
    <3> QED BY <3>2
  <2>2. CASE Goes(m, w)
    <3>1. w \in MonitorRecord /\ w.job = j /\ w.pc = "mirror"
          BY <1>2 DEF MonitorRecord, Status, Occupying, Phases
    <3>2. Carries(w, status[j])
          BY <3>1 DEF Carries
    <3> HIDE DEF w
    <3> QED BY <1>1, <2>2, <3>1, <3>2, GoOutcome
  <2> QED BY <1>5, <2>1, <2>2 DEF SendEnd
<1> QED BY <1>3, <1>4, <1>5

LEMMA ShareOutcome ==
    ASSUME TypeInv, NEW m \in Monitors, Share(m)
    PROVE  \E v : Outcome(m, v)
<1> DEFINE j == mon[m].job
           todo == {n \in workers[j] : mon[m].plan[n].st # "completed"}
           v == [mon[m] EXCEPT !.files = have[head[j]], !.check = todo, !.pc = "check"]
           u == [mon[m] EXCEPT !.files = have[head[j]], !.check = todo, !.pc = "sync",
                               !.plan = FreeMonitor.plan]
<1>1. mon[m].pc = "share" /\ mon[m].pc # "free" /\ UNCHANGED status
      BY DEF Share
<1>2. Goes(m, v) \/ Goes(m, u)
      BY DEF Share
<1>3. /\ mon[m] \in MonitorRecord /\ have[head[j]] \in SUBSET Files
      /\ todo \in SUBSET Nodes /\ FreeMonitor.plan \in [Nodes -> SyncEntry]
      BY <1>1, MonitorUsed, Constants DEF TypeInv, TypeOK, AgentsOK, MonitorRecord
<1> HIDE DEF todo
<1>4. /\ v \in MonitorRecord /\ v.job = j /\ v.pc = "check"
      /\ u \in MonitorRecord /\ u.job = j /\ u.pc = "sync"
      BY <1>3 DEF MonitorRecord
<1> HIDE DEF u, v
<1>5. Carries(mon[m], status[j]) => Carries(u, status[j]) /\ Carries(v, status[j])
      BY <1>1, <1>4 DEF Carries
<1> QED BY <1>1, <1>2, <1>4, <1>5, GoOutcome

LEMMA CheckedOutcome ==
    ASSUME TypeInv, NEW m \in Monitors, mon[m].pc = "check", NEW w \in MonitorRecord,
           w.job = mon[m].job, w.pc = "check", Checked(m, w), UNCHANGED status
    PROVE  \E v : Outcome(m, v)
<1> DEFINE u == [w EXCEPT !.pc = "sync", !.plan = FreeMonitor.plan]
<1>1. Goes(m, w) \/ Goes(m, u)
      BY DEF Checked
<1>2. u \in MonitorRecord /\ u.job = mon[m].job /\ u.pc = "sync"
      BY Constants DEF MonitorRecord
<1> HIDE DEF u
<1>3. Carries(mon[m], status[mon[m].job]) =>
        Carries(u, status[mon[m].job]) /\ Carries(w, status[mon[m].job])
      BY <1>2 DEF Carries
<1> QED BY <1>1, <1>2, <1>3, GoOutcome

LEMMA CheckWorkerOutcome ==
    ASSUME TypeInv, NEW m \in Monitors, NEW n \in Nodes, CheckWorker(m, n)
    PROVE  \E v : Outcome(m, v)
<1> DEFINE old == mon[m].plan[n]
           next == IF old.st = "syncing" /\ old.fid # NoFetch
                   THEN [NoSub EXCEPT !.pc = "adopt", !.fid = old.fid]
                   ELSE [NoSub EXCEPT !.pc = "fetch"]
           w == [mon[m] EXCEPT !.check = @ \ {n}]
           u == [w EXCEPT !.plan[n].st = "completed"]
           x == [w EXCEPT !.plan[n].st = "syncing"]
           v == [w EXCEPT !.plan[n].st = "syncing", !.sub[n] = next]
<1>1. mon[m].pc = "check" /\ mon[m].pc # "free" /\ UNCHANGED status
      BY DEF CheckWorker
<1>2. mon[m] \in MonitorRecord
      BY <1>1, MonitorUsed
<1>3. Checked(m, u) \/ Checked(m, v)
      BY DEF CheckWorker
<1>4. next \in SubRecord
  <2>1. old \in SyncEntry
        BY <1>2 DEF MonitorRecord
  <2> QED BY <2>1 DEF NoSub, SubRecord, SyncEntry, FetchId
<1>5. w \in MonitorRecord /\ w.job = mon[m].job /\ w.pc = "check"
      BY <1>1, <1>2 DEF MonitorRecord
<1> HIDE DEF next, w
<1>6. u \in MonitorRecord /\ u.job = mon[m].job /\ u.pc = "check"
      BY <1>5, PlanChanged
<1>7. x \in MonitorRecord /\ x.job = mon[m].job /\ x.pc = "check"
      BY <1>5, PlanChanged
<1>8. v = [x EXCEPT !.sub[n] = next]
      OBVIOUS
<1> HIDE DEF u, v, x
<1>9. v \in MonitorRecord /\ v.job = mon[m].job /\ v.pc = "check"
      BY <1>4, <1>7, <1>8 DEF MonitorRecord
<1> QED BY <1>1, <1>3, <1>6, <1>9, CheckedOutcome

LEMMA MergeOutcome ==
    ASSUME TypeInv, NEW m \in Monitors, Merge(m)
    PROVE  \E v : Outcome(m, v)
<1> DEFINE j == mon[m].job
           done == {n \in workers[j] : mon[m].sub[n].pc = "done"}
           plan == [n \in Nodes |-> IF n \in done THEN [st |-> mon[m].sub[n].res,
                                                        fid |-> mon[m].sub[n].fid]
                                    ELSE sync[j][n]]
           w == [FreeMonitor EXCEPT !.job = j, !.pc = "final", !.plan = plan, !.seen = status[j]]
<1>1. mon[m].pc = "sync" /\ mon[m].pc # "free"
      BY DEF Merge
<1>2. /\ j \in Jobs /\ mon[m] \in MonitorRecord /\ status \in [Jobs -> Status]
      /\ sync[j] \in [Nodes -> SyncEntry] /\ Returned(mon[m])
      BY <1>1, MonitorUsed DEF TypeInv, TypeOK, RowsOK
<1>3. \A n \in Nodes : plan[n] \in SyncEntry
      BY <1>2 DEF MonitorRecord, SubRecord, SyncEntry, Returned
<1>4. plan \in [Nodes -> SyncEntry]
      BY <1>3
<1>5. \/ Goes(m, w) /\ UNCHANGED status
      \/ Ends(m) /\ Concludes(m, status[j], plan)
      BY DEF Merge
<1> HIDE DEF plan
<1>6. CASE Goes(m, w) /\ UNCHANGED status
  <2>1. w \in MonitorRecord /\ w.job = j /\ w.pc = "final" /\ w.seen = status[j]
        BY <1>2, <1>4, Constants DEF MonitorRecord
  <2> HIDE DEF w
  <2>2. Carries(mon[m], status[j]) => Carries(w, status[j])
        BY <1>1, <2>1 DEF Carries
  <2> QED BY <1>1, <1>6, <2>1, <2>2, GoOutcome
<1>7. CASE Ends(m) /\ Concludes(m, status[j], plan)
  <2>1. /\ \A k \in Jobs : status'[k] # status[k] => k = j /\ Exists(k)
        /\ status'[j] \in Phases => status'[j] = status[j] /\ status[j] # "syncing"
        BY <1>2, <1>7 DEF Concludes, Verdict, Exists, Phases
  <2>2. status[j] # "syncing" => ~Carries(mon[m], status[j])
        BY <1>1 DEF Carries
  <2>3. Outcome(m, FreeMonitor)
        BY <1>1, <1>7, <2>1, <2>2, EndOutcome
  <2> QED BY <2>3
<1> QED BY <1>5, <1>6, <1>7

LEMMA FinalOutcome ==
    ASSUME TypeInv, NEW m \in Monitors, Final(m)
    PROVE  \E v : Outcome(m, v)
<1> DEFINE j == mon[m].job
<1>1. mon[m].pc = "final" /\ mon[m].pc # "free" /\ Ends(m)
      /\ Concludes(m, mon[m].seen, mon[m].plan)
      BY DEF Final
<1>2. j \in Jobs /\ status \in [Jobs -> Status]
      BY <1>1, MonitorUsed DEF TypeInv, TypeOK, RowsOK
<1>3. /\ \A k \in Jobs : status'[k] # status[k] => k = j /\ Exists(k)
      /\ status'[j] \in Phases => status'[j] = status[j] /\ mon[m].seen # "syncing"
      BY <1>1, <1>2 DEF Concludes, Verdict, Exists, Phases
<1>4. mon[m].seen # "syncing" => ~Carries(mon[m], status[j])
      BY <1>1 DEF Carries
<1>5. Outcome(m, FreeMonitor)
      BY <1>1, <1>3, <1>4, EndOutcome
<1> QED BY <1>5

LEMMA StepOutcome ==
    ASSUME TypeInv, NEW m \in Monitors, MonitorStep(m)
    PROVE  (\E v : Outcome(m, v)) /\ mon[m].pc # "free" /\ UNCHANGED <<head, workers, req>>
<1>1. \E v : Outcome(m, v)
      BY BeginOutcome, PreparedOutcome, FailOutcome, SendOutcome, ShareOutcome,
         CheckWorkerOutcome, MergeOutcome, FinalOutcome DEF MonitorStep
<1>2. mon[m].pc # "free" /\ UNCHANGED <<head, workers, req>>
      BY DEF MonitorStep, Begin, Prepared, PrepareFails, SendFails, SendEnd, SendCheck, SendDone,
             Mirrored, Share, ShareFails, CheckWorker, Merge, Final
<1> QED BY <1>1, <1>2

\* What the coroutines of the workers do concerns neither rows nor the coroutine itself.
LEMMA SyncStepQuiet ==
    ASSUME TypeInv, NEW m \in Monitors, NEW n \in Nodes, SyncStep(m, n)
    PROVE  /\ UNCHANGED <<status, head, workers, req>>
           /\ \A k \in Monitors : /\ mon'[k].job = mon[k].job /\ mon'[k].pc = mon[k].pc
                                  /\ mon'[k].seen = mon[k].seen
<1>1. UNCHANGED <<status, head, workers, req>>
      BY DEF SyncStep, Adopt, OldStopped, Fetch, Record, PollEnd, PollAgain, PollStop, Stopped,
             SyncFails
<1>2. mon \in [Monitors -> MonitorRecord]
      BY DEF TypeInv, TypeOK, MonitorsOK
<1>3. UNCHANGED mon \/ (\E s : mon' = [mon EXCEPT ![m].sub[n] = s])
      BY DEF SyncStep, Adopt, OldStopped, Fetch, Record, PollEnd, PollAgain, PollStop, Stopped,
             SyncFails, SubGoes, Returns
<1>4. ASSUME NEW s, mon' = [mon EXCEPT ![m].sub[n] = s]
      PROVE  \A k \in Monitors : /\ mon'[k].job = mon[k].job /\ mon'[k].pc = mon[k].pc
                                 /\ mon'[k].seen = mon[k].seen
      BY <1>2, <1>4 DEF MonitorRecord
<1> QED BY <1>1, <1>3, <1>4
----------------------------------------------------------------------------
(* The coroutines carry on: every step.                                    *)

\* A coroutine's step: the jobs of the others keep their carriers; its own row is carried
\* by what it has become, or by whoever carried it before.
LEMMA OutcomeCarried ==
    ASSUME TypeInv, TypeInv', CarriedInv, NEW m \in Monitors, NEW w, Outcome(m, w),
           mon[m].pc # "free"
    PROVE  CarriedInv'
<1>1. mon \in [Monitors -> MonitorRecord] /\ mon[m].job \in Jobs
      BY MonitorUsed DEF TypeInv, TypeOK, MonitorsOK
<1>2. mon'[m] = w /\ \A k \in Monitors : k # m => mon'[k] = mon[k]
      BY <1>1 DEF Outcome
<1> SUFFICES ASSUME NEW j \in Jobs, status'[j] \in Phases
             PROVE  \E k \in Monitors : mon'[k].job = j /\ Carries(mon'[k], status'[j])
    BY DEF CarriedInv
<1>3. CASE j # mon[m].job
  <2>1. status'[j] = status[j]
        BY <1>3 DEF Outcome
  <2>2. PICK k \in Monitors : mon[k].job = j /\ Carries(mon[k], status[j])
        BY <2>1 DEF CarriedInv
  <2>3. mon'[k] = mon[k]
        BY <1>2, <1>3, <2>2
  <2> QED BY <2>1, <2>2, <2>3
<1>4. CASE j = mon[m].job
  <2>1. CASE w.pc # "free" /\ Carries(w, status'[j])
        BY <1>2, <1>4, <2>1 DEF Outcome
  <2>2. CASE status'[j] = status[j] /\ ~Carries(mon[m], status[j])
    <3>1. PICK k \in Monitors : mon[k].job = j /\ Carries(mon[k], status[j])
          BY <2>2 DEF CarriedInv
    <3>2. k # m
          BY <2>2, <3>1
    <3>3. mon'[k] = mon[k]
          BY <1>2, <3>2
    <3> QED BY <2>2, <3>1, <3>3
  <2> QED BY <1>4, <2>1, <2>2 DEF Outcome
<1> QED BY <1>3, <1>4

\* A new coroutine takes a free slot: no carrier is lost, and the job has one.
LEMMA SpawnCarried ==
    ASSUME TypeInv, CarriedInv, NEW j \in Jobs, Spawn(j),
           \A k \in Jobs : k # j => status'[k] = status[k]
    PROVE  CarriedInv'
<1>1. mon \in [Monitors -> MonitorRecord]
      BY DEF TypeInv, TypeOK, MonitorsOK
<1>2. PICK m \in Monitors :
         mon[m].pc = "free" /\ mon' = [mon EXCEPT ![m] = [FreeMonitor EXCEPT !.job = j, !.pc = "begin"]]
      BY DEF Spawn
<1>3. mon'[m].job = j /\ mon'[m].pc = "begin"
      BY <1>1, <1>2 DEF FreeMonitor
<1>4. \A k \in Monitors : k # m => mon'[k] = mon[k]
      BY <1>1, <1>2
<1> SUFFICES ASSUME NEW i \in Jobs, status'[i] \in Phases
             PROVE  \E k \in Monitors : mon'[k].job = i /\ Carries(mon'[k], status'[i])
    BY DEF CarriedInv
<1>5. CASE i = j
      BY <1>3, <1>5 DEF Carries
<1>6. CASE i # j
  <2>1. status'[i] = status[i]
        BY <1>6
  <2>2. PICK k \in Monitors : mon[k].job = i /\ Carries(mon[k], status[i])
        BY <2>1 DEF CarriedInv
  <2>3. k # m
        BY <1>2, <2>2 DEF Carries
  <2> QED BY <1>4, <2>1, <2>2, <2>3
<1> QED BY <1>5, <1>6

\* Steps that leave the coroutines alone and only take jobs out of the active states.
LEMMA QuietCarried ==
    ASSUME CarriedInv,
           \A k \in Monitors : /\ mon'[k].job = mon[k].job /\ mon'[k].pc = mon[k].pc
                               /\ mon'[k].seen = mon[k].seen,
           \A j \in Jobs : status'[j] = status[j] \/ status'[j] \notin Phases
    PROVE  CarriedInv'
BY DEF CarriedInv, Carries

LEMMA CrashCarried ==
    ASSUME Crash
    PROVE  CarriedInv'
<1>1. PICK g \in [Monitors -> {j \in Jobs : status[j] \in Phases} \cup {NoJob}] :
        /\ \A j \in Jobs : status[j] \in Phases => \E m \in Monitors : g[m] = j
        /\ mon' = [m \in Monitors |->
                     IF g[m] = NoJob THEN FreeMonitor
                     ELSE [FreeMonitor EXCEPT !.job = g[m], !.pc = "begin"]]
      BY DEF Crash
<1>2. UNCHANGED status
      BY DEF Crash
<1> SUFFICES ASSUME NEW j \in Jobs, status[j] \in Phases
             PROVE  \E k \in Monitors : mon'[k].job = j /\ Carries(mon'[k], status[j])
    BY <1>2 DEF CarriedInv
<1>3. PICK m \in Monitors : g[m] = j
      BY <1>1
<1>4. g[m] # NoJob
      BY <1>3, ConstantsAssumption
<1>5. mon'[m] = [FreeMonitor EXCEPT !.job = j, !.pc = "begin"]
      BY <1>1, <1>3, <1>4
<1>6. mon'[m].job = j /\ mon'[m].pc = "begin"
      BY <1>5 DEF FreeMonitor
<1> QED BY <1>6 DEF Carries

LEMMA NextCarried ==
    ASSUME TypeInv, TypeInv', CarriedInv, Next
    PROVE  CarriedInv'
<1>1. ASSUME NEW m \in Monitors, MonitorStep(m) PROVE CarriedInv'
      BY <1>1, StepOutcome, OutcomeCarried
<1>2. ASSUME NEW m \in Monitors, NEW n \in Nodes, SyncStep(m, n) PROVE CarriedInv'
      BY <1>2, SyncStepQuiet, QuietCarried
<1>3. ASSUME NEW r \in Requests, StartInsert(r) PROVE CarriedInv'
  <2>1. PICK j \in Jobs : Spawn(j) /\ status' = [status EXCEPT ![j] = req[r].st]
        BY <1>3 DEF StartInsert
  <2>2. \A k \in Jobs : k # j => status'[k] = status[k]
        BY <2>1 DEF TypeInv, TypeOK, RowsOK
  <2> QED BY <2>1, <2>2, SpawnCarried
<1>4. ASSUME NEW j \in Jobs, Resume(j) \/ Retry(j) PROVE CarriedInv'
  <2>1. Spawn(j) /\ \A k \in Jobs : k # j => status'[k] = status[k]
        BY <1>4 DEF Resume, Retry, TypeInv, TypeOK, RowsOK
  <2> QED BY <2>1, SpawnCarried
<1>5. ASSUME NEW j \in Jobs, Pause(j) \/ Cancel(j) \/ Delete(j) PROVE CarriedInv'
  <2>1. UNCHANGED mon /\ \A k \in Jobs : status'[k] = status[k] \/ status'[k] \notin Phases
        BY <1>5 DEF Pause, Cancel, Delete, TypeInv, TypeOK, RowsOK, Phases
  <2> QED BY <2>1, QuietCarried
<1>6. CASE UNCHANGED <<status, mon>>
      BY <1>6, QuietCarried
<1>7. ASSUME NEW r \in Requests, NEW h \in Nodes, NEW W \in SUBSET Nodes,
             NEW s \in {"downloading", "sending"}, StartCheck(r, h, W, s)
      PROVE  CarriedInv'
      BY <1>6, <1>7 DEF StartCheck
<1>8. ASSUME NEW src \in Nodes, NEW dst \in Nodes, ManualSync(src, dst) PROVE CarriedInv'
      BY <1>6, <1>8 DEF ManualSync
<1>9. ASSUME NEW n \in Nodes, NodeModelDelete(n) \/ AgentRestarts(n) PROVE CarriedInv'
      BY <1>6, <1>9 DEF NodeModelDelete, AgentRestarts
<1>10. ASSUME NEW f \in Fetches, FetchEnds(f) PROVE CarriedInv'
      BY <1>6, <1>10 DEF FetchEnds
<1> QED BY <1>1, <1>2, <1>3, <1>4, <1>5, <1>7, <1>8, <1>9, <1>10, CrashCarried
        DEF Next, Environment, System

\* An active job always has a coroutine that will end it: no pause, resume, failure,
\* restart of the backend or combination of them leaves a row that says it is being sent
\* or synchronised with nobody at work on it, whatever users do and however often.
THEOREM DrivenCorrect == Spec => []Driven
<1>1. Init => CarriedInv
      BY DEF Init, CarriedInv, Phases
<1>2. TypeInv /\ CarriedInv /\ [Next]_vars => CarriedInv'
  <2> SUFFICES ASSUME TypeInv, CarriedInv, [Next]_vars PROVE CarriedInv'
      OBVIOUS
  <2>1. TypeInv'
        BY StepKeepsTypes
  <2>2. CASE Next
        BY <2>1, <2>2, NextCarried
  <2>3. CASE UNCHANGED vars
        BY <2>3, QuietCarried DEF vars
  <2> QED BY <2>2, <2>3
<1>3. CarriedInv => Driven
      BY DEF CarriedInv, Driven
<1> QED BY InitTyped, StepKeepsTypes, <1>1, <1>2, <1>3, PTL DEF Spec

----------------------------------------------------------------------------
(* Nodes are not shared: the inductive invariant.                          *)

\* The check and the insertion are an await apart, and a coroutine writes over whatever
\* the row says by now: with one request at a time, and as long as no job comes back from
\* paused, failed or cancelled, neither lets a second job in.
NothingComesBack ==
    Ops \cap {"resume", "retry", "cancel"} = {} /\ \A r, s \in Requests : r = s

\* What a request was admitted for is still free.
AdmittedStays ==
    \A r \in Requests, j \in Jobs :
        req[r].pc = "size" /\ status[j] \in Occupying =>
            Targets(j) \cap ({req[r].head} \cup req[r].workers) = {}

OneCoroutine ==
    \A m, k \in Monitors :
        mon[m].pc # "free" /\ mon[k].pc # "free" /\ mon[m].job = mon[k].job => m = k

\* Whoever has a coroutine still occupies its nodes, or its row is gone.
CoroutineOccupies ==
    \A m \in Monitors : mon[m].pc # "free" => status[mon[m].job] \in Occupying \cup {"deleted"}

SharingInv == NodesNotShared /\ AdmittedStays /\ OneCoroutine /\ CoroutineOccupies

----------------------------------------------------------------------------
(* Nodes are not shared: the steps.                                        *)

\* No job starts to occupy nodes, and the others keep theirs.
NothingNewOccupies ==
    /\ \A j \in Jobs : status'[j] \in Occupying => status[j] \in Occupying
    /\ UNCHANGED <<head, workers>>

LEMMA StillApart ==
    ASSUME SharingInv, NothingNewOccupies,
           \A r \in Requests : req'[r].pc = "size" => req'[r] = req[r]
    PROVE  NodesNotShared' /\ AdmittedStays'
<1>1. \A j \in Jobs : Targets(j)' = Targets(j)
      BY DEF Targets, NothingNewOccupies
<1>2. NodesNotShared'
      BY <1>1 DEF SharingInv, NodesNotShared, NothingNewOccupies
<1>3. AdmittedStays'
      BY <1>1 DEF SharingInv, AdmittedStays, NothingNewOccupies
<1> QED BY <1>2, <1>3

LEMMA QuietApart ==
    ASSUME SharingInv, NothingNewOccupies, UNCHANGED req,
           \A k \in Monitors : mon'[k].job = mon[k].job /\ mon'[k].pc = mon[k].pc,
           \A j \in Jobs : status'[j] = status[j] \/ status'[j] \in Occupying \cup {"deleted"},
           TypeInv
    PROVE  SharingInv'
<1>1. NodesNotShared' /\ AdmittedStays'
      BY StillApart
<1>2. OneCoroutine'
      BY DEF SharingInv, OneCoroutine
<1>3. CoroutineOccupies'
      BY DEF SharingInv, CoroutineOccupies, TypeInv, TypeOK, MonitorsOK
<1> QED BY <1>1, <1>2, <1>3 DEF SharingInv

LEMMA OutcomeApart ==
    ASSUME TypeInv, SharingInv, NEW m \in Monitors, NEW w, Outcome(m, w),
           mon[m].pc # "free", UNCHANGED <<head, workers, req>>
    PROVE  SharingInv'
<1> DEFINE j == mon[m].job
<1>1. mon \in [Monitors -> MonitorRecord] /\ j \in Jobs
      BY MonitorUsed DEF TypeInv, TypeOK, MonitorsOK
<1>2. mon'[m] = w /\ \A k \in Monitors : k # m => mon'[k] = mon[k]
      BY <1>1 DEF Outcome
<1>3. \A k \in Jobs : status'[k] # status[k] => k = j /\ status[k] \in Occupying
      BY <1>1 DEF Outcome, SharingInv, CoroutineOccupies, Exists
<1>4. NodesNotShared' /\ AdmittedStays'
      BY <1>3, StillApart DEF NothingNewOccupies
<1>5. OneCoroutine'
      BY <1>2 DEF SharingInv, OneCoroutine, Outcome
<1>6. CoroutineOccupies'
  <2> SUFFICES ASSUME NEW k \in Monitors, mon'[k].pc # "free"
               PROVE  status'[mon'[k].job] \in Occupying \cup {"deleted"}
      BY DEF CoroutineOccupies
  <2>1. CASE k = m
    <3>1. mon'[k].job = j
          BY <1>2, <2>1 DEF Outcome
    <3>2. status'[j] = status[j] \/ status'[j] \in Phases
          BY <1>2, <2>1 DEF Outcome
    <3> QED BY <3>1, <3>2 DEF SharingInv, CoroutineOccupies, Occupying
  <2>2. CASE k # m
    <3>1. mon'[k] = mon[k] /\ mon[k].pc # "free" /\ mon[k].job # j
          BY <1>2, <2>2 DEF SharingInv, OneCoroutine
    <3>2. mon[k].job \in Jobs
          BY <3>1 DEF TypeInv, TypeOK, MonitorsOK
    <3>3. status'[mon[k].job] = status[mon[k].job]
          BY <1>3, <3>1, <3>2
    <3> QED BY <3>1, <3>3 DEF SharingInv, CoroutineOccupies
  <2> QED BY <2>1, <2>2
<1> QED BY <1>4, <1>5, <1>6 DEF SharingInv

LEMMA StartCheckApart ==
    ASSUME TypeInv, SharingInv, NEW r \in Requests, NEW h \in Nodes, NEW W \in SUBSET Nodes,
           NEW s, StartCheck(r, h, W, s)
    PROVE  SharingInv'
<1>1. /\ UNCHANGED <<status, head, workers, mon>>
      /\ req' = [req EXCEPT ![r] = [pc |-> "size", st |-> s, head |-> h, workers |-> W]]
      /\ req \in [Requests -> RequestRecord]
      /\ \A j \in Jobs : status[j] \in Occupying => Targets(j) \cap ({h} \cup W) = {}
      BY DEF StartCheck, TypeInv, TypeOK, Admitted
<1>2. /\ req'[r] = [pc |-> "size", st |-> s, head |-> h, workers |-> W]
      /\ \A q \in Requests : q # r => req'[q] = req[q]
      BY <1>1
<1>3. \A j \in Jobs : Targets(j)' = Targets(j)
      BY <1>1 DEF Targets
<1>4. AdmittedStays'
  <2> SUFFICES ASSUME NEW q \in Requests, NEW j \in Jobs, req'[q].pc = "size",
                      status'[j] \in Occupying
               PROVE  Targets(j)' \cap ({req'[q].head} \cup req'[q].workers) = {}
      BY DEF AdmittedStays
  <2>1. CASE q = r
    <3>1. req'[q].head = h /\ req'[q].workers = W
          BY <1>2, <2>1
    <3> QED BY <1>1, <1>3, <3>1
  <2>2. CASE q # r
        BY <1>1, <1>2, <1>3, <2>2 DEF SharingInv, AdmittedStays
  <2> QED BY <2>1, <2>2
<1>5. NodesNotShared' /\ OneCoroutine' /\ CoroutineOccupies'
      BY <1>1, <1>3 DEF SharingInv, NodesNotShared, OneCoroutine, CoroutineOccupies
<1> QED BY <1>4, <1>5 DEF SharingInv

LEMMA StartInsertApart ==
    ASSUME TypeInv, SharingInv, NothingComesBack, NEW r \in Requests, StartInsert(r)
    PROVE  SharingInv'
<1>1. req[r].pc = "size" /\ req' = [req EXCEPT ![r] = NoRequest]
      BY DEF StartInsert
<1>2. PICK j \in Jobs : /\ status[j] = "unused" /\ Spawn(j)
                        /\ status' = [status EXCEPT ![j] = req[r].st]
                        /\ head' = [head EXCEPT ![j] = req[r].head]
                        /\ workers' = [workers EXCEPT ![j] = req[r].workers]
      BY DEF StartInsert
<1>3. /\ status \in [Jobs -> Status] /\ head \in [Jobs -> Nodes \cup {NoNode}]
      /\ workers \in [Jobs -> SUBSET Nodes] /\ req \in [Requests -> RequestRecord]
      /\ mon \in [Monitors -> MonitorRecord]
      BY DEF TypeInv, TypeOK, RowsOK, MonitorsOK
<1>4. req'[r].pc # "size" /\ \A q \in Requests : q = r
      BY <1>1, <1>3 DEF NoRequest, NothingComesBack
<1>5. AdmittedStays'
      BY <1>4 DEF AdmittedStays
<1>6. \A k \in Jobs : k # j => status'[k] = status[k] /\ Targets(k)' = Targets(k)
      BY <1>2, <1>3 DEF Targets
<1>7. Targets(j)' = {req[r].head} \cup req[r].workers
      BY <1>2, <1>3 DEF Targets
<1>8. NodesNotShared'
  <2> SUFFICES ASSUME NEW i \in Jobs, NEW k \in Jobs, i # k, status'[i] \in Occupying,
                      status'[k] \in Occupying
               PROVE  Targets(i)' \cap Targets(k)' = {}
      BY DEF NodesNotShared
  <2>1. CASE i # j /\ k # j
        BY <1>6, <2>1 DEF SharingInv, NodesNotShared
  <2>2. CASE i = j
    <3>1. Targets(k) \cap ({req[r].head} \cup req[r].workers) = {}
          BY <1>1, <1>6, <2>2 DEF SharingInv, AdmittedStays
    <3> QED BY <1>6, <1>7, <2>2, <3>1
  <2>3. CASE k = j
    <3>1. Targets(i) \cap ({req[r].head} \cup req[r].workers) = {}
          BY <1>1, <1>6, <2>3 DEF SharingInv, AdmittedStays
    <3> QED BY <1>6, <1>7, <2>3, <3>1
  <2> QED BY <2>1, <2>2, <2>3
<1>9. PICK m \in Monitors :
         mon[m].pc = "free" /\ mon' = [mon EXCEPT ![m] = [FreeMonitor EXCEPT !.job = j, !.pc = "begin"]]
      BY <1>2 DEF Spawn
<1>10. mon'[m].job = j /\ mon'[m].pc = "begin" /\ \A k \in Monitors : k # m => mon'[k] = mon[k]
      BY <1>3, <1>9 DEF FreeMonitor
<1>11. \A k \in Monitors : mon[k].pc # "free" => mon[k].job \in Jobs /\ mon[k].job # j
      BY <1>2 DEF TypeInv, TypeOK, MonitorsOK
<1>12. OneCoroutine'
      BY <1>10, <1>11 DEF SharingInv, OneCoroutine
<1>13. status'[j] \in Occupying
  <2>1. status'[j] = req[r].st
        BY <1>2, <1>3
  <2>2. req[r].st \in {"downloading", "sending"}
        BY <1>1, <1>3 DEF TypeInv, ReqOK, RequestRecord
  <2> QED BY <2>1, <2>2 DEF Occupying, Phases
<1>14. CoroutineOccupies'
      BY <1>6, <1>10, <1>11, <1>13 DEF SharingInv, CoroutineOccupies
<1> QED BY <1>5, <1>8, <1>12, <1>14 DEF SharingInv

LEMMA CrashApart ==
    ASSUME TypeInv, SharingInv, Crash
    PROVE  SharingInv'
<1>1. PICK g \in [Monitors -> {j \in Jobs : status[j] \in Phases} \cup {NoJob}] :
        /\ \A m, k \in Monitors : g[m] = g[k] /\ g[m] # NoJob => m = k
        /\ mon' = [m \in Monitors |->
                     IF g[m] = NoJob THEN FreeMonitor
                     ELSE [FreeMonitor EXCEPT !.job = g[m], !.pc = "begin"]]
      BY DEF Crash
<1>2. UNCHANGED <<status, head, workers>> /\ req' = [r \in Requests |-> NoRequest]
      BY DEF Crash
<1>3. ASSUME NEW m \in Monitors, mon'[m].pc # "free"
      PROVE  g[m] # NoJob /\ mon'[m].job = g[m] /\ status[g[m]] \in Phases
  <2>1. g[m] # NoJob
        BY <1>1, <1>3 DEF FreeMonitor
  <2>2. mon'[m] = [FreeMonitor EXCEPT !.job = g[m], !.pc = "begin"]
        BY <1>1, <2>1
  <2>3. mon'[m].job = g[m]
        BY <2>2 DEF FreeMonitor
  <2> QED BY <1>1, <2>1, <2>3
<1>4. OneCoroutine'
      BY <1>1, <1>3 DEF OneCoroutine
<1>5. CoroutineOccupies'
      BY <1>2, <1>3 DEF CoroutineOccupies, Occupying
<1>6. NodesNotShared' /\ AdmittedStays'
      BY <1>2, StillApart DEF NothingNewOccupies, NoRequest
<1> QED BY <1>4, <1>5, <1>6 DEF SharingInv

LEMMA StepKeepsApart ==
    ASSUME TypeInv, SharingInv, NothingComesBack, [Next]_vars
    PROVE  SharingInv'
<1>1. ASSUME NEW m \in Monitors, MonitorStep(m) PROVE SharingInv'
      BY <1>1, StepOutcome, OutcomeApart
<1>2. ASSUME UNCHANGED <<status, head, workers, req>>,
             \A k \in Monitors : mon'[k].job = mon[k].job /\ mon'[k].pc = mon[k].pc
      PROVE  SharingInv'
      BY <1>2, QuietApart DEF NothingNewOccupies
<1>3. ASSUME NEW m \in Monitors, NEW n \in Nodes, SyncStep(m, n) PROVE SharingInv'
      BY <1>2, <1>3, SyncStepQuiet
<1>4. ASSUME NEW j \in Jobs, Pause(j) \/ Delete(j) PROVE SharingInv'
  <2>1. /\ UNCHANGED <<head, workers, req, mon>> /\ status \in [Jobs -> Status]
        /\ \/ status' = [status EXCEPT ![j] = "paused"] /\ status[j] \in Phases
           \/ status' = [status EXCEPT ![j] = "deleted"]
        BY <1>4 DEF Pause, Delete, TypeInv, TypeOK, RowsOK
  <2>2. \A k \in Jobs : \/ status'[k] = status[k]
                        \/ status'[k] = "paused" /\ status[k] \in Phases
                        \/ status'[k] = "deleted"
        BY <2>1
  <2>3. /\ NothingNewOccupies
        /\ \A k \in Jobs : status'[k] = status[k] \/ status'[k] \in Occupying \cup {"deleted"}
        BY <2>1, <2>2 DEF NothingNewOccupies, Occupying, Phases
  <2> QED BY <2>1, <2>3, QuietApart
<1>5. \A j \in Jobs : ~Resume(j) /\ ~Retry(j) /\ ~Cancel(j)
      BY DEF NothingComesBack, Resume, Retry, Cancel
<1>6. CASE UNCHANGED <<status, head, workers, req, mon>>
      BY <1>2, <1>6
<1>7. ASSUME NEW src \in Nodes, NEW dst \in Nodes, ManualSync(src, dst) PROVE SharingInv'
      BY <1>6, <1>7 DEF ManualSync
<1>8. ASSUME NEW n \in Nodes, NodeModelDelete(n) \/ AgentRestarts(n) PROVE SharingInv'
      BY <1>6, <1>8 DEF NodeModelDelete, AgentRestarts
<1>9. ASSUME NEW f \in Fetches, FetchEnds(f) PROVE SharingInv'
      BY <1>6, <1>9 DEF FetchEnds
<1>10. CASE UNCHANGED vars
      BY <1>6, <1>10 DEF vars
<1> QED BY <1>1, <1>3, <1>4, <1>5, <1>7, <1>8, <1>9, <1>10, CrashApart, StartCheckApart,
           StartInsertApart DEF Next, Environment, System

\* No node is the target of two jobs that occupy it: the check of a request holds until
\* its insertion, and no coroutine revives a row that has given its nodes up.  Pauses,
\* deletions, failures, restarts of agents and of the backend included; with resume, retry,
\* cancel or a second request in between the code does not give this.
THEOREM NodesNotSharedCorrect ==
    ASSUME NothingComesBack
    PROVE  Spec => []NodesNotShared
<1>1. Init => SharingInv
      BY DEF Init, SharingInv, NodesNotShared, AdmittedStays, OneCoroutine, CoroutineOccupies,
             Occupying, Phases, NoRequest, FreeMonitor
<1>2. TypeInv /\ SharingInv /\ [Next]_vars => SharingInv'
      BY StepKeepsApart
<1>3. SharingInv => NodesNotShared
      BY DEF SharingInv
<1> QED BY InitTyped, StepKeepsTypes, <1>1, <1>2, <1>3, PTL DEF Spec

----------------------------------------------------------------------------
(* The promise: what the steps do to rows and nodes.                       *)

\* Nodes lose nothing.
LEMMA FilesStay ==
    ASSUME TypeInv, NothingIsLost, [Next]_vars, NEW n \in Nodes
    PROVE  have[n] \subseteq have'[n]
<1>1. have \in [Nodes -> SUBSET Files]
      BY DEF TypeInv, TypeOK, AgentsOK
<1>2. CASE Environment
  <2>1. ~NodeModelDelete(n) /\ \A k \in Nodes : ~NodeModelDelete(k)
        BY DEF NothingIsLost, NodeModelDelete
  <2>2. CASE Crash
    <3>1. PICK late \in [Monitors -> SUBSET Files] :
             have' = [k \in Nodes |-> have[k] \cup
                        UNION {late[m] : m \in {i \in Monitors :
                                                  late[i] # {} /\ head[mon[i].job] = k}}]
          BY <2>2 DEF Crash
    <3> QED BY <1>1, <3>1
  <2> QED BY <1>2, <2>1, <2>2 DEF Environment, StartCheck, Pause, Resume, Retry, Cancel, Delete,
                              ManualSync, AgentRestarts
<1>3. ASSUME NEW r \in Requests, StartInsert(r) PROVE have' = have
      BY <1>3 DEF StartInsert
<1>4. ASSUME NEW f \in Fetches, FetchEnds(f) PROVE have[n] \subseteq have'[n]
      BY <1>1, <1>4 DEF FetchEnds
<1>5. ASSUME NEW m \in Monitors, NEW k \in Nodes, SyncStep(m, k) PROVE have' = have
      BY <1>5 DEF SyncStep, Adopt, OldStopped, Fetch, Record, PollEnd, PollAgain, PollStop,
                  Stopped, SyncFails
<1>6. ASSUME NEW m \in Monitors, MonitorStep(m) PROVE have[n] \subseteq have'[n]
      BY <1>1, <1>6 DEF MonitorStep, Begin, Prepared, PrepareFails, SendFails, SendEnd, SendCheck,
                        SendDone, Mirrored, Share, ShareFails, CheckWorker, Merge, Final
<1> QED BY <1>2, <1>3, <1>4, <1>5, <1>6 DEF Next, System, vars

\* What a coroutine writes into its row.
LEMMA MonitorWrites ==
    ASSUME TypeInv, NEW m \in Monitors, MonitorStep(m), NEW j \in Jobs, status'[j] # status[j]
    PROVE  /\ status'[j] \in Phases \cup {"failed", "completed"}
           /\ status'[j] = "completed" => UNCHANGED have
<1>1. status \in [Jobs -> Status] /\ mon[m].pc # "free" /\ mon[m].job \in Jobs
      BY StepOutcome, MonitorUsed DEF TypeInv, TypeOK, RowsOK
<1>2. CASE Prepared(m) \/ Mirrored(m)
      BY <1>1, <1>2 DEF Prepared, Mirrored, ToWorkers, Writes, Phases
<1>3. CASE Merge(m) \/ Final(m)
      BY <1>1, <1>3 DEF Merge, Final, Concludes, Verdict
<1>4. CASE ~(Prepared(m) \/ Mirrored(m) \/ Merge(m) \/ Final(m))
      BY <1>1, <1>4 DEF MonitorStep, Begin, PrepareFails, SendFails, SendEnd, SendCheck, SendDone,
                        Share, ShareFails, CheckWorker, Writes, rowVars
<1> QED BY <1>2, <1>3, <1>4

----------------------------------------------------------------------------
(* The promise: the steps of the abstract specification.                   *)

FullStay == \A n \in Nodes : have[n] = Files => have'[n] = Files

LEMMA Stateful ==
    ASSUME NEW s \in Status
    PROVE  /\ StateOf(s) = "none" <=> s = "unused"
           /\ StateOf(s) = "removed" <=> s = "deleted"
           /\ StateOf(s) = "open" <=> s \in Occupying
           /\ StateOf(s) = "completed" <=> s = "completed"
           /\ StateOf(s) = "ended" <=> s \in {"failed", "cancelled"}
           /\ StateOf(s) \in {"none", "removed", "open", "completed", "ended"}
BY DEF StateOf, Status, Occupying, Phases

LEMMA KeepsAbstractly ==
    ASSUME TypeInv, FullStay
    PROVE  Transfer!NodesKeep
<1>1. [n \in Nodes |-> Holds(n)]' \in [Nodes -> SUBSET {"model"}]
      BY DEF Holds
<1>2. ASSUME NEW j \in Jobs, NEW n \in Claim(j), Item(j) \in Holds(n)
      PROVE  n \in Nodes /\ Item(j) \in Holds(n)'
  <2>1. n \in Nodes
        BY <1>2 DEF Claim, Targets, TypeInv, TypeOK, RowsOK, Status, Occupying, Phases
  <2> QED BY <1>2, <2>1 DEF Holds, FullStay
<1>3. \A j \in Jobs : Claim(j) \subseteq Nodes
      BY DEF Claim, Targets, TypeInv, TypeOK, RowsOK, Status, Occupying, Phases
<1> QED BY <1>1, <1>2, <1>3 DEF Transfer!NodesKeep

\* Nothing but the nodes changes.
LEMMA StaysAbstractly ==
    ASSUME TypeInv, FullStay,
           \A j \in Jobs : /\ StateOf(status'[j]) = StateOf(status[j])
                           /\ Claim(j)' = Claim(j) /\ Item(j)' = Item(j)
    PROVE  Transfer!Next
<1>1. Transfer!NodesChange
      BY KeepsAbstractly DEF Transfer!NodesChange
<1> QED BY <1>1 DEF Transfer!Next

\* Job j leaves the open ones, and the others stay what they are.
LEMMA ClosesAbstractly ==
    ASSUME TypeInv, TypeInv', UNCHANGED <<head, workers>>, NEW j \in Jobs, Exists(j),
           \A k \in Jobs \ {j} : status'[k] = status[k],
           status'[j] \in {"completed", "failed", "deleted"}
    PROVE  /\ Transfer!Closes(j, StateOf(status'[j]))
           /\ [k \in Jobs |-> Item(k)]' = [[k \in Jobs |-> Item(k)] EXCEPT ![j] = Item(j)']
<1>1. \A k \in Jobs : k # j => Claim(k)' = Claim(k) /\ Item(k)' = Item(k)
      BY DEF Claim, Item, Targets, Exists
<1>2. Claim(j)' = {}
      BY DEF Claim, Occupying, Phases
<1> QED BY <1>1, <1>2 DEF Transfer!Closes

LEMMA InsertsAbstractly ==
    ASSUME TypeInv, TypeInv', SharingInv, NEW r \in Requests, StartInsert(r)
    PROVE  Transfer!Next
<1>1. PICK j \in Jobs : /\ status[j] = "unused"
                        /\ status' = [status EXCEPT ![j] = req[r].st]
                        /\ head' = [head EXCEPT ![j] = req[r].head]
                        /\ workers' = [workers EXCEPT ![j] = req[r].workers]
      BY DEF StartInsert
<1>2. /\ req[r].pc = "size" /\ UNCHANGED have
      /\ req[r] \in RequestRecord /\ req[r].st \in {"downloading", "sending"}
      BY DEF StartInsert, TypeInv, TypeOK, ReqOK, RequestRecord
<1>3. /\ status \in [Jobs -> Status] /\ head \in [Jobs -> Nodes \cup {NoNode}]
      /\ workers \in [Jobs -> SUBSET Nodes]
      BY DEF TypeInv, TypeOK, RowsOK
<1>4. /\ \A k \in Jobs : k # j => /\ status'[k] = status[k]
                                  /\ Claim(k)' = Claim(k) /\ Item(k)' = Item(k)
      /\ status'[j] = req[r].st /\ head'[j] = req[r].head /\ workers'[j] = req[r].workers
      BY <1>1, <1>3 DEF Claim, Item, Targets, Exists
<1>5. /\ Claim(j)' = {req[r].head} \cup req[r].workers /\ Claim(j)' \in SUBSET Nodes
      /\ Item(j)' = "model"
  <2>1. status'[j] \in Occupying /\ Exists(j)'
        BY <1>2, <1>4 DEF Occupying, Phases, Exists
  <2>2. head'[j] \in Nodes /\ workers'[j] \in SUBSET Nodes
        BY <2>1 DEF TypeInv, TypeOK, RowsOK, Occupying, Phases
  <2> QED BY <1>4, <2>1, <2>2 DEF Claim, Item, Targets
<1>6. \A k \in Jobs : Claim(k) \cap Claim(j)' = {}
      BY <1>2, <1>5 DEF Claim, SharingInv, AdmittedStays
<1>7. StateOf(status[j]) = "none" /\ StateOf(status'[j]) = "open"
      BY <1>1, <1>2, <1>4 DEF StateOf, Occupying, Phases
<1>8. Transfer!Start(j)
  <2>1. [k \in Jobs |-> StateOf(status[k])]' =
          [[k \in Jobs |-> StateOf(status[k])] EXCEPT ![j] = "open"]
        BY <1>4, <1>7
  <2>2. /\ [k \in Jobs |-> Claim(k)]' = [[k \in Jobs |-> Claim(k)] EXCEPT ![j] = Claim(j)']
        /\ [k \in Jobs |-> Item(k)]' = [[k \in Jobs |-> Item(k)] EXCEPT ![j] = "model"]
        BY <1>4, <1>5
  <2>3. [n \in Nodes |-> Holds(n)]' = [n \in Nodes |-> Holds(n)]
        BY <1>2 DEF Holds
  <2> QED BY <1>5, <1>6, <1>7, <2>1, <2>2, <2>3 DEF Transfer!Start
<1> QED BY <1>8 DEF Transfer!Next

LEMMA DeletesAbstractly ==
    ASSUME TypeInv, TypeInv', NEW j \in Jobs, Delete(j)
    PROVE  Transfer!Next
<1>1. /\ Exists(j) /\ status \in [Jobs -> Status] /\ status' = [status EXCEPT ![j] = "deleted"]
      /\ UNCHANGED <<head, workers, have>>
      BY DEF Delete, TypeInv, TypeOK, RowsOK
<1>2. status'[j] = "deleted" /\ \A k \in Jobs \ {j} : status'[k] = status[k]
      BY <1>1
<1>3. /\ Transfer!Closes(j, "removed")
      /\ [k \in Jobs |-> Item(k)]' = [[k \in Jobs |-> Item(k)] EXCEPT ![j] = "none"]
  <2>1. StateOf(status'[j]) = "removed" /\ Item(j)' = "none"
        BY <1>2 DEF StateOf, Item, Exists, Occupying, Phases
  <2> QED BY <1>1, <1>2, <2>1, ClosesAbstractly
<1>4. StateOf(status[j]) \in {"open", "completed", "ended"}
      BY <1>1, Stateful DEF Exists
<1>5. [n \in Nodes |-> Holds(n)]' = [n \in Nodes |-> Holds(n)]
      BY <1>1 DEF Holds
<1>6. Transfer!Remove(j)
      BY <1>3, <1>4, <1>5 DEF Transfer!Remove
<1> QED BY <1>6 DEF Transfer!Next

LEMMA CoroutineAbstractly ==
    ASSUME DeliveryInv, TypeInv', SharingInv, FullStay, NEW m \in Monitors, MonitorStep(m)
    PROVE  Transfer!Next
<1>0. TypeInv /\ status \in [Jobs -> Status] /\ status' \in [Jobs -> Status]
      BY DEF DeliveryInv, TypeInv, TypeOK, RowsOK
<1>1. PICK j \in Jobs : j = mon[m].job
      BY <1>0, StepOutcome, MonitorUsed
<1>2. /\ UNCHANGED <<head, workers>> /\ mon[m].pc # "free"
      /\ \A k \in Jobs : status'[k] # status[k] => k = j /\ Exists(k)
      BY <1>0, <1>1, StepOutcome DEF Outcome
<1>3. status'[j] # status[j] => status[j] \in Occupying
      BY <1>1, <1>2 DEF SharingInv, CoroutineOccupies, Exists
<1>4. CASE \A k \in Jobs : status'[k] = status[k]
  <2>1. \A k \in Jobs : Claim(k)' = Claim(k) /\ Item(k)' = Item(k)
        BY <1>2, <1>4 DEF Claim, Item, Targets, Exists
  <2> QED BY <1>0, <1>4, <2>1, StaysAbstractly
<1>5. CASE status'[j] # status[j] /\ status'[j] \in Phases
  <2>1. status'[j] \in Occupying /\ status[j] \in Occupying
        BY <1>3, <1>5 DEF Occupying
  <2>2. \A k \in Jobs : /\ Claim(k)' = Claim(k) /\ Item(k)' = Item(k)
                        /\ StateOf(status'[k]) = StateOf(status[k])
    <3>1. StateOf(status'[j]) = StateOf(status[j])
          BY <1>0, <2>1, Stateful
    <3> QED BY <1>2, <2>1, <3>1 DEF Claim, Item, Targets, Exists, Occupying, Phases
  <2> QED BY <1>0, <2>2, StaysAbstractly
<1>6. CASE status'[j] # status[j] /\ status'[j] \in {"failed", "completed"}
  <2>1. /\ Transfer!Closes(j, StateOf(status'[j]))
        /\ [k \in Jobs |-> Item(k)]' = [[k \in Jobs |-> Item(k)] EXCEPT ![j] = Item(j)']
        BY <1>0, <1>2, <1>6, ClosesAbstractly
  <2>2. StateOf(status[j]) = "open" /\ Item(j) = "model" /\ Item(j)' = "model"
        BY <1>0, <1>3, <1>6, Stateful DEF Item, Exists, Occupying, Phases
  <2>3. [k \in Jobs |-> Item(k)]' = [k \in Jobs |-> Item(k)]
        BY <2>1, <2>2
  <2>4. CASE status'[j] = "failed"
    <3>1. StateOf(status'[j]) = "ended"
          BY <2>4 DEF StateOf, Occupying, Phases
    <3>2. Transfer!GiveUp(j)
          BY <1>0, <2>1, <2>2, <2>3, <3>1, KeepsAbstractly DEF Transfer!GiveUp
    <3> QED BY <3>2 DEF Transfer!Next
  <2>5. CASE status'[j] = "completed"
    <3>1. StateOf(status'[j]) = "completed"
          BY <2>5 DEF StateOf, Occupying, Phases
    <3>2. Delivered(j)
      <4>1. Next
            BY DEF Next, System
      <4> QED BY <1>6, <2>5, <4>1, CompletesDelivered
    <3>3. Claim(j) \in SUBSET Nodes /\ \A n \in Claim(j) : Item(j) \in Holds(n)
      <4>1. Claim(j) = Targets(j) /\ Targets(j) \in SUBSET Nodes
            BY <1>0, <1>3, <1>6 DEF Claim, Targets, TypeInv, TypeOK, RowsOK, Occupying, Phases
      <4> QED BY <2>2, <3>2, <4>1 DEF Delivered, Holds
    <3>4. UNCHANGED have
          BY <1>0, <1>6, <2>5, MonitorWrites
    <3>5. [n \in Nodes |-> Holds(n)]' = [n \in Nodes |-> Holds(n)]
          BY <3>4 DEF Holds
    <3>6. Transfer!Complete(j)
          BY <2>1, <2>2, <2>3, <3>1, <3>3, <3>5 DEF Transfer!Complete
    <3> QED BY <3>6 DEF Transfer!Next
  <2> QED BY <1>6, <2>4, <2>5
<1> QED BY <1>0, <1>2, <1>4, <1>5, <1>6, MonitorWrites

LEMMA StepAbstractly ==
    ASSUME DeliveryInv, SharingInv, NothingIsLost, NothingComesBack, [Next]_vars
    PROVE  Transfer!Next
<1>1. TypeInv /\ TypeInv' /\ status \in [Jobs -> Status]
      BY StepKeepsTypes DEF DeliveryInv, TypeInv, TypeOK, RowsOK
<1>2. FullStay
      BY <1>1, FilesStay DEF FullStay, TypeInv, TypeOK, AgentsOK
<1>3. CASE UNCHANGED <<status, head, workers>>
  <2>1. \A j \in Jobs : Claim(j)' = Claim(j) /\ Item(j)' = Item(j)
        BY <1>3 DEF Claim, Item, Targets, Exists
  <2> QED BY <1>1, <1>2, <1>3, <2>1, StaysAbstractly
<1>4. ASSUME NEW j \in Jobs, Pause(j) PROVE Transfer!Next
  <2>1. /\ status[j] \in Occupying /\ status'[j] \in Occupying /\ UNCHANGED <<head, workers>>
        /\ \A k \in Jobs : k # j => status'[k] = status[k]
        BY <1>1, <1>4 DEF Pause, Occupying
  <2>2. StateOf(status'[j]) = StateOf(status[j])
        BY <2>1 DEF StateOf, Occupying, Phases
  <2>3. \A k \in Jobs : /\ Claim(k)' = Claim(k) /\ Item(k)' = Item(k)
                        /\ StateOf(status'[k]) = StateOf(status[k])
        BY <2>1, <2>2 DEF Claim, Item, Targets, Exists, Occupying, Phases
  <2> QED BY <1>1, <1>2, <2>3, StaysAbstractly
<1>5. \A j \in Jobs : ~Resume(j) /\ ~Retry(j) /\ ~Cancel(j)
      BY DEF NothingComesBack, Resume, Retry, Cancel
<1>6. CASE \/ UNCHANGED vars \/ Crash
           \/ \E r \in Requests, h \in Nodes, W \in SUBSET Nodes,
                s \in {"downloading", "sending"} : StartCheck(r, h, W, s)
           \/ \E src, dst \in Nodes : ManualSync(src, dst)
           \/ \E n \in Nodes : NodeModelDelete(n) \/ AgentRestarts(n)
           \/ \E f \in Fetches : FetchEnds(f)
           \/ \E m \in Monitors, n \in Nodes : SyncStep(m, n)
  <2>1. UNCHANGED <<status, head, workers>>
        BY <1>1, <1>6, SyncStepQuiet
           DEF vars, Crash, StartCheck, ManualSync, NodeModelDelete, AgentRestarts, FetchEnds, rowVars
  <2> QED BY <1>3, <2>1
<1>7. ASSUME NEW r \in Requests, StartInsert(r) PROVE Transfer!Next
      BY <1>1, <1>7, InsertsAbstractly
<1>8. ASSUME NEW j \in Jobs, Delete(j) PROVE Transfer!Next
      BY <1>1, <1>8, DeletesAbstractly
<1>9. ASSUME NEW m \in Monitors, MonitorStep(m) PROVE Transfer!Next
      BY <1>1, <1>2, <1>9, CoroutineAbstractly
<1> QED BY <1>4, <1>5, <1>6, <1>7, <1>8, <1>9 DEF Next, Environment, System

\* The jobs implement TransferJob, with one request at a time and as long as no cache is
\* emptied and no job comes back: a late write of a coroutine never takes up again what has
\* ended, and completes only a job that is under way and whose nodes have every file.
THEOREM Refinement ==
    ASSUME NothingIsLost, NothingComesBack
    PROVE  Spec => Implements
<1>1. Init => Transfer!Init
  <2> SUFFICES ASSUME Init PROVE Transfer!Init
      OBVIOUS
  <2>1. /\ \A j \in Jobs : StateOf(status[j]) = "none" /\ Claim(j) = {} /\ Item(j) = "none"
        /\ \A n \in Nodes : Holds(n) = {}
        BY ConstantsAssumption DEF Init, StateOf, Claim, Item, Exists, Holds, Occupying, Phases
  <2> QED BY <2>1 DEF Transfer!Init
<1>2. Init => DeliveryInv
      BY InitDelivers
<1>3. DeliveryInv /\ [Next]_vars => DeliveryInv'
      BY StepKeepsDelivery
<1>4. Init => SharingInv
      BY DEF Init, SharingInv, NodesNotShared, AdmittedStays, OneCoroutine, CoroutineOccupies,
             Occupying, Phases, NoRequest, FreeMonitor
<1>5. DeliveryInv /\ SharingInv /\ [Next]_vars => SharingInv'
      BY StepKeepsApart DEF DeliveryInv
<1>6. DeliveryInv /\ SharingInv /\ [Next]_vars => [Transfer!Next]_(Transfer!vars)
      BY StepAbstractly
<1> QED BY <1>1, <1>2, <1>3, <1>4, <1>5, <1>6, PTL DEF Spec, Implements, Transfer!Spec
=============================================================================
