------------------------- MODULE ModelDistribution -------------------------
(***************************************************************************)
(* Distribution of a model from the control plane to a head node and from  *)
(* there to its workers (backend/app/services/model_manager.py from        *)
(* _send_repo_to_node to resume_download_monitors, the transfer endpoints  *)
(* of routers/models.py, and the fetch jobs of agent/main.py).             *)
(*                                                                         *)
(* A job is a row driven by a coroutine, _monitor_job: it sends the files  *)
(* to the head, then starts a fetch job on every worker's agent and polls  *)
(* it.  Every resume, retry and restart of the backend starts another      *)
(* coroutine; they find out about each other, and about pause and cancel,  *)
(* by reading the row.  `seen` is the status a coroutine's ORM session has *)
(* loaded: assigning the same value writes nothing, any other value is     *)
(* written over whatever the row says by now.                              *)
(*                                                                         *)
(* Atomicity: one event loop, so a stretch from one await to the next is   *)
(* one action; a call to an agent is one action, except model_fetch, whose *)
(* answer carries the id that has to be recorded.                          *)
(*                                                                         *)
(* One repository, one version, complete in the control plane's cache:     *)
(* ModelDownload is about how it gets there.                               *)
(***************************************************************************)
EXTENDS Naturals, FiniteSets

CONSTANTS
    Jobs,      \* ids the model_downloads table may hand out
    Nodes,
    Files,     \* the files of the version
    Monitors,  \* slots for _monitor_job coroutines
    Requests,  \* slots for requests that start a job
    Fetches,   \* slots for fetch jobs on the agents
    Ops,       \* what users and the environment do in this instance
    NoJob, NoNode, NoFetch

OpNames == {"pause", "resume", "retry", "cancel", "delete", "sync", "deleteCache",
            "fail", "agentRestart", "crash"}

ASSUME ConstantsAssumption ==
    /\ NoJob \notin Jobs /\ NoNode \notin Nodes /\ NoFetch \notin Fetches
    /\ Files # {} /\ Ops \subseteq OpNames

VARIABLES
    status,   \* ModelDownload.status
    head,     \* ModelDownload.head_node_id
    workers,  \* the keys of ModelDownload.sync_jobs
    sync,     \* its values: state and fetch job of every worker
    phase,    \* _paused_phase
    have,     \* the files each node has
    fetch,    \* the fetch jobs of the agents
    mon,      \* the _monitor_job coroutines
    req       \* requests between the admission check and the insertion

rowVars == <<status, head, workers, sync>>
vars == <<status, head, workers, sync, phase, have, fetch, mon, req>>

Phases == {"downloading", "sending", "syncing"}      \* _ACTIVE_STATUSES
Occupying == Phases \cup {"paused"}
Status == Occupying \cup {"unused", "completed", "failed", "cancelled", "deleted"}
Live == {"running", "cancelling"}

Pending == [st |-> "pending", fid |-> NoFetch]
NoSub == [pc |-> "none", fid |-> NoFetch, res |-> "none"]
FreeMonitor == [job |-> NoJob, pc |-> "free", seen |-> "unused", todo |-> {}, flying |-> {},
                files |-> {}, plan |-> [n \in Nodes |-> Pending], check |-> {},
                sub |-> [n \in Nodes |-> NoSub]]
NoFetchJob == [st |-> "none", node |-> NoNode, job |-> NoJob, files |-> {}]
NoRequest == [pc |-> "idle", st |-> "unused", head |-> NoNode, workers |-> {}]

FetchId == Fetches \cup {NoFetch}
SyncEntry == [st : {"pending", "syncing", "paused", "completed", "failed", "cancelled"},
              fid : FetchId]
SubRecord == [pc : {"none", "adopt", "stopOld", "fetch", "record", "poll", "stop", "done"},
              fid : FetchId,
              res : {"none", "paused", "completed", "failed", "cancelled"}]
MonitorRecord == [job : Jobs \cup {NoJob},
                  pc : {"free", "begin", "prep", "send", "mirror", "share", "check", "sync",
                        "final"},
                  seen : Status, todo : SUBSET Files, flying : SUBSET Files,
                  files : SUBSET Files, plan : [Nodes -> SyncEntry], check : SUBSET Nodes,
                  sub : [Nodes -> SubRecord]]
FetchRecord == [st : Live \cup {"none", "completed", "failed", "cancelled"},
                node : Nodes \cup {NoNode}, job : Jobs \cup {NoJob}, files : SUBSET Files]
RequestRecord == [pc : {"idle", "size"}, st : {"unused", "downloading", "sending"},
                  head : Nodes \cup {NoNode}, workers : SUBSET Nodes]

RowsOK ==
    /\ status \in [Jobs -> Status] /\ phase \in [Jobs -> Phases \cup {"none"}]
    /\ head \in [Jobs -> Nodes \cup {NoNode}] /\ workers \in [Jobs -> SUBSET Nodes]
    /\ \A j \in Jobs : status[j] # "unused" => head[j] \in Nodes \ workers[j]
    /\ sync \in [Jobs -> [Nodes -> SyncEntry]]
AgentsOK ==
    /\ have \in [Nodes -> SUBSET Files] /\ fetch \in [Fetches -> FetchRecord]
    /\ \A f \in Fetches : fetch[f].st # "none" => fetch[f].node \in Nodes
MonitorsOK ==
    /\ mon \in [Monitors -> MonitorRecord]
    /\ \A m \in Monitors :
         mon[m].pc # "free" => mon[m].job \in Jobs /\ status[mon[m].job] # "unused"
TypeOK == RowsOK /\ AgentsOK /\ MonitorsOK /\ req \in [Requests -> RequestRecord]

Init ==
    /\ status = [j \in Jobs |-> "unused"] /\ phase = [j \in Jobs |-> "none"]
    /\ head = [j \in Jobs |-> NoNode] /\ workers = [j \in Jobs |-> {}]
    /\ sync = [j \in Jobs |-> [n \in Nodes |-> Pending]]
    /\ have = [n \in Nodes |-> {}]
    /\ fetch = [f \in Fetches |-> NoFetchJob]
    /\ mon = [m \in Monitors |-> FreeMonitor]
    /\ req = [r \in Requests |-> NoRequest]

----------------------------------------------------------------------------
(* The agents.                                                             *)

\* Ids are unique: a slot is reused when nothing mentions it any more.
Unused(f) ==
    /\ fetch[f].st \notin Live
    /\ \A j \in Jobs, n \in Nodes : sync[j][n].fid # f
    /\ \A m \in Monitors, n \in Nodes : mon[m].sub[n].fid # f /\ mon[m].plan[n].fid # f

\* model_fetch
StartsFetch(f, n, j, M) ==
    fetch' = [fetch EXCEPT ![f] = [st |-> "running", node |-> n, job |-> j, files |-> M]]

\* _do_model_fetch ends; a cancel that comes after its last look is too late.
FetchEnds(f) ==
    LET n == fetch[f].node
    IN  /\ fetch[f].st \in Live
        /\ \/ /\ fetch' = [fetch EXCEPT ![f].st = "completed"]
              /\ have' = [have EXCEPT ![n] = @ \cup fetch[f].files]
           \/ /\ fetch' = [fetch EXCEPT ![f].st = IF @ = "running" THEN "failed" ELSE "cancelled"]
              /\ fetch[f].st = "cancelling" \/ "fail" \in Ops
              /\ UNCHANGED have
        /\ UNCHANGED <<rowVars, phase, mon, req>>

\* An agent restarts and forgets its fetch jobs.
AgentRestarts(n) ==
    /\ "agentRestart" \in Ops /\ \E f \in Fetches : fetch[f].node = n
    /\ fetch' = [f \in Fetches |-> IF fetch[f].node = n THEN NoFetchJob ELSE fetch[f]]
    /\ UNCHANGED <<rowVars, phase, have, mon, req>>

----------------------------------------------------------------------------
(* Requests.                                                               *)

Exists(j) == status[j] \notin {"unused", "deleted"}
Targets(j) == {head[j]} \cup workers[j]

\* Mutant of Admitted: only a job with the same head is in the way.
AdmittedByHead(N, except) ==
    \A j \in Jobs \ except : status[j] \in Occupying => head[j] \notin N
\* Mutant of Admitted: a paused job is not in the way.
AdmittedToRunning(N, except) ==
    \A j \in Jobs \ except : status[j] \in Phases => Targets(j) \cap N = {}

\* _check_model_transfer_admission, for a transfer that downloads nothing.
Admitted(N, except) ==
    \A j \in Jobs \ except : status[j] \in Occupying => Targets(j) \cap N = {}

Spawn(j) ==
    \E m \in Monitors :
        /\ mon[m].pc = "free"
        /\ mon' = [mon EXCEPT ![m] = [FreeMonitor EXCEPT !.job = j, !.pc = "begin"]]

\* start_download_job up to the await of repo_total_size: from /distribute with status
\* sending, from /download and ensure_model_on_nodes with status downloading.
StartCheck(r, h, W, s) ==
    /\ req[r].pc = "idle" /\ h \notin W /\ Admitted({h} \cup W, {})
    /\ \E j \in Jobs : status[j] = "unused"
    /\ req' = [req EXCEPT ![r] = [pc |-> "size", st |-> s, head |-> h, workers |-> W]]
    /\ UNCHANGED <<rowVars, phase, have, fetch, mon>>

StartInsert(r) ==
    /\ req[r].pc = "size"
    /\ \E j \in Jobs :
         /\ status[j] = "unused" /\ Spawn(j)
         /\ status' = [status EXCEPT ![j] = req[r].st]
         /\ head' = [head EXCEPT ![j] = req[r].head]
         /\ workers' = [workers EXCEPT ![j] = req[r].workers]
    /\ req' = [req EXCEPT ![r] = NoRequest]
    /\ UNCHANGED <<sync, phase, have, fetch>>

Pause(j) ==
    /\ "pause" \in Ops /\ status[j] \in Phases
    /\ phase' = [phase EXCEPT ![j] = status[j]]
    /\ status' = [status EXCEPT ![j] = "paused"]
    /\ UNCHANGED <<head, workers, sync, have, fetch, mon, req>>

\* Mutant of Resume: the coroutine that is still there is trusted to go on.
ResumeAlone(j) ==
    /\ "resume" \in Ops /\ status[j] = "paused"
    /\ status' = [status EXCEPT ![j] = IF phase[j] = "none" THEN "downloading" ELSE phase[j]]
    /\ phase' = [phase EXCEPT ![j] = "none"]
    /\ UNCHANGED <<head, workers, sync, have, fetch, mon, req>>

\* Back to the phase that was paused; a backend restarted since starts from the beginning.
Resume(j) ==
    /\ "resume" \in Ops /\ status[j] = "paused"
    /\ status' = [status EXCEPT ![j] = IF phase[j] = "none" THEN "downloading" ELSE phase[j]]
    /\ phase' = [phase EXCEPT ![j] = "none"]
    /\ Spawn(j)
    /\ UNCHANGED <<head, workers, sync, have, fetch, req>>

Retry(j) ==
    /\ "retry" \in Ops /\ status[j] = "failed" /\ Admitted(Targets(j), {j})
    /\ status' = [status EXCEPT ![j] = "downloading"]
    /\ phase' = [phase EXCEPT ![j] = "none"]
    /\ Spawn(j)
    /\ UNCHANGED <<head, workers, sync, have, fetch, req>>

Cancel(j) ==
    /\ "cancel" \in Ops /\ status[j] \in Occupying
    /\ status' = [status EXCEPT ![j] = "cancelled"]
    /\ phase' = [phase EXCEPT ![j] = "none"]
    /\ UNCHANGED <<head, workers, sync, have, fetch, mon, req>>

\* delete_download: an active job is cancelled first, in the same step.
Delete(j) ==
    /\ "delete" \in Ops /\ Exists(j)
    /\ status' = [status EXCEPT ![j] = "deleted"]
    /\ phase' = [phase EXCEPT ![j] = "none"]
    /\ UNCHANGED <<head, workers, sync, have, fetch, mon, req>>

\* manual_sync: one node fetches what another one has, outside any job.
ManualSync(src, dst) ==
    /\ "sync" \in Ops /\ src # dst /\ have[src] # {}
    /\ \E f \in Fetches : Unused(f) /\ StartsFetch(f, dst, NoJob, have[src])
    /\ UNCHANGED <<rowVars, phase, have, mon, req>>

NodeModelDelete(n) ==
    /\ "deleteCache" \in Ops /\ have[n] # {}
    /\ have' = [have EXCEPT ![n] = {}]
    /\ UNCHANGED <<rowVars, phase, fetch, mon, req>>

----------------------------------------------------------------------------
(* The coroutine: before the workers.                                      *)

\* A coroutine whose row is gone ends with an exception nobody sees.
Goes(m, w) == mon' = [mon EXCEPT ![m] = IF Exists(mon[m].job) THEN w ELSE FreeMonitor]
Ends(m) == mon' = [mon EXCEPT ![m] = FreeMonitor]

\* The status is assigned and committed.
Writes(m, s) ==
    status' = IF Exists(mon[m].job) /\ s # mon[m].seen
              THEN [status EXCEPT ![mon[m].job] = s] ELSE status

Begin(m) ==
    LET now == status[mon[m].job]
    IN  /\ mon[m].pc = "begin"
        /\ IF now \in {"failed", "cancelled", "paused"} THEN Ends(m)
           ELSE Goes(m, [mon[m] EXCEPT !.pc = "prep", !.seen = now])
        /\ UNCHANGED <<rowVars, phase, have, fetch, req>>

\* What follows "syncing" is committed: a job without workers is completed, the others
\* ask the head for a share; the row is loaded again, its sync_jobs included.
ToWorkers(m, now) ==
    LET j == mon[m].job
    IN  IF workers[j] = {}
        THEN /\ Ends(m)
             /\ status' = IF Exists(j) THEN [status EXCEPT ![j] = "completed"] ELSE status
        ELSE /\ Goes(m, [mon[m] EXCEPT !.pc = "share", !.seen = now, !.plan = sync[j]])
             /\ status' = IF Exists(j) THEN [status EXCEPT ![j] = now] ELSE status

\* The mirror on the control plane and the capability checks are over.
Prepared(m) ==
    /\ mon[m].pc = "prep"
    /\ IF mon[m].seen = "syncing" THEN ToWorkers(m, status[mon[m].job])
       ELSE Writes(m, "sending") /\ Goes(m, [mon[m] EXCEPT !.pc = "send", !.todo = Files])
    /\ UNCHANGED <<head, workers, sync, phase, have, fetch, req>>

PrepareFails(m) ==
    /\ mon[m].pc = "prep" /\ "fail" \in Ops
    /\ Writes(m, "failed") /\ Ends(m)
    /\ UNCHANGED <<head, workers, sync, phase, have, fetch, req>>

\* pull_one: should_continue reads the row before each file.
SendCheck(m, f) ==
    LET go == status[mon[m].job] = "sending"
    IN  /\ mon[m].pc = "send" /\ f \in mon[m].todo
        /\ Goes(m, [mon[m] EXCEPT !.todo = @ \ {f}, !.flying = IF go THEN @ \cup {f} ELSE @])
        /\ UNCHANGED <<rowVars, phase, have, fetch, req>>

SendDone(m, f) ==
    /\ mon[m].pc = "send" /\ f \in mon[m].flying
    /\ have' = [have EXCEPT ![head[mon[m].job]] = @ \cup {f}]
    /\ mon' = [mon EXCEPT ![m].flying = @ \ {f}]
    /\ UNCHANGED <<rowVars, phase, fetch, req>>

\* A file failed twice; pulls under way may still arrive.
SendFails(m) ==
    LET j == mon[m].job
    IN  /\ mon[m].pc = "send" /\ mon[m].flying # {} /\ "fail" \in Ops
        /\ \E late \in SUBSET mon[m].flying : have' = [have EXCEPT ![head[j]] = @ \cup late]
        /\ status' = IF Exists(j) THEN [status EXCEPT ![j] = "failed"] ELSE status
        /\ Ends(m)
        /\ UNCHANGED <<head, workers, sync, phase, fetch, req>>

\* Mutant of SendEnd: the row is not read again.
SendEndUnread(m) ==
    /\ mon[m].pc = "send" /\ mon[m].todo = {} /\ mon[m].flying = {}
    /\ Goes(m, [mon[m] EXCEPT !.pc = "mirror", !.seen = "sending"])
    /\ UNCHANGED <<rowVars, phase, have, fetch, req>>

\* All files have had their turn and the row is read again.
SendEnd(m) ==
    /\ mon[m].pc = "send" /\ mon[m].todo = {} /\ mon[m].flying = {}
    /\ IF status[mon[m].job] # "sending" THEN Ends(m)
       ELSE Goes(m, [mon[m] EXCEPT !.pc = "mirror", !.seen = "sending"])
    /\ UNCHANGED <<rowVars, phase, have, fetch, req>>

\* The mirror on the head is done: syncing is written whatever the row says by now.
Mirrored(m) ==
    /\ mon[m].pc = "mirror"
    /\ ToWorkers(m, "syncing")
    /\ UNCHANGED <<head, workers, sync, phase, have, fetch, req>>

ShareFails(m) ==
    /\ mon[m].pc = "share" /\ ("fail" \in Ops \/ have[head[mon[m].job]] = {})
    /\ Writes(m, "failed") /\ Ends(m)
    /\ UNCHANGED <<head, workers, sync, phase, have, fetch, req>>

\* The workers are known: sync_jobs is written as a whole and the workers' coroutines start.
Checked(m, w) ==
    LET j == w.job
    IN  IF w.check # {} THEN Goes(m, w) /\ UNCHANGED sync
        ELSE /\ Goes(m, [w EXCEPT !.pc = "sync", !.plan = FreeMonitor.plan])
             /\ sync' = IF Exists(j) THEN [sync EXCEPT ![j] = w.plan] ELSE sync

\* model_share answers with what the head has; workers that are complete stay so.
Share(m) ==
    LET j    == mon[m].job
        todo == {n \in workers[j] : mon[m].plan[n].st # "completed"}
        w    == [mon[m] EXCEPT !.files = have[head[j]], !.check = todo]
    IN  /\ mon[m].pc = "share" /\ have[head[j]] # {}
        /\ IF todo # {} THEN Goes(m, [w EXCEPT !.pc = "check"])
           ELSE Goes(m, [w EXCEPT !.pc = "sync", !.plan = FreeMonitor.plan])
        /\ UNCHANGED sync
        /\ UNCHANGED <<status, head, workers, phase, have, fetch, req>>

\* _node_model_state of one worker: a complete one is skipped, one that does not answer
\* counts as incomplete; a fetch job on record is taken over.
CheckWorker(m, n) ==
    LET old  == mon[m].plan[n]
        next == IF old.st = "syncing" /\ old.fid # NoFetch
                THEN [NoSub EXCEPT !.pc = "adopt", !.fid = old.fid]
                ELSE [NoSub EXCEPT !.pc = "fetch"]
        w    == [mon[m] EXCEPT !.check = @ \ {n}]
    IN  /\ mon[m].pc = "check" /\ n \in mon[m].check
        /\ \/ have[n] = Files /\ Checked(m, [w EXCEPT !.plan[n].st = "completed"])
           \/ /\ have[n] # Files \/ "fail" \in Ops
              /\ Checked(m, [w EXCEPT !.plan[n].st = "syncing", !.sub[n] = next])
        /\ UNCHANGED <<status, head, workers, phase, have, fetch, req>>

----------------------------------------------------------------------------
(* The coroutine: _sync_model_to_worker, one per worker.                   *)

Turn(m, n, pc) == mon[m].pc = "sync" /\ mon[m].sub[n].pc = pc
SubGoes(m, n, pc, f) == mon' = [mon EXCEPT ![m].sub[n] = [@ EXCEPT !.pc = pc, !.fid = f]]
Returns(m, n, res) == mon' = [mon EXCEPT ![m].sub[n] = [@ EXCEPT !.pc = "done", !.res = res]]
AgentState(m, n) == IF mon[m].sub[n].fid = NoFetch THEN "none" ELSE fetch[mon[m].sub[n].fid].st

\* _update_sync_job
Patches(m, n, f) ==
    LET j == mon[m].job
    IN  sync' = IF Exists(j) THEN [sync EXCEPT ![j][n] = [st |-> "syncing", fid |-> f]] ELSE sync

\* The fetch job on record is looked at; one that is being cancelled is waited for.
Adopt(m, n) ==
    LET f == mon[m].sub[n].fid
        s == AgentState(m, n)
    IN  /\ Turn(m, n, "adopt")
        /\ CASE s = "running"    -> SubGoes(m, n, "record", f)
             [] s = "cancelling" -> SubGoes(m, n, "stopOld", f)
             [] s = "completed"  -> Returns(m, n, "completed")
             [] OTHER            -> SubGoes(m, n, "fetch", NoFetch)
        /\ UNCHANGED <<rowVars, phase, have, fetch, req>>

OldStopped(m, n) ==
    LET s == AgentState(m, n)
    IN  /\ Turn(m, n, "stopOld") /\ s \notin Live
        /\ CASE s = "completed" -> Returns(m, n, "completed")
             [] s = "none"      -> Returns(m, n, "failed")
             [] OTHER           -> SubGoes(m, n, "fetch", NoFetch)
        /\ UNCHANGED <<rowVars, phase, have, fetch, req>>

\* model_fetch: the agent starts the job ...
Fetch(m, n) ==
    /\ Turn(m, n, "fetch")
    /\ \E f \in Fetches :
         /\ Unused(f) /\ StartsFetch(f, n, mon[m].job, mon[m].files)
         /\ SubGoes(m, n, "record", f)
    /\ UNCHANGED <<rowVars, phase, have, req>>

\* ... and its id is recorded when the answer arrives.
Record(m, n) ==
    LET f == mon[m].sub[n].fid
    IN  /\ Turn(m, n, "record") /\ SubGoes(m, n, "poll", f) /\ Patches(m, n, f)
        /\ UNCHANGED <<status, head, workers, phase, have, fetch, req>>

\* A turn of the polling loop that finds the job syncing and the fetch job over.
PollEnd(m, n) ==
    LET s == AgentState(m, n)
    IN  /\ Turn(m, n, "poll") /\ status[mon[m].job] = "syncing" /\ s \notin Live
        /\ IF s = "none" THEN Returns(m, n, "failed") /\ UNCHANGED sync
           ELSE Returns(m, n, s) /\ Patches(m, n, sync[mon[m].job][n].fid)
        /\ UNCHANGED <<status, head, workers, phase, have, fetch, req>>

\* A turn that finds it running: the row says syncing again, whoever wrote it.
PollAgain(m, n) ==
    /\ Turn(m, n, "poll") /\ status[mon[m].job] = "syncing" /\ AgentState(m, n) \in Live
    /\ sync[mon[m].job][n].st # "syncing" /\ Patches(m, n, sync[mon[m].job][n].fid)
    /\ UNCHANGED <<status, head, workers, phase, have, fetch, mon, req>>

\* A turn that finds the job paused, cancelled, failed or gone stops the fetch job.
PollStop(m, n) ==
    LET f == mon[m].sub[n].fid
    IN  /\ Turn(m, n, "poll") /\ status[mon[m].job] # "syncing"
        /\ IF fetch[f].st = "none" THEN Returns(m, n, "failed") /\ UNCHANGED fetch
           ELSE /\ SubGoes(m, n, "stop", f)
                /\ fetch' = IF fetch[f].st = "running"
                            THEN [fetch EXCEPT ![f].st = "cancelling"] ELSE fetch
        /\ UNCHANGED <<rowVars, phase, have, req>>

Stopped(m, n) ==
    LET s == AgentState(m, n)
    IN  /\ Turn(m, n, "stop") /\ s \notin Live
        /\ Returns(m, n, CASE s = "completed" -> "completed"
                           [] s = "none"      -> "failed"
                           [] OTHER           -> "paused")
        /\ UNCHANGED <<rowVars, phase, have, fetch, req>>

\* A call fails or its answer is late; model_fetch may have had its effect.
SyncFails(m, n) ==
    /\ "fail" \in Ops /\ mon[m].pc = "sync"
    /\ mon[m].sub[n].pc \in {"adopt", "stopOld", "fetch", "poll", "stop"}
    /\ Returns(m, n, "failed")
    /\ \/ UNCHANGED fetch
       \/ /\ mon[m].sub[n].pc = "fetch"
          /\ \E f \in Fetches : Unused(f) /\ StartsFetch(f, n, mon[m].job, mon[m].files)
    /\ UNCHANGED <<rowVars, phase, have, req>>

\* The verdict: written if the status that was loaded says syncing.
Verdict(j, plan) ==
    IF \A n \in workers[j] : plan[n].st = "completed" THEN "completed" ELSE "failed"
Concludes(m, seen, plan) ==
    LET j == mon[m].job
    IN  status' = IF Exists(j) /\ seen = "syncing"
                  THEN [status EXCEPT ![j] = Verdict(j, plan)] ELSE status

\* All workers have returned: their results are merged into the row, which is loaded with
\* them; only the mirrors of complete workers are awaited before the verdict.
Merge(m) ==
    LET j    == mon[m].job
        done == {n \in workers[j] : mon[m].sub[n].pc = "done"}
        plan == [n \in Nodes |-> IF n \in done THEN [st |-> mon[m].sub[n].res,
                                                     fid |-> mon[m].sub[n].fid]
                                 ELSE sync[j][n]]
    IN  /\ mon[m].pc = "sync" /\ \A n \in workers[j] : mon[m].sub[n].pc \in {"none", "done"}
        /\ sync' = IF Exists(j) THEN [sync EXCEPT ![j] = plan] ELSE sync
        /\ IF \E n \in workers[j] : plan[n].st = "completed"
           THEN /\ Goes(m, [FreeMonitor EXCEPT !.job = j, !.pc = "final", !.plan = plan,
                              !.seen = status[j]])
                /\ UNCHANGED status
           ELSE Ends(m) /\ Concludes(m, status[j], plan)
        /\ UNCHANGED <<head, workers, phase, have, fetch, req>>

Final(m) ==
    /\ mon[m].pc = "final"
    /\ Concludes(m, mon[m].seen, mon[m].plan) /\ Ends(m)
    /\ UNCHANGED <<head, workers, sync, phase, have, fetch, req>>

----------------------------------------------------------------------------
(* The backend's end.                                                      *)

\* The backend stops and starts again: agents go on, resume_download_monitors gives
\* every active job a coroutine.
Crash ==
    /\ "crash" \in Ops
    /\ \E late \in [Monitors -> SUBSET Files] :
         /\ \A m \in Monitors : late[m] \subseteq mon[m].flying
         /\ have' = [n \in Nodes |-> have[n] \cup
                      UNION {late[m] : m \in {k \in Monitors : late[k] # {} /\ head[mon[k].job] = n}}]
    /\ \E g \in [Monitors -> {j \in Jobs : status[j] \in Phases} \cup {NoJob}] :
         /\ \A j \in Jobs : status[j] \in Phases => \E m \in Monitors : g[m] = j
         /\ \A m, k \in Monitors : g[m] = g[k] /\ g[m] # NoJob => m = k
         /\ mon' = [m \in Monitors |->
                      IF g[m] = NoJob THEN FreeMonitor
                      ELSE [FreeMonitor EXCEPT !.job = g[m], !.pc = "begin"]]
    /\ phase' = [j \in Jobs |-> "none"] /\ req' = [r \in Requests |-> NoRequest]
    /\ UNCHANGED <<rowVars, fetch>>

----------------------------------------------------------------------------
SyncStep(m, n) ==
    \/ Adopt(m, n) \/ OldStopped(m, n) \/ Fetch(m, n) \/ Record(m, n)
    \/ PollEnd(m, n) \/ PollAgain(m, n) \/ PollStop(m, n) \/ Stopped(m, n) \/ SyncFails(m, n)

MonitorStep(m) ==
    \/ Begin(m) \/ Prepared(m) \/ PrepareFails(m) \/ SendFails(m) \/ SendEnd(m)
    \/ \E f \in Files : SendCheck(m, f) \/ SendDone(m, f)
    \/ Mirrored(m) \/ Share(m) \/ ShareFails(m)
    \/ \E n \in Nodes : CheckWorker(m, n)
    \/ Merge(m) \/ Final(m)

Environment ==
    \/ \E r \in Requests, h \in Nodes, W \in SUBSET Nodes, s \in {"downloading", "sending"} :
         StartCheck(r, h, W, s)
    \/ \E j \in Jobs : Pause(j) \/ Resume(j) \/ Retry(j) \/ Cancel(j) \/ Delete(j)
    \/ \E src, dst \in Nodes : ManualSync(src, dst)
    \/ \E n \in Nodes : NodeModelDelete(n) \/ AgentRestarts(n)
    \/ Crash

System ==
    \/ \E r \in Requests : StartInsert(r)
    \/ \E m \in Monitors : MonitorStep(m)
    \/ \E m \in Monitors, n \in Nodes : SyncStep(m, n)
    \/ \E f \in Fetches : FetchEnds(f)

Next == Environment \/ System

Spec == Init /\ [][Next]_vars

----------------------------------------------------------------------------
(* Properties.                                                             *)

\* No node is the target of two active jobs of the model: they would write the same
\* files.
NodesNotShared ==
    \A j, k \in Jobs :
        status[j] \in Occupying /\ status[k] \in Occupying /\ j # k =>
            Targets(j) \cap Targets(k) = {}

\* A job is completed only when its head and all its workers have every file.
DeliveredWhenCompleted ==
    [][\A j \in Jobs :
          status[j] # "completed" /\ status'[j] = "completed" =>
              \A n \in Targets(j) : have[n] = Files]_vars

\* An active job has a coroutine that will end it: neither a pause, a resume, a failure nor
\* a restart of the backend leaves one behind that occupies its nodes for ever.
Driven == \A j \in Jobs : status[j] \in Phases => \E m \in Monitors : mon[m].job = j

\* The transfers as those who wait for them see them.
StateOf(s) == CASE s = "unused" -> "none"
                [] s = "deleted" -> "removed"
                [] s \in Occupying -> "open"
                [] s = "completed" -> "completed"
                [] s \in {"failed", "cancelled"} -> "ended"
Claim(j) == IF status[j] \in Occupying THEN Targets(j) ELSE {}
Item(j) == IF Exists(j) THEN "model" ELSE "none"
Holds(n) == IF have[n] = Files THEN {"model"} ELSE {}
Transfer == INSTANCE TransferJob WITH
    Items <- {"model"}, NoItem <- "none",
    state <- [j \in Jobs |-> StateOf(status[j])], claim <- [j \in Jobs |-> Claim(j)],
    item <- [j \in Jobs |-> Item(j)], has <- [n \in Nodes |-> Holds(n)]
\* Every job behaves as TransferJob promises: its nodes are its own from the request to
\* its end, it completes only over nodes that have the whole model, and one that has
\* ended is not taken up again.
Implements == Transfer!Spec
=============================================================================
