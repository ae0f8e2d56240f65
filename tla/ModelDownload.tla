--------------------------- MODULE ModelDownload ---------------------------
(***************************************************************************)
(* Control-plane download of one model repository: transfer jobs without   *)
(* a head node (backend/app/services/model_manager.py and the endpoints of *)
(* backend/app/routers/models.py).  A job's row lives in SQLite; a Python  *)
(* thread fetches the files; a coroutine (_monitor_job) polls the cache    *)
(* and completes the job; requests pause, resume, retry, cancel or delete  *)
(* it, change the settings, prune or remove the cache.                     *)
(*                                                                         *)
(* Atomicity: an `async def` handler runs alone on the event loop from one *)
(* await to the next, so each such stretch is one action.  Download        *)
(* threads, the watchdog and the plain `def` endpoints (settings, prune,   *)
(* cache removal) run on other OS threads and get a step per access to     *)
(* state they share.                                                       *)
(*                                                                         *)
(* Bounds: one repository, one branch ("main", written NoVersion where a   *)
(* revision is expected), and the sizes of the constant sets.              *)
(***************************************************************************)
EXTENDS FiniteSets

CONSTANTS
    Jobs,       \* ids the model_downloads table may hand out
    Versions,   \* commit shas of the repository
    Threads,    \* slots for download threads
    Monitors,   \* slots for _monitor_job coroutines
    Requests,   \* slots for HTTP requests that span several steps
    Ops,        \* what the environment does in this instance
    NoVersion, NoJob, NoThread

OpNames == {"start", "pin", "force", "pause", "resume", "retry", "cancel", "delete",
            "settings", "prune", "removeCache", "drift", "joinTimeout", "crash"}

ASSUME ConstantsAssumption ==
    /\ NoVersion \notin Versions /\ NoJob \notin Jobs /\ NoThread \notin Threads
    /\ Ops \subseteq OpNames

VARIABLES
    status,     \* ModelDownload.status per job
    asked,      \* history: the commit the creating request pinned
    target,     \* ModelDownload.sha per job
    ref,        \* content of refs/main in the cache
    anchors,    \* commits with a refs/<sha> anchor
    complete,   \* commits whose snapshot passes _verify_snapshot
    remote,     \* the commit the hub resolves main to
    thr,        \* the download threads
    reg,        \* _download_threads
    ev,         \* _download_cancel: no event, or its flag
    mon,        \* the monitor coroutines
    req,        \* requests between two of their steps
    watch,      \* the watchdogs: thread waited for -> job to restart
    boot        \* jobs resume_download_monitors has still to handle

jobVars    == <<status, asked, target>>
cacheVars  == <<ref, anchors, complete>>
threadVars == <<thr, reg, ev>>
vars == <<status, asked, target, ref, anchors, complete, remote,
          thr, reg, ev, mon, req, watch, boot>>

Active  == {"downloading", "paused"}     \* without a head, never sending or syncing
Version == Versions \cup {NoVersion}

\* A thread's `ev` is "reg" while the event it holds is the registered one;
\* once that event leaves the registry nobody can change its flag again.
ThreadPcs == {"new", "manifest", "blobs", "ref", "layout", "record", "fail",
              "popThread", "popEvent", "dead"}
DeadThread == [job |-> NoJob, pc |-> "dead", fetch |-> NoVersion, sha |-> NoVersion,
               ev |-> "clear", files |-> "kept"]
FreeMonitor == [job |-> NoJob, pc |-> "free"]
Idle == [pc |-> "idle", job |-> NoJob, ask |-> NoVersion, tgt |-> NoVersion,
         fetch |-> NoVersion, force |-> FALSE, need |-> FALSE, thread |-> NoThread,
         todo |-> {}, doomed |-> {}]

ThreadRecord == [job : Jobs \cup {NoJob}, pc : ThreadPcs, fetch : Version, sha : Version,
                 ev : {"reg", "clear", "set"}, files : {"kept", "lost"}]
RequestRecord == [pc : {"idle", "resolve", "size", "resume", "retry", "setNext", "setJoin",
                        "setStart", "prune", "remove"},
                  job : Jobs \cup {NoJob}, ask : Version, tgt : Version, fetch : Version,
                  force : BOOLEAN, need : BOOLEAN, thread : Threads \cup {NoThread},
                  todo : SUBSET Jobs, doomed : SUBSET Versions]
MonitorRecord == [job : Jobs \cup {NoJob}, pc : {"free", "poll", "materialize"}]

JobsOK ==
    /\ status \in [Jobs -> {"unused", "downloading", "paused", "completed",
                            "failed", "cancelled", "deleted"}]
    /\ asked \in [Jobs -> Version] /\ target \in [Jobs -> Version]
    /\ boot \subseteq Jobs
CacheOK ==
    /\ ref \in Version /\ remote \in Versions
    /\ anchors \subseteq Versions /\ complete \subseteq Versions
ThreadsOK ==
    /\ thr \in [Threads -> ThreadRecord]
    /\ \A t \in Threads :
         /\ thr[t].pc # "dead" => thr[t].job \in Jobs
         /\ thr[t].pc \in {"blobs", "ref", "layout", "record"} => thr[t].sha \in Versions
    /\ reg \in [Jobs -> Threads \cup {NoThread}]
    /\ ev \in [Jobs -> {"none", "clear", "set"}]
    /\ watch \in [Threads -> Jobs \cup {NoJob}]
MonitorsOK ==
    /\ mon \in [Monitors -> MonitorRecord]
    /\ \A m \in Monitors : mon[m].pc # "free" => mon[m].job \in Jobs
RequestsOK ==
    /\ req \in [Requests -> RequestRecord]
    /\ \A r \in Requests : req[r].pc \in {"resume", "retry", "setJoin", "setStart"} =>
                              req[r].job \in Jobs
TypeOK == JobsOK /\ CacheOK /\ ThreadsOK /\ MonitorsOK /\ RequestsOK

Init ==
    /\ status = [j \in Jobs |-> "unused"]
    /\ asked = [j \in Jobs |-> NoVersion] /\ target = [j \in Jobs |-> NoVersion]
    /\ \/ ref = NoVersion /\ complete = {}
       \/ \E v \in Versions : ref = v /\ complete = {v}
    /\ anchors = {} /\ remote \in Versions
    /\ thr = [t \in Threads |-> DeadThread]
    /\ reg = [j \in Jobs |-> NoThread] /\ ev = [j \in Jobs |-> "none"]
    /\ mon = [m \in Monitors |-> FreeMonitor]
    /\ req = [r \in Requests |-> Idle]
    /\ watch = [t \in Threads |-> NoJob] /\ boot = {}

----------------------------------------------------------------------------
(* The cache, as the code reads it.                                        *)

\* _local_cache_ready: refs/main resolves to a complete snapshot.
LocalCacheReady == ref # NoVersion /\ ref \in complete

\* Mutant of TargetReady: only main is looked at, whatever commit the job is for.
TargetReadyByMain(j) == LocalCacheReady

\* The monitor's and the restart's criterion: the job's own commit is complete,
\* or main is when the job has recorded no commit.
TargetReady(j) == IF target[j] # NoVersion THEN target[j] \in complete ELSE LocalCacheReady

ActiveJobs == {j \in Jobs : status[j] \in Active}

\* Mutant of Admitted: the conflict check is missing.
AdmittedAlways(downloading, self) == TRUE

\* _check_model_transfer_admission: without target nodes only a download conflicts.
Admitted(downloading, self) == downloading => ActiveJobs \subseteq {self}

----------------------------------------------------------------------------
(* Threads and coroutines.                                                 *)

FreeThread(t) ==
    /\ thr[t].pc = "dead" /\ watch[t] = NoJob
    /\ \A r \in Requests : req[r].thread # t
    /\ \A j \in Jobs : reg[j] # t

\* _start_local_download: reuse or create the event, clear it, register, start.
StartLocalDownload(j, fetch) ==
    \E t \in Threads :
        /\ FreeThread(t)
        /\ thr' = [thr EXCEPT ![t] = [DeadThread EXCEPT !.job = j, !.pc = "new",
                                                        !.fetch = fetch]]
        /\ reg' = [reg EXCEPT ![j] = t]
        /\ ev' = [ev EXCEPT ![j] = "clear"]

StartIf(cond, j, fetch) ==
    IF cond THEN StartLocalDownload(j, fetch) ELSE UNCHANGED threadVars

SpawnMonitor(j) ==
    \E m \in Monitors :
        /\ mon[m].pc = "free"
        /\ mon' = [mon EXCEPT ![m] = [job |-> j, pc |-> "poll"]]

\* ev.set() on the registered event, if there is one.
SignalCancel(j) == ev' = [ev EXCEPT ![j] = IF @ = "none" THEN "none" ELSE "set"]

Finish(r) == req' = [req EXCEPT ![r] = Idle]

\* Requests are served once the application has started.
Served(op)     == op \in Ops /\ boot = {}
Opened(r, op)  == Served(op) /\ req[r].pc = "idle"

----------------------------------------------------------------------------
(* POST /download: start_download_job with head_node_id = None.            *)

\* The admission check and the request's remaining decision, before it awaits
\* repo_total_size.
Admit(r, tgt, fetch, need) ==
    req' = [req EXCEPT ![r] =
              IF Admitted(need, NoJob)
              THEN [Idle EXCEPT !.pc = "size", !.ask = req[r].ask, !.tgt = tgt,
                                !.fetch = fetch, !.need = need]
              ELSE Idle]

\* A plain or forced request for main: without a cached ref, and always when
\* forced, it first awaits the hub.
StartMain(r, force) ==
    /\ Opened(r, IF force THEN "force" ELSE "start")
    /\ IF ref = NoVersion \/ force
       THEN req' = [req EXCEPT ![r] = [Idle EXCEPT !.pc = "resolve", !.tgt = ref,
                                                   !.force = force]]
       ELSE Admit(r, ref, NoVersion, ~LocalCacheReady)
    /\ UNCHANGED <<jobVars, cacheVars, remote, threadVars, mon, watch, boot>>

\* The hub answered, or the resolution failed.
StartResolved(r) ==
    /\ req[r].pc = "resolve"
    /\ \E answer \in {remote, NoVersion} :
         LET known == IF req[r].tgt = NoVersion THEN answer ELSE req[r].tgt
         IN  IF req[r].force /\ answer \notin {NoVersion, known}
             THEN Admit(r, answer, NoVersion, TRUE)
             ELSE Admit(r, known, NoVersion, ~LocalCacheReady)
    /\ UNCHANGED <<jobVars, cacheVars, remote, threadVars, mon, watch, boot>>

\* A request that pins commit v: complete commits are reused and anchored.
StartPinned(r, v) ==
    /\ Opened(r, "pin")
    /\ LET have == v \in complete
       IN  /\ anchors' = IF have THEN anchors \cup {v} ELSE anchors
           /\ req' = [req EXCEPT ![r] =
                        IF Admitted(~have, NoJob)
                        THEN [Idle EXCEPT !.pc = "size", !.ask = v, !.tgt = v,
                                !.fetch = IF have THEN NoVersion ELSE v, !.need = ~have]
                        ELSE Idle]
    /\ UNCHANGED <<jobVars, ref, complete, remote, threadVars, mon, watch, boot>>

\* repo_total_size answered: insert the row, start the thread, spawn the monitor.
StartInsert(r) ==
    /\ req[r].pc = "size"
    /\ \E j \in Jobs :
         /\ status[j] = "unused"
         /\ status' = [status EXCEPT ![j] = "downloading"]
         /\ asked' = [asked EXCEPT ![j] = req[r].ask]
         /\ target' = [target EXCEPT ![j] = req[r].tgt]
         /\ StartIf(req[r].need, j, req[r].fetch)
         /\ SpawnMonitor(j)
    /\ Finish(r)
    /\ UNCHANGED <<cacheVars, remote, watch, boot>>

----------------------------------------------------------------------------
(* Pause, resume, retry, cancel, delete.                                   *)

\* pause_download
Pause(j) ==
    /\ Served("pause") /\ status[j] = "downloading"
    /\ status' = [status EXCEPT ![j] = "paused"]
    /\ SignalCancel(j)
    /\ UNCHANGED <<asked, target, cacheVars, remote, thr, reg, mon, req, watch, boot>>

\* Mutant of Resume: the old thread is not joined.
ResumeWithoutJoin(r, j) ==
    /\ Opened(r, "resume") /\ status[j] = "paused"
    /\ Admitted(~LocalCacheReady, j)
    /\ status' = [status EXCEPT ![j] = "downloading"]
    /\ StartLocalDownload(j, NoVersion) /\ SpawnMonitor(j)
    /\ UNCHANGED <<asked, target, cacheVars, remote, req, watch, boot>>

\* resume_download up to its await: with a registered thread it joins it.
Resume(r, j) ==
    /\ Opened(r, "resume") /\ status[j] = "paused"
    /\ Admitted(~LocalCacheReady, j)
    /\ status' = [status EXCEPT ![j] = "downloading"]
    /\ IF reg[j] = NoThread
       THEN StartLocalDownload(j, NoVersion) /\ SpawnMonitor(j) /\ UNCHANGED req
       ELSE /\ req' = [req EXCEPT ![r] = [Idle EXCEPT !.pc = "resume", !.job = j,
                                                      !.thread = reg[j]]]
            /\ UNCHANGED <<threadVars, mon>>
    /\ UNCHANGED <<asked, target, cacheVars, remote, watch, boot>>

\* join returned: the thread has ended, or 120 s have passed.
Joined(r) == req[r].thread # NoThread =>
                "joinTimeout" \in Ops \/ thr[req[r].thread].pc = "dead"

\* Mutant of ResumeJoined: no thread when main happens to be complete.
ResumeJoinedUnlessCached(r) ==
    LET j == req[r].job
    IN  /\ req[r].pc = "resume" /\ Joined(r)
        /\ IF status[j] = "deleted"
           THEN UNCHANGED <<threadVars, mon>>
           ELSE StartIf(reg[j] = NoThread /\ ~LocalCacheReady, j, NoVersion) /\ SpawnMonitor(j)
        /\ Finish(r)
        /\ UNCHANGED <<jobVars, cacheVars, remote, watch, boot>>

\* After the join the row's status is not looked at again.
ResumeJoined(r) ==
    LET j == req[r].job
    IN  /\ req[r].pc = "resume" /\ Joined(r)
        /\ IF status[j] = "deleted"
           THEN UNCHANGED <<threadVars, mon>>
           ELSE StartIf(reg[j] = NoThread, j, NoVersion) /\ SpawnMonitor(j)
        /\ Finish(r)
        /\ UNCHANGED <<jobVars, cacheVars, remote, watch, boot>>

\* retry_download_job after its await: back to downloading; a thread only when
\* none is registered and main is not complete.
Retried(j) ==
    /\ status' = [status EXCEPT ![j] = "downloading"]
    /\ StartIf(reg[j] = NoThread /\ ~LocalCacheReady, j, NoVersion)
    /\ SpawnMonitor(j)

\* retry_download_job up to its await; a registered thread is cancelled and joined.
Retry(r, j) ==
    /\ Opened(r, "retry") /\ status[j] = "failed"
    /\ Admitted(~LocalCacheReady, j)
    /\ IF reg[j] = NoThread
       THEN Retried(j) /\ UNCHANGED req
       ELSE /\ SignalCancel(j)
            /\ req' = [req EXCEPT ![r] = [Idle EXCEPT !.pc = "retry", !.job = j,
                                                      !.thread = reg[j]]]
            /\ UNCHANGED <<status, thr, reg, mon>>
    /\ UNCHANGED <<asked, target, cacheVars, remote, watch, boot>>

RetryJoined(r) ==
    LET j == req[r].job
    IN  /\ req[r].pc = "retry" /\ Joined(r)
        /\ IF status[j] = "deleted"
           THEN UNCHANGED <<status, threadVars, mon>>
           ELSE Retried(j)
        /\ Finish(r)
        /\ UNCHANGED <<asked, target, cacheVars, remote, watch, boot>>

\* cancel_download
Cancel(j) ==
    /\ Served("cancel") /\ status[j] \in Active
    /\ status' = [status EXCEPT ![j] = "cancelled"]
    /\ SignalCancel(j)
    /\ UNCHANGED <<asked, target, cacheVars, remote, thr, reg, mon, req, watch, boot>>

\* DELETE /downloads/{id}: an active job is cancelled first, then the row goes.
Delete(j) ==
    /\ Served("delete") /\ status[j] \notin {"unused", "deleted"}
    /\ status' = [status EXCEPT ![j] = "deleted"]
    /\ IF status[j] = "downloading" THEN SignalCancel(j) ELSE UNCHANGED ev
    /\ UNCHANGED <<asked, target, cacheVars, remote, thr, reg, mon, req, watch, boot>>

----------------------------------------------------------------------------
(* PUT /settings: restart_downloads_with_new_settings, on a worker thread. *)

\* The jobs to restart are read once.
SettingsRead(r) ==
    /\ Opened(r, "settings")
    /\ LET todo == {j \in Jobs : status[j] = "downloading"}
       IN  /\ todo # {}
           /\ req' = [req EXCEPT ![r] = [Idle EXCEPT !.pc = "setNext", !.todo = todo]]
    /\ UNCHANGED <<jobVars, cacheVars, remote, threadVars, mon, watch, boot>>

\* Cancel the next job's thread and join it.
SettingsSignal(r) ==
    /\ req[r].pc = "setNext"
    /\ \E j \in req[r].todo :
         /\ SignalCancel(j)
         /\ req' = [req EXCEPT ![r] = [Idle EXCEPT !.pc = "setJoin", !.job = j,
                               !.thread = reg[j], !.todo = req[r].todo \ {j}]]
    /\ UNCHANGED <<jobVars, cacheVars, remote, thr, reg, mon, watch, boot>>

SettingsNext(r) ==
    req' = [req EXCEPT ![r] = IF req[r].todo = {} THEN Idle
                              ELSE [Idle EXCEPT !.pc = "setNext", !.todo = req[r].todo]]

\* Nothing registered any more: start below.  Otherwise leave a watchdog behind
\* (_schedule_restart_watchdog).
SettingsJoined(r) ==
    LET j == req[r].job
    IN  /\ req[r].pc = "setJoin" /\ Joined(r)
        /\ IF reg[j] = NoThread
           THEN /\ req' = [req EXCEPT ![r] = [@ EXCEPT !.pc = "setStart",
                                                          !.thread = NoThread]]
                /\ UNCHANGED watch
           ELSE /\ watch' = [watch EXCEPT ![reg[j]] = j]
                /\ SettingsNext(r)
        /\ UNCHANGED <<jobVars, cacheVars, remote, threadVars, mon, boot>>

SettingsStart(r) ==
    /\ req[r].pc = "setStart"
    /\ StartLocalDownload(req[r].job, NoVersion)
    /\ SettingsNext(r)
    /\ UNCHANGED <<jobVars, cacheVars, remote, mon, watch, boot>>

\* _watch: the thread has ended; restart only if it is still the registered one.
WatchdogWakes(t) ==
    LET j == watch[t]
    IN  /\ j # NoJob /\ thr[t].pc = "dead"
        /\ watch' = [watch EXCEPT ![t] = NoJob]
        /\ StartIf(reg[j] = t, j, NoVersion)
        /\ UNCHANGED <<jobVars, cacheVars, remote, mon, req, boot>>

----------------------------------------------------------------------------
(* Cache maintenance: POST /{repo}/prune with keep = 0, DELETE /local/{repo}. *)

\* Threads whose files are taken away under them cannot verify their snapshot.
Losing(pcs, shas) ==
    thr' = [t \in Threads |-> IF thr[t].pc \in pcs /\ thr[t].sha \in shas
                              THEN [thr[t] EXCEPT !.files = "lost"] ELSE thr[t]]

\* prune_repo_versions: the unprotected versions ...
Prune(r) ==
    /\ Opened(r, "prune")
    /\ LET present == complete \cup {thr[t].sha : t \in {u \in Threads : thr[u].pc = "layout"}}
           doomed  == present \ ({ref} \cup anchors \cup {target[j] : j \in ActiveJobs})
       IN  /\ doomed # {}
           /\ req' = [req EXCEPT ![r] = [Idle EXCEPT !.pc = "prune", !.doomed = doomed]]
    /\ UNCHANGED <<jobVars, cacheVars, remote, threadVars, mon, watch, boot>>

\* ... are deleted, and then the refs that point to one.
PruneDelete(r) ==
    LET doomed == req[r].doomed
    IN  /\ req[r].pc = "prune"
        /\ complete' = complete \ doomed /\ anchors' = anchors \ doomed
        /\ ref' = IF ref \in doomed THEN NoVersion ELSE ref
        /\ Losing({"layout"}, doomed)
        /\ Finish(r)
        /\ UNCHANGED <<jobVars, remote, reg, ev, mon, watch, boot>>

\* delete_local_model: refused while a job is active ...
RemoveCache(r) ==
    /\ Opened(r, "removeCache") /\ ActiveJobs = {}
    /\ req' = [req EXCEPT ![r] = [Idle EXCEPT !.pc = "remove"]]
    /\ UNCHANGED <<jobVars, cacheVars, remote, threadVars, mon, watch, boot>>

\* ... then rmtree.
RemoveTree(r) ==
    /\ req[r].pc = "remove"
    /\ complete' = {} /\ anchors' = {} /\ ref' = NoVersion
    /\ Losing({"blobs", "ref", "layout"}, Versions)
    /\ Finish(r)
    /\ UNCHANGED <<jobVars, remote, reg, ev, mon, watch, boot>>

----------------------------------------------------------------------------
(* The download thread: run() around _download_sync.                       *)

Step(t, from, to) == thr[t].pc = from /\ thr' = [thr EXCEPT ![t].pc = to]

Cancelled(t) == \/ thr[t].ev = "set"
                \/ thr[t].ev = "reg" /\ ev[thr[t].job] = "set"

\* run() looks its event up only now; with none registered it has no event.
ThreadBegin(t) ==
    /\ thr[t].pc = "new"
    /\ LET held == IF ev[thr[t].job] = "none" THEN "clear" ELSE "reg"
       IN  thr' = [thr EXCEPT ![t] = [@ EXCEPT !.pc = "manifest", !.ev = held]]
    /\ UNCHANGED <<jobVars, cacheVars, remote, reg, ev, mon, req, watch, boot>>

\* Mutant of ThreadManifest: a download of main keeps no commit.
ThreadManifestUnresolved(t) ==
    /\ thr[t].pc = "manifest"
    /\ thr' = [thr EXCEPT ![t] = [@ EXCEPT !.pc = "blobs", !.sha = thr[t].fetch]]
    /\ UNCHANGED <<jobVars, cacheVars, remote, reg, ev, mon, req, watch, boot>>

\* The manifest fixes the commit.
ThreadManifest(t) ==
    /\ thr[t].pc = "manifest"
    /\ LET sha == IF thr[t].fetch = NoVersion THEN remote ELSE thr[t].fetch
       IN  thr' = [thr EXCEPT ![t] = [@ EXCEPT !.pc = "blobs", !.sha = sha]]
    /\ UNCHANGED <<jobVars, cacheVars, remote, reg, ev, mon, req, watch, boot>>

\* A set event is noticed at a file or chunk boundary.
ThreadCancelled(t) ==
    /\ Cancelled(t) /\ Step(t, "blobs", "popThread")
    /\ UNCHANGED <<jobVars, cacheVars, remote, reg, ev, mon, req, watch, boot>>

\* All blobs in place; an event set after the last boundary goes unnoticed.
ThreadBlobs(t) ==
    /\ thr[t].files = "kept" /\ Step(t, "blobs", "ref")
    /\ UNCHANGED <<jobVars, cacheVars, remote, reg, ev, mon, req, watch, boot>>

\* The hub, the network or the disk fails.
ThreadRaises(t) ==
    /\ Step(t, "manifest", "fail") \/ Step(t, "blobs", "fail")
    /\ UNCHANGED <<jobVars, cacheVars, remote, reg, ev, mon, req, watch, boot>>

\* _write_hf_layout writes the ref first, then the tree, then relinks the files.
ThreadWriteRef(t) ==
    /\ Step(t, "ref", "layout")
    /\ IF thr[t].fetch = NoVersion
       THEN ref' = thr[t].sha /\ UNCHANGED anchors
       ELSE anchors' = anchors \cup {thr[t].sha} /\ UNCHANGED ref
    /\ complete' = complete \ {thr[t].sha}
    /\ UNCHANGED <<jobVars, remote, reg, ev, mon, req, watch, boot>>

\* The last link, then _verify_snapshot.
ThreadLayout(t) ==
    /\ IF thr[t].files = "lost"
       THEN Step(t, "layout", "fail") /\ UNCHANGED complete
       ELSE Step(t, "layout", "record") /\ complete' = complete \cup {thr[t].sha}
    /\ UNCHANGED <<jobVars, ref, anchors, remote, reg, ev, mon, req, watch, boot>>

\* The row, if it still exists, gets the commit that was downloaded.
ThreadRecordSha(t) ==
    LET j == thr[t].job
    IN  /\ Step(t, "record", "popThread")
        /\ target' = IF status[j] = "deleted" THEN target
                     ELSE [target EXCEPT ![j] = thr[t].sha]
        /\ UNCHANGED <<status, asked, cacheVars, remote, reg, ev, mon, req, watch, boot>>

\* Mutant of ThreadRecordFailure: the exception is logged only.
ThreadRecordNothing(t) ==
    /\ Step(t, "fail", "popThread")
    /\ UNCHANGED <<jobVars, cacheVars, remote, reg, ev, mon, req, watch, boot>>

\* A failed download marks a job that is still downloading.
ThreadRecordFailure(t) ==
    LET j == thr[t].job
    IN  /\ Step(t, "fail", "popThread")
        /\ status' = IF status[j] = "downloading" THEN [status EXCEPT ![j] = "failed"]
                     ELSE status
        /\ UNCHANGED <<asked, target, cacheVars, remote, reg, ev, mon, req, watch, boot>>

\* Mutant of ThreadPopThread: the registry keeps the entry.
ThreadPopNothing(t) ==
    /\ Step(t, "popThread", "popEvent")
    /\ UNCHANGED <<jobVars, cacheVars, remote, reg, ev, mon, req, watch, boot>>

\* run()'s finally, first part: leave the registry if it still names this thread.
ThreadPopThread(t) ==
    LET j == thr[t].job
    IN  /\ Step(t, "popThread", "popEvent")
        /\ reg' = IF reg[j] = t THEN [reg EXCEPT ![j] = NoThread] ELSE reg
        /\ UNCHANGED <<jobVars, cacheVars, remote, ev, mon, req, watch, boot>>

\* Second part: drop the event if it is still this thread's; other holders of the
\* event keep its last flag.
ThreadPopEvent(t) ==
    LET j == thr[t].job
        mine == thr[t].ev = "reg"
        flag == IF ev[j] = "set" THEN "set" ELSE "clear"
        holders == {u \in Threads : mine /\ thr[u].job = j /\ thr[u].ev = "reg"}
    IN  /\ thr[t].pc = "popEvent"
        /\ thr' = [u \in Threads |-> CASE u = t -> DeadThread
                                       [] u \in holders \ {t} -> [thr[u] EXCEPT !.ev = flag]
                                       [] OTHER -> thr[u]]
        /\ ev' = IF mine THEN [ev EXCEPT ![j] = "none"] ELSE ev
        /\ UNCHANGED <<jobVars, cacheVars, remote, reg, mon, req, watch, boot>>

----------------------------------------------------------------------------
(* The monitor: _monitor_job without a head node.                          *)

\* One iteration of the polling loop.  A downloading job whose target is complete
\* goes on to materialize_plain_files; a job in any other state ends the monitor.
MonitorPoll(m) ==
    LET j == mon[m].job
    IN  /\ mon[m].pc = "poll"
        /\ status[j] = "downloading" => TargetReady(j)
        /\ mon' = [mon EXCEPT ![m] = IF status[j] = "downloading"
                                     THEN [@ EXCEPT !.pc = "materialize"]
                                     ELSE FreeMonitor]
        /\ UNCHANGED <<jobVars, cacheVars, remote, threadVars, req, watch, boot>>

\* Back from the await: the row becomes completed, whatever it says by now; only a
\* deleted row makes the update fail.
MonitorComplete(m) ==
    LET j == mon[m].job
    IN  /\ mon[m].pc = "materialize"
        /\ status' = IF status[j] = "deleted" THEN status
                     ELSE [status EXCEPT ![j] = "completed"]
        /\ mon' = [mon EXCEPT ![m] = FreeMonitor]
        /\ UNCHANGED <<asked, target, cacheVars, remote, threadVars, req, watch, boot>>

----------------------------------------------------------------------------
(* The hub moves main; the backend stops and starts again.                 *)

RemoteMoves ==
    /\ "drift" \in Ops
    /\ \E v \in Versions \ {remote} : remote' = v
    /\ UNCHANGED <<jobVars, cacheVars, threadVars, mon, req, watch, boot>>

\* Everything but the table and the cache is lost.
Crash ==
    /\ "crash" \in Ops
    /\ thr' = [t \in Threads |-> DeadThread]
    /\ reg' = [j \in Jobs |-> NoThread] /\ ev' = [j \in Jobs |-> "none"]
    /\ mon' = [m \in Monitors |-> FreeMonitor]
    /\ req' = [r \in Requests |-> Idle]
    /\ watch' = [t \in Threads |-> NoJob]
    /\ boot' = {j \in Jobs : status[j] = "downloading"}
    /\ UNCHANGED <<jobVars, cacheVars, remote>>

\* Mutants of ResumeMonitor: the restart judges by main, or fetches main.
ResumeMonitorByMain(j) ==
    /\ j \in boot /\ boot' = boot \ {j}
    /\ StartIf(~LocalCacheReady, j, target[j])
    /\ SpawnMonitor(j)
    /\ UNCHANGED <<jobVars, cacheVars, remote, req, watch>>
ResumeMonitorMain(j) ==
    /\ j \in boot /\ boot' = boot \ {j}
    /\ StartIf(~TargetReady(j), j, NoVersion)
    /\ SpawnMonitor(j)
    /\ UNCHANGED <<jobVars, cacheVars, remote, req, watch>>

\* resume_download_monitors, for one job.
ResumeMonitor(j) ==
    /\ j \in boot /\ boot' = boot \ {j}
    /\ StartIf(~TargetReady(j), j, target[j])
    /\ SpawnMonitor(j)
    /\ UNCHANGED <<jobVars, cacheVars, remote, req, watch>>

----------------------------------------------------------------------------
RequestStep(r) ==
    \/ StartResolved(r) \/ StartInsert(r) \/ ResumeJoined(r) \/ RetryJoined(r)
    \/ SettingsSignal(r) \/ SettingsJoined(r) \/ SettingsStart(r)
    \/ PruneDelete(r) \/ RemoveTree(r)

ThreadStep(t) ==
    \/ ThreadBegin(t) \/ ThreadManifest(t) \/ ThreadCancelled(t) \/ ThreadBlobs(t)
    \/ ThreadRaises(t) \/ ThreadWriteRef(t) \/ ThreadLayout(t) \/ ThreadRecordSha(t)
    \/ ThreadRecordFailure(t) \/ ThreadPopThread(t) \/ ThreadPopEvent(t)

MonitorStep(m) == MonitorPoll(m) \/ MonitorComplete(m)

\* What operators, the hub and the machine do of their own accord.
Environment ==
    \/ \E r \in Requests :
         \/ StartMain(r, FALSE) \/ StartMain(r, TRUE)
         \/ \E v \in Versions : StartPinned(r, v)
         \/ \E j \in Jobs : Resume(r, j) \/ Retry(r, j)
         \/ SettingsRead(r) \/ Prune(r) \/ RemoveCache(r)
    \/ \E j \in Jobs : Pause(j) \/ Cancel(j) \/ Delete(j)
    \/ RemoteMoves \/ Crash

System ==
    \/ \E r \in Requests : RequestStep(r)
    \/ \E t \in Threads : ThreadStep(t) \/ WatchdogWakes(t)
    \/ \E m \in Monitors : MonitorStep(m)
    \/ \E j \in Jobs : ResumeMonitor(j)

Next == Environment \/ System

Spec == Init /\ [][Next]_vars

\* Every thread, coroutine and pending request keeps running; a thread never stays
\* at a network call for ever, its sockets have timeouts.
Fairness ==
    /\ \A r \in Requests : WF_vars(RequestStep(r))
    /\ \A t \in Threads : WF_vars(ThreadStep(t)) /\ WF_vars(WatchdogWakes(t))
    /\ \A m \in Monitors : WF_vars(MonitorStep(m))
    /\ \A j \in Jobs : WF_vars(ResumeMonitor(j))

FairSpec == Spec /\ Fairness

----------------------------------------------------------------------------
(* Properties.                                                             *)

\* A thread counts as live until its finally has left the registry.
Live(t) == thr[t].pc \notin {"popEvent", "dead"}

\* Commits that are complete, or whose links a thread is rewriting right now.
Available == complete \cup {thr[t].sha : t \in {u \in Threads : thr[u].pc = "layout"}}

TargetAvailable(j) == IF target[j] # NoVersion THEN target[j] \in Available
                      ELSE ref \in Available

\* A registered thread is a live thread of that very job: every caller that reads
\* _download_threads and asks is_alive() relies on it, and so does the finally of
\* run() that must not remove a successor's entry.
RegistryNamesLiveThread ==
    \A j \in Jobs : reg[j] # NoThread => Live(reg[j]) /\ thr[reg[j]].job = j

\* Every live thread is the one registered for its job, so no job ever has two
\* threads writing the same .part files (the joins in resume and retry are for this).
OneThreadPerJob == \A t \in Threads : Live(t) => reg[thr[t].job] = t

\* No two threads write the cache of the repository at a time, whatever job they
\* belong to: what the admission check is for.
Writes(t) == thr[t].pc \in {"blobs", "ref", "layout"}
SingleWriter == \A t, u \in Threads : Writes(t) /\ Writes(u) => t = u

\* A downloading job whose target is still missing has somebody working on it: a
\* live thread, a request about to start one, a watchdog, or the startup code.
NoOrphanDownload ==
    \A j \in Jobs :
        status[j] = "downloading" /\ ~TargetAvailable(j) =>
            \/ \E t \in Threads : Live(t) /\ thr[t].job = j
            \/ \E r \in Requests : req[r].job = j \/ j \in req[r].todo
            \/ \E t \in Threads : watch[t] = j
            \/ j \in boot

\* A job created for a pinned commit keeps that commit as its target.
PinnedTargetKept ==
    \A j \in Jobs : asked[j] # NoVersion /\ status[j] # "deleted" => target[j] = asked[j]

\* A job becomes completed only when its target commit is on disk at that moment,
\* not when the monitor once saw it there.
CompletionStep ==
    \A j \in Jobs :
        status[j] # "completed" /\ status'[j] = "completed" => TargetAvailable(j)
CompletionIsVerified == [][CompletionStep]_vars

\* A job does not stay in downloading for ever.
DownloadEnds ==
    \A j \in Jobs : status[j] = "downloading" ~> status[j] # "downloading"
=============================================================================
