--------------------------- MODULE ImageTransfer ---------------------------
(***************************************************************************)
(* The transfers of one image (backend/app/services/image_manager.py,      *)
(* routers/images.py, the image endpoints of agent/main.py): a thread      *)
(* pulls it from the registry into the archive of the control plane, a     *)
(* coroutine sends the archive to a head, has the workers fetch it from    *)
(* there and loads it into docker everywhere.                              *)
(*                                                                         *)
(* Images meet only in the admission check, which is per image: there is   *)
(* one image here.  An archive is known by the build it holds, its         *)
(* fingerprint and its size are those of the build; Bad is what two        *)
(* threads that write the same file leave.  A stretch of a coroutine       *)
(* between two awaits is one action, a thread stops between file and       *)
(* database operations.  A thread registers itself when it is started.     *)
(***************************************************************************)
EXTENDS Integers, FiniteSets

CONSTANTS
    Jobs,       \* ids of image_transfers rows
    Nodes,
    MaxBuild,   \* the tag points to one build after the other
    Threads,    \* at a time: _start_pull
    Monitors,   \* at a time: _monitor_transfer
    Ops,        \* what users and the environment do in this instance
    None, Gone, Bad

OpNames == {"pause", "cancel", "delete", "force", "deleteLocal", "crash", "fail", "moves",
            "back", "prune", "reuse", "calm", "tidy"}

ASSUME ConstantsAssumption ==
    /\ Ops \subseteq OpNames /\ MaxBuild \in Nat \ {0}
    /\ None \notin Jobs \cup Nodes \cup Threads \cup Nat
    /\ Bad \notin Nat /\ Bad # None /\ Gone # None

Builds == 1..MaxBuild
Contents == Builds \cup {Bad}
Pulling == {"pulling", "packing"}
Active == Pulling \cup {"sending", "syncing", "loading"}     \* _ACTIVE_STATUSES
Statuses == Active \cup {"paused", "cancelled", "failed", "completed"}

VARIABLES
    row,       \* the ImageTransfer rows: None before there is one, Gone when it is deleted
    phase,     \* _paused_phase
    puller,    \* _pull_threads
    tag,       \* the build the registry has under the tag
    archive,   \* what the control plane's archive holds
    side,      \* the registry digest in the archive's sidecar
    marked,    \* whether the sidecar's fingerprint is that of the archive
    thread, mon,
    part,      \* the threads that have the archive's .part open, and whether it is whole
    tars,      \* the archives a node has
    docker,    \* the build a node's docker has under the tag
    loaded     \* the .loaded-<digest> marks of a node

store == <<tag, archive, side, marked, part>>
agents == <<tars, docker, loaded>>
vars == <<row, phase, puller, tag, archive, side, marked, thread, mon, part,
          tars, docker, loaded>>

Row == [status : Statuses, reg : Builds \cup {None}, digest : Contents \cup {None},
        size : Contents \cup {None},        \* downloaded_bytes and size_bytes, when whole
        head : Nodes \cup {None}, workers : SUBSET Nodes]
ASSUME RowAssumption == None \notin Row /\ Gone \notin Row
IdleThread == [job |-> None, pc |-> "free", force |-> FALSE, reg |-> None, build |-> None]
IdleMonitor == [job |-> None, pc |-> "free", seen |-> "none", head |-> None, d |-> None,
                todo |-> {}, bad |-> FALSE]
Thread == [job : Jobs \cup {None}, pc : {"free", "begin", "pull", "pack", "mark"},
           force : BOOLEAN, reg : Builds \cup {None}, build : Builds \cup {None}]
Monitor == [job : Jobs \cup {None},
            pc : {"free", "wait", "check", "send", "share", "sync", "load"},
            seen : Statuses \cup {"none"},   \* the status its session has loaded
            head : Nodes \cup {None}, d : Contents \cup {None},
            todo : SUBSET Nodes, bad : BOOLEAN]

TypeOK ==
    /\ row \in [Jobs -> Row \cup {None, Gone}]
    /\ phase \in [Jobs -> Active \cup {None}]
    /\ puller \in [Jobs -> Threads \cup {None}]
    /\ tag \in Builds
    /\ archive \in Contents \cup {None} /\ side \in Builds \cup {None} /\ marked \in BOOLEAN
    /\ thread \in [Threads -> Thread] /\ mon \in [Monitors -> Monitor]
    /\ part \subseteq Threads
    /\ tars \in [Nodes -> SUBSET Contents] /\ docker \in [Nodes -> Builds \cup {None}]
    /\ loaded \in [Nodes -> SUBSET Builds]

Init ==
    /\ row = [j \in Jobs |-> None] /\ phase = [j \in Jobs |-> None]
    /\ puller = [j \in Jobs |-> None]
    /\ tag = 1 /\ archive = None /\ side = None /\ marked = FALSE
    /\ thread = [t \in Threads |-> IdleThread] /\ mon = [m \in Monitors |-> IdleMonitor]
    /\ part = {}
    /\ tars = [n \in Nodes |-> {}] /\ docker = [n \in Nodes |-> None]
    /\ loaded = [n \in Nodes |-> {}]

Calm == "calm" \in Ops
Tidy == "tidy" \in Ops
Exists(j) == row[j] \notin {None, Gone}
Is(j, S) == Exists(j) /\ row[j].status \in S
Targets(j) == row[j].workers \cup ({row[j].head} \ {None})
Working(j) == \E t \in Threads : thread[t].job = j
At(j, P) == \E m \in Monitors : mon[m].job = j /\ mon[m].pc \in P

----------------------------------------------------------------------------
(* Requests.                                                               *)

\* Mutants of Admitted: another pull is let in, and only heads are compared.
AdmittedToPull(j, N, pull) ==
    \A k \in Jobs \ {j} : Is(k, Active \cup {"paused"}) => Targets(k) \cap N = {}
AdmittedByHead(j, N, pull) ==
    LET others == {k \in Jobs \ {j} : Is(k, Active \cup {"paused"})}
    IN  (\A k \in others : row[k].head \notin N) /\ (pull => others = {})
\* _check_image_transfer_admission: others of the image that are under way or paused.
Admitted(j, N, pull) ==
    LET others == {k \in Jobs \ {j} : Is(k, Active \cup {"paused"})}
    IN  (\A k \in others : Targets(k) \cap N = {}) /\ (pull => others = {})

StartThread(t, j, force) ==
    /\ thread[t] = IdleThread
    /\ thread' = [thread EXCEPT ![t] = [IdleThread EXCEPT !.job = j, !.pc = "begin",
                                                          !.force = force]]
    /\ puller' = [puller EXCEPT ![j] = t]
StartMonitor(m, j, h) ==
    /\ mon[m] = IdleMonitor
    /\ mon' = [mon EXCEPT ![m] = [IdleMonitor EXCEPT !.job = j, !.pc = "wait", !.head = h]]

\* start_image_transfer: without an answer of the registry an archive must be there, and it
\* is distributed as it is.
Start(j, head, workers, force, reg) ==
    LET pull == force \/ archive = None \/ (reg # None /\ side # reg)
    IN  /\ row[j] = None \/ (row[j] = Gone /\ "reuse" \in Ops)
        /\ reg \in {tag, None} /\ (reg = None => archive # None)
        /\ (force => "force" \in Ops) /\ (reg = None => "fail" \in Ops)
        /\ head \notin workers /\ (head = None => workers = {})
        /\ Calm => /\ \A t \in Threads : thread[t].pc # "begin"
                   /\ reg = None => \A k \in Jobs : Is(k, Active) => row[k].digest # None
        /\ Admitted(j, workers \cup ({head} \ {None}), pull)
        /\ row' = [row EXCEPT ![j] = [status |-> "pulling", reg |-> reg, digest |-> None,
                                      size |-> None, head |-> head, workers |-> workers]]
        /\ \E t \in Threads : StartThread(t, j, force)
        /\ \E m \in Monitors : StartMonitor(m, j, head)
        /\ UNCHANGED <<phase, store, agents>>

\* pause_image_transfer: the phase is remembered in memory only.
Pause(j) ==
    /\ "pause" \in Ops /\ Is(j, Active)
    /\ Calm => ~At(j, {"check"})
    /\ phase' = [phase EXCEPT ![j] = row[j].status]
    /\ row' = [row EXCEPT ![j].status = "paused"]
    /\ UNCHANGED <<puller, store, thread, mon, agents>>

\* The phase of the pause, or the one the archive suggests; a thread only if there is none.
ResumedPhase(j) ==
    IF phase[j] # None THEN phase[j]
    ELSE IF archive # None /\ row[j].size = archive THEN "sending" ELSE "pulling"
Resume(j) ==
    LET p == ResumedPhase(j)
    IN  /\ Is(j, {"paused"})
        /\ p \in Pulling /\ archive = None => Admitted(j, Targets(j), TRUE)
        /\ row' = [row EXCEPT ![j].status = p]
        /\ phase' = [phase EXCEPT ![j] = None]
        /\ IF p \in Pulling /\ puller[j] = None
           THEN \E t \in Threads : StartThread(t, j, FALSE)
           ELSE UNCHANGED <<thread, puller>>
        /\ \E m \in Monitors : StartMonitor(m, j, row[j].head)
        /\ UNCHANGED <<store, agents>>

Cancel(j) ==
    /\ "cancel" \in Ops /\ Is(j, Active \cup {"paused"})
    /\ Calm => ~Working(j) /\ ~At(j, {"check", "load"})
    /\ phase' = [phase EXCEPT ![j] = None]
    /\ row' = [row EXCEPT ![j].status = "cancelled"]
    /\ UNCHANGED <<puller, store, thread, mon, agents>>

\* delete_transfer: a paused transfer keeps its entry of _paused_phase.
Delete(j) ==
    /\ "delete" \in Ops /\ Exists(j)
    /\ Calm => ~Working(j) /\ ~At(j, {"check", "load"})
    /\ phase' = IF Is(j, Active) THEN [phase EXCEPT ![j] = None] ELSE phase
    /\ row' = [row EXCEPT ![j] = Gone]
    /\ UNCHANGED <<puller, store, thread, mon, agents>>

\* delete_local_archive: the sidecar stays.
DeleteLocal ==
    /\ "deleteLocal" \in Ops /\ archive # None
    /\ Tidy => \A j \in Jobs : ~Is(j, Active \cup {"paused"})
    /\ archive' = None /\ marked' = FALSE
    /\ UNCHANGED <<row, phase, puller, tag, side, part, thread, mon, agents>>

----------------------------------------------------------------------------
(* _start_pull.                                                            *)

ThreadGoes(t, r) == thread' = [thread EXCEPT ![t] = r] /\ UNCHANGED puller
ThreadEnds(t) ==
    /\ thread' = [thread EXCEPT ![t] = IdleThread]
    /\ puller' = [j \in Jobs |-> IF puller[j] = t THEN None ELSE puller[j]]

\* The archive is thrown away by force, and when its sidecar names another digest than the
\* registry did when the transfer was created.
Outdated(force, reg) == archive # None /\ (force \/ (reg # None /\ side # reg))
BeginPull(t) ==
    LET j == thread[t].job
    IN  /\ thread[t].pc = "begin" /\ UNCHANGED <<row, phase, tag, part, mon, agents>>
        /\ IF Exists(j)
           THEN LET old == Outdated(thread[t].force, row[j].reg)
                IN  /\ archive' = IF old THEN None ELSE archive
                    /\ side' = IF old THEN None ELSE side
                    /\ marked' = (marked /\ ~old)
                    /\ ThreadGoes(t, [thread[t] EXCEPT
                            !.reg = row[j].reg,
                            !.pc = IF archive = None \/ old THEN "pull" ELSE "mark"])
           ELSE ThreadEnds(t) /\ UNCHANGED <<archive, side, marked>>

\* Manifest and layers; on_phase, which fails without a row.
Pull(t) ==
    LET j == thread[t].job
    IN  /\ thread[t].pc = "pull"
        /\ UNCHANGED <<phase, tag, archive, side, marked, mon, agents>>
        /\ IF Exists(j)
           THEN /\ row' = IF Is(j, {"pulling"}) THEN [row EXCEPT ![j].status = "packing"]
                          ELSE row
                /\ part' = part \cup {t}
                /\ ThreadGoes(t, [thread[t] EXCEPT !.pc = "pack", !.build = tag])
           ELSE ThreadEnds(t) /\ UNCHANGED <<row, part>>

\* The .part file becomes the archive.  If others write it too it is nothing whole, and they
\* do not find it when they are done.
Pack(t) ==
    /\ thread[t].pc = "pack" /\ t \in part
    /\ archive' = IF part = {t} THEN thread[t].build ELSE Bad
    /\ marked' = FALSE /\ part' = {}
    /\ ThreadGoes(t, [thread[t] EXCEPT !.pc = "mark"])
    /\ UNCHANGED <<row, phase, tag, side, mon, agents>>

\* The fingerprint is computed unless the sidecar has it.
Mark(t) ==
    LET j == thread[t].job
    IN  /\ thread[t].pc = "mark" /\ UNCHANGED <<phase, tag, archive, part, mon, agents>>
        /\ side' = IF archive # None /\ ~marked THEN thread[t].reg ELSE side
        /\ marked' = (archive # None)
        /\ row' = IF Exists(j)
                  THEN [row EXCEPT ![j].digest = archive, ![j].size = archive,
                                   ![j].reg = thread[t].reg]
                  ELSE row
        /\ ThreadEnds(t)

\* Mutant of FailsWith: only the first phase of a pull is known to fail.
FailsWithPulling(j) == Is(j, {"pulling", "paused"})
\* The transfers a failed pull fails: those that have not left these statuses.
FailsWith(j) == Is(j, Pulling \cup {"paused"})
PullFails(t) ==
    LET j == thread[t].job
    IN  /\ \/ thread[t].pc = "pull" /\ "fail" \in Ops
           \/ thread[t].pc = "pack" /\ ("fail" \in Ops \/ t \notin part)
        /\ row' = IF FailsWith(j) THEN [row EXCEPT ![j].status = "failed"] ELSE row
        /\ part' = part \ {t}
        /\ ThreadEnds(t)
        /\ UNCHANGED <<phase, tag, archive, side, marked, mon, agents>>

----------------------------------------------------------------------------
(* _monitor_transfer.                                                      *)

MonitorGoes(m, r) == mon' = [mon EXCEPT ![m] = r]
MonitorEnds(m) == mon' = [mon EXCEPT ![m] = IdleMonitor]

\* A status that is already loaded is not written again.
Writes(m, s) ==
    IF mon[m].seen = s THEN row ELSE [row EXCEPT ![mon[m].job].status = s]
Fails(m) ==
    /\ row' = [row EXCEPT ![mon[m].job].status = "failed"]
    /\ MonitorEnds(m)

\* A coroutine at its next await, whose row still exists.
Reaches(m, pc) ==
    /\ mon[m].pc = pc /\ Exists(mon[m].job)
    /\ UNCHANGED <<phase, puller, store, thread>>

\* Without a row every read and write ends it.
RowGone(m) ==
    /\ mon[m].pc # "free" /\ ~Exists(mon[m].job)
    /\ MonitorEnds(m) /\ UNCHANGED <<row, phase, puller, store, thread, agents>>

\* Mutant of Wait: what ended the polling loop is not looked at.
WaitUnread(m) ==
    LET j == mon[m].job
    IN  /\ Reaches(m, "wait") /\ UNCHANGED agents
        /\ Is(j, Pulling) => archive # None /\ row[j].size = archive /\ puller[j] = None
        /\ IF mon[m].head = None
           THEN row' = [row EXCEPT ![j].status = "completed"] /\ MonitorEnds(m)
           ELSE MonitorGoes(m, [mon[m] EXCEPT !.pc = "check", !.seen = row[j].status])
                /\ UNCHANGED row
\* The polling loop, and what follows it.
Wait(m) ==
    LET j == mon[m].job
    IN  /\ Reaches(m, "wait") /\ UNCHANGED agents
        /\ Is(j, Pulling) => archive # None /\ row[j].size = archive /\ puller[j] = None
        /\ IF Is(j, {"failed", "cancelled", "paused"}) THEN MonitorEnds(m) /\ UNCHANGED row
           ELSE IF mon[m].head = None
           THEN row' = [row EXCEPT ![j].status = "completed"] /\ MonitorEnds(m)
           ELSE MonitorGoes(m, [mon[m] EXCEPT !.pc = "check", !.seen = row[j].status])
                /\ UNCHANGED row

\* check_agent_capability of every node; sending is written whatever has happened since.
Check(m) ==
    /\ Reaches(m, "check") /\ UNCHANGED agents
    /\ \/ /\ archive # None
          /\ row' = Writes(m, "sending")
          /\ MonitorGoes(m, [mon[m] EXCEPT !.pc = "send", !.d = row[mon[m].job].digest])
       \/ /\ archive = None \/ "fail" \in Ops
          /\ Fails(m)

\* The agent's _download_image_archive ends with the digest it was asked for, or fails.
Receives(n, d, source) == d \in tars[n] \cup source /\ d # None
Got(n, d) == tars' = [tars EXCEPT ![n] = @ \cup {d}] /\ UNCHANGED <<docker, loaded>>
Archive == {archive} \ {None}

Send(m) ==
    LET h == mon[m].head d == mon[m].d
    IN  /\ Reaches(m, "send")
        /\ \/ /\ Receives(h, d, Archive) /\ Got(h, d)
              /\ IF Is(mon[m].job, {"sending"})
                 THEN /\ row' = [row EXCEPT ![mon[m].job].status = "syncing"]
                      /\ MonitorGoes(m, [mon[m] EXCEPT !.pc = "share"])
                 ELSE MonitorEnds(m) /\ UNCHANGED row
           \/ /\ ~Receives(h, d, Archive) \/ "fail" \in Ops
              /\ Fails(m) /\ UNCHANGED agents

\* image_share: a head without the archive, or with one of another size, ends the transfer.
Shared(m, d) == d \in tars[mon[m].head] /\ row[mon[m].job].size = d
Share(m) ==
    LET d == row[mon[m].job].digest
    IN  /\ Reaches(m, "share") /\ UNCHANGED agents
        /\ \/ /\ Shared(m, d) /\ UNCHANGED row
              /\ MonitorGoes(m, [mon[m] EXCEPT !.pc = "sync", !.d = d, !.bad = FALSE,
                                               !.todo = row[mon[m].job].workers])
           \/ (~Shared(m, d) \/ "fail" \in Ops) /\ Fails(m)

\* The workers answer one by one, and the results are kept until all have.
Fetch(m, w) ==
    LET d == mon[m].d source == tars[mon[m].head]
    IN  /\ mon[m].pc = "sync" /\ w \in mon[m].todo
        /\ \/ /\ Receives(w, d, source) /\ Got(w, d)
              /\ MonitorGoes(m, [mon[m] EXCEPT !.todo = @ \ {w}])
           \/ /\ ~Receives(w, d, source) \/ "fail" \in Ops
              /\ MonitorGoes(m, [mon[m] EXCEPT !.todo = @ \ {w}, !.bad = TRUE])
              /\ UNCHANGED agents
        /\ UNCHANGED <<row, phase, puller, store, thread>>
SyncEnd(m) ==
    LET j == mon[m].job
    IN  /\ Reaches(m, "sync") /\ mon[m].todo = {} /\ UNCHANGED agents
        /\ IF ~Is(j, {"syncing"}) THEN MonitorEnds(m) /\ UNCHANGED row
           ELSE IF mon[m].bad THEN Fails(m)
           ELSE /\ row' = [row EXCEPT ![j].status = "loading"]
                /\ MonitorGoes(m, [mon[m] EXCEPT
                        !.pc = "load", !.d = row[j].digest,
                        !.todo = {mon[m].head} \cup row[j].workers])

\* Mutant of Skipped: any image under the tag will do.
SkippedIfPresent(n, d) == docker[n] # None
\* image_load: the mark of this digest and any image under the tag are enough to skip it.
Skipped(n, d) == d \in loaded[n] /\ docker[n] # None
Load(m, n) ==
    LET d == mon[m].d
    IN  /\ mon[m].pc = "load" /\ n \in mon[m].todo
        /\ \/ /\ d \in tars[n] \ {Bad}
              /\ docker' = IF Skipped(n, d) THEN docker ELSE [docker EXCEPT ![n] = d]
              /\ loaded' = [loaded EXCEPT ![n] = @ \cup {d}]
              /\ MonitorGoes(m, [mon[m] EXCEPT !.todo = @ \ {n}]) /\ UNCHANGED tars
           \/ /\ d \notin tars[n] \ {Bad} \/ "fail" \in Ops
              /\ MonitorGoes(m, [mon[m] EXCEPT !.todo = @ \ {n}, !.bad = TRUE])
              /\ UNCHANGED agents
        /\ UNCHANGED <<row, phase, puller, store, thread>>
LoadEnd(m) ==
    LET j == mon[m].job
    IN  /\ Reaches(m, "load") /\ mon[m].todo = {} /\ UNCHANGED agents
        /\ IF mon[m].bad THEN Fails(m)
           ELSE /\ row' = IF Is(j, {"loading"}) THEN [row EXCEPT ![j].status = "completed"]
                          ELSE row
                /\ MonitorEnds(m)

----------------------------------------------------------------------------
(* The environment.                                                        *)

\* Mutant of Interrupted: the list of the states misses one.
InterruptedButPacking == {j \in Jobs : Is(j, Active \ {"packing"})}
\* resume_image_monitors: the transfers it finds under way.
Interrupted == {j \in Jobs : Is(j, Active)}

\* The backend dies and resume_image_monitors takes over what was under way.
Crash ==
    LET live  == Interrupted
        pulls == {j \in Jobs : Is(j, Pulling)}
    IN  /\ "crash" \in Ops
        /\ \E f \in [live -> Monitors], g \in [pulls -> Threads] :
             /\ \A i, j \in live : i # j => f[i] # f[j]
             /\ \A i, j \in pulls : i # j => g[i] # g[j]
             /\ mon' = [m \in Monitors |->
                          IF \E j \in live : f[j] = m
                          THEN LET j == CHOOSE i \in live : f[i] = m
                               IN  [IdleMonitor EXCEPT !.job = j, !.pc = "wait",
                                                       !.head = row[j].head]
                          ELSE IdleMonitor]
             /\ thread' = [t \in Threads |->
                             IF \E j \in pulls : g[j] = t
                             THEN [IdleThread EXCEPT !.job = CHOOSE j \in pulls : g[j] = t,
                                                     !.pc = "begin"]
                             ELSE IdleThread]
             /\ puller' = [j \in Jobs |-> IF j \in pulls THEN g[j] ELSE None]
        /\ phase' = [j \in Jobs |-> None] /\ part' = {}
        /\ UNCHANGED <<row, tag, archive, side, marked, agents>>

\* A new build is pushed under the tag, or an old one again.
TagMoves ==
    /\ \E b \in Builds : /\ \/ "moves" \in Ops /\ b = tag + 1
                            \/ "back" \in Ops /\ b < tag
                         /\ tag' = b
    /\ UNCHANGED <<row, phase, puller, archive, side, marked, part, thread, mon, agents>>

\* Somebody removes the image from a node's docker.
Prune(n) ==
    /\ "prune" \in Ops /\ docker[n] # None
    /\ Tidy => \A j \in Jobs : ~(Is(j, Active \cup {"paused"}) /\ n \in Targets(j))
    /\ docker' = [docker EXCEPT ![n] = None]
    /\ UNCHANGED <<row, phase, puller, store, thread, mon, tars, loaded>>

----------------------------------------------------------------------------
ThreadStep(t) == BeginPull(t) \/ Pull(t) \/ Pack(t) \/ Mark(t) \/ PullFails(t)
MonitorStep(m) ==
    \/ RowGone(m) \/ Wait(m) \/ Check(m) \/ Send(m) \/ Share(m) \/ SyncEnd(m) \/ LoadEnd(m)
    \/ \E n \in Nodes : Fetch(m, n) \/ Load(m, n)

Next ==
    \/ \E j \in Jobs, head \in Nodes \cup {None}, workers \in SUBSET Nodes,
          force \in BOOLEAN, reg \in Builds \cup {None} :
             Start(j, head, workers, force, reg)
    \/ \E j \in Jobs : Pause(j) \/ Resume(j) \/ Cancel(j) \/ Delete(j)
    \/ DeleteLocal \/ Crash \/ TagMoves
    \/ \E n \in Nodes : Prune(n)
    \/ \E t \in Threads : ThreadStep(t)
    \/ \E m \in Monitors : MonitorStep(m)

Spec == Init /\ [][Next]_vars

\* Threads and coroutines go on, calls to agents and the registry end (all of them have
\* timeouts); users and the environment may stop at any time.
Fairness ==
    /\ \A t \in Threads : WF_vars(ThreadStep(t))
    /\ \A m \in Monitors : WF_vars(MonitorStep(m))
FairSpec == Spec /\ Fairness

----------------------------------------------------------------------------
(* Properties.                                                             *)

\* Two threads never write the archive at the same time.
OnePuller == \A s, t \in Threads : thread[s].pc = "pack" /\ thread[t].pc = "pack" => s = t

\* Two transfers under way never have a node in common.
NodesNotShared ==
    \A j, k \in Jobs :
        j # k /\ Is(j, Active) /\ Is(k, Active) => Targets(j) \cap Targets(k) = {}

\* A transfer under way always has a coroutine that will end it.
Driven == \A j \in Jobs :
    Is(j, Active) => At(j, {"wait", "check", "send", "share", "sync", "load"})

\* A transfer under way is ended or paused eventually, whatever coroutines a pause and a
\* resume have left side by side.
Settles == \A j \in Jobs : Is(j, Active) ~> ~Is(j, Active)

\* A transfer is completed only when docker on each of its nodes has what the row's
\* fingerprint stands for, and that is no older than what the registry had when the
\* transfer was created.
Completes(j) == Is(j, Active) /\ row'[j] # Gone /\ row'[j].status = "completed"
DeliveredWhenCompleted ==
    [][\A j \in Jobs : Completes(j) =>
          /\ \A n \in Targets(j) : docker'[n] = row'[j].digest
          /\ row[j].reg # None =>
                row'[j].digest \in Builds /\ row'[j].digest >= row[j].reg]_vars

\* The transfers as those who wait for them see them.
Open(j) == Is(j, Active \cup {"paused"})
State(j) == CASE row[j] = None -> "none"
              [] row[j] = Gone -> "removed"
              [] Open(j) -> "open"
              [] Is(j, {"completed"}) -> "completed"
              [] OTHER -> "ended"
Claim(j) == IF Open(j) THEN Targets(j) ELSE {}
Item(j) == IF Exists(j) THEN row[j].digest ELSE None
Holds(n) == {docker[n]} \ {None}
Transfer == INSTANCE TransferJob WITH
    Items <- Builds, NoItem <- None,
    state <- [j \in Jobs |-> State(j)], claim <- [j \in Jobs |-> Claim(j)],
    item <- [j \in Jobs |-> Item(j)], has <- [n \in Nodes |-> Holds(n)]
\* Every transfer behaves as TransferJob promises: its nodes are its own from the request to
\* its end, the build it delivers is settled once, it completes only over nodes that have it,
\* and one that has ended is not taken up again.
Implements == Transfer!Spec
=============================================================================
