------------------------ MODULE ImageTransferProofs ------------------------
(***************************************************************************)
(* Theorems about ImageTransfer, for every choice of its constants.        *)
(***************************************************************************)
EXTENDS ImageTransfer, TLAPS

USE DEF store, agents

\* What TypeOK needs beside itself: a thread that works has a job, and an archive being
\* packed is of a build; a coroutine has a job with a row, and a head once it is past the
\* polling loop.
Works(r) == r.pc # "free" => r.job \in Jobs /\ (r.pc = "pack" => r.build \in Builds)
ThreadsWork == \A t \in Threads : Works(thread[t])
Drives(r) == r.pc # "free" => r.job \in Jobs /\ (r.pc # "wait" => r.head \in Nodes)
MonitorsDrive ==
    \A m \in Monitors : Drives(mon[m]) /\ (mon[m].pc # "free" => row[mon[m].job] # None)
TypeInv == TypeOK /\ ThreadsWork /\ MonitorsDrive

----------------------------------------------------------------------------
(* The variables by themselves.                                            *)

LEMMA Constants ==
    /\ 1 \in Builds /\ Builds \subseteq Nat /\ Bad \notin Builds
    /\ None \notin Contents /\ None \notin Builds /\ None \notin Nodes /\ None \notin Jobs
    /\ None \notin Threads /\ None \notin Row /\ Gone \notin Row /\ Gone # None
    /\ IdleThread \in Thread /\ IdleMonitor \in Monitor
    /\ IdleThread.pc = "free" /\ IdleMonitor.pc = "free"
<1>1. /\ 1 \in Builds /\ Builds \subseteq Nat /\ Bad \notin Builds
      /\ None \notin Contents /\ None \notin Builds /\ None \notin Nodes /\ None \notin Jobs
      /\ None \notin Threads /\ None \notin Row /\ Gone \notin Row /\ Gone # None
      BY ConstantsAssumption, RowAssumption DEF Builds, Contents
<1>2. IdleThread \in Thread /\ IdleThread.pc = "free"
      BY DEF IdleThread, Thread
<1>3. IdleMonitor \in Monitor /\ IdleMonitor.pc = "free"
      BY DEF IdleMonitor, Monitor
<1> QED BY <1>1, <1>2, <1>3

LEMMA RowExists ==
    ASSUME TypeInv, NEW j \in Jobs, Exists(j)
    PROVE  row[j] \in Row
BY DEF TypeInv, TypeOK, Exists

\* A row takes another record.
LEMMA RowChanged ==
    ASSUME TypeInv, NEW j \in Jobs, Exists(j), NEW r \in Row, row' = [row EXCEPT ![j] = r]
    PROVE  /\ row' \in [Jobs -> Row \cup {None, Gone}]
           /\ row'[j] = r /\ \A k \in Jobs : k # j => row'[k] = row[k]
           /\ \A k \in Jobs : row[k] # None => row'[k] # None
BY Constants DEF TypeInv, TypeOK, Exists

LEMMA StatusChanged ==
    ASSUME TypeInv, NEW j \in Jobs, Exists(j), NEW s \in Statuses,
           row' = [row EXCEPT ![j].status = s]
    PROVE  /\ [row[j] EXCEPT !.status = s] \in Row
           /\ row' = [row EXCEPT ![j] = [row[j] EXCEPT !.status = s]]
<1>1. row[j] \in Row
      BY RowExists
<1>2. [row[j] EXCEPT !.status = s] \in Row
      BY <1>1 DEF Row
<1> QED BY <1>2

LEMMA ThreadTyped ==
    ASSUME TypeInv, NEW t \in Threads, NEW r \in Thread, Works(r),
           thread' = [thread EXCEPT ![t] = r]
    PROVE  thread' \in [Threads -> Thread] /\ ThreadsWork'
BY DEF TypeInv, TypeOK, ThreadsWork, Works

LEMMA MonitorTyped ==
    ASSUME TypeInv, NEW m \in Monitors, NEW r \in Monitor, Drives(r),
           mon' = [mon EXCEPT ![m] = r],
           r.pc # "free" => row'[r.job] # None,
           \A k \in Jobs : row[k] # None => row'[k] # None
    PROVE  mon' \in [Monitors -> Monitor] /\ MonitorsDrive'
<1>1. mon \in [Monitors -> Monitor] /\ mon' \in [Monitors -> Monitor]
      BY DEF TypeInv, TypeOK
<1>2. mon'[m] = r /\ \A k \in Monitors : k # m => mon'[k] = mon[k]
      BY <1>1
<1> SUFFICES ASSUME NEW k \in Monitors
             PROVE  Drives(mon'[k]) /\ (mon'[k].pc # "free" => row'[mon'[k].job] # None)
    BY <1>1 DEF MonitorsDrive, Drives
<1>3. CASE k = m
      BY <1>2, <1>3
<1>4. CASE k # m
      BY <1>2, <1>4 DEF TypeInv, MonitorsDrive, Drives
<1> QED BY <1>3, <1>4

LEMMA MonitorsStay ==
    ASSUME TypeInv, UNCHANGED mon, \A k \in Jobs : row[k] # None => row'[k] # None
    PROVE  MonitorsDrive'
BY DEF TypeInv, MonitorsDrive, Drives

LEMMA ThreadsStay == ASSUME TypeInv, UNCHANGED thread PROVE ThreadsWork'
BY DEF TypeInv, ThreadsWork, Works

----------------------------------------------------------------------------
(* Types: requests.                                                        *)

LEMMA InitTyped == Init => TypeInv
<1> SUFFICES ASSUME Init PROVE TypeInv
    OBVIOUS
<1>1. TypeOK
      BY Constants DEF Init, TypeOK
<1>2. ThreadsWork /\ MonitorsDrive
      BY Constants DEF Init, ThreadsWork, MonitorsDrive, Works, Drives
<1> QED BY <1>1, <1>2 DEF TypeInv

LEMMA StartThreadTyped ==
    ASSUME TypeInv, NEW t \in Threads, NEW j \in Jobs, NEW force \in BOOLEAN,
           StartThread(t, j, force)
    PROVE  /\ thread' \in [Threads -> Thread] /\ ThreadsWork'
           /\ puller' \in [Jobs -> Threads \cup {None}]
<1> DEFINE r == [IdleThread EXCEPT !.job = j, !.pc = "begin", !.force = force]
<1>1. r \in Thread /\ Works(r)
      BY DEF IdleThread, Thread, Works
<1>2. thread' = [thread EXCEPT ![t] = r] /\ puller' = [puller EXCEPT ![j] = t]
      BY DEF StartThread
<1>3. puller' \in [Jobs -> Threads \cup {None}]
      BY <1>2 DEF TypeInv, TypeOK
<1> HIDE DEF r
<1> QED BY <1>1, <1>2, <1>3, ThreadTyped

LEMMA StartMonitorTyped ==
    ASSUME TypeInv, NEW m \in Monitors, NEW j \in Jobs, NEW h \in Nodes \cup {None},
           StartMonitor(m, j, h), row'[j] # None,
           \A k \in Jobs : row[k] # None => row'[k] # None
    PROVE  mon' \in [Monitors -> Monitor] /\ MonitorsDrive'
<1> DEFINE r == [IdleMonitor EXCEPT !.job = j, !.pc = "wait", !.head = h]
<1>1. r \in Monitor /\ Drives(r) /\ r.job = j
      BY DEF IdleMonitor, Monitor, Drives
<1>2. mon' = [mon EXCEPT ![m] = r]
      BY DEF StartMonitor
<1> HIDE DEF r
<1> QED BY <1>1, <1>2, MonitorTyped

LEMMA StartTyped ==
    ASSUME TypeInv, NEW j \in Jobs, NEW head \in Nodes \cup {None},
           NEW workers \in SUBSET Nodes, NEW force \in BOOLEAN,
           NEW reg \in Builds \cup {None}, Start(j, head, workers, force, reg)
    PROVE  TypeInv'
<1> DEFINE r == [status |-> "pulling", reg |-> reg, digest |-> None,
                 size |-> None, head |-> head, workers |-> workers]
<1>1. r \in Row
      BY DEF Row, Statuses, Active, Pulling
<1>2. /\ row' = [row EXCEPT ![j] = r] /\ UNCHANGED <<phase, store, agents>>
      /\ \E t \in Threads : StartThread(t, j, force)
      /\ \E m \in Monitors : StartMonitor(m, j, head)
      BY DEF Start
<1> HIDE DEF r
<1>3. row' \in [Jobs -> Row \cup {None, Gone}] /\ row'[j] # None
      /\ \A k \in Jobs : row[k] # None => row'[k] # None
      BY <1>1, <1>2, Constants DEF TypeInv, TypeOK
<1>4. /\ thread' \in [Threads -> Thread] /\ ThreadsWork'
      /\ puller' \in [Jobs -> Threads \cup {None}]
      BY <1>2, StartThreadTyped
<1>5. mon' \in [Monitors -> Monitor] /\ MonitorsDrive'
      BY <1>2, <1>3, StartMonitorTyped
<1> QED BY <1>2, <1>3, <1>4, <1>5 DEF TypeInv, TypeOK

LEMMA PauseTyped ==
    ASSUME TypeInv, NEW j \in Jobs, Pause(j) \/ Cancel(j)
    PROVE  TypeInv'
<1>1. /\ Exists(j) /\ UNCHANGED <<puller, store, thread, mon, agents>>
      /\ \E s \in Statuses : row' = [row EXCEPT ![j].status = s]
      /\ \/ phase' = [phase EXCEPT ![j] = row[j].status] /\ row[j].status \in Active
         \/ phase' = [phase EXCEPT ![j] = None]
      BY DEF Pause, Cancel, Is, Statuses
<1>2. PICK s \in Statuses : row' = [row EXCEPT ![j].status = s]
      BY <1>1
<1>3. row' \in [Jobs -> Row \cup {None, Gone}] /\ \A k \in Jobs : row[k] # None => row'[k] # None
      BY <1>1, <1>2, StatusChanged, RowChanged
<1>4. phase' \in [Jobs -> Active \cup {None}]
      BY <1>1 DEF TypeInv, TypeOK
<1> QED BY <1>1, <1>3, <1>4, MonitorsStay, ThreadsStay DEF TypeInv, TypeOK

LEMMA ResumedPhaseTyped ==
    ASSUME TypeInv, NEW j \in Jobs
    PROVE  ResumedPhase(j) \in {"pulling", "packing", "sending", "syncing", "loading"}
BY DEF ResumedPhase, TypeInv, TypeOK, Active, Pulling

LEMMA ResumeTyped ==
    ASSUME TypeInv, NEW j \in Jobs, Resume(j)
    PROVE  TypeInv'
<1> DEFINE p == ResumedPhase(j)
<1>1. Exists(j) /\ row[j] \in Row /\ p \in Statuses
      BY RowExists, ResumedPhaseTyped DEF Resume, Is, Statuses, Active, Pulling
<1>2. /\ row' = [row EXCEPT ![j].status = p] /\ phase' = [phase EXCEPT ![j] = None]
      /\ (\E t \in Threads : StartThread(t, j, FALSE)) \/ UNCHANGED <<thread, puller>>
      /\ \E m \in Monitors : StartMonitor(m, j, row[j].head)
      /\ UNCHANGED <<store, agents>>
      BY DEF Resume
<1>3. row' \in [Jobs -> Row \cup {None, Gone}] /\ \A k \in Jobs : row[k] # None => row'[k] # None
      BY <1>1, <1>2, StatusChanged, RowChanged
<1>4. row'[j] # None /\ row[j].head \in Nodes \cup {None}
      BY <1>1, <1>3 DEF Exists, Row
<1>5. phase' \in [Jobs -> Active \cup {None}]
      BY <1>2 DEF TypeInv, TypeOK
<1>6. /\ thread' \in [Threads -> Thread] /\ ThreadsWork'
      /\ puller' \in [Jobs -> Threads \cup {None}]
      BY <1>2, StartThreadTyped, ThreadsStay DEF TypeInv, TypeOK
<1>7. mon' \in [Monitors -> Monitor] /\ MonitorsDrive'
      BY <1>2, <1>3, <1>4, StartMonitorTyped
<1> QED BY <1>2, <1>3, <1>5, <1>6, <1>7 DEF TypeInv, TypeOK

LEMMA DeleteTyped ==
    ASSUME TypeInv, NEW j \in Jobs, Delete(j)
    PROVE  TypeInv'
<1>1. /\ row' = [row EXCEPT ![j] = Gone] /\ UNCHANGED <<puller, store, thread, mon, agents>>
      /\ phase' \in [Jobs -> Active \cup {None}]
      BY DEF Delete, TypeInv, TypeOK
<1>2. row' \in [Jobs -> Row \cup {None, Gone}] /\ \A k \in Jobs : row[k] # None => row'[k] # None
      BY <1>1, Constants DEF TypeInv, TypeOK
<1> QED BY <1>1, <1>2, MonitorsStay, ThreadsStay DEF TypeInv, TypeOK

LEMMA EnvironmentTyped ==
    ASSUME TypeInv, DeleteLocal \/ TagMoves \/ (\E n \in Nodes : Prune(n))
    PROVE  TypeInv'
<1>1. UNCHANGED <<row, phase, puller, thread, mon, part, tars, loaded>>
      BY DEF DeleteLocal, TagMoves, Prune
<1>2. /\ archive' \in Contents \cup {None} /\ marked' \in BOOLEAN /\ tag' \in Builds
      /\ side' \in Builds \cup {None} /\ docker' \in [Nodes -> Builds \cup {None}]
      BY DEF DeleteLocal, TagMoves, Prune, TypeInv, TypeOK
<1> QED BY <1>1, <1>2, MonitorsStay, ThreadsStay DEF TypeInv, TypeOK

----------------------------------------------------------------------------
(* Types: threads, coroutines and the crash.                               *)

LEMMA ThreadEndsTyped ==
    ASSUME TypeInv, NEW t \in Threads, ThreadEnds(t)
    PROVE  /\ thread' \in [Threads -> Thread] /\ ThreadsWork'
           /\ puller' \in [Jobs -> Threads \cup {None}]
<1>1. puller' \in [Jobs -> Threads \cup {None}]
      BY DEF ThreadEnds, TypeInv, TypeOK
<1>2. IdleThread \in Thread /\ Works(IdleThread)
      BY Constants DEF Works
<1>3. thread' = [thread EXCEPT ![t] = IdleThread]
      BY DEF ThreadEnds
<1> QED BY <1>1, <1>2, <1>3, ThreadTyped

LEMMA ThreadGoesTyped ==
    ASSUME TypeInv, NEW t \in Threads, NEW r \in Thread, Works(r), ThreadGoes(t, r)
    PROVE  /\ thread' \in [Threads -> Thread] /\ ThreadsWork'
           /\ puller' \in [Jobs -> Threads \cup {None}]
BY ThreadTyped DEF ThreadGoes, TypeInv, TypeOK

\* A thread that works, its job and its record.
LEMMA ThreadUsed ==
    ASSUME TypeInv, NEW t \in Threads, thread[t].pc # "free"
    PROVE  thread[t] \in Thread /\ thread[t].job \in Jobs
BY DEF TypeInv, TypeOK, ThreadsWork, Works

LEMMA BeginPullTyped ==
    ASSUME TypeInv, NEW t \in Threads, BeginPull(t)
    PROVE  TypeInv'
<1> DEFINE j == thread[t].job
<1>1. /\ thread[t].pc = "begin" /\ thread[t].pc # "free"
      /\ UNCHANGED <<row, phase, tag, part, mon, agents>>
      BY DEF BeginPull
<1>2. thread[t] \in Thread /\ j \in Jobs
      BY <1>1, ThreadUsed
<1>3. /\ archive' \in Contents \cup {None} /\ side' \in Builds \cup {None}
      /\ marked' \in BOOLEAN
      BY DEF BeginPull, TypeInv, TypeOK
<1>4. CASE Exists(j)
  <2>1. PICK pc \in {"pull", "mark"} : ThreadGoes(t, [thread[t] EXCEPT !.reg = row[j].reg, !.pc = pc])
        BY <1>4 DEF BeginPull
  <2>2. row[j].reg \in Builds \cup {None}
        BY <1>2, <1>4, RowExists DEF Row
  <2>3. [thread[t] EXCEPT !.reg = row[j].reg, !.pc = pc] \in Thread
        BY <1>2, <2>2 DEF Thread
  <2>4. Works([thread[t] EXCEPT !.reg = row[j].reg, !.pc = pc])
        BY <1>2 DEF Works, Thread
  <2>5. /\ thread' \in [Threads -> Thread] /\ ThreadsWork'
        /\ puller' \in [Jobs -> Threads \cup {None}]
        BY <2>1, <2>3, <2>4, ThreadGoesTyped
  <2> QED BY <1>1, <1>3, <2>5, MonitorsStay DEF TypeInv, TypeOK
<1>5. CASE ~Exists(j)
  <2>1. ThreadEnds(t)
        BY <1>5 DEF BeginPull
  <2> QED BY <1>1, <1>3, <2>1, ThreadEndsTyped, MonitorsStay DEF TypeInv, TypeOK
<1> QED BY <1>4, <1>5

LEMMA PullTyped ==
    ASSUME TypeInv, NEW t \in Threads, Pull(t)
    PROVE  TypeInv'
<1> DEFINE j == thread[t].job
<1>1. /\ thread[t].pc = "pull" /\ thread[t].pc # "free"
      /\ UNCHANGED <<phase, tag, archive, side, marked, mon, agents>>
      BY DEF Pull
<1>2. thread[t] \in Thread /\ j \in Jobs /\ tag \in Builds
      BY <1>1, ThreadUsed DEF TypeInv, TypeOK
<1>3. CASE Exists(j)
  <2> DEFINE r == [thread[t] EXCEPT !.pc = "pack", !.build = tag]
  <2>1. /\ part' = part \cup {t} /\ ThreadGoes(t, r)
        /\ UNCHANGED row \/ row' = [row EXCEPT ![j].status = "packing"]
        BY <1>3 DEF Pull
  <2>2. r \in Thread /\ Works(r)
        BY <1>2 DEF Thread, Works
  <2> HIDE DEF r
  <2>3. "packing" \in Statuses
        BY DEF Statuses, Active, Pulling
  <2>4. /\ row' \in [Jobs -> Row \cup {None, Gone}]
        /\ \A k \in Jobs : row[k] # None => row'[k] # None
        BY <1>2, <1>3, <2>1, <2>3, StatusChanged, RowChanged DEF TypeInv, TypeOK
  <2>5. part' \subseteq Threads
        BY <2>1 DEF TypeInv, TypeOK
  <2> QED BY <1>1, <2>1, <2>2, <2>4, <2>5, ThreadGoesTyped, MonitorsStay DEF TypeInv, TypeOK
<1>4. CASE ~Exists(j)
  <2>1. ThreadEnds(t) /\ UNCHANGED <<row, part>>
        BY <1>4 DEF Pull
  <2> QED BY <1>1, <2>1, ThreadEndsTyped, MonitorsStay DEF TypeInv, TypeOK
<1> QED BY <1>3, <1>4

LEMMA PackTyped ==
    ASSUME TypeInv, NEW t \in Threads, Pack(t)
    PROVE  TypeInv'
<1> DEFINE r == [thread[t] EXCEPT !.pc = "mark"]
<1>1. /\ thread[t].pc = "pack" /\ thread[t].pc # "free" /\ ThreadGoes(t, r)
      /\ UNCHANGED <<row, phase, tag, side, mon, agents>> /\ marked' = FALSE /\ part' = {}
      /\ archive' = IF part = {t} THEN thread[t].build ELSE Bad
      BY DEF Pack
<1>2. thread[t] \in Thread /\ thread[t].job \in Jobs /\ thread[t].build \in Builds
      BY <1>1, ThreadUsed DEF TypeInv, ThreadsWork, Works
<1>3. r \in Thread /\ Works(r) /\ archive' \in Contents
      BY <1>1, <1>2 DEF Thread, Works, Contents
<1> HIDE DEF r
<1> QED BY <1>1, <1>3, ThreadGoesTyped, MonitorsStay DEF TypeInv, TypeOK

LEMMA MarkTyped ==
    ASSUME TypeInv, NEW t \in Threads, Mark(t)
    PROVE  TypeInv'
<1> DEFINE j == thread[t].job
           r == [row[j] EXCEPT !.digest = archive, !.size = archive, !.reg = thread[t].reg]
<1>1. /\ thread[t].pc = "mark" /\ thread[t].pc # "free" /\ ThreadEnds(t)
      /\ UNCHANGED <<phase, tag, archive, part, mon, agents>>
      /\ side' \in {side, thread[t].reg} /\ marked' \in BOOLEAN
      /\ row' = IF Exists(j)
                THEN [row EXCEPT ![j].digest = archive, ![j].size = archive,
                                 ![j].reg = thread[t].reg]
                ELSE row
      BY DEF Mark
<1>2. thread[t] \in Thread /\ j \in Jobs /\ archive \in Contents \cup {None}
      BY <1>1, ThreadUsed DEF TypeInv, TypeOK
<1>3. thread[t].reg \in Builds \cup {None}
      BY <1>2 DEF Thread
<1>4. /\ row' \in [Jobs -> Row \cup {None, Gone}]
      /\ \A k \in Jobs : row[k] # None => row'[k] # None
  <2>1. CASE Exists(j)
    <3>1. r \in Row
          BY <1>2, <1>3, <2>1, RowExists DEF Row
    <3>2. row' = [row EXCEPT ![j] = r]
          BY <1>1, <2>1
    <3> HIDE DEF r
    <3> QED BY <1>2, <2>1, <3>1, <3>2, RowChanged
  <2>2. CASE ~Exists(j)
        BY <1>1, <2>2 DEF TypeInv, TypeOK
  <2> QED BY <2>1, <2>2
<1>5. side' \in Builds \cup {None}
      BY <1>1, <1>3 DEF TypeInv, TypeOK
<1> QED BY <1>1, <1>4, <1>5, ThreadEndsTyped, MonitorsStay DEF TypeInv, TypeOK

LEMMA PullFailsTyped ==
    ASSUME TypeInv, NEW t \in Threads, PullFails(t)
    PROVE  TypeInv'
<1> DEFINE j == thread[t].job
<1>1. /\ thread[t].pc # "free" /\ ThreadEnds(t) /\ part' = part \ {t}
      /\ UNCHANGED <<phase, tag, archive, side, marked, mon, agents>>
      /\ row' = IF FailsWith(j) THEN [row EXCEPT ![j].status = "failed"] ELSE row
      BY DEF PullFails
<1>2. j \in Jobs /\ (FailsWith(j) => Exists(j)) /\ "failed" \in Statuses
      BY <1>1, ThreadUsed DEF FailsWith, Is, Statuses
<1>3. /\ row' \in [Jobs -> Row \cup {None, Gone}]
      /\ \A k \in Jobs : row[k] # None => row'[k] # None
      BY <1>1, <1>2, StatusChanged, RowChanged DEF TypeInv, TypeOK
<1>4. part' \subseteq Threads
      BY <1>1 DEF TypeInv, TypeOK
<1> QED BY <1>1, <1>3, <1>4, ThreadEndsTyped, MonitorsStay DEF TypeInv, TypeOK

\* What a step of a coroutine may do: its row takes another status, an agent gets an
\* archive or an image, and the coroutine goes on with another record.
MonitorMoves(m, r) ==
    /\ r \in Monitor /\ Drives(r)
    /\ r.pc # "free" => r.job = mon[m].job
    /\ mon' = [mon EXCEPT ![m] = r]
    /\ \/ UNCHANGED row
       \/ Exists(mon[m].job) /\ \E s \in Statuses : row' = [row EXCEPT ![mon[m].job].status = s]
    /\ tars' \in [Nodes -> SUBSET Contents] /\ docker' \in [Nodes -> Builds \cup {None}]
    /\ loaded' \in [Nodes -> SUBSET Builds]
    /\ UNCHANGED <<phase, puller, store, thread>>

LEMMA MonitorMovesTyped ==
    ASSUME TypeInv, NEW m \in Monitors, mon[m].pc # "free", NEW r, MonitorMoves(m, r)
    PROVE  TypeInv'
<1>1. mon[m].job \in Jobs /\ row[mon[m].job] # None
      BY DEF TypeInv, MonitorsDrive, Drives
<1>2. /\ row' \in [Jobs -> Row \cup {None, Gone}]
      /\ \A k \in Jobs : row[k] # None => row'[k] # None
      BY <1>1, StatusChanged, RowChanged DEF MonitorMoves, TypeInv, TypeOK
<1>3. mon' \in [Monitors -> Monitor] /\ MonitorsDrive'
      BY <1>1, <1>2, MonitorTyped DEF MonitorMoves
<1> QED BY <1>2, <1>3, ThreadsStay DEF MonitorMoves, TypeInv, TypeOK

LEMMA MonitorUsed ==
    ASSUME TypeInv, NEW m \in Monitors, mon[m].pc # "free"
    PROVE  /\ mon[m] \in Monitor /\ mon[m].job \in Jobs
           /\ mon[m].pc # "wait" => mon[m].head \in Nodes
BY DEF TypeInv, TypeOK, MonitorsDrive, Drives

LEMMA EndMoves ==
    ASSUME TypeInv, NEW m \in Monitors, mon[m].pc # "free", MonitorEnds(m),
           UNCHANGED <<phase, puller, store, thread, agents>>,
           \/ UNCHANGED row
           \/ /\ Exists(mon[m].job)
              /\ \E s \in Statuses : row' = [row EXCEPT ![mon[m].job].status = s]
    PROVE  MonitorMoves(m, IdleMonitor)
<1>1. IdleMonitor \in Monitor /\ Drives(IdleMonitor) /\ IdleMonitor.pc = "free"
      BY Constants DEF Drives
<1> QED BY <1>1 DEF MonitorMoves, MonitorEnds, TypeInv, TypeOK

LEMMA GoMoves ==
    ASSUME TypeInv, NEW m \in Monitors, mon[m].pc # "free", NEW r \in Monitor, Drives(r),
           r.job = mon[m].job, MonitorGoes(m, r),
           UNCHANGED <<phase, puller, store, thread, agents>>,
           \/ UNCHANGED row
           \/ /\ Exists(mon[m].job)
              /\ \E s \in Statuses : row' = [row EXCEPT ![mon[m].job].status = s]
    PROVE  MonitorMoves(m, r)
BY DEF MonitorMoves, MonitorGoes, TypeInv, TypeOK

LEMMA FailMoves ==
    ASSUME TypeInv, NEW m \in Monitors, NEW pc, pc # "free", Reaches(m, pc), Fails(m),
           UNCHANGED agents
    PROVE  MonitorMoves(m, IdleMonitor)
<1>1. "failed" \in Statuses
      BY DEF Statuses
<1> QED BY <1>1, EndMoves DEF Reaches, Fails

----------------------------------------------------------------------------
(* The steps of a coroutine, seen from the rows.                           *)

\* The coroutine of j writes a status.
Sets(j, s) == row' = [row EXCEPT ![j].status = s]

\* What a coroutine that is done with its job leaves behind.
Leaves(m) ==
    LET j == mon[m].job
    IN  \/ UNCHANGED row /\ ~Exists(j)
        \/ UNCHANGED row /\ mon[m].pc = "wait" /\ Is(j, {"failed", "cancelled", "paused"})
        \/ UNCHANGED row /\ mon[m].pc = "send" /\ ~Is(j, {"sending"})
        \/ UNCHANGED row /\ mon[m].pc = "sync" /\ ~Is(j, {"syncing"})
        \/ UNCHANGED row /\ mon[m].pc = "load" /\ ~Is(j, {"loading"})
        \/ Sets(j, "failed") /\ mon[m].pc \in {"check", "send", "share", "sync", "load"}
        \/ Sets(j, "completed") /\ mon[m].pc = "load" /\ Is(j, {"loading"})
        \/ Sets(j, "completed") /\ mon[m].pc = "wait" /\ (Is(j, Pulling) => puller[j] = None)

\* How a coroutine that goes on moves: its place and the status of its row.
Advances(m, r) ==
    LET j == mon[m].job
    IN  \/ /\ UNCHANGED row /\ mon[m].pc = "wait" /\ r.pc = "check" /\ r.seen = row[j].status
           /\ Exists(j) /\ ~Is(j, {"failed", "cancelled", "paused"}) /\ (Is(j, Pulling) => puller[j] = None)
        \/ row' = Writes(m, "sending") /\ mon[m].pc = "check" /\ r.pc = "send"
        \/ Sets(j, "syncing") /\ Is(j, {"sending"}) /\ mon[m].pc = "send" /\ r.pc = "share"
        \/ UNCHANGED row /\ mon[m].pc = "share" /\ r.pc = "sync"
        \/ Sets(j, "loading") /\ Is(j, {"syncing"}) /\ mon[m].pc = "sync" /\ r.pc = "load"
        \/ UNCHANGED row /\ mon[m].pc = r.pc /\ r.pc \in {"sync", "load"}

Outcome(m, r) ==
    \/ r = IdleMonitor /\ Leaves(m) /\ (UNCHANGED row \/ Exists(mon[m].job))
    \/ r.job = mon[m].job /\ Advances(m, r) /\ (UNCHANGED row \/ Exists(mon[m].job))

LEMMA WaitOutcome ==
    ASSUME TypeInv, NEW m \in Monitors, Wait(m)
    PROVE  \E r : MonitorMoves(m, r) /\ Outcome(m, r)
<1> DEFINE j == mon[m].job
<1>1. /\ mon[m].pc = "wait" /\ mon[m].pc # "free" /\ Exists(j)
      /\ UNCHANGED <<phase, puller, store, thread, agents>>
      /\ Is(j, Pulling) => puller[j] = None
      BY DEF Wait, Reaches
<1>2. mon[m] \in Monitor /\ j \in Jobs /\ row[j] \in Row
      BY <1>1, MonitorUsed, RowExists
<1>3. CASE MonitorEnds(m) /\ UNCHANGED row /\ Is(j, {"failed", "cancelled", "paused"})
  <2>1. MonitorMoves(m, IdleMonitor)
        BY <1>1, <1>3, EndMoves
  <2> QED BY <1>1, <1>3, <2>1 DEF Outcome, Leaves
<1>4. CASE Sets(j, "completed") /\ MonitorEnds(m)
  <2>1. MonitorMoves(m, IdleMonitor)
        BY <1>1, <1>4, EndMoves DEF Sets, Statuses
  <2> QED BY <1>1, <1>4, <2>1 DEF Outcome, Leaves
<1>5. CASE /\ ~Is(j, {"failed", "cancelled", "paused"}) /\ mon[m].head # None /\ UNCHANGED row
           /\ MonitorGoes(m, [mon[m] EXCEPT !.pc = "check", !.seen = row[j].status])
  <2> DEFINE r == [mon[m] EXCEPT !.pc = "check", !.seen = row[j].status]
  <2>1. /\ r \in Monitor /\ r.job = j /\ r.pc = "check" /\ r.seen = row[j].status
        /\ r.head \in Nodes /\ MonitorGoes(m, r)
        BY <1>2, <1>5 DEF Monitor, Row
  <2> HIDE DEF r
  <2>2. MonitorMoves(m, r)
        BY <1>1, <1>2, <1>5, <2>1, GoMoves DEF Drives
  <2>3. Outcome(m, r)
        BY <1>1, <1>5, <2>1 DEF Outcome, Advances
  <2> QED BY <2>2, <2>3
<1> QED BY <1>3, <1>4, <1>5 DEF Wait, Sets

LEMMA CheckOutcome ==
    ASSUME TypeInv, NEW m \in Monitors, Check(m)
    PROVE  \E r : MonitorMoves(m, r) /\ Outcome(m, r)
<1> DEFINE j == mon[m].job
           r == [mon[m] EXCEPT !.pc = "send", !.d = row[j].digest]
<1>1. /\ mon[m].pc = "check" /\ mon[m].pc # "free" /\ Exists(j) /\ Reaches(m, "check")
      /\ UNCHANGED <<phase, puller, store, thread, agents>>
      BY DEF Check, Reaches
<1>2. mon[m] \in Monitor /\ j \in Jobs /\ row[j] \in Row /\ mon[m].head \in Nodes
      BY <1>1, MonitorUsed, RowExists
<1>3. CASE row' = Writes(m, "sending") /\ MonitorGoes(m, r)
  <2>1. r \in Monitor /\ r.job = j /\ r.pc = "send" /\ r.head \in Nodes
        BY <1>2 DEF Monitor, Row
  <2> HIDE DEF r
  <2>2. UNCHANGED row \/ \E s \in Statuses : row' = [row EXCEPT ![j].status = s]
        BY <1>3 DEF Writes, Statuses, Active
  <2>3. MonitorMoves(m, r)
        BY <1>1, <1>2, <1>3, <2>1, <2>2, GoMoves DEF Drives
  <2>4. Outcome(m, r)
        BY <1>1, <1>3, <2>1 DEF Outcome, Advances
  <2> QED BY <2>3, <2>4
<1>4. CASE Fails(m)
  <2>1. MonitorMoves(m, IdleMonitor)
        BY <1>1, <1>4, FailMoves
  <2> QED BY <1>1, <1>4, <2>1 DEF Outcome, Leaves, Fails, Sets
<1> QED BY <1>3, <1>4 DEF Check

\* An archive that arrives has the digest of a build or of Bad.
LEMMA Received ==
    ASSUME TypeInv, NEW n \in Nodes, NEW d, NEW source \in SUBSET Contents, Receives(n, d, source),
           Got(n, d)
    PROVE  /\ tars' \in [Nodes -> SUBSET Contents] /\ docker' \in [Nodes -> Builds \cup {None}]
           /\ loaded' \in [Nodes -> SUBSET Builds]
<1>1. d \in Contents
      BY DEF Receives, TypeInv, TypeOK
<1> QED BY <1>1 DEF Got, TypeInv, TypeOK

LEMMA SendOutcome ==
    ASSUME TypeInv, NEW m \in Monitors, Send(m)
    PROVE  \E r : MonitorMoves(m, r) /\ Outcome(m, r)
<1> DEFINE j == mon[m].job
           h == mon[m].head
           d == mon[m].d
           r == [mon[m] EXCEPT !.pc = "share"]
<1>1. /\ mon[m].pc = "send" /\ mon[m].pc # "free" /\ Exists(j) /\ Reaches(m, "send")
      /\ UNCHANGED <<phase, puller, store, thread>>
      BY DEF Send, Reaches
<1>2. mon[m] \in Monitor /\ j \in Jobs /\ row[j] \in Row /\ h \in Nodes
      BY <1>1, MonitorUsed, RowExists
<1>3. CASE Receives(h, d, Archive) /\ Got(h, d)
  <2>1. Archive \in SUBSET Contents
        BY DEF Archive, TypeInv, TypeOK
  <2>2. /\ tars' \in [Nodes -> SUBSET Contents] /\ docker' \in [Nodes -> Builds \cup {None}]
        /\ loaded' \in [Nodes -> SUBSET Builds]
        BY <1>2, <1>3, <2>1, Received
  <2>3. CASE Sets(j, "syncing") /\ Is(j, {"sending"}) /\ MonitorGoes(m, r)
    <3>1. r \in Monitor /\ r.job = j /\ r.pc = "share" /\ r.head \in Nodes
          BY <1>2 DEF Monitor
    <3> HIDE DEF r
    <3>2. MonitorMoves(m, r)
          BY <1>1, <1>2, <2>2, <2>3, <3>1 DEF MonitorMoves, MonitorGoes, Drives, Sets, Statuses, Active
    <3>3. Outcome(m, r)
          BY <1>1, <2>3, <3>1 DEF Outcome, Advances
    <3> QED BY <3>2, <3>3
  <2>4. CASE ~Is(j, {"sending"}) /\ MonitorEnds(m) /\ UNCHANGED row
    <3>1. MonitorMoves(m, IdleMonitor)
          BY <1>1, <2>2, <2>4, Constants DEF MonitorMoves, MonitorEnds, Drives
    <3> QED BY <1>1, <2>4, <3>1 DEF Outcome, Leaves
  <2>5. \/ Sets(j, "syncing") /\ Is(j, {"sending"}) /\ MonitorGoes(m, r)
        \/ ~Is(j, {"sending"}) /\ MonitorEnds(m) /\ UNCHANGED row
        \/ Fails(m) /\ UNCHANGED agents
        BY DEF Send, Sets
  <2>6. CASE Fails(m) /\ UNCHANGED agents
    <3>1. MonitorMoves(m, IdleMonitor)
          BY <1>1, <2>6, FailMoves
    <3> QED BY <1>1, <2>6, <3>1 DEF Outcome, Leaves, Fails, Sets
  <2> QED BY <2>3, <2>4, <2>5, <2>6
<1>4. CASE Fails(m) /\ UNCHANGED agents
  <2>1. MonitorMoves(m, IdleMonitor)
        BY <1>1, <1>4, FailMoves
  <2> QED BY <1>1, <1>4, <2>1 DEF Outcome, Leaves, Fails, Sets
<1> QED BY <1>3, <1>4 DEF Send

LEMMA ShareOutcome ==
    ASSUME TypeInv, NEW m \in Monitors, Share(m)
    PROVE  \E r : MonitorMoves(m, r) /\ Outcome(m, r)
<1> DEFINE j == mon[m].job
           d == row[j].digest
           r == [mon[m] EXCEPT !.pc = "sync", !.d = d, !.bad = FALSE, !.todo = row[j].workers]
<1>1. /\ mon[m].pc = "share" /\ mon[m].pc # "free" /\ Exists(j) /\ Reaches(m, "share")
      /\ UNCHANGED <<phase, puller, store, thread, agents>>
      BY DEF Share, Reaches
<1>2. mon[m] \in Monitor /\ j \in Jobs /\ row[j] \in Row /\ mon[m].head \in Nodes
      BY <1>1, MonitorUsed, RowExists
<1>3. CASE UNCHANGED row /\ MonitorGoes(m, r)
  <2>1. r \in Monitor /\ r.job = j /\ r.pc = "sync" /\ r.head \in Nodes
        BY <1>2 DEF Monitor, Row
  <2> HIDE DEF r
  <2>2. MonitorMoves(m, r)
        BY <1>1, <1>2, <1>3, <2>1, GoMoves DEF Drives
  <2>3. Outcome(m, r)
        BY <1>1, <1>3, <2>1 DEF Outcome, Advances
  <2> QED BY <2>2, <2>3
<1>4. CASE Fails(m)
  <2>1. MonitorMoves(m, IdleMonitor)
        BY <1>1, <1>4, FailMoves
  <2> QED BY <1>1, <1>4, <2>1 DEF Outcome, Leaves, Fails, Sets
<1> QED BY <1>3, <1>4 DEF Share

LEMMA FetchOutcome ==
    ASSUME TypeInv, NEW m \in Monitors, NEW n \in Nodes, Fetch(m, n)
    PROVE  \E r : MonitorMoves(m, r) /\ Outcome(m, r)
<1> DEFINE d == mon[m].d
           source == tars[mon[m].head]
           r(b) == [mon[m] EXCEPT !.todo = @ \ {n}, !.bad = b]
<1>1. /\ mon[m].pc = "sync" /\ mon[m].pc # "free" /\ UNCHANGED <<row, phase, puller, store, thread>>
      BY DEF Fetch
<1>2. mon[m] \in Monitor /\ mon[m].job \in Jobs /\ mon[m].head \in Nodes
      BY <1>1, MonitorUsed
<1>3. /\ tars' \in [Nodes -> SUBSET Contents] /\ docker' \in [Nodes -> Builds \cup {None}]
      /\ loaded' \in [Nodes -> SUBSET Builds]
  <2>1. CASE Receives(n, d, source) /\ Got(n, d)
    <3>1. source \in SUBSET Contents
          BY <1>2 DEF TypeInv, TypeOK
    <3> QED BY <2>1, <3>1, Received
  <2>2. CASE UNCHANGED agents
        BY <2>2 DEF TypeInv, TypeOK
  <2> QED BY <2>1, <2>2 DEF Fetch
<1>4. PICK b \in BOOLEAN : MonitorGoes(m, r(b))
  <2>1. r(mon[m].bad) = [mon[m] EXCEPT !.todo = @ \ {n}] /\ mon[m].bad \in BOOLEAN
        BY <1>2 DEF Monitor
  <2> QED BY <2>1 DEF Fetch
<1>5. r(b) \in Monitor /\ r(b).job = mon[m].job /\ r(b).pc = "sync" /\ r(b).head \in Nodes
      BY <1>1, <1>2 DEF Monitor
<1> HIDE DEF r
<1>6. MonitorMoves(m, r(b))
      BY <1>1, <1>2, <1>3, <1>4, <1>5 DEF MonitorMoves, MonitorGoes, Drives
<1>7. Outcome(m, r(b))
      BY <1>1, <1>5 DEF Outcome, Advances
<1> QED BY <1>6, <1>7

LEMMA SyncEndOutcome ==
    ASSUME TypeInv, NEW m \in Monitors, SyncEnd(m)
    PROVE  \E r : MonitorMoves(m, r) /\ Outcome(m, r)
<1> DEFINE j == mon[m].job
           r == [mon[m] EXCEPT !.pc = "load", !.d = row[j].digest,
                               !.todo = {mon[m].head} \cup row[j].workers]
<1>1. /\ mon[m].pc = "sync" /\ mon[m].pc # "free" /\ Exists(j) /\ Reaches(m, "sync")
      /\ UNCHANGED <<phase, puller, store, thread, agents>>
      BY DEF SyncEnd, Reaches
<1>2. mon[m] \in Monitor /\ j \in Jobs /\ row[j] \in Row /\ mon[m].head \in Nodes
      BY <1>1, MonitorUsed, RowExists
<1>3. CASE ~Is(j, {"syncing"}) /\ MonitorEnds(m) /\ UNCHANGED row
  <2>1. MonitorMoves(m, IdleMonitor)
        BY <1>1, <1>3, EndMoves
  <2> QED BY <1>1, <1>3, <2>1 DEF Outcome, Leaves
<1>4. CASE Fails(m)
  <2>1. MonitorMoves(m, IdleMonitor)
        BY <1>1, <1>4, FailMoves
  <2> QED BY <1>1, <1>4, <2>1 DEF Outcome, Leaves, Fails, Sets
<1>5. CASE Is(j, {"syncing"}) /\ Sets(j, "loading") /\ MonitorGoes(m, r)
  <2>1. r \in Monitor /\ r.job = j /\ r.pc = "load" /\ r.head \in Nodes
        BY <1>2 DEF Monitor, Row
  <2> HIDE DEF r
  <2>2. MonitorMoves(m, r)
        BY <1>1, <1>2, <1>5, <2>1, GoMoves DEF Drives, Sets, Statuses, Active
  <2>3. Outcome(m, r)
        BY <1>1, <1>5, <2>1 DEF Outcome, Advances
  <2> QED BY <2>2, <2>3
<1> QED BY <1>3, <1>4, <1>5 DEF SyncEnd, Sets

LEMMA LoadOutcome ==
    ASSUME TypeInv, NEW m \in Monitors, NEW n \in Nodes, Load(m, n)
    PROVE  \E r : MonitorMoves(m, r) /\ Outcome(m, r)
<1> DEFINE d == mon[m].d
           r(b) == [mon[m] EXCEPT !.todo = @ \ {n}, !.bad = b]
<1>1. /\ mon[m].pc = "load" /\ mon[m].pc # "free" /\ UNCHANGED <<row, phase, puller, store, thread>>
      BY DEF Load
<1>2. mon[m] \in Monitor /\ mon[m].job \in Jobs /\ mon[m].head \in Nodes
      BY <1>1, MonitorUsed
<1>3. /\ tars' \in [Nodes -> SUBSET Contents] /\ docker' \in [Nodes -> Builds \cup {None}]
      /\ loaded' \in [Nodes -> SUBSET Builds]
  <2>1. CASE /\ d \in tars[n] \ {Bad} /\ UNCHANGED tars
             /\ docker' = IF Skipped(n, d) THEN docker ELSE [docker EXCEPT ![n] = d]
             /\ loaded' = [loaded EXCEPT ![n] = @ \cup {d}]
    <3>1. d \in Builds
          BY <2>1 DEF TypeInv, TypeOK, Contents
    <3> QED BY <2>1, <3>1 DEF TypeInv, TypeOK
  <2>2. CASE UNCHANGED agents
        BY <2>2 DEF TypeInv, TypeOK
  <2> QED BY <2>1, <2>2 DEF Load
<1>4. PICK b \in BOOLEAN : MonitorGoes(m, r(b))
  <2>1. r(mon[m].bad) = [mon[m] EXCEPT !.todo = @ \ {n}] /\ mon[m].bad \in BOOLEAN
        BY <1>2 DEF Monitor
  <2> QED BY <2>1 DEF Load
<1>5. r(b) \in Monitor /\ r(b).job = mon[m].job /\ r(b).pc = "load" /\ r(b).head \in Nodes
      BY <1>1, <1>2 DEF Monitor
<1> HIDE DEF r
<1>6. MonitorMoves(m, r(b))
      BY <1>1, <1>2, <1>3, <1>4, <1>5 DEF MonitorMoves, MonitorGoes, Drives
<1>7. Outcome(m, r(b))
      BY <1>1, <1>5 DEF Outcome, Advances
<1> QED BY <1>6, <1>7

LEMMA LoadEndOutcome ==
    ASSUME TypeInv, NEW m \in Monitors, LoadEnd(m)
    PROVE  \E r : MonitorMoves(m, r) /\ Outcome(m, r)
<1> DEFINE j == mon[m].job
<1>1. /\ mon[m].pc = "load" /\ mon[m].pc # "free" /\ Exists(j) /\ Reaches(m, "load")
      /\ UNCHANGED <<phase, puller, store, thread, agents>>
      BY DEF LoadEnd, Reaches
<1>2. CASE Fails(m)
  <2>1. MonitorMoves(m, IdleMonitor)
        BY <1>1, <1>2, FailMoves
  <2> QED BY <1>1, <1>2, <2>1 DEF Outcome, Leaves, Fails, Sets
<1>3. CASE MonitorEnds(m) /\ row' = IF Is(j, {"loading"}) THEN [row EXCEPT ![j].status = "completed"]
                                    ELSE row
  <2>1. MonitorMoves(m, IdleMonitor)
        BY <1>1, <1>3, EndMoves DEF Statuses
  <2> QED BY <1>1, <1>3, <2>1 DEF Outcome, Leaves, Sets
<1> QED BY <1>2, <1>3 DEF LoadEnd

LEMMA StepOutcome ==
    ASSUME TypeInv, NEW m \in Monitors, MonitorStep(m)
    PROVE  (\E r : MonitorMoves(m, r) /\ Outcome(m, r)) /\ mon[m].pc # "free"
<1>1. ASSUME RowGone(m) PROVE \E r : MonitorMoves(m, r) /\ Outcome(m, r)
  <2>1. MonitorMoves(m, IdleMonitor)
        BY <1>1, EndMoves DEF RowGone
  <2> QED BY <1>1, <2>1 DEF Outcome, Leaves, RowGone
<1>2. mon[m].pc # "free"
      BY DEF MonitorStep, RowGone, Wait, Check, Send, Share, SyncEnd, LoadEnd, Fetch, Load, Reaches
<1> QED BY <1>1, <1>2, WaitOutcome, CheckOutcome, SendOutcome, ShareOutcome, FetchOutcome,
           SyncEndOutcome, LoadOutcome, LoadEndOutcome DEF MonitorStep

----------------------------------------------------------------------------
(* Types: the crash, and every step.                                       *)

\* After a crash every transfer under way has a new coroutine and every pull a new thread,
\* and nobody else has.
Recovered(f, g) ==
    /\ f \in [Interrupted -> Monitors] /\ g \in [{j \in Jobs : Is(j, Pulling)} -> Threads]
    /\ \A j \in Interrupted :
         mon'[f[j]] = [IdleMonitor EXCEPT !.job = j, !.pc = "wait", !.head = row[j].head]
    /\ \A m \in Monitors : (\A j \in Interrupted : f[j] # m) => mon'[m] = IdleMonitor
    /\ \A j \in Jobs : Is(j, Pulling) =>
         /\ thread'[g[j]] = [IdleThread EXCEPT !.job = j, !.pc = "begin"]
         /\ puller'[j] = g[j]
    /\ \A j \in Jobs : ~Is(j, Pulling) => puller'[j] = None
    /\ \A t \in Threads :
         (\A j \in Jobs : Is(j, Pulling) => g[j] # t) => thread'[t] = IdleThread
    /\ mon' = [m \in Monitors |-> mon'[m]] /\ thread' = [t \in Threads |-> thread'[t]]
    /\ puller' = [j \in Jobs |-> puller'[j]]

LEMMA CrashRecovers ==
    ASSUME TypeInv, Crash
    PROVE  \E f, g : Recovered(f, g)
<1> DEFINE live == Interrupted
           pulls == {j \in Jobs : Is(j, Pulling)}
<1>1. PICK f \in [live -> Monitors], g \in [pulls -> Threads] :
        /\ \A i, j \in live : i # j => f[i] # f[j]
        /\ \A i, j \in pulls : i # j => g[i] # g[j]
        /\ mon' = [m \in Monitors |->
                     IF \E j \in live : f[j] = m
                     THEN LET j == CHOOSE i \in live : f[i] = m
                          IN  [IdleMonitor EXCEPT !.job = j, !.pc = "wait",
                                                  !.head = row[j].head]
                     ELSE IdleMonitor]
        /\ thread' = [t \in Threads |->
                        IF \E j \in pulls : g[j] = t
                        THEN [IdleThread EXCEPT !.job = CHOOSE j \in pulls : g[j] = t,
                                                !.pc = "begin"]
                        ELSE IdleThread]
        /\ puller' = [j \in Jobs |-> IF j \in pulls THEN g[j] ELSE None]
      BY DEF Crash
<1> HIDE DEF live, pulls
<1>2. \A j \in live : (CHOOSE i \in live : f[i] = f[j]) = j
      BY <1>1
<1>3. \A j \in pulls : (CHOOSE i \in pulls : g[i] = g[j]) = j
      BY <1>1
<1>4. ASSUME NEW j \in live
      PROVE  mon'[f[j]] = [IdleMonitor EXCEPT !.job = j, !.pc = "wait", !.head = row[j].head]
  <2>1. f[j] \in Monitors
        BY <1>1
  <2>2. mon'[f[j]] = LET k == CHOOSE i \in live : f[i] = f[j]
                     IN  [IdleMonitor EXCEPT !.job = k, !.pc = "wait", !.head = row[k].head]
        BY <1>1, <2>1
  <2> QED BY <1>2, <2>2
<1>5. \A m \in Monitors : (\A j \in live : f[j] # m) => mon'[m] = IdleMonitor
      BY <1>1
<1>6. ASSUME NEW j \in pulls
      PROVE  thread'[g[j]] = [IdleThread EXCEPT !.job = j, !.pc = "begin"]
  <2>1. g[j] \in Threads
        BY <1>1
  <2>2. thread'[g[j]] = [IdleThread EXCEPT !.job = CHOOSE i \in pulls : g[i] = g[j], !.pc = "begin"]
        BY <1>1, <2>1
  <2> QED BY <1>3, <2>2
<1>7. \A t \in Threads : (\A j \in pulls : g[j] # t) => thread'[t] = IdleThread
      BY <1>1
<1>8. \A j \in Jobs : puller'[j] = IF j \in pulls THEN g[j] ELSE None
      BY <1>1
<1>9. /\ mon' = [m \in Monitors |-> mon'[m]] /\ thread' = [t \in Threads |-> thread'[t]]
      /\ puller' = [j \in Jobs |-> puller'[j]]
      BY <1>1
<1>10. live = Interrupted /\ \A j \in Jobs : j \in pulls <=> Is(j, Pulling)
      BY DEF live, pulls
<1>11. pulls \subseteq Jobs /\ pulls = {j \in Jobs : Is(j, Pulling)}
      BY DEF pulls
<1>12. f \in [Interrupted -> Monitors] /\ g \in [{j \in Jobs : Is(j, Pulling)} -> Threads]
      BY <1>1, <1>10, <1>11
<1>13. /\ \A j \in Interrupted :
             mon'[f[j]] = [IdleMonitor EXCEPT !.job = j, !.pc = "wait", !.head = row[j].head]
       /\ \A m \in Monitors : (\A j \in Interrupted : f[j] # m) => mon'[m] = IdleMonitor
      BY <1>4, <1>5, <1>10
<1>14. \A j \in Jobs : Is(j, Pulling) =>
         /\ thread'[g[j]] = [IdleThread EXCEPT !.job = j, !.pc = "begin"]
         /\ puller'[j] = g[j]
      BY <1>6, <1>8, <1>10
<1>15. /\ \A j \in Jobs : ~Is(j, Pulling) => puller'[j] = None
       /\ \A t \in Threads :
            (\A j \in Jobs : Is(j, Pulling) => g[j] # t) => thread'[t] = IdleThread
      BY <1>7, <1>8, <1>10, <1>11
<1>16. Recovered(f, g)
      BY <1>9, <1>12, <1>13, <1>14, <1>15 DEF Recovered
<1> QED BY <1>16

LEMMA CrashTyped ==
    ASSUME TypeInv, Crash
    PROVE  TypeInv'
<1>1. PICK f, g : Recovered(f, g)
      BY CrashRecovers
<1>2. /\ UNCHANGED <<row, tag, archive, side, marked, agents>>
      /\ phase' = [j \in Jobs |-> None] /\ part' = {}
      BY DEF Crash
<1>3. ASSUME NEW m \in Monitors
      PROVE  mon'[m] \in Monitor /\ Drives(mon'[m]) /\ (mon'[m].pc # "free" => row[mon'[m].job] # None)
  <2>1. CASE \A j \in Interrupted : f[j] # m
        BY <1>1, <2>1, Constants DEF Recovered, Drives
  <2>2. CASE \E j \in Interrupted : f[j] = m
    <3>1. PICK j \in Interrupted : f[j] = m
          BY <2>2
    <3>2. mon'[m] = [IdleMonitor EXCEPT !.job = j, !.pc = "wait", !.head = row[j].head]
          BY <1>1, <3>1 DEF Recovered
    <3>3. j \in Jobs /\ Exists(j) /\ row[j] # None
          BY DEF Interrupted, Is, Exists
    <3>4. row[j].head \in Nodes \cup {None}
          BY <3>3, RowExists DEF Row
    <3> QED BY <3>2, <3>3, <3>4 DEF Drives, IdleMonitor, Monitor
  <2> QED BY <2>1, <2>2
<1>4. ASSUME NEW t \in Threads
      PROVE  thread'[t] \in Thread /\ Works(thread'[t])
  <2>1. CASE \A j \in Jobs : Is(j, Pulling) => g[j] # t
        BY <1>1, <2>1, Constants DEF Recovered, Works
  <2>2. CASE \E j \in Jobs : Is(j, Pulling) /\ g[j] = t
    <3>1. PICK j \in Jobs : Is(j, Pulling) /\ g[j] = t
          BY <2>2
    <3>2. thread'[t] = [IdleThread EXCEPT !.job = j, !.pc = "begin"]
          BY <1>1, <3>1 DEF Recovered
    <3> QED BY <3>2 DEF Works, IdleThread, Thread
  <2> QED BY <2>1, <2>2
<1>5. mon' \in [Monitors -> Monitor] /\ MonitorsDrive'
      BY <1>1, <1>2, <1>3 DEF Recovered, MonitorsDrive, Drives
<1>6. thread' \in [Threads -> Thread] /\ ThreadsWork'
      BY <1>1, <1>4 DEF Recovered, ThreadsWork, Works
<1>7. \A j \in Jobs : puller'[j] \in Threads \cup {None}
      BY <1>1 DEF Recovered
<1>8. puller' \in [Jobs -> Threads \cup {None}]
      BY <1>1, <1>7 DEF Recovered
<1> QED BY <1>2, <1>5, <1>6, <1>8 DEF TypeInv, TypeOK

LEMMA StepKeepsTypes == TypeInv /\ [Next]_vars => TypeInv'
<1> SUFFICES ASSUME TypeInv, [Next]_vars PROVE TypeInv'
    OBVIOUS
<1>1. ASSUME NEW t \in Threads, ThreadStep(t) PROVE TypeInv'
      BY <1>1, BeginPullTyped, PullTyped, PackTyped, MarkTyped, PullFailsTyped DEF ThreadStep
<1>2. ASSUME NEW m \in Monitors, MonitorStep(m) PROVE TypeInv'
      BY <1>2, StepOutcome, MonitorMovesTyped
<1>3. CASE UNCHANGED vars
      BY <1>3, MonitorsStay, ThreadsStay DEF vars, TypeInv, TypeOK
<1> QED BY <1>1, <1>2, <1>3, StartTyped, PauseTyped, ResumeTyped, DeleteTyped, EnvironmentTyped,
           CrashTyped DEF Next

\* The variables keep their types: in particular a thread packs a build, never nothing, and a
\* coroutine past the polling loop has a head, under every operation and however threads
\* and coroutines are left behind by pauses, cancels, deletions and crashes.
THEOREM TypeCorrect == Spec => []TypeOK
<1>1. TypeInv => TypeOK
      BY DEF TypeInv
<1> QED BY <1>1, InitTyped, StepKeepsTypes, PTL DEF Spec

----------------------------------------------------------------------------
(* Transfers are driven: the inductive invariant.                          *)

\* A coroutine with the record r will end a transfer of status s or write the next status:
\* it does not leave because of what it reads.
Carries(r, s) ==
    \/ r.pc = "wait"
    \/ r.pc = "check" /\ (r.seen = "sending" => s = "sending")
    \/ r.pc = "send" /\ s = "sending"
    \/ r.pc \in {"share", "sync"} /\ s = "syncing"
    \/ r.pc = "load" /\ s = "loading"

CarriedInv ==
    \A j \in Jobs : Is(j, Active) =>
        \E m \in Monitors : mon[m].job = j /\ Carries(mon[m], row[j].status)

\* The status a coroutine writes, where its row exists.
LEMMA Written ==
    ASSUME TypeInv, NEW j \in Jobs, Exists(j), NEW s \in Statuses, Sets(j, s)
    PROVE  /\ Exists(j)' /\ row'[j].status = s /\ \A k \in Jobs : k # j => row'[k] = row[k]
           /\ row'[j] = [row[j] EXCEPT !.status = s]
<1>1. row[j] \in Row /\ row' = [row EXCEPT ![j] = [row[j] EXCEPT !.status = s]]
      /\ [row[j] EXCEPT !.status = s] \in Row
      BY StatusChanged, RowExists DEF Sets
<1>2. row'[j] = [row[j] EXCEPT !.status = s] /\ \A k \in Jobs : k # j => row'[k] = row[k]
      BY <1>1, RowChanged
<1>3. row'[j].status = s /\ row'[j] \in Row
      BY <1>1, <1>2 DEF Row
<1> QED BY <1>2, <1>3, Constants DEF Exists

\* A coroutine's step leaves its row carried by itself, inactive, or as it was.
LEMMA OutcomeCarries ==
    ASSUME TypeInv, NEW m \in Monitors, mon[m].pc # "free", NEW r, Outcome(m, r),
           NEW j \in Jobs, j = mon[m].job
    PROVE  /\ \A k \in Jobs : k # j => row'[k] = row[k]
           /\ \/ ~Is(j, Active)'
              \/ r.job = j /\ Carries(r, row'[j].status)
              \/ row'[j] = row[j] /\ ~Carries(mon[m], row[j].status)
<1>2. CASE ~Exists(j)
  <2>1. UNCHANGED row
        BY <1>2 DEF Outcome
  <2> QED BY <1>2, <2>1 DEF Is, Exists
<1>3. CASE Exists(j) /\ Leaves(m)
  <2>1. CASE Sets(j, "failed") \/ Sets(j, "completed")
        BY <1>3, <2>1, Written DEF Is, Statuses, Active, Pulling
  <2>2. CASE UNCHANGED row /\ mon[m].pc = "wait" /\ Is(j, {"failed", "cancelled", "paused"})
        BY <2>2 DEF Is, Exists, Active, Pulling
  <2>3. CASE UNCHANGED row /\ mon[m].pc = "send" /\ ~Is(j, {"sending"})
        BY <1>3, <2>3 DEF Is, Carries
  <2>4. CASE UNCHANGED row /\ mon[m].pc = "sync" /\ ~Is(j, {"syncing"})
        BY <1>3, <2>4 DEF Is, Carries
  <2>5. CASE UNCHANGED row /\ mon[m].pc = "load" /\ ~Is(j, {"loading"})
        BY <1>3, <2>5 DEF Is, Carries
  <2> QED BY <1>3, <2>1, <2>2, <2>3, <2>4, <2>5 DEF Leaves
<1>4. CASE Exists(j) /\ r.job = j /\ Advances(m, r)
  <2>1. CASE row' = Writes(m, "sending") /\ mon[m].pc = "check" /\ r.pc = "send"
    <3>1. CASE mon[m].seen = "sending"
      <4>1. UNCHANGED row
            BY <2>1, <3>1 DEF Writes
      <4>2. Carries(r, row[j].status) \/ ~Carries(mon[m], row[j].status)
            BY <2>1, <3>1 DEF Carries
      <4> QED BY <1>4, <4>1, <4>2
    <3>2. CASE mon[m].seen # "sending"
      <4>1. Sets(j, "sending")
            BY <2>1, <3>2 DEF Writes, Sets
      <4>2. row'[j].status = "sending" /\ \A k \in Jobs : k # j => row'[k] = row[k]
            BY <1>4, <4>1, Written DEF Statuses, Active
      <4> QED BY <1>4, <2>1, <4>2 DEF Carries
    <3> QED BY <3>1, <3>2
  <2>2. CASE Sets(j, "syncing") /\ r.pc = "share"
        BY <1>4, <2>2, Written DEF Carries, Statuses, Active
  <2>3. CASE Sets(j, "loading") /\ r.pc = "load"
        BY <1>4, <2>3, Written DEF Carries, Statuses, Active
  <2>4. CASE /\ UNCHANGED row
             /\ \/ mon[m].pc = "wait" /\ r.pc = "check" /\ r.seen = row[j].status
                \/ mon[m].pc = "share" /\ r.pc = "sync"
                \/ mon[m].pc = r.pc /\ r.pc \in {"sync", "load"}
        BY <1>4, <2>4 DEF Carries
  <2> QED BY <1>4, <2>1, <2>2, <2>3, <2>4 DEF Advances
<1> QED BY <1>2, <1>3, <1>4 DEF Outcome

LEMMA MonitorCarried ==
    ASSUME TypeInv, CarriedInv, NEW m \in Monitors, MonitorStep(m)
    PROVE  CarriedInv'
<1>1. PICK r : MonitorMoves(m, r) /\ Outcome(m, r)
      BY StepOutcome
<1>2. mon[m].pc # "free" /\ mon[m].job \in Jobs
      BY StepOutcome, MonitorUsed
<1>3. mon'[m] = r /\ \A k \in Monitors : k # m => mon'[k] = mon[k]
      BY <1>1 DEF MonitorMoves, TypeInv, TypeOK
<1> SUFFICES ASSUME NEW j \in Jobs, Is(j, Active)'
             PROVE  \E k \in Monitors : mon'[k].job = j /\ Carries(mon'[k], row'[j].status)
    BY DEF CarriedInv
<1>4. CASE row'[j] = row[j] /\ (j = mon[m].job => ~Carries(mon[m], row[j].status))
  <2>1. PICK k \in Monitors : mon[k].job = j /\ Carries(mon[k], row[j].status)
        BY <1>4 DEF CarriedInv, Is, Exists
  <2>2. k # m
        BY <1>4, <2>1
  <2> QED BY <1>3, <1>4, <2>1, <2>2
<1>5. CASE j = mon[m].job
      BY <1>1, <1>2, <1>3, <1>4, <1>5, OutcomeCarries
<1>6. CASE j # mon[m].job
      BY <1>1, <1>2, <1>4, <1>6, OutcomeCarries
<1> QED BY <1>5, <1>6

\* A new coroutine starts in the polling loop and takes nobody's place.
LEMMA StartCarried ==
    ASSUME TypeInv, CarriedInv, NEW j \in Jobs, NEW m \in Monitors, NEW h,
           StartMonitor(m, j, h), \A k \in Jobs : k # j => row'[k] = row[k]
    PROVE  CarriedInv'
<1>1. mon[m].pc = "free"
      BY Constants DEF StartMonitor
<1>2. mon' = [mon EXCEPT ![m] = [IdleMonitor EXCEPT !.job = j, !.pc = "wait", !.head = h]]
      /\ mon \in [Monitors -> Monitor]
      BY DEF StartMonitor, TypeInv, TypeOK
<1>3. mon'[m].job = j /\ mon'[m].pc = "wait" /\ \A k \in Monitors : k # m => mon'[k] = mon[k]
      BY <1>2 DEF IdleMonitor
<1> SUFFICES ASSUME NEW i \in Jobs, Is(i, Active)'
             PROVE  \E k \in Monitors : mon'[k].job = i /\ Carries(mon'[k], row'[i].status)
    BY DEF CarriedInv
<1>4. CASE i = j
      BY <1>3, <1>4 DEF Carries
<1>5. CASE i # j
  <2>1. row'[i] = row[i]
        BY <1>5
  <2>2. PICK k \in Monitors : mon[k].job = i /\ Carries(mon[k], row[i].status)
        BY <2>1 DEF CarriedInv, Is, Exists
  <2>3. k # m
        BY <1>1, <2>2 DEF Carries
  <2> QED BY <1>3, <2>1, <2>2, <2>3
<1> QED BY <1>4, <1>5

\* A job that stays under way keeps its status, or is packed instead of pulled.
LEMMA QuietCarried ==
    ASSUME CarriedInv, UNCHANGED mon,
           \A j \in Jobs : Is(j, Active)' =>
               /\ Is(j, Active)
               /\ \/ row'[j].status = row[j].status
                  \/ row[j].status = "pulling" /\ row'[j].status = "packing"
    PROVE  CarriedInv'
BY DEF CarriedInv, Carries

LEMMA ThreadCarried ==
    ASSUME TypeInv, CarriedInv, NEW t \in Threads, ThreadStep(t)
    PROVE  CarriedInv'
<1> DEFINE i == thread[t].job
<1>1. UNCHANGED mon /\ thread[t].pc # "free"
      BY DEF ThreadStep, BeginPull, Pull, Pack, Mark, PullFails
<1>2. i \in Jobs
      BY <1>1, ThreadUsed
<1>3. CASE UNCHANGED row
      BY <1>1, <1>3, QuietCarried DEF Is, Exists
<1>4. CASE Is(i, {"pulling"}) /\ Sets(i, "packing")
  <2>1. row'[i].status = "packing" /\ \A k \in Jobs : k # i => row'[k] = row[k]
        BY <1>2, <1>4, Written DEF Is, Statuses, Active, Pulling
  <2>2. ASSUME NEW j \in Jobs, Is(j, Active)'
        PROVE  /\ Is(j, Active)
               /\ \/ row'[j].status = row[j].status
                  \/ row[j].status = "pulling" /\ row'[j].status = "packing"
        BY <1>4, <2>1, <2>2 DEF Is, Exists, Active, Pulling
  <2> QED BY <1>1, <2>2, QuietCarried
<1>5. CASE Exists(i) /\ Sets(i, "failed")
  <2>1. row'[i].status = "failed" /\ \A k \in Jobs : k # i => row'[k] = row[k]
        BY <1>2, <1>5, Written DEF Statuses
  <2>2. ASSUME NEW j \in Jobs, Is(j, Active)'
        PROVE  Is(j, Active) /\ row'[j].status = row[j].status
        BY <2>1, <2>2 DEF Is, Exists, Active, Pulling
  <2> QED BY <1>1, <2>2, QuietCarried
<1>6. CASE Mark(t) /\ Exists(i)
  <2>1. row[i] \in Row
        BY <1>2, <1>6, RowExists
  <2>2. row' = [row EXCEPT ![i] = [row[i] EXCEPT !.digest = archive, !.size = archive,
                                                 !.reg = thread[t].reg]]
        BY <1>6 DEF Mark
  <2>3. /\ row'[i] = [row[i] EXCEPT !.digest = archive, !.size = archive, !.reg = thread[t].reg]
        /\ \A k \in Jobs : k # i => row'[k] = row[k]
        BY <1>2, <2>2 DEF TypeInv, TypeOK
  <2>4. row'[i].status = row[i].status
        BY <2>1, <2>3 DEF Row
  <2>5. ASSUME NEW j \in Jobs, Is(j, Active)'
        PROVE  Is(j, Active) /\ row'[j].status = row[j].status
        BY <1>6, <2>3, <2>4, <2>5 DEF Is, Exists
  <2> QED BY <1>1, <2>5, QuietCarried
<1>7. \/ UNCHANGED row
      \/ Is(i, {"pulling"}) /\ Sets(i, "packing")
      \/ Exists(i) /\ Sets(i, "failed")
      \/ Mark(t) /\ Exists(i)
      BY DEF ThreadStep, BeginPull, Pull, Pack, Mark, PullFails, FailsWith, Is, Sets
<1> QED BY <1>3, <1>4, <1>5, <1>6, <1>7

LEMMA RequestCarried ==
    ASSUME TypeInv, CarriedInv, NEW j \in Jobs, Pause(j) \/ Cancel(j) \/ Delete(j) \/ Resume(j)
    PROVE  CarriedInv'
<1>1. CASE Pause(j) \/ Cancel(j)
  <2>1. Exists(j) /\ (Sets(j, "paused") \/ Sets(j, "cancelled")) /\ UNCHANGED mon
        BY <1>1 DEF Pause, Cancel, Is, Sets
  <2>2. row'[j].status \in {"paused", "cancelled"} /\ \A k \in Jobs : k # j => row'[k] = row[k]
        BY <2>1, Written DEF Statuses
  <2>3. ASSUME NEW i \in Jobs, Is(i, Active)'
        PROVE  Is(i, Active) /\ row'[i].status = row[i].status
        BY <2>2, <2>3 DEF Is, Exists, Active, Pulling
  <2> QED BY <2>1, <2>3, QuietCarried
<1>2. CASE Delete(j)
  <2>1. UNCHANGED mon /\ row'[j] = Gone /\ \A k \in Jobs : k # j => row'[k] = row[k]
        BY <1>2 DEF Delete, TypeInv, TypeOK
  <2>2. ASSUME NEW i \in Jobs, Is(i, Active)'
        PROVE  Is(i, Active) /\ row'[i].status = row[i].status
        BY <2>1, <2>2 DEF Is, Exists
  <2> QED BY <2>1, <2>2, QuietCarried
<1>3. CASE Resume(j)
  <2>1. \A k \in Jobs : k # j => row'[k] = row[k]
        BY <1>3 DEF Resume, TypeInv, TypeOK
  <2> QED BY <1>3, <2>1, StartCarried DEF Resume
<1> QED BY <1>1, <1>2, <1>3

LEMMA StepCarried ==
    ASSUME TypeInv, CarriedInv, [Next]_vars
    PROVE  CarriedInv'
<1>1. ASSUME NEW j \in Jobs, NEW head \in Nodes \cup {None}, NEW workers \in SUBSET Nodes,
             NEW force \in BOOLEAN, NEW reg \in Builds \cup {None},
             Start(j, head, workers, force, reg)
      PROVE  CarriedInv'
  <2>1. \A k \in Jobs : k # j => row'[k] = row[k]
        BY <1>1 DEF Start, TypeInv, TypeOK
  <2> QED BY <1>1, <2>1, StartCarried DEF Start
<1>2. CASE UNCHANGED <<row, mon>>
      BY <1>2, QuietCarried DEF Is, Exists
<1>3. CASE DeleteLocal \/ TagMoves \/ (\E n \in Nodes : Prune(n)) \/ UNCHANGED vars
      BY <1>2, <1>3 DEF DeleteLocal, TagMoves, Prune, vars
<1>4. CASE Crash
  <2>1. PICK f, g : Recovered(f, g)
        BY <1>4, CrashRecovers
  <2>2. UNCHANGED row
        BY <1>4 DEF Crash
  <2> SUFFICES ASSUME NEW j \in Jobs, Is(j, Active)'
               PROVE  \E k \in Monitors : mon'[k].job = j /\ Carries(mon'[k], row'[j].status)
      BY DEF CarriedInv
  <2>3. j \in Interrupted
        BY <2>2 DEF Interrupted, Is, Exists
  <2>4. f[j] \in Monitors
        /\ mon'[f[j]] = [IdleMonitor EXCEPT !.job = j, !.pc = "wait", !.head = row[j].head]
        BY <2>1, <2>3 DEF Recovered
  <2>5. mon'[f[j]].job = j /\ mon'[f[j]].pc = "wait"
        BY <2>4 DEF IdleMonitor
  <2> QED BY <2>4, <2>5 DEF Carries
<1> QED BY <1>1, <1>3, <1>4, MonitorCarried, ThreadCarried, RequestCarried DEF Next

\* A transfer under way always has a coroutine that will end it, under every operation and
\* with any number of coroutines left side by side: each pause, resume, late write and crash
\* leaves either an inactive row or a coroutine that will not leave because of what it reads.
THEOREM DrivenCorrect == Spec => []Driven
<1>1. Init => CarriedInv
      BY Constants DEF Init, CarriedInv, Is, Exists
<1>2. TypeInv /\ CarriedInv /\ [Next]_vars => CarriedInv'
      BY StepCarried
<1>3. CarriedInv => Driven
      BY DEF CarriedInv, Driven, Carries, At
<1> QED BY InitTyped, StepKeepsTypes, <1>1, <1>2, <1>3, PTL DEF Spec

----------------------------------------------------------------------------
(* Threads and coroutines of a job, where users leave running ones alone.  *)

\* Nobody pauses, withdraws a transfer that a thread or a capability check works for, or
\* gets the id of a deleted transfer.
NothingReturns == Calm /\ Ops \cap {"pause", "reuse"} = {}

\* A thread works for a transfer that is being pulled, and is the registered one: there is
\* never more than one for a transfer.
ThreadPulls ==
    \A t \in Threads : thread[t].pc # "free" =>
        Is(thread[t].job, Pulling) /\ puller[thread[t].job] = t

\* Its coroutine waits for it.
PullAwaited ==
    \A t \in Threads, m \in Monitors :
        thread[t].pc # "free" /\ mon[m].pc # "free" /\ mon[m].job = thread[t].job =>
            mon[m].pc = "wait"

OneCoroutine ==
    \A m, k \in Monitors :
        mon[m].pc # "free" /\ mon[k].pc # "free" /\ mon[m].job = mon[k].job => m = k

\* sending is written only over the status of a transfer under way.
NothingRevived ==
    \A m \in Monitors :
        /\ mon[m].pc = "wait" /\ Exists(mon[m].job) =>
               Is(mon[m].job, Active \cup {"failed", "cancelled"})
        /\ mon[m].pc = "check" => Is(mon[m].job, Active)

NothingPaused == \A j \in Jobs : ~Is(j, {"paused"})

WorkInv ==
    /\ ThreadPulls /\ PullAwaited /\ OneCoroutine /\ NothingRevived /\ NothingPaused
    /\ NodesNotShared

----------------------------------------------------------------------------
(* Threads and coroutines of a job: the steps.                             *)

\* A coroutine's step leaves the other rows alone, and of its own it writes the status.
LEMMA OutcomeRow ==
    ASSUME TypeInv, NEW m \in Monitors, mon[m].pc # "free", NEW r, Outcome(m, r),
           NEW j \in Jobs, j = mon[m].job
    PROVE  /\ \A k \in Jobs : k # j => row'[k] = row[k]
           /\ \/ row'[j] = row[j]
              \/ /\ Exists(j) /\ Exists(j)'
                 /\ \E s \in {"sending", "syncing", "loading", "failed", "completed"} :
                      /\ row'[j] = [row[j] EXCEPT !.status = s] /\ row'[j].status = s
                      /\ s \in {"sending", "syncing", "loading"} =>
                            mon[m].pc = "check" \/ Is(j, Active)
<1>1. CASE UNCHANGED row
      BY <1>1
<1>2. CASE Exists(j) /\ \E s \in {"sending", "syncing", "loading", "failed", "completed"} :
                           /\ Sets(j, s)
                           /\ s \in {"sending", "syncing", "loading"} =>
                                 mon[m].pc = "check" \/ Is(j, Active)
  <2>1. PICK s \in {"sending", "syncing", "loading", "failed", "completed"} :
           /\ Sets(j, s)
           /\ s \in {"sending", "syncing", "loading"} => mon[m].pc = "check" \/ Is(j, Active)
        BY <1>2
  <2>2. s \in Statuses
        BY DEF Statuses, Active
  <2> QED BY <1>2, <2>1, <2>2, Written
<1>3. UNCHANGED row \/ Exists(j)
      BY DEF Outcome
<1>4. CASE Exists(j) /\ Leaves(m)
      BY <1>1, <1>2, <1>4 DEF Leaves
<1>5. CASE Exists(j) /\ Advances(m, r)
      BY <1>1, <1>2, <1>5 DEF Advances, Writes, Sets, Is, Active
<1> QED BY <1>1, <1>3, <1>4, <1>5 DEF Outcome

LEMMA ApartStays ==
    ASSUME NodesNotShared,
           \A j \in Jobs : Is(j, Active)' =>
               /\ Is(j, Active)
               /\ row'[j].head = row[j].head /\ row'[j].workers = row[j].workers
    PROVE  NodesNotShared'
BY DEF NodesNotShared, Targets

\* While a thread works for a transfer, its coroutine stays in the polling loop.
LEMMA MonitorAlone ==
    ASSUME TypeInv, WorkInv, NEW m \in Monitors, mon[m].pc # "free", NEW r, Outcome(m, r),
           NEW t \in Threads, thread[t].pc # "free", thread[t].job = mon[m].job
    PROVE  FALSE
<1>1. /\ mon[m].pc = "wait" /\ Is(mon[m].job, Pulling) /\ puller[mon[m].job] # None
      /\ mon[m].job \in Jobs
      BY Constants, MonitorUsed DEF WorkInv, PullAwaited, ThreadPulls
<1>2. ~Is(mon[m].job, {"failed", "cancelled", "paused"}) /\ Exists(mon[m].job)
      BY <1>1 DEF Is, Pulling
<1>3. CASE Leaves(m)
      BY <1>1, <1>2, <1>3 DEF Leaves
<1>4. CASE Advances(m, r)
      BY <1>1, <1>2, <1>4 DEF Advances
<1> QED BY <1>3, <1>4 DEF Outcome

LEMMA MonitorWorks ==
    ASSUME TypeInv, WorkInv, NEW m \in Monitors, MonitorStep(m)
    PROVE  WorkInv'
<1>1. PICK r : MonitorMoves(m, r) /\ Outcome(m, r)
      BY StepOutcome
<1>2. mon[m].pc # "free" /\ mon[m].job \in Jobs
      BY StepOutcome, MonitorUsed
<1>3. /\ mon'[m] = r /\ \A k \in Monitors : k # m => mon'[k] = mon[k]
      /\ UNCHANGED <<puller, thread>>
      /\ r.pc # "free" => r.job = mon[m].job
      BY <1>1 DEF MonitorMoves, TypeInv, TypeOK
<1> DEFINE j == mon[m].job
<1>4. \A t \in Threads : thread[t].pc # "free" => thread[t].job # j /\ thread[t].job \in Jobs
      BY <1>1, <1>2, MonitorAlone, ThreadUsed
<1>5. \A k \in Monitors : k # m /\ mon[k].pc # "free" => mon[k].job # j /\ mon[k].job \in Jobs
      BY <1>2, MonitorUsed DEF WorkInv, OneCoroutine
<1>6. /\ \A k \in Jobs : k # j => row'[k] = row[k]
      /\ \/ row'[j] = row[j]
         \/ /\ Exists(j) /\ row'[j] \notin {None, Gone}
            /\ \E s \in {"sending", "syncing", "loading", "failed", "completed"} :
                 /\ row'[j] = [row[j] EXCEPT !.status = s] /\ row'[j].status = s
                 /\ s \in {"sending", "syncing", "loading"} =>
                       mon[m].pc = "check" \/ Is(j, Active)
      BY <1>1, <1>2, OutcomeRow DEF Exists
<1>7. ThreadPulls'
      BY <1>3, <1>4, <1>6 DEF WorkInv, ThreadPulls, Is, Exists
<1>8. PullAwaited'
      BY <1>3, <1>4, <1>5 DEF WorkInv, PullAwaited
<1>9. OneCoroutine'
      BY <1>3, <1>5 DEF WorkInv, OneCoroutine
<1>10. NothingPaused'
  <2> SUFFICES ASSUME NEW k \in Jobs, Is(k, {"paused"})' PROVE FALSE
      BY DEF NothingPaused
  <2>1. CASE row'[k] = row[k]
        BY <2>1 DEF WorkInv, NothingPaused, Is, Exists
  <2>2. CASE row'[k] # row[k]
        BY <1>6, <2>2 DEF Is
  <2> QED BY <2>1, <2>2
<1>11. ASSUME NEW k \in Jobs, Is(k, Active)'
       PROVE  Is(k, Active) /\ row'[k].head = row[k].head /\ row'[k].workers = row[k].workers
  <2>1. CASE row'[k] = row[k]
        BY <1>11, <2>1 DEF Is, Exists
  <2>2. CASE row'[k] # row[k]
    <3>1. k = j /\ Exists(j) /\ row[j] \in Row
          BY <1>2, <1>6, <2>2, RowExists
    <3>2. PICK s \in {"sending", "syncing", "loading", "failed", "completed"} :
             /\ row'[j] = [row[j] EXCEPT !.status = s] /\ row'[j].status = s
             /\ s \in {"sending", "syncing", "loading"} => mon[m].pc = "check" \/ Is(j, Active)
          BY <1>6, <2>2, <3>1
    <3>3. row'[j].head = row[j].head /\ row'[j].workers = row[j].workers
          BY <3>1, <3>2 DEF Row
    <3>4. mon[m].pc = "check" \/ Is(j, Active)
          BY <1>11, <3>1, <3>2 DEF Is, Active, Pulling
    <3> QED BY <3>1, <3>3, <3>4 DEF WorkInv, NothingRevived
  <2> QED BY <2>1, <2>2
<1>12. NodesNotShared'
       BY <1>11, ApartStays DEF WorkInv
<1>13. NothingRevived'
  <2> SUFFICES ASSUME NEW k \in Monitors, mon'[k].pc \in {"wait", "check"}
               PROVE  /\ mon'[k].pc = "wait" /\ row'[mon'[k].job] \notin {None, Gone} =>
                           row'[mon'[k].job].status \in Active \cup {"failed", "cancelled"}
                      /\ mon'[k].pc = "check" => /\ row'[mon'[k].job] \notin {None, Gone}
                                                 /\ row'[mon'[k].job].status \in Active
      BY DEF NothingRevived, Is, Exists
  <2>1. CASE k # m
        BY <1>3, <1>5, <1>6, <2>1 DEF WorkInv, NothingRevived, Is, Exists
  <2>2. CASE k = m
    <3>1. mon'[k] = r /\ r.pc \in {"wait", "check"} /\ r.pc # "free" /\ r.job = j
          BY <1>3, <2>2
    <3>2. Advances(m, r)
          BY <1>1, <3>1, Constants DEF Outcome
    <3>3. /\ UNCHANGED row /\ mon[m].pc = "wait" /\ r.pc = "check" /\ Exists(j)
          /\ ~Is(j, {"failed", "cancelled", "paused"})
          BY <3>1, <3>2 DEF Advances
    <3>4. Is(j, Active)
          BY <3>3 DEF WorkInv, NothingRevived, Is
    <3> QED BY <3>1, <3>3, <3>4 DEF Is, Exists
  <2> QED BY <2>1, <2>2
<1> QED BY <1>7, <1>8, <1>9, <1>10, <1>12, <1>13 DEF WorkInv

LEMMA RevivedStays ==
    ASSUME TypeInv, WorkInv, UNCHANGED mon,
           \A j \in Jobs : row'[j] # row[j] =>
               \/ row'[j] = Gone /\ (\A m \in Monitors : mon[m].pc = "check" => mon[m].job # j)
               \/ Is(j, Active \cup {"failed", "cancelled"})' /\ Is(j, Active)'
               \/ /\ Is(j, Active \cup {"failed", "cancelled"})'
                  /\ \A m \in Monitors : mon[m].pc = "check" => mon[m].job # j
    PROVE  NothingRevived'
<1> SUFFICES ASSUME NEW m \in Monitors, mon[m].pc \in {"wait", "check"}
             PROVE  /\ mon[m].pc = "wait" /\ row'[mon[m].job] \notin {None, Gone} =>
                         row'[mon[m].job].status \in Active \cup {"failed", "cancelled"}
                    /\ mon[m].pc = "check" => /\ row'[mon[m].job] \notin {None, Gone}
                                              /\ row'[mon[m].job].status \in Active
    BY DEF NothingRevived, Is, Exists
<1>1. mon[m].job \in Jobs
      BY MonitorUsed
<1>2. CASE row'[mon[m].job] = row[mon[m].job]
      BY <1>2 DEF WorkInv, NothingRevived, Is, Exists
<1>3. CASE row'[mon[m].job] # row[mon[m].job]
      BY <1>1, <1>3 DEF Is, Exists
<1> QED BY <1>2, <1>3

LEMMA ThreadGoesOn ==
    ASSUME TypeInv, WorkInv, NEW t \in Threads, thread[t].pc # "free", NEW r, r.pc # "free",
           NEW i \in Jobs, i = thread[t].job, r.job = i,
           ThreadGoes(t, r), UNCHANGED mon,
           \A k \in Jobs : k # i => row'[k] = row[k],
           Is(i, Pulling)', row'[i].head = row[i].head, row'[i].workers = row[i].workers
    PROVE  WorkInv'
<1>1. /\ thread'[t] = r /\ \A s \in Threads : s # t => thread'[s] = thread[s]
      /\ UNCHANGED puller
      BY DEF ThreadGoes, TypeInv, TypeOK
<1>2. Is(i, Pulling) /\ puller[i] = t
      BY DEF WorkInv, ThreadPulls
<1>3. Pulling \subseteq Active /\ "paused" \notin Pulling
      BY DEF Active, Pulling
<1>4. ThreadPulls'
  <2> SUFFICES ASSUME NEW s \in Threads, thread'[s].pc # "free"
               PROVE  /\ row'[thread'[s].job] \notin {None, Gone}
                      /\ row'[thread'[s].job].status \in Pulling /\ puller'[thread'[s].job] = s
      BY DEF ThreadPulls, Is, Exists
  <2>1. CASE s = t
        BY <1>1, <1>2, <2>1 DEF Is, Exists
  <2>2. CASE s # t
    <3>1. thread'[s] = thread[s] /\ thread[s].job \in Jobs /\ puller[thread[s].job] = s
          BY <1>1, <2>2, ThreadUsed DEF WorkInv, ThreadPulls
    <3>2. row'[thread[s].job] = row[thread[s].job]
          BY <1>2, <2>2, <3>1
    <3> QED BY <1>1, <3>1, <3>2 DEF WorkInv, ThreadPulls, Is, Exists
  <2> QED BY <2>1, <2>2
<1>5. PullAwaited' /\ OneCoroutine'
      BY <1>1 DEF WorkInv, PullAwaited, OneCoroutine
<1>6. NothingPaused'
      BY <1>3 DEF WorkInv, NothingPaused, Is, Exists, Pulling
<1>7. \A j \in Jobs : Is(j, Active)' =>
          /\ Is(j, Active)
          /\ row'[j].head = row[j].head /\ row'[j].workers = row[j].workers
      BY <1>2, <1>3 DEF Is, Exists
<1>8. NodesNotShared'
      BY <1>7, ApartStays DEF WorkInv
<1>9. NothingRevived'
  <2>1. Is(i, Active \cup {"failed", "cancelled"})' /\ Is(i, Active)'
        BY <1>3 DEF Is
  <2> QED BY <2>1, RevivedStays
<1> QED BY <1>4, <1>5, <1>6, <1>8, <1>9 DEF WorkInv

LEMMA ThreadStops ==
    ASSUME TypeInv, WorkInv, NEW t \in Threads, thread[t].pc # "free",
           NEW i \in Jobs, i = thread[t].job, ThreadEnds(t), UNCHANGED mon,
           \A k \in Jobs : k # i => row'[k] = row[k],
           Is(i, Pulling \cup {"failed"})', row'[i].head = row[i].head,
           row'[i].workers = row[i].workers
    PROVE  WorkInv'
<1>1. /\ thread'[t] = IdleThread /\ \A s \in Threads : s # t => thread'[s] = thread[s]
      /\ \A j \in Jobs : puller[j] # t => puller'[j] = puller[j]
      BY DEF ThreadEnds, TypeInv, TypeOK
<1>2. Is(i, Pulling) /\ puller[i] = t /\ IdleThread.pc = "free"
      BY Constants DEF WorkInv, ThreadPulls
<1>3. Pulling \subseteq Active /\ "paused" \notin Pulling /\ "failed" \notin Active
      BY DEF Active, Pulling
<1>4. ThreadPulls'
  <2> SUFFICES ASSUME NEW s \in Threads, thread'[s].pc # "free"
               PROVE  /\ row'[thread'[s].job] \notin {None, Gone}
                      /\ row'[thread'[s].job].status \in Pulling /\ puller'[thread'[s].job] = s
      BY DEF ThreadPulls, Is, Exists
  <2>1. s # t
        BY <1>1, <1>2
  <2>2. thread'[s] = thread[s] /\ thread[s].job \in Jobs /\ puller[thread[s].job] = s
        BY <1>1, <2>1, ThreadUsed DEF WorkInv, ThreadPulls
  <2>3. row'[thread[s].job] = row[thread[s].job]
        BY <1>2, <2>1, <2>2
  <2> QED BY <1>1, <2>1, <2>2, <2>3 DEF WorkInv, ThreadPulls, Is, Exists
<1>5. PullAwaited' /\ OneCoroutine'
      BY <1>1, <1>2 DEF WorkInv, PullAwaited, OneCoroutine
<1>6. NothingPaused'
      BY <1>3 DEF WorkInv, NothingPaused, Is, Exists
<1>7. \A j \in Jobs : Is(j, Active)' =>
          /\ Is(j, Active)
          /\ row'[j].head = row[j].head /\ row'[j].workers = row[j].workers
      BY <1>2, <1>3 DEF Is, Exists
<1>8. NodesNotShared'
      BY <1>7, ApartStays DEF WorkInv
<1>9. NothingRevived'
  <2>1. Is(i, Active \cup {"failed", "cancelled"})'
        BY <1>3 DEF Is
  <2>2. \A m \in Monitors : mon[m].pc = "check" => mon[m].job # i
        BY DEF WorkInv, PullAwaited
  <2> QED BY <2>1, <2>2, RevivedStays
<1> QED BY <1>4, <1>5, <1>6, <1>8, <1>9 DEF WorkInv

\* The record a finished pull leaves in its row.
LEMMA MarkedRow ==
    ASSUME TypeInv, NEW t \in Threads, Mark(t), NEW i \in Jobs, i = thread[t].job, Exists(i)
    PROVE  /\ Exists(i)' /\ row'[i].status = row[i].status /\ row'[i].head = row[i].head
           /\ row'[i].workers = row[i].workers /\ row'[i].reg = thread[t].reg
           /\ row'[i].digest = archive /\ row'[i].size = archive
           /\ \A k \in Jobs : k # i => row'[k] = row[k]
<1> DEFINE r == [row[i] EXCEPT !.digest = archive, !.size = archive, !.reg = thread[t].reg]
<1>1. row[i] \in Row
      BY RowExists
<1>2. row' = [row EXCEPT ![i] = r]
      BY DEF Mark
<1>3. thread[t] \in Thread /\ archive \in Contents \cup {None}
      BY DEF TypeInv, TypeOK
<1>4. /\ r \in Row /\ r.status = row[i].status /\ r.head = row[i].head
      /\ r.workers = row[i].workers /\ r.reg = thread[t].reg /\ r.digest = archive
      /\ r.size = archive
      BY <1>1, <1>3 DEF Row, Thread
<1> HIDE DEF r
<1> QED BY <1>2, <1>4, RowChanged, Constants DEF Exists

LEMMA ThreadWorks ==
    ASSUME TypeInv, WorkInv, NEW t \in Threads, ThreadStep(t)
    PROVE  WorkInv'
<1> DEFINE i == thread[t].job
<1>1. /\ thread[t].pc \in {"begin", "pull", "pack", "mark"} /\ thread[t].pc # "free"
      /\ UNCHANGED mon
      BY DEF ThreadStep, BeginPull, Pull, Pack, Mark, PullFails
<1>2. /\ i \in Jobs /\ thread[t] \in Thread /\ Is(i, Pulling) /\ Exists(i) /\ row[i] \in Row
      BY <1>1, ThreadUsed, RowExists DEF WorkInv, ThreadPulls, Is
<1>3. CASE BeginPull(t)
  <2>1. PICK pc \in {"pull", "mark"} : ThreadGoes(t, [thread[t] EXCEPT !.reg = row[i].reg, !.pc = pc])
        BY <1>2, <1>3 DEF BeginPull
  <2> DEFINE r == [thread[t] EXCEPT !.reg = row[i].reg, !.pc = pc]
  <2>2. r.pc # "free" /\ r.job = i /\ ThreadGoes(t, r)
        BY <1>2, <2>1 DEF Thread
  <2>3. UNCHANGED row
        BY <1>3 DEF BeginPull
  <2> HIDE DEF r
  <2> QED BY <1>1, <1>2, <2>2, <2>3, ThreadGoesOn DEF Is, Exists
<1>4. CASE Pull(t)
  <2> DEFINE r == [thread[t] EXCEPT !.pc = "pack", !.build = tag]
  <2>1. /\ ThreadGoes(t, r)
        /\ row' = IF Is(i, {"pulling"}) THEN [row EXCEPT ![i].status = "packing"] ELSE row
        BY <1>2, <1>4 DEF Pull
  <2>2. r.pc # "free" /\ r.job = i
        BY <1>2 DEF Thread
  <2> HIDE DEF r
  <2>3. /\ \A k \in Jobs : k # i => row'[k] = row[k]
        /\ row'[i] \notin {None, Gone} /\ row'[i].status \in Pulling
        /\ row'[i].head = row[i].head /\ row'[i].workers = row[i].workers
    <3>1. CASE Is(i, {"pulling"})
      <4>1. Sets(i, "packing") /\ "packing" \in Statuses
            BY <2>1, <3>1 DEF Sets, Statuses, Active, Pulling
      <4>2. /\ row'[i] \notin {None, Gone} /\ row'[i].status = "packing"
            /\ row'[i] = [row[i] EXCEPT !.status = "packing"]
            /\ \A k \in Jobs : k # i => row'[k] = row[k]
            BY <1>2, <4>1, Written DEF Exists
      <4> QED BY <1>2, <4>2 DEF Pulling, Row
    <3>2. CASE ~Is(i, {"pulling"})
          BY <1>2, <2>1, <3>2 DEF Is, Exists
    <3> QED BY <3>1, <3>2
  <2> QED BY <1>1, <1>2, <2>1, <2>2, <2>3, ThreadGoesOn DEF Is, Exists
<1>5. CASE Pack(t)
  <2> DEFINE r == [thread[t] EXCEPT !.pc = "mark"]
  <2>1. r.pc # "free" /\ r.job = i /\ ThreadGoes(t, r) /\ UNCHANGED row
        BY <1>2, <1>5 DEF Thread, Pack
  <2> HIDE DEF r
  <2> QED BY <1>1, <1>2, <2>1, ThreadGoesOn DEF Is, Exists
<1>6. CASE Mark(t)
  <2>1. /\ row'[i] \notin {None, Gone} /\ row'[i].status = row[i].status
        /\ row'[i].head = row[i].head
        /\ row'[i].workers = row[i].workers /\ \A k \in Jobs : k # i => row'[k] = row[k]
        BY <1>2, <1>6, MarkedRow DEF Exists
  <2>2. ThreadEnds(t)
        BY <1>6 DEF Mark
  <2> QED BY <1>1, <1>2, <2>1, <2>2, ThreadStops DEF Is, Exists
<1>7. CASE PullFails(t)
  <2>1. ThreadEnds(t) /\ Sets(i, "failed") /\ "failed" \in Statuses
        BY <1>2, <1>7 DEF PullFails, FailsWith, Is, Sets, Statuses
  <2>2. /\ row'[i] \notin {None, Gone} /\ row'[i].status = "failed"
        /\ row'[i] = [row[i] EXCEPT !.status = "failed"]
        /\ \A k \in Jobs : k # i => row'[k] = row[k]
        BY <1>2, <2>1, Written DEF Exists
  <2>3. row'[i].head = row[i].head /\ row'[i].workers = row[i].workers
        BY <1>2, <2>2 DEF Row
  <2> QED BY <1>1, <1>2, <2>1, <2>2, <2>3, ThreadStops DEF Is, Exists
<1> QED BY <1>3, <1>4, <1>5, <1>6, <1>7 DEF ThreadStep

LEMMA StartWorks ==
    ASSUME TypeInv, WorkInv, NothingReturns, NEW j \in Jobs, NEW head \in Nodes \cup {None},
           NEW workers \in SUBSET Nodes, NEW force \in BOOLEAN,
           NEW reg \in Builds \cup {None}, Start(j, head, workers, force, reg)
    PROVE  WorkInv'
<1> DEFINE N == workers \cup ({head} \ {None})
           w == [status |-> "pulling", reg |-> reg, digest |-> None,
                 size |-> None, head |-> head, workers |-> workers]
<1>1. /\ row[j] = None /\ row' = [row EXCEPT ![j] = w]
      /\ \A k \in Jobs : k # j /\ Is(k, Active) => Targets(k) \cap N = {}
      BY DEF Start, Admitted, Is, NothingReturns
<1>2. PICK t \in Threads : StartThread(t, j, force)
      BY DEF Start
<1>3. PICK m \in Monitors : StartMonitor(m, j, head)
      BY DEF Start
<1>4. w \in Row
      BY DEF Row, Statuses, Active, Pulling
<1>5. row'[j] = w /\ \A k \in Jobs : k # j => row'[k] = row[k]
      BY <1>1 DEF TypeInv, TypeOK
<1>6. /\ row'[j] \notin {None, Gone} /\ row'[j].status = "pulling" /\ row'[j].head = head
      /\ row'[j].workers = workers
      BY <1>4, <1>5, Constants
<1> HIDE DEF w
<1>7. /\ thread[t].pc = "free" /\ puller' = [puller EXCEPT ![j] = t]
      /\ thread' = [thread EXCEPT ![t] = [IdleThread EXCEPT !.job = j, !.pc = "begin",
                                                            !.force = force]]
      BY <1>2, Constants DEF StartThread
<1>8. /\ thread'[t].job = j /\ thread'[t].pc = "begin"
      /\ \A s \in Threads : s # t => thread'[s] = thread[s]
      /\ puller'[j] = t /\ \A k \in Jobs : k # j => puller'[k] = puller[k]
      BY <1>7 DEF IdleThread, TypeInv, TypeOK
<1>9. /\ mon[m].pc = "free"
      /\ mon' = [mon EXCEPT ![m] = [IdleMonitor EXCEPT !.job = j, !.pc = "wait", !.head = head]]
      BY <1>3, Constants DEF StartMonitor
<1>10. /\ mon'[m].job = j /\ mon'[m].pc = "wait"
       /\ \A k \in Monitors : k # m => mon'[k] = mon[k]
      BY <1>9 DEF IdleMonitor, TypeInv, TypeOK
<1>11. \A s \in Threads : thread[s].pc # "free" => thread[s].job # j /\ thread[s].job \in Jobs
      BY <1>1, ThreadUsed DEF WorkInv, ThreadPulls, Is, Exists
<1>12. \A k \in Monitors : mon[k].pc # "free" => mon[k].job # j /\ mon[k].job \in Jobs
      BY <1>1, MonitorUsed DEF TypeInv, MonitorsDrive
<1>13. ThreadPulls'
  <2> SUFFICES ASSUME NEW s \in Threads, thread'[s].pc # "free"
               PROVE  /\ row'[thread'[s].job] \notin {None, Gone}
                      /\ row'[thread'[s].job].status \in Pulling /\ puller'[thread'[s].job] = s
      BY DEF ThreadPulls, Is, Exists
  <2>1. CASE s = t
        BY <1>6, <1>8, <2>1 DEF Pulling
  <2>2. CASE s # t
        BY <1>5, <1>8, <1>11, <2>2 DEF WorkInv, ThreadPulls, Is, Exists
  <2> QED BY <2>1, <2>2
<1>14. PullAwaited'
  <2> SUFFICES ASSUME NEW s \in Threads, NEW k \in Monitors, thread'[s].pc # "free",
                      mon'[k].pc # "free", mon'[k].job = thread'[s].job
               PROVE  mon'[k].pc = "wait"
      BY DEF PullAwaited
  <2>1. CASE k = m
        BY <1>10, <2>1
  <2>2. CASE k # m
        BY <1>8, <1>10, <1>11, <1>12, <2>2 DEF WorkInv, PullAwaited
  <2> QED BY <2>1, <2>2
<1>15. OneCoroutine'
      BY <1>10, <1>12 DEF WorkInv, OneCoroutine
<1>16. NothingPaused'
      BY <1>5, <1>6 DEF WorkInv, NothingPaused, Is, Exists
<1>17. NothingRevived'
  <2> SUFFICES ASSUME NEW k \in Monitors, mon'[k].pc \in {"wait", "check"}
               PROVE  /\ mon'[k].pc = "wait" /\ row'[mon'[k].job] \notin {None, Gone} =>
                           row'[mon'[k].job].status \in Active \cup {"failed", "cancelled"}
                      /\ mon'[k].pc = "check" => /\ row'[mon'[k].job] \notin {None, Gone}
                                                 /\ row'[mon'[k].job].status \in Active
      BY DEF NothingRevived, Is, Exists
  <2>1. CASE k = m
        BY <1>6, <1>10, <2>1 DEF Active, Pulling
  <2>2. CASE k # m
        BY <1>5, <1>10, <1>12, <2>2 DEF WorkInv, NothingRevived, Is, Exists
  <2> QED BY <2>1, <2>2
<1>18. NodesNotShared'
  <2>1. Targets(j)' = N
        BY <1>6 DEF Targets
  <2>2. \A k \in Jobs : k # j => (Is(k, Active)' <=> Is(k, Active)) /\ Targets(k)' = Targets(k)
        BY <1>5 DEF Is, Exists, Targets
  <2>3. ASSUME NEW i \in Jobs, NEW k \in Jobs, i # k, Is(i, Active)', Is(k, Active)'
        PROVE  Targets(i)' \cap Targets(k)' = {}
    <3>1. CASE i = j
          BY <1>1, <2>1, <2>2, <2>3, <3>1
    <3>2. CASE k = j
          BY <1>1, <2>1, <2>2, <2>3, <3>2
    <3>3. CASE i # j /\ k # j
          BY <2>2, <2>3, <3>3 DEF WorkInv, NodesNotShared
    <3> QED BY <3>1, <3>2, <3>3
  <2> QED BY <2>3 DEF NodesNotShared
<1> QED BY <1>13, <1>14, <1>15, <1>16, <1>17, <1>18 DEF WorkInv

\* Cancel and delete only touch transfers that nobody works for.
LEMMA WithdrawWorks ==
    ASSUME TypeInv, WorkInv, NothingReturns, NEW j \in Jobs, Cancel(j) \/ Delete(j)
    PROVE  WorkInv'
<1>1. /\ UNCHANGED <<puller, thread, mon>> /\ Exists(j)
      /\ ~Working(j) /\ ~At(j, {"check", "load"})
      BY DEF Cancel, Delete, NothingReturns, Is
<1>2. /\ \A k \in Jobs : k # j => row'[k] = row[k]
      /\ row'[j] = Gone \/ Is(j, {"cancelled"})'
  <2>1. CASE Cancel(j)
    <3>1. Sets(j, "cancelled") /\ "cancelled" \in Statuses
          BY <2>1 DEF Cancel, Sets, Statuses
    <3> QED BY <1>1, <3>1, Written DEF Is, Exists
  <2>2. CASE Delete(j)
        BY <2>2 DEF Delete, TypeInv, TypeOK
  <2> QED BY <2>1, <2>2
<1>3. ThreadPulls'
  <2>1. \A t \in Threads : thread[t].job # j
        BY <1>1 DEF Working
  <2> QED BY <1>1, <1>2, <2>1, ThreadUsed DEF WorkInv, ThreadPulls, Is, Exists
<1>4. PullAwaited' /\ OneCoroutine'
      BY <1>1 DEF WorkInv, PullAwaited, OneCoroutine
<1>5. NothingPaused'
      BY <1>2 DEF WorkInv, NothingPaused, Is, Exists
<1>6. \A i \in Jobs : Is(i, Active)' =>
          /\ Is(i, Active)
          /\ row'[i].head = row[i].head /\ row'[i].workers = row[i].workers
      BY <1>2 DEF Is, Exists, Active, Pulling
<1>7. NodesNotShared'
      BY <1>6, ApartStays DEF WorkInv
<1>8. NothingRevived'
  <2>1. \A m \in Monitors : mon[m].pc = "check" => mon[m].job # j
        BY <1>1 DEF At
  <2>2. \A k \in Jobs : row'[k] # row[k] =>
           \/ row'[k] = Gone /\ (\A m \in Monitors : mon[m].pc = "check" => mon[m].job # k)
           \/ /\ Is(k, Active \cup {"failed", "cancelled"})'
              /\ \A m \in Monitors : mon[m].pc = "check" => mon[m].job # k
        BY <1>2, <2>1 DEF Is, Exists
  <2> QED BY <1>1, <2>2, RevivedStays
<1> QED BY <1>3, <1>4, <1>5, <1>7, <1>8 DEF WorkInv

LEMMA CrashWorks ==
    ASSUME TypeInv, WorkInv, Crash
    PROVE  WorkInv'
<1>1. PICK f, g : Recovered(f, g)
      BY CrashRecovers
<1>2. UNCHANGED row
      BY DEF Crash
<1>3. ASSUME NEW m \in Monitors, mon'[m].pc # "free"
      PROVE  /\ mon'[m].job \in Interrupted /\ f[mon'[m].job] = m /\ mon'[m].pc = "wait"
  <2>1. PICK j \in Interrupted : f[j] = m
        BY <1>1, <1>3, Constants DEF Recovered
  <2>2. mon'[m] = [IdleMonitor EXCEPT !.job = j, !.pc = "wait", !.head = row[j].head]
        BY <1>1, <2>1 DEF Recovered
  <2>3. mon'[m].job = j /\ mon'[m].pc = "wait"
        BY <2>2 DEF IdleMonitor
  <2> QED BY <2>1, <2>3
<1>4. ASSUME NEW t \in Threads, thread'[t].pc # "free"
      PROVE  Is(thread'[t].job, Pulling) /\ puller'[thread'[t].job] = t
  <2>1. PICK j \in Jobs : Is(j, Pulling) /\ g[j] = t
        BY <1>1, <1>4, Constants DEF Recovered
  <2>2. thread'[t] = [IdleThread EXCEPT !.job = j, !.pc = "begin"] /\ puller'[j] = t
        BY <1>1, <2>1 DEF Recovered
  <2>3. thread'[t].job = j
        BY <2>2 DEF IdleThread
  <2> QED BY <2>1, <2>2, <2>3
<1>5. ThreadPulls'
  <2>1. \A t \in Threads : thread'[t].pc # "free" =>
            /\ row[thread'[t].job] \notin {None, Gone} /\ row[thread'[t].job].status \in Pulling
            /\ puller'[thread'[t].job] = t
        BY <1>4 DEF Is, Exists
  <2> QED BY <1>2, <2>1 DEF ThreadPulls, Is, Exists
<1>6. PullAwaited' /\ OneCoroutine'
      BY <1>3 DEF PullAwaited, OneCoroutine
<1>7. NothingPaused' /\ NodesNotShared'
      BY <1>2 DEF WorkInv, NothingPaused, NodesNotShared, Is, Exists, Targets
<1>8. NothingRevived'
  <2>1. \A m \in Monitors : mon'[m].pc # "free" =>
            mon'[m].pc = "wait" /\ row[mon'[m].job].status \in Active
        BY <1>3 DEF Interrupted, Is
  <2> QED BY <1>2, <2>1 DEF NothingRevived, Is, Exists
<1> QED BY <1>5, <1>6, <1>7, <1>8 DEF WorkInv

LEMMA StepWorks ==
    ASSUME TypeInv, WorkInv, NothingReturns, [Next]_vars
    PROVE  WorkInv'
<1>1. \A j \in Jobs : ~Pause(j) /\ ~Resume(j)
      BY DEF Pause, Resume, NothingReturns, WorkInv, NothingPaused
<1>2. CASE UNCHANGED <<row, puller, thread, mon>>
      BY <1>2 DEF WorkInv, ThreadPulls, PullAwaited, OneCoroutine, NothingRevived, NothingPaused,
                  NodesNotShared, Is, Exists, Targets
<1>3. CASE DeleteLocal \/ TagMoves \/ (\E n \in Nodes : Prune(n)) \/ UNCHANGED vars
      BY <1>2, <1>3 DEF DeleteLocal, TagMoves, Prune, vars
<1> QED BY <1>1, <1>3, StartWorks, WithdrawWorks, CrashWorks, ThreadWorks, MonitorWorks DEF Next

LEMMA InitWorks == Init => WorkInv
BY Constants DEF Init, WorkInv, ThreadPulls, PullAwaited, OneCoroutine, NothingRevived,
                 NothingPaused, NodesNotShared, Is, Exists, IdleThread, IdleMonitor

\* Two transfers under way never have a node in common: the admission check holds because
\* no coroutine writes sending over a transfer that has given its nodes up.  The restriction
\* is needed: a pause, a cancel or a delete that meets a capability check or a running thread
\* is written over later.
THEOREM NodesNotSharedCorrect ==
    ASSUME NothingReturns
    PROVE  Spec => []NodesNotShared
<1>1. TypeInv /\ WorkInv /\ [Next]_vars => WorkInv'
      BY StepWorks
<1>2. WorkInv => NodesNotShared
      BY DEF WorkInv
<1> QED BY InitTyped, StepKeepsTypes, InitWorks, <1>1, <1>2, PTL DEF Spec

----------------------------------------------------------------------------
(* One thread writes the archive: the inductive invariant.                 *)

\* The archive stays where a transfer needs it, and the tag never goes back.
NothingDisturbed == NothingReturns /\ Tidy /\ "back" \notin Ops

\* A thread that goes on after its look at the archive: what it knows, and what it saw.
ThreadSees ==
    \A t \in Threads :
        /\ thread[t].pc \in {"pull", "pack", "mark"} => thread[t].reg = row[thread[t].job].reg
        /\ thread[t].pc \in {"pull", "pack"} => archive = None
        /\ thread[t].pc = "mark" => archive # None
        /\ thread[t].pc = "mark" /\ marked => row[thread[t].job].reg \in {None, side}
        /\ thread[t].pc = "begin" /\ thread[t].force => row[thread[t].job].digest = None

\* Transfers that are pulled side by side agree on the archive that is there: none of them
\* will throw it away, and marking it changes nothing for the others.
PullsAgree ==
    \A j, k \in Jobs : j # k /\ Is(j, Pulling) /\ Is(k, Pulling) =>
        /\ archive # None /\ row[j].reg \in {None, side} /\ (marked \/ row[j].reg = side)
        /\ \A t \in Threads : thread[t].pc = "begin" /\ thread[t].job = j => ~thread[t].force

\* Registry digests grow: the sidecar's is none later than a transfer's, nor that one than
\* the tag's.
DigestsGrow ==
    /\ side # None => side <= tag
    /\ \A j \in Jobs : Is(j, Pulling) /\ row[j].reg # None =>
          row[j].reg <= tag /\ (side # None => side <= row[j].reg)

\* An archive without a fingerprint will get one.
UnmarkedWorked ==
    archive # None /\ ~marked => \E t \in Threads : thread[t].pc \in {"begin", "mark"}

\* What a transfer of an unknown digest pulls has no digest to be compared with later.
UnknownUnnamed ==
    \A j \in Jobs : Is(j, Pulling) /\ row[j].reg = None /\ (archive = None \/ ~marked) => side = None

\* A transfer that has its fingerprint will not pull again after a crash.
FingerprintStays ==
    \A j \in Jobs : Is(j, Pulling) /\ row[j].digest # None =>
        archive # None /\ marked /\ row[j].reg \in {None, side}

PullInv ==
    /\ ThreadSees /\ PullsAgree /\ DigestsGrow /\ UnmarkedWorked /\ UnknownUnnamed
    /\ FingerprintStays

----------------------------------------------------------------------------
(* One thread writes the archive: the steps.                               *)

LEMMA OneThread ==
    ASSUME WorkInv, NEW s \in Threads, NEW t \in Threads, thread[s].pc # "free",
           thread[t].pc # "free", thread[s].job = thread[t].job
    PROVE  s = t
BY DEF WorkInv, ThreadPulls

\* Nothing a thread looks at changes, and no transfer comes to be pulled.
LEMMA QuietPulls ==
    ASSUME TypeInv, WorkInv, WorkInv', PullInv,
           UNCHANGED <<archive, side, marked, thread>>, tag' \in Nat, tag <= tag',
           \A j \in Jobs : Is(j, Pulling)' =>
               /\ Is(j, Pulling) /\ row'[j].reg = row[j].reg /\ row'[j].digest = row[j].digest
    PROVE  PullInv'
<1>1. /\ tag \in Nat /\ side \in Nat \cup {None} /\ None \notin Nat
      /\ \A j \in Jobs : Is(j, Pulling) => row[j].reg \in Nat \cup {None}
      BY Constants, RowExists, ConstantsAssumption DEF TypeInv, TypeOK, Row, Is
<1>2. \A t \in Threads : thread[t].pc # "free" =>
          /\ thread[t].job \in Jobs /\ row'[thread[t].job].reg = row[thread[t].job].reg
          /\ row'[thread[t].job].digest = row[thread[t].job].digest
  <2> SUFFICES ASSUME NEW t \in Threads, thread[t].pc # "free"
               PROVE  /\ thread[t].job \in Jobs
                      /\ row'[thread[t].job].reg = row[thread[t].job].reg
                      /\ row'[thread[t].job].digest = row[thread[t].job].digest
      OBVIOUS
  <2>1. thread[t].job \in Jobs
        BY ThreadUsed
  <2>2. row'[thread[t].job] \notin {None, Gone} /\ row'[thread[t].job].status \in Pulling
        BY DEF WorkInv, ThreadPulls, Is, Exists
  <2> QED BY <2>1, <2>2 DEF Is, Exists
<1>3. ThreadSees'
      BY <1>2 DEF PullInv, ThreadSees
<1>4. PullsAgree'
      BY DEF PullInv, PullsAgree
<1>5. DigestsGrow'
      BY <1>1 DEF PullInv, DigestsGrow
<1>6. UnmarkedWorked' /\ UnknownUnnamed' /\ FingerprintStays'
      BY DEF PullInv, UnmarkedWorked, UnknownUnnamed, FingerprintStays
<1> QED BY <1>3, <1>4, <1>5, <1>6 DEF PullInv

LEMMA MonitorPulls ==
    ASSUME TypeInv, WorkInv, WorkInv', PullInv, NEW m \in Monitors, MonitorStep(m)
    PROVE  PullInv'
<1>1. PICK r : MonitorMoves(m, r) /\ Outcome(m, r)
      BY StepOutcome
<1>2. mon[m].pc # "free" /\ mon[m].job \in Jobs
      BY StepOutcome, MonitorUsed
<1>3. UNCHANGED <<archive, side, marked, thread, tag>>
      BY <1>1 DEF MonitorMoves
<1>4. ASSUME NEW j \in Jobs, Is(j, Pulling)'
      PROVE  Is(j, Pulling) /\ row'[j].reg = row[j].reg /\ row'[j].digest = row[j].digest
  <2>1. row'[j] = row[j]
    <3>1. CASE j = mon[m].job
          BY <1>1, <1>2, <1>4, <3>1, OutcomeRow DEF Is, Pulling
    <3>2. CASE j # mon[m].job
          BY <1>1, <1>2, <3>2, OutcomeRow
    <3> QED BY <3>1, <3>2
  <2> QED BY <1>4, <2>1 DEF Is, Exists
<1>5. tag \in Nat
      BY Constants DEF TypeInv, TypeOK
<1> QED BY <1>3, <1>4, <1>5, QuietPulls

LEMMA WithdrawPulls ==
    ASSUME TypeInv, WorkInv, WorkInv', PullInv, NEW j \in Jobs, Cancel(j) \/ Delete(j)
    PROVE  PullInv'
<1>1. UNCHANGED <<archive, side, marked, thread, tag>> /\ Exists(j)
      BY DEF Cancel, Delete, Is
<1>2. /\ \A k \in Jobs : k # j => row'[k] = row[k]
      /\ row'[j] = Gone \/ row'[j].status = "cancelled"
  <2>1. CASE Cancel(j)
    <3>1. Sets(j, "cancelled") /\ "cancelled" \in Statuses
          BY <2>1 DEF Cancel, Sets, Statuses
    <3> QED BY <1>1, <3>1, Written
  <2>2. CASE Delete(j)
        BY <2>2 DEF Delete, TypeInv, TypeOK
  <2> QED BY <2>1, <2>2
<1>3. \A k \in Jobs : Is(k, Pulling)' =>
          Is(k, Pulling) /\ row'[k].reg = row[k].reg /\ row'[k].digest = row[k].digest
      BY <1>2 DEF Is, Exists, Pulling
<1>4. tag \in Nat
      BY Constants DEF TypeInv, TypeOK
<1> QED BY <1>1, <1>3, <1>4, QuietPulls

LEMMA EnvironmentPulls ==
    ASSUME TypeInv, WorkInv, WorkInv', PullInv, NothingDisturbed,
           DeleteLocal \/ TagMoves \/ (\E n \in Nodes : Prune(n)) \/ UNCHANGED vars
    PROVE  PullInv'
<1>1. tag \in Nat /\ UNCHANGED <<row, thread>>
      BY Constants DEF TypeInv, TypeOK, DeleteLocal, TagMoves, Prune, vars
<1>2. CASE TagMoves \/ (\E n \in Nodes : Prune(n)) \/ UNCHANGED vars
  <2>1. UNCHANGED <<archive, side, marked>> /\ tag' \in Nat /\ tag <= tag'
        BY <1>1, <1>2 DEF TagMoves, Prune, vars, NothingDisturbed
  <2> QED BY <1>1, <2>1, QuietPulls DEF Is, Exists
<1>3. CASE DeleteLocal
  <2>1. archive' = None /\ UNCHANGED <<side, tag>> /\ \A j \in Jobs : ~Is(j, Pulling)
        BY <1>3 DEF DeleteLocal, NothingDisturbed, Is, Active
  <2>2. \A j \in Jobs : ~Is(j, Pulling)'
        BY <1>1, <2>1 DEF Is, Exists
  <2>3. \A t \in Threads : thread[t].pc = "free"
        BY <2>1, ThreadUsed DEF WorkInv, ThreadPulls
  <2>4. ThreadSees' /\ UnmarkedWorked'
        BY <1>1, <2>1, <2>3 DEF ThreadSees, UnmarkedWorked
  <2>5. PullsAgree' /\ UnknownUnnamed' /\ FingerprintStays'
        BY <2>2 DEF PullsAgree, UnknownUnnamed, FingerprintStays
  <2>6. DigestsGrow'
        BY <2>1, <2>2 DEF PullInv, DigestsGrow
  <2> QED BY <2>4, <2>5, <2>6 DEF PullInv
<1> QED BY <1>2, <1>3

LEMMA CrashPulls ==
    ASSUME TypeInv, WorkInv, PullInv, Crash
    PROVE  PullInv'
<1>1. PICK f, g : Recovered(f, g)
      BY CrashRecovers
<1>2. UNCHANGED <<row, tag, archive, side, marked>>
      BY DEF Crash
<1>3. ASSUME NEW t \in Threads
      PROVE  thread'[t].pc \in {"free", "begin"} /\ thread'[t].force = FALSE
  <2>1. CASE \A j \in Jobs : Is(j, Pulling) => g[j] # t
    <3>1. thread'[t] = IdleThread
          BY <1>1, <2>1 DEF Recovered
    <3> QED BY <3>1 DEF IdleThread
  <2>2. CASE \E j \in Jobs : Is(j, Pulling) /\ g[j] = t
    <3>1. PICK j \in Jobs : Is(j, Pulling) /\ g[j] = t
          BY <2>2
    <3>2. thread'[t] = [IdleThread EXCEPT !.job = j, !.pc = "begin"]
          BY <1>1, <3>1 DEF Recovered
    <3> QED BY <3>2 DEF IdleThread
  <2> QED BY <2>1, <2>2
<1>4. ThreadSees'
      BY <1>3 DEF ThreadSees
<1>5. PullsAgree'
      BY <1>2, <1>3 DEF PullInv, PullsAgree, Is, Exists
<1>6. DigestsGrow' /\ UnknownUnnamed' /\ FingerprintStays'
      BY <1>2 DEF PullInv, DigestsGrow, UnknownUnnamed, FingerprintStays, Is, Exists
<1>7. UnmarkedWorked'
  <2> SUFFICES ASSUME archive # None, ~marked
               PROVE  \E t \in Threads : thread'[t].pc \in {"begin", "mark"}
      BY <1>2 DEF UnmarkedWorked
  <2>1. PICK t \in Threads : thread[t].pc \in {"begin", "mark"}
        BY DEF PullInv, UnmarkedWorked
  <2>2. thread[t].job \in Jobs /\ Is(thread[t].job, Pulling)
        BY <2>1, ThreadUsed DEF WorkInv, ThreadPulls
  <2> DEFINE j == thread[t].job
  <2>3. g[j] \in Threads /\ thread'[g[j]] = [IdleThread EXCEPT !.job = j, !.pc = "begin"]
        BY <1>1, <2>2 DEF Recovered
  <2> QED BY <2>3 DEF IdleThread
<1> QED BY <1>4, <1>5, <1>6, <1>7 DEF PullInv

\* A transfer that pulls starts alone; one that does not finds an archive that suits it and
\* everybody who is pulling.
LEMMA StartAgrees ==
    ASSUME TypeInv, WorkInv, PullInv, NothingDisturbed, NEW j \in Jobs,
           NEW head \in Nodes \cup {None}, NEW workers \in SUBSET Nodes, NEW force \in BOOLEAN,
           NEW reg \in Builds \cup {None}, Start(j, head, workers, force, reg),
           NEW k \in Jobs, Is(k, Pulling)
    PROVE  /\ k # j /\ ~force /\ archive # None
           /\ row[k].reg \in {None, side} /\ (marked \/ row[k].reg = side)
           /\ reg \in {None, side} /\ (marked \/ reg = side)
<1>1. /\ row[j] = None /\ reg \in {tag, None} /\ (reg = None => archive # None)
      /\ (reg = None => row[k].digest # None)
      BY DEF Start, NothingDisturbed, NothingReturns, Is, Active
<1>2. k # j
      BY <1>1 DEF Is, Exists
<1>3. ~(force \/ archive = None \/ (reg # None /\ side # reg))
  <2>1. Is(k, Active \cup {"paused"}) /\ k \in Jobs \ {j}
        BY <1>2 DEF Is, Active
  <2> QED BY <2>1 DEF Start, Admitted
<1>4. CASE reg = None
  <2>1. marked /\ row[k].reg \in {None, side}
        BY <1>1, <1>4 DEF PullInv, FingerprintStays
  <2> QED BY <1>2, <1>3, <1>4, <2>1
<1>5. CASE reg # None
  <2>1. reg = tag /\ side = reg /\ side # None
        BY <1>1, <1>3, <1>5
  <2>2. tag \in Nat /\ side \in Nat /\ row[k].reg \in Nat \cup {None}
        BY <2>1, Constants, RowExists DEF TypeInv, TypeOK, Is, Row
  <2>3. row[k].reg # None => row[k].reg = side
        BY <2>1, <2>2 DEF PullInv, DigestsGrow
  <2>4. row[k].reg = None => marked
        BY <1>3, <2>1 DEF PullInv, UnknownUnnamed
  <2> QED BY <1>2, <1>3, <2>1, <2>3, <2>4
<1> QED BY <1>4, <1>5

LEMMA StartPulls ==
    ASSUME TypeInv, WorkInv, PullInv, NothingDisturbed, NEW j \in Jobs,
           NEW head \in Nodes \cup {None}, NEW workers \in SUBSET Nodes, NEW force \in BOOLEAN,
           NEW reg \in Builds \cup {None}, Start(j, head, workers, force, reg)
    PROVE  PullInv'
<1> DEFINE w == [status |-> "pulling", reg |-> reg, digest |-> None,
                 size |-> None, head |-> head, workers |-> workers]
<1>1. /\ row[j] = None /\ row' = [row EXCEPT ![j] = w]
      /\ reg \in {tag, None} /\ (reg = None => archive # None)
      /\ \A s \in Threads : thread[s].pc # "begin"
      /\ UNCHANGED <<tag, archive, side, marked>>
      BY DEF Start, NothingDisturbed, NothingReturns
<1>2. PICK t \in Threads : StartThread(t, j, force)
      BY DEF Start
<1>3. w \in Row
      BY DEF Row, Statuses, Active, Pulling
<1>4. row'[j] = w /\ \A k \in Jobs : k # j => row'[k] = row[k]
      BY <1>1 DEF TypeInv, TypeOK
<1>5. row'[j] \notin {None, Gone} /\ row'[j].reg = reg /\ row'[j].digest = None
      BY <1>3, <1>4, Constants
<1> HIDE DEF w
<1>6. /\ thread[t].pc = "free"
      /\ thread' = [thread EXCEPT ![t] = [IdleThread EXCEPT !.job = j, !.pc = "begin",
                                                            !.force = force]]
      BY <1>2, Constants DEF StartThread
<1>7. /\ thread'[t].job = j /\ thread'[t].pc = "begin" /\ thread'[t].force = force
      /\ \A s \in Threads : s # t => thread'[s] = thread[s]
      BY <1>6 DEF IdleThread, TypeInv, TypeOK
<1>8. \A s \in Threads : thread[s].pc # "free" => thread[s].job # j /\ thread[s].job \in Jobs
      BY <1>1, ThreadUsed DEF WorkInv, ThreadPulls, Is, Exists
<1>9. \A k \in Jobs : k # j => (Is(k, Pulling)' <=> Is(k, Pulling)) /\ row'[k] = row[k]
      BY <1>4 DEF Is, Exists
<1>10. ThreadSees'
  <2> SUFFICES ASSUME NEW s \in Threads
               PROVE  /\ thread'[s].pc \in {"pull", "pack", "mark"} =>
                             thread'[s].reg = row'[thread'[s].job].reg
                      /\ thread'[s].pc \in {"pull", "pack"} => archive = None
                      /\ thread'[s].pc = "mark" => archive # None
                      /\ thread'[s].pc = "mark" /\ marked => row'[thread'[s].job].reg \in {None, side}
                      /\ thread'[s].pc = "begin" /\ thread'[s].force =>
                             row'[thread'[s].job].digest = None
      BY <1>1 DEF ThreadSees
  <2>1. CASE s = t
        BY <1>5, <1>7, <2>1
  <2>2. CASE s # t
        BY <1>7, <1>8, <1>9, <2>2 DEF PullInv, ThreadSees
  <2> QED BY <2>1, <2>2
<1>11. PullsAgree'
  <2> SUFFICES ASSUME NEW i \in Jobs, NEW k \in Jobs, i # k, Is(i, Pulling)', Is(k, Pulling)'
               PROVE  /\ archive # None /\ row'[i].reg \in {None, side}
                      /\ marked \/ row'[i].reg = side
                      /\ \A s \in Threads :
                           thread'[s].pc = "begin" /\ thread'[s].job = i => ~thread'[s].force
      BY <1>1 DEF PullsAgree
  <2>1. CASE i = j
    <3>1. Is(k, Pulling)
          BY <1>9, <2>1
    <3>2. /\ ~force /\ archive # None /\ reg \in {None, side} /\ (marked \/ reg = side)
          BY <3>1, StartAgrees
    <3>3. \A s \in Threads : s # t => thread'[s].pc # "begin"
          BY <1>1, <1>7
    <3> QED BY <1>5, <1>7, <2>1, <3>2, <3>3
  <2>2. CASE i # j
    <3>1. Is(i, Pulling)
          BY <1>9, <2>2
    <3>2. /\ archive # None /\ row[i].reg \in {None, side} /\ (marked \/ row[i].reg = side)
          BY <3>1, StartAgrees
    <3> QED BY <1>1, <1>7, <1>9, <2>2, <3>2
  <2> QED BY <2>1, <2>2
<1>12. /\ tag \in Nat /\ side \in Nat \cup {None}
       BY Constants DEF TypeInv, TypeOK
<1>13. DigestsGrow'
  <2>1. reg # None => reg <= tag /\ (side # None => side <= reg)
        BY <1>1, <1>12 DEF PullInv, DigestsGrow
  <2> QED BY <1>1, <1>5, <1>9, <2>1 DEF PullInv, DigestsGrow
<1>14. UnmarkedWorked'
      BY <1>7 DEF UnmarkedWorked
<1>15. UnknownUnnamed'
  <2> SUFFICES ASSUME NEW k \in Jobs, Is(k, Pulling)', row'[k].reg = None, archive = None \/ ~marked
               PROVE  side = None
      BY <1>1 DEF UnknownUnnamed
  <2>1. CASE k = j
    <3>1. reg = None /\ archive # None /\ ~marked
          BY <1>1, <1>5, <2>1
    <3>2. PICK s \in Threads : thread[s].pc \in {"begin", "mark"}
          BY <3>1 DEF PullInv, UnmarkedWorked
    <3>3. thread[s].job \in Jobs /\ Is(thread[s].job, Pulling)
          BY <3>2, ThreadUsed DEF WorkInv, ThreadPulls
    <3> QED BY <3>1, <3>3, StartAgrees
  <2>2. CASE k # j
        BY <1>9, <2>2 DEF PullInv, UnknownUnnamed
  <2> QED BY <2>1, <2>2
<1>16. FingerprintStays'
       BY <1>1, <1>5, <1>9 DEF PullInv, FingerprintStays
<1> QED BY <1>10, <1>11, <1>13, <1>14, <1>15, <1>16 DEF PullInv

\* What a thread's step does to the others' records.
LEMMA OtherThreads ==
    ASSUME TypeInv, WorkInv, NEW t \in Threads, thread[t].pc # "free",
           (\E r : ThreadGoes(t, r)) \/ ThreadEnds(t)
    PROVE  /\ \A s \in Threads : s # t => thread'[s] = thread[s]
           /\ \A s \in Threads : s # t /\ thread[s].pc # "free" =>
                 thread[s].job # thread[t].job /\ thread[s].job \in Jobs
                 /\ Is(thread[s].job, Pulling)
           /\ thread[t] \in Thread /\ thread[t].job \in Jobs /\ Is(thread[t].job, Pulling)
           /\ \A r : ThreadGoes(t, r) => thread'[t] = r
           /\ ThreadEnds(t) => thread'[t].pc = "free"
<1>1. \A s \in Threads : s # t => thread'[s] = thread[s]
      BY DEF ThreadGoes, ThreadEnds, TypeInv, TypeOK
<1>2. \A s \in Threads : s # t /\ thread[s].pc # "free" =>
         thread[s].job # thread[t].job /\ thread[s].job \in Jobs /\ Is(thread[s].job, Pulling)
      BY OneThread, ThreadUsed DEF WorkInv, ThreadPulls
<1>3. thread[t] \in Thread /\ thread[t].job \in Jobs /\ Is(thread[t].job, Pulling)
      BY ThreadUsed DEF WorkInv, ThreadPulls
<1>4. /\ \A r : ThreadGoes(t, r) => thread'[t] = r
      /\ ThreadEnds(t) => thread'[t].pc = "free"
      BY Constants DEF ThreadGoes, ThreadEnds, TypeInv, TypeOK
<1> QED BY <1>1, <1>2, <1>3, <1>4

\* Whoever pulls while there is no archive, or throws it away, is the only one.
LEMMA OnlyPuller ==
    ASSUME PullInv, NEW i \in Jobs, Is(i, Pulling),
           \/ archive = None
           \/ row[i].reg # None /\ side # row[i].reg
           \/ \E t \in Threads : thread[t].pc = "begin" /\ thread[t].job = i /\ thread[t].force
    PROVE  \A k \in Jobs : k # i => ~Is(k, Pulling)
BY DEF PullInv, PullsAgree

LEMMA BeginPulls ==
    ASSUME TypeInv, WorkInv, PullInv, NEW t \in Threads, BeginPull(t)
    PROVE  PullInv'
<1> DEFINE i == thread[t].job
           old == Outdated(thread[t].force, row[i].reg)
           pc == IF archive = None \/ old THEN "pull" ELSE "mark"
           r == [thread[t] EXCEPT !.reg = row[i].reg, !.pc = pc]
<1>1. /\ thread[t].pc = "begin" /\ thread[t].pc # "free" /\ UNCHANGED <<row, tag>>
      BY DEF BeginPull
<1>2. /\ thread[t] \in Thread /\ i \in Jobs /\ Is(i, Pulling) /\ Exists(i)
      BY <1>1, ThreadUsed DEF WorkInv, ThreadPulls, Is
<1>3. /\ archive' = (IF old THEN None ELSE archive) /\ side' = (IF old THEN None ELSE side)
      /\ marked' = (marked /\ ~old) /\ ThreadGoes(t, r)
      BY <1>2 DEF BeginPull
<1>4. r.job = i /\ r.pc = pc /\ r.reg = row[i].reg
      BY <1>2 DEF Thread
<1>5. /\ thread'[t] = r /\ \A s \in Threads : s # t => thread'[s] = thread[s]
      /\ \A s \in Threads : s # t /\ thread[s].pc # "free" =>
            thread[s].job # i /\ thread[s].job \in Jobs /\ Is(thread[s].job, Pulling)
      BY <1>1, <1>3, OtherThreads
<1>6. /\ thread'[t].job = i /\ thread'[t].pc = pc /\ thread'[t].reg = row[i].reg
      BY <1>4, <1>5
<1>7. pc \in {"pull", "mark"}
      OBVIOUS
<1>8. \A k \in Jobs : Is(k, Pulling)' <=> Is(k, Pulling)
      BY <1>1, <1>2 DEF Is, Exists
<1> HIDE DEF r
<1>9. CASE old
  <2>1. \A k \in Jobs : k # i => ~Is(k, Pulling)
        BY <1>1, <1>2, <1>9, OnlyPuller DEF Outdated
  <2>2. archive' = None /\ side' = None /\ marked' = FALSE /\ pc = "pull"
        BY <1>3, <1>9
  <2> HIDE DEF pc, old
  <2>3. \A s \in Threads : s # t => thread'[s].pc = "free"
        BY <1>5, <2>1
  <2>4. ThreadSees'
        BY <1>1, <1>6, <2>2, <2>3 DEF ThreadSees
  <2>5. PullsAgree'
        BY <1>8, <2>1 DEF PullsAgree
  <2>6. DigestsGrow'
        BY <1>1, <1>8, <2>2 DEF PullInv, DigestsGrow
  <2>7. UnmarkedWorked' /\ UnknownUnnamed'
        BY <2>2 DEF UnmarkedWorked, UnknownUnnamed
  <2>8. row[i].digest = None
    <3>1. CASE thread[t].force
          BY <1>1, <3>1 DEF PullInv, ThreadSees
    <3>2. CASE ~thread[t].force
      <4>1. row[i].reg # None /\ side # row[i].reg
            BY <1>9, <3>2 DEF Outdated, old
      <4> QED BY <1>2, <4>1 DEF PullInv, FingerprintStays
    <3> QED BY <3>1, <3>2
  <2>9. FingerprintStays'
        BY <1>1, <1>8, <2>1, <2>8 DEF FingerprintStays
  <2> QED BY <2>4, <2>5, <2>6, <2>7, <2>9 DEF PullInv
<1>10. CASE ~old
  <2>1. UNCHANGED <<archive, side>> /\ marked' = marked
        BY <1>3, <1>10 DEF PullInv, TypeInv, TypeOK
  <2>2. /\ pc = "pull" => archive = None
        /\ pc = "mark" => archive # None /\ row[i].reg \in {None, side}
        /\ archive # None => pc = "mark"
        BY <1>10 DEF Outdated
  <2> HIDE DEF pc, old
  <2>3. ThreadSees'
    <3> SUFFICES ASSUME NEW s \in Threads
                 PROVE  /\ thread'[s].pc \in {"pull", "pack", "mark"} =>
                               thread'[s].reg = row[thread'[s].job].reg
                        /\ thread'[s].pc \in {"pull", "pack"} => archive = None
                        /\ thread'[s].pc = "mark" => archive # None
                        /\ thread'[s].pc = "mark" /\ marked =>
                               row[thread'[s].job].reg \in {None, side}
                        /\ thread'[s].pc = "begin" /\ thread'[s].force =>
                               row[thread'[s].job].digest = None
        BY <1>1, <2>1 DEF ThreadSees
    <3>1. CASE s = t
          BY <1>6, <1>7, <2>2, <3>1
    <3>2. CASE s # t
          BY <1>5, <3>2 DEF PullInv, ThreadSees
    <3> QED BY <3>1, <3>2
  <2>4. \A s \in Threads : thread'[s].pc = "begin" => thread'[s] = thread[s]
        BY <1>5, <1>6, <1>7
  <2>5. PullsAgree'
        BY <1>1, <1>8, <2>1, <2>4 DEF PullInv, PullsAgree
  <2>6. DigestsGrow' /\ UnknownUnnamed' /\ FingerprintStays'
        BY <1>1, <1>8, <2>1 DEF PullInv, DigestsGrow, UnknownUnnamed, FingerprintStays
  <2>7. UnmarkedWorked'
        BY <1>6, <2>1, <2>2 DEF UnmarkedWorked
  <2> QED BY <2>3, <2>5, <2>6, <2>7 DEF PullInv
<1> QED BY <1>9, <1>10

\* While the archive is missing one thread works: what Pull, Pack and PullFails share.
LEMMA AlonePulls ==
    ASSUME TypeInv, WorkInv, PullInv, NEW t \in Threads, Pull(t) \/ Pack(t) \/ PullFails(t)
    PROVE  /\ archive = None /\ thread[t].pc \in {"pull", "pack"}
           /\ thread[t] \in Thread /\ thread[t].job \in Jobs
           /\ Is(thread[t].job, Pulling) /\ Exists(thread[t].job)
           /\ row[thread[t].job].digest = None
           /\ thread[t].reg = row[thread[t].job].reg
           /\ row[thread[t].job].reg = None => side = None
           /\ \A k \in Jobs : k # thread[t].job => ~Is(k, Pulling)
           /\ \A s \in Threads : s # t => thread'[s] = thread[s] /\ thread'[s].pc = "free"
           /\ UNCHANGED <<tag, side>>
<1> DEFINE i == thread[t].job
<1>1. thread[t].pc \in {"pull", "pack"} /\ thread[t].pc # "free" /\ UNCHANGED <<tag, side>>
      BY DEF Pull, Pack, PullFails
<1>2. (\E r : ThreadGoes(t, r)) \/ ThreadEnds(t)
      BY DEF Pull, Pack, PullFails
<1>3. archive = None /\ thread[t].reg = row[i].reg
      BY <1>1 DEF PullInv, ThreadSees
<1>4. /\ thread[t] \in Thread /\ i \in Jobs /\ Is(i, Pulling)
      /\ \A s \in Threads : s # t => thread'[s] = thread[s]
      /\ \A s \in Threads : s # t /\ thread[s].pc # "free" =>
            thread[s].job # i /\ thread[s].job \in Jobs /\ Is(thread[s].job, Pulling)
      BY <1>1, <1>2, OtherThreads
<1>5. \A k \in Jobs : k # i => ~Is(k, Pulling)
      BY <1>3, <1>4, OnlyPuller
<1>6. row[i].digest = None /\ (row[i].reg = None => side = None)
      BY <1>3, <1>4 DEF PullInv, FingerprintStays, UnknownUnnamed
<1> QED BY <1>1, <1>3, <1>4, <1>5, <1>6 DEF Is

LEMMA PullPulls ==
    ASSUME TypeInv, WorkInv, PullInv, NEW t \in Threads, Pull(t)
    PROVE  PullInv'
<1> DEFINE i == thread[t].job
           r == [thread[t] EXCEPT !.pc = "pack", !.build = tag]
<1>1. /\ archive = None /\ thread[t] \in Thread /\ i \in Jobs /\ Is(i, Pulling) /\ Exists(i)
      /\ row[i].digest = None /\ thread[t].reg = row[i].reg /\ (row[i].reg = None => side = None)
      /\ \A k \in Jobs : k # i => ~Is(k, Pulling)
      /\ \A s \in Threads : s # t => thread'[s] = thread[s] /\ thread'[s].pc = "free"
      /\ thread[t].pc # "free"
      BY AlonePulls
<1>2. /\ UNCHANGED <<tag, archive, side, marked>> /\ ThreadGoes(t, r)
      /\ row' = IF Is(i, {"pulling"}) THEN [row EXCEPT ![i].status = "packing"] ELSE row
      BY <1>1 DEF Pull
<1>3. r.pc = "pack" /\ r.job = i /\ r.reg = thread[t].reg
      BY <1>1 DEF Thread
<1> HIDE DEF r
<1>4. thread'[t].pc = "pack" /\ thread'[t].job = i /\ thread'[t].reg = thread[t].reg
      BY <1>1, <1>2, <1>3, OtherThreads
<1>5. /\ \A k \in Jobs : k # i => row'[k] = row[k]
      /\ row'[i].reg = row[i].reg /\ row'[i].digest = row[i].digest
  <2>1. CASE Is(i, {"pulling"})
    <3>1. Sets(i, "packing") /\ "packing" \in Statuses
          BY <1>2, <2>1 DEF Sets, Statuses, Active, Pulling
    <3>2. row'[i] = [row[i] EXCEPT !.status = "packing"] /\ \A k \in Jobs : k # i => row'[k] = row[k]
          BY <1>1, <3>1, Written
    <3> QED BY <1>1, <3>2, RowExists DEF Row
  <2>2. CASE ~Is(i, {"pulling"})
        BY <1>2, <2>2
  <2> QED BY <2>1, <2>2
<1>6. \A k \in Jobs : k # i => ~Is(k, Pulling)'
      BY <1>1, <1>5 DEF Is, Exists
<1>7. ThreadSees'
      BY <1>1, <1>2, <1>4, <1>5 DEF ThreadSees
<1>8. PullsAgree' /\ UnmarkedWorked'
      BY <1>1, <1>2, <1>6 DEF PullsAgree, UnmarkedWorked
<1>9. DigestsGrow'
      BY <1>1, <1>2, <1>5, <1>6 DEF PullInv, DigestsGrow
<1>10. UnknownUnnamed' /\ FingerprintStays'
      BY <1>1, <1>2, <1>5, <1>6 DEF UnknownUnnamed, FingerprintStays
<1> QED BY <1>7, <1>8, <1>9, <1>10 DEF PullInv

LEMMA PackPulls ==
    ASSUME TypeInv, WorkInv, PullInv, NEW t \in Threads, Pack(t)
    PROVE  PullInv'
<1> DEFINE i == thread[t].job
           r == [thread[t] EXCEPT !.pc = "mark"]
<1>1. /\ archive = None /\ thread[t] \in Thread /\ i \in Jobs /\ Is(i, Pulling)
      /\ row[i].digest = None /\ thread[t].reg = row[i].reg /\ (row[i].reg = None => side = None)
      /\ \A k \in Jobs : k # i => ~Is(k, Pulling)
      /\ \A s \in Threads : s # t => thread'[s] = thread[s] /\ thread'[s].pc = "free"
      /\ thread[t].pc # "free"
      BY AlonePulls
<1>2. /\ UNCHANGED <<row, tag, side>> /\ marked' = FALSE /\ ThreadGoes(t, r)
      /\ archive' = IF part = {t} THEN thread[t].build ELSE Bad
      BY DEF Pack
<1>3. archive' # None
  <2>1. thread[t].build \in Builds
        BY DEF Pack, TypeInv, ThreadsWork, Works
  <2> QED BY <1>2, <2>1, Constants, ConstantsAssumption
<1>4. r.pc = "mark" /\ r.job = i /\ r.reg = thread[t].reg
      BY <1>1 DEF Thread
<1> HIDE DEF r
<1>5. thread'[t].pc = "mark" /\ thread'[t].job = i /\ thread'[t].reg = thread[t].reg
      BY <1>1, <1>2, <1>4, OtherThreads
<1>6. \A k \in Jobs : Is(k, Pulling)' <=> Is(k, Pulling)
      BY <1>2 DEF Is, Exists
<1>7. ThreadSees'
      BY <1>1, <1>2, <1>3, <1>5 DEF ThreadSees
<1>8. PullsAgree' /\ UnmarkedWorked'
      BY <1>1, <1>5, <1>6 DEF PullsAgree, UnmarkedWorked
<1>9. DigestsGrow'
      BY <1>2, <1>6 DEF PullInv, DigestsGrow
<1>10. UnknownUnnamed' /\ FingerprintStays'
      BY <1>1, <1>2, <1>6 DEF UnknownUnnamed, FingerprintStays
<1> QED BY <1>7, <1>8, <1>9, <1>10 DEF PullInv

LEMMA FailPulls ==
    ASSUME TypeInv, WorkInv, PullInv, NEW t \in Threads, PullFails(t)
    PROVE  PullInv'
<1> DEFINE i == thread[t].job
<1>1. /\ archive = None /\ i \in Jobs /\ Is(i, Pulling) /\ Exists(i)
      /\ \A k \in Jobs : k # i => ~Is(k, Pulling)
      /\ \A s \in Threads : s # t => thread'[s] = thread[s] /\ thread'[s].pc = "free"
      /\ thread[t].pc # "free"
      BY AlonePulls
<1>2. /\ UNCHANGED <<tag, archive, side, marked>> /\ ThreadEnds(t)
      /\ Sets(i, "failed") /\ "failed" \in Statuses
      BY <1>1 DEF PullFails, FailsWith, Is, Sets, Statuses
<1>3. \A k \in Jobs : ~Is(k, Pulling)'
  <2>1. row'[i].status = "failed" /\ \A k \in Jobs : k # i => row'[k] = row[k]
        BY <1>1, <1>2, Written
  <2> QED BY <1>1, <2>1 DEF Is, Exists, Pulling
<1>4. \A s \in Threads : thread'[s].pc = "free"
      BY <1>1, <1>2, OtherThreads
<1>5. ThreadSees' /\ UnmarkedWorked'
      BY <1>1, <1>2, <1>4 DEF ThreadSees, UnmarkedWorked
<1>6. PullsAgree' /\ UnknownUnnamed' /\ FingerprintStays'
      BY <1>3 DEF PullsAgree, UnknownUnnamed, FingerprintStays
<1>7. DigestsGrow'
      BY <1>2, <1>3 DEF PullInv, DigestsGrow
<1> QED BY <1>5, <1>6, <1>7 DEF PullInv

LEMMA MarkPulls ==
    ASSUME TypeInv, WorkInv, PullInv, NEW t \in Threads, Mark(t)
    PROVE  PullInv'
<1> DEFINE i == thread[t].job
<1>1. /\ thread[t].pc = "mark" /\ thread[t].pc # "free" /\ UNCHANGED <<tag, archive>>
      /\ ThreadEnds(t)
      BY DEF Mark
<1>2. /\ i \in Jobs /\ Is(i, Pulling) /\ Exists(i) /\ thread'[t].pc = "free"
      /\ \A s \in Threads : s # t => thread'[s] = thread[s]
      /\ \A s \in Threads : s # t /\ thread[s].pc # "free" =>
            thread[s].job # i /\ thread[s].job \in Jobs /\ Is(thread[s].job, Pulling)
      BY <1>1, OtherThreads DEF Is
<1>3. /\ archive # None /\ thread[t].reg = row[i].reg
      /\ marked => row[i].reg \in {None, side}
      BY <1>1 DEF PullInv, ThreadSees
<1>4. /\ side' = (IF marked THEN side ELSE row[i].reg) /\ marked' = TRUE
      BY <1>3 DEF Mark, TypeInv, TypeOK
<1>5. /\ row'[i].reg = row[i].reg /\ row'[i].digest = archive /\ row'[i].status = row[i].status
      /\ row'[i] \notin {None, Gone}
      /\ \A k \in Jobs : k # i => row'[k] = row[k]
      BY <1>2, <1>3, MarkedRow DEF Exists
<1>6. \A k \in Jobs : Is(k, Pulling)' <=> Is(k, Pulling)
      BY <1>2, <1>5 DEF Is, Exists
<1>7. ASSUME NEW k \in Jobs, k # i, Is(k, Pulling)
      PROVE  side' = side /\ row[k].reg \in {None, side} /\ row[i].reg \in {None, side}
      BY <1>2, <1>4, <1>7 DEF PullInv, PullsAgree
<1>8. ThreadSees'
  <2> SUFFICES ASSUME NEW s \in Threads
               PROVE  /\ thread'[s].pc \in {"pull", "pack", "mark"} =>
                             thread'[s].reg = row'[thread'[s].job].reg
                      /\ thread'[s].pc \in {"pull", "pack"} => archive = None
                      /\ thread'[s].pc = "mark" => row'[thread'[s].job].reg \in {None, side'}
                      /\ thread'[s].pc = "begin" /\ thread'[s].force =>
                             row'[thread'[s].job].digest = None
      BY <1>1, <1>3 DEF ThreadSees
  <2>1. CASE s = t
        BY <1>2, <2>1
  <2>2. CASE s # t
        BY <1>2, <1>5, <1>7, <2>2 DEF PullInv, ThreadSees
  <2> QED BY <2>1, <2>2
<1>9. PullsAgree'
  <2> SUFFICES ASSUME NEW j \in Jobs, NEW k \in Jobs, j # k, Is(j, Pulling), Is(k, Pulling)
               PROVE  /\ row[j].reg \in {None, side'}
                      /\ \A s \in Threads :
                           thread'[s].pc = "begin" /\ thread'[s].job = j => ~thread'[s].force
      BY <1>1, <1>3, <1>4, <1>5, <1>6 DEF PullsAgree
  <2>1. side' = side
        BY <1>7
  <2> QED BY <1>2, <2>1 DEF PullInv, PullsAgree
<1>10. tag \in Nat /\ side \in Nat \cup {None} /\ row[i].reg \in Nat \cup {None}
       BY <1>2, RowExists, Constants DEF TypeInv, TypeOK, Row
<1>11. DigestsGrow'
  <2>1. side' # None => side' <= tag
        BY <1>2, <1>4 DEF PullInv, DigestsGrow
  <2>2. row[i].reg # None => row[i].reg <= tag /\ (side' # None => side' <= row[i].reg)
        BY <1>2, <1>4, <1>10 DEF PullInv, DigestsGrow
  <2>3. ASSUME NEW k \in Jobs, k # i, Is(k, Pulling), row[k].reg # None
        PROVE  row[k].reg <= tag /\ (side' # None => side' <= row[k].reg)
        BY <1>7, <2>3 DEF PullInv, DigestsGrow
  <2> QED BY <1>1, <1>5, <1>6, <2>1, <2>2, <2>3 DEF DigestsGrow
<1>12. UnmarkedWorked' /\ UnknownUnnamed'
       BY <1>1, <1>3, <1>4 DEF UnmarkedWorked, UnknownUnnamed
<1>13. FingerprintStays'
  <2>1. row[i].reg \in {None, side'}
        BY <1>3, <1>4
  <2> QED BY <1>1, <1>3, <1>4, <1>5, <1>6, <1>7, <2>1 DEF FingerprintStays
<1> QED BY <1>8, <1>9, <1>11, <1>12, <1>13 DEF PullInv

LEMMA StepPulls ==
    ASSUME TypeInv, WorkInv, PullInv, NothingDisturbed, [Next]_vars
    PROVE  WorkInv' /\ PullInv'
<1>1. WorkInv'
      BY StepWorks DEF NothingDisturbed
<1>2. \A j \in Jobs : ~Pause(j) /\ ~Resume(j)
      BY DEF Pause, Resume, NothingDisturbed, NothingReturns, WorkInv, NothingPaused
<1>3. CASE \E t \in Threads : ThreadStep(t)
      BY <1>1, <1>3, BeginPulls, PullPulls, PackPulls, MarkPulls, FailPulls DEF ThreadStep
<1> QED BY <1>1, <1>2, <1>3, StartPulls, WithdrawPulls, EnvironmentPulls, CrashPulls,
           MonitorPulls DEF Next

LEMMA InitPulls == Init => PullInv
<1> SUFFICES ASSUME Init PROVE PullInv
    OBVIOUS
<1>1. /\ \A j \in Jobs : ~Is(j, Pulling)
      /\ \A t \in Threads : thread[t].pc = "free"
      /\ archive = None /\ side = None
      BY Constants DEF Init, Is, Exists
<1> QED BY <1>1 DEF PullInv, ThreadSees, PullsAgree, DigestsGrow, UnmarkedWorked,
                    UnknownUnnamed, FingerprintStays

\* Two threads never write the archive at the same time, although one is started for every
\* transfer that is admitted without pulling, and after every crash.  The restriction is
\* needed: a tag that goes back, or an archive that is deleted under a transfer, makes a
\* thread throw away what others believe to be there.
THEOREM OnePullerCorrect ==
    ASSUME NothingDisturbed
    PROVE  Spec => []OnePuller
<1>1. TypeInv /\ WorkInv /\ PullInv /\ [Next]_vars => WorkInv' /\ PullInv'
      BY StepPulls
<1>2. ASSUME TypeInv, WorkInv, PullInv
      PROVE  OnePuller
  <2> SUFFICES ASSUME NEW s \in Threads, NEW t \in Threads, thread[s].pc = "pack",
                      thread[t].pc = "pack", s # t
               PROVE  FALSE
      BY DEF OnePuller
  <2>1. thread[s].job # thread[t].job
        BY <1>2, OneThread
  <2>2. /\ thread[s].job \in Jobs /\ Is(thread[s].job, Pulling)
        /\ thread[t].job \in Jobs /\ Is(thread[t].job, Pulling)
        BY <1>2, ThreadUsed DEF WorkInv, ThreadPulls
  <2>3. archive = None
        BY <1>2 DEF PullInv, ThreadSees
  <2> QED BY <1>2, <2>1, <2>2, <2>3 DEF PullInv, PullsAgree
<1> QED BY InitTyped, StepKeepsTypes, InitWorks, InitPulls, <1>1, <1>2, PTL DEF Spec

----------------------------------------------------------------------------
(* What a completed transfer has delivered: the inductive invariant.       *)

\* A transfer under way whose archive has its fingerprint.
Named(j) == Is(j, Active) /\ row[j].digest # None

\* A transfer past its pull has a fingerprint, and a size that agrees with it.
RowsSound ==
    \A j \in Jobs : Exists(j) =>
        /\ row[j].size = row[j].digest /\ (row[j].head = None => row[j].workers = {})
        /\ Is(j, Active \ Pulling) => row[j].digest # None

\* The archive stays the one that a transfer under way has in its row, and is no older than
\* what the registry had for it.
ArchiveKept ==
    \A j \in Jobs : Named(j) =>
        archive = row[j].digest /\ marked /\ row[j].reg \in {None, side}

\* No pull beside such a transfer will throw its archive away.
NoneReplaces ==
    \A j, k \in Jobs : j # k /\ Named(j) /\ Is(k, Pulling) =>
        /\ row[k].reg \in {None, side}
        /\ \A t \in Threads : thread[t].pc = "begin" /\ thread[t].job = k => ~thread[t].force

\* The archive is of one build, and no older than its sidecar's digest.
ArchiveSound ==
    archive # Bad /\ (archive # None => archive <= tag /\ (side # None => side <= archive))

\* So will be the archive that is packed; whoever writes it knows it.
PacksGrow ==
    /\ \A t \in part : thread[t].pc = "pack"
    /\ \A t \in Threads : thread[t].pc = "pack" =>
          /\ thread[t].build <= tag /\ (side # None => side <= thread[t].build)
          /\ thread[t].reg # None => thread[t].reg <= thread[t].build
    /\ \A t \in Threads : thread[t].pc = "mark" /\ thread[t].reg # None =>
          thread[t].reg <= archive

\* Builds are loaded in their order: what is under the tag is the last one loaded, and what
\* comes is no older.
LoadsGrow ==
    \A n \in Nodes :
        /\ docker[n] # None => docker[n] \in loaded[n] /\ \A b \in loaded[n] : b <= docker[n]
        /\ \A b \in loaded[n] :
             /\ b <= tag /\ (archive # None => b <= archive)
             /\ \A t \in Threads : thread[t].pc = "pack" => b <= thread[t].build

\* A coroutine that loads has loaded the archive of its row on the nodes it is done with.
Loads(r) ==
    /\ Is(r.job, {"loading"}) /\ r.d = row[r.job].digest
    /\ ~r.bad => \A n \in Targets(r.job) \ r.todo : docker[n] = r.d
Sound(r) ==
    /\ Exists(r.job) => r.head = row[r.job].head
    /\ r.pc = "check" => row[r.job].digest # None
    /\ r.pc = "load" => Loads(r)
CoroutinesSound == \A m \in Monitors : mon[m].pc # "free" => Sound(mon[m])

DeliverInv ==
    /\ RowsSound /\ ArchiveKept /\ NoneReplaces /\ ArchiveSound /\ PacksGrow /\ LoadsGrow
    /\ CoroutinesSound

----------------------------------------------------------------------------
(* What a completed transfer has delivered: requests and the environment.  *)

LEMMA InitDelivers == Init => DeliverInv
<1> SUFFICES ASSUME Init PROVE DeliverInv
    OBVIOUS
<1>1. /\ \A j \in Jobs : ~Exists(j)
      /\ \A t \in Threads : thread[t].pc = "free"
      /\ \A m \in Monitors : mon[m].pc = "free"
      /\ archive = None /\ part = {}
      /\ \A n \in Nodes : docker[n] = None /\ loaded[n] = {}
      BY Constants DEF Init, Exists
<1>2. archive # Bad
      BY <1>1, ConstantsAssumption
<1> QED BY <1>1, <1>2 DEF DeliverInv, RowsSound, ArchiveKept, NoneReplaces, ArchiveSound,
                          PacksGrow, LoadsGrow, CoroutinesSound, Named, Is

\* The numbers that are compared.
LEMMA Numbers ==
    ASSUME TypeInv, DeliverInv
    PROVE  /\ tag \in Nat /\ side \in Nat \cup {None} /\ archive \in Builds \cup {None}
           /\ archive \in Nat \cup {None}
           /\ \A n \in Nodes : /\ loaded[n] \subseteq Nat /\ loaded[n] \subseteq Builds
                               /\ docker[n] \in Nat \cup {None}
           /\ \A t \in Threads : /\ thread[t].build \in Nat \cup {None}
                                 /\ thread[t].reg \in Nat \cup {None}
                                 /\ thread[t].pc = "pack" => thread[t].build \in Builds
BY Constants DEF TypeInv, TypeOK, DeliverInv, ArchiveSound, Contents, Thread, ThreadsWork, Works

\* A transfer that pulls does so beside none whose archive it would throw away.
LEMMA StartKeeps ==
    ASSUME TypeInv, NothingReturns, NEW j \in Jobs, NEW head \in Nodes \cup {None},
           NEW workers \in SUBSET Nodes, NEW force \in BOOLEAN,
           NEW reg \in Builds \cup {None}, Start(j, head, workers, force, reg),
           NEW k \in Jobs, Named(k)
    PROVE  k # j /\ ~force /\ reg \in {None, side}
<1>1. row[j] = None
      BY DEF Start, NothingReturns
<1>2. k # j
      BY <1>1 DEF Named, Is, Exists
<1>3. Is(k, Active \cup {"paused"}) /\ k \in Jobs \ {j}
      BY <1>2 DEF Named, Is
<1>4. ~(force \/ archive = None \/ (reg # None /\ side # reg))
      BY <1>3 DEF Start, Admitted
<1> QED BY <1>2, <1>4

LEMMA StartDelivers ==
    ASSUME TypeInv, WorkInv, DeliverInv, NothingReturns, NEW j \in Jobs,
           NEW head \in Nodes \cup {None}, NEW workers \in SUBSET Nodes, NEW force \in BOOLEAN,
           NEW reg \in Builds \cup {None}, Start(j, head, workers, force, reg)
    PROVE  DeliverInv'
<1> DEFINE w == [status |-> "pulling", reg |-> reg, digest |-> None,
                 size |-> None, head |-> head, workers |-> workers]
<1>1. /\ row[j] = None /\ row' = [row EXCEPT ![j] = w] /\ (head = None => workers = {})
      /\ UNCHANGED <<tag, archive, side, marked, part, tars, docker, loaded>>
      BY DEF Start, NothingReturns
<1>2. PICK t \in Threads : StartThread(t, j, force)
      BY DEF Start
<1>3. PICK m \in Monitors : StartMonitor(m, j, head)
      BY DEF Start
<1>4. /\ thread[t].pc = "free" /\ thread'[t].pc = "begin" /\ thread'[t].job = j
      /\ thread'[t].force = force
      /\ \A s \in Threads : s # t => thread'[s] = thread[s]
  <2> DEFINE r == [IdleThread EXCEPT !.job = j, !.pc = "begin", !.force = force]
  <2>1. r.pc = "begin" /\ r.job = j /\ r.force = force
        BY DEF IdleThread
  <2>2. thread[t].pc = "free" /\ thread' = [thread EXCEPT ![t] = r]
        BY <1>2, Constants DEF StartThread
  <2> HIDE DEF r
  <2> QED BY <2>1, <2>2 DEF TypeInv, TypeOK
<1>5. /\ mon'[m].pc = "wait" /\ mon'[m].job = j /\ mon'[m].head = head
      /\ \A k \in Monitors : k # m => mon'[k] = mon[k]
      BY <1>3 DEF StartMonitor, TypeInv, TypeOK, IdleMonitor
<1>6. w.status = "pulling" /\ w.reg = reg /\ w.digest = None /\ w.size = None
      /\ w.head = head /\ w.workers = workers /\ w \in Row
      BY DEF Row, Statuses, Active, Pulling
<1> HIDE DEF w
<1>7. row'[j] = w /\ (\A k \in Jobs : k # j => row'[k] = row[k]) /\ row'[j] \notin {None, Gone}
      BY <1>1, <1>6, Constants DEF TypeInv, TypeOK
<1>8. ~Named(j)' /\ \A k \in Jobs : Named(k)' => k # j /\ Named(k)
      BY <1>6, <1>7 DEF Named, Is, Exists
<1>9. RowsSound'
      BY <1>1, <1>6, <1>7 DEF DeliverInv, RowsSound, Is, Exists, Pulling
<1>10. ArchiveKept'
      BY <1>1, <1>7, <1>8 DEF DeliverInv, ArchiveKept
<1>11. NoneReplaces'
  <2> SUFFICES ASSUME NEW a \in Jobs, NEW b \in Jobs, a # b, Named(a), a # j, Is(b, Pulling)'
               PROVE  /\ row'[b].reg \in {None, side}
                      /\ \A s \in Threads :
                           thread'[s].pc = "begin" /\ thread'[s].job = b => ~thread'[s].force
      BY <1>1, <1>8 DEF NoneReplaces
  <2>1. ~force /\ reg \in {None, side}
        BY StartKeeps
  <2>2. CASE b = j
    <3>1. \A s \in Threads : s # t /\ thread[s].pc = "begin" => thread[s].job # j
          BY <1>1 DEF WorkInv, ThreadPulls, Is, Exists
    <3> QED BY <1>4, <1>6, <1>7, <2>1, <2>2, <3>1
  <2>3. CASE b # j
    <3>1. Is(b, Pulling) /\ row'[b] = row[b]
          BY <1>7, <2>3 DEF Is, Exists
    <3> QED BY <1>4, <2>3, <3>1 DEF DeliverInv, NoneReplaces
  <2> QED BY <2>2, <2>3
<1>12. ArchiveSound' /\ PacksGrow' /\ LoadsGrow'
  <2>1. \A s \in Threads : thread'[s].pc \in {"pack", "mark"} => thread'[s] = thread[s]
        BY <1>4
  <2>2. \A s \in part : thread'[s] = thread[s]
        BY <1>4 DEF TypeInv, TypeOK, DeliverInv, PacksGrow
  <2> QED BY <1>1, <2>1, <2>2 DEF DeliverInv, ArchiveSound, PacksGrow, LoadsGrow
<1>13. CoroutinesSound'
  <2> SUFFICES ASSUME NEW k \in Monitors, mon'[k].pc # "free"
               PROVE  Sound(mon[k])'
      BY DEF CoroutinesSound
  <2>1. CASE k = m
        BY <1>5, <1>6, <1>7, <2>1 DEF Sound
  <2>2. CASE k # m
    <3>1. mon'[k] = mon[k] /\ mon[k].job \in Jobs /\ mon[k].job # j
          BY <1>1, <1>5, <2>2, MonitorUsed DEF TypeInv, MonitorsDrive
    <3>2. row'[mon[k].job] = row[mon[k].job] /\ Sound(mon[k])
          BY <1>7, <3>1 DEF DeliverInv, CoroutinesSound
    <3> QED BY <1>1, <3>1, <3>2 DEF Sound, Loads, Is, Exists, Targets
  <2> QED BY <2>1, <2>2
<1> QED BY <1>9, <1>10, <1>11, <1>12, <1>13 DEF DeliverInv

LEMMA WithdrawDelivers ==
    ASSUME TypeInv, WorkInv, DeliverInv, NothingReturns, NEW j \in Jobs, Cancel(j) \/ Delete(j)
    PROVE  DeliverInv'
<1>1. /\ UNCHANGED <<tag, archive, side, marked, part, thread, mon, tars, docker, loaded>>
      /\ Exists(j) /\ ~At(j, {"check", "load"})
      BY DEF Cancel, Delete, NothingReturns, Is
<1>2. /\ \A k \in Jobs : k # j => row'[k] = row[k]
      /\ \/ row'[j] = Gone
         \/ /\ row'[j].status = "cancelled" /\ row'[j].digest = row[j].digest
            /\ row'[j].size = row[j].size
            /\ row'[j].head = row[j].head /\ row'[j].workers = row[j].workers
  <2>1. CASE Cancel(j)
    <3>1. Sets(j, "cancelled") /\ "cancelled" \in Statuses
          BY <2>1 DEF Cancel, Sets, Statuses
    <3>2. /\ row'[j].status = "cancelled" /\ row'[j] = [row[j] EXCEPT !.status = "cancelled"]
          /\ \A k \in Jobs : k # j => row'[k] = row[k]
          BY <1>1, <3>1, Written
    <3>3. row[j] \in Row
          BY <1>1, RowExists
    <3> QED BY <3>2, <3>3 DEF Row
  <2>2. CASE Delete(j)
        BY <2>2 DEF Delete, TypeInv, TypeOK
  <2> QED BY <2>1, <2>2
<1>3. \A k \in Jobs : Is(k, Active)' => k # j
      BY <1>2 DEF Is, Exists, Active, Pulling
<1>4. RowsSound'
      BY <1>1, <1>2, <1>3 DEF DeliverInv, RowsSound, Is, Exists
<1>5. ArchiveKept'
      BY <1>1, <1>2, <1>3 DEF DeliverInv, ArchiveKept, Named, Is, Exists
<1>6. NoneReplaces'
  <2>1. \A k \in Jobs : Is(k, Pulling)' => k # j
        BY <1>3 DEF Is, Active
  <2> QED BY <1>1, <1>2, <1>3, <2>1 DEF DeliverInv, NoneReplaces, Named, Is, Exists
<1>7. ArchiveSound' /\ PacksGrow' /\ LoadsGrow'
      BY <1>1 DEF DeliverInv, ArchiveSound, PacksGrow, LoadsGrow
<1>8. CoroutinesSound'
  <2> SUFFICES ASSUME NEW k \in Monitors, mon[k].pc # "free"
               PROVE  Sound(mon[k])'
      BY <1>1 DEF CoroutinesSound
  <2>1. Sound(mon[k]) /\ mon[k].job \in Jobs
        BY MonitorUsed DEF DeliverInv, CoroutinesSound
  <2>2. CASE mon[k].job = j
    <3>1. mon[k].pc \notin {"check", "load"}
          BY <1>1, <2>2 DEF At
    <3> QED BY <1>1, <1>2, <2>1, <2>2, <3>1 DEF Sound, Exists
  <2>3. CASE mon[k].job # j
    <3>1. row'[mon[k].job] = row[mon[k].job]
          BY <1>2, <2>1, <2>3
    <3> QED BY <1>1, <2>1, <3>1 DEF Sound, Loads, Is, Exists, Targets
  <2> QED BY <2>2, <2>3
<1> QED BY <1>4, <1>5, <1>6, <1>7, <1>8 DEF DeliverInv

\* Nobody is under way when the archive is deleted, or where an image is removed.
LEMMA EnvironmentDelivers ==
    ASSUME TypeInv, WorkInv, DeliverInv, NothingDisturbed,
           DeleteLocal \/ TagMoves \/ (\E n \in Nodes : Prune(n)) \/ UNCHANGED vars
    PROVE  DeliverInv'
<1>1. CASE UNCHANGED vars
      BY <1>1 DEF vars, DeliverInv, RowsSound, ArchiveKept, NoneReplaces, ArchiveSound, PacksGrow,
                  LoadsGrow, CoroutinesSound, Sound, Loads, Targets, Named, Is, Exists
<1>2. CASE DeleteLocal
  <2>1. /\ archive' = None /\ UNCHANGED <<row, tag, side, part, thread, mon, docker, loaded>>
        /\ \A j \in Jobs : ~Is(j, Active)
        BY <1>2 DEF DeleteLocal, NothingDisturbed, Is
  <2>2. \A t \in Threads : thread[t].pc = "free"
        BY <2>1, ThreadUsed DEF WorkInv, ThreadPulls, Is, Active
  <2>3. \A j \in Jobs : ~Named(j)'
        BY <2>1 DEF Named, Is, Exists
  <2>4. RowsSound' /\ CoroutinesSound'
        BY <2>1 DEF DeliverInv, RowsSound, CoroutinesSound, Sound, Loads, Targets, Is, Exists
  <2>5. ArchiveKept' /\ NoneReplaces'
        BY <2>3 DEF ArchiveKept, NoneReplaces
  <2>6. ArchiveSound' /\ LoadsGrow'
        BY <2>1, ConstantsAssumption DEF DeliverInv, ArchiveSound, LoadsGrow
  <2>7. PacksGrow'
        BY <2>1, <2>2 DEF DeliverInv, PacksGrow
  <2> QED BY <2>4, <2>5, <2>6, <2>7 DEF DeliverInv
<1>3. CASE TagMoves
  <2>1. /\ UNCHANGED <<row, archive, side, marked, part, thread, mon, docker, loaded>>
        BY <1>3 DEF TagMoves
  <2>2. tag \in Nat /\ tag' = tag + 1
        BY <1>3, Constants DEF TagMoves, NothingDisturbed, TypeInv, TypeOK
  <2>3. /\ RowsSound' /\ CoroutinesSound' /\ ArchiveKept' /\ NoneReplaces'
        BY <2>1 DEF DeliverInv, RowsSound, ArchiveKept, NoneReplaces, CoroutinesSound, Sound,
                    Loads, Targets, Named, Is, Exists
  <2>4. \A b \in Nat : b <= tag => b <= tag'
        BY <2>2
  <2>5. ArchiveSound'
        BY <2>1, <2>4, Numbers DEF DeliverInv, ArchiveSound
  <2>6. PacksGrow'
        BY <2>1, <2>4, Numbers, Constants DEF DeliverInv, PacksGrow
  <2>7. LoadsGrow'
        BY <2>1, <2>4, Numbers DEF DeliverInv, LoadsGrow
  <2> QED BY <2>3, <2>5, <2>6, <2>7 DEF DeliverInv
<1>4. ASSUME NEW n \in Nodes, Prune(n) PROVE DeliverInv'
  <2>1. /\ UNCHANGED <<row, tag, archive, side, marked, part, thread, mon, loaded>>
        /\ docker'[n] = None /\ \A k \in Nodes : k # n => docker'[k] = docker[k]
        /\ \A j \in Jobs : Is(j, {"loading"}) => n \notin Targets(j)
        BY <1>4 DEF Prune, NothingDisturbed, Is, Active, TypeInv, TypeOK
  <2>2. RowsSound' /\ ArchiveKept' /\ NoneReplaces' /\ ArchiveSound' /\ PacksGrow'
        BY <2>1 DEF DeliverInv, RowsSound, ArchiveKept, NoneReplaces, ArchiveSound, PacksGrow,
                    Named, Is, Exists
  <2>3. LoadsGrow'
        BY <2>1 DEF DeliverInv, LoadsGrow
  <2>4. CoroutinesSound'
    <3> SUFFICES ASSUME NEW m \in Monitors, mon[m].pc # "free"
                 PROVE  Sound(mon[m])'
        BY <2>1 DEF CoroutinesSound
    <3>1. Sound(mon[m]) /\ mon[m].job \in Jobs
          BY MonitorUsed DEF DeliverInv, CoroutinesSound
    <3>2. Loads(mon[m]) => Loads(mon[m])'
      <4>1. ASSUME Loads(mon[m]) PROVE Targets(mon[m].job) \subseteq Nodes \ {n}
        <5>1. row[mon[m].job] \in Row
              BY <3>1, <4>1, RowExists DEF Loads, Is
        <5> QED BY <2>1, <3>1, <4>1, <5>1 DEF Loads, Targets, Row
      <4> QED BY <2>1, <4>1 DEF Loads, Is, Exists, Targets
    <3> QED BY <2>1, <3>1, <3>2 DEF Sound, Exists
  <2> QED BY <2>2, <2>3, <2>4 DEF DeliverInv
<1> QED BY <1>1, <1>2, <1>3, <1>4

\* The coroutines and threads of a crash begin again, without force.
LEMMA CrashDelivers ==
    ASSUME TypeInv, DeliverInv, Crash
    PROVE  DeliverInv'
<1>1. PICK f, g : Recovered(f, g)
      BY CrashRecovers
<1>2. UNCHANGED <<row, tag, archive, side, marked, docker, loaded>> /\ part' = {}
      BY DEF Crash
<1>3. ASSUME NEW m \in Monitors, mon'[m].pc # "free"
      PROVE  mon'[m].pc = "wait" /\ mon'[m].head = row[mon'[m].job].head
  <2>1. PICK j \in Interrupted : f[j] = m
        BY <1>1, <1>3, Constants DEF Recovered
  <2>2. mon'[m] = [IdleMonitor EXCEPT !.job = j, !.pc = "wait", !.head = row[j].head]
        BY <1>1, <2>1 DEF Recovered
  <2> QED BY <2>2 DEF IdleMonitor
<1>4. ASSUME NEW t \in Threads, thread'[t].pc # "free"
      PROVE  thread'[t].pc = "begin" /\ ~thread'[t].force
  <2>1. PICK j \in Jobs : Is(j, Pulling) /\ g[j] = t
        BY <1>1, <1>4, Constants DEF Recovered
  <2>2. thread'[t] = [IdleThread EXCEPT !.job = j, !.pc = "begin"]
        BY <1>1, <2>1 DEF Recovered
  <2> QED BY <2>2 DEF IdleThread
<1>5. RowsSound' /\ ArchiveKept' /\ ArchiveSound'
      BY <1>2 DEF DeliverInv, RowsSound, ArchiveKept, ArchiveSound, Named, Is, Exists
<1>6. NoneReplaces'
      BY <1>2, <1>4 DEF DeliverInv, NoneReplaces, Named, Is, Exists
<1>7. PacksGrow' /\ LoadsGrow'
      BY <1>2, <1>4 DEF DeliverInv, PacksGrow, LoadsGrow
<1>8. CoroutinesSound'
      BY <1>2, <1>3 DEF CoroutinesSound, Sound, Exists
<1> QED BY <1>5, <1>6, <1>7, <1>8 DEF DeliverInv

----------------------------------------------------------------------------
(* What a completed transfer has delivered: threads.                       *)

\* While the archive is missing no transfer has its fingerprint.
LEMMA NoneNamed ==
    ASSUME TypeInv, DeliverInv, archive = None
    PROVE  \A j \in Jobs : ~Named(j)
BY DEF DeliverInv, ArchiveKept, Named

LEMMA BeginDelivers ==
    ASSUME TypeInv, WorkInv, PullInv, DeliverInv, NEW t \in Threads, BeginPull(t)
    PROVE  DeliverInv'
<1> DEFINE i == thread[t].job
           old == Outdated(thread[t].force, row[i].reg)
           pc == IF archive = None \/ old THEN "pull" ELSE "mark"
           r == [thread[t] EXCEPT !.reg = row[i].reg, !.pc = pc]
<1>1. /\ thread[t].pc = "begin" /\ thread[t].pc # "free"
      /\ UNCHANGED <<row, tag, part, mon, docker, loaded>>
      BY DEF BeginPull
<1>2. /\ thread[t] \in Thread /\ i \in Jobs /\ Is(i, Pulling) /\ Exists(i)
      BY <1>1, ThreadUsed DEF WorkInv, ThreadPulls, Is
<1>3. /\ archive' = (IF old THEN None ELSE archive) /\ side' = (IF old THEN None ELSE side)
      /\ marked' = (marked /\ ~old) /\ ThreadGoes(t, r)
      BY <1>2 DEF BeginPull
<1>4. r.job = i /\ r.pc = pc /\ r.reg = row[i].reg
      BY <1>2 DEF Thread
<1>5. /\ thread'[t] = r /\ \A s \in Threads : s # t => thread'[s] = thread[s]
      /\ \A s \in Threads : s # t /\ thread[s].pc # "free" =>
            thread[s].job # i /\ thread[s].job \in Jobs /\ Is(thread[s].job, Pulling)
      BY <1>1, <1>3, OtherThreads
<1>6. thread'[t].pc = pc /\ thread'[t].reg = row[i].reg
      BY <1>4, <1>5
<1>7. pc \in {"pull", "mark"}
      OBVIOUS
<1>8. RowsSound' /\ CoroutinesSound'
      BY <1>1 DEF DeliverInv, RowsSound, CoroutinesSound, Sound, Loads, Targets, Is, Exists
<1>9. part \subseteq Threads /\ t \notin part
      BY <1>1 DEF TypeInv, TypeOK, DeliverInv, PacksGrow
<1> HIDE DEF r
<1>10. CASE old
  <2>1. \A k \in Jobs : k # i => ~Is(k, Pulling)
        BY <1>1, <1>2, <1>10, OnlyPuller DEF Outdated
  <2>2. archive' = None /\ side' = None /\ pc = "pull"
        BY <1>3, <1>10
  <2>3. row[i].digest = None
    <3>1. CASE thread[t].force
          BY <1>1, <3>1 DEF PullInv, ThreadSees
    <3>2. CASE ~thread[t].force
      <4>1. row[i].reg # None /\ side # row[i].reg
            BY <1>10, <3>2 DEF Outdated, old
      <4> QED BY <1>2, <4>1 DEF PullInv, FingerprintStays
    <3> QED BY <3>1, <3>2
  <2>4. \A k \in Jobs : ~Named(k)
    <3>1. ASSUME NEW k \in Jobs, Named(k), k # i PROVE FALSE
          BY <1>1, <1>2, <1>10, <3>1 DEF DeliverInv, NoneReplaces, Outdated
    <3> QED BY <2>3, <3>1 DEF Named
  <2> HIDE DEF pc, old
  <2>5. \A s \in Threads : s # t => thread'[s].pc = "free" /\ thread[s].pc = "free"
        BY <1>5, <2>1
  <2>6. ArchiveKept' /\ NoneReplaces'
        BY <1>1, <2>4 DEF ArchiveKept, NoneReplaces, Named, Is, Exists
  <2>7. ArchiveSound' /\ LoadsGrow'
        BY <1>1, <1>6, <2>2, <2>5, ConstantsAssumption DEF DeliverInv, ArchiveSound, LoadsGrow
  <2>8. PacksGrow'
        BY <1>1, <1>6, <1>9, <2>2, <2>5 DEF DeliverInv, PacksGrow
  <2> QED BY <1>8, <2>6, <2>7, <2>8 DEF DeliverInv
<1>11. CASE ~old
  <2>1. UNCHANGED <<archive, side>> /\ marked' = marked
        BY <1>3, <1>11 DEF TypeInv, TypeOK
  <2>2. pc = "mark" => archive # None /\ row[i].reg \in {None, side}
        BY <1>11 DEF Outdated
  <2> HIDE DEF pc, old
  <2>3. \A s \in Threads : thread'[s].pc = "begin" => thread'[s] = thread[s]
        BY <1>5, <1>6, <1>7
  <2>4. ArchiveKept' /\ NoneReplaces' /\ ArchiveSound'
        BY <1>1, <2>1, <2>3 DEF DeliverInv, ArchiveKept, NoneReplaces, ArchiveSound, Named, Is, Exists
  <2>5. LoadsGrow'
        BY <1>1, <1>5, <1>6, <1>7, <2>1 DEF DeliverInv, LoadsGrow
  <2>6. PacksGrow'
    <3>1. \A s \in part : thread'[s].pc = "pack"
          BY <1>5, <1>9 DEF DeliverInv, PacksGrow
    <3>2. thread'[t].pc = "mark" /\ thread'[t].reg # None => thread'[t].reg <= archive
          BY <1>6, <2>2 DEF DeliverInv, ArchiveSound
    <3> QED BY <1>1, <1>5, <1>6, <1>7, <2>1, <3>1, <3>2 DEF DeliverInv, PacksGrow
  <2> QED BY <1>8, <2>4, <2>5, <2>6 DEF DeliverInv
<1> QED BY <1>10, <1>11

\* A coroutine whose transfer is being worked for is in the polling loop, which reads only
\* the head of its row.
LEMMA PulledSound ==
    ASSUME TypeInv, WorkInv, DeliverInv, UNCHANGED <<mon, docker>>, NEW i \in Jobs,
           NEW t \in Threads, thread[t].pc # "free", thread[t].job = i,
           row'[i].head = row[i].head, Exists(i),
           \A k \in Jobs : k # i => row'[k] = row[k]
    PROVE  CoroutinesSound'
<1> SUFFICES ASSUME NEW m \in Monitors, mon[m].pc # "free"
             PROVE  Sound(mon[m])'
    BY DEF CoroutinesSound
<1>1. Sound(mon[m]) /\ mon[m].job \in Jobs
      BY MonitorUsed DEF DeliverInv, CoroutinesSound
<1>2. CASE mon[m].job = i
  <2>1. mon[m].pc = "wait"
        BY <1>2 DEF WorkInv, PullAwaited
  <2> QED BY <1>1, <1>2, <2>1 DEF Sound
<1>3. CASE mon[m].job # i
  <2>1. row'[mon[m].job] = row[mon[m].job]
        BY <1>1, <1>3
  <2> QED BY <1>1, <2>1 DEF Sound, Loads, Is, Exists, Targets
<1> QED BY <1>2, <1>3

LEMMA PullDelivers ==
    ASSUME TypeInv, WorkInv, PullInv, DeliverInv, NEW t \in Threads, Pull(t)
    PROVE  DeliverInv'
<1> DEFINE i == thread[t].job
           r == [thread[t] EXCEPT !.pc = "pack", !.build = tag]
<1>1. /\ archive = None /\ thread[t] \in Thread /\ i \in Jobs /\ Is(i, Pulling) /\ Exists(i)
      /\ thread[t].reg = row[i].reg
      /\ \A s \in Threads : s # t => thread'[s] = thread[s] /\ thread'[s].pc = "free"
      /\ thread[t].pc # "free"
      BY AlonePulls
<1>2. /\ UNCHANGED <<tag, archive, side, marked, mon, docker, loaded>> /\ ThreadGoes(t, r)
      /\ part' = part \cup {t}
      /\ row' = IF Is(i, {"pulling"}) THEN [row EXCEPT ![i].status = "packing"] ELSE row
      BY <1>1 DEF Pull
<1>3. r.pc = "pack" /\ r.reg = row[i].reg /\ r.build = tag
      BY <1>1 DEF Thread
<1> HIDE DEF r
<1>4. thread'[t].pc = "pack" /\ thread'[t].reg = row[i].reg /\ thread'[t].build = tag
      BY <1>1, <1>2, <1>3, OtherThreads
<1>5. /\ \A k \in Jobs : k # i => row'[k] = row[k]
      /\ row'[i].digest = row[i].digest /\ row'[i].size = row[i].size
      /\ row'[i].head = row[i].head /\ row'[i].workers = row[i].workers
      /\ row'[i].status \in Pulling
  <2>1. CASE Is(i, {"pulling"})
    <3>1. Sets(i, "packing") /\ "packing" \in Statuses
          BY <1>2, <2>1 DEF Sets, Statuses, Active, Pulling
    <3>2. /\ row'[i] = [row[i] EXCEPT !.status = "packing"] /\ row'[i].status = "packing"
          /\ \A k \in Jobs : k # i => row'[k] = row[k]
          BY <1>1, <3>1, Written
    <3> QED BY <1>1, <3>2, RowExists DEF Row, Pulling
  <2>2. CASE ~Is(i, {"pulling"})
        BY <1>1, <1>2, <2>2 DEF Is
  <2> QED BY <2>1, <2>2
<1>6. \A k \in Jobs : ~Named(k)'
  <2>1. \A k \in Jobs : ~Named(k)
        BY <1>1, NoneNamed
  <2> QED BY <1>1, <1>5, <2>1 DEF Named, Is, Exists, Active
<1>7. RowsSound'
      BY <1>1, <1>5 DEF DeliverInv, RowsSound, Is, Exists
<1>8. ArchiveKept' /\ NoneReplaces' /\ ArchiveSound'
      BY <1>2, <1>6 DEF DeliverInv, ArchiveKept, NoneReplaces, ArchiveSound
<1>9. PacksGrow'
  <2>1. \A s \in part' : s = t
        BY <1>1, <1>2 DEF DeliverInv, PacksGrow, TypeInv, TypeOK
  <2>2. tag \in Nat /\ tag <= tag /\ (side # None => side <= tag)
        BY Numbers DEF PullInv, DigestsGrow
  <2>3. row[i].reg # None => row[i].reg <= tag
        BY <1>1 DEF PullInv, DigestsGrow
  <2> QED BY <1>1, <1>2, <1>4, <2>1, <2>2, <2>3 DEF PacksGrow
<1>10. LoadsGrow'
       BY <1>1, <1>2, <1>4 DEF DeliverInv, LoadsGrow
<1>11. CoroutinesSound'
       BY <1>1, <1>2, <1>5, PulledSound
<1> QED BY <1>7, <1>8, <1>9, <1>10, <1>11 DEF DeliverInv

LEMMA PackDelivers ==
    ASSUME TypeInv, WorkInv, PullInv, DeliverInv, NEW t \in Threads, Pack(t)
    PROVE  DeliverInv'
<1> DEFINE r == [thread[t] EXCEPT !.pc = "mark"]
<1>1. /\ archive = None /\ thread[t] \in Thread /\ thread[t].pc = "pack" /\ t \in part
      /\ \A s \in Threads : s # t => thread'[s] = thread[s] /\ thread'[s].pc = "free"
      BY AlonePulls DEF Pack
<1>2. /\ UNCHANGED <<row, tag, side, mon, docker, loaded>> /\ ThreadGoes(t, r) /\ part' = {}
      /\ archive' = IF part = {t} THEN thread[t].build ELSE Bad
      BY DEF Pack
<1>3. r.pc = "mark" /\ r.reg = thread[t].reg
      BY <1>1 DEF Thread
<1> HIDE DEF r
<1>4. thread'[t].pc = "mark" /\ thread'[t].reg = thread[t].reg
      BY <1>1, <1>2, <1>3, OtherThreads
<1>5. part = {t}
      BY <1>1 DEF DeliverInv, PacksGrow, TypeInv, TypeOK
<1>6. archive' = thread[t].build /\ thread[t].build \in Builds /\ archive' # Bad
      BY <1>1, <1>2, <1>5, Numbers, Constants
<1>7. \A k \in Jobs : ~Named(k)'
      BY <1>1, <1>2, NoneNamed DEF Named, Is, Exists
<1>8. RowsSound' /\ CoroutinesSound'
      BY <1>2 DEF DeliverInv, RowsSound, CoroutinesSound, Sound, Loads, Targets, Is, Exists
<1>9. ArchiveKept' /\ NoneReplaces'
      BY <1>7 DEF ArchiveKept, NoneReplaces
<1>10. ArchiveSound'
       BY <1>1, <1>2, <1>6 DEF DeliverInv, PacksGrow, ArchiveSound
<1>11. PacksGrow'
       BY <1>1, <1>2, <1>4, <1>6 DEF DeliverInv, PacksGrow
<1>12. LoadsGrow'
       BY <1>1, <1>2, <1>4, <1>6 DEF DeliverInv, LoadsGrow
<1> QED BY <1>8, <1>9, <1>10, <1>11, <1>12 DEF DeliverInv

LEMMA FailDelivers ==
    ASSUME TypeInv, WorkInv, PullInv, DeliverInv, NEW t \in Threads, PullFails(t)
    PROVE  DeliverInv'
<1> DEFINE i == thread[t].job
<1>1. /\ archive = None /\ i \in Jobs /\ Is(i, Pulling) /\ Exists(i)
      /\ \A s \in Threads : s # t => thread'[s] = thread[s] /\ thread'[s].pc = "free"
      /\ thread[t].pc # "free"
      BY AlonePulls
<1>2. /\ UNCHANGED <<tag, archive, side, marked, mon, docker, loaded>> /\ ThreadEnds(t)
      /\ part' = part \ {t} /\ Sets(i, "failed") /\ "failed" \in Statuses
      BY <1>1 DEF PullFails, FailsWith, Is, Sets, Statuses
<1>3. /\ \A k \in Jobs : k # i => row'[k] = row[k]
      /\ row'[i].digest = row[i].digest /\ row'[i].size = row[i].size
      /\ row'[i].head = row[i].head /\ row'[i].workers = row[i].workers
      /\ row'[i].status = "failed"
  <2>1. /\ row'[i] = [row[i] EXCEPT !.status = "failed"] /\ row'[i].status = "failed"
        /\ \A k \in Jobs : k # i => row'[k] = row[k]
        BY <1>1, <1>2, Written
  <2> QED BY <1>1, <2>1, RowExists DEF Row
<1>4. \A s \in Threads : thread'[s].pc = "free"
      BY <1>1, <1>2, OtherThreads
<1>5. \A k \in Jobs : ~Named(k)'
  <2>1. \A k \in Jobs : ~Named(k)
        BY <1>1, NoneNamed
  <2> QED BY <1>3, <2>1 DEF Named, Is, Exists, Active, Pulling
<1>6. RowsSound'
      BY <1>1, <1>3 DEF DeliverInv, RowsSound, Is, Exists, Active, Pulling
<1>7. ArchiveKept' /\ NoneReplaces' /\ ArchiveSound'
      BY <1>2, <1>5 DEF DeliverInv, ArchiveKept, NoneReplaces, ArchiveSound
<1>8. part' = {}
      BY <1>1, <1>2 DEF DeliverInv, PacksGrow, TypeInv, TypeOK
<1>9. PacksGrow' /\ LoadsGrow'
      BY <1>1, <1>2, <1>4, <1>8 DEF DeliverInv, PacksGrow, LoadsGrow
<1>10. CoroutinesSound'
       BY <1>1, <1>2, <1>3, PulledSound
<1> QED BY <1>6, <1>7, <1>9, <1>10 DEF DeliverInv

LEMMA MarkDelivers ==
    ASSUME TypeInv, WorkInv, PullInv, DeliverInv, NEW t \in Threads, Mark(t)
    PROVE  DeliverInv'
<1> DEFINE i == thread[t].job
<1>1. /\ thread[t].pc = "mark" /\ thread[t].pc # "free" /\ ThreadEnds(t)
      /\ UNCHANGED <<tag, archive, part, mon, docker, loaded>>
      BY DEF Mark
<1>2. /\ i \in Jobs /\ Is(i, Pulling) /\ Exists(i) /\ thread'[t].pc = "free"
      /\ \A s \in Threads : s # t => thread'[s] = thread[s]
      BY <1>1, OtherThreads DEF Is
<1>3. /\ archive # None /\ thread[t].reg = row[i].reg
      /\ marked => row[i].reg \in {None, side}
      BY <1>1 DEF PullInv, ThreadSees
<1>4. /\ side' = (IF marked THEN side ELSE row[i].reg) /\ marked' = TRUE
      BY <1>3 DEF Mark, TypeInv, TypeOK
<1>5. /\ row'[i].reg = row[i].reg /\ row'[i].digest = archive /\ row'[i].size = archive
      /\ row'[i].status = row[i].status /\ row'[i] \notin {None, Gone}
      /\ row'[i].head = row[i].head /\ row'[i].workers = row[i].workers
      /\ \A k \in Jobs : k # i => row'[k] = row[k]
      BY <1>2, <1>3, MarkedRow DEF Exists
<1>6. \A k \in Jobs : /\ Is(k, Pulling)' <=> Is(k, Pulling)
                      /\ k # i => (Named(k)' <=> Named(k)) /\ row'[k].reg = row[k].reg
      BY <1>2, <1>5 DEF Named, Is, Exists
<1>7. ASSUME NEW k \in Jobs, k # i, Named(k) PROVE side' = side /\ marked
      BY <1>4, <1>7 DEF DeliverInv, ArchiveKept
<1>8. RowsSound'
      BY <1>2, <1>5 DEF DeliverInv, RowsSound, Is, Exists
<1>9. ArchiveKept'
  <2>1. row'[i].reg \in {None, side'}
        BY <1>3, <1>4, <1>5
  <2>2. ASSUME NEW k \in Jobs, k # i, Named(k)
        PROVE  archive = row'[k].digest /\ row'[k].reg \in {None, side'}
        BY <1>5, <1>7, <2>2 DEF DeliverInv, ArchiveKept
  <2> QED BY <1>1, <1>4, <1>5, <1>6, <2>1, <2>2 DEF ArchiveKept
<1>10. NoneReplaces'
  <2> SUFFICES ASSUME NEW j \in Jobs, NEW k \in Jobs, j # k, Named(j)', Is(k, Pulling)
               PROVE  /\ row[k].reg \in {None, side'}
                      /\ \A s \in Threads :
                           thread'[s].pc = "begin" /\ thread'[s].job = k => ~thread'[s].force
      BY <1>5, <1>6 DEF NoneReplaces
  <2>1. \A s \in Threads : thread'[s].pc = "begin" => thread'[s] = thread[s]
        BY <1>2
  <2>2. CASE j = i
    <3>1. /\ row[k].reg \in {None, side} /\ row[i].reg \in {None, side}
          /\ (marked \/ row[i].reg = side)
          /\ \A s \in Threads : thread[s].pc = "begin" /\ thread[s].job = k => ~thread[s].force
          BY <1>2, <2>2 DEF PullInv, PullsAgree
    <3> QED BY <1>4, <2>1, <3>1
  <2>3. CASE j # i
    <3>1. Named(j) /\ side' = side
          BY <1>6, <1>7, <2>3
    <3> QED BY <2>1, <3>1 DEF DeliverInv, NoneReplaces
  <2> QED BY <2>2, <2>3
<1>11. ArchiveSound'
  <2>1. row[i].reg # None => row[i].reg <= archive
        BY <1>1, <1>3 DEF DeliverInv, PacksGrow
  <2> QED BY <1>1, <1>4, <2>1 DEF DeliverInv, ArchiveSound
<1>12. PacksGrow'
  <2>1. \A s \in Threads : thread[s].pc # "pack"
        BY <1>3 DEF PullInv, ThreadSees
  <2> QED BY <1>1, <1>2, <2>1 DEF DeliverInv, PacksGrow, TypeInv, TypeOK
<1>13. LoadsGrow'
       BY <1>1, <1>2 DEF DeliverInv, LoadsGrow
<1>14. CoroutinesSound'
       BY <1>1, <1>2, <1>5, PulledSound
<1> QED BY <1>8, <1>9, <1>10, <1>11, <1>12, <1>13, <1>14 DEF DeliverInv

----------------------------------------------------------------------------
(* What a completed transfer has delivered: coroutines.                    *)

\* A transfer in these states has its fingerprint, and the archive is the one it stands for.
LEMMA NamedKeeps ==
    ASSUME TypeInv, DeliverInv, NEW j \in Jobs, Named(j)
    PROVE  /\ row[j] \in Row /\ archive = row[j].digest /\ archive \in Builds
           /\ row[j].reg # None => row[j].reg = side /\ row[j].reg <= archive
BY RowExists, Numbers DEF Named, Is, DeliverInv, ArchiveKept, ArchiveSound

\* What a coroutine's step leaves of its row, and of its record.
LEMMA CoroutineRow ==
    ASSUME TypeInv, WorkInv, DeliverInv, NEW m \in Monitors, MonitorStep(m),
           NEW j \in Jobs, j = mon[m].job
    PROVE  /\ \A k \in Jobs : k # j => row'[k] = row[k]
           /\ \/ row'[j] = row[j]
              \/ /\ Exists(j) /\ Exists(j)' /\ row'[j].reg = row[j].reg
                 /\ row'[j].digest = row[j].digest /\ row'[j].size = row[j].size
                 /\ row'[j].head = row[j].head /\ row'[j].workers = row[j].workers
                 /\ \/ row'[j].status \in {"failed", "completed"}
                    \/ row'[j].status \in {"sending", "syncing", "loading"} /\ Named(j)
           /\ \A k \in Monitors : k # m => mon'[k] = mon[k]
           /\ UNCHANGED <<tag, archive, side, marked, part, thread>>
<1>1. PICK r : MonitorMoves(m, r) /\ Outcome(m, r) /\ mon[m].pc # "free"
      BY StepOutcome
<1>2. /\ UNCHANGED <<tag, archive, side, marked, part, thread>>
      /\ \A k \in Monitors : k # m => mon'[k] = mon[k]
      BY <1>1 DEF MonitorMoves, TypeInv, TypeOK
<1>3. /\ \A k \in Jobs : k # j => row'[k] = row[k]
      /\ \/ row'[j] = row[j]
         \/ /\ Exists(j) /\ Exists(j)'
            /\ \E s \in {"sending", "syncing", "loading", "failed", "completed"} :
                 /\ row'[j] = [row[j] EXCEPT !.status = s] /\ row'[j].status = s
                 /\ s \in {"sending", "syncing", "loading"} =>
                       mon[m].pc = "check" \/ Is(j, Active)
      BY <1>1, OutcomeRow
<1>4. CASE row'[j] = row[j]
      BY <1>2, <1>3, <1>4
<1>5. CASE row'[j] # row[j]
  <2>1. PICK s \in {"sending", "syncing", "loading", "failed", "completed"} :
           /\ row'[j] = [row[j] EXCEPT !.status = s] /\ row'[j].status = s
           /\ s \in {"sending", "syncing", "loading"} => mon[m].pc = "check" \/ Is(j, Active)
        BY <1>3, <1>5
  <2>2. /\ row'[j].reg = row[j].reg
        /\ row'[j].digest = row[j].digest /\ row'[j].size = row[j].size
        /\ row'[j].head = row[j].head /\ row'[j].workers = row[j].workers
        BY <1>3, <1>5, <2>1, RowExists DEF Row
  <2>3. s \in {"sending", "syncing", "loading"} => Named(j)
    <3>1. CASE mon[m].pc = "check"
          BY <3>1 DEF WorkInv, NothingRevived, DeliverInv, CoroutinesSound, Sound, Named
    <3>2. CASE mon[m].pc # "check" /\ s \in {"sending", "syncing", "loading"}
      <4>1. Is(j, {"sending", "syncing"})
        <5>1. Outcome(m, r) /\ ~UNCHANGED row
              BY <1>1, <1>5
        <5>2. Sets(j, "failed") \/ Sets(j, "completed") => s \in {"failed", "completed"}
              BY <1>3, <1>5, <2>1, Written DEF Statuses
        <5>3. Leaves(m) => Sets(j, "failed") \/ Sets(j, "completed")
              BY <5>1 DEF Leaves
        <5> QED BY <3>2, <5>1, <5>2, <5>3 DEF Outcome, Advances, Is
      <4> QED BY <4>1 DEF DeliverInv, RowsSound, Named, Is, Active, Pulling
    <3> QED BY <3>1, <3>2
  <2> QED BY <1>2, <1>3, <1>5, <2>1, <2>2, <2>3
<1> QED BY <1>4, <1>5

\* A coroutine that goes to its check has read a whole archive's row.
LEMMA CheckSound ==
    ASSUME TypeInv, WorkInv, DeliverInv, NEW m \in Monitors, Wait(m)
    PROVE  /\ mon'[m].pc # "free" => /\ mon'[m].job = mon[m].job /\ mon'[m].head = mon[m].head
                                     /\ mon'[m].pc = "check"
           /\ Is(mon[m].job, Active) => Named(mon[m].job)
           /\ mon'[m].pc # "free" => Is(mon[m].job, Active) /\ UNCHANGED row
           /\ UNCHANGED <<docker, loaded>>
<1> DEFINE j == mon[m].job
<1>1. /\ mon[m].pc = "wait" /\ Exists(j) /\ UNCHANGED <<docker, loaded>>
      /\ Is(j, Pulling) => archive # None /\ row[j].size = archive
      BY DEF Wait, Reaches
<1>2. mon[m] \in Monitor /\ j \in Jobs
      BY <1>1, MonitorUsed
<1>3. Is(j, Active) => row[j].digest # None
      BY <1>1, <1>2 DEF DeliverInv, RowsSound, Is, Active, Pulling
<1>4. CASE MonitorEnds(m)
      BY <1>1, <1>3, <1>4, Constants DEF MonitorEnds, TypeInv, TypeOK, Named
<1>5. CASE /\ MonitorGoes(m, [mon[m] EXCEPT !.pc = "check", !.seen = row[j].status])
           /\ UNCHANGED row /\ ~Is(j, {"failed", "cancelled", "paused"})
  <2>1. mon'[m].pc = "check" /\ mon'[m].job = mon[m].job /\ mon'[m].head = mon[m].head
        BY <1>2, <1>5 DEF MonitorGoes, TypeInv, TypeOK, Monitor
  <2>2. Is(j, Active)
        BY <1>1, <1>5 DEF WorkInv, NothingRevived, Is
  <2> QED BY <1>1, <1>3, <1>5, <2>1, <2>2 DEF Named
<1> QED BY <1>4, <1>5 DEF Wait

\* The steps between the check and the load, and the ends.
LEMMA MiddleSound ==
    ASSUME TypeInv, NEW m \in Monitors,
           RowGone(m) \/ Check(m) \/ Send(m) \/ Share(m) \/ LoadEnd(m)
             \/ \E n \in Nodes : Fetch(m, n)
    PROVE  /\ mon'[m].pc # "free" => /\ mon'[m].job = mon[m].job /\ mon'[m].head = mon[m].head
                                     /\ mon'[m].pc \notin {"check", "load"}
           /\ UNCHANGED <<docker, loaded>>
<1>1. mon[m].pc # "free" /\ UNCHANGED <<docker, loaded>>
      BY DEF RowGone, Check, Send, Share, LoadEnd, Fetch, Reaches, Got
<1>2. mon[m] \in Monitor
      BY <1>1, MonitorUsed
<1>3. CASE MonitorEnds(m)
      BY <1>1, <1>3, Constants DEF MonitorEnds, TypeInv, TypeOK
<1>4. ASSUME NEW r, MonitorGoes(m, r), r.job = mon[m].job, r.head = mon[m].head,
             r.pc \notin {"check", "load"}
      PROVE  /\ mon'[m].job = mon[m].job /\ mon'[m].head = mon[m].head
             /\ mon'[m].pc \notin {"check", "load"}
      BY <1>4 DEF MonitorGoes, TypeInv, TypeOK
<1>5. ASSUME Check(m), ~MonitorEnds(m) PROVE mon'[m].pc # "free" =>
         /\ mon'[m].job = mon[m].job /\ mon'[m].head = mon[m].head
         /\ mon'[m].pc \notin {"check", "load"}
  <2> DEFINE r == [mon[m] EXCEPT !.pc = "send", !.d = row[mon[m].job].digest]
  <2>1. MonitorGoes(m, r)
        BY <1>5 DEF Check, Fails
  <2>2. r.job = mon[m].job /\ r.head = mon[m].head /\ r.pc = "send"
        BY <1>2 DEF Monitor
  <2> HIDE DEF r
  <2> QED BY <1>4, <2>1, <2>2
<1>6. ASSUME Send(m), ~MonitorEnds(m) PROVE mon'[m].pc # "free" =>
         /\ mon'[m].job = mon[m].job /\ mon'[m].head = mon[m].head
         /\ mon'[m].pc \notin {"check", "load"}
  <2> DEFINE r == [mon[m] EXCEPT !.pc = "share"]
  <2>1. MonitorGoes(m, r)
        BY <1>6 DEF Send, Fails
  <2>2. r.job = mon[m].job /\ r.head = mon[m].head /\ r.pc = "share"
        BY <1>2 DEF Monitor
  <2> HIDE DEF r
  <2> QED BY <1>4, <2>1, <2>2
<1>7. ASSUME Share(m), ~MonitorEnds(m) PROVE mon'[m].pc # "free" =>
         /\ mon'[m].job = mon[m].job /\ mon'[m].head = mon[m].head
         /\ mon'[m].pc \notin {"check", "load"}
  <2> DEFINE r == [mon[m] EXCEPT !.pc = "sync", !.d = row[mon[m].job].digest, !.bad = FALSE,
                                 !.todo = row[mon[m].job].workers]
  <2>1. MonitorGoes(m, r)
        BY <1>7 DEF Share, Fails
  <2>2. r.job = mon[m].job /\ r.head = mon[m].head /\ r.pc = "sync"
        BY <1>2 DEF Monitor
  <2> HIDE DEF r
  <2> QED BY <1>4, <2>1, <2>2
<1>8. ASSUME NEW n \in Nodes, Fetch(m, n) PROVE mon'[m].pc # "free" =>
         /\ mon'[m].job = mon[m].job /\ mon'[m].head = mon[m].head
         /\ mon'[m].pc \notin {"check", "load"}
  <2> DEFINE r == [mon[m] EXCEPT !.todo = @ \ {n}]
             s == [mon[m] EXCEPT !.todo = @ \ {n}, !.bad = TRUE]
  <2>1. (MonitorGoes(m, r) \/ MonitorGoes(m, s)) /\ mon[m].pc = "sync"
        BY <1>8 DEF Fetch
  <2>2. /\ r.job = mon[m].job /\ r.head = mon[m].head /\ r.pc = mon[m].pc
        /\ s.job = mon[m].job /\ s.head = mon[m].head /\ s.pc = mon[m].pc
        BY <1>2 DEF Monitor
  <2> HIDE DEF r, s
  <2> QED BY <1>4, <2>1, <2>2
<1>9. RowGone(m) \/ LoadEnd(m) => MonitorEnds(m)
      BY DEF RowGone, LoadEnd, Fails
<1> QED BY <1>1, <1>3, <1>5, <1>6, <1>7, <1>8, <1>9

\* The load begins with every node to do.
LEMMA SyncSound ==
    ASSUME TypeInv, WorkInv, DeliverInv, NEW m \in Monitors, SyncEnd(m)
    PROVE  /\ mon'[m].pc # "free" => /\ mon'[m].job = mon[m].job /\ mon'[m].head = mon[m].head
                                     /\ mon'[m].pc = "load" /\ Loads(mon[m])'
           /\ UNCHANGED <<docker, loaded>>
<1>0. mon[m].pc = "sync" /\ mon[m].pc # "free"
      BY DEF SyncEnd, Reaches
<1>1. PICK j \in Jobs : j = mon[m].job
      BY <1>0, MonitorUsed
<1> DEFINE r == [mon[m] EXCEPT !.pc = "load", !.d = row[j].digest,
                               !.todo = {mon[m].head} \cup row[j].workers]
<1>2. /\ Exists(j) /\ UNCHANGED <<docker, loaded>>
      /\ mon[m] \in Monitor /\ row[j] \in Row
      BY <1>0, <1>1, MonitorUsed, RowExists DEF SyncEnd, Reaches
<1>3. CASE MonitorEnds(m)
      BY <1>2, <1>3, Constants DEF MonitorEnds, TypeInv, TypeOK
<1>4. CASE Sets(j, "loading") /\ MonitorGoes(m, r)
  <2>1. /\ r.job = j /\ r.head = mon[m].head /\ r.pc = "load" /\ r.d = row[j].digest
        /\ r.todo = {mon[m].head} \cup row[j].workers
        BY <1>1, <1>2 DEF Monitor
  <2> HIDE DEF r
  <2>2. mon'[m] = r
        BY <1>4 DEF MonitorGoes, TypeInv, TypeOK
  <2>3. /\ Exists(j)' /\ row'[j].status = "loading"
        /\ row'[j] = [row[j] EXCEPT !.status = "loading"]
    <3>1. "loading" \in Statuses
          BY DEF Statuses, Active
    <3> QED BY <1>2, <1>4, <3>1, Written
  <2>4. row'[j].digest = row[j].digest /\ row'[j].head = row[j].head
        /\ row'[j].workers = row[j].workers
        BY <1>2, <2>3 DEF Row
  <2>5. mon[m].head = row[j].head
        BY <1>0, <1>1, <1>2 DEF DeliverInv, CoroutinesSound, Sound
  <2>6. Loads(mon[m])'
        BY <2>1, <2>2, <2>3, <2>4, <2>5 DEF Loads, Is, Exists, Targets
  <2> QED BY <1>1, <1>2, <2>1, <2>2, <2>6
<1> QED BY <1>1, <1>3, <1>4 DEF SyncEnd, Fails, Sets

\* An image that is loaded, or skipped, is that of the archive: nothing newer was there.
LEMMA LoadDelivers ==
    ASSUME TypeInv, PullInv, DeliverInv, NEW m \in Monitors, NEW n \in Nodes, Load(m, n)
    PROVE  /\ mon'[m].job = mon[m].job /\ mon'[m].head = mon[m].head /\ mon'[m].pc = "load"
           /\ LoadsGrow' /\ UNCHANGED row /\ Loads(mon[m])'
           /\ \A k \in Monitors : k # m /\ mon[k].pc = "load" => Loads(mon[k])'
<1> DEFINE j == mon[m].job
           d == mon[m].d
           r(b) == [mon[m] EXCEPT !.todo = @ \ {n}, !.bad = b]
<1>1. /\ mon[m].pc = "load" /\ n \in mon[m].todo /\ Sound(mon[m])
      /\ UNCHANGED <<row, tag, archive, side, marked, part, thread>>
      BY DEF Load, DeliverInv, CoroutinesSound
<1>2. mon[m] \in Monitor /\ j \in Jobs
      BY <1>1, MonitorUsed
<1>3. Loads(mon[m]) /\ d = row[j].digest /\ Is(j, {"loading"})
      BY <1>1 DEF Sound, Loads
<1>4. Named(j)
      BY <1>2, <1>3 DEF DeliverInv, RowsSound, Named, Is, Active, Pulling
<1>5. /\ archive = d /\ d \in Builds /\ d # None /\ d \in Nat /\ archive # None /\ d <= tag
      BY <1>2, <1>3, <1>4, NamedKeeps, Constants DEF DeliverInv, ArchiveSound, Named
<1>6. ASSUME NEW k \in Monitors, mon[k].pc = "load"
      PROVE  Loads(mon[k]) /\ mon[k].d = d
  <2>1. Loads(mon[k]) /\ mon[k].job \in Jobs
        BY <1>6, MonitorUsed DEF DeliverInv, CoroutinesSound, Sound
  <2>2. Named(mon[k].job)
        BY <2>1 DEF Loads, DeliverInv, RowsSound, Named, Is, Active, Pulling
  <2> QED BY <1>5, <2>1, <2>2, NamedKeeps DEF Loads
<1>7. PICK b \in BOOLEAN : /\ MonitorGoes(m, r(b))
                           /\ \/ UNCHANGED <<docker, loaded>> /\ b
                              \/ /\ docker' = IF Skipped(n, d) THEN docker
                                              ELSE [docker EXCEPT ![n] = d]
                                 /\ loaded' = [loaded EXCEPT ![n] = @ \cup {d}]
                                 /\ b = mon[m].bad
  <2>1. r(mon[m].bad) = [mon[m] EXCEPT !.todo = @ \ {n}] /\ mon[m].bad \in BOOLEAN
        BY <1>2 DEF Monitor
  <2>2. CASE /\ MonitorGoes(m, [mon[m] EXCEPT !.todo = @ \ {n}])
             /\ docker' = IF Skipped(n, d) THEN docker ELSE [docker EXCEPT ![n] = d]
             /\ loaded' = [loaded EXCEPT ![n] = @ \cup {d}]
        BY <2>1, <2>2
  <2>3. CASE MonitorGoes(m, r(TRUE)) /\ UNCHANGED <<docker, loaded>>
        BY <2>3
  <2> QED BY <2>2, <2>3 DEF Load
<1>8. /\ r(b).job = j /\ r(b).head = mon[m].head /\ r(b).pc = "load" /\ r(b).d = d
      /\ r(b).bad = b /\ r(b).todo = mon[m].todo \ {n}
      BY <1>1, <1>2 DEF Monitor
<1> HIDE DEF r
<1>9. /\ mon'[m] = r(b) /\ \A k \in Monitors : k # m => mon'[k] = mon[k]
      BY <1>7 DEF MonitorGoes, TypeInv, TypeOK
<1>10. CASE UNCHANGED <<docker, loaded>> /\ b
  <2>1. LoadsGrow'
        BY <1>1, <1>10 DEF DeliverInv, LoadsGrow
  <2>2. Loads(mon[m])'
        BY <1>1, <1>3, <1>8, <1>9, <1>10 DEF Loads, Is, Exists
  <2>3. \A k \in Monitors : k # m /\ mon[k].pc = "load" => Loads(mon[k])'
        BY <1>1, <1>6, <1>9, <1>10 DEF Loads, Is, Exists, Targets
  <2> QED BY <1>1, <1>8, <1>9, <2>1, <2>2, <2>3
<1>11. CASE /\ docker' = IF Skipped(n, d) THEN docker ELSE [docker EXCEPT ![n] = d]
            /\ loaded' = [loaded EXCEPT ![n] = @ \cup {d}]
            /\ b = mon[m].bad
  <2>1. /\ \A k \in Nodes : k # n => docker'[k] = docker[k] /\ loaded'[k] = loaded[k]
        /\ loaded'[n] = loaded[n] \cup {d}
        BY <1>11 DEF TypeInv, TypeOK
  <2>2. \A c \in loaded[n] : c \in Nat /\ c <= d
        BY <1>5, Numbers DEF DeliverInv, LoadsGrow
  <2>3. docker'[n] = d
    <3>1. CASE Skipped(n, d)
      <4>1. docker[n] # None /\ d \in loaded[n] /\ docker'[n] = docker[n]
            BY <1>11, <3>1 DEF Skipped
      <4>2. docker[n] \in loaded[n] /\ d <= docker[n]
            BY <4>1 DEF DeliverInv, LoadsGrow
      <4> QED BY <1>5, <2>2, <4>1, <4>2
    <3>2. CASE ~Skipped(n, d)
          BY <1>11, <3>2 DEF TypeInv, TypeOK
    <3> QED BY <3>1, <3>2
  <2>4. \A t \in Threads : thread[t].pc # "pack"
        BY <1>5 DEF PullInv, ThreadSees
  <2>5. LoadsGrow'
    <3>1. /\ docker'[n] \in loaded'[n] /\ \A c \in loaded'[n] : c <= docker'[n]
          /\ \A c \in loaded'[n] : c <= tag /\ c <= archive
          BY <1>5, <2>1, <2>2, <2>3 DEF DeliverInv, LoadsGrow
    <3> QED BY <1>1, <2>1, <2>4, <3>1 DEF DeliverInv, LoadsGrow
  <2>6. ASSUME ~b PROVE \A k \in Targets(j) \ (mon[m].todo \ {n}) : docker'[k] = d
    <3>1. Targets(j) \subseteq Nodes
          BY <1>2, <1>3, RowExists DEF Targets, Is, Row
    <3>2. \A k \in Targets(j) \ mon[m].todo : docker[k] = d
          BY <1>3, <1>11, <2>6 DEF Loads
    <3> QED BY <2>1, <2>3, <3>1, <3>2
  <2>7. Loads(mon[m])'
        BY <1>1, <1>3, <1>8, <1>9, <2>6 DEF Loads, Is, Exists, Targets
  <2>8. ASSUME NEW k \in Monitors, k # m, mon[k].pc = "load" PROVE Loads(mon[k])'
    <3>1. Loads(mon[k]) /\ mon[k].d = d /\ mon'[k] = mon[k] /\ mon[k].job \in Jobs
          BY <1>6, <1>9, <2>8, MonitorUsed
    <3>2. Targets(mon[k].job) \subseteq Nodes
          BY <3>1, RowExists DEF Loads, Targets, Is, Row
    <3>3. \A c \in Nodes : docker[c] = d => docker'[c] = d
          BY <2>1, <2>3
    <3> QED BY <1>1, <3>1, <3>2, <3>3 DEF Loads, Is, Exists, Targets
  <2> QED BY <1>1, <1>8, <1>9, <2>5, <2>7, <2>8
<1> QED BY <1>7, <1>10, <1>11

LEMMA CoroutineDelivers ==
    ASSUME TypeInv, WorkInv, PullInv, DeliverInv, NEW m \in Monitors, MonitorStep(m)
    PROVE  DeliverInv'
<1>0. mon[m].pc # "free"
      BY StepOutcome
<1>1. PICK j \in Jobs : j = mon[m].job
      BY <1>0, MonitorUsed
<1>2. /\ \A k \in Jobs : k # j => row'[k] = row[k]
      /\ \/ row'[j] = row[j]
         \/ /\ Exists(j) /\ Exists(j)' /\ row'[j].reg = row[j].reg
            /\ row'[j].digest = row[j].digest /\ row'[j].size = row[j].size
            /\ row'[j].head = row[j].head /\ row'[j].workers = row[j].workers
            /\ \/ row'[j].status \in {"failed", "completed"}
               \/ row'[j].status \in {"sending", "syncing", "loading"} /\ Named(j)
      /\ \A k \in Monitors : k # m => mon'[k] = mon[k]
      /\ UNCHANGED <<tag, archive, side, marked, part, thread>>
      BY <1>1, CoroutineRow
<1>3. RowsSound'
      BY <1>2 DEF DeliverInv, RowsSound, Named, Is, Exists, Active, Pulling
<1>4. /\ \A k \in Jobs : Named(k)' => Named(k) /\ row'[k].digest = row[k].digest
      /\ \A k \in Jobs : Is(k, Pulling)' => Is(k, Pulling)
      /\ \A k \in Jobs : Exists(k)' => row'[k].reg = row[k].reg
      BY <1>2 DEF Named, Is, Exists, Active, Pulling
<1>5. ArchiveKept' /\ NoneReplaces'
      BY <1>2, <1>4 DEF DeliverInv, ArchiveKept, NoneReplaces, Named, Is
<1>6. ArchiveSound' /\ PacksGrow'
      BY <1>2 DEF DeliverInv, ArchiveSound, PacksGrow
<1>7. /\ mon'[m].pc # "free" => /\ mon'[m].job = mon[m].job /\ mon'[m].head = mon[m].head
                                /\ mon'[m].pc = "check" => row'[j].digest # None
                                /\ mon'[m].pc = "load" => Loads(mon[m])'
      /\ LoadsGrow'
      /\ \A k \in Monitors : k # m /\ mon[k].pc = "load" =>
            Loads(mon[k])' \/ UNCHANGED docker
  <2>1. UNCHANGED <<docker, loaded>> => LoadsGrow'
        BY <1>2 DEF DeliverInv, LoadsGrow
  <2>2. CASE Wait(m)
    <3>1. mon'[m].pc # "free" => row'[j].digest # None
          BY <1>1, <2>2, CheckSound DEF Named
    <3> QED BY <2>1, <2>2, <3>1, CheckSound
  <2>3. CASE RowGone(m) \/ Check(m) \/ Send(m) \/ Share(m) \/ LoadEnd(m)
             \/ \E n \in Nodes : Fetch(m, n)
        BY <2>1, <2>3, MiddleSound
  <2>4. CASE SyncEnd(m)
        BY <2>1, <2>4, SyncSound
  <2>5. CASE \E n \in Nodes : Load(m, n)
        BY <2>5, LoadDelivers
  <2> QED BY <2>2, <2>3, <2>4, <2>5 DEF MonitorStep
<1>8. CoroutinesSound'
  <2> SUFFICES ASSUME NEW k \in Monitors, mon'[k].pc # "free"
               PROVE  Sound(mon[k])'
      BY DEF CoroutinesSound
  <2>1. CASE k = m
    <3>1. Exists(j) => mon[m].head = row[j].head
          BY <1>0, <1>1 DEF DeliverInv, CoroutinesSound, Sound
    <3>2. Exists(j)' => mon[m].head = row'[j].head
          BY <1>2, <3>1 DEF Exists
    <3> QED BY <1>1, <1>7, <2>1, <3>2 DEF Sound, Exists
  <2>2. CASE k # m
    <3>1. mon'[k] = mon[k] /\ Sound(mon[k]) /\ mon[k].job \in Jobs /\ mon[k].job # j
          BY <1>0, <1>1, <1>2, <2>2, MonitorUsed DEF DeliverInv, CoroutinesSound, WorkInv, OneCoroutine
    <3>2. row'[mon[k].job] = row[mon[k].job]
          BY <1>2, <3>1
    <3>3. mon[k].pc = "load" => Loads(mon[k])'
          BY <1>7, <2>2, <3>1, <3>2 DEF Sound, Loads, Is, Exists, Targets
    <3> QED BY <3>1, <3>2, <3>3 DEF Sound, Exists
  <2> QED BY <2>1, <2>2
<1> QED BY <1>3, <1>5, <1>6, <1>7, <1>8 DEF DeliverInv

LEMMA StepDelivers ==
    ASSUME TypeInv, WorkInv, PullInv, DeliverInv, NothingDisturbed, [Next]_vars
    PROVE  DeliverInv'
<1>1. NothingReturns /\ \A j \in Jobs : ~Pause(j) /\ ~Resume(j)
      BY DEF Pause, Resume, NothingDisturbed, NothingReturns, WorkInv, NothingPaused
<1>2. CASE \E t \in Threads : ThreadStep(t)
      BY <1>2, BeginDelivers, PullDelivers, PackDelivers, MarkDelivers, FailDelivers
         DEF ThreadStep
<1> QED BY <1>1, <1>2, StartDelivers, WithdrawDelivers, EnvironmentDelivers, CrashDelivers,
           CoroutineDelivers DEF Next

\* A transfer is completed by its coroutine alone: from the polling loop without a head, or
\* after a load on all of its nodes.
LEMMA CompletedBy ==
    ASSUME TypeInv, WorkInv, NothingDisturbed, [Next]_vars, NEW j \in Jobs, Completes(j)
    PROVE  \E m \in Monitors :
              /\ mon[m].job = j /\ mon[m].pc # "free"
              /\ \/ Wait(m) /\ mon[m].head = None
                 \/ LoadEnd(m) /\ ~mon[m].bad
              /\ row'[j] = [row[j] EXCEPT !.status = "completed"]
<1>1. /\ Is(j, Active) /\ Exists(j) /\ row[j] \in Row /\ row'[j] # row[j]
      /\ row'[j].status = "completed" /\ row'[j] # Gone
      BY RowExists DEF Completes, Is, Active, Pulling
<1>2. \A k \in Jobs : ~Pause(k) /\ ~Resume(k)
      BY DEF Pause, Resume, NothingDisturbed, NothingReturns, WorkInv, NothingPaused
<1>3. ASSUME NEW k \in Jobs, NEW head \in Nodes \cup {None}, NEW workers \in SUBSET Nodes,
             NEW force \in BOOLEAN, NEW reg \in Builds \cup {None},
             Start(k, head, workers, force, reg)
      PROVE  FALSE
  <2>1. \A i \in Jobs : row[i] # None /\ row[i] # Gone => row'[i] = row[i]
        BY <1>3 DEF Start, TypeInv, TypeOK
  <2> QED BY <1>1, <2>1 DEF Exists
<1>4. ASSUME NEW k \in Jobs, Cancel(k) \/ Delete(k) PROVE FALSE
  <2>1. CASE Cancel(k)
    <3>1. Sets(k, "cancelled") /\ "cancelled" \in Statuses /\ Exists(k)
          BY <2>1 DEF Cancel, Sets, Statuses, Is
    <3>2. row'[k].status = "cancelled" /\ \A i \in Jobs : i # k => row'[i] = row[i]
          BY <3>1, Written
    <3> QED BY <1>1, <3>2
  <2>2. CASE Delete(k)
        BY <1>1, <2>2 DEF Delete, TypeInv, TypeOK
  <2> QED BY <1>4, <2>1, <2>2
<1>5. ASSUME NEW t \in Threads, ThreadStep(t) PROVE FALSE
  <2> DEFINE i == thread[t].job
  <2>1. ~BeginPull(t) /\ ~Pack(t)
        BY <1>1 DEF BeginPull, Pack
  <2>2. thread[t].pc # "free" /\ i \in Jobs /\ Is(i, Pulling) /\ Exists(i)
    <3>1. thread[t].pc # "free"
          BY <1>5 DEF ThreadStep, BeginPull, Pull, Pack, Mark, PullFails
    <3> QED BY <3>1, ThreadUsed DEF WorkInv, ThreadPulls, Is
  <2>3. CASE Mark(t)
    <3>1. row'[i].status = row[i].status /\ \A k \in Jobs : k # i => row'[k] = row[k]
          BY <2>2, <2>3, MarkedRow
    <3> QED BY <1>1, <2>2, <3>1 DEF Is, Pulling
  <2>4. ASSUME NEW s \in {"packing", "failed"}, Sets(i, s) PROVE FALSE
    <3>1. s \in Statuses
          BY DEF Statuses, Active, Pulling
    <3>2. row'[i].status = s /\ \A k \in Jobs : k # i => row'[k] = row[k]
          BY <2>2, <2>4, <3>1, Written
    <3> QED BY <1>1, <3>2
  <2>5. CASE Pull(t) \/ PullFails(t)
        BY <1>1, <2>2, <2>4, <2>5 DEF Pull, PullFails, FailsWith, Is, Sets
  <2> QED BY <1>5, <2>1, <2>3, <2>5 DEF ThreadStep
<1>6. PICK m \in Monitors : MonitorStep(m)
      BY <1>1, <1>2, <1>3, <1>4, <1>5 DEF Next, vars, DeleteLocal, Crash, TagMoves, Prune
<1>7. PICK i \in Jobs : i = mon[m].job /\ mon[m].pc # "free" /\ mon[m] \in Monitor
      BY <1>6, StepOutcome, MonitorUsed
<1>8. i = j
  <2>1. PICK r : MonitorMoves(m, r) /\ Outcome(m, r)
        BY <1>6, StepOutcome
  <2> QED BY <1>1, <1>7, <2>1, OutcomeRow
<1>9. ASSUME NEW s \in Statuses, Sets(j, s)
      PROVE  s = "completed" /\ row'[j] = [row[j] EXCEPT !.status = "completed"]
      BY <1>1, <1>9, Written
<1>10. ~Fails(m)
  <2>1. "failed" \in Statuses
        BY DEF Statuses
  <2> QED BY <1>7, <1>8, <1>9, <2>1 DEF Fails, Sets
<1>11. ~Check(m) /\ ~Send(m) /\ ~SyncEnd(m) /\ ~Share(m)
  <2>1. \A s \in {"sending", "syncing", "loading"} : ~Sets(j, s)
        BY <1>9 DEF Statuses, Active
  <2> QED BY <1>1, <1>7, <1>8, <1>10, <2>1
          DEF Check, Send, SyncEnd, Share, Writes, Sets
<1>12. ~RowGone(m) /\ \A n \in Nodes : ~Fetch(m, n) /\ ~Load(m, n)
       BY <1>1 DEF RowGone, Fetch, Load
<1>13. "completed" \in Statuses
       BY DEF Statuses
<1>14. CASE Wait(m)
  <2>1. mon[m].head = None /\ Sets(j, "completed")
        BY <1>1, <1>7, <1>8, <1>14 DEF Wait, Sets
  <2> QED BY <1>7, <1>8, <1>9, <1>13, <1>14, <2>1
<1>15. CASE LoadEnd(m)
  <2>1. ~mon[m].bad /\ Sets(j, "completed")
        BY <1>1, <1>7, <1>8, <1>10, <1>15 DEF LoadEnd, Sets
  <2> QED BY <1>7, <1>8, <1>9, <1>13, <1>15, <2>1
<1> QED BY <1>6, <1>11, <1>12, <1>14, <1>15 DEF MonitorStep

\* What holds of a transfer at the moment it is completed.
LEMMA CompletesDelivered ==
    ASSUME TypeInv, WorkInv, PullInv, DeliverInv, NothingDisturbed, [Next]_vars,
           NEW j \in Jobs, Completes(j)
    PROVE  /\ Named(j) /\ UNCHANGED docker /\ row'[j] = [row[j] EXCEPT !.status = "completed"]
           /\ \A n \in Targets(j) : docker'[n] = row'[j].digest
           /\ row[j].reg # None => row'[j].digest \in Builds /\ row'[j].digest >= row[j].reg
<1>1. PICK m \in Monitors :
         /\ mon[m].job = j /\ mon[m].pc # "free"
         /\ \/ Wait(m) /\ mon[m].head = None
            \/ LoadEnd(m) /\ ~mon[m].bad
         /\ row'[j] = [row[j] EXCEPT !.status = "completed"]
      BY CompletedBy
<1>2. /\ Is(j, Active) /\ row[j] \in Row /\ row'[j].digest = row[j].digest
      /\ Exists(j) /\ mon[m].head = row[j].head /\ Sound(mon[m])
      BY <1>1, RowExists DEF Completes, Is, Row, DeliverInv, CoroutinesSound, Sound
<1>3. CASE Wait(m) /\ mon[m].head = None
  <2>1. Named(j) /\ UNCHANGED docker
        BY <1>1, <1>2, <1>3, CheckSound
  <2>2. Targets(j) = {}
        BY <1>2, <1>3 DEF DeliverInv, RowsSound, Targets
  <2> QED BY <1>1, <1>2, <2>1, <2>2, NamedKeeps, Constants DEF Row
<1>4. CASE LoadEnd(m) /\ ~mon[m].bad
  <2>1. mon[m].pc = "load" /\ mon[m].todo = {} /\ UNCHANGED docker
        BY <1>4 DEF LoadEnd, Reaches
  <2>2. Is(j, {"loading"}) /\ \A n \in Targets(j) : docker[n] = row[j].digest
        BY <1>1, <1>2, <1>4, <2>1 DEF Sound, Loads
  <2>3. Named(j)
        BY <1>2, <2>2 DEF DeliverInv, RowsSound, Named, Is, Active, Pulling
  <2> QED BY <1>1, <1>2, <2>1, <2>2, <2>3, NamedKeeps, Constants DEF Row
<1> QED BY <1>1, <1>3, <1>4

\* A completed transfer has delivered: docker on each of its nodes has the build its
\* fingerprint stands for, none older than what the registry had when it was created.  A
\* node may skip a load because some image is there under the tag, and threads of others
\* mark and replace the archive; it holds because builds come in order and nobody replaces an
\* archive that a transfer under way is named after.  The restriction is the one of
\* OnePullerCorrect.
THEOREM DeliveredCorrect ==
    ASSUME NothingDisturbed
    PROVE  Spec => DeliveredWhenCompleted
<1>1. TypeInv /\ WorkInv /\ PullInv /\ DeliverInv /\ [Next]_vars =>
        /\ WorkInv' /\ PullInv' /\ DeliverInv'
        /\ [\A j \in Jobs : Completes(j) =>
              /\ \A n \in Targets(j) : docker'[n] = row'[j].digest
              /\ row[j].reg # None =>
                    row'[j].digest \in Builds /\ row'[j].digest >= row[j].reg]_vars
      BY CompletesDelivered, StepPulls, StepDelivers
<1> QED BY InitTyped, StepKeepsTypes, InitWorks, InitPulls, InitDelivers, <1>1, PTL
        DEF Spec, DeliveredWhenCompleted

----------------------------------------------------------------------------
(* The promise: completed transfers are left alone.                        *)

\* Nobody drives a transfer that is completed.
Unfinished == \A m \in Monitors : mon[m].pc # "free" => ~Is(mon[m].job, {"completed"})

\* A coroutine that completes its transfer is done, and the transfer was under way.
LEMMA CoroutineCompletes ==
    ASSUME TypeInv, WorkInv, DeliverInv, Unfinished, NEW m \in Monitors, MonitorStep(m),
           NEW j \in Jobs, j = mon[m].job, row'[j] # row[j], row'[j].status = "completed"
    PROVE  mon'[m].pc = "free" /\ Completes(j)
<1>1. PICK r : MonitorMoves(m, r) /\ Outcome(m, r) /\ mon[m].pc # "free"
      BY StepOutcome
<1>2. /\ Exists(j) /\ Exists(j)' /\ ~Is(j, {"completed"})
      /\ Sets(j, "completed") \/ \A s \in Statuses : ~Sets(j, s)
  <2>1. Exists(j) /\ Exists(j)' /\ ~Is(j, {"completed"})
        BY <1>1, CoroutineRow DEF Unfinished
  <2> QED BY <2>1, Written
<1>3. "completed" \in Statuses /\ "failed" \in Statuses /\ "sending" \in Statuses
      /\ "syncing" \in Statuses /\ "loading" \in Statuses
      BY DEF Statuses, Active
<1>4. ~Sets(j, "failed") /\ ~Sets(j, "sending") /\ ~Sets(j, "syncing") /\ ~Sets(j, "loading")
      BY <1>2, <1>3, Written
<1>5. /\ r = IdleMonitor /\ Sets(j, "completed")
      /\ \/ mon[m].pc = "load" /\ Is(j, {"loading"})
         \/ mon[m].pc = "wait"
  <2>1. ~Advances(m, r)
        BY <1>4 DEF Advances, Writes, Sets
  <2> QED BY <1>1, <1>4, <2>1 DEF Outcome, Leaves
<1>6. mon'[m].pc = "free"
      BY <1>1, <1>5, Constants DEF MonitorMoves, TypeInv, TypeOK
<1>7. Is(j, Active)
  <2>1. CASE mon[m].pc = "load" /\ Is(j, {"loading"})
        BY <2>1 DEF Is, Active
  <2>2. CASE mon[m].pc = "wait"
    <3>1. Wait(m)
          BY <1>1, <2>2 DEF MonitorStep, RowGone, Check, Send, Share, SyncEnd, LoadEnd, Reaches,
                            Fetch, Load, Exists
    <3>2. ~Is(j, {"failed", "cancelled"})
          BY <3>1 DEF Wait, Is
    <3> QED BY <1>2, <2>2, <3>2 DEF WorkInv, NothingRevived, Is
  <2> QED BY <1>5, <2>1, <2>2
<1> QED BY <1>2, <1>6, <1>7 DEF Completes, Exists

\* What a thread's step leaves of its row: the status moves on or fails, or the build gets
\* known; a build that is known stays.
LEMMA ThreadRow ==
    ASSUME TypeInv, WorkInv, PullInv, DeliverInv, NEW t \in Threads, ThreadStep(t)
    PROVE  /\ UNCHANGED <<mon, docker>>
           /\ \E i \in Jobs :
                /\ Is(i, Pulling) /\ \A k \in Jobs : k # i => row'[k] = row[k]
                /\ \/ row'[i] = row[i]
                   \/ /\ Exists(i)' /\ row'[i].status \in Pulling \cup {"failed"}
                      /\ row'[i].head = row[i].head /\ row'[i].workers = row[i].workers
                      /\ \/ row'[i].digest = row[i].digest
                         \/ /\ row[i].digest = None /\ row'[i].digest \in Builds
                            /\ row'[i].status = row[i].status
<1>1. UNCHANGED <<mon, docker>> /\ thread[t].pc # "free"
      BY DEF ThreadStep, BeginPull, Pull, Pack, Mark, PullFails
<1>2. PICK i \in Jobs : /\ i = thread[t].job /\ Is(i, Pulling) /\ Exists(i)
                       /\ row[i].status \in Pulling /\ row[i] \in Row
      BY <1>1, ThreadUsed, RowExists DEF WorkInv, ThreadPulls, Is
<1>3. CASE Mark(t)
  <2>1. /\ Exists(i)' /\ row'[i].status = row[i].status /\ row'[i].head = row[i].head
        /\ row'[i].workers = row[i].workers /\ row'[i].digest = archive
        /\ \A k \in Jobs : k # i => row'[k] = row[k]
        BY <1>2, <1>3, MarkedRow
  <2>2. thread[t].pc = "mark" /\ archive \in Builds
    <3>1. thread[t].pc = "mark" /\ archive # None
          BY <1>3 DEF Mark, PullInv, ThreadSees
    <3> QED BY <3>1 DEF DeliverInv, ArchiveSound, TypeInv, TypeOK, Contents
  <2>3. row[i].digest # None => archive = row[i].digest
        BY <1>2 DEF DeliverInv, ArchiveKept, Named, Is, Active
  <2> QED BY <1>1, <1>2, <2>1, <2>2, <2>3
<1>4. ASSUME NEW s \in {"packing", "failed"}, Sets(i, s)
      PROVE  /\ Exists(i)' /\ row'[i].status = s /\ row'[i].digest = row[i].digest
             /\ row'[i].head = row[i].head /\ row'[i].workers = row[i].workers
             /\ \A k \in Jobs : k # i => row'[k] = row[k]
  <2>1. s \in Statuses
        BY DEF Statuses, Active, Pulling
  <2>2. /\ Exists(i)' /\ row'[i].status = s /\ row'[i] = [row[i] EXCEPT !.status = s]
        /\ \A k \in Jobs : k # i => row'[k] = row[k]
        BY <1>2, <1>4, <2>1, Written
  <2> QED BY <1>2, <2>2 DEF Row
<1>5. CASE Pull(t)
      BY <1>1, <1>2, <1>4, <1>5 DEF Pull, Sets, Pulling
<1>6. CASE PullFails(t)
      BY <1>1, <1>2, <1>4, <1>6 DEF PullFails, Sets
<1>7. CASE BeginPull(t) \/ Pack(t)
      BY <1>1, <1>2, <1>7 DEF BeginPull, Pack
<1> QED BY <1>3, <1>5, <1>6, <1>7 DEF ThreadStep

LEMMA QuietUnfinished ==
    ASSUME TypeInv, Unfinished, UNCHANGED mon,
           \A k \in Jobs : Is(k, {"completed"})' => Is(k, {"completed"})
    PROVE  Unfinished'
BY MonitorUsed DEF Unfinished

LEMMA StepUnfinished ==
    ASSUME TypeInv, WorkInv, PullInv, DeliverInv, Unfinished, NothingDisturbed, [Next]_vars
    PROVE  Unfinished'
<1>1. \A j \in Jobs : ~Pause(j) /\ ~Resume(j)
      BY DEF Pause, Resume, NothingDisturbed, NothingReturns, WorkInv, NothingPaused
<1>2. ASSUME NEW m \in Monitors, MonitorStep(m) PROVE Unfinished'
  <2>1. PICK j \in Jobs : j = mon[m].job /\ mon[m].pc # "free"
        BY <1>2, StepOutcome, MonitorUsed
  <2>2. /\ \A k \in Jobs : k # j => row'[k] = row[k]
        /\ \A k \in Monitors : k # m => mon'[k] = mon[k]
        BY <1>2, <2>1, CoroutineRow
  <2>3. mon'[m].pc # "free" => mon'[m].job = j
        BY <1>2, <2>1, StepOutcome DEF MonitorMoves, TypeInv, TypeOK
  <2>4. mon'[m].pc # "free" => ~Is(j, {"completed"})'
    <3>1. CASE row'[j] = row[j]
          BY <2>1, <3>1 DEF Unfinished, Is, Exists
    <3>2. CASE row'[j] # row[j]
          BY <1>2, <2>1, <3>2, CoroutineCompletes DEF Is
    <3> QED BY <3>1, <3>2
  <2>5. ASSUME NEW k \in Monitors, k # m, mon[k].pc # "free"
        PROVE  ~Is(mon[k].job, {"completed"})'
    <3>1. PICK i \in Jobs : i = mon[k].job
          BY <2>5, MonitorUsed
    <3>2. i # j /\ ~Is(i, {"completed"})
          BY <2>1, <2>5, <3>1 DEF WorkInv, OneCoroutine, Unfinished
    <3>3. ~Is(i, {"completed"})'
          BY <2>2, <3>2 DEF Is, Exists
    <3>4. mon'[k].job = i
          BY <2>2, <2>5, <3>1
    <3> QED BY <2>2, <2>5, <3>3, <3>4 DEF Is, Exists
  <2> QED BY <2>2, <2>3, <2>4, <2>5 DEF Unfinished
<1>3. ASSUME NEW t \in Threads, ThreadStep(t) PROVE Unfinished'
  <2>1. UNCHANGED mon /\ \A k \in Jobs : Is(k, {"completed"})' => Is(k, {"completed"})
        BY <1>3, ThreadRow DEF Is, Exists, Pulling
  <2> QED BY <2>1, QuietUnfinished
<1>4. ASSUME NEW j \in Jobs, NEW head \in Nodes \cup {None}, NEW workers \in SUBSET Nodes,
             NEW force \in BOOLEAN, NEW reg \in Builds \cup {None},
             Start(j, head, workers, force, reg)
      PROVE  Unfinished'
  <2>1. \A k \in Jobs : /\ k # j => row'[k] = row[k]
                        /\ row'[j].status = "pulling"
        BY <1>4 DEF Start, TypeInv, TypeOK
  <2>2. PICK m \in Monitors : StartMonitor(m, j, head)
        BY <1>4 DEF Start
  <2>3. /\ mon'[m].job = j /\ \A k \in Monitors : k # m => mon'[k] = mon[k]
        BY <2>2 DEF StartMonitor, TypeInv, TypeOK, IdleMonitor
  <2>4. \A k \in Jobs : Is(k, {"completed"})' => Is(k, {"completed"}) /\ k # j
        BY <2>1 DEF Is, Exists
  <2> QED BY <2>3, <2>4, MonitorUsed DEF Unfinished
<1>5. ASSUME NEW j \in Jobs, Cancel(j) \/ Delete(j) PROVE Unfinished'
  <2>1. UNCHANGED mon
        BY <1>5 DEF Cancel, Delete
  <2>2. CASE Cancel(j)
    <3>1. Sets(j, "cancelled") /\ "cancelled" \in Statuses /\ Exists(j)
          BY <2>2 DEF Cancel, Sets, Statuses, Is
    <3>2. row'[j].status = "cancelled" /\ \A i \in Jobs : i # j => row'[i] = row[i]
          BY <3>1, Written
    <3> QED BY <2>1, <3>2, QuietUnfinished DEF Is, Exists
  <2>3. CASE Delete(j)
    <3>1. row'[j] = Gone /\ \A i \in Jobs : i # j => row'[i] = row[i]
          BY <2>3 DEF Delete, TypeInv, TypeOK
    <3> QED BY <2>1, <3>1, QuietUnfinished DEF Is, Exists
  <2> QED BY <1>5, <2>2, <2>3
<1>6. CASE Crash
  <2>1. PICK f, g : Recovered(f, g)
        BY <1>6, CrashRecovers
  <2>2. ASSUME NEW m \in Monitors, mon'[m].pc # "free"
        PROVE  mon'[m].job \in Jobs /\ Is(mon'[m].job, Active)
    <3>1. PICK j \in Interrupted : f[j] = m
          BY <2>1, <2>2, Constants DEF Recovered
    <3>2. mon'[m] = [IdleMonitor EXCEPT !.job = j, !.pc = "wait", !.head = row[j].head]
          BY <2>1, <3>1 DEF Recovered
    <3> QED BY <3>1, <3>2 DEF IdleMonitor, Interrupted
  <2>3. UNCHANGED row
        BY <1>6 DEF Crash
  <2> QED BY <2>2, <2>3 DEF Unfinished, Is, Exists, Active, Pulling
<1>7. CASE UNCHANGED vars \/ DeleteLocal \/ TagMoves \/ \E n \in Nodes : Prune(n)
      BY <1>7, QuietUnfinished DEF vars, DeleteLocal, TagMoves, Prune, Is, Exists
<1> QED BY <1>1, <1>2, <1>3, <1>4, <1>5, <1>6, <1>7 DEF Next

----------------------------------------------------------------------------
(* The promise: the steps of the abstract specification.                   *)

\* Docker keeps what a transfer under way is for.
DockersKeep ==
    \A j \in Jobs : \A n \in Claim(j) :
        Item(j) # None /\ docker[n] = Item(j) => docker'[n] = docker[n]

LEMMA ClaimedNodes ==
    ASSUME TypeInv, NEW j \in Jobs
    PROVE  Claim(j) \in SUBSET Nodes
BY RowExists DEF Claim, Open, Is, Targets, Row

LEMMA KeepsAbstractly ==
    ASSUME TypeInv, TypeInv', DockersKeep
    PROVE  Transfer!NodesKeep
<1>1. [n \in Nodes |-> Holds(n)]' \in [Nodes -> SUBSET Builds]
      BY DEF Holds, TypeInv, TypeOK
<1>2. ASSUME NEW j \in Jobs, NEW n \in Claim(j), Item(j) \in Holds(n)
      PROVE  n \in Nodes /\ Item(j) \in Holds(n)'
      BY <1>2, ClaimedNodes DEF DockersKeep, Holds
<1>3. \A j \in Jobs : Claim(j) \subseteq Nodes
      BY ClaimedNodes
<1> QED BY <1>1, <1>2, <1>3 DEF Transfer!NodesKeep

Same(j) == State(j)' = State(j) /\ Claim(j)' = Claim(j) /\ Item(j)' = Item(j)

LEMMA SameRow ==
    ASSUME NEW j \in Jobs, row'[j] = row[j]
    PROVE  Same(j)
BY DEF Same, State, Claim, Item, Open, Is, Exists, Targets

\* A transfer stays open.
LEMMA StillOpen ==
    ASSUME TypeInv, NEW j \in Jobs, Open(j), Open(j)', row'[j].head = row[j].head,
           row'[j].workers = row[j].workers
    PROVE  State(j) = "open" /\ State(j)' = "open" /\ Claim(j)' = Claim(j)
<1>1. /\ row[j] \notin {None, Gone} /\ row[j].status \in Active \cup {"paused"}
      /\ row'[j] \notin {None, Gone} /\ row'[j].status \in Active \cup {"paused"}
      BY DEF Open, Is, Exists
<1>2. State(j) = "open"
      BY <1>1 DEF State, Open, Is, Exists, Active, Pulling
<1>3. State(j)' = "open"
      BY <1>1 DEF State, Open, Is, Exists, Active, Pulling
<1>4. Claim(j)' = Claim(j)
      BY <1>1 DEF Claim, Open, Is, Exists, Targets
<1> QED BY <1>2, <1>3, <1>4

\* Nothing but the nodes changes.
LEMMA StaysAbstractly ==
    ASSUME TypeInv, TypeInv', DockersKeep, \A j \in Jobs : Same(j)
    PROVE  Transfer!Next
<1>1. Transfer!NodesChange
      BY KeepsAbstractly DEF Transfer!NodesChange, Same
<1> QED BY <1>1 DEF Transfer!Next

\* Transfer j stops being open, and the others stay what they are.
LEMMA ClosesAbstractly ==
    ASSUME NEW j \in Jobs, ~Open(j)', \A k \in Jobs \ {j} : row'[k] = row[k],
           NEW s, s = State(j)', NEW d, d = Item(j)'
    PROVE  /\ Transfer!Closes(j, s)
           /\ [k \in Jobs |-> Item(k)]' = [[k \in Jobs |-> Item(k)] EXCEPT ![j] = d]
<1>1. \A k \in Jobs : k # j => Same(k)
      BY SameRow
<1>2. Claim(j)' = {}
      BY DEF Claim, Open, Is, Exists
<1> QED BY <1>1, <1>2 DEF Transfer!Closes, Same

LEMMA GivesUpAbstractly ==
    ASSUME TypeInv, TypeInv', NEW j \in Jobs, Open(j), UNCHANGED docker,
           Exists(j)', row'[j].status \in {"failed", "cancelled"}, row'[j].digest = row[j].digest,
           \A k \in Jobs \ {j} : row'[k] = row[k]
    PROVE  Transfer!Next
<1>1. /\ ~Open(j)' /\ State(j)' = "ended" /\ State(j) = "open" /\ Item(j)' = Item(j)
      BY DEF Open, State, Item, Is, Exists, Active, Pulling
<1>2. /\ Transfer!Closes(j, "ended")
      /\ [k \in Jobs |-> Item(k)]' = [k \in Jobs |-> Item(k)]
      BY <1>1, ClosesAbstractly
<1>3. Transfer!NodesKeep
      BY KeepsAbstractly DEF DockersKeep
<1>4. Transfer!GiveUp(j)
      BY <1>1, <1>2, <1>3 DEF Transfer!GiveUp
<1> QED BY <1>4 DEF Transfer!Next

LEMMA StartsAbstractly ==
    ASSUME TypeInv, TypeInv', NothingReturns, NEW j \in Jobs, NEW head \in Nodes \cup {None},
           NEW workers \in SUBSET Nodes, NEW force \in BOOLEAN,
           NEW reg \in Builds \cup {None}, Start(j, head, workers, force, reg)
    PROVE  Transfer!Next
<1> DEFINE N == workers \cup ({head} \ {None})
<1>1. /\ row[j] = None /\ UNCHANGED docker /\ N \in SUBSET Nodes
      /\ \A k \in Jobs \ {j} : Open(k) => Targets(k) \cap N = {}
      BY DEF Start, NothingReturns, Admitted, Open
<1>2. /\ \A k \in Jobs \ {j} : row'[k] = row[k]
      /\ row'[j] = [status |-> "pulling", reg |-> reg, digest |-> None, size |-> None,
                    head |-> head, workers |-> workers]
      BY DEF Start, TypeInv, TypeOK
<1>3. row'[j] \notin {None, Gone}
  <2>1. row'[j] # None
        BY <1>2, ConstantsAssumption, RowAssumption DEF Row, Statuses, Active, Pulling
  <2>2. row'[j] \in Row
        BY <1>2 DEF Row, Statuses, Active, Pulling
  <2> QED BY <2>2, RowAssumption
<1>4. /\ State(j) = "none" /\ Claim(j) = {}
      /\ State(j)' = "open" /\ Claim(j)' = N /\ Item(j)' = None
  <2>1. /\ row'[j].status = "pulling" /\ row'[j].head = head /\ row'[j].workers = workers
        /\ row'[j].digest = None
        BY <1>2
  <2>2. Open(j)' /\ ~Open(j)
        BY <1>1, <1>3, <2>1 DEF Open, Is, Exists, Active, Pulling
  <2>3. State(j) = "none" /\ Claim(j) = {}
        BY <1>1, <2>2, ConstantsAssumption DEF State, Claim, Open, Is, Exists
  <2>4. State(j)' = "open"
        BY <1>3, <2>1 DEF State, Open, Is, Exists, Active, Pulling
  <2>5. Claim(j)' = N
        BY <2>1, <2>2 DEF Claim, Targets, Open, Is, Exists
  <2>6. Item(j)' = None
        BY <2>1 DEF Item
  <2> QED BY <2>3, <2>4, <2>5, <2>6
<1>5. \A k \in Jobs : k # j => Same(k)
      BY <1>2, SameRow
<1>6. \A k \in Jobs : Claim(k) \cap N = {}
      BY <1>1, <1>4 DEF Claim, Open, Is, Exists
<1>7. Transfer!Start(j)
  <2>1. /\ [k \in Jobs |-> State(k)]' = [[k \in Jobs |-> State(k)] EXCEPT ![j] = "open"]
        /\ [k \in Jobs |-> Claim(k)]' = [[k \in Jobs |-> Claim(k)] EXCEPT ![j] = N]
        /\ [k \in Jobs |-> Item(k)]' = [[k \in Jobs |-> Item(k)] EXCEPT ![j] = None]
        BY <1>4, <1>5 DEF Same
  <2>2. [n \in Nodes |-> Holds(n)]' = [n \in Nodes |-> Holds(n)]
        BY <1>1 DEF Holds
  <2> HIDE DEF N
  <2> QED BY <1>1, <1>4, <1>6, <2>1, <2>2 DEF Transfer!Start
<1> QED BY <1>7 DEF Transfer!Next

LEMMA WithdrawsAbstractly ==
    ASSUME TypeInv, TypeInv', NEW j \in Jobs, Cancel(j) \/ Delete(j)
    PROVE  Transfer!Next
<1>1. CASE Cancel(j)
  <2>1. /\ Sets(j, "cancelled") /\ "cancelled" \in Statuses /\ Exists(j) /\ UNCHANGED docker
        /\ Open(j)
        BY <1>1 DEF Cancel, Sets, Statuses, Is, Open
  <2>2. /\ row'[j].status = "cancelled" /\ \A i \in Jobs : i # j => row'[i] = row[i]
        /\ row'[j] = [row[j] EXCEPT !.status = "cancelled"] /\ Exists(j)'
        BY <2>1, Written
  <2>3. row'[j].digest = row[j].digest
        BY <2>1, <2>2, RowExists DEF Row
  <2> QED BY <2>1, <2>2, <2>3, GivesUpAbstractly
<1>2. CASE Delete(j)
  <2>1. /\ row'[j] = Gone /\ \A i \in Jobs : i # j => row'[i] = row[i]
        /\ Exists(j) /\ UNCHANGED docker
        BY <1>2 DEF Delete, TypeInv, TypeOK
  <2>2. /\ State(j)' = "removed" /\ Item(j)' = None /\ ~Open(j)'
        /\ State(j) \in {"open", "completed", "ended"}
        BY <2>1, Constants DEF State, Item, Open, Is, Exists
  <2>3. [n \in Nodes |-> Holds(n)]' = [n \in Nodes |-> Holds(n)]
        BY <2>1 DEF Holds
  <2>4. Transfer!Remove(j)
        BY <2>1, <2>2, <2>3, ClosesAbstractly DEF Transfer!Remove
  <2> QED BY <2>4 DEF Transfer!Next
<1> QED BY <1>1, <1>2

\* What is loaded is the archive, which is what every transfer under way is for.
LEMMA LoadKeeps ==
    ASSUME TypeInv, WorkInv, DeliverInv, NEW m \in Monitors, NEW n \in Nodes, Load(m, n)
    PROVE  DockersKeep
<1>1. mon[m].pc = "load" /\ \A k \in Nodes : k # n \/ docker'[n] # mon[m].d => docker'[k] = docker[k]
      BY DEF Load, agents, TypeInv, TypeOK
<1>2. PICK i \in Jobs : i = mon[m].job
      BY <1>1, MonitorUsed
<1>3. Named(i) /\ mon[m].d = row[i].digest
  <2>1. Is(i, {"loading"}) /\ mon[m].d = row[i].digest
        BY <1>1, <1>2 DEF DeliverInv, CoroutinesSound, Sound, Loads
  <2> QED BY <2>1 DEF DeliverInv, RowsSound, Named, Is, Active, Pulling
<1>4. ASSUME NEW j \in Jobs, NEW k \in Claim(j), Item(j) # None, docker[k] = Item(j)
      PROVE  docker'[k] = docker[k]
  <2>1. Named(j) /\ Item(j) = row[j].digest /\ k \in Nodes
        BY <1>4, ClaimedNodes DEF Claim, Item, Open, Is, Exists, Named, WorkInv, NothingPaused
  <2>2. mon[m].d = docker[k]
        BY <1>3, <1>4, <2>1, NamedKeeps
  <2> QED BY <1>1, <2>1, <2>2
<1> QED BY <1>4 DEF DockersKeep

LEMMA PruneKeeps ==
    ASSUME TypeInv, NothingDisturbed, NEW n \in Nodes, Prune(n)
    PROVE  DockersKeep
<1>1. \A k \in Nodes : k # n => docker'[k] = docker[k]
      BY DEF Prune, TypeInv, TypeOK
<1>2. \A j \in Jobs : n \notin Claim(j)
      BY DEF Prune, NothingDisturbed, Claim, Open, Is, Exists
<1>3. \A j \in Jobs : \A k \in Claim(j) : k # n /\ k \in Nodes
      BY <1>2, ClaimedNodes
<1> QED BY <1>1, <1>3 DEF DockersKeep

LEMMA ThreadAbstractly ==
    ASSUME TypeInv, TypeInv', WorkInv, PullInv, DeliverInv, NEW t \in Threads, ThreadStep(t)
    PROVE  Transfer!Next
<1>1. PICK i \in Jobs :
        /\ Is(i, Pulling) /\ \A k \in Jobs : k # i => row'[k] = row[k]
        /\ \/ row'[i] = row[i]
           \/ /\ Exists(i)' /\ row'[i].status \in Pulling \cup {"failed"}
              /\ row'[i].head = row[i].head /\ row'[i].workers = row[i].workers
              /\ \/ row'[i].digest = row[i].digest
                 \/ /\ row[i].digest = None /\ row'[i].digest \in Builds
                    /\ row'[i].status = row[i].status
      BY ThreadRow
<1>2. UNCHANGED docker /\ DockersKeep
      BY ThreadRow DEF DockersKeep
<1>3. \A k \in Jobs : k # i => Same(k)
      BY <1>1, SameRow
<1>4. Open(i) /\ Exists(i)
      BY <1>1 DEF Open, Is, Exists, Active
<1>5. CASE row'[i] = row[i]
  <2>1. Same(i)
        BY <1>5, SameRow
  <2> QED BY <1>2, <1>3, <2>1, StaysAbstractly
<1>6. CASE /\ Exists(i)' /\ row'[i].status = "failed" /\ row'[i].digest = row[i].digest
      BY <1>1, <1>2, <1>4, <1>6, GivesUpAbstractly
<1>7. CASE /\ Exists(i)' /\ row'[i].status \in Pulling
           /\ row'[i].head = row[i].head /\ row'[i].workers = row[i].workers
  <2>1. Open(i)'
        BY <1>7 DEF Open, Is, Exists, Active
  <2>2. State(i) = "open" /\ State(i)' = "open" /\ Claim(i)' = Claim(i)
        BY <1>4, <1>7, <2>1, StillOpen
  <2>3. Item(i) = row[i].digest /\ Item(i)' = row'[i].digest
        BY <1>4, <1>7 DEF Item
  <2>4. CASE row'[i].digest = row[i].digest
    <3>1. Same(i)
          BY <2>2, <2>3, <2>4 DEF Same
    <3> QED BY <1>2, <1>3, <3>1, StaysAbstractly
  <2>5. CASE row[i].digest = None /\ row'[i].digest \in Builds
    <3>1. /\ [k \in Jobs |-> State(k)]' = [k \in Jobs |-> State(k)]
          /\ [k \in Jobs |-> Claim(k)]' = [k \in Jobs |-> Claim(k)]
          BY <1>3, <2>2 DEF Same
    <3>2. PICK d \in Builds : d = row'[i].digest
          BY <2>5
    <3>3. [k \in Jobs |-> Item(k)]' = [[k \in Jobs |-> Item(k)] EXCEPT ![i] = d]
          BY <1>3, <2>3, <3>2 DEF Same
    <3>4. [n \in Nodes |-> Holds(n)]' = [n \in Nodes |-> Holds(n)]
          BY <1>2 DEF Holds
    <3>5. Transfer!Name(i)
          BY <2>2, <2>3, <2>5, <3>1, <3>3, <3>4 DEF Transfer!Name
    <3> QED BY <3>5 DEF Transfer!Next
  <2> QED BY <1>1, <1>7, <2>4, <2>5
<1>8. CASE /\ Exists(i)' /\ row'[i].status = "failed" /\ row'[i].digest # row[i].digest
  <2>1. row[i].status = "failed"
        BY <1>1, <1>8
  <2> QED BY <1>1, <2>1 DEF Is, Pulling
<1> QED BY <1>1, <1>5, <1>6, <1>7, <1>8

\* A coroutine loads, or it writes its row.
LEMMA CoroutineLoads ==
    ASSUME NEW m \in Monitors, MonitorStep(m)
    PROVE  UNCHANGED docker \/ \E n \in Nodes : Load(m, n) /\ UNCHANGED row
BY DEF MonitorStep, RowGone, Wait, Check, Send, Share, SyncEnd, LoadEnd, Fetch, Load, Got

LEMMA CoroutineAbstractly ==
    ASSUME TypeInv, TypeInv', WorkInv, PullInv, DeliverInv, Unfinished, NothingDisturbed,
           NEW m \in Monitors, MonitorStep(m)
    PROVE  Transfer!Next
<1>1. PICK j \in Jobs : j = mon[m].job /\ mon[m].pc # "free"
      BY StepOutcome, MonitorUsed
<1>2. /\ \A k \in Jobs : k # j => row'[k] = row[k]
      /\ \/ row'[j] = row[j]
         \/ /\ Exists(j) /\ Exists(j)' /\ row'[j].digest = row[j].digest
            /\ row'[j].head = row[j].head /\ row'[j].workers = row[j].workers
            /\ \/ row'[j].status \in {"failed", "completed"}
               \/ row'[j].status \in {"sending", "syncing", "loading"} /\ Named(j)
      BY <1>1, CoroutineRow
<1>3. \A k \in Jobs : k # j => Same(k)
      BY <1>2, SameRow
<1>4. CASE row'[j] = row[j]
  <2>1. DockersKeep
        BY CoroutineLoads, LoadKeeps DEF DockersKeep
  <2>2. Same(j)
        BY <1>4, SameRow
  <2> QED BY <1>3, <2>1, <2>2, StaysAbstractly
<1>5. ASSUME row'[j] # row[j]
      PROVE  /\ UNCHANGED docker /\ DockersKeep /\ ~Is(j, {"completed"})
             /\ Item(j)' = Item(j) /\ Exists(j) /\ Exists(j)'
  <2>1. UNCHANGED docker
        BY <1>5, CoroutineLoads
  <2>2. ~Is(j, {"completed"})
        BY <1>1 DEF Unfinished
  <2>3. Exists(j) /\ Exists(j)' /\ row'[j].digest = row[j].digest
        BY <1>2, <1>5
  <2>4. Item(j)' = Item(j)
        BY <2>3 DEF Item
  <2> QED BY <2>1, <2>2, <2>3, <2>4 DEF DockersKeep
<1>6. CASE row'[j] # row[j] /\ row'[j].status \in {"sending", "syncing", "loading"}
  <2>1. Open(j) /\ Open(j)'
        BY <1>2, <1>5, <1>6 DEF Open, Is, Exists, Named, Active
  <2>2. Same(j)
        BY <1>2, <1>5, <1>6, <2>1, StillOpen DEF Same
  <2> QED BY <1>3, <1>5, <1>6, <2>2, StaysAbstractly
<1>7. CASE row'[j] # row[j] /\ row'[j].status = "failed"
  <2>1. CASE Open(j)
        BY <1>2, <1>5, <1>7, <2>1, GivesUpAbstractly
  <2>2. CASE ~Open(j)
    <3>1. ~Open(j)' /\ ~Is(j, {"completed"})'
          BY <1>7 DEF Open, Is, Exists, Active, Pulling
    <3>2. State(j) = "ended" /\ State(j)' = "ended" /\ Claim(j) = {} /\ Claim(j)' = {}
          BY <1>5, <1>7, <2>2, <3>1 DEF State, Claim, Open, Is, Exists
    <3>3. Same(j)
          BY <1>5, <1>7, <3>2 DEF Same
    <3> QED BY <1>3, <1>5, <1>7, <3>3, StaysAbstractly
  <2> QED BY <2>1, <2>2
<1>8. CASE row'[j] # row[j] /\ row'[j].status = "completed"
  <2>1. Completes(j) /\ [Next]_vars
        BY <1>1, <1>8, CoroutineCompletes DEF Next
  <2>2. Named(j) /\ \A n \in Targets(j) : docker'[n] = row'[j].digest
        BY <2>1, CompletesDelivered
  <2>3. Open(j) /\ ~Open(j)' /\ Targets(j) \subseteq Nodes
        BY <1>5, <1>8, <2>2, RowExists DEF Open, Is, Exists, Named, Active, Pulling, Row, Targets
  <2>4. State(j) = "open" /\ State(j)' = "completed" /\ Claim(j) = Targets(j)
        BY <1>5, <1>8, <2>3 DEF State, Claim, Open, Is, Exists, Active, Pulling
  <2>5. Item(j) = row[j].digest /\ Item(j) # None /\ \A n \in Claim(j) : Item(j) \in Holds(n)
        BY <1>2, <1>5, <1>8, <2>2, <2>4 DEF Item, Holds, Named
  <2>6. /\ Transfer!Closes(j, "completed")
        /\ [k \in Jobs |-> Item(k)]' = [[k \in Jobs |-> Item(k)] EXCEPT ![j] = Item(j)]
    <3>1. PICK d : d = Item(j)
          OBVIOUS
    <3>2. /\ Transfer!Closes(j, "completed")
          /\ [k \in Jobs |-> Item(k)]' = [[k \in Jobs |-> Item(k)] EXCEPT ![j] = d]
          BY <1>2, <1>5, <1>8, <2>3, <2>4, <3>1, ClosesAbstractly
    <3> QED BY <3>1, <3>2
  <2>7. [k \in Jobs |-> Item(k)]' = [k \in Jobs |-> Item(k)]
        BY <2>6
  <2>8. [n \in Nodes |-> Holds(n)]' = [n \in Nodes |-> Holds(n)]
        BY <1>5, <1>8 DEF Holds
  <2>9. \A n \in Claim(j) : n \in Nodes
        BY <2>3, <2>4
  <2>10. Transfer!Complete(j)
        BY <2>4, <2>5, <2>6, <2>7, <2>8, <2>9 DEF Transfer!Complete
  <2> QED BY <2>10 DEF Transfer!Next
<1> QED BY <1>2, <1>4, <1>6, <1>7, <1>8

LEMMA StepAbstractly ==
    ASSUME TypeInv, TypeInv', WorkInv, PullInv, DeliverInv, Unfinished, NothingDisturbed,
           [Next]_vars
    PROVE  [Transfer!Next]_(Transfer!vars)
<1>1. \A j \in Jobs : ~Pause(j) /\ ~Resume(j)
      BY DEF Pause, Resume, NothingDisturbed, NothingReturns, WorkInv, NothingPaused
<1>2. CASE UNCHANGED vars
  <2>1. \A j \in Jobs : Same(j)
        BY <1>2, SameRow DEF vars
  <2>2. DockersKeep
        BY <1>2 DEF vars, DockersKeep
  <2> QED BY <2>1, <2>2, StaysAbstractly
<1>3. CASE DeleteLocal \/ TagMoves \/ Crash
  <2>1. UNCHANGED <<row, docker>>
        BY <1>3 DEF DeleteLocal, TagMoves, Crash
  <2>2. \A j \in Jobs : Same(j)
        BY <2>1, SameRow
  <2>3. DockersKeep
        BY <2>1 DEF DockersKeep
  <2> QED BY <2>2, <2>3, StaysAbstractly
<1>4. ASSUME NEW n \in Nodes, Prune(n) PROVE Transfer!Next
  <2>1. UNCHANGED row
        BY <1>4 DEF Prune
  <2>2. \A j \in Jobs : Same(j)
        BY <2>1, SameRow
  <2> QED BY <1>4, <2>2, PruneKeeps, StaysAbstractly
<1>5. ASSUME NEW j \in Jobs, NEW head \in Nodes \cup {None}, NEW workers \in SUBSET Nodes,
             NEW force \in BOOLEAN, NEW reg \in Builds \cup {None},
             Start(j, head, workers, force, reg)
      PROVE  Transfer!Next
      BY <1>5, StartsAbstractly DEF NothingDisturbed
<1>6. ASSUME NEW j \in Jobs, Cancel(j) \/ Delete(j) PROVE Transfer!Next
      BY <1>6, WithdrawsAbstractly
<1>7. ASSUME NEW t \in Threads, ThreadStep(t) PROVE Transfer!Next
      BY <1>7, ThreadAbstractly
<1>8. ASSUME NEW m \in Monitors, MonitorStep(m) PROVE Transfer!Next
      BY <1>8, CoroutineAbstractly
<1> QED BY <1>1, <1>2, <1>3, <1>4, <1>5, <1>6, <1>7, <1>8 DEF Next

\* The transfers implement TransferJob when nothing disturbs them: admission gives each its
\* nodes until it ends, the mark of its thread settles its build, docker loses no build that
\* an open transfer is for, and coroutines neither complete nor revive what has ended.
THEOREM Refinement ==
    ASSUME NothingDisturbed
    PROVE  Spec => Implements
<1>1. Init => Transfer!Init
  <2> SUFFICES ASSUME Init PROVE Transfer!Init
      OBVIOUS
  <2>1. /\ \A j \in Jobs : State(j) = "none" /\ Claim(j) = {} /\ Item(j) = None
        /\ \A n \in Nodes : Holds(n) = {}
        BY Constants DEF Init, State, Claim, Item, Holds, Open, Is, Exists
  <2> QED BY <2>1 DEF Transfer!Init
<1>2. Init => Unfinished
      BY Constants DEF Init, Unfinished
<1>3. TypeInv /\ TypeInv' /\ WorkInv /\ PullInv /\ DeliverInv /\ Unfinished /\ [Next]_vars =>
        /\ WorkInv' /\ PullInv' /\ DeliverInv' /\ Unfinished'
        /\ [Transfer!Next]_(Transfer!vars)
      BY StepPulls, StepDelivers, StepUnfinished, StepAbstractly
<1> QED BY InitTyped, StepKeepsTypes, InitWorks, InitPulls, InitDelivers, <1>1, <1>2, <1>3, PTL
        DEF Spec, Implements, Transfer!Spec
=============================================================================
