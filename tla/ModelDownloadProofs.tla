------------------------ MODULE ModelDownloadProofs ------------------------
(* Theorems about ModelDownload, for every choice of its constants.        *)
EXTENDS ModelDownload, TLAPS

USE DEF jobVars, cacheVars, threadVars

LEMMA TypeInit == Init => TypeOK
<1> SUFFICES ASSUME Init PROVE TypeOK
    OBVIOUS
<1>1. JobsOK BY DEF Init, JobsOK, Version
<1>2. CacheOK BY DEF Init, CacheOK, Version
<1>3. ThreadsOK BY DEF Init, ThreadsOK, ThreadRecord, DeadThread, ThreadPcs, Version
<1>4. MonitorsOK BY DEF Init, MonitorsOK, MonitorRecord, FreeMonitor
<1>5. RequestsOK BY DEF Init, RequestsOK, RequestRecord, Idle, Version
<1> QED BY <1>1, <1>2, <1>3, <1>4, <1>5 DEF TypeOK

----------------------------------------------------------------------------
(* What a step does to the threads, whichever action takes it.             *)

StartsOne == \E j \in Jobs, f \in Version : StartLocalDownload(j, f) /\ UNCHANGED watch
Signals   == \E j \in Jobs : SignalCancel(j) /\ UNCHANGED <<thr, reg, watch>>
Takes     == \E pcs, shas : Losing(pcs, shas) /\ UNCHANGED <<reg, ev, watch>>
Watches   == /\ \E t \in Threads, j \in Jobs : watch' = [watch EXCEPT ![t] = j]
             /\ UNCHANGED threadVars

PlainMoves ==
    \/ UNCHANGED <<thr, reg, ev, watch>>
    \/ StartsOne \/ Signals \/ Watches \/ Crash
    \/ \E t \in Threads : WatchdogWakes(t)
    \/ \E t \in Threads : ThreadStep(t) /\ UNCHANGED watch
ThreadMoves == PlainMoves \/ Takes

LEMMA RequestMoves ==
    ASSUME TypeOK, NEW r \in Requests,
           RequestStep(r)
    PROVE  PlainMoves \/ PruneDelete(r) \/ RemoveTree(r)
<1>1. CASE StartResolved(r) BY <1>1 DEF StartResolved, PlainMoves
<1>2. CASE StartInsert(r)
      BY <1>2 DEF StartInsert, StartIf, PlainMoves, StartsOne, TypeOK, RequestsOK, RequestRecord
<1>3. CASE ResumeJoined(r)
      BY <1>3 DEF ResumeJoined, StartIf, PlainMoves, StartsOne, TypeOK, RequestsOK, Version
<1>4. CASE RetryJoined(r)
      BY <1>4 DEF RetryJoined, Retried, StartIf, PlainMoves, StartsOne, TypeOK, RequestsOK, Version
<1>5. CASE SettingsSignal(r)
      BY <1>5 DEF SettingsSignal, PlainMoves, Signals, TypeOK, RequestsOK, RequestRecord
<1>6. CASE SettingsJoined(r)
      BY <1>6 DEF SettingsJoined, PlainMoves, Watches, TypeOK, RequestsOK, ThreadsOK
<1>7. CASE SettingsStart(r)
      BY <1>7 DEF SettingsStart, PlainMoves, StartsOne, TypeOK, RequestsOK, Version
<1> QED BY <1>1, <1>2, <1>3, <1>4, <1>5, <1>6, <1>7 DEF RequestStep

LEMMA OtherMoves ==
    ASSUME TypeOK, Next, ~(\E r \in Requests : RequestStep(r))
    PROVE  PlainMoves
<1>1. ASSUME NEW r \in Requests, NEW f \in BOOLEAN, StartMain(r, f) PROVE PlainMoves
      BY <1>1 DEF StartMain, PlainMoves
<1>2. ASSUME NEW r \in Requests, NEW v \in Versions, StartPinned(r, v) PROVE PlainMoves
      BY <1>2 DEF StartPinned, PlainMoves
<1>3. ASSUME NEW r \in Requests, NEW j \in Jobs, Resume(r, j) PROVE PlainMoves
      BY <1>3 DEF Resume, PlainMoves, StartsOne, Version
<1>4. ASSUME NEW r \in Requests, NEW j \in Jobs, Retry(r, j) PROVE PlainMoves
      BY <1>4 DEF Retry, Retried, StartIf, PlainMoves, StartsOne, Signals, Version
<1>5. ASSUME NEW r \in Requests, SettingsRead(r) \/ Prune(r) \/ RemoveCache(r)
      PROVE  PlainMoves
      BY <1>5 DEF SettingsRead, Prune, RemoveCache, PlainMoves
<1>6. ASSUME NEW j \in Jobs, Pause(j) \/ Cancel(j) \/ Delete(j) PROVE PlainMoves
      BY <1>6 DEF Pause, Cancel, Delete, PlainMoves, Signals
<1>7. CASE RemoteMoves BY <1>7 DEF RemoteMoves, PlainMoves
<1>8. CASE Crash BY <1>8 DEF PlainMoves
<1>9. ASSUME NEW t \in Threads, WatchdogWakes(t) PROVE PlainMoves
      BY <1>9 DEF PlainMoves
<1>10. ASSUME NEW t \in Threads, ThreadStep(t) PROVE PlainMoves
  <2>1. UNCHANGED watch
        BY <1>10 DEF ThreadStep, ThreadBegin, ThreadManifest, ThreadCancelled, ThreadBlobs,
             ThreadRaises, ThreadWriteRef, ThreadLayout, ThreadRecordSha,
             ThreadRecordFailure, ThreadPopThread, ThreadPopEvent
  <2> QED BY <1>10, <2>1 DEF PlainMoves
<1>11. ASSUME NEW m \in Monitors, MonitorStep(m) PROVE PlainMoves
       BY <1>11 DEF MonitorStep, MonitorPoll, MonitorComplete, PlainMoves
<1>12. ASSUME NEW j \in Jobs, ResumeMonitor(j) PROVE PlainMoves
       BY <1>12 DEF ResumeMonitor, StartIf, PlainMoves, StartsOne, TypeOK, JobsOK
<1> QED
    BY <1>1, <1>2, <1>3, <1>4, <1>5, <1>6, <1>7, <1>8, <1>9, <1>10, <1>11, <1>12
       DEF Next, Environment, System

LEMMA EveryMove == TypeOK /\ [Next]_vars => ThreadMoves
<1>1. ASSUME NEW r \in Requests, PruneDelete(r) \/ RemoveTree(r) PROVE Takes
      BY <1>1 DEF PruneDelete, RemoveTree, Takes
<1>2. UNCHANGED vars => PlainMoves
      BY DEF vars, PlainMoves
<1> QED BY <1>1, <1>2, RequestMoves, OtherMoves DEF ThreadMoves, PlainMoves

----------------------------------------------------------------------------
(* Types are preserved, part by part.                                      *)

(* Replacing one thread's record by a well-typed one keeps ThreadsOK.      *)
Sound(q) == /\ q \in ThreadRecord
            /\ q.pc # "dead" => q.job \in Jobs
            /\ q.pc \in {"blobs", "ref", "layout", "record"} => q.sha \in Versions

LEMMA Replaced ==
    ASSUME ThreadsOK, NEW t \in Threads, NEW q, Sound(q), thr' = [thr EXCEPT ![t] = q],
           reg' \in [Jobs -> Threads \cup {NoThread}],
           ev' \in [Jobs -> {"none", "clear", "set"}],
           watch' \in [Threads -> Jobs \cup {NoJob}]
    PROVE  ThreadsOK'
  BY DEF ThreadsOK, Sound

LEMMA NewThreadSound ==
    ASSUME NEW j \in Jobs, NEW f \in Version
    PROVE  Sound([DeadThread EXCEPT !.job = j, !.pc = "new", !.fetch = f])
  BY DEF Sound, DeadThread, ThreadRecord, ThreadPcs, Version

LEMMA StartTyped ==
    ASSUME ThreadsOK, NEW j \in Jobs, NEW f \in Version, StartLocalDownload(j, f),
           watch' \in [Threads -> Jobs \cup {NoJob}]
    PROVE  ThreadsOK'
<1>1. PICK t \in Threads :
        /\ thr' = [thr EXCEPT ![t] = [DeadThread EXCEPT !.job = j, !.pc = "new", !.fetch = f]]
        /\ reg' = [reg EXCEPT ![j] = t]
        /\ ev' = [ev EXCEPT ![j] = "clear"]
      BY DEF StartLocalDownload
<1> DEFINE new == [DeadThread EXCEPT !.job = j, !.pc = "new", !.fetch = f]
<1>2. Sound(new)
      BY NewThreadSound
<1>3. thr' = [thr EXCEPT ![t] = new]
      BY <1>1
<1> HIDE DEF new
<1> QED BY <1>1, <1>2, <1>3, Replaced DEF ThreadsOK

LEMMA StepTyped ==
    ASSUME ThreadsOK, CacheOK, NEW t \in Threads, ThreadStep(t), UNCHANGED watch
    PROVE  ThreadsOK'
<1> USE DEF ThreadsOK, ThreadRecord, ThreadPcs
<1>1. CASE ThreadBegin(t)
  <2> DEFINE held == IF ev[thr[t].job] = "none" THEN "clear" ELSE "reg"
             q == [thr[t] EXCEPT !.pc = "manifest", !.ev = held]
  <2>1. thr' = [thr EXCEPT ![t] = q] /\ UNCHANGED <<reg, ev>>
        BY <1>1 DEF ThreadBegin
  <2>2. Sound(q)
        BY <1>1 DEF ThreadBegin, Sound
  <2> HIDE DEF q
  <2> QED BY <2>1, <2>2, Replaced
<1>2. CASE ThreadManifest(t)
  <2> DEFINE sha == IF thr[t].fetch = NoVersion THEN remote ELSE thr[t].fetch
             q == [thr[t] EXCEPT !.pc = "blobs", !.sha = sha]
  <2>1. thr' = [thr EXCEPT ![t] = q] /\ UNCHANGED <<reg, ev>>
        BY <1>2 DEF ThreadManifest
  <2>2. Sound(q)
        BY <1>2 DEF ThreadManifest, Sound, CacheOK, Version
  <2> HIDE DEF q
  <2> QED BY <2>1, <2>2, Replaced
<1>3. CASE ThreadCancelled(t) BY <1>3 DEF ThreadCancelled, Step
<1>4. CASE ThreadBlobs(t) BY <1>4 DEF ThreadBlobs, Step
<1>5. CASE ThreadRaises(t) BY <1>5 DEF ThreadRaises, Step
<1>6. CASE ThreadWriteRef(t) BY <1>6 DEF ThreadWriteRef, Step
<1>7. CASE ThreadLayout(t) BY <1>7 DEF ThreadLayout, Step
<1>8. CASE ThreadRecordSha(t) BY <1>8 DEF ThreadRecordSha, Step
<1>9. CASE ThreadRecordFailure(t) BY <1>9 DEF ThreadRecordFailure, Step
<1>10. CASE ThreadPopThread(t) BY <1>10 DEF ThreadPopThread, Step
<1>11. CASE ThreadPopEvent(t)
  <2> DEFINE flag == IF ev[thr[t].job] = "set" THEN "set" ELSE "clear"
  <2>1. ASSUME NEW u \in Threads PROVE Sound(thr'[u])
    <3>1. CASE thr'[u] = DeadThread BY <3>1 DEF Sound, DeadThread, Version
    <3>2. CASE thr'[u] = thr[u] BY <3>2 DEF Sound
    <3>3. CASE thr'[u] = [thr[u] EXCEPT !.ev = flag]
          BY <3>3 DEF Sound
    <3> QED BY <1>11, <3>1, <3>2, <3>3 DEF ThreadPopEvent
  <2> QED BY <1>11, <2>1 DEF ThreadPopEvent, Sound
<1> QED BY <1>1, <1>2, <1>3, <1>4, <1>5, <1>6, <1>7, <1>8, <1>9, <1>10, <1>11
        DEF ThreadStep

LEMMA ThreadsTyped == ASSUME TypeOK, ThreadMoves PROVE ThreadsOK'
<1> USE DEF TypeOK
<1>1. CASE UNCHANGED <<thr, reg, ev, watch>> BY <1>1 DEF ThreadsOK
<1>2. CASE StartsOne BY <1>2, StartTyped DEF StartsOne, ThreadsOK
<1>3. CASE Signals BY <1>3 DEF Signals, SignalCancel, ThreadsOK
<1>4. CASE Takes
  <2>1. ASSUME NEW u \in Threads PROVE Sound(thr'[u])
    <3>1. CASE thr'[u] = thr[u] BY <3>1 DEF Sound, ThreadsOK
    <3>2. CASE thr'[u] = [thr[u] EXCEPT !.files = "lost"]
          BY <3>2 DEF Sound, ThreadsOK, ThreadRecord
    <3>3. PICK pcs, shas : Losing(pcs, shas)
          BY <1>4 DEF Takes
    <3> DEFINE hit == thr[u].pc \in pcs /\ thr[u].sha \in shas
    <3>4. CASE hit
      <4>1. thr'[u] = [thr[u] EXCEPT !.files = "lost"]
            BY <3>3, <3>4, Zenon DEF Losing
      <4> QED BY <4>1, <3>2
    <3>5. CASE ~hit
      <4>1. thr'[u] = thr[u]
            BY <3>3, <3>5, Zenon DEF Losing
      <4> QED BY <4>1, <3>1
    <3> QED BY <3>4, <3>5
  <2>2. thr' = [t \in Threads |-> thr'[t]]
        BY <1>4 DEF Takes, Losing
  <2>3. thr' \in [Threads -> ThreadRecord]
        BY <2>1, <2>2 DEF Sound
  <2> QED BY <1>4, <2>1, <2>3 DEF Takes, Sound, ThreadsOK
<1>5. CASE Watches BY <1>5 DEF Watches, ThreadsOK
<1>6. CASE Crash BY <1>6 DEF Crash, ThreadsOK, ThreadRecord, DeadThread, ThreadPcs, Version
<1>7. ASSUME NEW t \in Threads, WatchdogWakes(t) PROVE ThreadsOK'
  <2>1. watch' \in [Threads -> Jobs \cup {NoJob}]
        BY <1>7 DEF WatchdogWakes, ThreadsOK
  <2>2. watch[t] \in Jobs
        BY <1>7 DEF WatchdogWakes, ThreadsOK
  <2>3. CASE StartLocalDownload(watch[t], NoVersion)
        BY <2>1, <2>2, <2>3, StartTyped DEF Version
  <2>4. CASE UNCHANGED threadVars BY <2>1, <2>4 DEF ThreadsOK
  <2> QED BY <1>7, <2>3, <2>4 DEF WatchdogWakes, StartIf
<1>8. ASSUME NEW t \in Threads, ThreadStep(t), UNCHANGED watch PROVE ThreadsOK'
      BY <1>8, StepTyped
<1> QED BY <1>1, <1>2, <1>3, <1>4, <1>5, <1>6, <1>7, <1>8 DEF ThreadMoves, PlainMoves

LEMMA JobsTyped == ASSUME TypeOK, Next PROVE JobsOK'
<1> USE DEF TypeOK, JobsOK
<1>1. ASSUME NEW r \in Requests, RequestStep(r) PROVE JobsOK'
  <2>1. CASE StartInsert(r)
    <3>1. req[r].ask \in Version /\ req[r].tgt \in Version
          BY DEF RequestsOK, RequestRecord
    <3> QED BY <2>1, <3>1 DEF StartInsert
  <2> QED BY <1>1, <2>1 DEF RequestStep, StartResolved, ResumeJoined, RetryJoined, Retried,
           SettingsSignal, SettingsJoined, SettingsStart, PruneDelete, RemoveTree
<1>2. ASSUME NEW t \in Threads, ThreadStep(t) PROVE JobsOK'
  <2>1. CASE ThreadRecordSha(t)
    <3>1. thr[t].sha \in Version
          BY DEF ThreadsOK, ThreadRecord
    <3> QED BY <2>1, <3>1 DEF ThreadRecordSha
  <2>2. CASE ThreadRecordFailure(t) BY <2>2 DEF ThreadRecordFailure
  <2> QED BY <1>2, <2>1, <2>2 DEF ThreadStep, ThreadBegin, ThreadManifest,
           ThreadCancelled, ThreadBlobs, ThreadRaises, ThreadWriteRef, ThreadLayout,
           ThreadPopThread, ThreadPopEvent
<1>3. ASSUME NEW r \in Requests, NEW f \in BOOLEAN, StartMain(r, f) PROVE JobsOK'
      BY <1>3 DEF StartMain
<1>4. ASSUME NEW r \in Requests, NEW v \in Versions, StartPinned(r, v) PROVE JobsOK'
      BY <1>4 DEF StartPinned
<1>5. ASSUME NEW r \in Requests, NEW j \in Jobs, Resume(r, j) \/ Retry(r, j) PROVE JobsOK'
      BY <1>5 DEF Resume, Retry, Retried
<1>6. ASSUME NEW r \in Requests, SettingsRead(r) \/ Prune(r) \/ RemoveCache(r) PROVE JobsOK'
      BY <1>6 DEF SettingsRead, Prune, RemoveCache
<1>7. ASSUME NEW j \in Jobs, Pause(j) \/ Cancel(j) \/ Delete(j) PROVE JobsOK'
      BY <1>7 DEF Pause, Cancel, Delete
<1>8. CASE RemoteMoves \/ Crash BY <1>8 DEF RemoteMoves, Crash
<1>9. ASSUME NEW t \in Threads, WatchdogWakes(t) PROVE JobsOK'
      BY <1>9 DEF WatchdogWakes
<1>10. ASSUME NEW m \in Monitors, MonitorStep(m) PROVE JobsOK'
       BY <1>10 DEF MonitorStep, MonitorPoll, MonitorComplete, MonitorsOK
<1>11. ASSUME NEW j \in Jobs, ResumeMonitor(j) PROVE JobsOK'
       BY <1>11 DEF ResumeMonitor
<1> QED BY <1>1, <1>2, <1>3, <1>4, <1>5, <1>6, <1>7, <1>8, <1>9, <1>10, <1>11
        DEF Next, Environment, System

LEMMA CacheTyped == ASSUME TypeOK, Next PROVE CacheOK'
<1> USE DEF TypeOK, CacheOK
<1>1. ASSUME NEW r \in Requests, RequestStep(r) PROVE CacheOK'
      BY <1>1 DEF RequestStep, StartResolved, StartInsert, ResumeJoined, RetryJoined, Retried,
           SettingsSignal, SettingsJoined, SettingsStart, PruneDelete, RemoveTree, Version
<1>2. ASSUME NEW t \in Threads, ThreadStep(t) PROVE CacheOK'
  <2>1. CASE ThreadWriteRef(t) \/ ThreadLayout(t)
        BY <2>1 DEF ThreadWriteRef, ThreadLayout, Step, ThreadsOK, Version
  <2> QED BY <1>2, <2>1 DEF ThreadStep, ThreadBegin, ThreadManifest, ThreadCancelled,
           ThreadBlobs, ThreadRaises, ThreadRecordSha, ThreadRecordFailure,
           ThreadPopThread, ThreadPopEvent
<1>3. ASSUME NEW r \in Requests, NEW f \in BOOLEAN, StartMain(r, f) PROVE CacheOK'
      BY <1>3 DEF StartMain
<1>4. ASSUME NEW r \in Requests, NEW v \in Versions, StartPinned(r, v) PROVE CacheOK'
      BY <1>4 DEF StartPinned
<1>5. ASSUME NEW r \in Requests, NEW j \in Jobs, Resume(r, j) \/ Retry(r, j) PROVE CacheOK'
      BY <1>5 DEF Resume, Retry
<1>6. ASSUME NEW r \in Requests, SettingsRead(r) \/ Prune(r) \/ RemoveCache(r) PROVE CacheOK'
      BY <1>6 DEF SettingsRead, Prune, RemoveCache
<1>7. ASSUME NEW j \in Jobs, Pause(j) \/ Cancel(j) \/ Delete(j) PROVE CacheOK'
      BY <1>7 DEF Pause, Cancel, Delete
<1>8. CASE RemoteMoves \/ Crash BY <1>8 DEF RemoteMoves, Crash
<1>9. ASSUME NEW t \in Threads, WatchdogWakes(t) PROVE CacheOK'
      BY <1>9 DEF WatchdogWakes
<1>10. ASSUME NEW m \in Monitors, MonitorStep(m) PROVE CacheOK'
       BY <1>10 DEF MonitorStep, MonitorPoll, MonitorComplete
<1>11. ASSUME NEW j \in Jobs, ResumeMonitor(j) PROVE CacheOK'
       BY <1>11 DEF ResumeMonitor
<1> QED BY <1>1, <1>2, <1>3, <1>4, <1>5, <1>6, <1>7, <1>8, <1>9, <1>10, <1>11
        DEF Next, Environment, System

LEMMA SpawnTyped ==
    ASSUME MonitorsOK, NEW j \in Jobs, SpawnMonitor(j) PROVE MonitorsOK'
  BY DEF SpawnMonitor, MonitorsOK, MonitorRecord

LEMMA MonitorsTyped == ASSUME TypeOK, Next PROVE MonitorsOK'
<1> USE DEF TypeOK
<1>0. ASSUME UNCHANGED mon PROVE MonitorsOK'
      BY <1>0 DEF MonitorsOK
<1>1. ASSUME NEW r \in Requests, RequestStep(r) PROVE MonitorsOK'
      BY <1>0, <1>1, SpawnTyped DEF RequestStep, StartResolved, StartInsert, ResumeJoined,
           RetryJoined, Retried, SettingsSignal, SettingsJoined, SettingsStart, PruneDelete,
           RemoveTree, RequestsOK
<1>2. ASSUME NEW t \in Threads, ThreadStep(t) PROVE MonitorsOK'
      BY <1>0, <1>2 DEF ThreadStep, ThreadBegin, ThreadManifest, ThreadCancelled,
           ThreadBlobs, ThreadRaises, ThreadWriteRef, ThreadLayout, ThreadRecordSha,
           ThreadRecordFailure, ThreadPopThread, ThreadPopEvent
<1>3. ASSUME NEW r \in Requests, NEW f \in BOOLEAN, StartMain(r, f) PROVE MonitorsOK'
      BY <1>0, <1>3 DEF StartMain
<1>4. ASSUME NEW r \in Requests, NEW v \in Versions, StartPinned(r, v) PROVE MonitorsOK'
      BY <1>0, <1>4 DEF StartPinned
<1>5. ASSUME NEW r \in Requests, NEW j \in Jobs, Resume(r, j) \/ Retry(r, j)
      PROVE  MonitorsOK'
      BY <1>0, <1>5, SpawnTyped DEF Resume, Retry, Retried
<1>6. ASSUME NEW r \in Requests, SettingsRead(r) \/ Prune(r) \/ RemoveCache(r)
      PROVE  MonitorsOK'
      BY <1>0, <1>6 DEF SettingsRead, Prune, RemoveCache
<1>7. ASSUME NEW j \in Jobs, Pause(j) \/ Cancel(j) \/ Delete(j) PROVE MonitorsOK'
      BY <1>0, <1>7 DEF Pause, Cancel, Delete
<1>8. CASE RemoteMoves BY <1>0, <1>8 DEF RemoteMoves
<1>9. CASE Crash BY <1>9 DEF Crash, MonitorsOK, MonitorRecord, FreeMonitor
<1>10. ASSUME NEW t \in Threads, WatchdogWakes(t) PROVE MonitorsOK'
       BY <1>0, <1>10 DEF WatchdogWakes
<1>11. ASSUME NEW m \in Monitors, MonitorStep(m) PROVE MonitorsOK'
  <2>1. CASE MonitorPoll(m)
        BY <2>1 DEF MonitorPoll, MonitorsOK, MonitorRecord, FreeMonitor
  <2>2. CASE MonitorComplete(m)
        BY <2>2 DEF MonitorComplete, MonitorsOK, MonitorRecord, FreeMonitor
  <2> QED BY <1>11, <2>1, <2>2 DEF MonitorStep
<1>12. ASSUME NEW j \in Jobs, ResumeMonitor(j) PROVE MonitorsOK'
       BY <1>12, SpawnTyped DEF ResumeMonitor
<1> QED BY <1>1, <1>2, <1>3, <1>4, <1>5, <1>6, <1>7, <1>8, <1>9, <1>10, <1>11, <1>12
        DEF Next, Environment, System

(* A request slot may be given any well-formed record.                     *)
Proper(q) == /\ q \in RequestRecord
             /\ q.pc \in {"resume", "retry", "setJoin", "setStart"} => q.job \in Jobs

LEMMA Reassigned ==
    ASSUME RequestsOK, NEW r \in Requests, NEW q, Proper(q), req' = [req EXCEPT ![r] = q]
    PROVE  RequestsOK'
  BY DEF RequestsOK, Proper

LEMMA IdleProper == Proper(Idle)
  BY DEF Proper, Idle, RequestRecord, Version

LEMMA AdmitTyped ==
    ASSUME RequestsOK, NEW r \in Requests, NEW v \in Version, NEW f \in Version,
           NEW need \in BOOLEAN, Admit(r, v, f, need)
    PROVE  RequestsOK'
<1> DEFINE q == [Idle EXCEPT !.pc = "size", !.ask = req[r].ask, !.tgt = v, !.fetch = f,
                             !.need = need]
<1>1. Proper(q)
      BY DEF Proper, Idle, RequestRecord, Version, RequestsOK
<1> HIDE DEF q
<1>2. req' = [req EXCEPT ![r] = q] \/ req' = [req EXCEPT ![r] = Idle]
      BY DEF Admit, q
<1> QED BY <1>1, <1>2, IdleProper, Reassigned

LEMMA RequestStepsTyped ==
    ASSUME TypeOK, NEW r \in Requests, RequestStep(r) PROVE RequestsOK'
<1> USE DEF TypeOK
<1>1. CASE StartResolved(r)
  <2>1. PICK answer \in {remote, NoVersion} :
          LET known == IF req[r].tgt = NoVersion THEN answer ELSE req[r].tgt
          IN  IF req[r].force /\ answer \notin {NoVersion, known}
              THEN Admit(r, answer, NoVersion, TRUE)
              ELSE Admit(r, known, NoVersion, ~LocalCacheReady)
        BY <1>1 DEF StartResolved
  <2>2. answer \in Version /\ req[r].tgt \in Version /\ NoVersion \in Version
        BY DEF CacheOK, RequestsOK, RequestRecord, Version
  <2> QED BY <2>1, <2>2, AdmitTyped
<1>2. CASE Finish(r) BY <1>2, IdleProper, Reassigned DEF Finish
<1>3. CASE SettingsSignal(r)
  <2>1. PICK j \in req[r].todo :
          req' = [req EXCEPT ![r] = [Idle EXCEPT !.pc = "setJoin", !.job = j,
                                       !.thread = reg[j], !.todo = req[r].todo \ {j}]]
        BY <1>3 DEF SettingsSignal
  <2> DEFINE rest == req[r].todo \ {j}
             q == [Idle EXCEPT !.pc = "setJoin", !.job = j, !.thread = reg[j], !.todo = rest]
  <2>2. j \in Jobs /\ reg[j] \in Threads \cup {NoThread} /\ rest \in SUBSET Jobs
        BY DEF RequestsOK, RequestRecord, ThreadsOK
  <2>3. req' = [req EXCEPT ![r] = q]
        BY <2>1
  <2> HIDE DEF rest
  <2>4. Proper(q)
        BY <2>2 DEF Proper, RequestRecord, Idle, Version
  <2> HIDE DEF q
  <2> QED BY <2>3, <2>4, Reassigned
<1>4. ASSUME SettingsNext(r) PROVE RequestsOK'
  <2> DEFINE q == [Idle EXCEPT !.pc = "setNext", !.todo = req[r].todo]
  <2>1. Proper(q)
        BY DEF Proper, RequestRecord, Idle, RequestsOK, Version
  <2>2. req' = [req EXCEPT ![r] = q] \/ req' = [req EXCEPT ![r] = Idle]
        BY <1>4 DEF SettingsNext
  <2> HIDE DEF q
  <2> QED BY <2>1, <2>2, IdleProper, Reassigned
<1>5. CASE SettingsJoined(r)
  <2>1. CASE SettingsNext(r) BY <2>1, <1>4
  <2>2. CASE req' = [req EXCEPT ![r] = [@ EXCEPT !.pc = "setStart", !.thread = NoThread]]
    <3> DEFINE q == [req[r] EXCEPT !.pc = "setStart", !.thread = NoThread]
    <3>1. Proper(q)
          BY <1>5 DEF SettingsJoined, Proper, RequestRecord, RequestsOK
    <3>2. req' = [req EXCEPT ![r] = q]
          BY <2>2
    <3> HIDE DEF q
    <3> QED BY <3>1, <3>2, Reassigned
  <2> QED BY <1>5, <2>1, <2>2 DEF SettingsJoined
<1> QED BY <1>1, <1>2, <1>3, <1>4, <1>5 DEF RequestStep, StartInsert, ResumeJoined,
        RetryJoined, SettingsStart, PruneDelete, RemoveTree

LEMMA RequestsTyped == ASSUME TypeOK, Next PROVE RequestsOK'
<1> USE DEF TypeOK
<1>0. ASSUME UNCHANGED req PROVE RequestsOK'
      BY <1>0 DEF RequestsOK
<1>1. ASSUME NEW r \in Requests, RequestStep(r) PROVE RequestsOK'
      BY <1>1, RequestStepsTyped
<1>2. ASSUME NEW t \in Threads, ThreadStep(t) PROVE RequestsOK'
      BY <1>0, <1>2 DEF ThreadStep, ThreadBegin, ThreadManifest, ThreadCancelled,
           ThreadBlobs, ThreadRaises, ThreadWriteRef, ThreadLayout, ThreadRecordSha,
           ThreadRecordFailure, ThreadPopThread, ThreadPopEvent
<1>3. ASSUME NEW r \in Requests, NEW f \in BOOLEAN, StartMain(r, f) PROVE RequestsOK'
  <2> DEFINE q == [Idle EXCEPT !.pc = "resolve", !.tgt = ref, !.force = f]
  <2>1. Proper(q)
        BY DEF Proper, Idle, RequestRecord, CacheOK, Version
  <2>2. CASE req' = [req EXCEPT ![r] = q]
    <3> HIDE DEF q
    <3> QED BY <2>1, <2>2, Reassigned
  <2>3. CASE Admit(r, ref, NoVersion, ~LocalCacheReady)
        BY <2>3, AdmitTyped DEF CacheOK, Version
  <2> QED BY <1>3, <2>2, <2>3 DEF StartMain
<1>4. ASSUME NEW r \in Requests, NEW v \in Versions, StartPinned(r, v) PROVE RequestsOK'
  <2> DEFINE q == [Idle EXCEPT !.pc = "size", !.ask = v, !.tgt = v,
                     !.fetch = IF v \in complete THEN NoVersion ELSE v,
                     !.need = ~(v \in complete)]
  <2>1. Proper(q)
        BY DEF Proper, Idle, RequestRecord, Version
  <2>2. req' = [req EXCEPT ![r] = q] \/ req' = [req EXCEPT ![r] = Idle]
        BY <1>4 DEF StartPinned
  <2> HIDE DEF q
  <2> QED BY <2>1, <2>2, IdleProper, Reassigned
<1>5. ASSUME NEW r \in Requests, NEW j \in Jobs, Resume(r, j) \/ Retry(r, j)
      PROVE  RequestsOK'
  <2> DEFINE q(pc) == [Idle EXCEPT !.pc = pc, !.job = j, !.thread = reg[j]]
  <2>1. Proper(q("resume")) /\ Proper(q("retry"))
        BY DEF Proper, Idle, RequestRecord, ThreadsOK, Version
  <2>2. \/ UNCHANGED req
        \/ req' = [req EXCEPT ![r] = q("resume")]
        \/ req' = [req EXCEPT ![r] = q("retry")]
        BY <1>5 DEF Resume, Retry
  <2> HIDE DEF q
  <2> QED BY <1>0, <2>1, <2>2, Reassigned
<1>6. ASSUME NEW r \in Requests, SettingsRead(r) \/ Prune(r) \/ RemoveCache(r)
      PROVE  RequestsOK'
  <2>1. CASE SettingsRead(r)
    <3> DEFINE q == [Idle EXCEPT !.pc = "setNext",
                                 !.todo = {j \in Jobs : status[j] = "downloading"}]
    <3>1. Proper(q)
          BY DEF Proper, Idle, RequestRecord, Version
    <3>2. req' = [req EXCEPT ![r] = q]
          BY <2>1 DEF SettingsRead
    <3> HIDE DEF q
    <3> QED BY <3>1, <3>2, Reassigned
  <2>2. CASE Prune(r)
    <3> DEFINE present == complete \cup
                          {thr[t].sha : t \in {u \in Threads : thr[u].pc = "layout"}}
               doomed  == present \ ({ref} \cup anchors \cup {target[j] : j \in ActiveJobs})
               q == [Idle EXCEPT !.pc = "prune", !.doomed = doomed]
    <3>1. doomed \in SUBSET Versions
          BY DEF CacheOK, ThreadsOK
    <3>2. req' = [req EXCEPT ![r] = q]
          BY <2>2 DEF Prune
    <3> HIDE DEF doomed
    <3>3. Proper(q)
          BY <3>1 DEF Proper, Idle, RequestRecord, Version
    <3> HIDE DEF q
    <3> QED BY <3>2, <3>3, Reassigned
  <2>3. CASE RemoveCache(r)
    <3> DEFINE q == [Idle EXCEPT !.pc = "remove"]
    <3>1. Proper(q)
          BY DEF Proper, Idle, RequestRecord, Version
    <3>2. req' = [req EXCEPT ![r] = q]
          BY <2>3 DEF RemoveCache
    <3> HIDE DEF q
    <3> QED BY <3>1, <3>2, Reassigned
  <2> QED BY <1>6, <2>1, <2>2, <2>3
<1>7. ASSUME NEW j \in Jobs, Pause(j) \/ Cancel(j) \/ Delete(j) PROVE RequestsOK'
      BY <1>0, <1>7 DEF Pause, Cancel, Delete
<1>8. CASE RemoteMoves BY <1>0, <1>8 DEF RemoteMoves
<1>9. CASE Crash BY <1>9, IdleProper DEF Crash, RequestsOK, Proper
<1>10. ASSUME NEW t \in Threads, WatchdogWakes(t) PROVE RequestsOK'
       BY <1>0, <1>10 DEF WatchdogWakes
<1>11. ASSUME NEW m \in Monitors, MonitorStep(m) PROVE RequestsOK'
       BY <1>0, <1>11 DEF MonitorStep, MonitorPoll, MonitorComplete
<1>12. ASSUME NEW j \in Jobs, ResumeMonitor(j) PROVE RequestsOK'
       BY <1>0, <1>12 DEF ResumeMonitor
<1> QED BY <1>1, <1>2, <1>3, <1>4, <1>5, <1>6, <1>7, <1>8, <1>9, <1>10, <1>11, <1>12
        DEF Next, Environment, System

LEMMA TypeStep == TypeOK /\ [Next]_vars => TypeOK'
<1> SUFFICES ASSUME TypeOK, [Next]_vars PROVE TypeOK'
    OBVIOUS
<1>1. CASE Next
      BY <1>1, JobsTyped, CacheTyped, MonitorsTyped, RequestsTyped, ThreadsTyped, EveryMove
         DEF TypeOK
<1>2. CASE UNCHANGED vars
      BY <1>2 DEF vars, TypeOK, JobsOK, CacheOK, ThreadsOK, MonitorsOK, RequestsOK
<1> QED BY <1>1, <1>2

(* Type correctness: whatever the operators, the hub and the machine do.   *)
THEOREM TypeCorrect == Spec => []TypeOK
  BY TypeInit, TypeStep, PTL DEF Spec

----------------------------------------------------------------------------
(* The registry.                                                           *)

LEMMA RegistryStep ==
    ASSUME TypeOK, RegistryNamesLiveThread, ThreadMoves
    PROVE  RegistryNamesLiveThread'
<1> USE DEF TypeOK, ThreadsOK, ThreadRecord, RegistryNamesLiveThread, Live
<1>1. CASE UNCHANGED <<thr, reg, ev, watch>> BY <1>1
<1>2. ASSUME NEW j \in Jobs, NEW f \in Version, StartLocalDownload(j, f)
      PROVE  RegistryNamesLiveThread'
  <2>1. PICK t \in Threads :
          /\ FreeThread(t)
          /\ thr' = [thr EXCEPT ![t] = [DeadThread EXCEPT !.job = j, !.pc = "new",
                                                          !.fetch = f]]
          /\ reg' = [reg EXCEPT ![j] = t]
        BY <1>2 DEF StartLocalDownload
  <2>2. thr'[t].pc = "new" /\ thr'[t].job = j
        BY <2>1 DEF DeadThread
  <2>3. \A u \in Threads \ {t} : thr'[u] = thr[u]
        BY <2>1
  <2>4. \A k \in Jobs : reg[k] # t
        BY <2>1 DEF FreeThread
  <2> QED BY <2>1, <2>2, <2>3, <2>4
<1>3. CASE StartsOne BY <1>2, <1>3 DEF StartsOne
<1>4. CASE Signals BY <1>4 DEF Signals
<1>5. CASE Takes
  <2>1. ASSUME NEW u \in Threads
        PROVE  thr'[u].pc = thr[u].pc /\ thr'[u].job = thr[u].job
        BY <1>5 DEF Takes, Losing
  <2> QED BY <1>5, <2>1 DEF Takes
<1>6. CASE Watches BY <1>6 DEF Watches
<1>7. CASE Crash BY <1>7, ConstantsAssumption DEF Crash
<1>8. ASSUME NEW t \in Threads, WatchdogWakes(t) PROVE RegistryNamesLiveThread'
      BY <1>2, <1>8 DEF WatchdogWakes, StartIf, Version
<1>9. ASSUME NEW t \in Threads, ThreadStep(t) PROVE RegistryNamesLiveThread'
  <2>1. CASE ThreadPopThread(t) BY <2>1 DEF ThreadPopThread, Step
  <2>2. CASE ThreadPopEvent(t) BY <2>2 DEF ThreadPopEvent, DeadThread
  <2>3. CASE ThreadBegin(t) BY <2>3 DEF ThreadBegin
  <2>4. CASE ThreadManifest(t) BY <2>4 DEF ThreadManifest
  <2>5. CASE \/ ThreadCancelled(t) \/ ThreadBlobs(t) \/ ThreadRaises(t) \/ ThreadWriteRef(t)
             \/ ThreadLayout(t) \/ ThreadRecordSha(t) \/ ThreadRecordFailure(t)
        BY <2>5 DEF ThreadCancelled, ThreadBlobs, ThreadRaises, ThreadWriteRef, ThreadLayout,
             ThreadRecordSha, ThreadRecordFailure, Step
  <2> QED BY <1>9, <2>1, <2>2, <2>3, <2>4, <2>5 DEF ThreadStep
<1> QED BY <1>1, <1>3, <1>4, <1>5, <1>6, <1>7, <1>8, <1>9 DEF ThreadMoves, PlainMoves

(* A registered thread is alive and works for the job it is registered     *)
(* for, under every operation of the model, the settings race included.    *)
THEOREM RegistryCorrect == Spec => []RegistryNamesLiveThread
<1>1. Init => RegistryNamesLiveThread
      BY DEF Init, RegistryNamesLiveThread
<1>2. TypeOK /\ RegistryNamesLiveThread /\ [Next]_vars => RegistryNamesLiveThread'
      BY RegistryStep, EveryMove
<1> QED BY <1>1, <1>2, TypeCorrect, PTL DEF Spec

(* The watchdog left behind after a timed-out join waits for the thread to *)
(* end and restarts the job only if the thread is still registered.  By    *)
(* the theorem above it never is.                                          *)
LEMMA WatchdogNeverRestarts ==
    ASSUME TypeOK, RegistryNamesLiveThread, NEW t \in Threads, WatchdogWakes(t)
    PROVE  UNCHANGED threadVars
<1>1. watch[t] \in Jobs /\ thr[t].pc = "dead"
      BY DEF WatchdogWakes, TypeOK, ThreadsOK
<1>2. reg[watch[t]] # t
      BY <1>1, ConstantsAssumption DEF RegistryNamesLiveThread, Live
<1> QED BY <1>2 DEF WatchdogWakes, StartIf

----------------------------------------------------------------------------
(* One thread per job.  The invariant says who may still start a thread,   *)
(* and for which jobs, while the application boots and after it has.       *)

BootAlone      == boot # {} => \A r \in Requests : req[r].pc = "idle"
BootFresh      == \A j \in boot : reg[j] = NoThread
BootUsed       == \A j \in boot : status[j] # "unused"
NoSettings     == \A r \in Requests : req[r].pc \notin {"setNext", "setJoin", "setStart"}
WaitersUsed    == \A r \in Requests : req[r].pc \in {"resume", "retry"} =>
                                         status[req[r].job] # "unused"
RegisteredUsed == \A j \in Jobs : reg[j] # NoThread => status[j] # "unused"

OneThreadInv == /\ TypeOK /\ RegistryNamesLiveThread /\ OneThreadPerJob
                /\ BootAlone /\ BootFresh /\ BootUsed /\ NoSettings /\ WaitersUsed /\ RegisteredUsed

\* A start that finds no registered thread.
CleanStart == \E j \in Jobs, f \in Version : reg[j] = NoThread /\ StartLocalDownload(j, f)

CleanMoves == \/ UNCHANGED <<thr, reg>> \/ CleanStart
              \/ \E pcs, shas : Losing(pcs, shas) /\ UNCHANGED reg
              \/ Crash
              \/ \E t \in Threads : ThreadStep(t)

LEMMA RequestStartsClean ==
    ASSUME OneThreadInv, NEW r \in Requests, RequestStep(r)
    PROVE  CleanMoves
<1> USE DEF OneThreadInv, CleanMoves, CleanStart, StartIf, TypeOK, RequestsOK, Version
<1>1. CASE StartResolved(r) BY <1>1 DEF StartResolved
<1>2. CASE StartInsert(r) BY <1>2 DEF StartInsert, RegisteredUsed, RequestRecord
<1>3. CASE ResumeJoined(r) BY <1>3 DEF ResumeJoined
<1>4. CASE RetryJoined(r) BY <1>4 DEF RetryJoined, Retried
<1>5. CASE SettingsSignal(r) \/ SettingsJoined(r) \/ SettingsStart(r)
      BY <1>5 DEF SettingsSignal, SettingsJoined, SettingsStart, NoSettings
<1>6. CASE PruneDelete(r) BY <1>6 DEF PruneDelete
<1>7. CASE RemoveTree(r) BY <1>7 DEF RemoveTree
<1> QED BY <1>1, <1>2, <1>3, <1>4, <1>5, <1>6, <1>7 DEF RequestStep

LEMMA StartsClean == ASSUME OneThreadInv, Next PROVE CleanMoves
<1> USE DEF CleanMoves
<1>1. ASSUME NEW r \in Requests, RequestStep(r) PROVE CleanMoves
      BY <1>1, RequestStartsClean
<1>2. ASSUME NEW r \in Requests, NEW j \in Jobs, Resume(r, j) PROVE CleanMoves
      BY <1>2 DEF Resume, CleanStart, Version
<1>3. ASSUME NEW r \in Requests, NEW j \in Jobs, Retry(r, j) PROVE CleanMoves
      BY <1>3 DEF Retry, Retried, StartIf, CleanStart, Version
<1>4. ASSUME NEW j \in Jobs, ResumeMonitor(j) PROVE CleanMoves
      BY <1>4 DEF ResumeMonitor, StartIf, CleanStart, OneThreadInv, BootFresh, TypeOK, JobsOK
<1>5. ASSUME NEW t \in Threads, WatchdogWakes(t) PROVE CleanMoves
      BY <1>5, WatchdogNeverRestarts DEF OneThreadInv
<1>6. ASSUME NEW m \in Monitors, MonitorStep(m) PROVE CleanMoves
      BY <1>6 DEF MonitorStep, MonitorPoll, MonitorComplete
<1>7. ASSUME NEW j \in Jobs, Pause(j) \/ Cancel(j) \/ Delete(j) PROVE CleanMoves
      BY <1>7 DEF Pause, Cancel, Delete
<1>8. ASSUME NEW r \in Requests,
             \/ \E f \in BOOLEAN : StartMain(r, f)
             \/ \E v \in Versions : StartPinned(r, v)
             \/ SettingsRead(r) \/ Prune(r) \/ RemoveCache(r)
      PROVE  UNCHANGED <<thr, reg>>
      BY <1>8 DEF StartMain, StartPinned, SettingsRead, Prune, RemoveCache
<1>9. RemoteMoves => UNCHANGED <<thr, reg>>
      BY DEF RemoteMoves
<1> HIDE DEF CleanMoves
<1>10. UNCHANGED <<thr, reg>> \/ Crash \/ (\E t \in Threads : ThreadStep(t)) => CleanMoves
       BY DEF CleanMoves
<1> QED BY <1>1, <1>2, <1>3, <1>4, <1>5, <1>6, <1>7, <1>8, <1>9, <1>10
        DEF Next, Environment, System

LEMMA OneThreadStep ==
    ASSUME OneThreadInv, CleanMoves
    PROVE  OneThreadPerJob'
<1> USE DEF OneThreadInv, OneThreadPerJob, Live, TypeOK, ThreadsOK, ThreadRecord
<1>1. CASE UNCHANGED <<thr, reg>> BY <1>1
<1>2. CASE CleanStart
  <2>0. PICK j \in Jobs, f \in Version : reg[j] = NoThread /\ StartLocalDownload(j, f)
        BY <1>2 DEF CleanStart
  <2>1. PICK t \in Threads :
          /\ thr' = [thr EXCEPT ![t] = [DeadThread EXCEPT !.job = j, !.pc = "new",
                                                          !.fetch = f]]
          /\ reg' = [reg EXCEPT ![j] = t]
        BY <2>0 DEF StartLocalDownload
  <2>2. thr'[t].job = j
        BY <2>1 DEF DeadThread
  <2>3. ASSUME NEW u \in Threads \ {t}, Live(u)' PROVE reg'[thr'[u].job] = u
    <3>1. thr'[u] = thr[u] /\ Live(u)
          BY <2>1, <2>3
    <3>2. reg[thr[u].job] = u /\ thr[u].job # j
          BY <2>0, <3>1, ConstantsAssumption
    <3> QED BY <2>1, <3>1, <3>2
  <2> QED BY <2>1, <2>2, <2>3
<1>3. ASSUME NEW pcs, NEW shas, Losing(pcs, shas), UNCHANGED reg PROVE OneThreadPerJob'
  <2>1. ASSUME NEW u \in Threads PROVE thr'[u].pc = thr[u].pc /\ thr'[u].job = thr[u].job
        BY <1>3 DEF Losing
  <2> QED BY <1>3, <2>1
<1>4. CASE Crash BY <1>4 DEF Crash, DeadThread
<1>5. ASSUME NEW t \in Threads, ThreadStep(t) PROVE OneThreadPerJob'
  <2>1. CASE ThreadPopThread(t)
        BY <2>1, ConstantsAssumption DEF ThreadPopThread, Step
  <2>2. CASE ThreadPopEvent(t)
    <3>1. \A u \in Threads : Live(u)' => Live(u) /\ thr'[u].job = thr[u].job
          BY <2>2 DEF ThreadPopEvent, DeadThread
    <3> QED BY <2>2, <3>1 DEF ThreadPopEvent
  <2>3. CASE ThreadBegin(t) BY <2>3 DEF ThreadBegin
  <2>4. CASE ThreadManifest(t) BY <2>4 DEF ThreadManifest
  <2>5. CASE \/ ThreadCancelled(t) \/ ThreadBlobs(t) \/ ThreadRaises(t) \/ ThreadWriteRef(t)
             \/ ThreadLayout(t) \/ ThreadRecordSha(t) \/ ThreadRecordFailure(t)
        BY <2>5 DEF ThreadCancelled, ThreadBlobs, ThreadRaises, ThreadWriteRef, ThreadLayout,
             ThreadRecordSha, ThreadRecordFailure, Step
  <2> QED BY <1>5, <2>1, <2>2, <2>3, <2>4, <2>5 DEF ThreadStep
<1> QED BY <1>1, <1>2, <1>3, <1>4, <1>5 DEF CleanMoves

(* The bookkeeping around it.                                              *)

\* What a step does to the table's rows and to the registry.
UsedStays     == \A j \in Jobs : status[j] # "unused" => status'[j] # "unused"
StartsForUsed == \A j \in Jobs :
                     reg'[j] # NoThread =>
                         reg'[j] = reg[j] \/ (status'[j] # "unused" /\ j \notin boot')

LEMMA StatusMoves == ASSUME TypeOK, Next PROVE UsedStays
<1> USE DEF UsedStays, TypeOK, JobsOK
<1>1. ASSUME NEW r \in Requests, RequestStep(r) PROVE UsedStays
      BY <1>1 DEF RequestStep, StartResolved, StartInsert, ResumeJoined, RetryJoined, Retried,
         SettingsSignal, SettingsJoined, SettingsStart, PruneDelete, RemoveTree
<1>2. ASSUME NEW r \in Requests, NEW j \in Jobs, Resume(r, j) \/ Retry(r, j) PROVE UsedStays
      BY <1>2 DEF Resume, Retry, Retried
<1>3. ASSUME NEW j \in Jobs, Pause(j) \/ Cancel(j) \/ Delete(j) \/ ResumeMonitor(j)
      PROVE  UsedStays
      BY <1>3 DEF Pause, Cancel, Delete, ResumeMonitor
<1>4. ASSUME NEW t \in Threads, ThreadStep(t) \/ WatchdogWakes(t) PROVE UsedStays
      BY <1>4 DEF WatchdogWakes, ThreadStep, ThreadBegin, ThreadManifest, ThreadCancelled,
         ThreadBlobs, ThreadRaises, ThreadWriteRef, ThreadLayout, ThreadRecordSha,
         ThreadRecordFailure, ThreadPopThread, ThreadPopEvent
<1>5. ASSUME NEW m \in Monitors, MonitorStep(m) PROVE UsedStays
      BY <1>5 DEF MonitorStep, MonitorPoll, MonitorComplete
<1>6. CASE \/ RemoteMoves \/ Crash
           \/ \E r \in Requests :
                \/ \E f \in BOOLEAN : StartMain(r, f)
                \/ \E v \in Versions : StartPinned(r, v)
                \/ SettingsRead(r) \/ Prune(r) \/ RemoveCache(r)
      BY <1>6 DEF RemoteMoves, Crash, StartMain, StartPinned, SettingsRead, Prune, RemoveCache
<1> QED BY <1>1, <1>2, <1>3, <1>4, <1>5, <1>6 DEF Next, Environment, System

LEMMA StartUses ==
    ASSUME NEW j \in Jobs, NEW f, StartLocalDownload(j, f), ThreadsOK,
           status'[j] # "unused", j \notin boot'
    PROVE  StartsForUsed
  BY DEF StartLocalDownload, StartsForUsed, ThreadsOK

LEMMA RegistryMoves == ASSUME OneThreadInv, Next PROVE StartsForUsed
<1> USE DEF OneThreadInv, TypeOK
<1>0. UNCHANGED reg => StartsForUsed
      BY DEF StartsForUsed
<1>1. ASSUME NEW r \in Requests, RequestStep(r) PROVE StartsForUsed
  <2>0. boot = {} /\ boot' = boot
        BY <1>1 DEF BootAlone, RequestStep, StartResolved, StartInsert, ResumeJoined,
           RetryJoined, SettingsSignal, SettingsJoined, SettingsStart, PruneDelete, RemoveTree
  <2>1. CASE StartInsert(r)
        BY <1>0, <2>0, <2>1, StartUses DEF StartInsert, StartIf, JobsOK
  <2>2. CASE ResumeJoined(r)
        BY <1>0, <2>0, <2>2, StartUses DEF ResumeJoined, StartIf, WaitersUsed, RequestsOK
  <2>3. CASE RetryJoined(r)
        BY <1>0, <2>0, <2>3, StartUses DEF RetryJoined, Retried, StartIf, RequestsOK, JobsOK
  <2>4. CASE SettingsSignal(r) \/ SettingsJoined(r) \/ SettingsStart(r)
        BY <2>4 DEF SettingsSignal, SettingsJoined, SettingsStart, NoSettings
  <2> QED BY <1>0, <1>1, <2>1, <2>2, <2>3, <2>4 DEF RequestStep, StartResolved, PruneDelete,
          RemoveTree
<1>2. ASSUME NEW r \in Requests, NEW j \in Jobs, Resume(r, j) PROVE StartsForUsed
      BY <1>0, <1>2, StartUses DEF Resume, Opened, Served, JobsOK
<1>3. ASSUME NEW r \in Requests, NEW j \in Jobs, Retry(r, j) PROVE StartsForUsed
      BY <1>0, <1>3, StartUses DEF Retry, Retried, StartIf, Opened, Served, JobsOK
<1>4. ASSUME NEW j \in Jobs, ResumeMonitor(j) PROVE StartsForUsed
      BY <1>0, <1>4, StartUses DEF ResumeMonitor, StartIf, BootUsed
<1>5. ASSUME NEW t \in Threads, WatchdogWakes(t) PROVE StartsForUsed
      BY <1>0, <1>5, WatchdogNeverRestarts
<1>6. ASSUME NEW m \in Monitors, MonitorStep(m) PROVE StartsForUsed
      BY <1>0, <1>6 DEF MonitorStep, MonitorPoll, MonitorComplete
<1>7. ASSUME NEW j \in Jobs, Pause(j) \/ Cancel(j) \/ Delete(j) PROVE StartsForUsed
      BY <1>0, <1>7 DEF Pause, Cancel, Delete
<1>8. CASE \/ RemoteMoves
           \/ \E r \in Requests :
                \/ \E f \in BOOLEAN : StartMain(r, f)
                \/ \E v \in Versions : StartPinned(r, v)
                \/ SettingsRead(r) \/ Prune(r) \/ RemoveCache(r)
      BY <1>0, <1>8 DEF RemoteMoves, StartMain, StartPinned, SettingsRead, Prune, RemoveCache
<1>9. CASE Crash BY <1>9 DEF Crash, StartsForUsed
<1>10. ASSUME NEW t \in Threads, ThreadStep(t) PROVE StartsForUsed
       BY <1>0, <1>10 DEF StartsForUsed, ThreadStep, ThreadBegin, ThreadManifest,
          ThreadCancelled, ThreadBlobs, ThreadRaises, ThreadWriteRef, ThreadLayout,
          ThreadRecordSha, ThreadRecordFailure, ThreadPopThread, ThreadPopEvent, ThreadsOK
<1> QED BY <1>1, <1>2, <1>3, <1>4, <1>5, <1>6, <1>7, <1>8, <1>9, <1>10
        DEF Next, Environment, System

\* What a step does to a request: leave it, end it, or move it on; only once the
\* application has started may it move an idle one.
Proceeds(r, q) ==
    \/ q.pc \in {"resolve", "size"}
    \/ q.pc \in {"resume", "retry"} /\ status[q.job] # "unused"
    \/ q.pc \in {"setNext", "setJoin", "setStart"} /\
          ("settings" \in Ops \/ req[r].pc \in {"setNext", "setJoin", "setStart"})
    \/ q.pc = "prune" /\ "prune" \in Ops
    \/ q.pc = "remove" /\ "removeCache" \in Ops
RequestMove(r) ==
    \/ req'[r] = req[r]
    \/ req'[r].pc = "idle"
    \/ (boot = {} \/ req[r].pc # "idle") /\ Proceeds(r, req'[r])

LEMMA OneRequestMoves ==
    ASSUME TypeOK, NEW r \in Requests, NEW q, req' = [req EXCEPT ![r] = q],
           q.pc = "idle" \/ ((boot = {} \/ req[r].pc # "idle") /\ Proceeds(r, q))
    PROVE  \A s \in Requests : RequestMove(s)
  BY DEF RequestMove, TypeOK, RequestsOK

LEMMA AdmitMoves ==
    ASSUME TypeOK, NEW r \in Requests, NEW v, NEW f, NEW n, Admit(r, v, f, n),
           boot = {} \/ req[r].pc # "idle"
    PROVE  \A s \in Requests : RequestMove(s)
<1> DEFINE q == [Idle EXCEPT !.pc = "size", !.ask = req[r].ask, !.tgt = v,
                             !.fetch = f, !.need = n]
<1>1. q.pc = "size" /\ Idle.pc = "idle"
      BY DEF Idle
<1>2. req' = [req EXCEPT ![r] = q] \/ req' = [req EXCEPT ![r] = Idle]
      BY DEF Admit
<1>3. Proceeds(r, q)
      BY <1>1 DEF Proceeds
<1> HIDE DEF q
<1> QED BY <1>1, <1>2, <1>3, OneRequestMoves

LEMMA RequestsMove ==
    ASSUME TypeOK, Next
    PROVE  \A s \in Requests : RequestMove(s)
<1> DEFINE Goal == \A s \in Requests : RequestMove(s)
<1>0. UNCHANGED req => Goal
      BY DEF RequestMove
<1>1. Idle.pc = "idle"
      BY DEF Idle
<1>2. ASSUME NEW r \in Requests, Finish(r) PROVE Goal
      BY <1>1, <1>2, OneRequestMoves DEF Finish
<1>3. ASSUME NEW r \in Requests, RequestStep(r) PROVE Goal
  <2>1. CASE StartResolved(r)
        BY <2>1, AdmitMoves DEF StartResolved
  <2> DEFINE n == [Idle EXCEPT !.pc = "setNext", !.todo = req[r].todo]
             s(j) == [Idle EXCEPT !.pc = "setJoin", !.job = j, !.thread = reg[j],
                                  !.todo = req[r].todo \ {j}]
             b == [req[r] EXCEPT !.pc = "setStart", !.thread = NoThread]
  <2>2. n.pc = "setNext" /\ b.pc = "setStart" /\ \A j : s(j).pc = "setJoin"
        BY DEF Idle, TypeOK, RequestsOK, RequestRecord
  <2>3. CASE SettingsSignal(r) \/ SettingsJoined(r) \/ SettingsStart(r)
    <3>1. \/ req' = [req EXCEPT ![r] = n]
          \/ req' = [req EXCEPT ![r] = b]
          \/ req' = [req EXCEPT ![r] = Idle]
          \/ \E j : req' = [req EXCEPT ![r] = s(j)]
          BY <2>3 DEF SettingsSignal, SettingsJoined, SettingsStart, SettingsNext
    <3>2. req[r].pc \in {"setNext", "setJoin", "setStart"}
          BY <2>3 DEF SettingsSignal, SettingsJoined, SettingsStart
    <3> HIDE DEF n, s, b
    <3>3. Proceeds(r, n) /\ Proceeds(r, b) /\ \A j : Proceeds(r, s(j))
          BY <2>2, <3>2 DEF Proceeds
    <3> QED BY <1>1, <3>1, <3>2, <3>3, OneRequestMoves
  <2> QED BY <1>2, <1>3, <2>1, <2>3 DEF RequestStep, StartInsert, ResumeJoined, RetryJoined,
          PruneDelete, RemoveTree
<1>4. ASSUME NEW r \in Requests, NEW f \in BOOLEAN, StartMain(r, f) PROVE Goal
  <2> DEFINE q == [Idle EXCEPT !.pc = "resolve", !.tgt = ref, !.force = f]
  <2>1. q.pc = "resolve" /\ boot = {}
        BY <1>4 DEF Idle, StartMain, Opened, Served
  <2>2. CASE req' = [req EXCEPT ![r] = q]
    <3> HIDE DEF q
    <3>1. Proceeds(r, q)
          BY <2>1 DEF Proceeds
    <3> QED BY <2>1, <2>2, <3>1, OneRequestMoves
  <2>3. CASE Admit(r, ref, NoVersion, ~LocalCacheReady)
        BY <2>1, <2>3, AdmitMoves
  <2> QED BY <1>4, <2>2, <2>3 DEF StartMain
<1>5. ASSUME NEW r \in Requests, NEW v \in Versions, StartPinned(r, v) PROVE Goal
  <2> DEFINE q == [Idle EXCEPT !.pc = "size", !.ask = v, !.tgt = v,
                     !.fetch = IF v \in complete THEN NoVersion ELSE v,
                     !.need = ~(v \in complete)]
  <2>1. q.pc = "size" /\ boot = {}
        BY <1>5 DEF Idle, StartPinned, Opened, Served
  <2>2. req' = [req EXCEPT ![r] = q] \/ req' = [req EXCEPT ![r] = Idle]
        BY <1>5 DEF StartPinned
  <2> HIDE DEF q
  <2>3. Proceeds(r, q)
        BY <2>1 DEF Proceeds
  <2> QED BY <1>1, <2>1, <2>2, <2>3, OneRequestMoves
<1>6. ASSUME NEW r \in Requests, NEW j \in Jobs, Resume(r, j) \/ Retry(r, j) PROVE Goal
  <2> DEFINE q(pc) == [Idle EXCEPT !.pc = pc, !.job = j, !.thread = reg[j]]
  <2>1. ASSUME NEW pc PROVE q(pc).pc = pc /\ q(pc).job = j
        BY DEF Idle
  <2>2. boot = {} /\ status[j] # "unused"
        BY <1>6 DEF Resume, Retry, Opened, Served
  <2>3. \/ UNCHANGED req
        \/ req' = [req EXCEPT ![r] = q("resume")]
        \/ req' = [req EXCEPT ![r] = q("retry")]
        BY <1>6 DEF Resume, Retry
  <2> HIDE DEF q
  <2>4. Proceeds(r, q("resume")) /\ Proceeds(r, q("retry"))
        BY <2>1, <2>2 DEF Proceeds
  <2> QED BY <1>0, <2>2, <2>3, <2>4, OneRequestMoves
<1>7. ASSUME NEW r \in Requests, SettingsRead(r) \/ Prune(r) \/ RemoveCache(r) PROVE Goal
  <2> DEFINE n(s) == [Idle EXCEPT !.pc = "setNext", !.todo = s]
             p(s) == [Idle EXCEPT !.pc = "prune", !.doomed = s]
             q == [Idle EXCEPT !.pc = "remove"]
  <2>1. q.pc = "remove" /\ \A s : p(s).pc = "prune" /\ n(s).pc = "setNext"
        BY DEF Idle
  <2>2. /\ boot = {}
        /\ \/ "settings" \in Ops /\ \E s : req' = [req EXCEPT ![r] = n(s)]
           \/ "prune" \in Ops /\ \E s : req' = [req EXCEPT ![r] = p(s)]
           \/ "removeCache" \in Ops /\ req' = [req EXCEPT ![r] = q]
        BY <1>7 DEF SettingsRead, Prune, RemoveCache, Opened, Served
  <2> HIDE DEF n, p, q
  <2>3. /\ "settings" \in Ops => \A s : Proceeds(r, n(s))
        /\ "prune" \in Ops => \A s : Proceeds(r, p(s))
        /\ "removeCache" \in Ops => Proceeds(r, q)
        BY <2>1 DEF Proceeds
  <2> QED BY <2>2, <2>3, OneRequestMoves
<1>8. CASE Crash
      BY <1>1, <1>8 DEF Crash, RequestMove
<1>9. ASSUME NEW t \in Threads, ThreadStep(t) \/ WatchdogWakes(t) PROVE Goal
      BY <1>0, <1>9 DEF WatchdogWakes, ThreadStep, ThreadBegin, ThreadManifest,
         ThreadCancelled, ThreadBlobs, ThreadRaises, ThreadWriteRef, ThreadLayout,
         ThreadRecordSha, ThreadRecordFailure, ThreadPopThread, ThreadPopEvent
<1>10. ASSUME NEW m \in Monitors, MonitorStep(m) PROVE Goal
       BY <1>0, <1>10 DEF MonitorStep, MonitorPoll, MonitorComplete
<1>11. ASSUME NEW j \in Jobs, Pause(j) \/ Cancel(j) \/ Delete(j) \/ ResumeMonitor(j)
       PROVE  Goal
       BY <1>0, <1>11 DEF Pause, Cancel, Delete, ResumeMonitor
<1>12. RemoteMoves => Goal
       BY <1>0 DEF RemoteMoves
<1> HIDE DEF Goal
<1> QED BY <1>3, <1>4, <1>5, <1>6, <1>7, <1>8, <1>9, <1>10, <1>11, <1>12
        DEF Next, Environment, System, Goal

\* The jobs the startup code has still to handle.
LEMMA BootMoves ==
    ASSUME Next
    PROVE  Crash \/ boot' = boot \/ \E j \in Jobs : ResumeMonitor(j)
  BY DEF Next, Environment, System, RequestStep, StartResolved, StartInsert, ResumeJoined,
     RetryJoined, SettingsSignal, SettingsJoined, SettingsStart, PruneDelete, RemoveTree,
     StartMain, StartPinned, Resume, Retry, SettingsRead, Prune, RemoveCache, Pause, Cancel,
     Delete, RemoteMoves, ThreadStep, WatchdogWakes, ThreadBegin, ThreadManifest,
     ThreadCancelled, ThreadBlobs, ThreadRaises, ThreadWriteRef, ThreadLayout,
     ThreadRecordSha, ThreadRecordFailure, ThreadPopThread, ThreadPopEvent, MonitorStep,
     MonitorPoll, MonitorComplete

LEMMA OneThreadInvStep ==
    ASSUME OneThreadInv, "settings" \notin Ops, [Next]_vars
    PROVE  OneThreadInv'
<1>1. CASE UNCHANGED vars
  <2>1. TypeOK' /\ RegistryNamesLiveThread'
        BY <1>1, TypeStep DEF OneThreadInv, vars, RegistryNamesLiveThread, Live
  <2> QED BY <1>1, <2>1 DEF vars, OneThreadInv, OneThreadPerJob, Live, BootAlone, BootFresh,
         BootUsed, NoSettings, WaitersUsed, RegisteredUsed
<1>2. CASE Next
  <2>1. TypeOK /\ TypeOK' /\ ThreadMoves
        BY <1>2, TypeStep, EveryMove DEF OneThreadInv
  <2>2. RegistryNamesLiveThread' /\ OneThreadPerJob'
        BY <1>2, <2>1, RegistryStep, StartsClean, OneThreadStep DEF OneThreadInv
  <2>3. /\ UsedStays /\ StartsForUsed /\ \A r \in Requests : RequestMove(r)
        /\ Crash \/ boot' = boot \/ \E j \in Jobs : ResumeMonitor(j)
        BY <1>2, <2>1, StatusMoves, RegistryMoves, RequestsMove, BootMoves
  <2>4. \A r \in Requests : req'[r].pc \in {"resume", "retry"} => req'[r].job \in Jobs
        BY <2>1 DEF TypeOK, RequestsOK
  <2>5. RegisteredUsed'
        BY <2>3 DEF OneThreadInv, RegisteredUsed, UsedStays, StartsForUsed
  <2>6. WaitersUsed'
        BY <2>1, <2>3, <2>4 DEF OneThreadInv, WaitersUsed, RequestMove, Proceeds, UsedStays, TypeOK, RequestsOK
  <2>7. NoSettings'
        BY <2>3 DEF OneThreadInv, NoSettings, RequestMove, Proceeds
  <2>8. CASE Crash
    <3>1. BootAlone'
          BY <2>8 DEF Crash, BootAlone, Idle
    <3>2. BootFresh' /\ BootUsed'
          BY <2>8 DEF Crash, BootFresh, BootUsed
    <3> QED BY <2>1, <2>2, <2>5, <2>6, <2>7, <3>1, <3>2 DEF OneThreadInv
  <2>9. CASE ~Crash
    <3>1. boot' \subseteq boot
          BY <2>3, <2>9 DEF ResumeMonitor
    <3>2. BootAlone'
          BY <2>3, <3>1 DEF OneThreadInv, BootAlone, RequestMove, Proceeds
    <3>3. ASSUME NEW j \in boot' PROVE reg'[j] = NoThread
          BY <2>1, <2>3, <3>1, <3>3 DEF OneThreadInv, BootFresh, StartsForUsed, TypeOK, JobsOK
    <3>4. BootFresh' /\ BootUsed'
          BY <2>1, <2>3, <3>1, <3>3 DEF OneThreadInv, BootFresh, BootUsed, UsedStays, TypeOK, JobsOK
    <3> QED BY <2>1, <2>2, <2>5, <2>6, <2>7, <3>2, <3>4 DEF OneThreadInv
  <2> QED BY <2>8, <2>9
<1> QED BY <1>1, <1>2

(* Unless settings are changed, every live thread is the registered thread *)
(* of its job: no job ever has two threads, whatever else is interleaved   *)
(* (crashes and joins that time out included).  With settings the two      *)
(* joins of a resume and a settings change can both find nobody.           *)
THEOREM OneThreadCorrect ==
    ASSUME "settings" \notin Ops
    PROVE  Spec => []OneThreadPerJob
<1>1. Init => OneThreadInv
      BY TypeInit DEF Init, OneThreadInv, RegistryNamesLiveThread, OneThreadPerJob, Live,
         DeadThread, BootAlone, BootFresh, BootUsed, NoSettings, WaitersUsed, RegisteredUsed, Idle
<1>2. OneThreadInv /\ [Next]_vars => OneThreadInv'
      BY OneThreadInvStep
<1>3. OneThreadInv => OneThreadPerJob
      BY DEF OneThreadInv
<1> QED BY <1>1, <1>2, <1>3, PTL DEF Spec

----------------------------------------------------------------------------
(* Completion.  As long as nobody prunes or removes the cache, what the    *)
(* monitor saw before its last await is still there after it.              *)

NoTakers            == \A r \in Requests : req[r].pc \notin {"prune", "remove"}
FilesKept           == \A t \in Threads : thr[t].files = "kept"
RecordsAvailable    == \A t \in Threads : thr[t].pc = "record" => thr[t].sha \in Available
MonitorsUsed        == \A m \in Monitors : mon[m].pc # "free" => status[mon[m].job] # "unused"
MaterializeVerified == \A m \in Monitors : mon[m].pc = "materialize" =>
                                              TargetAvailable(mon[m].job)

CompletionInv == /\ TypeOK /\ BootUsed /\ WaitersUsed
                 /\ NoTakers /\ FilesKept /\ RecordsAvailable
                 /\ MonitorsUsed /\ MaterializeVerified

\* What a step does to the threads once no files are taken away.
Progress(t) ==
    /\ thr'[t].files = "kept"
    /\ thr[t].pc = "layout" =>
          thr[t].sha \in complete' \/ (thr'[t].pc = "layout" /\ thr'[t].sha = thr[t].sha)
    /\ thr'[t].pc = "record" =>
          /\ thr'[t].sha = thr[t].sha
          /\ thr[t].pc = "record" \/ thr[t].sha \in complete'
CompleteGrows ==
    /\ \A v \in complete : \/ v \in complete'
                           \/ \E t \in Threads : thr'[t].pc = "layout" /\ thr'[t].sha = v
    /\ \/ ref' = ref
       \/ \E t \in Threads : thr'[t].pc = "layout" /\ thr'[t].sha = ref'

LEMMA ThreadsProgress ==
    ASSUME TypeOK, FilesKept, NEW t \in Threads, ThreadStep(t)
    PROVE  CompleteGrows /\ \A u \in Threads : Progress(u)
<1> USE DEF TypeOK, ThreadsOK, ThreadRecord, FilesKept, CompleteGrows, Progress, Step
<1>1. CASE ThreadPopEvent(t) BY <1>1 DEF ThreadPopEvent, DeadThread
<1>2. CASE ThreadBegin(t) BY <1>2 DEF ThreadBegin
<1>3. CASE ThreadManifest(t) BY <1>3 DEF ThreadManifest
<1>4. CASE \/ ThreadCancelled(t) \/ ThreadBlobs(t) \/ ThreadRaises(t) \/ ThreadRecordSha(t)
           \/ ThreadRecordFailure(t) \/ ThreadPopThread(t)
      BY <1>4 DEF ThreadCancelled, ThreadBlobs, ThreadRaises, ThreadRecordSha,
         ThreadRecordFailure, ThreadPopThread
<1>5. CASE ThreadWriteRef(t) BY <1>5 DEF ThreadWriteRef
<1>6. CASE ThreadLayout(t) BY <1>6 DEF ThreadLayout
<1> QED BY <1>1, <1>2, <1>3, <1>4, <1>5, <1>6 DEF ThreadStep

LEMMA CacheMoves ==
    ASSUME NoTakers, Next
    PROVE  UNCHANGED <<ref, complete>> \/ \E t \in Threads : ThreadStep(t)
  BY DEF NoTakers, Next, Environment, System, RequestStep, StartResolved, StartInsert,
     ResumeJoined, RetryJoined, SettingsSignal, SettingsJoined, SettingsStart, PruneDelete,
     RemoveTree, StartMain, StartPinned, Resume, Retry, SettingsRead, Prune, RemoveCache,
     Pause, Cancel, Delete, RemoteMoves, Crash, WatchdogWakes, MonitorStep, MonitorPoll,
     MonitorComplete, ResumeMonitor

LEMMA StartProgress ==
    ASSUME TypeOK, FilesKept, NEW j, NEW f, StartLocalDownload(j, f)
    PROVE  \A u \in Threads : Progress(u)
<1>1. PICK t \in Threads :
        /\ thr[t].pc = "dead"
        /\ thr' = [thr EXCEPT ![t] = [DeadThread EXCEPT !.job = j, !.pc = "new", !.fetch = f]]
      BY DEF StartLocalDownload, FreeThread
<1>2. thr'[t].pc = "new" /\ thr'[t].files = "kept"
      BY <1>1 DEF DeadThread, TypeOK, ThreadsOK
<1>3. \A u \in Threads \ {t} : thr'[u] = thr[u]
      BY <1>1 DEF TypeOK, ThreadsOK
<1> QED BY <1>1, <1>2, <1>3 DEF Progress, FilesKept

LEMMA AllProgress ==
    ASSUME TypeOK, NoTakers, FilesKept, Next, ~Crash
    PROVE  CompleteGrows /\ \A u \in Threads : Progress(u)
<1>1. CASE \E t \in Threads : ThreadStep(t)
      BY <1>1, ThreadsProgress
<1>2. CASE ~ \E t \in Threads : ThreadStep(t)
  <2>1. CompleteGrows
        BY <1>2, CacheMoves DEF CompleteGrows
  <2>2. ~ \E r \in Requests : PruneDelete(r) \/ RemoveTree(r)
        BY DEF NoTakers, PruneDelete, RemoveTree
  <2>3. PlainMoves
        BY <2>2, RequestMoves, OtherMoves
  <2>4. UNCHANGED thr => \A u \in Threads : Progress(u)
        BY DEF Progress, FilesKept
  <2>5. (\E t \in Threads : WatchdogWakes(t)) => \A u \in Threads : Progress(u)
        BY <2>4, StartProgress DEF WatchdogWakes, StartIf
  <2>6. StartsOne => \A u \in Threads : Progress(u)
        BY StartProgress DEF StartsOne
  <2> QED BY <1>2, <2>1, <2>3, <2>4, <2>5, <2>6 DEF PlainMoves, Signals, Watches
<1> QED BY <1>1, <1>2

LEMMA AvailableGrows ==
    ASSUME CompleteGrows, \A u \in Threads : Progress(u)
    PROVE  Available \subseteq Available' /\ (ref' = ref \/ ref' \in Available')
<1>1. ASSUME NEW v \in complete PROVE v \in Available'
      BY <1>1 DEF CompleteGrows, Available
<1>2. ASSUME NEW t \in Threads, thr[t].pc = "layout" PROVE thr[t].sha \in Available'
      BY <1>2 DEF Progress, Available
<1>3. ref' = ref \/ ref' \in Available'
      BY DEF CompleteGrows, Available
<1> QED BY <1>1, <1>2, <1>3 DEF Available

\* What a step does to a job's target, and to a monitor.
TargetMove(j) ==
    \/ target'[j] = target[j]
    \/ status[j] = "unused"
    \/ target'[j] # NoVersion /\ target'[j] \in Available
MonitorMove(m) ==
    \/ mon'[m] = mon[m]
    \/ mon'[m].pc = "free"
    \/ mon'[m].pc = "poll" /\ status'[mon'[m].job] # "unused"
    \/ mon'[m].job = mon[m].job /\ mon[m].pc = "poll" /\ TargetAvailable(mon[m].job)

LEMMA TargetsMove ==
    ASSUME TypeOK, RecordsAvailable, Next
    PROVE  \A j \in Jobs : TargetMove(j)
<1> USE DEF TargetMove, TypeOK, JobsOK
<1>1. ASSUME NEW t \in Threads, ThreadStep(t) PROVE \A j \in Jobs : TargetMove(j)
  <2>1. CASE ThreadRecordSha(t)
        BY <2>1, ConstantsAssumption
           DEF ThreadRecordSha, Step, RecordsAvailable, ThreadsOK
  <2> QED BY <1>1, <2>1 DEF ThreadStep, ThreadBegin, ThreadManifest, ThreadCancelled,
          ThreadBlobs, ThreadRaises, ThreadWriteRef, ThreadLayout, ThreadRecordFailure,
          ThreadPopThread, ThreadPopEvent
<1>2. ASSUME NEW r \in Requests, RequestStep(r) PROVE \A j \in Jobs : TargetMove(j)
      BY <1>2 DEF RequestStep, StartResolved, StartInsert, ResumeJoined, RetryJoined, Retried,
         SettingsSignal, SettingsJoined, SettingsStart, PruneDelete, RemoveTree
<1>3. CASE UNCHANGED target
      BY <1>3
<1> QED BY <1>1, <1>2, <1>3 DEF Next, Environment, System, StartMain, StartPinned, Resume,
        Retry, Retried, SettingsRead, Prune, RemoveCache, Pause, Cancel, Delete, RemoteMoves,
        Crash, WatchdogWakes, MonitorStep, MonitorPoll, MonitorComplete, ResumeMonitor

LEMMA SpawnMoves ==
    ASSUME TypeOK, NEW j \in Jobs, SpawnMonitor(j), status'[j] # "unused"
    PROVE  \A m \in Monitors : MonitorMove(m)
  BY DEF SpawnMonitor, MonitorMove, TypeOK, MonitorsOK

LEMMA MonitorsMove ==
    ASSUME TypeOK, WaitersUsed, BootUsed, Next
    PROVE  \A m \in Monitors : MonitorMove(m)
<1> USE DEF TypeOK
<1> DEFINE Goal == \A m \in Monitors : MonitorMove(m)
<1>0. UNCHANGED mon => Goal
      BY DEF MonitorMove
<1>1. ASSUME NEW r \in Requests, RequestStep(r) PROVE Goal
  <2>1. CASE StartInsert(r)
        BY <2>1, SpawnMoves DEF StartInsert, JobsOK
  <2>2. CASE ResumeJoined(r)
        BY <1>0, <2>2, SpawnMoves DEF ResumeJoined, WaitersUsed, RequestsOK
  <2>3. CASE RetryJoined(r)
        BY <1>0, <2>3, SpawnMoves DEF RetryJoined, Retried, RequestsOK, JobsOK
  <2> QED BY <1>0, <1>1, <2>1, <2>2, <2>3 DEF RequestStep, StartResolved, SettingsSignal,
          SettingsJoined, SettingsStart, PruneDelete, RemoveTree
<1>2. ASSUME NEW r \in Requests, NEW j \in Jobs, Resume(r, j) PROVE Goal
      BY <1>0, <1>2, SpawnMoves DEF Resume, JobsOK
<1>3. ASSUME NEW r \in Requests, NEW j \in Jobs, Retry(r, j) PROVE Goal
      BY <1>0, <1>3, SpawnMoves DEF Retry, Retried, JobsOK
<1>4. ASSUME NEW j \in Jobs, ResumeMonitor(j) PROVE Goal
      BY <1>4, SpawnMoves DEF ResumeMonitor, BootUsed
<1>5. ASSUME NEW m \in Monitors, MonitorPoll(m) PROVE Goal
  <2>1. CASE status[mon[m].job] = "downloading"
    <3>1. TargetAvailable(mon[m].job)
          BY <1>5, <2>1 DEF MonitorPoll, TargetReady, LocalCacheReady, TargetAvailable, Available
    <3>2. mon' = [mon EXCEPT ![m] = [@ EXCEPT !.pc = "materialize"]]
          BY <1>5, <2>1 DEF MonitorPoll
    <3> QED BY <1>5, <3>1, <3>2 DEF MonitorPoll, MonitorMove, MonitorsOK, MonitorRecord
  <2>2. CASE status[mon[m].job] # "downloading"
        BY <1>5, <2>2 DEF MonitorPoll, MonitorMove, FreeMonitor, MonitorsOK
  <2> QED BY <2>1, <2>2
<1>6. ASSUME NEW m \in Monitors, MonitorComplete(m) PROVE Goal
      BY <1>6 DEF MonitorComplete, MonitorMove, FreeMonitor, MonitorsOK
<1>7. CASE Crash
      BY <1>7 DEF Crash, MonitorMove, FreeMonitor
<1> HIDE DEF Goal
<1> QED BY <1>0, <1>1, <1>2, <1>3, <1>4, <1>5, <1>6, <1>7 DEF Goal, Next, Environment, System,
        StartMain, StartPinned, SettingsRead, Prune, RemoveCache, Pause, Cancel, Delete,
        RemoteMoves, WatchdogWakes, MonitorStep, ThreadStep, ThreadBegin, ThreadManifest,
        ThreadCancelled, ThreadBlobs, ThreadRaises, ThreadWriteRef, ThreadLayout,
        ThreadRecordSha, ThreadRecordFailure, ThreadPopThread, ThreadPopEvent

LEMMA TargetStaysAvailable ==
    ASSUME TypeOK, TypeOK', NEW j \in Jobs, TargetAvailable(j), status[j] # "unused",
           TargetMove(j), Available \subseteq Available',
           ref' = ref \/ ref' \in Available'
    PROVE  TargetAvailable(j)'
  BY DEF TargetAvailable, TargetMove

LEMMA CompletionInvStep ==
    ASSUME CompletionInv, {"prune", "removeCache"} \cap Ops = {}, [Next]_vars
    PROVE  CompletionInv'
<1>1. CASE UNCHANGED vars
  <2>1. TypeOK'
        BY <1>1, TypeStep DEF CompletionInv
  <2>2. Available' = Available
        BY <1>1 DEF vars, Available
  <2> QED BY <1>1, <2>1, <2>2 DEF vars, CompletionInv, BootUsed, WaitersUsed, NoTakers,
          FilesKept, RecordsAvailable, MonitorsUsed, MaterializeVerified, TargetAvailable
<1>2. CASE Next
  <2>0. TypeOK /\ TypeOK'
        BY <1>2, TypeStep DEF CompletionInv
  <2>1. /\ UsedStays
        /\ \A r \in Requests : RequestMove(r)
        /\ \A j \in Jobs : TargetMove(j)
        /\ \A m \in Monitors : MonitorMove(m)
        BY <1>2, <2>0, StatusMoves, RequestsMove, TargetsMove, MonitorsMove DEF CompletionInv
  <2>2. BootUsed'
        BY <1>2, <2>0, <2>1, BootMoves
           DEF CompletionInv, BootUsed, UsedStays, Crash, ResumeMonitor, TypeOK, JobsOK
  <2>3. \A r \in Requests : req'[r].pc \in {"resume", "retry"} => req'[r].job \in Jobs
        BY <2>0 DEF TypeOK, RequestsOK
  <2>4. WaitersUsed'
        BY <2>0, <2>1, <2>3
           DEF CompletionInv, WaitersUsed, RequestMove, Proceeds, UsedStays, TypeOK, RequestsOK
  <2>5. NoTakers'
        BY <2>1 DEF CompletionInv, NoTakers, RequestMove, Proceeds
  <2>6. \A m \in Monitors : mon'[m].pc # "free" => mon'[m].job \in Jobs
        BY <2>0 DEF TypeOK, MonitorsOK
  <2>7. \A m \in Monitors : mon[m].pc # "free" => mon[m].job \in Jobs
        BY <2>0 DEF TypeOK, MonitorsOK
  <2>8. MonitorsUsed'
        BY <2>1, <2>6, <2>7 DEF CompletionInv, MonitorsUsed, MonitorMove, UsedStays
  <2>9. CASE Crash
    <3>1. FilesKept' /\ RecordsAvailable' /\ MaterializeVerified'
          BY <2>9 DEF Crash, FilesKept, RecordsAvailable, MaterializeVerified, DeadThread,
             FreeMonitor
    <3> QED BY <2>0, <2>2, <2>4, <2>5, <2>8, <3>1 DEF CompletionInv
  <2>10. CASE ~Crash
    <3>1. CompleteGrows /\ \A u \in Threads : Progress(u)
          BY <1>2, <2>0, <2>10, AllProgress DEF CompletionInv
    <3>2. Available \subseteq Available' /\ (ref' = ref \/ ref' \in Available')
          BY <3>1, AvailableGrows
    <3>3. FilesKept'
          BY <3>1 DEF FilesKept, Progress
    <3>4. RecordsAvailable'
      <4>1. complete' \subseteq Available'
            BY DEF Available
      <4> HIDE DEF Available
      <4> QED BY <3>1, <3>2, <4>1 DEF CompletionInv, RecordsAvailable, Progress
    <3>5. ASSUME NEW m \in Monitors, mon'[m].pc = "materialize"
          PROVE  TargetAvailable(mon[m].job)'
      <4>1. mon'[m].job = mon[m].job /\ mon[m].pc # "free" /\ TargetAvailable(mon[m].job)
            BY <2>1, <3>5 DEF CompletionInv, MonitorMove, MaterializeVerified
      <4>2. mon[m].job \in Jobs /\ status[mon[m].job] # "unused"
            BY <2>7, <4>1 DEF CompletionInv, MonitorsUsed
      <4>3. PICK j \in Jobs : j = mon[m].job
            BY <4>2
      <4>4. TargetAvailable(j)'
            BY <2>0, <2>1, <3>2, <4>1, <4>2, <4>3, TargetStaysAvailable
      <4> QED BY <4>1, <4>3, <4>4 DEF TargetAvailable
    <3>6. MaterializeVerified'
          BY <3>5 DEF MaterializeVerified, TargetAvailable
    <3> QED BY <2>0, <2>2, <2>4, <2>5, <2>8, <3>3, <3>4, <3>6 DEF CompletionInv
  <2> QED BY <2>9, <2>10
<1> QED BY <1>1, <1>2

(* Unless versions are pruned or the cache is removed, a job becomes       *)
(* completed only when its target commit is on disk: restarts, retries,    *)
(* pauses and a target that changes under the monitor included.            *)
THEOREM CompletionCorrect ==
    ASSUME {"prune", "removeCache"} \cap Ops = {}
    PROVE  Spec => CompletionIsVerified
<1>1. Init => CompletionInv
      BY TypeInit DEF Init, CompletionInv, BootUsed, WaitersUsed, NoTakers, FilesKept,
         RecordsAvailable, MonitorsUsed, MaterializeVerified, DeadThread, FreeMonitor, Idle
<1>2. CompletionInv /\ [Next]_vars => CompletionInv'
      BY CompletionInvStep
<1>3. CompletionInv /\ [Next]_vars => [CompletionStep]_vars
  <2> SUFFICES ASSUME CompletionInv, Next,
                      NEW j \in Jobs, status[j] # "completed", status'[j] = "completed"
               PROVE  TargetAvailable(j)
      BY DEF CompletionStep
  <2>1. \E m \in Monitors : MonitorComplete(m) /\ mon[m].job = j
    <3>1. TypeOK
          BY DEF CompletionInv
    <3>2. ~ \E r \in Requests : RequestStep(r)
          BY <3>1 DEF TypeOK, JobsOK, RequestStep, StartResolved, StartInsert, ResumeJoined,
             RetryJoined, Retried, SettingsSignal, SettingsJoined, SettingsStart,
             PruneDelete, RemoveTree
    <3>3. ~ \E t \in Threads : ThreadStep(t) \/ WatchdogWakes(t)
          BY <3>1 DEF TypeOK, JobsOK, WatchdogWakes, ThreadStep, ThreadBegin, ThreadManifest,
             ThreadCancelled, ThreadBlobs, ThreadRaises, ThreadWriteRef, ThreadLayout,
             ThreadRecordSha, ThreadRecordFailure, ThreadPopThread, ThreadPopEvent
    <3>4. ~ Environment
          BY <3>1 DEF TypeOK, JobsOK, Environment, StartMain, StartPinned, Resume, Retry,
             Retried, SettingsRead, Prune, RemoveCache, Pause, Cancel, Delete, RemoteMoves,
             Crash
    <3>5. ~ \E k \in Jobs : ResumeMonitor(k)
          BY DEF ResumeMonitor
    <3> QED BY <3>1, <3>2, <3>3, <3>4, <3>5 DEF Next, System, MonitorStep, MonitorPoll,
            MonitorComplete, TypeOK, JobsOK
  <2> QED BY <2>1 DEF CompletionInv, MaterializeVerified, MonitorComplete
<1> QED BY <1>1, <1>2, <1>3, PTL DEF Spec, CompletionIsVerified

----------------------------------------------------------------------------
(* Pinned commits.  The request that pins a commit, the thread that        *)
(* fetches it and the row all name the same commit, as long as nobody      *)
(* restarts the job for main.                                              *)

PinnedRow(j)   == asked[j] # NoVersion => target[j] = asked[j]
PinnedThread(t) ==
    Live(t) /\ asked[thr[t].job] # NoVersion =>
        /\ thr[t].fetch = asked[thr[t].job]
        /\ thr[t].pc \in {"blobs", "ref", "layout", "record"} => thr[t].sha = asked[thr[t].job]
PinnedRequest(q) ==
    /\ q.ask # NoVersion => q.pc = "size" /\ q.tgt = q.ask /\ (q.need => q.fetch = q.ask)
    /\ q.pc \notin {"resume", "retry", "setNext", "setJoin", "setStart"}

PinInv == /\ OneThreadInv
          /\ \A j \in Jobs : PinnedRow(j)
          /\ \A t \in Threads : PinnedThread(t)
          /\ \A r \in Requests : PinnedRequest(req[r])

LEMMA PinnedReassigned ==
    ASSUME TypeOK, \A r \in Requests : PinnedRequest(req[r]),
           NEW r \in Requests, NEW q, PinnedRequest(q), req' = [req EXCEPT ![r] = q]
    PROVE  \A s \in Requests : PinnedRequest(req'[s])
  BY DEF TypeOK, RequestsOK

LEMMA IdlePinned == PinnedRequest(Idle)
  BY DEF PinnedRequest, Idle

LEMMA AdmitPinned ==
    ASSUME TypeOK, \A r \in Requests : PinnedRequest(req[r]),
           NEW r \in Requests, req[r].pc # "size", NEW v, NEW f, NEW n, Admit(r, v, f, n)
    PROVE  \A s \in Requests : PinnedRequest(req'[s])
<1> DEFINE q == [Idle EXCEPT !.pc = "size", !.ask = req[r].ask, !.tgt = v, !.fetch = f,
                             !.need = n]
<1>1. req' = [req EXCEPT ![r] = q] \/ req' = [req EXCEPT ![r] = Idle]
      BY DEF Admit
<1>2. req[r].ask = NoVersion
      BY DEF PinnedRequest
<1>3. PinnedRequest(q)
      BY <1>2 DEF PinnedRequest, Idle
<1> HIDE DEF q
<1> QED BY <1>1, <1>3, IdlePinned, PinnedReassigned

LEMMA RequestsPinned ==
    ASSUME TypeOK, {"resume", "retry", "settings"} \cap Ops = {}, Next,
           \A r \in Requests : PinnedRequest(req[r])
    PROVE  \A r \in Requests : PinnedRequest(req'[r])
<1> DEFINE Goal == \A r \in Requests : PinnedRequest(req'[r])
<1>0. UNCHANGED req => Goal
      OBVIOUS
<1>1. ASSUME NEW r \in Requests, Finish(r) PROVE Goal
      BY <1>1, IdlePinned, PinnedReassigned DEF Finish
<1>2. ASSUME NEW r \in Requests, RequestStep(r) PROVE Goal
  <2>1. CASE StartResolved(r)
        BY <2>1, AdmitPinned DEF StartResolved
  <2>2. CASE SettingsSignal(r) \/ SettingsJoined(r) \/ SettingsStart(r)
        BY <2>2 DEF SettingsSignal, SettingsJoined, SettingsStart, PinnedRequest
  <2> HIDE DEF Goal
  <2> QED BY <1>1, <1>2, <2>1, <2>2 DEF RequestStep, StartInsert, ResumeJoined, RetryJoined,
          PruneDelete, RemoveTree
<1>3. ASSUME NEW r \in Requests, NEW f \in BOOLEAN, StartMain(r, f) PROVE Goal
  <2> DEFINE q == [Idle EXCEPT !.pc = "resolve", !.tgt = ref, !.force = f]
  <2>1. PinnedRequest(q)
        BY DEF PinnedRequest, Idle
  <2>2. CASE req' = [req EXCEPT ![r] = q]
    <3> HIDE DEF q
    <3> QED BY <2>1, <2>2, PinnedReassigned
  <2>3. CASE Admit(r, ref, NoVersion, ~LocalCacheReady)
        BY <1>3, <2>3, AdmitPinned DEF StartMain, Opened
  <2> QED BY <1>3, <2>2, <2>3 DEF StartMain
<1>4. ASSUME NEW r \in Requests, NEW v \in Versions, StartPinned(r, v) PROVE Goal
  <2> DEFINE q == [Idle EXCEPT !.pc = "size", !.ask = v, !.tgt = v,
                     !.fetch = IF v \in complete THEN NoVersion ELSE v,
                     !.need = ~(v \in complete)]
  <2>1. PinnedRequest(q)
        BY DEF PinnedRequest, Idle
  <2>2. req' = [req EXCEPT ![r] = q] \/ req' = [req EXCEPT ![r] = Idle]
        BY <1>4 DEF StartPinned
  <2> HIDE DEF q
  <2> QED BY <2>1, <2>2, IdlePinned, PinnedReassigned
<1>5. ASSUME NEW r \in Requests, NEW j \in Jobs, Resume(r, j) \/ Retry(r, j) \/ SettingsRead(r)
      PROVE  Goal
      BY <1>5 DEF Resume, Retry, SettingsRead, Opened, Served
<1>6. ASSUME NEW r \in Requests, Prune(r) \/ RemoveCache(r) PROVE Goal
  <2> DEFINE p(s) == [Idle EXCEPT !.pc = "prune", !.doomed = s]
             q == [Idle EXCEPT !.pc = "remove"]
  <2>1. PinnedRequest(q) /\ \A s : PinnedRequest(p(s))
        BY DEF PinnedRequest, Idle
  <2>2. req' = [req EXCEPT ![r] = q] \/ \E s : req' = [req EXCEPT ![r] = p(s)]
        BY <1>6 DEF Prune, RemoveCache
  <2> HIDE DEF p, q
  <2> QED BY <2>1, <2>2, PinnedReassigned
<1>7. CASE Crash
      BY <1>7, IdlePinned DEF Crash
<1>8. ASSUME NEW t \in Threads, ThreadStep(t) \/ WatchdogWakes(t) PROVE Goal
      BY <1>0, <1>8 DEF WatchdogWakes, ThreadStep, ThreadBegin, ThreadManifest,
         ThreadCancelled, ThreadBlobs, ThreadRaises, ThreadWriteRef, ThreadLayout,
         ThreadRecordSha, ThreadRecordFailure, ThreadPopThread, ThreadPopEvent
<1>9. ASSUME NEW m \in Monitors, MonitorStep(m) PROVE Goal
      BY <1>0, <1>9 DEF MonitorStep, MonitorPoll, MonitorComplete
<1>10. ASSUME NEW j \in Jobs, Pause(j) \/ Cancel(j) \/ Delete(j) \/ ResumeMonitor(j)
       PROVE  Goal
       BY <1>0, <1>10 DEF Pause, Cancel, Delete, ResumeMonitor
<1>11. RemoteMoves => Goal
       BY <1>0 DEF RemoteMoves
<1>12. ASSUME NEW r \in Requests, SettingsRead(r) PROVE Goal
       BY <1>12 DEF SettingsRead, Opened, Served
<1> HIDE DEF Goal
<1> QED BY <1>2, <1>3, <1>4, <1>5, <1>6, <1>7, <1>8, <1>9, <1>10, <1>11, <1>12
        DEF Next, Environment, System, Goal

(* A live thread of a used job keeps what it fetches; a new one fetches    *)
(* the commit its job asked for.                                           *)
LEMMA StartPinnedThread ==
    ASSUME TypeOK, \A t \in Threads : PinnedThread(t),
           NEW j \in Jobs, NEW f \in Version, StartLocalDownload(j, f),
           asked'[j] # NoVersion => f = asked'[j],
           \A t \in Threads : Live(t) => asked'[thr[t].job] = asked[thr[t].job]
    PROVE  \A t \in Threads : PinnedThread(t)'
<1>1. PICK t \in Threads :
        thr' = [thr EXCEPT ![t] = [DeadThread EXCEPT !.job = j, !.pc = "new", !.fetch = f]]
      BY DEF StartLocalDownload
<1>2. thr'[t].pc = "new" /\ thr'[t].job = j /\ thr'[t].fetch = f
      BY <1>1 DEF DeadThread, TypeOK, ThreadsOK
<1>3. \A u \in Threads \ {t} : thr'[u] = thr[u]
      BY <1>1 DEF TypeOK, ThreadsOK
<1>4. PinnedThread(t)'
      BY <1>2 DEF PinnedThread
<1>5. ASSUME NEW u \in Threads \ {t} PROVE PinnedThread(u)'
      BY <1>3, <1>5 DEF PinnedThread, Live
<1> QED BY <1>4, <1>5

LEMMA ThreadsPinned ==
    ASSUME PinInv, Next, {"resume", "retry", "settings"} \cap Ops = {}
    PROVE  \A t \in Threads : PinnedThread(t)'
<1> USE DEF PinInv, OneThreadInv, TypeOK
<1> DEFINE Goal == \A t \in Threads : PinnedThread(t)'
<1>0. UNCHANGED <<thr, asked>> => Goal
      BY DEF PinnedThread, Live
<1>1. ASSUME NEW t \in Threads, Live(t) PROVE status[thr[t].job] # "unused"
      BY <1>1, ConstantsAssumption DEF OneThreadPerJob, RegisteredUsed, ThreadsOK, Live
<1>2. ASSUME NEW r \in Requests, StartInsert(r) PROVE Goal
  <2>1. PICK j \in Jobs :
          /\ status[j] = "unused"
          /\ asked' = [asked EXCEPT ![j] = req[r].ask]
          /\ StartIf(req[r].need, j, req[r].fetch)
        BY <1>2 DEF StartInsert
  <2>2. \A t \in Threads : Live(t) => asked'[thr[t].job] = asked[thr[t].job]
        BY <1>1, <2>1 DEF JobsOK
  <2>3. asked'[j] = req[r].ask /\ req[r].fetch \in Version
        BY <2>1 DEF JobsOK, RequestsOK, RequestRecord
  <2>4. CASE req[r].need
        BY <2>1, <2>2, <2>3, <2>4, StartPinnedThread DEF StartIf, PinnedRequest
  <2>5. CASE ~req[r].need
        BY <2>1, <2>2, <2>5 DEF StartIf, PinnedThread, Live
  <2> QED BY <2>4, <2>5
<1>3. ASSUME NEW j \in Jobs, ResumeMonitor(j) PROVE Goal
  <2>1. target[j] \in Version /\ UNCHANGED asked
        BY <1>3 DEF ResumeMonitor, JobsOK
  <2>2. StartLocalDownload(j, target[j]) => Goal
        BY <2>1, StartPinnedThread DEF PinnedRow
  <2> QED BY <1>0, <1>3, <2>1, <2>2 DEF ResumeMonitor, StartIf
<1>4. ASSUME NEW t \in Threads, ThreadStep(t) PROVE Goal
  <2> USE DEF ThreadsOK, ThreadRecord, PinnedThread, Live
  <2>1. CASE ThreadPopEvent(t) BY <2>1 DEF ThreadPopEvent, DeadThread
  <2>2. CASE ThreadBegin(t) BY <2>2 DEF ThreadBegin
  <2>3. CASE ThreadManifest(t) BY <2>3 DEF ThreadManifest
  <2>4. CASE \/ ThreadCancelled(t) \/ ThreadBlobs(t) \/ ThreadRaises(t) \/ ThreadWriteRef(t)
             \/ ThreadLayout(t)
        BY <2>4 DEF ThreadCancelled, ThreadBlobs, ThreadRaises, ThreadWriteRef, ThreadLayout,
             Step
  <2>5. CASE ThreadRecordSha(t) \/ ThreadRecordFailure(t) \/ ThreadPopThread(t)
        BY <2>5 DEF ThreadRecordSha, ThreadRecordFailure, ThreadPopThread, Step
  <2> QED BY <1>4, <2>1, <2>2, <2>3, <2>4, <2>5 DEF ThreadStep
<1>5. ASSUME NEW pcs, NEW shas, Losing(pcs, shas), UNCHANGED asked PROVE Goal
  <2>1. ASSUME NEW u \in Threads
        PROVE  /\ thr'[u].pc = thr[u].pc /\ thr'[u].job = thr[u].job
               /\ thr'[u].fetch = thr[u].fetch /\ thr'[u].sha = thr[u].sha
        BY <1>5 DEF Losing, ThreadsOK, ThreadRecord
  <2> QED BY <1>5, <2>1 DEF PinnedThread, Live
<1>6. CASE Crash
      BY <1>6 DEF Crash, PinnedThread, Live, DeadThread
<1>7. ASSUME NEW r \in Requests, RequestStep(r) PROVE Goal
  <2>1. CASE ResumeJoined(r) \/ RetryJoined(r) \/ SettingsSignal(r) \/ SettingsJoined(r)
             \/ SettingsStart(r)
        BY <2>1 DEF ResumeJoined, RetryJoined, SettingsSignal, SettingsJoined, SettingsStart,
           PinnedRequest
  <2> HIDE DEF Goal
  <2> QED BY <1>0, <1>2, <1>5, <1>7, <2>1
          DEF RequestStep, StartResolved, PruneDelete, RemoveTree
<1>8. ASSUME NEW r \in Requests, NEW j \in Jobs, Resume(r, j) \/ Retry(r, j) PROVE Goal
      BY <1>8 DEF Resume, Retry, Opened, Served
<1>9. ASSUME NEW t \in Threads, WatchdogWakes(t) PROVE Goal
      BY <1>0, <1>9, WatchdogNeverRestarts DEF WatchdogWakes
<1> HIDE DEF Goal
<1>10. ASSUME NEW r \in Requests,
              \/ \E f \in BOOLEAN : StartMain(r, f)
              \/ \E v \in Versions : StartPinned(r, v)
              \/ SettingsRead(r) \/ Prune(r) \/ RemoveCache(r)
       PROVE  Goal
  <2>1. UNCHANGED <<thr, asked>>
        BY <1>10 DEF StartMain, StartPinned, SettingsRead, Prune, RemoveCache
  <2> QED BY <1>0, <2>1
<1>11. ASSUME NEW j \in Jobs, Pause(j) \/ Cancel(j) \/ Delete(j) PROVE Goal
       BY <1>0, <1>11 DEF Pause, Cancel, Delete
<1>12. RemoteMoves => Goal
       BY <1>0 DEF RemoteMoves
<1>13. ASSUME NEW m \in Monitors, MonitorStep(m) PROVE Goal
       BY <1>0, <1>13 DEF MonitorStep, MonitorPoll, MonitorComplete
<1> QED BY <1>3, <1>4, <1>6, <1>7, <1>8, <1>9, <1>10, <1>11, <1>12, <1>13
        DEF Next, Environment, System, Goal

LEMMA RowsPinned ==
    ASSUME PinInv, Next
    PROVE  \A j \in Jobs : PinnedRow(j)'
<1> USE DEF PinInv, OneThreadInv, TypeOK, PinnedRow
<1> DEFINE Goal == \A j \in Jobs : PinnedRow(j)'
<1>0. UNCHANGED <<asked, target>> => Goal
      OBVIOUS
<1>1. ASSUME NEW r \in Requests, StartInsert(r) PROVE Goal
      BY <1>1 DEF StartInsert, PinnedRequest, JobsOK
<1>2. ASSUME NEW t \in Threads, ThreadRecordSha(t) PROVE Goal
      BY <1>2 DEF ThreadRecordSha, Step, PinnedThread, Live, JobsOK, ThreadsOK
<1> HIDE DEF Goal
<1>3. ASSUME NEW r \in Requests, RequestStep(r) PROVE Goal
      BY <1>0, <1>1, <1>3 DEF RequestStep, StartResolved, ResumeJoined, RetryJoined,
         SettingsSignal, SettingsJoined, SettingsStart, PruneDelete, RemoveTree
<1>4. ASSUME NEW t \in Threads, ThreadStep(t) PROVE Goal
      BY <1>0, <1>2, <1>4 DEF ThreadStep, ThreadBegin, ThreadManifest, ThreadCancelled,
         ThreadBlobs, ThreadRaises, ThreadWriteRef, ThreadLayout, ThreadRecordFailure,
         ThreadPopThread, ThreadPopEvent
<1>5. CASE UNCHANGED <<asked, target>>
      BY <1>0, <1>5
<1> QED BY <1>3, <1>4, <1>5 DEF Goal, Next, Environment, System, StartMain, StartPinned, Resume,
        Retry, SettingsRead, Prune, RemoveCache, Pause, Cancel, Delete, RemoteMoves,
        Crash, WatchdogWakes, MonitorStep, MonitorPoll, MonitorComplete, ResumeMonitor

(* Unless a job is resumed, retried or restarted for new settings, a job   *)
(* created for a commit keeps that commit as its target: failures, pauses, *)
(* restarts of the backend and removals of the cache included.             *)
THEOREM PinKeptCorrect ==
    ASSUME {"resume", "retry", "settings"} \cap Ops = {}
    PROVE  Spec => []PinnedTargetKept
<1>1. Init => PinInv
  <2> SUFFICES ASSUME Init PROVE PinInv
      OBVIOUS
  <2>1. OneThreadInv
        BY TypeInit DEF Init, OneThreadInv, RegistryNamesLiveThread, OneThreadPerJob, Live,
           DeadThread, BootAlone, BootFresh, BootUsed, NoSettings, WaitersUsed,
           RegisteredUsed, Idle
  <2>2. \A j \in Jobs : PinnedRow(j)
        BY DEF Init, PinnedRow
  <2>3. \A t \in Threads : PinnedThread(t)
        BY DEF Init, PinnedThread, Live, DeadThread
  <2>4. \A r \in Requests : PinnedRequest(req[r])
        BY IdlePinned DEF Init
  <2> QED BY <2>1, <2>2, <2>3, <2>4 DEF PinInv
<1>2. PinInv /\ [Next]_vars => PinInv'
  <2> SUFFICES ASSUME PinInv, [Next]_vars PROVE PinInv'
      OBVIOUS
  <2>1. OneThreadInv /\ OneThreadInv' /\ TypeOK
        BY OneThreadInvStep DEF PinInv, OneThreadInv
  <2>2. CASE Next
        BY <2>1, <2>2, RequestsPinned, ThreadsPinned, RowsPinned DEF PinInv
  <2>3. CASE UNCHANGED vars
        BY <2>1, <2>3 DEF vars, PinInv, PinnedRow, PinnedThread, Live
  <2> QED BY <2>2, <2>3
<1>3. PinInv => PinnedTargetKept
      BY DEF PinInv, PinnedRow, PinnedTargetKept
<1> QED BY <1>1, <1>2, <1>3, PTL DEF Spec

----------------------------------------------------------------------------
(* One writer.  A thread is started only while nothing of the repository   *)
(* is complete and no job is active, and nobody becomes active meanwhile:  *)
(* the single request in flight is the one that was admitted.              *)

OneAtATime == /\ Ops \subseteq {"start", "pause", "retry", "drift", "joinTimeout"}
              /\ \A r, s \in Requests : r = s

\* From its start to the last link of its snapshot.
Working(t) == thr[t].pc \in {"new", "manifest", "blobs", "ref", "layout"}

SoleWorker == \A t, u \in Threads : Working(t) /\ Working(u) => t = u
WorkerFirst(t) ==
    Working(t) => /\ status[thr[t].job] \in Active /\ complete = {}
                  /\ thr[t].fetch = NoVersion
                  /\ thr[t].pc = "layout" => thr[t].sha = ref
WorkOK == SoleWorker /\ \A t \in Threads : WorkerFirst(t)

MainComplete   == complete = {} \/ ref \in complete
SeenComplete   == \A m \in Monitors : mon[m].pc = "materialize" => complete # {}
AdmittedAlone(q) ==
    /\ q.pc \in {"idle", "resolve", "size", "retry"}
    /\ q.pc = "resolve" => ~q.force
    /\ q.pc = "size" => q.fetch = NoVersion /\ (q.need => complete = {} /\ ActiveJobs = {})
    /\ q.pc = "retry" => complete # {} \/ ActiveJobs = {}

SoleInv == /\ OneThreadInv /\ boot = {} /\ WorkOK /\ MainComplete /\ SeenComplete
           /\ \A r \in Requests : AdmittedAlone(req[r])

\* Nobody is active, so nobody works.
LEMMA NobodyWorks ==
    ASSUME TypeOK, WorkOK, ActiveJobs = {}, NEW t \in Threads
    PROVE  ~Working(t)
  BY DEF WorkOK, WorkerFirst, Working, ActiveJobs, TypeOK, ThreadsOK

LEMMA FirstStart ==
    ASSUME TypeOK, \A t \in Threads : ~Working(t), complete' = {},
           NEW j \in Jobs, status'[j] \in Active, StartLocalDownload(j, NoVersion)
    PROVE  WorkOK'
<1>1. PICK t \in Threads :
        thr' = [thr EXCEPT ![t] = [DeadThread EXCEPT !.job = j, !.pc = "new",
                                                     !.fetch = NoVersion]]
      BY DEF StartLocalDownload
<1>2. thr'[t].pc = "new" /\ thr'[t].job = j /\ thr'[t].fetch = NoVersion
      BY <1>1 DEF DeadThread, TypeOK, ThreadsOK
<1>3. \A u \in Threads \ {t} : thr'[u] = thr[u]
      BY <1>1 DEF TypeOK, ThreadsOK
<1>4. \A u \in Threads \ {t} : ~Working(u)'
      BY <1>3 DEF Working
<1>5. WorkerFirst(t)'
      BY <1>2 DEF WorkerFirst
<1> QED BY <1>4, <1>5 DEF WorkOK, SoleWorker, WorkerFirst

\* Work that goes on while the cache and the active jobs stay.
LEMMA SameWork ==
    ASSUME TypeOK, WorkOK, UNCHANGED <<thr, ref, complete>>,
           \A j \in Jobs : status[j] \in Active => status'[j] \in Active
    PROVE  WorkOK'
<1>1. \A t \in Threads : Working(t) => thr[t].job \in Jobs
      BY DEF Working, TypeOK, ThreadsOK
<1> QED BY <1>1 DEF WorkOK, SoleWorker, WorkerFirst, Working

LEMMA ThreadsWorkAlone ==
    ASSUME SoleInv, OneAtATime, NEW t \in Threads, ThreadStep(t)
    PROVE  WorkOK' /\ MainComplete' /\ (complete' = complete \/ (complete' # {} /\ complete = {}))
<1> USE DEF SoleInv, OneThreadInv, TypeOK, ThreadsOK, ThreadRecord, WorkOK, SoleWorker,
        WorkerFirst, Working
<1> DEFINE Goal == WorkOK' /\ MainComplete'
                   /\ (complete' = complete \/ (complete' # {} /\ complete = {}))
<1>1. CASE ThreadPopEvent(t) BY <1>1 DEF ThreadPopEvent, DeadThread, MainComplete
<1>2. CASE ThreadBegin(t) BY <1>2 DEF ThreadBegin, MainComplete
<1>3. CASE ThreadManifest(t) BY <1>3 DEF ThreadManifest, MainComplete
<1>4. CASE \/ ThreadCancelled(t) \/ ThreadBlobs(t) \/ ThreadRaises(t) \/ ThreadRecordSha(t)
           \/ ThreadPopThread(t)
      BY <1>4 DEF ThreadCancelled, ThreadBlobs, ThreadRaises, ThreadRecordSha,
         ThreadPopThread, Step, MainComplete
<1>5. CASE ThreadWriteRef(t)
  <2>1. Working(t) /\ thr[t].fetch = NoVersion /\ complete = {}
        BY <1>5 DEF ThreadWriteRef, Step
  <2>2. thr' = [thr EXCEPT ![t].pc = "layout"] /\ ref' = thr[t].sha /\ complete' = {}
        BY <1>5, <2>1 DEF ThreadWriteRef, Step
  <2>3. UNCHANGED status
        BY <1>5 DEF ThreadWriteRef
  <2>4. \A u \in Threads : Working(u)' => u = t
        BY <2>1, <2>2
  <2>5. WorkerFirst(t)'
        BY <2>1, <2>2, <2>3
  <2>6. SoleWorker'
        BY <2>4
  <2>7. \A u \in Threads : WorkerFirst(u)'
        BY <2>4, <2>5
  <2>8. complete' = complete
        BY <2>1, <2>2
  <2>9. WorkOK'
        BY <2>6, <2>7, Zenon
  <2>10. MainComplete'
        BY <2>2 DEF MainComplete
  <2> HIDE DEF WorkOK
  <2> QED BY <2>8, <2>9, <2>10
<1>6. CASE ThreadLayout(t)
  <2>1. Working(t) /\ thr[t].sha = ref /\ complete = {}
        BY <1>6 DEF ThreadLayout, Step
  <2>2. /\ thr' = [thr EXCEPT ![t].pc = "fail"] \/ thr' = [thr EXCEPT ![t].pc = "record"]
        /\ UNCHANGED <<ref, status>>
        /\ complete' = {} \/ complete' = {ref}
        BY <1>6, <2>1 DEF ThreadLayout, Step
  <2>3. \A u \in Threads : ~Working(u)'
        BY <2>1, <2>2
  <2>4. WorkOK'
        BY <2>3
  <2>5. MainComplete' /\ (complete' = {} \/ complete' # {})
        BY <2>2 DEF MainComplete
  <2> HIDE DEF WorkOK
  <2> QED BY <2>1, <2>4, <2>5
<1>7. CASE ThreadRecordFailure(t)
  <2>1. ASSUME NEW u \in Threads, Working(u) PROVE thr[u].job # thr[t].job
        BY <1>7, <2>1 DEF ThreadRecordFailure, Step, OneThreadPerJob, Live
  <2>2. \A u \in Threads : Working(u)' => Working(u) /\ thr'[u] = thr[u]
        BY <1>7 DEF ThreadRecordFailure, Step
  <2>3. \A u \in Threads : Working(u) => thr[u].job \in Jobs
        OBVIOUS
  <2>4. UNCHANGED <<ref, complete>>
        BY <1>7 DEF ThreadRecordFailure
  <2>5. \A u \in Threads : WorkerFirst(u)'
        BY <1>7, <2>1, <2>2, <2>3, <2>4 DEF ThreadRecordFailure, JobsOK
  <2> QED BY <2>2, <2>4, <2>5 DEF MainComplete
<1> QED BY <1>1, <1>2, <1>3, <1>4, <1>5, <1>6, <1>7 DEF ThreadStep

LEMMA StepsWorkAlone ==
    ASSUME SoleInv, OneAtATime, Next
    PROVE  /\ WorkOK' /\ MainComplete'
           /\ complete' = complete \/ (complete' # {} /\ complete = {})
<1> USE DEF SoleInv, OneThreadInv
<1> DEFINE Goal == /\ WorkOK' /\ MainComplete'
                   /\ complete' = complete \/ (complete' # {} /\ complete = {})
<1>0. ASSUME UNCHANGED <<thr, ref, complete>>,
             \A j \in Jobs : status[j] \in Active => status'[j] \in Active
      PROVE  Goal
      BY <1>0, SameWork DEF MainComplete
<1>1. ASSUME NEW t \in Threads, ThreadStep(t) PROVE Goal
      BY <1>1, ThreadsWorkAlone
<1>2. ASSUME UNCHANGED <<ref, complete>>, complete = {}, ActiveJobs = {},
             NEW j \in Jobs, status'[j] \in Active, StartLocalDownload(j, NoVersion)
      PROVE  Goal
      BY <1>2, NobodyWorks, FirstStart DEF MainComplete
<1>3. ASSUME NEW r \in Requests, StartInsert(r) PROVE Goal
  <2>1. PICK j \in Jobs :
          /\ status[j] = "unused"
          /\ status' = [status EXCEPT ![j] = "downloading"]
          /\ StartIf(req[r].need, j, req[r].fetch)
        BY <1>3 DEF StartInsert
  <2>2. status'[j] \in Active /\ UNCHANGED <<ref, complete>>
        BY <1>3, <2>1 DEF StartInsert, Active, TypeOK, JobsOK
  <2>3. CASE req[r].need
        BY <1>2, <1>3, <2>1, <2>2, <2>3 DEF StartIf, StartInsert, AdmittedAlone
  <2>4. CASE ~req[r].need
    <3>1. \A k \in Jobs : status[k] \in Active => status'[k] \in Active
          BY <2>1 DEF TypeOK, JobsOK, Active
    <3> QED BY <1>0, <2>1, <2>2, <2>4, <3>1 DEF StartIf
  <2> QED BY <2>3, <2>4
<1>4. ASSUME NEW j \in Jobs, Retried(j), UNCHANGED <<ref, complete>>,
             complete # {} \/ ActiveJobs = {}
      PROVE  Goal
  <2>1. \A k \in Jobs : status[k] \in Active => status'[k] \in Active
        BY <1>4 DEF Retried, TypeOK, JobsOK, Active
  <2>2. status'[j] \in Active
        BY <1>4 DEF Retried, TypeOK, JobsOK, Active
  <2>3. ~LocalCacheReady => complete = {}
        BY ConstantsAssumption DEF LocalCacheReady, MainComplete, TypeOK, CacheOK
  <2> QED BY <1>0, <1>2, <1>4, <2>1, <2>2, <2>3 DEF Retried, StartIf
<1>5. ASSUME NEW r \in Requests, RetryJoined(r) PROVE Goal
  <2>1. UNCHANGED <<ref, complete>>
        BY <1>5 DEF RetryJoined
  <2>2. req[r].job \in Jobs
        BY <1>5 DEF RetryJoined, TypeOK, RequestsOK
  <2>3. CASE Retried(req[r].job)
        BY <1>4, <1>5, <2>1, <2>2, <2>3 DEF RetryJoined, AdmittedAlone
  <2>4. CASE UNCHANGED <<status, threadVars, mon>>
        BY <1>0, <2>1, <2>4
  <2> QED BY <1>5, <2>3, <2>4 DEF RetryJoined
<1>6. ASSUME NEW r \in Requests, RequestStep(r) PROVE Goal
  <2>1. CASE StartResolved(r) BY <1>0, <2>1 DEF StartResolved
  <2> QED BY <1>3, <1>5, <1>6, <2>1 DEF RequestStep, ResumeJoined, SettingsSignal,
          SettingsJoined, SettingsStart, PruneDelete, RemoveTree, AdmittedAlone
<1>7. ASSUME NEW r \in Requests, NEW j \in Jobs, Retry(r, j) PROVE Goal
  <2>1. UNCHANGED <<ref, complete>>
        BY <1>7 DEF Retry
  <2>2. LocalCacheReady \/ ActiveJobs = {}
        BY <1>7 DEF Retry, Admitted, ActiveJobs, Active
  <2>3. LocalCacheReady => complete # {}
        BY DEF LocalCacheReady
  <2>4. CASE Retried(j)
        BY <1>4, <2>1, <2>2, <2>3, <2>4
  <2>5. CASE UNCHANGED <<status, thr, reg, mon>>
        BY <1>0, <2>1, <2>5
  <2> QED BY <1>7, <2>4, <2>5 DEF Retry
<1>8. ASSUME NEW r \in Requests, NEW f \in BOOLEAN, StartMain(r, f) PROVE Goal
      BY <1>0, <1>8 DEF StartMain
<1>9. ASSUME NEW j \in Jobs, Pause(j) PROVE Goal
  <2>1. \A k \in Jobs : status[k] \in Active => status'[k] \in Active
        BY <1>9 DEF Pause, TypeOK, JobsOK, Active
  <2> QED BY <1>0, <1>9, <2>1 DEF Pause
<1>10. RemoteMoves => Goal
       BY <1>0 DEF RemoteMoves
<1>11. ASSUME NEW t \in Threads, WatchdogWakes(t) PROVE Goal
       BY <1>0, <1>11, WatchdogNeverRestarts DEF WatchdogWakes
<1>12. ASSUME NEW m \in Monitors, MonitorPoll(m) PROVE Goal
       BY <1>0, <1>12 DEF MonitorPoll
<1>13. ASSUME NEW m \in Monitors, MonitorComplete(m) PROVE Goal
  <2>1. complete # {} /\ UNCHANGED <<thr, ref, complete>>
        BY <1>13 DEF MonitorComplete, SeenComplete
  <2>2. \A t \in Threads : ~Working(t)
        BY <2>1 DEF WorkOK, WorkerFirst
  <2>3. WorkOK'
        BY <2>1, <2>2 DEF WorkOK, SoleWorker, WorkerFirst, Working
  <2> QED BY <2>1, <2>3 DEF MainComplete
<1>14. ASSUME NEW r \in Requests,
              \/ \E v \in Versions : StartPinned(r, v)
              \/ \E j \in Jobs : Resume(r, j)
              \/ SettingsRead(r) \/ Prune(r) \/ RemoveCache(r)
       PROVE  FALSE
       BY <1>14 DEF OneAtATime, StartPinned, Resume, SettingsRead, Prune, RemoveCache, Opened, Served
<1>15. ASSUME NEW j \in Jobs, Cancel(j) \/ Delete(j) \/ ResumeMonitor(j) PROVE FALSE
       BY <1>15 DEF OneAtATime, Cancel, Delete, ResumeMonitor, Served
<1>16. ~Crash
       BY DEF OneAtATime, Crash
<1> HIDE DEF Goal
<1> QED BY <1>1, <1>6, <1>7, <1>8, <1>9, <1>10, <1>11, <1>12, <1>13, <1>14, <1>15, <1>16
        DEF Goal, Next, Environment, System, MonitorStep

LEMMA ActiveMoves ==
    ASSUME SoleInv, OneAtATime, Next, ActiveJobs = {},
           ~ \E r \in Requests : StartInsert(r) \/ RetryJoined(r) \/ \E j \in Jobs : Retry(r, j)
    PROVE  ActiveJobs' = {}
<1> USE DEF SoleInv, OneThreadInv, TypeOK, JobsOK, ActiveJobs, Active
<1>0. UNCHANGED status => ActiveJobs' = {}
      OBVIOUS
<1>1. ASSUME NEW r \in Requests, RequestStep(r) PROVE ActiveJobs' = {}
      BY <1>0, <1>1 DEF RequestStep, StartResolved, ResumeJoined, SettingsSignal,
         SettingsJoined, SettingsStart, PruneDelete, RemoveTree, AdmittedAlone
<1>2. ASSUME NEW t \in Threads, ThreadStep(t) \/ WatchdogWakes(t) PROVE ActiveJobs' = {}
  <2>1. CASE ThreadRecordFailure(t) BY <2>1 DEF ThreadRecordFailure
  <2> QED BY <1>0, <1>2, <2>1 DEF WatchdogWakes, ThreadStep, ThreadBegin, ThreadManifest,
          ThreadCancelled, ThreadBlobs, ThreadRaises, ThreadWriteRef, ThreadLayout,
          ThreadRecordSha, ThreadPopThread, ThreadPopEvent
<1>3. ASSUME NEW m \in Monitors, MonitorStep(m) PROVE ActiveJobs' = {}
      BY <1>0, <1>3 DEF MonitorStep, MonitorPoll, MonitorComplete
<1>4. ASSUME NEW r \in Requests, NEW j \in Jobs, Resume(r, j) PROVE ActiveJobs' = {}
      BY <1>4 DEF Resume, OneAtATime, Opened, Served
<1>5. ASSUME NEW j \in Jobs, Pause(j) \/ Cancel(j) \/ Delete(j) \/ ResumeMonitor(j)
      PROVE  ActiveJobs' = {}
      BY <1>5 DEF Pause, Cancel, Delete, ResumeMonitor
<1>6. ASSUME NEW r \in Requests,
             \/ \E f \in BOOLEAN : StartMain(r, f)
             \/ \E v \in Versions : StartPinned(r, v)
             \/ SettingsRead(r) \/ Prune(r) \/ RemoveCache(r)
      PROVE  ActiveJobs' = {}
      BY <1>0, <1>6 DEF StartMain, StartPinned, SettingsRead, Prune, RemoveCache
<1>7. RemoteMoves \/ Crash => ActiveJobs' = {}
      BY <1>0 DEF RemoteMoves, Crash
<1> QED BY <1>1, <1>2, <1>3, <1>4, <1>5, <1>6, <1>7 DEF Next, Environment, System

\* With one slot, a request that is given a new record is the only one.
LEMMA AloneReassigned ==
    ASSUME TypeOK, OneAtATime, NEW r \in Requests, NEW q, req' = [req EXCEPT ![r] = q],
           AdmittedAlone(q)'
    PROVE  \A s \in Requests : AdmittedAlone(req[s])'
<1> SUFFICES ASSUME NEW s \in Requests PROVE AdmittedAlone(req[s])'
    OBVIOUS
<1>1. s = r
      BY DEF OneAtATime
<1>2. req'[s] = q
      BY <1>1 DEF TypeOK, RequestsOK
<1> QED BY <1>2

LEMMA CompleteStays ==
    ASSUME SoleInv, Next, ActiveJobs = {}
    PROVE  complete' = complete
<1> USE DEF SoleInv, OneThreadInv
<1>1. NoTakers
      BY DEF NoTakers, AdmittedAlone
<1>2. ASSUME NEW t \in Threads, ThreadStep(t) PROVE complete' = complete
  <2>1. ~ThreadWriteRef(t) /\ ~ThreadLayout(t)
        BY NobodyWorks DEF Working, ThreadWriteRef, ThreadLayout, Step
  <2> QED BY <1>2, <2>1 DEF ThreadStep, ThreadBegin, ThreadManifest, ThreadCancelled,
          ThreadBlobs, ThreadRaises, ThreadRecordSha, ThreadRecordFailure, ThreadPopThread,
          ThreadPopEvent
<1> QED BY <1>1, <1>2, CacheMoves

LEMMA AdmitAlone ==
    ASSUME SoleInv, OneAtATime, NEW r \in Requests, NEW v,
           Admit(r, v, NoVersion, ~LocalCacheReady), UNCHANGED <<status, complete>>
    PROVE  \A s \in Requests : AdmittedAlone(req[s])'
<1> DEFINE q == [Idle EXCEPT !.pc = "size", !.ask = req[r].ask, !.tgt = v,
                             !.fetch = NoVersion, !.need = ~LocalCacheReady]
<1>1. ~LocalCacheReady => complete = {}
      BY ConstantsAssumption DEF SoleInv, OneThreadInv, LocalCacheReady, MainComplete, TypeOK, CacheOK
<1>2. CASE Admitted(~LocalCacheReady, NoJob)
  <2>1. q.pc = "size" /\ q.fetch = NoVersion /\ (q.need => ~LocalCacheReady)
        BY DEF Idle
  <2>2. ~LocalCacheReady => ActiveJobs = {}
        BY <1>2, ConstantsAssumption DEF Admitted, ActiveJobs
  <2>3. req' = [req EXCEPT ![r] = q]
        BY <1>2 DEF Admit
  <2> HIDE DEF q
  <2>4. PICK p : p = q
        OBVIOUS
  <2>5. ActiveJobs' = ActiveJobs
        BY DEF ActiveJobs
  <2>6. AdmittedAlone(p)'
        BY <1>1, <2>1, <2>2, <2>4, <2>5 DEF AdmittedAlone
  <2> QED BY <2>3, <2>4, <2>6, AloneReassigned DEF SoleInv, OneThreadInv
<1>3. CASE ~Admitted(~LocalCacheReady, NoJob)
  <2>1. req' = [req EXCEPT ![r] = Idle]
        BY <1>3 DEF Admit
  <2>2. AdmittedAlone(Idle)'
        BY DEF AdmittedAlone, Idle
  <2> QED BY <2>1, <2>2, AloneReassigned DEF SoleInv, OneThreadInv, Idle
<1> QED BY <1>2, <1>3

LEMMA RequestsAlone ==
    ASSUME SoleInv, OneAtATime, Next
    PROVE  \A r \in Requests : AdmittedAlone(req[r])'
<1> USE DEF SoleInv, OneThreadInv
<1> DEFINE Goal == \A r \in Requests : AdmittedAlone(req[r])'
<1>1. AdmittedAlone(Idle)'
      BY DEF AdmittedAlone, Idle
<1>2. ASSUME NEW r \in Requests, Finish(r) PROVE Goal
      BY <1>1, <1>2, AloneReassigned DEF Finish, Idle
<1>3. ASSUME NEW r \in Requests, StartMain(r, FALSE) PROVE Goal
  <2> DEFINE q == [Idle EXCEPT !.pc = "resolve", !.tgt = ref, !.force = FALSE]
  <2>1. q.pc = "resolve" /\ ~q.force
        BY DEF Idle
  <2>2. CASE req' = [req EXCEPT ![r] = q]
    <3> HIDE DEF q
    <3>1. PICK p : p = q
          OBVIOUS
    <3>2. AdmittedAlone(p)'
          BY <2>1, <3>1 DEF AdmittedAlone
    <3> QED BY <2>2, <3>1, <3>2, AloneReassigned
  <2>3. CASE Admit(r, ref, NoVersion, ~LocalCacheReady)
        BY <1>3, <2>3, AdmitAlone DEF StartMain
  <2> QED BY <1>3, <2>2, <2>3 DEF StartMain
<1>4. ASSUME NEW r \in Requests, StartResolved(r) PROVE Goal
      BY <1>4, AdmitAlone DEF StartResolved, AdmittedAlone
<1>5. ASSUME NEW r \in Requests, NEW j \in Jobs, Retry(r, j), ~UNCHANGED req PROVE Goal
  <2> DEFINE q == [Idle EXCEPT !.pc = "retry", !.job = j, !.thread = reg[j]]
  <2>1. q.pc = "retry" /\ req' = [req EXCEPT ![r] = q] /\ UNCHANGED <<status, complete>>
        BY <1>5 DEF Retry, Idle
  <2>2. complete # {} \/ ActiveJobs = {}
        BY <1>5 DEF Retry, Admitted, ActiveJobs, Active, LocalCacheReady
  <2> HIDE DEF q
  <2>3. PICK p : p = q
        OBVIOUS
  <2>4. ActiveJobs' = ActiveJobs
        BY <2>1 DEF ActiveJobs
  <2>5. AdmittedAlone(p)'
        BY <2>1, <2>2, <2>3, <2>4 DEF AdmittedAlone
  <2> QED BY <2>1, <2>3, <2>5, AloneReassigned
<1>7. ASSUME UNCHANGED req PROVE Goal
  <2>1. ASSUME NEW r \in Requests, req[r].pc \in {"size", "retry"}
        PROVE  AdmittedAlone(req[r])'
    <3>1. ~ \E s \in Requests : StartInsert(s) \/ RetryJoined(s) \/ \E j \in Jobs : Retry(s, j)
      <4>1. ASSUME NEW s \in Requests, StartInsert(s) \/ RetryJoined(s) PROVE FALSE
            BY <1>7, <4>1 DEF StartInsert, RetryJoined, Finish, Idle, TypeOK, RequestsOK
      <4>2. ASSUME NEW s \in Requests, NEW j \in Jobs, Retry(s, j) PROVE FALSE
            BY <2>1, <4>2 DEF Retry, Opened, OneAtATime
      <4> QED BY <4>1, <4>2
    <3>2. ActiveJobs = {} => ActiveJobs' = {} /\ complete' = complete
          BY <3>1, ActiveMoves, CompleteStays
    <3>3. complete # {} => complete' # {}
          BY StepsWorkAlone
    <3> QED BY <1>7, <2>1, <3>2, <3>3 DEF AdmittedAlone
  <2>2. ASSUME NEW r \in Requests, req[r].pc \notin {"size", "retry"}
        PROVE  AdmittedAlone(req[r])'
        BY <1>7, <2>2 DEF AdmittedAlone
  <2> QED BY <2>1, <2>2
<1>8. ASSUME NEW r \in Requests, RequestStep(r) PROVE Goal
      BY <1>2, <1>4, <1>8 DEF RequestStep, StartInsert, ResumeJoined, RetryJoined,
         SettingsSignal, SettingsJoined, SettingsStart, PruneDelete, RemoveTree, AdmittedAlone
<1>9. ASSUME NEW r \in Requests,
             \/ StartMain(r, TRUE)
             \/ \E v \in Versions : StartPinned(r, v)
             \/ \E j \in Jobs : Resume(r, j)
             \/ SettingsRead(r) \/ Prune(r) \/ RemoveCache(r)
      PROVE  FALSE
      BY <1>9 DEF OneAtATime, StartMain, StartPinned, Resume, SettingsRead, Prune, RemoveCache,
         Opened, Served
<1>10. ~Crash
       BY DEF OneAtATime, Crash
<1>11. ASSUME NEW j \in Jobs, Pause(j) \/ Cancel(j) \/ Delete(j) \/ ResumeMonitor(j)
       PROVE  UNCHANGED req
       BY <1>11 DEF Pause, Cancel, Delete, ResumeMonitor
<1>12. ASSUME NEW t \in Threads, ThreadStep(t) \/ WatchdogWakes(t) PROVE UNCHANGED req
       BY <1>12 DEF WatchdogWakes, ThreadStep, ThreadBegin, ThreadManifest, ThreadCancelled,
          ThreadBlobs, ThreadRaises, ThreadWriteRef, ThreadLayout, ThreadRecordSha,
          ThreadRecordFailure, ThreadPopThread, ThreadPopEvent
<1>13. ASSUME NEW m \in Monitors, MonitorStep(m) PROVE UNCHANGED req
       BY <1>13 DEF MonitorStep, MonitorPoll, MonitorComplete
<1>14. RemoteMoves => UNCHANGED req
       BY DEF RemoteMoves
<1> HIDE DEF Goal
<1> QED BY <1>3, <1>5, <1>7, <1>8, <1>9, <1>10, <1>11, <1>12, <1>13, <1>14
        DEF Goal, Next, Environment, System

LEMMA SeenStays ==
    ASSUME SoleInv, OneAtATime, Next
    PROVE  SeenComplete'
<1> USE DEF SoleInv, OneThreadInv
<1>1. complete # {} => complete' # {}
      BY StepsWorkAlone
<1> DEFINE Goal == \A m \in Monitors : mon'[m].pc = "materialize" =>
                                      mon[m].pc = "materialize" \/ complete # {}
<1>2. UNCHANGED mon => Goal
      OBVIOUS
<1>3. ASSUME NEW j, SpawnMonitor(j) PROVE Goal
      BY <1>3 DEF SpawnMonitor, TypeOK, MonitorsOK
<1>4. ASSUME NEW m \in Monitors, MonitorStep(m) PROVE Goal
      BY <1>4 DEF MonitorStep, MonitorPoll, MonitorComplete, TargetReady, LocalCacheReady,
         FreeMonitor, TypeOK, MonitorsOK
<1> HIDE DEF Goal
<1>5. ASSUME NEW r \in Requests, RequestStep(r) PROVE Goal
      BY <1>2, <1>3, <1>5 DEF RequestStep, StartResolved, StartInsert, ResumeJoined, RetryJoined,
         Retried, SettingsSignal, SettingsJoined, SettingsStart, PruneDelete, RemoveTree
<1>6. ASSUME NEW t \in Threads, ThreadStep(t) \/ WatchdogWakes(t) PROVE Goal
      BY <1>2, <1>6 DEF WatchdogWakes, ThreadStep, ThreadBegin, ThreadManifest, ThreadCancelled,
         ThreadBlobs, ThreadRaises, ThreadWriteRef, ThreadLayout, ThreadRecordSha,
         ThreadRecordFailure, ThreadPopThread, ThreadPopEvent
<1>7. ASSUME NEW r \in Requests, NEW j \in Jobs, Resume(r, j) \/ Retry(r, j) PROVE Goal
      BY <1>2, <1>3, <1>7 DEF Resume, Retry, Retried
<1>8. ASSUME NEW r \in Requests,
             \/ \E f \in BOOLEAN : StartMain(r, f)
             \/ \E v \in Versions : StartPinned(r, v)
             \/ SettingsRead(r) \/ Prune(r) \/ RemoveCache(r)
      PROVE  Goal
      BY <1>2, <1>8 DEF StartMain, StartPinned, SettingsRead, Prune, RemoveCache
<1>9. ASSUME NEW j \in Jobs, Pause(j) \/ Cancel(j) \/ Delete(j) \/ ResumeMonitor(j) PROVE Goal
      BY <1>2, <1>3, <1>9 DEF Pause, Cancel, Delete, ResumeMonitor
<1>10. RemoteMoves => Goal
       BY <1>2 DEF RemoteMoves
<1>11. ~Crash
       BY DEF OneAtATime, Crash
<1>12. Goal
       BY <1>4, <1>5, <1>6, <1>7, <1>8, <1>9, <1>10, <1>11 DEF Next, Environment, System
<1> QED BY <1>1, <1>12 DEF Goal, SeenComplete

(* With one request at a time, two admitted downloads never write the      *)
(* cache of the repository at a time, whatever fails and whenever jobs are *)
(* paused and retried, a branch that moves included.                       *)
THEOREM OneWriterCorrect ==
    ASSUME OneAtATime
    PROVE  Spec => []SingleWriter
<1>1. Init => SoleInv
  <2> SUFFICES ASSUME Init PROVE SoleInv
      OBVIOUS
  <2>1. OneThreadInv
        BY TypeInit DEF Init, OneThreadInv, RegistryNamesLiveThread, OneThreadPerJob, Live,
           DeadThread, BootAlone, BootFresh, BootUsed, NoSettings, WaitersUsed,
           RegisteredUsed, Idle
  <2>2. WorkOK
        BY DEF Init, WorkOK, SoleWorker, WorkerFirst, Working, DeadThread
  <2>3. boot = {} /\ MainComplete /\ SeenComplete
        BY DEF Init, MainComplete, SeenComplete, FreeMonitor
  <2>4. \A r \in Requests : AdmittedAlone(req[r])
        BY DEF Init, AdmittedAlone, Idle
  <2> QED BY <2>1, <2>2, <2>3, <2>4 DEF SoleInv
<1>2. SoleInv /\ [Next]_vars => SoleInv'
  <2> SUFFICES ASSUME SoleInv, [Next]_vars PROVE SoleInv'
      OBVIOUS
  <2>1. OneThreadInv /\ OneThreadInv'
        BY OneThreadInvStep DEF SoleInv, OneAtATime
  <2>2. CASE Next
    <3>1. boot' = {}
          BY <2>2, BootMoves DEF SoleInv, OneAtATime, Crash, ResumeMonitor
    <3> QED BY <2>1, <2>2, <3>1, StepsWorkAlone, RequestsAlone, SeenStays DEF SoleInv
  <2>3. CASE UNCHANGED vars
    <3>1. WorkOK' /\ MainComplete' /\ SeenComplete' /\ boot' = {}
          BY <2>3 DEF vars, SoleInv, WorkOK, SoleWorker, WorkerFirst, Working, MainComplete,
             SeenComplete
    <3>2. \A r \in Requests : AdmittedAlone(req[r])'
          BY <2>3 DEF vars, SoleInv, AdmittedAlone, ActiveJobs
    <3> QED BY <2>1, <3>1, <3>2 DEF SoleInv
  <2> QED BY <2>2, <2>3
<1>3. SoleInv => SingleWriter
      BY DEF SoleInv, WorkOK, SoleWorker, Working, SingleWriter, Writes
<1> QED BY <1>1, <1>2, <1>3, PTL DEF Spec

----------------------------------------------------------------------------
(* No orphan.  For every downloading job whose target is missing there is  *)
(* a thread that nobody has told to stop, or a resume that waits for the   *)
(* old thread to end and will start one.                                   *)

\* A thread that will not end before it has recorded its commit or its failure.
Delivers(t) ==
    \/ thr[t].pc = "new" /\ ev[thr[t].job] # "set"
    \/ thr[t].pc \in {"manifest", "blobs"} /\ ~Cancelled(t)
    \/ thr[t].pc \in {"ref", "layout", "record", "fail"}
Delivered(j)  == \E t \in Threads : thr[t].job = j /\ Delivers(t)
Restarting(j) == \E r \in Requests : /\ req[r].pc = "resume" /\ req[r].job = j
                                     /\ reg[j] \in {NoThread, req[r].thread}
Wanting(j)    == status[j] = "downloading" /\ ~TargetAvailable(j) /\ j \notin boot
Handled       == \A j \in Jobs : Wanting(j) => Delivered(j) \/ Restarting(j)

Unused   == {j \in Jobs : status[j] = "unused"}
Known(v) == IF v = NoVersion THEN ref \in Available ELSE v \in Available

\* A request that found nothing to fetch.
SizeOK(q) == q.pc = "size" /\ ~q.need /\ Unused # {} => Known(q.tgt)
\* A thread that downloads main has resolved it to the hub's commit.
ThreadsOfMain ==
    \A t \in Threads :
        thr[t].fetch = NoVersion /\ thr[t].pc \in {"blobs", "ref", "layout", "record"} =>
            thr[t].sha = remote

\* A request that still asks the hub which commit main is.
MainOK ==
    /\ (\A i, j \in Jobs : i = j) /\ Unused # {} =>
          /\ ref = NoVersion \/ ref \in complete
          /\ \A r \in Requests : req[r].pc = "resolve" => req[r].tgt = ref
    /\ Ops \cap {"start", "force"} = {} => \A r \in Requests : req[r].pc # "resolve"
    /\ Ops \cap {"drift", "force"} = {} =>
          /\ \A r \in Requests : req[r].pc = "resolve" =>
                req[r].tgt = NoVersion /\ ref \in {NoVersion, remote}
          /\ ThreadsOfMain

NoRetry == \A r \in Requests : req[r].pc # "retry"

OrphanInv == /\ OneThreadInv /\ CompletionInv /\ NoRetry /\ Handled /\ MainOK
             /\ \A r \in Requests : SizeOK(req[r])

\* What is left to the operators, and when main's commit can be trusted to stay
\* while a request asks for it.
Restricted == Ops \cap {"retry", "settings", "prune", "removeCache", "joinTimeout"} = {}
MainSettled == \/ \A i, j \in Jobs : i = j
               \/ Ops \cap {"start", "force"} = {}
               \/ Ops \cap {"drift", "force"} = {}

LEMMA CacheGrows ==
    ASSUME CompletionInv, Next, ~Crash
    PROVE  /\ Available \subseteq Available' /\ (ref' = ref \/ ref' \in Available')
           /\ \A j \in Jobs : TargetMove(j)
           /\ FilesKept
  BY AllProgress, AvailableGrows, TargetsMove DEF CompletionInv

LEMMA KnownStays ==
    ASSUME TypeOK, CompletionInv, Next, ~Crash, NEW v, Known(v)
    PROVE  Known(v)'
<1>1. Available \subseteq Available' /\ (ref' = ref \/ ref' \in Available')
      BY CacheGrows
<1> QED BY <1>1 DEF Known

\* A start gives its job a thread that delivers, and leaves the others alone.
LEMMA StartDelivers ==
    ASSUME TypeOK, NEW j \in Jobs, NEW f, StartLocalDownload(j, f)
    PROVE  /\ Delivered(j)'
           /\ \A t \in Threads : Delivers(t) => Delivers(t)' /\ thr'[t].job = thr[t].job
           /\ \A k \in Jobs \ {j} : reg'[k] = reg[k]
<1>1. PICK t \in Threads :
        /\ FreeThread(t)
        /\ thr' = [thr EXCEPT ![t] = [DeadThread EXCEPT !.job = j, !.pc = "new", !.fetch = f]]
        /\ reg' = [reg EXCEPT ![j] = t]
        /\ ev' = [ev EXCEPT ![j] = "clear"]
      BY DEF StartLocalDownload
<1>2. thr'[t].pc = "new" /\ thr'[t].job = j
      BY <1>1 DEF DeadThread, TypeOK, ThreadsOK
<1>3. \A u \in Threads \ {t} : thr'[u] = thr[u]
      BY <1>1 DEF TypeOK, ThreadsOK
<1>4. ev'[j] = "clear" /\ \A k \in Jobs \ {j} : ev'[k] = ev[k] /\ reg'[k] = reg[k]
      BY <1>1 DEF TypeOK, ThreadsOK
<1>5. Delivered(j)'
      BY <1>2, <1>4 DEF Delivered, Delivers
<1>6. ASSUME NEW u \in Threads, Delivers(u) PROVE Delivers(u)' /\ thr'[u].job = thr[u].job
  <2>1. u # t /\ thr[u].job \in Jobs
        BY <1>1, <1>6 DEF FreeThread, Delivers, TypeOK, ThreadsOK
  <2>2. thr'[u] = thr[u] /\ (ev'[thr[u].job] = ev[thr[u].job] \/ ev'[thr[u].job] = "clear")
        BY <1>3, <1>4, <2>1
  <2> QED BY <1>6, <2>2 DEF Delivers, Cancelled
<1> QED BY <1>4, <1>5, <1>6

LEMMA StepDelivers ==
    ASSUME TypeOK, FilesKept, RecordsAvailable, NEW t \in Threads, ThreadStep(t),
           NEW u \in Threads, Delivers(u),
           NEW j \in Jobs, j = thr[u].job, status'[j] = "downloading",
           status[j] = "downloading",
           ~TargetAvailable(j)', Available \subseteq Available'
    PROVE  Delivers(u)' /\ thr'[u].job = thr[u].job
<1> USE DEF TypeOK, ThreadsOK, ThreadRecord
<1>1. CASE ThreadPopEvent(t)
  <2>1. u # t
        BY <1>1 DEF ThreadPopEvent, Delivers
  <2>2. CASE thr'[u] = thr[u] /\ (thr[t].ev = "reg" => thr[u].job # thr[t].job \/ thr[u].ev # "reg")
        BY <1>1, <2>2 DEF ThreadPopEvent, Delivers, Cancelled
  <2>3. CASE /\ thr[t].ev = "reg" /\ thr[u].job = thr[t].job /\ thr[u].ev = "reg"
    <3>1. thr'[u] = [thr[u] EXCEPT !.ev = IF ev[j] = "set" THEN "set" ELSE "clear"]
          BY <1>1, <2>1, <2>3 DEF ThreadPopEvent
    <3>2. ev'[j] = "none"
          BY <1>1, <2>3 DEF ThreadPopEvent
    <3> QED BY <2>3, <3>1, <3>2 DEF Delivers, Cancelled
  <2>4. \/ thr'[u] = thr[u] /\ (thr[t].ev = "reg" => thr[u].job # thr[t].job \/ thr[u].ev # "reg")
        \/ thr[t].ev = "reg" /\ thr[u].job = thr[t].job /\ thr[u].ev = "reg"
        BY <1>1, <2>1 DEF ThreadPopEvent
  <2> QED BY <2>2, <2>3, <2>4
<1>2. CASE ThreadBegin(t) BY <1>2 DEF ThreadBegin, Delivers, Cancelled
<1>3. CASE ThreadManifest(t) BY <1>3 DEF ThreadManifest, Delivers, Cancelled
<1>4. CASE ThreadCancelled(t) BY <1>4 DEF ThreadCancelled, Step, Delivers, Cancelled
<1>5. CASE ThreadBlobs(t) \/ ThreadRaises(t) \/ ThreadWriteRef(t)
      BY <1>5 DEF ThreadBlobs, ThreadRaises, ThreadWriteRef, Step, Delivers, Cancelled
<1>6. CASE ThreadLayout(t)
      BY <1>6 DEF ThreadLayout, Step, Delivers, Cancelled, FilesKept
<1>7. CASE ThreadRecordSha(t)
  <2>1. u # t
    <3> SUFFICES ASSUME u = t PROVE FALSE
        OBVIOUS
    <3>1. target'[j] = thr[t].sha /\ thr[t].sha \in Available /\ thr[t].sha \in Versions
          BY <1>7 DEF ThreadRecordSha, Step, JobsOK, RecordsAvailable
    <3>2. target'[j] # NoVersion /\ target'[j] \in Available'
          BY <3>1, ConstantsAssumption
    <3> QED BY <3>2 DEF TargetAvailable
  <2> QED BY <1>7, <2>1 DEF ThreadRecordSha, Step, Delivers, Cancelled
<1>8. CASE ThreadRecordFailure(t)
      BY <1>8 DEF ThreadRecordFailure, Step, Delivers, Cancelled, JobsOK
<1>9. CASE ThreadPopThread(t)
      BY <1>9 DEF ThreadPopThread, Step, Delivers, Cancelled
<1> QED BY <1>1, <1>2, <1>3, <1>4, <1>5, <1>6, <1>7, <1>8, <1>9 DEF ThreadStep

\* What has to be shown of one step and one job that was downloading before.
LEMMA OneHandled ==
    ASSUME OrphanInv, Next, ~Crash, NEW j \in Jobs, Wanting(j)',
           status[j] = "downloading", j \notin boot,
           Delivered(j) => Delivered(j)',
           Restarting(j) => Restarting(j)' \/ Delivered(j)'
    PROVE  Delivered(j)' \/ Restarting(j)'
<1>1. /\ Available \subseteq Available' /\ (ref' = ref \/ ref' \in Available')
      /\ TargetMove(j) /\ TypeOK /\ TypeOK'
      BY CacheGrows, TypeStep DEF OrphanInv, OneThreadInv
<1>2. ~TargetAvailable(j)
      BY <1>1, TargetStaysAvailable DEF Wanting
<1> QED BY <1>2 DEF OrphanInv, Handled, Wanting

\* Threads, registry and the waiting requests stay.
LEMMA CalmHandled ==
    ASSUME OrphanInv, Next, ~Crash, UNCHANGED <<thr, reg, ev, boot>>,
           \A j \in Jobs : status'[j] = "downloading" => status[j] = "downloading",
           \A r \in Requests : req[r].pc = "resume" => req'[r] = req[r]
    PROVE  Handled'
<1> SUFFICES ASSUME NEW j \in Jobs, Wanting(j)' PROVE Delivered(j)' \/ Restarting(j)'
    BY DEF Handled
<1>1. status[j] = "downloading" /\ j \notin boot
      BY DEF Wanting
<1>2. Delivered(j) => Delivered(j)'
      BY DEF Delivered, Delivers, Cancelled
<1>3. Restarting(j) => Restarting(j)'
      BY DEF Restarting
<1> QED BY <1>1, <1>2, <1>3, OneHandled

LEMMA SignalHandled ==
    ASSUME OrphanInv, Next, ~Crash, UNCHANGED <<thr, reg, req, boot>>, NEW k \in Jobs,
           SignalCancel(k) \/ UNCHANGED ev,
           status'[k] # "downloading", \A j \in Jobs \ {k} : status'[j] = status[j]
    PROVE  Handled'
<1> SUFFICES ASSUME NEW j \in Jobs, Wanting(j)' PROVE Delivered(j)' \/ Restarting(j)'
    BY DEF Handled
<1>1. j # k /\ status[j] = "downloading" /\ j \notin boot
      BY DEF Wanting
<1>2. ev'[j] = ev[j]
      BY <1>1 DEF SignalCancel, OrphanInv, OneThreadInv, TypeOK, ThreadsOK
<1>3. Delivered(j) => Delivered(j)'
      BY <1>2 DEF Delivered, Delivers, Cancelled
<1>4. Restarting(j) => Restarting(j)'
      BY DEF Restarting
<1> QED BY <1>1, <1>3, <1>4, OneHandled

LEMMA ThreadHandled ==
    ASSUME OrphanInv, Next, ~Crash, NEW t \in Threads, ThreadStep(t)
    PROVE  Handled'
<1> SUFFICES ASSUME NEW j \in Jobs, Wanting(j)' PROVE Delivered(j)' \/ Restarting(j)'
    BY DEF Handled
<1> USE DEF OrphanInv, OneThreadInv, CompletionInv
<1>1. UNCHANGED <<req, boot>> /\ (status'[j] = "downloading" => status[j] = "downloading")
      BY DEF ThreadStep, ThreadBegin, ThreadManifest, ThreadCancelled, ThreadBlobs,
         ThreadRaises, ThreadWriteRef, ThreadLayout, ThreadRecordSha, ThreadRecordFailure,
         ThreadPopThread, ThreadPopEvent, TypeOK, JobsOK
<1>2. reg'[j] \in {reg[j], NoThread}
      BY DEF ThreadStep, ThreadBegin, ThreadManifest, ThreadCancelled, ThreadBlobs,
         ThreadRaises, ThreadWriteRef, ThreadLayout, ThreadRecordSha, ThreadRecordFailure,
         ThreadPopThread, ThreadPopEvent, TypeOK, ThreadsOK
<1>3. status[j] = "downloading" /\ j \notin boot /\ status'[j] = "downloading"
      BY <1>1 DEF Wanting
<1>4. Delivered(j) => Delivered(j)'
  <2> SUFFICES ASSUME NEW u \in Threads, thr[u].job = j, Delivers(u) PROVE Delivered(j)'
      BY DEF Delivered
  <2>1. Delivers(u)' /\ thr'[u].job = thr[u].job
        BY <1>3, CacheGrows, StepDelivers DEF Wanting
  <2> QED BY <2>1 DEF Delivered
<1>5. Restarting(j) => Restarting(j)'
      BY <1>1, <1>2 DEF Restarting
<1> QED BY <1>3, <1>4, <1>5, OneHandled

\* A start for one job, next to the requests that wait.
LEMMA StartHandled ==
    ASSUME OrphanInv, Next, ~Crash, NEW k \in Jobs, NEW f, StartLocalDownload(k, f),
           \A j \in Jobs \ {k} : /\ j \notin boot' => j \notin boot
                                 /\ status'[j] = "downloading" => status[j] = "downloading",
           \A r \in Requests : req[r].pc = "resume" => req'[r] = req[r] \/ req[r].job = k
    PROVE  Handled'
<1> SUFFICES ASSUME NEW j \in Jobs, Wanting(j)' PROVE Delivered(j)' \/ Restarting(j)'
    BY DEF Handled
<1>0. TypeOK
      BY DEF OrphanInv, OneThreadInv
<1>1. CASE j = k
      BY <1>0, <1>1, StartDelivers
<1>2. CASE j # k
  <2>1. status[j] = "downloading" /\ j \notin boot
        BY <1>2 DEF Wanting
  <2>2. Delivered(j) => Delivered(j)'
        BY <1>0, StartDelivers DEF Delivered
  <2>3. reg'[j] = reg[j]
        BY <1>0, <1>2, StartDelivers
  <2>4. Restarting(j) => Restarting(j)'
        BY <1>2, <2>3 DEF Restarting
  <2> QED BY <2>1, <2>2, <2>4, OneHandled
<1> QED BY <1>1, <1>2

LEMMA InsertHandled ==
    ASSUME OrphanInv, Next, ~Crash, NEW r \in Requests, StartInsert(r)
    PROVE  Handled'
<1> USE DEF OrphanInv, OneThreadInv
<1>1. PICK k \in Jobs :
        /\ status[k] = "unused"
        /\ status' = [status EXCEPT ![k] = "downloading"]
        /\ target' = [target EXCEPT ![k] = req[r].tgt]
        /\ StartIf(req[r].need, k, req[r].fetch)
      BY DEF StartInsert
<1>2. /\ \A j \in Jobs \ {k} : status'[j] = status[j]
      /\ \A s \in Requests : req[s].pc = "resume" => req'[s] = req[s]
      /\ boot' = boot /\ target'[k] = req[r].tgt
      BY <1>1 DEF StartInsert, Finish, TypeOK, JobsOK, RequestsOK
<1>3. CASE req[r].need
      BY <1>1, <1>2, <1>3, StartHandled DEF StartIf
<1>4. CASE ~req[r].need
  <2> SUFFICES ASSUME NEW j \in Jobs, Wanting(j)' PROVE Delivered(j)' \/ Restarting(j)'
      BY DEF Handled
  <2>1. UNCHANGED <<thr, reg, ev>>
        BY <1>1, <1>4 DEF StartIf
  <2>2. CASE j = k
    <3>1. PICK v : v = req[r].tgt /\ Known(v)
          BY <1>1, <1>4 DEF StartInsert, SizeOK, Unused
    <3>2. UNCHANGED <<ref, complete, thr>>
          BY <2>1 DEF StartInsert
    <3>3. Known(v)'
          BY <3>1, <3>2 DEF Known, Available
    <3>4. target'[k] = v
          BY <1>2, <3>1
    <3> QED BY <2>2, <3>3, <3>4 DEF Wanting, TargetAvailable, Known
  <2>3. CASE j # k
    <3>1. status[j] = "downloading" /\ j \notin boot
          BY <1>2, <2>3 DEF Wanting
    <3>2. Delivered(j) => Delivered(j)'
          BY <2>1 DEF Delivered, Delivers, Cancelled
    <3>3. Restarting(j) => Restarting(j)'
          BY <1>2, <2>1 DEF Restarting
    <3> QED BY <3>1, <3>2, <3>3, OneHandled
  <2> QED BY <2>2, <2>3
<1> QED BY <1>3, <1>4

LEMMA ResumeHandled ==
    ASSUME OrphanInv, Next, ~Crash, NEW r \in Requests, NEW k \in Jobs, Resume(r, k)
    PROVE  Handled'
<1> USE DEF OrphanInv, OneThreadInv
<1>1. /\ \A j \in Jobs \ {k} : status'[j] = status[j]
      /\ boot' = boot /\ req[r].pc = "idle"
      BY DEF Resume, Opened, TypeOK, JobsOK
<1>2. CASE StartLocalDownload(k, NoVersion) /\ UNCHANGED req
      BY <1>1, <1>2, StartHandled
<1>3. CASE /\ req' = [req EXCEPT ![r] = [Idle EXCEPT !.pc = "resume", !.job = k, !.thread = reg[k]]]
           /\ UNCHANGED threadVars
  <2>1. /\ req'[r].pc = "resume" /\ req'[r].job = k /\ req'[r].thread = reg[k]
        /\ \A s \in Requests \ {r} : req'[s] = req[s]
        BY <1>3 DEF TypeOK, RequestsOK, Idle
  <2> SUFFICES ASSUME NEW j \in Jobs, Wanting(j)' PROVE Delivered(j)' \/ Restarting(j)'
      BY DEF Handled
  <2>2. CASE j = k
        BY <1>3, <2>1, <2>2 DEF Restarting
  <2>3. CASE j # k
    <3>1. status[j] = "downloading" /\ j \notin boot
          BY <1>1, <2>3 DEF Wanting
    <3>2. Delivered(j) => Delivered(j)'
          BY <1>3 DEF Delivered, Delivers, Cancelled
    <3>3. Restarting(j) => Restarting(j)'
          BY <1>1, <1>3, <2>1 DEF Restarting
    <3> QED BY <3>1, <3>2, <3>3, OneHandled
  <2> QED BY <2>2, <2>3
<1> QED BY <1>2, <1>3 DEF Resume

LEMMA JoinedHandled ==
    ASSUME OrphanInv, Restricted, Next, ~Crash, NEW r \in Requests, ResumeJoined(r)
    PROVE  Handled'
<1> USE DEF OrphanInv, OneThreadInv
<1>1. PICK k \in Jobs : k = req[r].job
      BY DEF ResumeJoined, TypeOK, RequestsOK
<1>2. /\ UNCHANGED <<status, boot>> /\ req[r].pc = "resume"
      /\ \A s \in Requests \ {r} : req'[s] = req[s]
      BY DEF ResumeJoined, Finish, TypeOK, RequestsOK
<1>3. CASE StartLocalDownload(k, NoVersion)
  <2>1. \A s \in Requests : req[s].pc = "resume" => req'[s] = req[s] \/ req[s].job = k
        BY <1>1, <1>2
  <2> QED BY <1>2, <1>3, <2>1, StartHandled
<1>4. CASE UNCHANGED threadVars /\ (status[k] = "deleted" \/ reg[k] # NoThread)
  <2> SUFFICES ASSUME NEW j \in Jobs, Wanting(j)' PROVE Delivered(j)' \/ Restarting(j)'
      BY DEF Handled
  <2>1. status[j] = "downloading" /\ j \notin boot
        BY <1>2 DEF Wanting
  <2>2. Delivered(j) => Delivered(j)'
        BY <1>4 DEF Delivered, Delivers, Cancelled
  <2>3. Restarting(j) => Restarting(j)'
    <3> SUFFICES ASSUME NEW s \in Requests, req[s].pc = "resume", req[s].job = j,
                        reg[j] \in {NoThread, req[s].thread}
                 PROVE  Restarting(j)'
        BY DEF Restarting
    <3>1. s # r
      <4> SUFFICES ASSUME s = r PROVE FALSE
          OBVIOUS
      <4>1. j = k /\ reg[k] # NoThread /\ reg[k] = req[r].thread /\ reg[k] \in Threads
            BY <1>1, <1>4, <2>1 DEF TypeOK, ThreadsOK
      <4>2. thr[reg[k]].pc = "dead"
            BY <4>1 DEF ResumeJoined, Joined, Restricted
      <4> QED BY <4>1, <4>2 DEF RegistryNamesLiveThread, Live
    <3> QED BY <1>2, <1>4, <3>1 DEF Restarting
  <2> QED BY <2>1, <2>2, <2>3, OneHandled
<1> QED BY <1>1, <1>3, <1>4 DEF ResumeJoined, StartIf

LEMMA BootHandled ==
    ASSUME OrphanInv, Next, ~Crash, NEW k \in Jobs, ResumeMonitor(k)
    PROVE  Handled'
<1> USE DEF OrphanInv, OneThreadInv
<1>1. UNCHANGED <<status, target, req, ref, complete>> /\ boot' = boot \ {k} /\ k \in boot
      BY DEF ResumeMonitor
<1>2. CASE StartLocalDownload(k, target[k])
      BY <1>1, <1>2, StartHandled
<1>3. CASE UNCHANGED threadVars /\ TargetReady(k)
  <2> SUFFICES ASSUME NEW j \in Jobs, Wanting(j)' PROVE Delivered(j)' \/ Restarting(j)'
      BY DEF Handled
  <2>1. j # k
        BY <1>1, <1>3 DEF Wanting, TargetReady, LocalCacheReady, TargetAvailable, Available
  <2>2. status[j] = "downloading" /\ j \notin boot
        BY <1>1, <2>1 DEF Wanting
  <2>3. Delivered(j) => Delivered(j)'
        BY <1>3 DEF Delivered, Delivers, Cancelled
  <2>4. Restarting(j) => Restarting(j)'
        BY <1>1, <1>3 DEF Restarting
  <2> QED BY <2>2, <2>3, <2>4, OneHandled
<1> QED BY <1>2, <1>3 DEF ResumeMonitor, StartIf

LEMMA HandledStep ==
    ASSUME OrphanInv, Restricted, Next, ~Crash
    PROVE  Handled'
<1> USE DEF OrphanInv, OneThreadInv
<1>1. ASSUME NEW r \in Requests,
             \/ \E f \in BOOLEAN : StartMain(r, f)
             \/ \E v \in Versions : StartPinned(r, v)
             \/ StartResolved(r)
      PROVE  Handled'
  <2>1. UNCHANGED <<thr, reg, ev, boot, status>> /\ req[r].pc # "resume"
        BY <1>1 DEF StartMain, StartPinned, StartResolved, Opened
  <2>2. \A s \in Requests \ {r} : req'[s] = req[s]
        BY <1>1 DEF StartMain, StartPinned, StartResolved, Admit, TypeOK, RequestsOK
  <2> QED BY <2>1, <2>2, CalmHandled
<1>2. ASSUME NEW r \in Requests, RequestStep(r) PROVE Handled'
      BY <1>1, <1>2, InsertHandled, JoinedHandled
         DEF RequestStep, RetryJoined, NoRetry, SettingsSignal, SettingsJoined, SettingsStart,
             NoSettings, PruneDelete, RemoveTree, CompletionInv, NoTakers
<1>3. ASSUME NEW r \in Requests, NEW j \in Jobs, Resume(r, j) PROVE Handled'
      BY <1>3, ResumeHandled
<1>4. ASSUME NEW r \in Requests,
             \/ \E j \in Jobs : Retry(r, j)
             \/ SettingsRead(r) \/ Prune(r) \/ RemoveCache(r)
      PROVE  FALSE
      BY <1>4 DEF Restricted, Retry, SettingsRead, Prune, RemoveCache, Opened, Served
<1>5. ASSUME NEW j \in Jobs, Pause(j) \/ Cancel(j) \/ Delete(j) PROVE Handled'
  <2>1. /\ UNCHANGED <<thr, reg, req, boot>> /\ (SignalCancel(j) \/ UNCHANGED ev)
        /\ status'[j] # "downloading" /\ \A k \in Jobs \ {j} : status'[k] = status[k]
        BY <1>5 DEF Pause, Cancel, Delete, TypeOK, JobsOK
  <2> QED BY <2>1, SignalHandled
<1>6. CASE RemoteMoves
      BY <1>6, CalmHandled DEF RemoteMoves
<1>7. ASSUME NEW t \in Threads, WatchdogWakes(t) PROVE Handled'
      BY <1>7, WatchdogNeverRestarts, CalmHandled DEF WatchdogWakes
<1>8. ASSUME NEW m \in Monitors, MonitorStep(m) PROVE Handled'
  <2>1. UNCHANGED <<thr, reg, ev, boot, req>>
        BY <1>8 DEF MonitorStep, MonitorPoll, MonitorComplete
  <2>2. \A j \in Jobs : status'[j] = "downloading" => status[j] = "downloading"
        BY <1>8 DEF MonitorStep, MonitorPoll, MonitorComplete, TypeOK, JobsOK
  <2> QED BY <2>1, <2>2, CalmHandled
<1>9. ASSUME NEW t \in Threads, ThreadStep(t) PROVE Handled'
      BY <1>9, ThreadHandled
<1>10. ASSUME NEW j \in Jobs, ResumeMonitor(j) PROVE Handled'
       BY <1>10, BootHandled
<1> QED BY <1>1, <1>2, <1>3, <1>4, <1>5, <1>6, <1>7, <1>8, <1>9, <1>10
        DEF Next, Environment, System

LEMMA CrashHandled == ASSUME Crash PROVE Handled'
  BY DEF Crash, Handled, Wanting

\* What a request may newly be.
NewRequest(q) ==
    \/ q.pc \in {"idle", "resume"}
    \/ /\ q.pc = "resolve" /\ q.tgt = ref /\ ref' = ref /\ Ops \cap {"start", "force"} # {}
       /\ "force" \notin Ops => ref = NoVersion
    \/ q.pc = "size" /\ (~q.need /\ Unused # {} => Known(q.tgt))

LEMMA OneNewRequest ==
    ASSUME TypeOK, NEW r \in Requests, NEW q, req' = [req EXCEPT ![r] = q], NewRequest(q)
    PROVE  \A s \in Requests : req'[s] = req[s] \/ NewRequest(req'[s])
<1> SUFFICES ASSUME NEW s \in Requests PROVE req'[s] = req[s] \/ NewRequest(req'[s])
    OBVIOUS
<1>1. req'[s] = req[s] \/ req'[s] = q
      BY DEF TypeOK, RequestsOK
<1> QED BY <1>1

LEMMA IdleNew == NewRequest(Idle)
  BY DEF NewRequest, Idle

LEMMA AdmitNew ==
    ASSUME TypeOK, NEW r \in Requests, NEW v, NEW f, NEW n, Admit(r, v, f, n),
           ~n /\ Unused # {} => Known(v)
    PROVE  \A s \in Requests : req'[s] = req[s] \/ NewRequest(req'[s])
<1> DEFINE q == [Idle EXCEPT !.pc = "size", !.ask = req[r].ask, !.tgt = v, !.fetch = f, !.need = n]
<1>1. q.pc = "size" /\ q.tgt = v /\ q.need = n
      BY DEF Idle
<1>2. req' = [req EXCEPT ![r] = q] \/ req' = [req EXCEPT ![r] = Idle]
      BY DEF Admit
<1> HIDE DEF q
<1>3. NewRequest(q)
      BY <1>1 DEF NewRequest
<1> QED BY <1>2, <1>3, IdleNew, OneNewRequest

LEMMA ReadyKnown == LocalCacheReady => Known(ref) /\ Known(NoVersion) /\ ref # NoVersion
  BY DEF LocalCacheReady, Known, Available

LEMMA NewRequests ==
    ASSUME OrphanInv, Restricted, MainSettled, Next
    PROVE  \A s \in Requests : req'[s] = req[s] \/ NewRequest(req'[s])
<1> USE DEF OrphanInv, OneThreadInv
<1> DEFINE Goal == \A s \in Requests : req'[s] = req[s] \/ NewRequest(req'[s])
<1>0. UNCHANGED req => Goal
      OBVIOUS
<1>1. ASSUME NEW r \in Requests, Finish(r) PROVE Goal
      BY <1>1, IdleNew, OneNewRequest DEF Finish
<1>2. ASSUME NEW r \in Requests, StartResolved(r) PROVE Goal
  <2>1. PICK answer \in {remote, NoVersion} :
          LET known == IF req[r].tgt = NoVersion THEN answer ELSE req[r].tgt
          IN  IF req[r].force /\ answer \notin {NoVersion, known}
              THEN Admit(r, answer, NoVersion, TRUE)
              ELSE Admit(r, known, NoVersion, ~LocalCacheReady)
        BY <1>2 DEF StartResolved
  <2>2. PICK known : known = IF req[r].tgt = NoVersion THEN answer ELSE req[r].tgt
        OBVIOUS
  <2>3. CASE Admit(r, answer, NoVersion, TRUE)
        BY <2>3, AdmitNew
  <2>4. CASE Admit(r, known, NoVersion, ~LocalCacheReady)
    <3>1. ASSUME LocalCacheReady, Unused # {} PROVE Known(known)
      <4>1. req[r].pc = "resolve"
            BY <1>2 DEF StartResolved
      <4>2. CASE \A i, j \in Jobs : i = j
        <5>1. req[r].tgt = ref
              BY <3>1, <4>1, <4>2 DEF MainOK
        <5> QED BY <2>2, <3>1, <5>1, ReadyKnown
      <4>3. CASE Ops \cap {"start", "force"} = {}
            BY <4>1, <4>3 DEF MainOK
      <4>4. CASE Ops \cap {"drift", "force"} = {}
        <5>1. req[r].tgt = NoVersion /\ ref = remote
              BY <3>1, <4>1, <4>4 DEF MainOK, LocalCacheReady
        <5> QED BY <2>2, <3>1, <5>1, ReadyKnown
      <4> QED BY <4>2, <4>3, <4>4 DEF MainSettled
    <3> QED BY <2>4, <3>1, AdmitNew
  <2> HIDE DEF Goal
  <2> QED BY <2>1, <2>2, <2>3, <2>4
<1>3. ASSUME NEW r \in Requests, NEW f \in BOOLEAN, StartMain(r, f) PROVE Goal
  <2> DEFINE q == [Idle EXCEPT !.pc = "resolve", !.tgt = ref, !.force = f]
  <2>1. q.pc = "resolve" /\ q.tgt = ref
        BY DEF Idle
  <2>2. CASE req' = [req EXCEPT ![r] = q] /\ (ref = NoVersion \/ f)
    <3>1. ref' = ref /\ (IF f THEN "force" ELSE "start") \in Ops
          BY <1>3 DEF StartMain, Opened, Served
    <3> HIDE DEF q
    <3>2. NewRequest(q)
          BY <2>1, <2>2, <3>1 DEF NewRequest
    <3> QED BY <2>2, <3>2, OneNewRequest
  <2>3. CASE Admit(r, ref, NoVersion, ~LocalCacheReady)
        BY <2>3, ReadyKnown, AdmitNew
  <2> QED BY <1>3, <2>2, <2>3 DEF StartMain
<1>4. ASSUME NEW r \in Requests, NEW v \in Versions, StartPinned(r, v) PROVE Goal
  <2> DEFINE q == [Idle EXCEPT !.pc = "size", !.ask = v, !.tgt = v,
                     !.fetch = IF v \in complete THEN NoVersion ELSE v,
                     !.need = ~(v \in complete)]
  <2>1. q.pc = "size" /\ q.tgt = v /\ (~q.need => v \in complete)
        BY DEF Idle
  <2>2. req' = [req EXCEPT ![r] = q] \/ req' = [req EXCEPT ![r] = Idle]
        BY <1>4 DEF StartPinned
  <2> HIDE DEF q
  <2>3. NewRequest(q)
        BY <2>1, ConstantsAssumption DEF NewRequest, Known, Available
  <2> QED BY <2>2, <2>3, IdleNew, OneNewRequest
<1>5. ASSUME NEW r \in Requests, NEW j \in Jobs, Resume(r, j) PROVE Goal
  <2> DEFINE q == [Idle EXCEPT !.pc = "resume", !.job = j, !.thread = reg[j]]
  <2>1. NewRequest(q)
        BY DEF NewRequest, Idle
  <2>2. UNCHANGED req \/ req' = [req EXCEPT ![r] = q]
        BY <1>5 DEF Resume
  <2> HIDE DEF q
  <2> QED BY <2>1, <2>2, OneNewRequest
<1>6. ASSUME NEW r \in Requests,
             \/ \E j \in Jobs : Retry(r, j)
             \/ SettingsRead(r) \/ Prune(r) \/ RemoveCache(r)
      PROVE  FALSE
      BY <1>6 DEF Restricted, Retry, SettingsRead, Prune, RemoveCache, Opened, Served
<1>7. ASSUME NEW r \in Requests, RequestStep(r) PROVE Goal
      BY <1>1, <1>2, <1>7
         DEF RequestStep, StartInsert, ResumeJoined, RetryJoined, NoRetry, SettingsSignal,
             SettingsJoined, SettingsStart, NoSettings, PruneDelete, RemoveTree
<1>8. CASE Crash
      BY <1>8, IdleNew DEF Crash
<1>9. ASSUME NEW t \in Threads, ThreadStep(t) \/ WatchdogWakes(t) PROVE UNCHANGED req
      BY <1>9 DEF WatchdogWakes, ThreadStep, ThreadBegin, ThreadManifest, ThreadCancelled,
         ThreadBlobs, ThreadRaises, ThreadWriteRef, ThreadLayout, ThreadRecordSha,
         ThreadRecordFailure, ThreadPopThread, ThreadPopEvent
<1>10. ASSUME NEW m \in Monitors, MonitorStep(m) PROVE UNCHANGED req
       BY <1>10 DEF MonitorStep, MonitorPoll, MonitorComplete
<1>11. ASSUME NEW j \in Jobs, Pause(j) \/ Cancel(j) \/ Delete(j) \/ ResumeMonitor(j)
       PROVE  UNCHANGED req
       BY <1>11 DEF Pause, Cancel, Delete, ResumeMonitor
<1>12. RemoteMoves => UNCHANGED req
       BY DEF RemoteMoves
<1> HIDE DEF Goal
<1> QED BY <1>0, <1>3, <1>4, <1>5, <1>6, <1>7, <1>8, <1>9, <1>10, <1>11, <1>12
        DEF Goal, Next, Environment, System

LEMMA SizesStay ==
    ASSUME OrphanInv, Restricted, MainSettled, Next
    PROVE  NoRetry' /\ \A r \in Requests : SizeOK(req[r])'
<1> USE DEF OrphanInv, OneThreadInv
<1>1. \A s \in Requests : req'[s] = req[s] \/ NewRequest(req'[s])
      BY NewRequests
<1>2. NoRetry'
      BY <1>1 DEF NoRetry, NewRequest
<1>3. CASE Crash
  <2>1. \A r \in Requests : req'[r].pc = "idle"
        BY <1>3 DEF Crash, Idle
  <2> QED BY <1>2, <2>1 DEF SizeOK
<1>4. CASE ~Crash
  <2> SUFFICES ASSUME NEW r \in Requests, req'[r].pc = "size", ~req'[r].need, Unused' # {}
               PROVE  Known(req[r].tgt)'
      BY <1>2 DEF SizeOK
  <2>1. PICK v : v = req'[r].tgt
        OBVIOUS
  <2>2. Unused # {}
        BY StatusMoves DEF UsedStays, Unused
  <2>3. Known(v)
        BY <1>1, <2>1, <2>2 DEF NewRequest, SizeOK
  <2>4. Known(v)'
        BY <1>4, <2>3, KnownStays
  <2> QED BY <2>1, <2>4 DEF Known
<1> QED BY <1>2, <1>3, <1>4

\* While the only job is unused, nothing writes the cache.
LEMMA CacheWaits ==
    ASSUME OrphanInv, \A i, j \in Jobs : i = j, Unused # {}, Next
    PROVE  UNCHANGED <<ref, complete>>
<1> USE DEF OrphanInv, OneThreadInv, CompletionInv
<1>1. ASSUME NEW t \in Threads, ThreadStep(t) PROVE UNCHANGED <<ref, complete>>
  <2>1. ~Live(t)
        BY ConstantsAssumption
           DEF OneThreadPerJob, RegisteredUsed, Live, Unused, TypeOK, ThreadsOK
  <2>2. ~ThreadWriteRef(t) /\ ~ThreadLayout(t)
        BY <2>1 DEF ThreadWriteRef, ThreadLayout, Step, Live
  <2> QED BY <1>1, <2>2 DEF ThreadStep, ThreadBegin, ThreadManifest, ThreadCancelled,
          ThreadBlobs, ThreadRaises, ThreadRecordSha, ThreadRecordFailure, ThreadPopThread,
          ThreadPopEvent
<1> QED BY <1>1, CacheMoves

LEMMA ThreadsOfMainStay ==
    ASSUME OrphanInv, Next, "drift" \notin Ops, ThreadsOfMain
    PROVE  ThreadsOfMain' /\ remote' = remote
<1> USE DEF OrphanInv, OneThreadInv, CompletionInv, TypeOK, ThreadsOK, ThreadRecord
<1>1. remote' = remote
      BY DEF Next, Environment, System, RequestStep, StartResolved, StartInsert, ResumeJoined,
         RetryJoined, SettingsSignal, SettingsJoined, SettingsStart, PruneDelete, RemoveTree,
         StartMain, StartPinned, Resume, Retry, SettingsRead, Prune, RemoveCache, Pause, Cancel,
         Delete, RemoteMoves, Crash, ThreadStep, WatchdogWakes, ThreadBegin, ThreadManifest,
         ThreadCancelled, ThreadBlobs, ThreadRaises, ThreadWriteRef, ThreadLayout,
         ThreadRecordSha, ThreadRecordFailure, ThreadPopThread, ThreadPopEvent, MonitorStep,
         MonitorPoll, MonitorComplete, ResumeMonitor
<1>2. UNCHANGED thr => ThreadsOfMain'
      BY <1>1 DEF ThreadsOfMain
<1>3. ASSUME NEW j, NEW f, StartLocalDownload(j, f) PROVE ThreadsOfMain'
  <2>1. PICK t \in Threads :
          thr' = [thr EXCEPT ![t] = [DeadThread EXCEPT !.job = j, !.pc = "new", !.fetch = f]]
        BY <1>3 DEF StartLocalDownload
  <2>2. thr'[t].pc = "new" /\ \A u \in Threads \ {t} : thr'[u] = thr[u]
        BY <2>1 DEF DeadThread
  <2> QED BY <1>1, <2>2 DEF ThreadsOfMain
<1>4. ASSUME NEW t \in Threads, ThreadStep(t) PROVE ThreadsOfMain'
  <2>1. CASE ThreadPopEvent(t) BY <1>1, <2>1 DEF ThreadPopEvent, ThreadsOfMain, DeadThread
  <2>2. CASE ThreadBegin(t) BY <1>1, <2>2 DEF ThreadBegin, ThreadsOfMain
  <2>3. CASE ThreadManifest(t) BY <1>1, <2>3 DEF ThreadManifest, ThreadsOfMain
  <2>4. CASE \/ ThreadCancelled(t) \/ ThreadBlobs(t) \/ ThreadRaises(t) \/ ThreadWriteRef(t)
             \/ ThreadLayout(t) \/ ThreadRecordSha(t) \/ ThreadRecordFailure(t)
             \/ ThreadPopThread(t)
        BY <1>1, <2>4 DEF ThreadsOfMain, ThreadCancelled, ThreadBlobs, ThreadRaises,
           ThreadWriteRef, ThreadLayout, ThreadRecordSha, ThreadRecordFailure,
           ThreadPopThread, Step
  <2> QED BY <1>4, <2>1, <2>2, <2>3, <2>4 DEF ThreadStep
<1>5. Crash => ThreadsOfMain'
      BY DEF Crash, ThreadsOfMain, DeadThread
<1>6. PlainMoves
      BY RequestMoves, OtherMoves DEF NoTakers, PruneDelete, RemoveTree
<1> HIDE DEF TypeOK, ThreadsOK, ThreadRecord
<1> QED BY <1>1, <1>2, <1>3, <1>4, <1>5, <1>6
        DEF PlainMoves, StartsOne, Signals, Watches, WatchdogWakes, StartIf

LEMMA MainStays ==
    ASSUME OrphanInv, Restricted, MainSettled, Next
    PROVE  MainOK'
<1> USE DEF OrphanInv, OneThreadInv
<1>1. \A s \in Requests : req'[s] = req[s] \/ NewRequest(req'[s])
      BY NewRequests
<1>2. ASSUME \A i, j \in Jobs : i = j, Unused' # {}
      PROVE  /\ ref' = NoVersion \/ ref' \in complete'
             /\ \A r \in Requests : req'[r].pc = "resolve" => req'[r].tgt = ref'
  <2>1. Unused # {}
        BY <1>2, StatusMoves DEF UsedStays, Unused
  <2>2. UNCHANGED <<ref, complete>>
        BY <1>2, <2>1, CacheWaits
  <2> QED BY <1>1, <1>2, <2>1, <2>2 DEF MainOK, NewRequest
<1>3. Ops \cap {"start", "force"} = {} => \A r \in Requests : req'[r].pc # "resolve"
      BY <1>1 DEF MainOK, NewRequest
<1>4. ASSUME Ops \cap {"drift", "force"} = {}
      PROVE  /\ ThreadsOfMain'
             /\ \A r \in Requests : req'[r].pc = "resolve" =>
                   req'[r].tgt = NoVersion /\ ref' \in {NoVersion, remote'}
  <2>1. ThreadsOfMain
        BY <1>4 DEF MainOK
  <2>2. ThreadsOfMain' /\ remote' = remote
        BY <1>4, <2>1, ThreadsOfMainStay
  <2>3. ref' = ref \/ ref' = remote
    <3>1. ASSUME NEW t \in Threads, ThreadStep(t) PROVE ref' = ref \/ ref' = remote
          BY <2>1, <3>1 DEF ThreadsOfMain, ThreadStep, ThreadBegin, ThreadManifest,
             ThreadCancelled, ThreadBlobs, ThreadRaises, ThreadWriteRef, ThreadLayout,
             ThreadRecordSha, ThreadRecordFailure, ThreadPopThread, ThreadPopEvent, Step
    <3> QED BY <3>1, CacheMoves DEF CompletionInv
  <2>4. ASSUME NEW r \in Requests, req'[r].pc = "resolve"
        PROVE  req'[r].tgt = NoVersion /\ ref' \in {NoVersion, remote'}
    <3>1. CASE req'[r] = req[r]
          BY <1>4, <2>2, <2>3, <2>4, <3>1 DEF MainOK
    <3>2. CASE NewRequest(req'[r])
          BY <1>4, <2>4, <3>2 DEF NewRequest
    <3> QED BY <1>1, <3>1, <3>2
  <2> QED BY <2>2, <2>4
<1> QED BY <1>2, <1>3, <1>4 DEF MainOK

(* Nobody is left waiting.  A job in downloading whose target is missing   *)
(* has a thread, a request or the startup code working on it, through      *)
(* pauses, resumes, cancellations, deletions, failures and restarts of the *)
(* backend; provided that main stays put while plain requests ask for it,  *)
(* or the repository is downloaded by one job.                             *)
THEOREM NoOrphanCorrect ==
    ASSUME Restricted, MainSettled
    PROVE  Spec => []NoOrphanDownload
<1>1. Init => OrphanInv
  <2> SUFFICES ASSUME Init PROVE OrphanInv
      OBVIOUS
  <2>1. OneThreadInv
        BY TypeInit DEF Init, OneThreadInv, RegistryNamesLiveThread, OneThreadPerJob, Live,
           DeadThread, BootAlone, BootFresh, BootUsed, NoSettings, WaitersUsed,
           RegisteredUsed, Idle
  <2>2. CompletionInv
        BY TypeInit DEF Init, CompletionInv, BootUsed, WaitersUsed, NoTakers, FilesKept,
           RecordsAvailable, MonitorsUsed, MaterializeVerified, DeadThread, FreeMonitor, Idle
  <2>3. NoRetry /\ Handled /\ \A r \in Requests : SizeOK(req[r])
        BY DEF Init, NoRetry, Handled, Wanting, SizeOK, Idle
  <2>4. MainOK
        BY DEF Init, MainOK, ThreadsOfMain, Idle, DeadThread
  <2> QED BY <2>1, <2>2, <2>3, <2>4 DEF OrphanInv
<1>2. OrphanInv /\ [Next]_vars => OrphanInv'
  <2> SUFFICES ASSUME OrphanInv, [Next]_vars PROVE OrphanInv'
      OBVIOUS
  <2>1. OneThreadInv' /\ CompletionInv'
        BY OneThreadInvStep, CompletionInvStep DEF OrphanInv, Restricted
  <2>2. CASE Next
        BY <2>1, <2>2, SizesStay, MainStays, HandledStep, CrashHandled DEF OrphanInv
  <2>3. CASE UNCHANGED vars
    <3>1. Handled'
          BY <2>3 DEF vars, OrphanInv, Handled, Wanting, Delivered, Delivers, Cancelled,
             Restarting, TargetAvailable, Available
    <3>2. NoRetry' /\ MainOK'
          BY <2>3 DEF vars, OrphanInv, NoRetry, MainOK, ThreadsOfMain, Unused
    <3>3. \A r \in Requests : SizeOK(req[r])'
          BY <2>3 DEF vars, OrphanInv, SizeOK, Unused, Known, Available
    <3> QED BY <2>1, <3>1, <3>2, <3>3 DEF OrphanInv
  <2> QED BY <2>2, <2>3
<1>3. OrphanInv => NoOrphanDownload
      BY DEF OrphanInv, Handled, Wanting, Delivered, Delivers, Restarting, NoOrphanDownload, Live
<1> QED BY <1>1, <1>2, <1>3, PTL DEF Spec
=============================================================================
