# A verification project for Fireworks

Fireworks manages a small cluster of DGX Spark machines. One backend process
(FastAPI on one event loop, SQLite) keeps models, images and inference tasks in
tables; a node agent on every machine runs containers and fetches files; a Nuxt
frontend shows it all. Almost every operation of the backend is a long
conversation with something slow: a download thread, ssh, an agent over HTTP,
docker. While one operation waits, others run, and the backend may be restarted
under all of them.

This directory holds TLA+ models of the parts where that matters, TLC instances
that check them, and theorems checked by TLAPS. Everything is translated from
the source under `src/`; `PROJECT.json` maps every definition to the lines it
stands for.

    tlc -workers 2 -config MCModelDownload_core.cfg MCModelDownload
    tlapm ModelDownloadProofs.tla

## 1. The system

Paths are relative to `src/`; `app/` is `backend/app/`.

| component | source | state | operations |
|---|---|---|---|
| Model download | `app/services/model_manager.py`, `app/routers/models.py` | `model_downloads` rows, the HF cache on disk, `_download_threads`, `_download_cancel`, `_paused_phase` | start (main, pinned, forced), pause, resume, retry, cancel, delete, settings restart, prune, remove cache, recovery at start-up |
| Model distribution | the same, `app/services/peer_transfer.py`, `transfer_selection.py` | the same rows with a head and workers, per-worker sync status, fetch jobs on the agents | send to the head over sftp, sync from head to workers, verification, selection of nodes |
| Image transfer | `app/services/image_manager.py`, `app/routers/images.py` | `image_transfers` rows, archives, per-node results | pull, save, send, load, peer sync, pause, resume, retry, cancel |
| Task lifecycle | `app/routers/tasks.py`, `app/services/task_runtime.py`, `task_monitor.py` | `tasks`, `task_nodes`, `task_benchmarks`, a lock per task | publish, pause, resume, stop, start, restart, delete, health check, status monitor, benchmark |
| Agent channel | `app/services/agent_ws.py`, `app/routers/ws.py` | one websocket per node, log subscriptions, last seen times | connect, reconnect, docker events, log fan-out, watchdog |
| Clusters and network | `app/routers/clusters.py`, `app/services/network_config.py`, `network_test.py` | clusters, interface plans, per-node locks | apply netplan on every node, verify, roll back |
| Nodes | `app/routers/nodes.py`, `app/services/deploy_agent.py`, `node_optimize.py` | `nodes` rows, deploy locks | add, deploy or update the agent, delete with everything that refers to the node |
| Node agent | `agent/main.py` | fetch jobs, shares, compose projects | compose up, down and actions, model and image fetches |
| Authentication | `app/security.py`, `app/routers/auth.py` | sessions, failed logins per address | login, logout, rate limit |
| Recipe sources | `app/services/recipe_source.py`, `app/routers/recipes.py` | `recipes` rows, git checkouts | sync, import, edit |
| Statistics | `app/services/llm_stats.py`, `inference_aggregation.py` | last samples | differences of counters over samples |
| Start-up and loops | `app/main.py`, `background_tasks.py` | the set of background coroutines | recoveries of all components, collection loops |

How they interact. Everything in the backend shares one SQLite database and one
event loop; an ORM session remembers the row it read and writes only the
attributes that differ from it. Threads exist in three places: download threads,
plain `def` endpoints (run by a thread pool), and `asyncio.to_thread` calls.
Tasks call model and image transfers before they deploy; transfers call agents,
which report by polling; agents push docker events over the websocket.

What is hard about it:

* an `await` in the middle of a handler, after a check and before the write the
  check was for (admission of transfers, occupancy of nodes, the monitor's
  completion);
* OS threads and coroutines that share module-level dictionaries without a lock
  (`_download_threads`, `_download_cancel`);
* joins and calls that time out while the other side goes on working;
* crashes, with recovery code that has to rebuild in-memory state from rows;
* several writers of one status: an action, the deployment loop, its rollback,
  the monitor, docker events, the health check.

`PROJECT.json` lists each of these at its line under `hazards`.

What makes each component correct:

* Model download: one thread per job, one writer of the cache, a downloading job
  has somebody working for it, a pinned job gets its commit, completed means
  verified on disk, a download ends.
* Model distribution and images: no node is written by two jobs at once, a
  worker is synced only from a complete head, ready nodes really hold the files,
  a stop reaches the agents, a transfer ends; one thread writes an image archive,
  and completed means that docker has the build of the row.
* Single files: whatever a `.part` holds, a file that counts as verified is right,
  and a call ends.
* Task lifecycle: no node carries two active tasks, running means that every node
  has its container, stopped means none runs, a publication ends, results die
  with their task.
* Agent channel: a page shows the log without gaps and repetitions, streams run on
  the node exactly while somebody wants them, a node's status becomes what it is.
* Clusters and network: no two members have the same address, rows, claims and
  netplan files agree, a failed request leaves nothing on the nodes, requests do
  not wait for each other's locks for ever.
* Nodes: nothing refers to a deleted node.
* Authentication: the limiter blocks after its limit and forgets after its window.

## 2. The plan

| order | module | what | state |
|---|---|---|---|
| 1 | `ModelDownload`, `ModelDownloadProofs` | downloads on the control plane; types and all its safety properties proved | done |
| 2 | `TaskLifecycle`, `TaskLifecycleProofs` | publications, actions, monitor, events; types and all its safety properties proved | done |
| 3 | `ModelDistribution`, `ModelDistributionProofs` | jobs with a head and workers, the agents' fetch jobs; types and all its safety properties proved | done |
| 4 | `Membership` | what the cluster API promises, in the abstract | done |
| 5 | `ClusterNetwork`, `ClusterNetworkProofs` | its implementation: locks, probes, netplan, verification, rollback; types, all its safety properties and the refinement proved | done |
| 6 | `ImageTransfer`, `ImageTransferProofs` | the transfer protocol for images: pull thread, archive, monitor; types and all its safety properties proved | done |
| 7 | `ResumableDownload`, `ResumableDownloadProofs` | the four resumable downloads of one file; types and both safety properties proved | done |
| 8 | `AgentChannel`, `AgentChannelProofs`, `LogSegments` | the connection to an agent, the log from docker to the page; types, the streams and what the pages show proved | done |
| 9 | `TransferJob` | what a transfer to nodes promises, in the abstract; `ModelDistribution` and `ImageTransfer` implement it, both refinements proved | done |
| 10 | `NodeDeletion` | the cascade of `delete_node`, which checks clusters and tasks and then awaits without a lock | planned |
| 11 | `LoginLimiter`, `Sessions`, `RecipeSync`, `CounterDeltas` | sliding window, session table, table reconciliation, the pure functions | planned |

The suite stays at a dozen runs so that all of it is checked after every change.
Small instances of one module are therefore merged as *scenes*: the MC module
extends the specification and instantiates it again with other operations or
sizes, the scene is chosen at the start of a behaviour and never changes, and a
property is stated for the scene it is about (`scene = "restart" => ...`). What
such a run explores is exactly the union of its scenes.

## 3. ModelDownload

A transfer job without target nodes: the row (`status`, `asked`, `target` for
`job.sha`), the cache of one repository (`ref`, `anchors`, `complete`), the
hub's branch (`remote`), the threads (`thr`) and the two registries (`reg` for
`_download_threads`, `ev` for `_download_cancel`), the monitor coroutines
(`mon`), requests that are between two steps (`req`), the watchdogs of a
settings restart (`watch`), and the rows the start-up code has still to look at
(`boot`).

| actions | code |
|---|---|
| `StartMain`, `StartPinned`, `StartResolved`, `StartInsert` | `start_download_job`, one action for each stretch between awaits |
| `Pause`, `Resume`, `ResumeJoined`, `Retry`, `RetryJoined`, `Cancel`, `Delete` | the functions of those names; the join of the old thread is where the request waits |
| `SettingsRead` ... `SettingsStart`, `WatchdogWakes` | `restart_downloads_with_new_settings` on a worker thread, and its watchdog |
| `Prune`, `PruneDelete`, `RemoveCache`, `RemoveTree` | the plain `def` endpoints that check for transfers and then delete |
| `ThreadBegin` ... `ThreadPopEvent` | the thread: manifest, blobs, `refs/main`, links, the row, and the `finally` that leaves the two registries one after the other |
| `MonitorPoll`, `MonitorComplete` | `_monitor_job`, with the await before the completion |
| `Crash`, `ResumeMonitor` | everything in memory is lost; `resume_download_monitors` |

A thread looks at its cancel flag between chunks, so a blob download is one step
that may be left at any time. The branch is one symbol: a download of a branch
fetches whatever commit the hub names then.

## 4. TaskLifecycle

A task is a compose project with one container per node. The rows are `status`,
`nodesOf`, `head`, `recorded` (the `TaskNode`s with a container name) and `cst`
(the container state the backend believes in); `ctr` is the truth on the nodes
and `events` the docker events on their way.

| actions | code |
|---|---|
| `Publish`, `PublishRefused`, `PublishReserve` | `create_task`: the first occupancy check, the preparation, the check and the insertion under `BEGIN IMMEDIATE` |
| `PublishUp`, `PublishPs`, `PublishFails`, `PublishUndo`, `PublishRollback` | the deployment loop, worker nodes first, and its rollback |
| `ActStart`, `ActAtOnce`, `ActCall`, `ActRestarted`, `ActCallFails`, `ActEnd`, `ActDeleted` | `task_action` under the task's lock |
| `ProbeStart`, `ProbeNode`, `ProbeEnd` | one `_check_task` |
| `DockerEvent` | `_on_docker_event` |
| `HealthCheck`, `Crash` | `_health_check` of a task found published at start-up |
| `BenchStart`, `BenchStore` | `run_task_benchmark` |
| `ContainerExits` | the environment |

Details that decide outcomes are kept: `AfterTurn` (what the deployment loop
writes depends on the status it reads again), `ActEnd` (a value equal to the one
that was read is not written), `ProbeEnd` and `DockerEvent` (they end a task only
when every container has exited), `Outcome` (an action that fails on some nodes
still reports its goal).

Left out: health values (displayed only), ports and image names, the metrics the
monitor collects. Container names are distinct per node. Two monitor loops that
run at start-up are one.

## 5. ModelDistribution

The same table, for jobs with a head node and workers. One repository and one
version of it, a set `Files`, is complete in the control plane's cache
(`ModelDownload` is about how it gets there); the nodes start with nothing, which
is where a skipped or a lost file shows. The state is the row (`status`, `head`,
`workers`, and `sync` for the entries of `sync_jobs`), `phase` for
`_paused_phase`, what every node holds (`have`), the fetch jobs in the agents'
memory (`fetch`), the `_monitor_job` coroutines (`mon`), and requests between the
admission check and the insertion (`req`).

| actions | code |
|---|---|
| `StartCheck`, `StartInsert` | `start_download_job` before and after the hub is asked for the size; `Admitted` is the admission check |
| `Pause`, `Resume`, `Retry`, `Cancel`, `Delete` | the functions of those names; `Spawn` is the coroutine they start |
| `ManualSync`, `NodeModelDelete` | endpoints that write to or empty a node without a job |
| `Begin`, `Prepared`, `PrepareFails` | `_monitor_job` up to the sending phase |
| `SendCheck`, `SendDone`, `SendFails`, `SendEnd`, `Mirrored` | `_send_repo_to_node`: the row is read before each file, then once at the end; the mirror on the head; `syncing` |
| `Share`, `ShareFails`, `CheckWorker` | the head shares what it has, each worker is asked what it lacks, the entries are written as a whole |
| `Adopt`, `OldStopped`, `Fetch`, `Record`, `PollEnd`, `PollAgain`, `PollStop`, `Stopped`, `SyncFails` | `_sync_model_to_worker`, one per worker, all under way at once |
| `Merge`, `Final` | the results are merged and the verdict is written, with an await between them if a worker's mirror has to be refreshed |
| `FetchEnds`, `AgentRestarts` | the agents |
| `Crash` | the backend stops and starts: `resume_download_monitors` |

One stretch of a coroutine between two awaits is one action. A call to an agent
is one action too, except `model_fetch`: its answer carries the id that has to be
recorded, and what happens between `Fetch` and `Record` matters. `seen` is the
status a coroutine's ORM session has loaded: assigning an equal value writes
nothing, any other value is written over whatever the row says by then. A slot
of `Fetches` is reused when no row and no coroutine mentions it, so that ids are
unique and the number of slots bounds only how many fetch jobs exist at a time.

The high-speed addresses, the per-file retries and checksums of a fetch, the
limit of five files in flight, and the agents' pruning of old jobs are left out.

### TransferJob

`TransferJob` is what a deployment relies on when it waits for a model or an image: a
transfer starts over nodes that no other open transfer has (`Start`), its item is
settled once (`Name`), it completes only when all its nodes have the item (`Complete`),
or it is given up or removed (`GiveUp`, `Remove`), and what has ended is not taken up
again. Nodes change by themselves, but keep what they have got for an open transfer
(`NodesKeep`). There are no requests, threads, coroutines, agents, files or crashes in
it. `ModelDistribution` and `ImageTransfer` implement it (`Implements` in each module):

| `TransferJob` | `ModelDistribution` | `ImageTransfer` |
|---|---|---|
| `state[j]` | `StateOf(status[j])`; the phases and paused are `open` | `State(j)`, likewise |
| `claim[j]` | head and workers while `j` is open | the same |
| `item[j]` | the model, from the insertion on | the fingerprint in the row: none until the thread writes it |
| `has[n]` | the model, once `n` has all of `Files` | what docker on `n` has under the tag |
| `Start`, `Name` | `StartInsert` | `Start`; `Mark` |
| `Complete` | `Merge` or `Final` with the verdict `completed` | `Wait` without nodes, `LoadEnd` |
| `GiveUp`, `Remove` | failures and `Cancel`; `Delete` | the same |

Everything else leaves the jobs what they are. `NodesKeep` is where the implementations
differ: a model's files stay because no agent removes them, an image stays although
every load writes the same tag, because two transfers under way are for one archive.
`ModelDownload` has jobs without nodes and is not mapped.

## 6. Membership and ClusterNetwork

`Membership` is what the rest of the backend relies on: a cluster appears with all
its nodes (`Form`), a node joins on a slot nobody has (`Join`), leaves (`Leave`), or
the cluster goes with all its nodes (`Dissolve`). `ClusterNetwork` is what the
routers do. It keeps the rows (`row`, `cidr`, `plan`, `claimed` for
`Node.cluster_id`, `member` for `cluster_nodes` with `net_index`), the files on the
nodes (`dropin` for `999-fireworks-network.yaml`, `foreign` for another file that
declares the rails, `bak` for its `.fw-bak`), the wires (`linked`, `devices`), the
table `_operation_locks`, and the requests under way, each an OS thread of the
pool that serves plain `def` endpoints.

| actions | code |
|---|---|
| `CreateBegin`, `CreateCheck`, `CreateProbe`, `CreateCommit` | `create_cluster`: occupied nodes and links, a free network, `probe_plan_ip_conflicts`, and claims, member rows and cluster in one transaction at the end |
| `AddBegin`, `AddCheck`, `AddProbe`, `AddReverse`, `AddCommit` | `add_cluster_node`: the highest slot is read, the addresses are probed, the node is claimed conditionally, verification from every peer, the member row |
| `Lock`, `NextKey` | `node_operation_locks`: keys one by one in one order, cluster ids negative |
| `Apply`, `Verify`, `Undo` | `apply_node_network` on all nodes (all results are collected), `verify_node_network`, the rollback in reverse order and the release of the claim |
| `Applied`, `RolledBack`, `Backup` | the two scripts: what other files declare is taken over and kept once, the own file is written; the kept file returns and the own file goes |
| `Remove` | `remove_cluster_node`: rows only |
| `Delete`, `CleanupBegin`, `Clean`, `CleanupEnd` | `delete_cluster` without and with cleanup of the members it has read |
| `DeviceJoins`, `Unplug`, `Plug` | the environment |

The four rails of a node carry four networks of one plan; here they are one
address. Equipment of other people (`devices`) may answer for an address at any
time. `FailureLeavesNothing` needs what a node had when the request locked it
(`was`), a variable no guard looks at.

`Implements` is the refinement: `Abstract == INSTANCE Membership WITH place <-
member`. `CreateCommit` is `Form`, `AddCommit` is `Join`, `Remove` is `Leave`,
`Delete` and `CleanupEnd` are `Dissolve`; everything else, ssh calls included,
leaves the tables alone.

`"apart"` in `Ops` is an assumption about users: nobody deletes a cluster while a
request adds a node to it or another deletes it. The code takes no lock in
`delete_cluster`, and without the assumption the properties about rows fail
(section 12). The operations `empty`, `bare` (clusters without a plan), `hang` and
`rollbackFails` exist in the module and are not in the run.

## 7. ImageTransfer

One image, whose tag names one build after the other. The rows (`row` with status,
registry digest, archive digest, size, head, workers), `phase` for `_paused_phase`,
`puller` for `_pull_threads`, the archive of the control plane with its sidecar
(`archive`, `side`, `marked`) and the `.part` file behind it (`part`), the threads
and coroutines, and on each node the archives, docker's image and the
`.loaded-<digest>` marks (`tars`, `docker`, `loaded`).

| actions | code |
|---|---|
| `Start`, `Pause`, `Resume`, `Cancel`, `Delete` | `start_image_transfer` with `_check_image_transfer_admission` (`Admitted`), `pause_`, `resume_`, `cancel_image_transfer`, `delete_transfer` |
| `DeleteLocal` | `delete_local_archive` |
| `BeginPull`, `Pull`, `Pack`, `Mark`, `PullFails` | the thread of `_start_pull`: an outdated archive is removed, manifest and layers, `on_phase`, tar and rename, fingerprint and row, the handler of exceptions |
| `Wait`, `Check`, `Send`, `Share`, `Fetch`, `SyncEnd`, `Load`, `LoadEnd`, `RowGone` | `_monitor_transfer`, one action per stretch between awaits |
| `Crash` | `resume_image_monitors` |
| `TagMoves`, `Prune` | registry and docker |

A status is written only if it differs from the one the coroutine's session has
loaded (`Writes`): that is how SQLAlchemy decides, and it decides outcomes here.
`Bad` is an archive two threads have written. In `Ops`, `"calm"` keeps users from
cancelling, deleting or starting in the windows that are known to break the
properties (section 12 names each), `"tidy"` keeps them from removing images or
archives a transfer under way uses.

## 8. ResumableDownload

The repository has four downloads of a file into `<name>.part` with resumption: a
layer (`_registry_blob_file`), an image archive (`_download_image_archive` of the
agent), a model file fetched from the head (`_download_shared_model_file`) and one
pulled from the control plane (`model_pull`). They go the same way and differ in
what they do about each failure; the differences are a record per kind (`Rule`:
measure again or count, trim what is complete, restart or go on when ranges are
ignored, and "drop" or "retry" after a refusal, an error, a break, a wrong size,
wrong content). A behaviour is about one kind.

The disk is modelled as POSIX has it: an open file outlives its name, so a caller
whose `.part` was renamed or removed by another goes on writing into a file that is
now the target, or nobody's. `Call`, `Ask`, `AnswerRest`, `AnswerAll`, `AnswerRange`,
`AnswerError`, `Read`, `Break`, `End`, `Check`, `Rename` and `Mark` are the steps of a
call, `Cancel` the stop of a fetch job. The content is a sequence of blocks, the k-th
of which is right when it is k. `crowd` says whether calls overlap in the behaviour:
those for a layer do not, because one pull goes layer by layer and one thread pulls
an image; the agent's calls do, because the control plane repeats a call it has
given up. Two calls may overlap, which is what `rd_core` checks and the theorem is
about; with three, a wrong file can be marked (section 12).

A source may send wrong content at any time, to overlapping calls too, and then the
code can mark a wrong file: each call compares the `.part` once, and what the other
call writes into that file between the comparison and the mark nobody compares.
`mixed` is a history variable that records this: a call was sent wrong content while
another one was under way. It is forgotten when a call begins alone and finds no
target to use. `MarkedIsRight` and `Recovers` name it as the one way in which they
fail, so what they exclude is visible in the properties and not in a guard; wrong
content that came to one of the callers alone, before or after, is not excluded. What
a nameless file holds is left out of the state, because no such file gets a name again.

## 9. AgentChannel and LogSegments

`AgentChannel` is one node, one container on it and the pages that show its log.
The lines are the numbers 1, 2, ... so that gaps and repetitions are visible.

| actions | code |
|---|---|
| `Connect`, `ConnectFails`, `Disconnected` | the loop of `_connect_node`, with the resubscription under a new generation |
| `Receive`, `Metrics` | `_handle_message`: log, log_end, metrics |
| `Watchdog` | `_watchdog_pass` |
| `Subscribe`, `Unsubscribe`, `Unregister`, `SendUnsubscribe` | `subscribe_log`, `unsubscribe_log`, `unregister_frontend` and the task it creates |
| `Command`, `ReadLine`, `ReadEnd`, `ReportEnd` | `recv_loop`, `start_log_stream`, `stop_log_stream`, `log_reader` of the agent |
| `Push`, `Spill`, `Send`, `Crowded` | `push` and `_enqueue` of the agent, the loop of `ws_events` that empties `send_q`, and what else fills it |
| `Enter`, `Leave`, `Deliver`, `Reconnect` | the page and `useRealtime` |
| `Write`, `StopOrStart`, `Break`, `Answers`, `LoseSocket`, `Restart` | the environment |

The control plane finds out that a connection is dead by reading (`Disconnected`)
or by the watchdog; what had already arrived may still be read (`Break`). The
operation `hurry`, a page that is refreshed while old messages wait in its queue,
is left out of the run: it breaks `ViewFaithful` (section 12). `QueueMax` is large
enough in the run never to be reached; a page's queue that overflows drops lines by
design.

The agent's `send_q` is bounded by `SendMax`, and when it is full its oldest messages
are dropped (`_enqueue`), which is modelled. The newest `held` messages of `up` are
those that still wait in it; `Send` passes one on, `Receive` and `Break` see only what
is past it. One read of the log pushes all the lines it found before the sender has a
turn (`ReadLine` reads several), so that a single read can overflow the queue; other
traffic of the agent can at any time (`Crowded`, the operation `burst`). Two history
variables keep what was lost: `spilt`, the messages this session dropped, and `skipped`,
the lines that were ever dropped. The properties say what remains true: `ViewFaithful`
allows a gap of skipped lines and nothing else (no other gap, no repetition, no other
order); `StreamsAsWanted` allows a wanted stream to be missing only if the `log_end` of
that very stream was dropped; `Shown` does not promise the last line if that line or
that `log_end` was dropped. Without the exceptions TLC finds `ViewFaithful` and
`StreamsAsWanted` violated.

`LogSegments` is what `AgentChannel` takes for granted when it calls something a
line: `log_reader` and `_log_segments` cut bytes into segments with an update flag
(`Read`, `Cut`, `EndsLine`, `Close`), and `onLog` of the page (`Shows`) appends or
replaces. `Terminal` is the reference, what a terminal shows for the same bytes.
`ScreenIsTerminal` holds however the bytes are cut into reads, if lines that are
rewritten in place do not follow each other and no read ends between CR and LF; without
the two limits (`Adjacent`, `Torn`) it does not (section 12). That segments get lost in a
full `send_q` is the subject of `AgentChannel` alone.

## 10. What the runs check

Bounds are the constants of the `.cfg` files and nothing else; all models have
finite state spaces for given constants (`md_ends` fixes where the branch begins and
which job its second scene uses; versions and jobs are interchangeable). `Ops` names
what users and the environment do in an instance, so that each run explores some
kinds of trouble completely instead of all kinds a little.

| run | instance | shows |
|---|---|---|
| `md_core` | 1 job, 2 commits, 2 threads, 2 monitors, 1 request. Scene core: start, pin, force, pause, resume, moving branch. Scene restart: cancel, delete and crash instead of resume | types; never two live threads of a job (`OneThreadPerJob`); a downloading job is never abandoned (`NoOrphanDownload`; with two jobs it can be, section 12); completed means on disk at that moment (`CompletionIsVerified`); a pinned job keeps its commit through restarts (`PinKept`) |
| `md_ends` | 2 threads, 2 monitors. Scene ends: 2 jobs, failures, retries, fairness. Scene registry: 1 job, settings changes, timed-out joins, prune, cache removal | one writer of the cache (`OneWriter`), every download ends (`DownloadsEnd`); a registry entry names a live thread of its job (`RegistryNamesLiveThread`) |
| `tl_core` | 2 tasks. Scene core: 1 node, 2 publications; stop, restart, delete, exits, benchmarks. Scene gpu: 2 nodes, 1 publication, 1 event per container; exits, events, crashes | active tasks never share a node (`NodeExclusive`), no result outlives its task (`NoOrphanResults`); a node's containers are gone before another task gets it (`GpuNotShared`) |
| `tl_ends` | 1 task, 2 nodes. Scene ends: failures, pause, resume, start, fairness. Scene placed: stop, restart, exits, events, crashes | a publication ends (`PublishingEnds`); running tasks have a container on every node (`PlacedRunning`) |
| `di_core` | 2 jobs, 2 nodes, 1 file, 2 coroutines, 1 request, 2 fetch jobs; pause, delete, manual sync, failures, agent restarts | active jobs of the model share no node (`NodesNotShared`); completed means that every target holds every file (`DeliveredWhenCompleted`); jobs change as `TransferJob` says (`Implements`) |
| `di_driven` | 1 job, 2 nodes, 2 coroutines; pause, resume, retry, cancel, emptied nodes, crashes | an active job always has a coroutine (`Driven`), although coroutines give up when they read a status they do not expect |
| `cn_core` | 2 nodes (one with a foreign file), 2 clusters, 2 networks of 2 slots, 2 requests, 1 trouble at a time; add, remove, delete, cleanup, failures, apart | types; no address twice (`AddressesApart`); claims and rows agree (`ClaimsMatch`); members have their address (`MembersConfigured`); a failed request leaves nothing behind (`FailureLeavesNothing`); the foreign file survives (`ForeignKept`); no deadlock of the locks (`NoDeadlock`); the tables change as `Membership` says (`Implements`) |
| `it_core` | 2 transfers, 2 nodes, 2 builds, 2 threads, 2 monitors; cancel, delete, forced pulls, deleted archives, crashes, failures, moving tag, calm, tidy | one thread packs the archive (`OnePuller`), transfers share no nodes (`NodesNotShared`), each is driven (`Driven`), completed means that docker on every node has the row's build, no older than the registry's at creation (`DeliveredWhenCompleted`); transfers change as `TransferJob` says (`Implements`) |
| `it_settles` | 1 transfer, 1 node, 1 build, 2 threads, 2 monitors; pause, cancel, delete, failures, prune, deleted archives, tidy; fairness | a transfer is ended or paused eventually (`Settles`), whatever a pause and a resume leave side by side |
| `rd_core` | 2 callers, a file of 2 blocks, all four kinds, 2 tries (1 for `pulled`; the code has 5, 6, 3 and 1); bad sources (wrong content to overlapping calls as well), crashes, cancels; fairness | verified means right (`MarkedIsRight`) except for a file that wrong content came to while calls overlapped (`mixed`), so does a success nobody overlapped (`RightWhenDone`); calls end (`Returns`); whatever `.part` was left is overcome, with the same exception (`Recovers`) |
| `ch_core` | Replay of 2, 1 kept line, a `send_q` for 1 message of the log, 3 uses, 1 fault of any kind; fairness. Scene pages: 2 pages, 2 lines, nothing dropped. Scene lines: 1 page that keeps its socket, 3 lines in reads of up to 3, drops. Scene segments: 2 letters, CR and LF, 7 bytes in reads of up to 3 | no repetition and no gap but for what the agent's `send_q` dropped (`ViewFaithful`), streams as wanted (`StreamsAsWanted`) and what is subscribed comes (`Shown`) unless a message they need was dropped, the status becomes right (`StatusFollows`); the page shows what a terminal would, within the limits of section 9 (`ScreenIsTerminal`) |
| `ls_v_chain` | 6 bytes in reads of up to 2, progress lines next to each other | violates `EndedLinesStay`, see section 12 |

`TypeOK` of `TaskLifecycle`, `ModelDistribution`, `ImageTransfer`, `ResumableDownload` and
`AgentChannel` is proved and not listed in a run; that of `LogSegments` is stated in the module, and adding
`INVARIANT TypeOK` to a configuration checks it.

Why the bounds are enough. Two threads are what a race between an old and a new
thread of a job needs; the model blocks a third until one has ended, which is
the only thing a third could wait for. Two commits make "the wrong one"
possible. Two monitors cover a job that is resumed while its old monitor still
runs. Two tasks are the least that can share a node, two nodes the least that a
deployment can be interrupted between; two publications are two requests between
their checks. One event per container is enough for it to be late. In
`ModelDistribution` two coroutines are an old and a new one of a job, or one for
each of two jobs; two nodes are a head and a worker, or the targets two jobs may
fight over; a file is either there or not (the loss of one of several files in
section 12 needs two). One request leaves out the race of two requests, which is
known to break `NodesNotShared` (section 12).

In `ClusterNetwork` two nodes and two slots make every slot contested: a cluster of
two is full, one of one leaves a slot that two requests want; two networks are the
least that makes a wrong one possible, and two requests hold and wait. Its theorems
hold for any number of everything. In `ImageTransfer` a second build makes the tag
move under a pull, two threads write one archive, and two nodes are a head and a
worker or the targets of two transfers; liveness needs one transfer and one node,
since transfers meet only at admission. Two blocks are a file that can be cut, short,
whole, or overlong by one, two callers are one that was given up and one that
replaces it; two tries are a failure that is retried and a last one, which is where
the code differs from the middle ones. Two lines and two pages are enough for a gap, a
repetition and a replay to one page while the other goes on; three uses are enter,
leave and enter again. Seven bytes hold two progress lines and a plain one.

Deadlock is not checked by TLC: with the rows used up and nothing under way, the
system stops. `NoDeadlock` is about the locks. Jobs, threads, monitors, requests,
nodes, files and tasks are interchangeable (no definition picks one of them by
`CHOOSE` or by order), so the runs that check only invariants and step properties use
symmetry; nodes of `ClusterNetwork` are numbers, because locks are taken in their
order, and are not permuted. Runs with liveness do not use it.

Fairness. Coroutines and threads are scheduled by asyncio and the OS, sockets
have timeouts, agent calls have timeouts: each request, thread, monitor and
recovery is weakly fair as a whole. For `ImageTransfer` that is `WF(ThreadStep)` and
`WF(MonitorStep)`. For `ResumableDownload` each call goes on, and somebody repeats it
(a layer's pull and the transfer's retry do), which only `Recovers` uses: it says
nothing of a source that stays bad. For `AgentChannel` the connection loop, both
ends' readers, the sender of each page and the browser go on; `Shown` assumes that the
node answers and the page stays subscribed from some time on, and makes an exception
for what a full `send_q` dropped. The agent's sender goes on as well (`Send`). Users, the hub, docker's
exits, crashes, breaks and event delivery are not fair.

Every property has a mutant, an operator in the same module that makes one
plausible mistake (a join forgotten, a check not repeated, head before workers,
locks in the order of the request, a generation not compared, a `.part` of the right
size kept); the run finds the property violated when it takes the place of the
original.

## 11. What is proved

All theorems hold for every value of the constants; they assume only what the modules
themselves assume and what is stated below. `ConstantsAssumption` gives the constants
their types, says that the null values are not members of the sets and that the two
notices a page gets (`Reset`, `End`) differ, and that nodes of clusters and callers of a
download are finitely many; `RowAssumption` and `StreamAssumption` say that `None` is no
row and no stream.

The assumptions of a theorem are not conveniences: most of the operations that one
excludes are known to break the property (section 12 has the scenarios), and `"bare"`
adds nodes that are to have no address. A few may be stronger than needed, such as the
exclusion of every removal in `Restricted`. The runs' instances satisfy all of them.

| theorem | says | argument |
|---|---|---|
| `ModelDownloadProofs!TypeCorrect` | `[]TypeOK` | `TypeOK` is inductive; the lemmas go by the part of the state a step touches |
| `ModelDownloadProofs!RegistryCorrect` | `[]RegistryNamesLiveThread` | with: a thread of some job that is not registered has already left; a free slot is in no registry |
| `ModelDownloadProofs!OneThreadCorrect` | `[]OneThreadPerJob` if there are no settings changes | every start is preceded by a join that sees the registry empty, and only a thread's own last steps empty its entry; the settings code checks and starts on another OS thread, which breaks exactly this |
| `ModelDownloadProofs!CompletionCorrect` | `[][...]` of `CompletionIsVerified` without prune and cache removal | what a monitor has verified stays available: commits leave `complete` only under a writer that is about to put them back |
| `ModelDownloadProofs!PinKeptCorrect` | `[]PinnedTargetKept` without resume, retry and settings changes; in `md_core` it is `PinKept` | `PinInv`: the row's target, the commit of every live thread of the job (also of one that was orphaned by a crash and of the one that a restart has started) and what a request carries from admission to insertion are the commit that was asked for |
| `ModelDownloadProofs!OneWriterCorrect` | `[]SingleWriter` for one request at a time that starts, pauses or retries, under failures, a moving branch and timed-out joins (`OneAtATime`); in `md_ends` it is `OneWriter` | `SoleInv`: a thread works only while its job is active and no commit is complete, two that work are one, what is complete includes the local branch, and the request under way was admitted in such a state. `SingleWriter` alone says nothing of the thread that is about to start |
| `ModelDownloadProofs!NoOrphanCorrect` | `[]NoOrphanDownload` without retry, settings changes, prune, removal of the cache and timed-out joins (`Restricted`), for one job or a branch that stays put while requests ask for it (`MainSettled`) | `OrphanInv`: a job that wants its commit has a thread that will deliver it or say so (`Delivers`: not cancelled, or about to record), or a resume that will find no thread; the invariant has to know what each request decided from (`SizeOK`) and which commit a thread or a request of main will end at (`MainOK`). It rests on `OneThreadInv` and `CompletionInv` |
| `TaskLifecycleProofs!TypeCorrect` | `[]TypeOK` | `TypeOK` with `Fresh` (nobody works on a task without rows) and `Idle` (nodes to visit belong to an action or a round) |
| `ModelDistributionProofs!TypeCorrect` | `[]TypeOK` | `TypeOK` with `ReqOK` and `DoneOK`; one lemma for a coroutine's step (`StepTyped`), which the actions instantiate |
| `ModelDistributionProofs!DeliveredCorrect` | `DeliveredWhenCompleted` without resume and without emptied nodes (`NothingIsLost`) | `DeliveryInv`: a coroutine past the sending phase works for a complete head, one that is sending has skipped a file only if the row has left `sending` for good, whatever says a worker is complete is right (entries, plans, results, fetch jobs), a fetch job on record is the one that was started on that node, and a job has one coroutine (`Alone`). `StepDelivers` carries the invariant over any step of one coroutine; what the other parts of the state need is that nodes only gain files and that a fetch slot somebody mentions is not given away (`Growing`) |
| `ModelDistributionProofs!DrivenCorrect` | `[]Driven` | `CarriedInv`: each active row has a coroutine at a step that is right for its phase, so that it will not give up on reading the row; whoever makes a row active again starts one in the same step |
| `ModelDistributionProofs!NodesNotSharedCorrect` | `[]NodesNotShared` for one request at a time, without resume, retry and cancel (`NothingComesBack`) | `SharingInv`: what the request was admitted for stays free until it inserts (`AdmittedStays`), a job has one coroutine, and one that may still write an active status works for a row that occupies its nodes anyway (`CoroutineOccupies`) |
| `ModelDistributionProofs!Refinement` | `Implements` for one request at a time, without emptied nodes, resume, retry and cancel (`NothingIsLost`, `NothingComesBack`) | every step is mapped under `DeliveryInv` and `SharingInv`: the insertion is a `Start` because its admission still holds, a verdict is a `Complete` or a `GiveUp` because a coroutine that may still write works for a row that occupies its nodes, and nodes only gain files (`FilesStay`) |
| `TaskLifecycleProofs!NodeExclusiveCorrect` | `[]NodeExclusive` without start, pause and resume | every step but an insertion leaves `nodesOf` alone and makes no inactive task active (`NoneRevived`), because the only action that can end in an active status is a restart that found the task running (`OnlyRestartsRevive`); the insertion repeats the check in its own transaction |
| `TaskLifecycleProofs!NoOrphanCorrect` | `[]NoOrphanResults` | inductive with the type invariant: what is stored is stored for a task that runs, and every deletion takes the rows |
| `TaskLifecycleProofs!RunningPlacedCorrect` | `[]RunningWherePlaced` for users who publish, stop and restart, and calls that do not fail (`Undisturbed`); in `tl_ends` it is `PlacedRunning` | `PlacedInv`: a deployment has a container on every node it has passed (`Deployments`), and a task that runs, or that is published with its head recorded, is placed everywhere (`ReadyPlaced`). The second half is what the order of the deployment is for: the head comes last, so the health check of a task that a crash has left published speaks for all nodes |
| `TaskLifecycleProofs!OneTaskCorrect` | `[]OneTaskPerNode` where nobody acts on a task and no call fails (`HandsOff`); in `tl_core` it is `GpuNotShared` | `SteadyInv`, with `NodeExclusive`: a stopped task has no running container (`ContainersOfRows`), a deployment goes on only behind a task that stays published (`Awaited`), and every event on its way, cached state and reading of the monitor that says exited is right and stays right (`ExitsAreReal`), so that nodes are given away only when they are free |
| `ClusterNetworkProofs!TypeCorrect` | `[]TypeOK` | `TypeOK` with `PlanCidr` (a cluster with a plan has a network) and `Aimed` (a request is about a known cluster, on slots, with a network when it writes); in particular no search for a slot leaves the network |
| `ClusterNetworkProofs!ForeignSafe` | `[]ForeignKept` | only `Applied` and `RolledBack` touch the files, and each keeps `foreign \/ bak` |
| `ClusterNetworkProofs!ClaimsSafe` | `[]ClaimsMatch` with `"apart"` | part of `IInv`, below |
| `ClusterNetworkProofs!AddressesSafe` | `[]AddressesApart` with `"apart"` | from `UniqueSlots` (members of a cluster have different slots) and `CidrsApart` (living clusters have different networks) of `IInv` |
| `ClusterNetworkProofs!Refinement` | `Implements` with `"apart"` | every action is mapped under `IInv`: what `AddCommit` needs to be a `Join`, the free slot and the living cluster, was read long before and is kept true by the locks |
| `ClusterNetworkProofs!ConfiguredSafe` | `[]MembersConfigured` with `"apart"`, without `"bare"` | `ConfInv`, on top of `IInv`: a request has written on its own nodes only (`Keeps`), a creation works on nodes nobody has claimed (`Unclaimed`), an addition writes what its cluster says (`Planned`), a node that was verified carries the address that its row will stand for (`Verified`), and one deletion works on all members of a cluster (`Doomed`, `OneDeletion`) |
| `ClusterNetworkProofs!DeadlockFree` | `[]NoDeadlock` | `OrderInv`: a request holds only locks it wants, and none that is greater than one it waits for; cluster keys come before all nodes. In a set of requests that wait for each other, the greatest key that somebody holds and another waits for (`FiniteMaximum`) has a holder that waits for a greater one |
| `ClusterNetworkProofs!FailureClean` | `FailureLeavesNothing` without `"hang"` and `"rollbackFails"` | `LeftInv`: a node of a request that is not in `applied` has no address or the one it had when the request got its locks; the rollback empties `applied`. With `HeldInv`, the part of `IInv` that holds without `"apart"`: nobody else writes on those nodes |
| `ImageTransferProofs!TypeCorrect` | `[]TypeOK` | with: a thread has a job, and a build once it packs; a coroutine has a row and, past the polling loop, a head |
| `ImageTransferProofs!DrivenCorrect` | `[]Driven` | `CarriedInv`: each active row has a coroutine at a step where it will not leave because of what it has read; coroutines left side by side by a pause and a resume may go, one stays |
| `ImageTransferProofs!NodesNotSharedCorrect` | `[]NodesNotShared` with `"calm"`, without pause and reused ids (`NothingReturns`) | `WorkInv`: a thread works for a transfer that is being pulled and is the registered one, its coroutine waits for it, a transfer has one coroutine, and no row that has ended is written active again |
| `ImageTransferProofs!OnePullerCorrect` | `[]OnePuller` with also `"tidy"` and without `"back"` (`NothingDisturbed`) | `PullInv`, on top of `WorkInv`: a thread that pulls or packs has found no archive (`ThreadSees`); transfers that are pulled side by side agree on the archive that is there, so none of their threads throws it away (`PullsAgree`), because digests only grow (`DigestsGrow`) and an archive without a fingerprint gets one (`UnmarkedWorked`), after a crash too (`FingerprintStays`) |
| `ImageTransferProofs!DeliveredCorrect` | `DeliveredWhenCompleted` under the same assumptions (`NothingDisturbed`) | `DeliverInv`, on top of `PullInv`: a transfer under way that has its fingerprint stands for the archive that is there (`ArchiveKept`), and no pull beside it throws that archive away (`NoneReplaces`); an archive is of one build, no older than its fingerprint's registry digest, and so is the one being packed (`ArchiveSound`, `PacksGrow`); docker loads builds in their order, so that a load which is skipped because a node has had the archive's build finds that build under the tag still (`LoadsGrow`); and a coroutine that loads has its row's build on every node it is done with (`CoroutinesSound`) |
| `ImageTransferProofs!Refinement` | `Implements` under the same assumptions | under `DeliverInv` and `Unfinished`, which adds that no coroutine is left at a transfer that is completed: a late failure is written over an open transfer or one that has ended, never over a completed one; `Mark` names a build once because the archive is kept (`ArchiveKept`), and a load leaves the image of every open transfer where it is, since what it loads is the archive that all of them are for (`LoadKeeps`) |
| `ResumableDownloadProofs!TypeCorrect` | `[]TypeOK` | files are known by number, what is open exists, and blocks keep their range |
| `ResumableDownloadProofs!RightWhenDoneCorrect` | `RightWhenDone` | `SoloInv`: while no call overlaps, one is under way, its file is the `.part`, its count and hash are those of the file (`CallSound`), and at the rename the `.part` is right whatever it was before |
| `ResumableDownloadProofs!MarkedIsRightCorrect` | `[]MarkedIsRight` for two callers, without overlapping pulls of a layer (`TwoCalls`); wrong content that comes to one call while the other is under way is excluded by the property (`mixed`) | `PairInv`: when one call is about to rename, the `.part` is right, too long, or a right beginning that the other call continues exactly where it ends (`Sound`); afterwards at most one call still writes to what is now the target, and wrong content from it takes the mark away (`Unmarked`) |
| `AgentChannelProofs!TypeCorrect` | `[]TypeOK` | by the parts of the state: page, connection, agent |
| `AgentChannelProofs!StreamsCorrect` | `[]StreamsAsWanted` | `StreamInv`: as long as the connection is whole, somebody who wants the log will get its current stream (it reads, or a start is on its way and nothing behind it stops it: `Asked`, `Opened`), and every stream that is read or on its way either is the current one or has a stop, a later start or the unsent unsubscribe behind it (`Ended`, `Closed`). The property speaks only of the moment when nothing is under way, so it needs all of what is under way. A push into a full `send_q` loses messages, which is why `Opened` and the property have one way out: the end of that very stream is in `spilt` (`Carried` says that nothing else gets lost and nothing new comes) |
| `AgentChannelProofs!ViewCorrect` | `[]ViewFaithful` without `"hurry"`, in behaviours where no page's queue gets full (`Roomy`); the agent's `send_q` may, and the property allows the lines it dropped to be missing | `ViewInv`, one statement about all lines between the agent's reader and a page, in two halves. `TapeInv`: between what is kept (`history`), the lines of the current stream on their way and the reader's position, every line is on its way, in order, or was dropped (`Whole`; `WholeArrives`, `WholeMore` and `WholeLess` are receiving, reading on and losing), and a stream that is asked for is newer than all that was read, with nothing kept of it yet (`Fresh`). `PageOK`: the queue of a page goes on where the page is (`Seamless`), and ends where what is kept ends, or in a reset (`UpToDate`), so that the next line fits whichever of both it meets. `StreamInv` gives that nobody is subscribed to a stream that is not wanted |

`IInv` of `ClusterNetwork` is its type invariant, the facts about the rows
(`MemberRows`: a member's cluster exists and is the node's claim; `UniqueSlots`;
`CidrsApart`), `ReqInv(r)` for every request, and `NoClash` (no addition and deletion of
one cluster at a time). `ReqInv` has `Held` (past `lock` a request has all its
locks), `CreateOK`, `AddOK` (the cluster exists, the node is no member, the slot is
above all its members', the claim is its own from the claim on) and `DeleteOK`. The
three properties are not inductive, because they say nothing of what a request that
is about to write has read. Lemma `Alone` is what the locks are for: two requests past
their locks have no node in common, and two additions no cluster. `Frame` and
`OthersKeep` carry over what a step does not touch, and there is one lemma for each
step that changes rows (`FormedInv`, `ClaimsInv`, `JoinedInv`, `ReleasedInv`,
`DissolvedInv`, `RemoveInv`). TLC checked `IInv` on the instance of `cn_core` before it was
proved, as it did `DeliveryInv` of `ModelDistributionProofs` and `DeliverInv` of
`ImageTransferProofs` (with prune, two transfers, nodes and builds, 1.8 million states) and
`Unfinished` (on the instance of `it_core`).

The inductive invariants were given to TLC as invariants of a run before they were
proved. Several of the assumptions, and the scenarios of section 12 that go with them,
come from the proofs: those of `OrphanInv`, `SoleInv`, `PairInv` and `PullInv` stopped at
a step that turned out to be possible and to break the property.

A scene's property is the theorem's for one scene of the run (`scene = "restart" =>
PinnedTargetKept`), which is why the table gives both names.

Only model-checked: liveness (`DownloadsEnd`, `PublishingEnds`, `Settles`, `Returns`,
`Recovers`, `Shown`, `StatusFollows`), and `LogSegments` with `ScreenIsTerminal`. Liveness under fairness and
`ENABLED` are out of the prover's reach, as is induction over data: what the recursive
functions of `LogSegments` compute for every input could not be proved. No module
declares a recursive operator.

## 12. Disagreements between the code and what it says

One has a run of its own and is listed under `findings`: a progress line that follows
another one takes its place on the page, although the first had ended
(`ls_v_chain`). The following were met with the same modules, by adding
operations, requests or slots to a run; those about names in parentheses violate that
property.

ModelDownload
* `cancel` frees the repository at once while its thread still writes, so a new
  job is admitted next to it (`OneWriter` with cancel; `docs/model-transfer.md:25`).
* Admission is checked, `repo_total_size` is awaited, and only then is the row
  inserted: two requests pass (`OneWriter` with two requests).
* The `finally` of the thread leaves the two registries in two steps; a resume in
  between reuses the event that is then removed, and the next pause does not
  reach the thread.
* `resume_download` does not read the row again after its join: a job paused or
  cancelled meanwhile gets a thread.
* `resume_download` starts nothing when its join times out, and nobody else does.
* The watchdog of a settings restart waits for the old thread and then compares
  the registry with it (`model_manager.py:1073`), but the thread's own `finally`
  has emptied the entry by then: the restart that the docstring at 1055 promises
  does not happen, and the job is left `downloading` with no thread
  (`NoOrphanDownload`).
* A pinned job that is paused and resumed downloads the branch: the call at
  `model_manager.py:944` does not pass the commit (`PinnedTargetKept`).
* `retry_download_job` decides by the local branch whether a thread is needed; a
  forced or pinned job whose commit is missing stays without one.
* `restart_downloads_with_new_settings` checks and starts on a worker thread: a
  resume that waited for the same thread starts a second one.
* The monitor completes a job that was cancelled during its last await
  (`model_manager.py:1577`), or whose files were pruned during it.
* A request that waits for `resolve_revision_sha` while another job completes and
  the branch moves gets a target that nobody fetches: whether a thread is needed is
  decided by the local branch, which is complete by then
  (`model_manager.py:1476-1491`), although the comment at 1514 has every incomplete
  target start one (`NoOrphanDownload` with two jobs; `md_core` has one). Without a
  moving branch it takes a crash before the link of the snapshot and a forced refresh
  that the hub does not answer.
* A retry of a pinned job is admitted because main is complete, next to another
  download; and after a crash `resume_download_monitors` starts the threads of all
  active jobs without admission (`OneWriter` with retry, pin and crash).
* `_local_cache_ready` looks at main only. A job whose pinned commit is complete
  makes requests for main resolve to it, and the monitor completes such a job while
  its thread still works: a third job is admitted next to it (`OneWriter` with pin
  or crash and three jobs).

TaskLifecycle
* A stopped task, or one in error, has given up its nodes, but its rows stay, and
  `start` checks only its own status: it runs on nodes another task has taken since
  (`NodeExclusive` with start).
* A stop that fails on one node is reported as stopped, as the code intends for a
  partial failure; the container keeps running.
* `restart` leaves the status unwritten (running to running), so an exit the
  monitor or an event saw during it ends the task although its containers run.
* A stop during the deployment can leave a running container behind, which the
  comment at `tasks.py:481` says is prevented: the stop writes its status after its
  calls, so a container that comes up after the stop's call to its node and before
  that write passes the check at 483.
* Delete, or pause followed by resume, during a `compose_up` leaves a container
  without a task, or a running task with missing nodes.
* `resume` writes running over the error of a rollback, and a monitor's stale
  probe ends a task that an action then revives: with pause and resume,
  `NodeExclusive` fails.
* A crash before the head's container is recorded leaves the task published for
  ever; a crash after a failed worker lets the health check make it running.

ModelDistribution
* A pause and a resume while files are being sent: the old coroutine skips what was
  left when it saw the pause, finds the row in `sending` again at the end and writes
  `syncing`; the job is completed although its head lacks files
  (`DeliveredWhenCompleted` with two files, pause and resume).
* Two requests pass admission before either inserts its row
  (`model_manager.py:1500`), and so do a request and a retry that comes between its
  check and its insertion; a coroutine of a cancelled job writes `sending` or `syncing` over
  `cancelled` after the nodes have been given to another job. Each breaks
  `NodesNotShared`.
* Two coroutines of a job may be alive after a resume; one writes `completed`,
  the other `sending` after it.
* `wait_until_stopped` is meant to keep two fetch jobs off the same `.part` files
  (docstring at 1328), but the id is recorded only after the agent has started
  the job: a crash, a pause with resume, or a lost answer in between leaves a
  fetch job nobody knows of.
* A retry trusts an entry that says `completed` (1678) although the worker's cache
  may have been deleted since.
* The result `paused` of an old coroutine overwrites the entry that a new one has
  written for its own fetch job.
* The phase of a paused job is only in memory; after a restart of the backend a
  resume starts from `downloading`.
* `manual_sync` asks for no admission and may write to a node of an active job.

ClusterNetwork
* `delete_cluster` takes no lock. During an addition it leaves a member row of a
  cluster that is gone; the cleanup works through a list of members that may have
  changed (every property about rows, without `"apart"`).
* A script that exceeds its timeout raises without the restore the script itself
  does on failure, and the node is not in the list that is rolled back:
  `docs/networking.md` has every failed step restored on the node
  (`FailureLeavesNothing` with `hang`).
* A rollback that fails is logged and nothing else (`rollbackFails`).
* The unique index on the network compares text: networks that overlap with another
  prefix length pass it when two creations of disjoint nodes run at a time.
* `.fw-bak` keeps the first version only, and a removed node keeps its file: a later
  rollback restores what was declared before Fireworks ever wrote, not what the
  user has changed since.

ImageTransfer
* `_monitor_transfer` writes `sending` after the capability calls without reading
  the row again: a pause, a cancel or a failure meanwhile is overwritten.
* The first loop returns on failed, cancelled and paused, not on completed: with two
  monitors after a resume, the second sends a completed transfer again.
* `cancel` only sets the status; the thread goes on to write the archive (728 against
  606-608 of `image_manager.py`, `docs/image-transfer.md`), so the next transfer's
  thread packs next to it (`OnePuller` without `calm`); so does a forced one that is
  admitted while a thread has not looked at the archive yet.
* A docker load of a cancelled transfer is still in flight when a newer build is
  loaded, and may finish last (`DeliveredWhenCompleted`).
* The tag goes back to an earlier build: the `.loaded-<digest>` mark of then and any
  image under the tag make `image_load` skip it (`DeliveredWhenCompleted` with
  `back`). The sidecar's digest of then also makes a thread trust an archive that
  another transfer is about to replace (`OnePuller` with `back`).
* Deleting the local archive while a transfer waits for it leaves its monitor polling
  for ever (`Settles` without `tidy`).
* The sidecar gets the registry digest that was inspected when the transfer was
  created, although the tag may have moved before the pull.
* An id that SQLite gives out again meets the threads and coroutines of its former
  owner (`reuse`).

ResumableDownload
* `_registry_blob_file` hashes the bytes it receives, not the file it renames: a
  second pull of the same layer in the shared `.blobs` directory can mark a layer with
  a hole (`image_manager.py:259`; `MarkedIsRight` with `layers`).
* Overlapping calls of the agent may return ok while the target is the file another
  call still writes to. If the source sends that other call wrong content between the
  comparison and the mark (`agent/main.py:2163-2173` appends what comes), the mark is wrong,
  and a target that is wrong and validly marked is not read again. `MarkedIsRight` and
  `Recovers` exclude just this (`mixed`), `RightWhenDone` is about calls nobody overlapped.
* Three overlapping calls for an archive can mark a wrong file: the second renames
  what the first goes on writing to, and the third marks it (`MarkedIsRight` with
  three callers).
* A layer's 4xx or 5xx drops its `.part`, a shared file's silently short body does
  too: the resumption starts from nothing.

AgentChannel
* A page whose queue is full is to be told of the gap by a `dropped_frames` message
  (comment 慢消费者可感知数据缺口), which is put into the same full queue and dropped.
* `subscribe_log` promises no duplicated lines; a page that is refreshed while lines
  wait in its queue shows them and the replay (`ViewFaithful` with `hurry`).
* The agent's send queue drops its oldest message when it is full, and nobody is told:
  a page then shows a gap, never comes to show the last line, or, if it was `log_end`,
  waits for a stream that is over while the container stays wanted. The operations are
  in the model; `ViewFaithful`, `StreamsAsWanted` and `Shown` state the exception.
* The reconnect iterates over a snapshot of `_agent_log_subs`: a container that is
  unsubscribed meanwhile is subscribed again, and nobody unsubscribes it.
* `log_end` carries no generation to the page.

LogSegments
* CR and LF that arrive in two reads end the line twice: the flag of what follows is
  wrong (`ScreenIsTerminal` with `Torn`).
* What is left at the end of the stream is sent without the update flag, so the last
  state of a progress line is a line of its own.

## 13. What is not modelled

Components without a module are listed with their reasons in `PROJECT.json`.
Recipe rendering, schemas and the frontend's views hold no state that could be
interleaved (what a page does with log lines is in `AgentChannel` and `LogSegments`);
the agent client is a thin HTTP layer whose answers are the environment of the modules
that use it; deployment scripts run outside the system. In the modelled components,
metrics, health values, port and image names, rails beyond one address, MTU and speed
tests, and the agent's measurements are left out. The rest is in the plan above.
