# vLLM-Dashboard in TLA+

vLLM-Dashboard is a FastAPI backend (`src/backend`) and a React frontend
(`src/frontend`) that manage vLLM on one GPU server over SSH: they scan, start,
stop, watch, benchmark and delete models, install drivers, CUDA and vLLM, and
show consoles and hardware. The backend is one asyncio event loop, a pool of
threads for blocking SSH calls, a few threads of its own, and memory that a JSON
file outlives. The hard part of the program is not any single handler but what
their interleaving does: nearly every decision is read from state, followed by an
`await` on the remote server, and then written. This directory models that part,
checks it with TLC and proves its main invariants with TLAPS.

## 1. Inventory

| Component | State it keeps | Operations | Hard behaviour | What makes it correct |
|---|---|---|---|---|
| Model state machine (`controller/state_machine.py`) | `models` (status, lock, `loading_since`), `current_model_id`, dirty flag, debounce and retry timers | status updates, lock, current model, reload, debounced save | timers cancelled as they fire, failed writes, a crash inside a save | no torn file, no change unsaved for good, current model is up |
| Start and stop (`service/model_lifecycle.py`, `model_service.py`) | `_start_lock`, `_stopping_models`, probe tasks | start, 10 s start probe, stop, deployment stop window | the stop flag has two writers; guard, SSH check and mark are apart | one start at a time, flags never leak, stops are not crashes |
| Status sync (`service/model_status_sync.py`) | none of its own | one sync, run by `GET /models`, `POST /models/sync`, the watchdog tick | three callers overlap; answers arrive late | statuses follow the server, no crash is invented |
| Lock watchdog (`service/model_watchdog.py`) | `_crash_events`, `_suspended`, `_restart_tasks`, `_inflight` | crash event, delayed restart, 30 s tick, replay at start-up | three runners of one attempt, cancellation inside it | crashes answered, flapping bounded, manual stops final |
| vLLM process control (`executor/remote/process_ops.py`) | the remote processes | stop, presence, health | port open with a dead engine, partial answers | a zombie is removed, unknown is not taken for no |
| Deployment tasks (`service/deployment_*.py`) | `_tasks`, cancel events, history, task file | start, cancel, supersede, complete, recover | check-then-claim, long remote jobs that outlive the dashboard | one task per domain, every claim owned, jobs follow tasks |
| Reattach (`deployment_reattach.py`) | one thread | probe, watch and record surviving jobs | revives tasks that others think are gone | as above, across restarts |
| SSH pool (`executor/remote/ssh.py`, `remote_executor.py`) | clients, reference counts, per-key locks | get, release, evict, one retry | clients are shared and replaced while in use | counts exact, nothing leaks, used clients stay open |
| Console sessions (`console/session_manager.py`) | session table, sentinels, attach counts, output buffer | get_or_create, attach, detach, read | single flight, capacity, dead shells | a table that never loses or kills a used session |
| Probe thread and lights (`ssh_probe.py`, `net_probe.py`) | one cache with its fingerprint, thread, stop event; a strike counter per address | loop, restart of a stale thread, probe on demand, ping per request | threads overlap across restarts and edits, requests share the counter | answers are about a configuration in force, a dead machine turns red |
| Configuration (`config/remote_client.py`, `connection_probes.py`) | the configuration, its file, the cached vLLM version | merge, save, load, check | failed saves, a crash in a save, a broken file, edits under checks | what was saved is neither lost nor half applied |
| Launch files (`config/model_launch_config.py`) | one file per model | save, load, delete, migration | two ids of one file name, loads without the lock | every model finds its own configuration |
| Access log (`service/vllm_access_log.py`) | entries, offset, line buffer, session start | 5 s poll, session mark, restore | the log grows, rotates and is marked between a poll's answer and its effect | the figures are the running session's |
| Downloads (`service/model_download*.py`, `remote/model_ops.py`) | growth record, shared status burst | start, stop, status | processes that outlive the dashboard and are found by grep, one burst for many tabs | "stalled" means quiet, no tab waits for ever |
| Catalog and benchmark (`model_catalog.py`, `model_benchmark.py`) | the table of models, results | scan, delete, benchmark | a scan in a thread beside deletes on the loop | no entry without files |
| Power (`remote/power_ops.py`) | none | power on with confirmation, off | a machine that is shutting down still answers | "on" means on and staying on |
| Driver installation (`deployment_entry.py`, `deployment_pipelines_env.py`) | the driver snapshot | purge, install, heal, reconcile | a failure in the middle leaves no driver | what was purged is what is put back |
| Hardware feed (`ws/hardware_broadcaster.py`) | subscribers, poll task | subscribe, poll, send, keepalive | peers that die silently, a cycle that raises | every live subscriber is fed |
| Deployment tool (`tools/server_deploy.py`) | lock file, archive, container | pack, build, replace, gate, roll back | broken connections at each step | the report is true of the container |
| HTTP layer, chat proxy, version caches, monitoring, frontend | request state only | routing, parsing, views | none shared | not modelled, section 10 |

How they interact. The HTTP handlers and the watchdog call start and stop; start
and stop, the sync and the deployment window write the state machine and call the
watchdog's `on_model_crash` and `_clear`; the sync and the watchdog read the AI
server through HTTP probes and through the executor, which takes clients from the
SSH pool; the browser (or the watchdog itself) types the start command into a
console session; every state change arms the state store's timer; a deployment
pipeline opens the stop window around its work.

## 2. Modules

Components that share state are composed by sharing variables (the chain below,
`Deployment`, `StatusBursts` under `Downloads`' atomic queries). Components that do
not are put beside each other in one specification, of which a behaviour moves a
single part: that asks each question once and multiplies no state spaces.

Model control, one chain of `EXTENDS` so that each layer adds its variables and
actions to the ones below:

| Module | Code | State and actions |
|---|---|---|
| `ModelState` | state machine in memory | `status`, `locked`, `current`, `age` (what the sync reads from `loading_since`: below 120 s, past the grace, past the 30 min cap); `Update`, `SetCurrent`, `ClearCurrent`, `SetLocked`, `Reload` |
| `VllmHost` | the AI server (external) and the probes of it | `served`, `phase` (off, loading, serving, zombie), `trouble`; what a list, presence or health call may answer, `Kill`, `Launch`, death of engine or process |
| `RestartPolicy` | bookkeeping of the watchdog | `pend`, `real`, `suspended`, `task`, `stray`, `apc`, `runner`, `startLock`; `RecordCrash` (`on_model_crash`), `ClearEnding` (`_clear`), `Replay`, `Expire` |
| `ModelStop` | `stop_model`, deployment window | `stopping`, `stop`, `window`, `affected`; one action between two awaits of a stop |
| `StatusSync` | `_sync_status_once` | `sync`: list answered, arrives, second probe answered, loop applied |
| `ModelStart` | `start_model`, `_verify_start_probe` | `typed`, `probe`; the lock is held from `UserStart` to `UserStarted` |
| `Watchdog` | attempt, delayed task, tick | `tick`, `todo`; an attempt step by step under its three runners |
| `ModelControl` | the event loop | the user's operations (`Ops`), `Next`, fairness, the properties |
| `ModelHistory` | as above | two history variables for properties of whole runs: `launches`, `quiet` |

One action is the code between two awaits. The event loop runs one callback at a
time; `LoopFree` says that between the end of its sync and its next await the tick
has the loop to itself, so that only threads (lock, window) and the outside world
move. A remote call is two steps when the order matters: the server answers
(`SyncList`, `SyncAsk`), and later the answer is acted on (`SyncRead`, `SyncApply`).
Everything a stale answer can do is in that gap.

The others:

| Module | Code | State and actions |
|---|---|---|
| `DurableState` | what the state machine promises | `memory`, `file`, `unsaved`: change, save, lose what is unsaved, end in order |
| `StateStore` | `_schedule_save`, `_flush_state`, `_load_state` | `mem`, `disk`, `tmp`, `dirty`, timers armed or fired, `writer`; a crash is possible in every step of a write. Implements `DurableState` |
| `StatusBursts` | `get_download_status` | the burst's owner, each request's step and the event it waits for, the lock held across a wait |
| `HardwareBroadcaster` | `hardware_broadcaster.py` | subscribers, poll loop, sends in flight, handlers, sockets whose peer died |
| `Services` | | the three above, for the promises that something happens |
| `TaskLife` | what the task manager promises | `status`, `kind`, `revived`: claim, start, await, complete, supersede, end, interrupt, revive |
| `DeployTasks` | entry points, task manager, worker thread, long steps | status, kind, thread, remote job, job files, history of each task; requests in their own threads |
| `Deployment` | reattach, reboot, reconciliation, restart | adds `recon`, `active`, `attach`; composes `DeployTasks` with the dashboard's restarts. Implements `TaskLife` |
| `DriverInstall` | driver pipeline, entry point, snapshot, reconcile | installed driver, snapshot, requests and one task between purge, install and self-heal |
| `PowerOps` | `power_on_server` and the power endpoints | machine (on, falling, network), BMC, the loop with its rounds and confirm window |
| `Downloads` | start, status and stop of a download | processes and pid file on the server, log, bytes, the growth record, the last verdict |
| `Catalog` | scan, delete, benchmark | files on the server, table, results; each scan step by step |
| `LaunchFiles` | launch configuration files | primary and own path of each id, delete between its two files, loads without a lock |
| `AccessLog` | poller and session mark | log file, offset, line buffer, skip flag, session file, a poll between its answer and its effect |
| `DeployTool` | `server_deploy.py` | lock, archive, container, each run with its connection and report |
| `ServerChanges` | | the eight above, one part a behaviour |
| `SshPool` | `SSHConnectionPool` under `_open_and_exec` | `pool`, `aged`, `refs`, `lock`, `conn`, and where each command is |
| `ConsoleSessions` | `ConsoleSessionManager`, `websocket_console` | `slot`, `shell`, `attached`, and where each WebSocket is |
| `SshProbe` | probe thread, `get_ssh_status` | cache and its fingerprint, stop event, every thread ever started, rounds in flight, requests |
| `HeaderLights` | `net_probe.py` under both lights | the strike counter, each request's ping, what was answered since the machine died |
| `ConfigStore` | `ConfigManager`, `probe_ssh_all`'s version cache | configuration, file, the merge that holds the lock, checks under way |
| `RemoteAccess` | | the five above, one part a behaviour |

`MCChanges` and `MCRemote` instantiate them for TLC where a run needs symmetry or
structured constants; `ModelControl`, `ModelHistory`, `Services` and `Deployment`
(the deployment tasks alone, for their liveness and the disagreements) are run as
they are. The proofs are beside the modules they are about: `ModelControlProofs`
(the chain), `StateStoreProofs` (and `Services`), `DeploymentProofs`,
`PowerOpsProofs` and with them `ServerChangesProofs`, `SshPoolProofs`,
`HeaderLightsProofs` and with them `RemoteAccessProofs`. Operators marked "Mutant"
are the plausible bugs, many of them from the incidents the code's comments tell,
that every property was shown to detect.

The refinements. `StateStore` implements `DurableState` under the mapping `memory`
is the models in memory, `file` is the file, `unsaved` is the dirty flag or a write
under way (the thread takes the flag down before the file is replaced): `Durable ==
INSTANCE DurableState WITH ...`. Timers, the .tmp file, the lock and retries map to
stutters; `os.replace` is `Save`, the exit handler `Shutdown`. `ImplementsDurable`
is `Durable!Live`: no file is torn or mixed, a restart comes back to the file, and
an unsaved change does not stay unsaved. `Deployment` implements `TaskLife` with
statuses and kinds as they are and `revived` the task the reattach thread watches
(`Life == INSTANCE TaskLife WITH ...`, `FollowsLife`): requests, threads, polls,
jobs, events and history entries map to stutters. `TaskLife` says which status may
follow which and when a task is admitted; that rivals are never in flight together
and that an ended task stays ended follow from it.

## 3. Modelling decisions

- `trouble`, `failures`, `links`, `shells` bound how many failures a run may meet;
  which call fails, and whether it took effect, is free. `MaxOps`, `MaxTasks`,
  `MaxChanges`, `MaxRestarts` bound the user. `MaxStray` bounds superseded restart
  tasks that are tracked: one more would behave as one of those.
- Time is order. The 10 s delay, the 30 s tick and polls may come at any moment;
  `Wait` moves a LOADING model past 120 s and 30 min; `Ages` moves an SSH client
  past its 30 s of idleness; `Expire` takes one crash out of the 600 s window.
- One vLLM process at a time: it owns port 8000 and the GPUs, and a second launch
  ends in the port conflict. So a kill by path and a kill of all are the same.
  The deployment window's SIGTERM is modelled as `Kill`.
- `begin_deployment_stop_window` runs model by model on a worker thread; here it
  is one step. Persistence of tasks is synchronous in the code and atomic here.
- Two tasks created within one second compare equal by `created_at`; the model
  orders tasks by creation. In `DeployTasks` self-heal is part of a step that may
  fail; `DriverInstall` models it. Pruning to 50 tasks is left out.
- `Downloads` computes a status in one action: queries of one log file exclude
  each other, which `BurstShared` shows for `StatusBursts`.
- `AccessLog`: a line of the log is the number of the session that wrote it and an
  offset counts lines. A chunk may end inside a line; a restart of vLLM may rotate
  the file or go on in it.
- `PowerOps` counts time in the 1.5 s between two reads of the confirm window. It
  assumes what the code's comment says, that a clean shutdown is shorter than the
  window (`ShutdownIsShort`); nothing else is assumed of the machine.
- `HeaderLights`: the service layer (the probe's cache, ipmitool) is a free input,
  lies included; the strike counter is counted to one past the threshold.
- `ConfigStore`: a version is the server it was read from, `os.replace` is atomic,
  and `Damage` is somebody else's edit of the file.
- `HardwareBroadcaster`: a dead peer's socket takes `Buffer` frames and then blocks
  until the 3 s of the send are over; any send may be too slow.
- A section under `threading.Lock` is one step. The reader thread of a console may
  mark its session dead in the few instructions between purge and lookup; that
  window is not modelled.
- `_evict_oldest_idle` and `_evict_one_locked` take the first candidate in an
  order; the models take any.
- Sets, not strings: names of models, task ids and hosts are model values.

## 4. Runs

| Run | Question | Bounds | States |
|---|---|---|---|
| `control` | do lock, attempts and stop flags always have an owner; is a deliberate stop ever a crash | 1 locked serving model, 2 operations of all seven kinds, 1 failure, breaker 3 | 0.77 M |
| `control_pair` | does `current_model_id` follow the models | 2 models, cold start, 3 starts and stops, tick and status sync, 1 failure | 0.63 M |
| `control_live` | does every model, lock, zombie and crash come to an end | 1 model, 1 operation of four kinds, 1 failure, fairness | 42 k |
| `history` | is flapping bounded by the breaker | 1 model, 4 failures in a row, 1 start or dashboard restart | 1.2 M |
| `store` | is a change ever lost or torn; is every status request answered and every live subscriber fed | 1 model, 3 timers, 2 changes, 2 failed writes, crash or exit at any step; 3 requests of one burst; 2 subscribers, 1 failed cycle; fairness | 20 k |
| `deploy` | are claims exclusive and owned, do jobs follow tasks; is what the dashboard says of drivers, models, downloads, power, configurations, the log and its own container true | driver and reboot, 2 tasks of 2 clients, 1 failure, 1 restart, 1 reconciliation; 2 drivers and 2 requests; 3 download requests of 2 names, one a part of the other; 2 models; 2 ids of one file name, 3 saves; 2 deployments of 3 versions, 2 failures; 2 faults of the BMC, 4 actions; 2 sessions, 3 lines, 2 rotations; clients and models interchangeable | 0.62 M |
| `deploy_live` | does every task end, a reboot among them | vLLM pipeline and reboot, 2 tasks, 1 failure, 1 restart, fairness | 93 k |
| `remote` | are connections and sessions counted, kept and closed rightly; are the lights and the configuration what they say | 3 commands on 2 hosts in a pool of 1, 3 consoles of 3 accounts in a table of 2, 1 failure each; 2 requests, 2 threads, 1 edit; 3 pings, 2 outages, 2 strikes; 3 merges, 2 checks, 2 troubles; workers, sockets and requests interchangeable | 0.73 M |
| `manual_stop`, `domains`, `reboot_hits`, `long_command` | the disagreements of section 6 | smallest that show them | |

Why the bounds are enough. The hazards are races of two or three actors over one
object: two users, two syncs, a task and the tick, a timer and a retry, two
requests and the reattach thread. Each run has one actor more than the race it is
for needs, or an operation more: two operations reach stop during start, start
after stop, window over stop; three crashes reach the breaker and the fourth
failure passes it; three timers are the debounce timer, a fired one and a retry; three
commands are a holder, a replacer and one on another host over a full pool; three
consoles are one creating, one attached, one in want of room. `control_pair`
needs the second model because `current_model_id` is the only state two models
share; the sync's "status" caller is in that run because only it writes the
current model. Deadlock is not checked where the system may stop: users and
failures are bounded and a quiescent dashboard is a correct one.
`store` never stops and is checked for it. Symmetry is used only where no action
chooses among the values and the run checks no liveness.

Two outages are one and the next one while answers of the first are on their way;
three pings are two in flight across the outage and one more. Two probe threads are
a wedged one and its replacement, one edit gives answers a former server. Two
competing merges, one of which fails, and a crash need three merges and two
troubles. Two driver requests are the overlap the snapshot suffers from. A
configuration needs three saves to be saved, displaced and saved again. Three lines
are two of the older session, one of which a poll has not seen at the mark, and one
of the newer; two rotations are one of vLLM and one noticed late.

What they show, beyond types:

- `StartLockOwned`, `AttemptsOwned`: registered task, attempt and lock agree
  through every cancellation, supersession and dashboard restart.
- `FlagNeverLeaks`, `NoCrashWhileStopping`: stop flags go down on every path,
  and no observer of the dead process counts a crash while they are up.
- `CurrentIsLive`, `CurrentNotLost`: both directions of `clear_current_model`.
- `LoadingResolves`, `StartLockReleased`, `ZombieRemoved`, `CrashAnswered`.
- `FlapBound`, `BreakerHolds`: inside one window the watchdog launches a model
  at most `BREAKER_MAX_CRASHES` times without its coming up. A restart of the
  dashboard erases the history, and counting starts again with it: the bound says
  nothing across restarts, and neither does the code.
- `DirtyIsScheduled` (while memory is dirty a timer, a retry or a write will come)
  and `ImplementsDurable`, section 2. `CleanIsSaved` and `FileIsWhole` are proved.
- `BurstShared`: one burst per log file, and whom its event wakes finds its result.
  `StatusAnswered`: no request waits for ever. `SubscribersServed`: whoever is
  registered is sent to or leaves, and a peer that died silently is forgotten.
- `ClaimsHeld`: no two tasks in flight share a domain, and each has a request that
  will submit it, a thread or a watcher. `JobsFollowTasks`, `TasksEnd`.
  `FollowsLife`: although the worker, cancellation, supersession, completion, recovery
  and the reattach thread all write a task's status, it only moves along its life.
- `HealsPurged`: a failed installation puts back the driver its own task purged.
- `NoGhosts`: once scans and deletes are over an entry has files and a result an entry.
- `StalledIsQuiet`: a live download is called stalled only when no byte came for long.
- `ConfigsFound`: a load gets a configuration that was the model's while it ran, and
  while a model that serves says where vLLM listens, `resolve_launch_api` answers what
  such a model says, never what the file of a stopped one does.
- `SessionExact`: the access log's figures count no line of an older session.
- `ConfirmedIsOn`: power-on confirmed by the BMC stays on, although a machine that is
  shutting down also says "on".
- `ReportIsTrue`: after "ok" the run's own image serves, after "rolled back" the one
  it found, and a run without a fault of its surroundings leaves no dark port.
- `NoConnectionLeaks`, `EvictionSparesUsed`; `SessionsOwned` (one creation per
  account behind its sentinel, no session outside the table and its creator's
  hands), `AttachedSurvive`, and the table's capacity in `RemoteTypeOK`.
- `ProberAlive`: a stop meant for a wedged thread never reaches its successor.
  `AnswersForConfig`: an answer is about a configuration in force during the request.
- `GreenIsBounded`: of the requests sent since the machine died few are told
  "connected", although all share one counter and the probe's cache may lie.
- `ConfigKept`: outside a merge, memory and file are exactly the merges that were
  saved, and the cached version is the configured server's.

What they except. `ClaimsHeld` excepts tasks the reattach thread revived and does
not speak of reboot tasks; `JobsFollowTasks` is stated while SSH works (a failed
kill is suppressed by the code); `HealsPurged` excepts overlapping requests;
`NoGhosts` a last look that failed or found the model up, and benchmarks that
outlived their model; `StalledIsQuiet` a size that could not be read, and a stale pid
file whose place grep fills with another repository's process; `SessionExact` a
mark that raced; `ReportIsTrue` lost calls, a stuck removal and a killed run, in
its last part; `ConfirmedIsOn` another power action in between; `ConfigKept` a
version read while an edit was committed. Sections 6 and 7 say what happens then.

## 5. Fairness

Safety runs use `Spec`, without fairness. The liveness runs use `FairSpec`:

- callbacks ready on the event loop run: strong fairness where `LoopFree` or
  `startLock` disables them now and then (asyncio's ready queue and lock are FIFO);
- each SSH and HTTP call has a timeout, so it answers, if only "unknown";
- the tick comes every 30 s, timers fire, vLLM finishes loading or dies, time
  passes, the browser types the command it was given;
- a thread that waits for a lock gets it (strong fairness of the flushes in
  `StateStore`), worker threads and the reattach thread go on, a long step is over
  by its deadline;
- in `StatusBursts` each request goes on: its SSH commands and its 30 s of waiting
  end, and who keeps asking for the lock gets it (strong fairness of
  `Unlocked \/ Locking`; the lock is held only for bounded waits);
- in `HardwareBroadcaster` every wait is timed: the probe and the pause (`Polling`),
  the 3 s of a send, the silence after which a handler nudges its peer.

Where one actor's steps exclude each other (a tick begins or runs; a request holds
the lock or wants it) the fairness is of their disjunction: the actor is never at
two of them, so this is what fairness of each would say while it waits at one.

Users, polls, failures, cancellations and restarts are owed nothing.

## 6. Disagreements that are runs

- `manual_stop` (`ManualStopIsFinal`): a list of served models answered before a
  manual stop and applied after it makes the model RUNNING again; the next sync
  finds no process, no stop flag is up, a crash is recorded, and the watchdog
  relaunches a model the user stopped. `model_watchdog.py:5` says it is not.
- `domains` (`DomainsExclusive`): a task interrupted by a dashboard restart does
  not count as in flight; a new task of its domain is admitted, and the reattach
  thread then sets the old one running beside it.
- `reboot_hits` (`RebootSparesJobs`): a pipeline is not refused while a reboot
  task is queued or running; the reboot kills its remote job.
- `long_command` (`GetSparesRunning`): the pool measures idleness from the last
  acquisition or release; a command that runs for more than 30 s with no other
  command in between loses its client to the next one.

## 7. Further disagreements

Each formula is in its module under "what the comments promise". The
configurations kept beside them show the counterexamples, those of one file
together: `tlc -continue -config X.cfg M`.

| Formula | Configuration, module | What happens |
|---|---|---|
| `FlagCoversStop` | `SyncFaults.cfg`, `ModelControl` | stop and deployment window share one flag; the first to end takes it down under the other |
| `CrashesAreFailures` | `SyncFaults.cfg`, `ModelControl` | two overlapping syncs count one death twice towards the breaker |
| `StartIsAtomic` | `SyncFaults.cfg`, `ModelControl` | a sync makes the model RUNNING between the guard and the LOADING mark of a start |
| `ProbeSparesStopped` | `StartFaults.cfg`, `ModelControl` | a stop that ends while the start probe awaits its second answer is counted as a failed start |
| `LoadingCrashOnEvidence` | `StartFaults.cfg`, `ModelControl` | past the 120 s grace a presence probe that could not answer is taken for "no process" |
| `StopCancelsAttempts` | `StopCancels.cfg`, `ModelHistory` | a stop cancels the registered restart task only, not a superseded one, nor the tick's attempt |
| `HistoryOnce` | `DriverFaults.cfg`, `Deployment` | worker and completion both push the task's history entry |
| `SupersededByNewer` | `DriverFaults.cfg`, `Deployment` | the awaiting driver task is failed before the request that replaces it is validated, and refused |
| `SentinelHasCreator` | `RemoteFaults.cfg`, `MCRemote` | `invoke_shell` raises, the sentinel stays, and every later console of the account waits 20 s for nobody |
| `HandedOutSurvive` | `RemoteFaults.cfg`, `MCRemote` | a session handed out and not yet attached is evicted |
| `VersionFitsServer` | `RemoteFaults.cfg`, `MCRemote` | an SSH check under way across an edit caches the former server's version after the edit forgot it |

Met while modelling, in the models' behaviours or just outside them, without a
configuration of their own:

- Downloads. A follower that lost the race for the claim waits up to 30 s holding
  `_dl_status_lock` and then returns the previous result
  (`model_download_status.py:113`), though the comment above says no stale snapshot is
  returned. Check and launch are two shells (`model_ops.py:128`), so two requests may
  start two downloads. `grep -F` finds repositories whose names contain the
  asked one, and stop kills them too. A size that cannot be read counts as 0 bytes.
- Access log. A session mark that arrives inside a poll is overwritten by the poll's
  effect; a dashboard that restarts before the next poll loses it; the last line is
  held back until another one follows.
- Probe thread. Replacing a wedged thread leaves two that loop, of which the late
  one overwrites newer results. Two pings of one hiccup
  are two strikes, although one failed ping "never means down". Probes read the
  configuration without its lock and may see a candidate that is rolled back.
- Power. Without a BMC, power-on during a shutdown succeeds because the network still
  answers. A soft power-off marks the models STOPPED at once while vLLM serves on;
  the sync undoes it or, later, counts a crash. Neither power-off nor the
  catalog's delete raises the stop flag.
- Driver. A request writes the snapshot before its claim is checked, so a refused
  request replaces what a heal would use; a reconciliation records the driver of a
  task that was superseded meanwhile. The toolkit check passes families other than 12
  and 13.
- Deployment tool. The rollback a broken connection is promised uses that
  connection, so the port stays dark. A stuck `docker rm` aborts with the old
  container stopped. The lock is per checkout, the archive's remote name is not.
- Launch files. A load during a delete may return the older file of the other path;
  files from before `_model_id` serve every id of their name.
- Catalog. A start in flight launches after the delete's wait is over; a benchmark in
  flight records a result for a model that is gone; the remote calls of a delete
  hold up the event loop.
- Hardware feed. A subscriber that is alive but once needs more than 3 s for a frame
  is dropped from the set while its handler stays: kept alive and never fed again.
- SSH pool. A channel that a live server refuses closes the client under the other
  commands that use it.
- A restart of the dashboard erases the watchdog's history.

## 8. Proofs

Eight modules hold the theorems PROJECT.json lists: every safety invariant and
action property a passing run checks is among them, for every set of models,
callers, probes, timers, hosts, workers, clients, sessions, requests, repositories,
configurations and runs and for every bound. Their only assumptions are the named
ASSUMEs of the modules: placeholders (`None`, `Nobody`, `Unset`, ...) are not values
they stand beside, bounds are naturals, there is a host and an account, the tick is
a caller, workers, sockets and accounts are finitely many, what builds and what is
healthy are versions, and a clean shutdown is over within the confirm window. The
one theorem with a hypothesis of its own is `FlappingBounded`, below. Each module's
invariants were checked by TLC on the runs before they were proved.

`ModelControlProofs` proves `TypeOK`, `StartLockOwned`, `AttemptsOwned`,
`BreakerHolds`, `FlagNeverLeaks`, `CurrentIsLive` and `NoCrashWhileStopping` from one
inductive invariant, `IInv`. `TypeOK` and the properties are not inductive by
themselves: that a stop never clears a foreign flag needs the request slots to be
empty exactly when they are off (`StopSlotsIdle`), that the flags and lock holders
survive a cancelled attempt needs task, attempt and runner to agree, that a probe
only judges models needs it to have one (`ProbesNamed`), and that `CurrentIsLive`
survives a reload needs ages to match LOADING. `IInv` is their conjunction, one
part per module, and each action is proved to keep each part it can disturb;
`RecordCrash`, `ClearEnding` and `Update` have lemmas of their own because most
actions are built from them. `NoCrashWhileStopping` is an action property: every
action that records a crash filters by the flag of the same state.

`StateStoreProofs` proves `TypeOK`, `DirtyIsScheduled`, `CleanIsSaved` and
`FileIsWhole`; the strengthening is that a .tmp file about to be renamed is the
memory (`TmpComplete`). From the same invariant `StoreIsDurable` proves the safety
half of the refinement: every step of the store is a step of `DurableState` or a
stutter, hence `Spec => Durable!Spec`. That unsaved changes are saved stays with
TLC.

`SshPoolProofs` proves `PoolTypeOK`, `RefsAreHolders`, `ConnectingAlone`,
`NoConnectionLeaks` and the action property `EvictionSparesUsed` from `PInv`. To the
properties it adds that a worker has a client exactly between connecting and
releasing (`HandsMatchPc`) and that a client belongs to one host (`OneKey`): without
them a release could drop another host's pool entry. Counting is kept apart in three
lemmas (`RefsSame`, `RefsGained`, `RefsLost`), one of which each action uses.
`EvictionSparesUsed` follows because a key whose count is zero has no holder, so by
`OneKey` its client is in nobody's hands.

`PowerOpsProofs` proves `PowerTypeOK` and `ConfirmedIsOn`. The strengthening is
`WindowOutlasts`: in the confirm window of an undisturbed power-on a machine that is
falling falls before the reads left are over, so the read that ends the window
sees the truth. This is where `ShutdownIsShort` is needed, and only there.

`HeaderLightsProofs` proves `GreenIsBounded` for every number of requests and every
threshold. A bound on `greens` is no invariant by itself: the strengthening counts
what each success recorded late has paid for, greens at most
`late * (DownStrikes - 1)` plus what the present streak has tolerated (`Paid`), with
the requests of before and since the outage told apart (`Outside`, `Inside`).

`DeploymentProofs` proves `TypeOK`, `ClaimsHeld`, `JobsFollowTasks` and
the refinement `FollowsLife` from `DeployInv`. A claim has an owner only if what each
thread may do next fits its task's status (`ThreadFits`), if a request that created
a task holds it alone until it submits it (`RequestsFit`), and if nobody else
touches the task the reattach thread watches (`AttachFits`). `JobFits` says who may
still end a job that runs while SSH has not failed, `PushesFit` how many history
entries may still come. The order of tasks enters once: the newest candidate of a
set exists (`NewestIn`, `FirstFree`, from the well-foundedness of the naturals). From
the same invariant `TasksFollowLife` proves that every step of `Deployment` is a step
of `TaskLife` or a stutter: that a thread never ends the task the reattach thread
watches needs `AttachFits`, that it starts no task twice needs `ThreadFits`.
`LifeKeepsPromises` proves of the abstract specification alone that rivals are never
in flight together, apart from a revived task, and that tasks of every kind end once.

`ServerChangesProofs` proves the property of every part of `ServerChanges`.

- Driver (`EnvInv`): a request that overlapped no other is alone from its listing to
  the end of its task (`AloneUnderWay`, `AloneInFlight`), so the snapshot is what it
  listed and what its task purged.
- Downloads (`DownloadInv`): process numbers are given out once (`PidsFresh`), so a
  growth that is old and was seen of the process that lives means a quiet download
  (`OldMeansQuiet`).
- Catalog (`CatInv`): an entry without files that nobody doubts is pursued, by the
  delete that took the files or by a scan (`GhostsPursued`).
- Launch files (`FileInv`): an id's own path holds no other id's file and a load
  alone would find what was saved last (`FilesKept`); a delete between its files took
  the first (`DeleteFits`); a load under way may still answer rightly (`LoadFits`).
- Access log (`LogInv`): whatever lies beyond the offset, in a chunk on its way and in
  the buffers is of the session shown or a later one (`NewBeyond`, `LinesFresh`,
  `PollFresh`), and a file shorter than the offset is new.
- Deployment tool (`ToolInv`): one run holds the lock (`LockExcludes`), and at each of
  its steps the tarball, the server's directory and the container are what it brought
  about (`Brought`), so what it reports is so (`Truthful`).

`RemoteAccessProofs` proves `ConfigKept` (`ConfigInv`: what memory holds, or will hold
again if the merge under way fails, is what was saved), `ProberAlive` and
`AnswersForConfig` (`ProbeInv`: the stop flag is up only under the lock of a restart,
and a request remembers the configurations in force since it began), and for the
consoles their types, `CapacityHeld`, `SessionsOwned` and the action property
`AttachedSurvive` (`ConsoleInv`: the count of a session is the number of its attached
sockets, a creation is alone per account and its sentinel stands until it is over).
The capacity is a cardinality, kept by lemmas for a slot gained and a slot given up.

`StateStoreProofs` also proves `BurstShared` (`BurstInv` adds that whoever follows was
registered with the burst its event belongs to) and the types of `Services`.
`ModelControlProofs` also proves the action property `CurrentNotLost`, of every action
apart (`Remembered`), and `FlapBound` (`FlappingBounded`) as long as no crash leaves
the 600 s window ("expire" is not among `Ops`): that is what "within one window"
means, and it is the hypothesis of the `history` run too. `FlapInv` says that every
launch is answered by a crash before the next one or the count starts again
(`CrashesAnswer`), that an attempt on its way may still launch although the breaker
trips meanwhile (`LaunchesLeft`: what tripped it was then a start by hand), and that
nobody else marks LOADING between the guard of a start and its mark
(`StartersSettled`). Every step but a launch is shown to be `Tame`.

The parts of `ServerChanges`, `RemoteAccess` and `Services` are put together by
`ChangesParts`, `PartsAlone` and `ServicesAlone`: a behaviour of the whole is one of
each part, so `ChangesSafe`, `RemoteSafe` and `ServicesSafe` state the parts' theorems
of the specifications the runs check.

What the attempts taught. `StalledIsQuiet` was false without the exception of the
stale pid file: a second download of another repository lets grep find a process the
growth record never saw grow; TLC refuted it once a run allowed four processes.
`resolve_launch_api` was modelled by a recursion over the candidates; it is now the
sequence of groups the code asks, so that its answer can be reasoned about.

Only model-checked: the liveness properties `LoadingResolves`, `StartLockReleased`,
`ZombieRemoved`, `CrashAnswered`, `StatusAnswered`, `SubscribersServed`, `TasksEnd` and
the liveness half of `ImplementsDurable` (TLAPS does not reason about fairness and
ENABLED here), and the disagreements of sections 6 and 7, which are counterexamples.

## 9. Plan

1. Done: model control, state store and its abstract specification, deployment
   tasks, SSH pool, consoles, probe thread and lights, configuration, launch files,
   access log, downloads, catalog and benchmark, power, driver, deployment tool,
   hardware feed.
2. Done: the proofs of every invariant and action property of the passing runs.
3. Extensions: scan, delete and power as operations of `ModelControl` instead of
   modules of their own, which would show the missing stop flags of section 7; two
   live jobs and the failed reattach probe in `Deployment`; `ConsoleBuffer` (readers
   of a buffer that is cut under them); the pending automatic benchmark; the version
   caches; tickets.
4. Abstract specifications: `DurableState` and `TaskLife` are stated and implemented;
   left are a lifecycle for `ModelControl` where only the user and crashes move a
   locked model, and a lending desk for `SshPool`.

## 10. Not modelled, and why

Shell texts and the parsers of their output; routing, authentication and request
logging; the chat proxy, which shares nothing; GPU and metric readings, pure
functions of two samples; React views (the one action of the browser that matters,
typing the start command, is `Type`); the version caches (a value, an expiry and a
lock held across one fetch) and single-use tickets (one pop under a lock), which are
sequential under their locks; the output buffer of a console; encryption and
validation of configuration fields. The session mark `start_model` hands to the
access log is `AccessLog`'s own launch; the pending flag it sets for the automatic
benchmark is left out. Threads of cancelled `to_thread` calls run on in Python; a
kill in flight when its stop is dropped by a dashboard restart is the `Kill` before
it.
