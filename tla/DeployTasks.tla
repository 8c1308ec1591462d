----------------------------- MODULE DeployTasks -----------------------------
(* Deployment tasks: the entry points of backend/service/deployment_entry.py, *)
(* DeploymentTaskManager and the worker thread of each task with its long    *)
(* remote steps (deployment_task_ctx.py).  What a pipeline installs is        *)
(* abstracted to how many long steps it has left.                            *)
EXTENDS Naturals, FiniteSets

CONSTANTS Kinds,       \* the kinds of task requested in this run
          Reqs,        \* concurrent start requests
          MaxTasks,    \* bound: tasks created in a run
          LongSteps,   \* long remote steps of a pipeline
          MaxTrouble   \* bound: failures of SSH and of remote steps

Pipelines == {"driver", "cuda", "vllm", "rollback_vllm"}

ASSUME KindsAssumption == Kinds \subseteq Pipelines \cup {"reboot"}
ASSUME DeployBounds == {MaxTasks, LongSteps, MaxTrouble} \subseteq Nat

Ids    == 1..MaxTasks     \* in the order of created_at
NoTask == 0

VARIABLES
  status,   \* Task.status, "none" before the task is created
  kind,     \* Task.kind
  pc,       \* the task's worker thread
  left,     \* long steps the pipeline has still to run
  event,    \* the tasks whose cancellation event is set
  files,    \* the tasks whose result holds job_files
  job,      \* the remote nohup job of the task's step: none, running, exited
            \* (exit file written), gone (no process, no exit file)
  pushed,   \* history entries written for the task
  req,      \* the start requests in flight
  trouble   \* failures still available

taskVars == <<status, kind, pc, left, event, files, job, pushed>>

Statuses == {"none", "queued", "running", "success", "failed", "cancelled",
             "awaiting_reboot", "interrupted"}
Pcs  == {"none", "ready", "step", "launched", "poll", "kill", "expire", "ran", "record"}
Jobs == {"none", "running", "exited", "gone"}
ReqIdle == [pc |-> "off", k |-> "reboot", t |-> NoTask]

TasksTypeOK ==
  /\ status \in [Ids -> Statuses]
  /\ kind \in [Ids -> Pipelines \cup {"reboot"}]
  /\ pc \in [Ids -> Pcs]
  /\ left \in [Ids -> 0..LongSteps]
  /\ event \subseteq Ids /\ files \subseteq Ids
  /\ job \in [Ids -> Jobs]
  /\ pushed \in [Ids -> 0..2]
  /\ req \in [Reqs -> [pc : {"off", "asked", "ready", "created"},
                       k : Pipelines \cup {"reboot"}, t : Ids \cup {NoTask}]]
  /\ trouble \in 0..MaxTrouble

Spend == trouble > 0 /\ trouble' = trouble - 1

Set(f, t, v) == [f EXCEPT ![t] = v]

(* inflight_task for some kind of a set, and the kinds a new task of kind k  *)
(* must not run with.                                                        *)
Inflight == {t \in Ids : status[t] \in {"queued", "running"}}

Domain(k) == CASE k \in {"driver", "cuda"}        -> {"driver", "cuda"}
               [] k \in {"vllm", "rollback_vllm"} -> {"vllm", "rollback_vllm"}
               [] OTHER                           -> Pipelines

Unclaimed(k) == \A t \in Inflight : kind[t] \notin Domain(k)

TasksInit == /\ status = [t \in Ids |-> "none"]
             /\ kind = [t \in Ids |-> "reboot"]
             /\ pc = [t \in Ids |-> "none"]
             /\ left = [t \in Ids |-> 0]
             /\ event = {} /\ files = {}
             /\ job = [t \in Ids |-> "none"]
             /\ pushed = [t \in Ids |-> 0]
             /\ req = [r \in Reqs |-> ReqIdle]
             /\ trouble = MaxTrouble

-----------------------------------------------------------------------------
(* The entry points, in the threads of their requests.                       *)

(* _reject_inflight, before any SSH round-trip.                              *)
Ask(r, k) == /\ req[r].pc = "off"
             /\ \A t \in Inflight : kind[t] \notin Domain(k)
             /\ req' = [req EXCEPT ![r] = [pc |-> IF k = "driver" THEN "asked" ELSE "ready",
                                           k |-> k, t |-> NoTask]]
             /\ UNCHANGED <<taskVars, trouble>>

(* Mutant: a task superseded before is superseded again.                     *)
AwaitingOrFailed ==
  {t \in Ids : kind[t] = "driver" /\ status[t] \in {"awaiting_reboot", "failed"}}

Awaiting == {t \in Ids : kind[t] = "driver" /\ status[t] = "awaiting_reboot"}

(* supersede_awaiting_driver, which start_driver_task calls before it        *)
(* validates the package.  Flip and history are under one lock.              *)
Supersede(r) ==
  /\ req[r].pc = "asked"
  /\ req' = [req EXCEPT ![r].pc = "ready"]
  /\ status' = [t \in Ids |-> IF t \in Awaiting THEN "failed" ELSE status[t]]
  /\ pushed' = [t \in Ids |-> IF t \in Awaiting THEN pushed[t] + 1 ELSE pushed[t]]
  /\ UNCHANGED <<kind, pc, left, event, files, job, trouble>>

(* The package, version or server is refused after the SSH queries.          *)
Refuse(r) == /\ req[r].pc = "ready"
             /\ Spend
             /\ req' = [req EXCEPT ![r] = ReqIdle]
             /\ UNCHANGED taskVars

(* create claims the kind under the lock, or refuses.                        *)
Create(r) ==
  LET t == CHOOSE t \in Ids : status[t] = "none" /\ \A u \in 1..(t - 1) : status[u] # "none"
      k == req[r].k
  IN /\ req[r].pc = "ready"
     /\ \E u \in Ids : status[u] = "none"
     /\ IF Unclaimed(k)
        THEN /\ req' = [req EXCEPT ![r] = [pc |-> "created", k |-> k, t |-> t]]
             /\ status' = Set(status, t, "queued")
             /\ kind' = Set(kind, t, k)
             /\ left' = Set(left, t, IF k = "reboot" THEN 0 ELSE LongSteps)
        ELSE /\ req' = [req EXCEPT ![r] = ReqIdle]
             /\ UNCHANGED <<status, kind, left>>
     /\ UNCHANGED <<pc, event, files, job, pushed, trouble>>

Submit(r) == /\ req[r].pc = "created"
             /\ req' = [req EXCEPT ![r] = ReqIdle]
             /\ pc' = Set(pc, req[r].t, "ready")
             /\ UNCHANGED <<status, kind, left, event, files, job, pushed, trouble>>

(* POST .../cancel.  An interrupted task has no event; a reattached one has. *)
Cancel(t) == /\ t \in Inflight \ event
             /\ event' = event \cup {t}
             /\ UNCHANGED <<status, kind, pc, left, files, job, pushed, req, trouble>>

-----------------------------------------------------------------------------
(* The worker thread.                                                        *)

Begin(t) == /\ pc[t] = "ready"
            /\ pc' = Set(pc, t, "step")
            /\ status' = Set(status, t, "running")
            /\ UNCHANGED <<kind, left, event, files, job, pushed, req, trouble>>

(* TaskCancelled reaches target(): cancelled, with no history entry.         *)
Stops(t) == /\ status' = Set(status, t, "cancelled")
            /\ pc' = Set(pc, t, "none")

(* _fail_locked: the history entry is pushed after the lock is given back.   *)
Breaks(t) == /\ status' = Set(status, t, "failed")
             /\ pc' = Set(pc, t, "record")

(* check_cancelled is called before every step and every poll, so not after  *)
(* the last long step of a driver pipeline.                                  *)
Checks(t) == t \in event /\ (left[t] > 0 \/ kind[t] # "driver")

StepCancelled(t) == /\ pc[t] = "step" /\ Checks(t)
                    /\ Stops(t)
                    /\ UNCHANGED <<kind, left, event, files, job, pushed, req, trouble>>

(* run_long's launch: the job starts; or SSH fails before, or after the      *)
(* command reached the server.                                               *)
Launch(t) == /\ pc[t] = "step" /\ t \notin event /\ left[t] > 0
             /\ \/ /\ job' = Set(job, t, "running")
                   /\ pc' = Set(pc, t, "launched")
                   /\ UNCHANGED <<status, trouble>>
                \/ /\ Spend
                   /\ job' \in {job, Set(job, t, "running")}
                   /\ Breaks(t)
             /\ UNCHANGED <<kind, left, event, files, pushed, req>>

(* job_files is recorded and persisted.                                      *)
Record(t) == /\ pc[t] = "launched"
             /\ files' = files \cup {t}
             /\ pc' = Set(pc, t, "poll")
             /\ UNCHANGED <<status, kind, left, event, job, pushed, req, trouble>>

(* One turn of the polling loop: cancelled, past the deadline, exit 0, or a  *)
(* failed or vanished step (a failure leaves job_files in the result).       *)
PollCancelled(t) == /\ pc[t] = "poll" /\ t \in event
                    /\ pc' = Set(pc, t, "kill")
                    /\ UNCHANGED <<status, kind, left, event, files, job, pushed, req, trouble>>

PollExpires(t) == /\ pc[t] = "poll" /\ t \notin event
                  /\ pc' = Set(pc, t, "expire")
                  /\ UNCHANGED <<status, kind, left, event, files, job, pushed, req, trouble>>

PollDone(t) == /\ pc[t] = "poll" /\ job[t] = "exited"
               /\ job' = Set(job, t, "none")
               /\ files' = files \ {t}
               /\ left' = Set(left, t, left[t] - 1)
               /\ pc' = Set(pc, t, "step")
               /\ UNCHANGED <<status, kind, event, pushed, req, trouble>>

PollFails(t) == /\ pc[t] = "poll"
                /\ \/ job[t] = "exited" /\ Spend
                   \/ job[t] = "gone" /\ UNCHANGED trouble
                /\ job' = Set(job, t, "none")
                /\ Breaks(t)
                /\ UNCHANGED <<kind, left, event, files, pushed, req>>

(* Mutant: the watcher dies alone and leaves the job (before P2-4).          *)
KillsNothing(t) == UNCHANGED <<job, trouble>>

(* _kill_long and the removal of the job's files: the SSH command may fail,  *)
(* which is suppressed.                                                      *)
KillJob(t) == \/ job' = Set(job, t, "none") /\ UNCHANGED trouble
              \/ Spend /\ UNCHANGED job

PollKills(t) == /\ pc[t] \in {"kill", "expire"}
                /\ KillJob(t)
                /\ IF pc[t] = "kill" THEN Stops(t) /\ files' = files \ {t}
                                     ELSE Breaks(t) /\ UNCHANGED files
                /\ UNCHANGED <<kind, left, event, pushed, req>>

(* The pipeline returns.  A driver pipeline's last act is awaiting_reboot.   *)
Returns(t) == /\ pc[t] = "step" /\ ~Checks(t) /\ left[t] = 0 /\ kind[t] # "reboot"
              /\ status' = IF kind[t] = "driver" THEN Set(status, t, "awaiting_reboot")
                                                 ELSE status
              /\ pc' = Set(pc, t, "ran")
              /\ UNCHANGED <<kind, left, event, files, job, pushed, req, trouble>>

(* The verification after the last long step fails.                          *)
VerifyFails(t) == /\ pc[t] = "step" /\ ~Checks(t) /\ left[t] = 0
                  /\ kind[t] \notin {"driver", "reboot"}
                  /\ Spend
                  /\ Breaks(t)
                  /\ UNCHANGED <<kind, left, event, files, job, pushed, req>>

(* target() after the runner: success, unless the runner chose a status...   *)
Succeeds(t) == /\ pc[t] = "ran"
               /\ status' = IF status[t] = "running" THEN Set(status, t, "success")
                                                     ELSE status
               /\ pc' = Set(pc, t, "record")
               /\ UNCHANGED <<kind, left, event, files, job, pushed, req, trouble>>

(* ... and _record_history, which reads the status again, without the lock.  *)
Finished(t) == status[t] \in {"success", "failed", "cancelled"}

RecordHistory(t) == /\ pc[t] = "record"
                    /\ pc' = Set(pc, t, "none")
                    /\ pushed' = IF Finished(t) THEN Set(pushed, t, pushed[t] + 1) ELSE pushed
                    /\ UNCHANGED <<status, kind, left, event, files, job, req, trouble>>

(* The remote job ends (how is read by the next poll).                       *)
JobExits(t) == /\ job[t] = "running"
               /\ job' = Set(job, t, "exited")
               /\ UNCHANGED <<status, kind, pc, left, event, files, pushed, req, trouble>>

Thread(t) == \/ Begin(t) \/ StepCancelled(t) \/ Launch(t) \/ Record(t) \/ PollCancelled(t)
             \/ PollDone(t) \/ PollFails(t) \/ PollKills(t) \/ Returns(t) \/ VerifyFails(t)
             \/ Succeeds(t) \/ RecordHistory(t)

Request(r) == \/ \E k \in Kinds : Ask(r, k)
              \/ Supersede(r) \/ Refuse(r) \/ Create(r) \/ Submit(r)
=============================================================================
