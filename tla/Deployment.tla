----------------------------- MODULE Deployment -----------------------------
(* Deployment tasks across dashboard restarts (deployment_reattach.py), host *)
(* reboots, and the completion of driver tasks (reconcile_driver_task, run   *)
(* by a 30 s timer and by GET /drivers).                                     *)
EXTENDS DeployTasks

CONSTANTS Recons,       \* concurrent reconciliations
          MaxRestarts   \* bound: dashboard restarts

ASSUME RestartsAssumption == MaxRestarts \in Nat

VARIABLES
  recon,     \* the driver task each reconciliation looks at
  active,    \* the driver tasks whose driver the running kernel has loaded
  attach,    \* the reattach thread: its pc, the live jobs still to watch, and
             \* the task it watches
  restarts   \* restarts left

vars == <<taskVars, req, trouble, recon, active, attach, restarts>>

AttachOff == [pc |-> "off", todo |-> {}, t |-> NoTask]

TypeOK == /\ TasksTypeOK
          /\ recon \in [Recons -> Ids \cup {NoTask}]
          /\ active \subseteq Ids
          /\ attach \in [pc : {"off", "probe", "next", "watch", "record"},
                         todo : SUBSET Ids, t : Ids \cup {NoTask}]
          /\ restarts \in 0..MaxRestarts

Init == /\ TasksInit
        /\ recon = [c \in Recons |-> NoTask]
        /\ active = {}
        /\ attach = AttachOff
        /\ restarts = MaxRestarts

Local == <<recon, active, attach, restarts>>     \* untouched by DeployTasks

-----------------------------------------------------------------------------
(* The driver task is verified after the reboot.                             *)

Newest(S) == CHOOSE t \in S : \A u \in S : u <= t

ReconcileBegin(c) == /\ recon[c] = NoTask
                     /\ Awaiting # {}
                     /\ recon' = [recon EXCEPT ![c] = Newest(Awaiting)]
                     /\ UNCHANGED <<taskVars, req, trouble, active, attach, restarts>>

(* Mutant: any task whose driver runs is completed (before BCK-6).           *)
CompletableAlways(t) == TRUE

Completable(t) == status[t] = "awaiting_reboot"

(* nvidia-smi answers the task's version or not; complete_driver is one      *)
(* locked step, history included.                                            *)
ReconcileEnd(c) ==
  LET t == recon[c] IN
  /\ t # NoTask
  /\ recon' = [recon EXCEPT ![c] = NoTask]
  /\ IF t \in active /\ Completable(t)
     THEN /\ status' = Set(status, t, "success")
          /\ pushed' = Set(pushed, t, pushed[t] + 1)
     ELSE UNCHANGED <<status, pushed>>
  /\ UNCHANGED <<kind, pc, left, event, files, job, req, trouble, active, attach, restarts>>

(* The machine goes down and up: jobs die, the newest installed driver loads. *)
HostReboots ==
  /\ job' = [t \in Ids |-> IF job[t] = "running" THEN "gone" ELSE job[t]]
  /\ active' = IF Awaiting = {} THEN active ELSE {Newest(Awaiting)}

(* _run_reboot: the command is issued, or refused.                           *)
Reboot(t) == /\ pc[t] = "step" /\ t \notin event /\ kind[t] = "reboot"
             /\ \/ /\ HostReboots
                   /\ pc' = Set(pc, t, "ran")
                   /\ UNCHANGED <<status, trouble>>
                \/ Spend /\ Breaks(t) /\ UNCHANGED <<job, active>>
             /\ UNCHANGED <<kind, left, event, files, pushed, req, recon, attach, restarts>>

-----------------------------------------------------------------------------
(* A restart of the dashboard.                                               *)

(* Mutant: the recovered statuses are taken as they are.                     *)
RecoveredAsIs(t) == status[t]

(* _recover: what was in flight is interrupted.                              *)
Recovered(t) == IF t \in Inflight THEN "interrupted" ELSE status[t]

Candidates == {t \in files : Recovered(t) = "interrupted"}

DashboardRestart ==
  /\ restarts > 0
  /\ restarts' = restarts - 1
  /\ status' = [t \in Ids |-> Recovered(t)]
  /\ pc' = [t \in Ids |-> "none"]
  /\ event' = {}
  /\ req' = [r \in Reqs |-> ReqIdle]
  /\ recon' = [c \in Recons |-> NoTask]
  /\ attach' = IF Candidates = {} THEN AttachOff
               ELSE [pc |-> "probe", todo |-> Candidates, t |-> NoTask]
  /\ UNCHANGED <<kind, left, files, job, pushed, trouble, active>>

(* _reattach_interrupted's probe: the candidates whose process is alive; if  *)
(* SSH fails they all stay interrupted.                                      *)
AttachProbe ==
  /\ attach.pc = "probe"
  /\ LET live == {t \in attach.todo : job[t] = "running"} IN
     \/ attach' = [attach EXCEPT !.pc = "next", !.todo = live] /\ UNCHANGED trouble
     \/ Spend /\ attach' = AttachOff
  /\ UNCHANGED <<taskVars, req, recon, active, restarts>>

(* One thread takes the live tasks one after the other: back to running,     *)
(* without asking what else is in flight by now.                             *)
AttachNext ==
  /\ attach.pc = "next"
  /\ IF attach.todo = {}
     THEN attach' = AttachOff /\ UNCHANGED <<status, event>>
     ELSE \E t \in attach.todo :
            /\ attach' = [pc |-> "watch", todo |-> attach.todo \ {t}, t |-> t]
            /\ status' = Set(status, t, "running")
            /\ event' = event \ {t}
  /\ UNCHANGED <<kind, pc, left, files, job, pushed, req, trouble, recon, active, restarts>>

(* _watch_remote_job ends: cancelled or past the deadline (both kill), or    *)
(* the job exited or vanished, a failure since nothing resumes the pipeline. *)
WatchEnds ==
  LET t == attach.t IN
  /\ attach.pc = "watch"
  /\ attach' = [attach EXCEPT !.pc = "record"]
  /\ \/ /\ t \in event
        /\ KillJob(t)
        /\ status' = Set(status, t, "cancelled")
        /\ UNCHANGED files
     \/ /\ t \notin event /\ job[t] = "running"
        /\ KillJob(t)
        /\ status' = Set(status, t, "failed")
        /\ files' = files \ {t}
     \/ /\ t \notin event /\ job[t] # "running"
        /\ job' = Set(job, t, "none")
        /\ status' = Set(status, t, "failed")
        /\ files' = files \ {t}
        /\ UNCHANGED trouble
  /\ UNCHANGED <<kind, pc, left, event, pushed, req, recon, active, restarts>>

AttachRecord ==
  /\ attach.pc = "record"
  /\ attach' = [attach EXCEPT !.pc = "next", !.t = NoTask]
  /\ pushed' = Set(pushed, attach.t, pushed[attach.t] + 1)
  /\ UNCHANGED <<status, kind, pc, left, event, files, job, req, trouble, recon, active, restarts>>

Attach == AttachProbe \/ AttachNext \/ WatchEnds \/ AttachRecord

-----------------------------------------------------------------------------
Running(t) == (Thread(t) /\ UNCHANGED Local) \/ Reboot(t)

Next == \/ \E r \in Reqs : Request(r) /\ UNCHANGED Local
        \/ \E t \in Ids : \/ Running(t)
                          \/ (Cancel(t) \/ PollExpires(t) \/ JobExits(t)) /\ UNCHANGED Local
        \/ \E c \in Recons : ReconcileBegin(c) \/ ReconcileEnd(c)
        \/ DashboardRestart
        \/ Attach

Spec == Init /\ [][Next]_vars

(* A request that created its task submits it; threads go on; a long step is *)
(* over by its deadline.  The rest owes nothing.                             *)
Fairness == /\ \A r \in Reqs : WF_vars(Submit(r) /\ UNCHANGED Local)
            /\ \A t \in Ids : /\ WF_vars(Running(t))
                              /\ WF_vars(PollExpires(t) /\ UNCHANGED Local)
            /\ WF_vars(Attach)

FairSpec == Spec /\ Fairness

-----------------------------------------------------------------------------
(* Whoever claims a domain is on its way to give it back: a task in flight   *)
(* has a request about to submit it, a thread, or the reattach thread, also  *)
(* after restarts.  A claim without an owner would block its domain for good. *)
ClaimOwned == \A t \in Inflight : \/ pc[t] # "none"
                                  \/ \E r \in Reqs : req[r].pc = "created" /\ req[r].t = t
                                  \/ attach.pc = "watch" /\ attach.t = t

(* create's claim holds against every interleaving of requests: two tasks in *)
(* flight never share a domain, except one the reattach thread revived.      *)
ClaimsExclusive ==
  \A t, u \in Inflight : t # u /\ kind[u] \in Domain(kind[t]) /\ kind[t] # "reboot"
                           => attach.pc = "watch" /\ attach.t \in {t, u}

(* A domain is claimed by one task, and by one that is on its way to let go. *)
ClaimsHeld == ClaimOwned /\ ClaimsExclusive

(* While SSH works, a remote job runs only for a task that is watched or     *)
(* waits to be reattached: cancellation and deadline take the job along.     *)
JobsFollowTasks ==
  trouble = MaxTrouble =>
    \A t \in Ids : job[t] = "running" => status[t] \in {"running", "interrupted"}

(* The abstract specification: a task the reattach thread watches is in      *)
(* flight without a pipeline.                                                *)
Watched == IF attach.pc = "watch" THEN attach.t ELSE NoTask
Domains == [k \in Pipelines \cup {"reboot"} |-> Domain(k)]

Life == INSTANCE TaskLife WITH Tasks <- Ids, Rivals <- Domains, revived <- Watched

(* Requests, threads that read a status without the lock, late completions,  *)
(* restarts and the reattach thread together move a task only as the manager *)
(* promises, and none that has ended moves again.                            *)
FollowsLife == Life!Spec

(* Every task in flight leaves it, cancelled or not, whatever the remote     *)
(* step does.                                                                *)
TasksEnd == \A t \in Ids : t \in Inflight ~> t \notin Inflight

-----------------------------------------------------------------------------
(* What the comments promise and the code does not keep.                     *)

(* deployment_common.py:81-82, "pipelines that write the same system state   *)
(* must refuse each other".                                                  *)
DomainsExclusive ==
  \A t, u \in Inflight : t # u /\ kind[t] \in Pipelines => kind[u] \notin Domain(kind[t])

(* deployment_common.py:92-94, "a reboot must not hit the machine mid        *)
(* apt/uv install".                                                          *)
RebootSparesJobs ==
  [][\A t \in Ids : job[t] = "running" /\ status[t] = "running" => job'[t] # "gone"]_vars

(* deployment_task_manager.py:271-272, a second completion must not "push a  *)
(* duplicate history entry".                                                 *)
HistoryOnce == \A t \in Ids : pushed[t] <= 1

(* deployment_task_manager.py:288, an awaiting driver task (nothing left to  *)
(* install) fails because it is "Superseded by a newer driver task": there   *)
(* is one, or a request is about to create it.                               *)
SupersededByNewer ==
  \A t \in Ids : kind[t] = "driver" /\ status[t] = "failed" /\ left[t] = 0
    => \/ \E u \in Ids : u > t /\ kind[u] = "driver" /\ status[u] # "none"
       \/ \E r \in Reqs : req[r].k = "driver" /\ req[r].pc \in {"ready", "created"}
=============================================================================
