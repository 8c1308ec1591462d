---------------------------- MODULE ModelControl ----------------------------
(* The model-control core of the backend: state machine, status sync, start, *)
(* stop, deployment stop window and lock watchdog on one event loop, against *)
(* one AI server.  One action is what runs between two awaits.               *)
EXTENDS Watchdog

CONSTANTS Ops,      \* what the user (and the passing of time) does in this run
          MaxOps,   \* bound: how many of those operations
          Warm      \* TRUE: start from a locked model that is up and serving

ASSUME OpsAssumption == MaxOps \in Nat
ASSUME WarmAssumption == Warm \in BOOLEAN /\ (Warm => Models # {})

VARIABLE ops        \* operations left

vars == <<stateVars, hostVars, policyVars, attemptVars, startLock, stopVars, sync,
          startVars, tickVars, ops>>

TypeOK == /\ StateTypeOK
          /\ HostTypeOK
          /\ PolicyTypeOK
          /\ StopTypeOK
          /\ SyncTypeOK
          /\ StartTypeOK
          /\ TickTypeOK
          /\ ops \in 0..MaxOps

(* A warm start is the state after a start that succeeded.                   *)
WarmInit == \E m \in Models :
              /\ status = [x \in Models |-> IF x = m THEN "RUNNING" ELSE "DOWNLOADED"]
              /\ locked = {m}
              /\ current = m
              /\ age = [x \in Models |-> "none"]
              /\ served = m
              /\ phase = "serving"
              /\ trouble = MaxTrouble

Init == /\ \/ Warm /\ WarmInit
           \/ ~Warm /\ StateInit /\ HostInit
        /\ PolicyInit
        /\ StopInit
        /\ SyncInit
        /\ StartInit
        /\ TickInit
        /\ ops = MaxOps

-----------------------------------------------------------------------------
(* The dashboard process stops and comes back: memory is rebuilt from the    *)
(* state file (here up to date: a lost last second is StateStore's subject), *)
(* every task, thread and request is gone, the server is untouched.          *)
DashboardRestart == /\ Reload
                    /\ Replay(PendingLockedRestarts)
                    /\ stopping' = {}
                    /\ stop' = [c \in Stops |-> StopIdle]
                    /\ window' = "off"
                    /\ affected' = {}
                    /\ sync' = [s \in Syncs |-> SyncIdle]
                    /\ probe' = [p \in Probes |-> ProbeOff]
                    /\ tick' = "idle"
                    /\ todo' = {}
                    /\ UNCHANGED <<hostVars, typed>>

Others  == <<sync, startVars, tickVars>>     \* untouched by ModelStop

Request ==
  \/ "start" \in Ops /\ \E m \in Models : UserStart(m) /\ UNCHANGED tickVars
  \/ "stop" \in Ops  /\ \E c \in Stops, m \in Models : StopCall(c, m) /\ UNCHANGED Others

UserNext ==
  \/ LoopFree /\ Request
  \/ "lock" \in Ops   /\ \E m \in Models \ locked : Lock(m)
  \/ "unlock" \in Ops /\ \E m \in locked : Unlock(m)
  \/ "window" \in Ops /\ WindowOpen /\ UNCHANGED Others
  \/ "restart" \in Ops /\ DashboardRestart
  \/ "expire" \in Ops /\ \E m \in Models :
                           /\ Expire(m)
                           /\ UNCHANGED <<stateVars, hostVars, stopVars, Others>>

(* Outside the event loop: the server, time, the deployment task's thread.   *)
Serves == HostReady /\ UNCHANGED <<stateVars, policyVars, attemptVars, startLock, stopVars,
                                   Others, ops>>
Fails == /\ EngineDies \/ ProcessDies
         /\ UNCHANGED <<stateVars, policyVars, attemptVars, startLock, stopVars, Others, ops>>

Wait(m) == /\ Elapse(m)
           /\ UNCHANGED <<hostVars, policyVars, attemptVars, startLock, stopVars, Others, ops>>

Window == (WindowKill \/ WindowClose) /\ UNCHANGED <<Others, ops>>

(* On the event loop.                                                        *)
Stopping(c) == LoopFree /\ StopStep(c) /\ UNCHANGED <<Others, ops>>

Syncing(s) == LoopFree /\ SyncStep(s) /\ UNCHANGED <<startVars, tickVars, ops>>

Poll(s) == LoopFree /\ SyncList(s) /\ UNCHANGED <<startVars, tickVars, ops>>

Starting(m) == /\ LoopFree
               /\ UserStarted(m) \/ UserRefused(m) \/ Type(m)
               /\ UNCHANGED <<tickVars, ops>>

Probing(p) == LoopFree /\ ProbeStep(p) /\ UNCHANGED <<tickVars, ops>>

Firing(m) == LoopFree /\ (TaskFires(m) \/ StrayFires(m)) /\ UNCHANGED ops

Attempting(m) == LoopFree /\ AttemptStep(m) /\ UNCHANGED ops

TickBegins == TickStart /\ UNCHANGED ops

TickRuns == TickStep /\ UNCHANGED ops

SystemNext == \/ Serves
              \/ Fails
              \/ Window
              \/ TickBegins
              \/ TickRuns
              \/ \E m \in Models : Wait(m) \/ Starting(m) \/ Firing(m) \/ Attempting(m)
              \/ \E c \in Stops  : Stopping(c)
              \/ \E s \in Syncs  : Syncing(s)
              \/ \E s \in Syncs \ {"tick"} : Poll(s)
              \/ \E p \in Probes : Probing(p)

Next == (UserNext /\ ops > 0 /\ ops' = ops - 1) \/ SystemNext

Spec == Init /\ [][Next]_vars

(* The event loop runs every ready callback; each SSH or HTTP call has a     *)
(* timeout; the tick comes every 30 s; vLLM finishes loading or dies; the    *)
(* browser types its command.  Polls and user operations owe nothing.        *)
Fairness == /\ WF_vars(Serves)
            /\ WF_vars(Window)
            /\ WF_vars(TickBegins \/ TickRuns)
            /\ \A m \in Models : /\ WF_vars(Wait(m))
                                 /\ SF_vars(Starting(m))
                                 /\ SF_vars(Firing(m))
                                 /\ SF_vars(Attempting(m))
            /\ \A c \in Stops  : SF_vars(Stopping(c))
            /\ \A s \in Syncs  : SF_vars(Syncing(s))
            /\ \A p \in Probes : SF_vars(Probing(p))

FairSpec == Spec /\ Fairness
-----------------------------------------------------------------------------
(* Safety.                                                                   *)

(* At most one start is between the status guard and the LOADING mark, and   *)
(* when the watchdog holds _start_lock it is for an attempt still alive to   *)
(* release it: no cancellation leaves the lock behind.                       *)
StartLockOwned == /\ \A x, y \in startLock : x = y
                  /\ \A m \in Models : <<"watchdog", m>> \in startLock <=> apc[m] = "connect"

(* _restart_tasks and _inflight agree with the tasks that exist: a task is   *)
(* registered as running exactly while it runs the attempt, and an attempt   *)
(* always has a runner.                                                      *)
AttemptsOwned == \A m \in Models : /\ task[m] = "run" <=> runner[m] = "task"
                                   /\ apc[m] = "idle" <=> runner[m] = "none"

(* The current model is up, coming up, or marked FAILED: whichever of stop,  *)
(* sync, probe and window took it down also took it off current_model_id.    *)
CurrentIsLive == current # None => status[current] \in Transient \cup {"FAILED"}

(* The current model is not forgotten while it stays up: the stop or the     *)
(* fall of one model never clears another that has become current.           *)
CurrentNotLost ==
  [][current # None /\ current' = None => status'[current] \notin Transient]_vars

(* No flag of _stopping_models outlives the stops and the deployment window  *)
(* that set it: a leaked flag would mute crash repair of the model for good. *)
FlagNeverLeaks == \A m \in stopping : m \in affected \/ \E c \in Stops : stop[c].m = m

(* The breaker: a model at the crash limit is suspended until its history is *)
(* cleared.                                                                  *)
BreakerHolds == \A m \in Models : real[m] = BreakerMaxCrashes => m \in suspended

(* A deliberate stop is never recorded as a crash while its flag is up,      *)
(* whoever looks at the dead process: any sync, or a start probe.            *)
NoCrashWhileStopping ==
  [][\A m \in Models : m \in stopping => real'[m] <= real[m]]_vars

(* Liveness under Fairness.                                                  *)

(* A locked model, which keeps the tick going, is not LOADING for ever:      *)
(* start probe, sync grace or hard cap ends it.                              *)
LoadingResolves == \A m \in Models :
  status[m] = "LOADING" /\ m \in locked ~> (status[m] # "LOADING" \/ m \notin locked)

(* _start_lock is released whatever happens to the start that took it.       *)
StartLockReleased == startLock # {} ~> startLock = {}

(* A recorded crash of a locked model is repaired, given up (breaker, no     *)
(* start command) or dropped (stop, unlock), never forgotten.                *)
CrashAnswered == \A m \in Models :
  m \in pend ~> (m \notin pend \/ m \in suspended \/ status[m] = "RUNNING")

(* A dead engine behind a live port does not stay.                           *)
ZombieRemoved == \A m \in Models :
  phase = "zombie" /\ served = m /\ m \in locked ~> (phase # "zombie" \/ m \notin locked)

-----------------------------------------------------------------------------
(* What the comments promise and the code does not keep.                     *)

(* model_lifecycle.py:285-287, "the flag must cover the whole stop".         *)
FlagCoversStop == \A c \in Stops : stop[c].pc # "off" => stop[c].m \in stopping

(* model_lifecycle.py:180-182, a stop that has already finished is caught by *)
(* the probe's status check: no probe records a crash of a STOPPED model.    *)
ProbeSparesStopped ==
  [][\A p \in Probes : LET m == probe[p].m IN
       probe[p].pc = "judge" /\ real'[m] > real[m] => status[m] # "STOPPED"]_vars

(* model_service.py:49-50, "the status check and the LOADING transition must *)
(* be atomic": a start never takes a RUNNING model back to LOADING.          *)
StartIsAtomic ==
  [][\A m \in Models : status[m] = "RUNNING" => status'[m] # "LOADING"]_vars

(* model_watchdog.py:6-8, a LOADING model crashes only "with no vLLM         *)
(* process": the sync never counts one on an unanswered presence probe.      *)
LoadingCrashOnEvidence ==
  [][\A s \in Syncs, m \in Models :
       sync[s].pc = "apply" /\ status[m] = "LOADING" /\ real'[m] > real[m]
         => sync[s].ans = "no"]_vars

(* model_watchdog.py:25, the breaker counts "real" crashes: each event it    *)
(* counts is a failure of its own.                                           *)
CrashesAreFailures == \A m \in Models : real[m] <= MaxTrouble - trouble
=============================================================================
