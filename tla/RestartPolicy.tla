---------------------------- MODULE RestartPolicy ----------------------------
(* The bookkeeping of backend/service/model_watchdog.py: crash events, the   *)
(* breaker, the 10 s restart tasks and the attempts they run, with the two   *)
(* operations every other component calls: on_model_crash and _clear.        *)
(* The steps of an attempt are in module Watchdog.                           *)
EXTENDS VllmHost

CONSTANTS BreakerMaxCrashes,  \* BREAKER_MAX_CRASHES
          MaxStray            \* bound: forgotten restart tasks tracked per model

ASSUME BreakerAssumption == BreakerMaxCrashes \in Nat \ {0}
ASSUME StrayAssumption   == MaxStray \in Nat

AttemptPcs == {"idle", "probe", "health", "kill", "start", "connect", "deliver"}
Runners    == {"none", "tick", "task", "stray"}

VARIABLES
  pend,       \* keys of _crash_events
  real,       \* real (not synthetic) events of the model inside the window
  suspended,  \* _suspended
  task,       \* _restart_tasks[m]: none, wait (sleeping 10 s), run
  stray,      \* restart tasks of m still sleeping but no longer registered
  apc,        \* where the attempt on m is; not idle iff m is in _inflight
  runner,     \* who runs that attempt: the tick, the registered task, a stray
  startLock   \* holders of _start_lock: <<"user" or "watchdog", model>>

policyVars  == <<pend, real, suspended, task, stray>>
attemptVars == <<apc, runner>>

PolicyTypeOK == /\ pend \subseteq Models
                /\ real \in [Models -> 0..BreakerMaxCrashes]
                /\ suspended \subseteq Models
                /\ task \in [Models -> {"none", "wait", "run"}]
                /\ stray \in [Models -> 0..MaxStray]
                /\ apc \in [Models -> AttemptPcs]
                /\ runner \in [Models -> Runners]
                /\ startLock \subseteq {"user", "watchdog"} \X Models

Inflight == {m \in Models : apc[m] # "idle"}

(* Mutant: one crash too late.                                               *)
TrippedLate(S) == {m \in S : real[m] + 1 > BreakerMaxCrashes /\ m \notin suspended}

(* The models of S whose new crash event trips the breaker.                  *)
Tripped(S) == {m \in S : real[m] + 1 >= BreakerMaxCrashes /\ m \notin suspended}

(* on_model_crash for each model of S, all real: the event is recorded, then *)
(* either the breaker trips (the caller writes FAILED, see AfterCrash) or a  *)
(* restart task is scheduled.  A registered task is replaced, not cancelled: *)
(* asleep it becomes a stray, running it runs on unregistered.               *)
RecordCrash(S) ==
  LET again == S \ Tripped(S) IN
  /\ pend' = pend \cup S
  /\ real' = [m \in Models |-> IF m \in S /\ real[m] < BreakerMaxCrashes
                               THEN real[m] + 1 ELSE real[m]]
  /\ suspended' = suspended \cup Tripped(S)
  /\ task' = [m \in Models |-> IF m \in again THEN "wait" ELSE task[m]]
  /\ stray' = [m \in Models |->
                 IF m \in again /\ task[m] = "wait" /\ stray[m] < MaxStray
                 THEN stray[m] + 1 ELSE stray[m]]
  /\ runner' = [m \in Models |-> IF m \in again /\ task[m] = "run"
                                 THEN "stray" ELSE runner[m]]
  /\ UNCHANGED <<apc, startLock>>

(* The statuses "new" (written by the caller) once on_model_crash has marked *)
(* the tripped models of S FAILED.                                           *)
AfterCrash(new, S) == [m \in Models |-> IF m \in Tripped(S) THEN "FAILED" ELSE new[m]]

(* The synthetic events start_watchdog replays do not count and cannot trip. *)
(* It runs on an empty memory.                                               *)
Replay(S) == /\ pend' = S
             /\ real' = [m \in Models |-> 0]
             /\ suspended' = {}
             /\ task' = [m \in Models |-> IF m \in S THEN "wait" ELSE "none"]
             /\ stray' = [m \in Models |-> 0]
             /\ apc' = [m \in Models |-> "idle"]
             /\ runner' = [m \in Models |-> "none"]
             /\ startLock' = {}

(* Mutant: the history is cleared, the task goes on.                         *)
CancelledNone(S) == {}

(* The attempts that _clear of the models of S cancels: only the registered  *)
(* task is known to it.                                                      *)
Cancelled(S) == {m \in S : task[m] = "run"}

(* Mutant: acquire and release, with no finally.                             *)
ReleasedNone(ended) == {}

(* Leaving "async with _start_lock" however the attempt ends.                *)
Released(ended) == {<<"watchdog", m>> : m \in ended}

(* _clear of every model of S.  Cancelling the task while it runs an attempt *)
(* unwinds the attempt: it leaves _inflight and releases _start_lock.  The   *)
(* attempts of "over" end in the same step, of their own accord.             *)
ClearEnding(S, over) ==
  LET ended == Cancelled(S) \cup over IN
  /\ pend' = pend \ S
  /\ real' = [m \in Models |-> IF m \in S THEN 0 ELSE real[m]]
  /\ suspended' = suspended \ S
  /\ task' = [m \in Models |-> IF m \in S THEN "none" ELSE task[m]]
  /\ apc' = [m \in Models |-> IF m \in ended THEN "idle" ELSE apc[m]]
  /\ runner' = [m \in Models |-> IF m \in ended THEN "none" ELSE runner[m]]
  /\ startLock' = startLock \ Released(ended)

Clear(S) == ClearEnding(S, {}) /\ UNCHANGED stray

(* An event leaves the 600 s window.  The code prunes at the next crash; the *)
(* key stays until then, so pend does not change.                            *)
Expire(m) == /\ real[m] > 0
             /\ m \notin suspended
             /\ real' = [real EXCEPT ![m] = @ - 1]
             /\ UNCHANGED <<pend, suspended, task, stray, apc, runner, startLock>>

PolicyInit == /\ pend = {}
              /\ real = [m \in Models |-> 0]
              /\ suspended = {}
              /\ task = [m \in Models |-> "none"]
              /\ stray = [m \in Models |-> 0]
              /\ apc = [m \in Models |-> "idle"]
              /\ runner = [m \in Models |-> "none"]
              /\ startLock = {}
=============================================================================
