------------------------------ MODULE Watchdog ------------------------------
(* backend/service/model_watchdog.py: the restart attempt and its two        *)
(* drivers, the 10 s delayed task and the 30 s tick.                         *)
EXTENDS ModelStart

VARIABLES tick,   \* the tick: idle, sync (its status sync runs), scan
          todo    \* events the scan has still to look at

tickVars == <<tick, todo>>

TickTypeOK == /\ tick \in {"idle", "sync", "scan"}
              /\ todo \subseteq Models

(* The guards of _attempt_restart: it clears the history of a model that is  *)
(* unlocked or RUNNING, goes on for one it may restart (claiming it in       *)
(* _inflight before any await), and returns otherwise.                       *)
ClearsAtOnce(m) == m \notin locked \/ status[m] = "RUNNING"
MayAttempt(m)   == /\ m \in locked
                   /\ status[m] \notin Transient
                   /\ m \notin suspended
                   /\ m \notin Inflight

Enter(m, who) ==
  \/ /\ ClearsAtOnce(m)
     /\ ClearEnding({m}, {})
  \/ /\ MayAttempt(m)
     /\ apc' = [apc EXCEPT ![m] = "probe"]
     /\ runner' = [runner EXCEPT ![m] = who]
     /\ task' = IF who = "task" THEN [task EXCEPT ![m] = "run"] ELSE task
     /\ UNCHANGED <<pend, real, suspended, startLock>>
  \/ /\ ~ClearsAtOnce(m) /\ ~MayAttempt(m)
     /\ task' = IF who = "task" THEN [task EXCEPT ![m] = "none"] ELSE task
     /\ UNCHANGED <<pend, real, suspended, attemptVars, startLock>>

(* The registered task of m wakes up; so does a superseded one, which        *)
(* nothing cancelled.                                                        *)
TaskFires(m) == /\ task[m] = "wait"
                /\ Enter(m, "task")
                /\ UNCHANGED <<stray, stateVars, hostVars, stopVars, sync, startVars, tickVars>>

StrayFires(m) == /\ stray[m] > 0
                 /\ stray' = [stray EXCEPT ![m] = @ - 1]
                 /\ Enter(m, "stray")
                 /\ UNCHANGED <<stateVars, hostVars, stopVars, sync, startVars, tickVars>>

(* The attempt moves on, or ends: finally leaves _inflight, and a registered *)
(* task that ends is forgotten.                                              *)
Goto(m, pc) == apc' = [apc EXCEPT ![m] = pc] /\ UNCHANGED <<runner, task>>

EndAttempt(m) == /\ apc' = [apc EXCEPT ![m] = "idle"]
                 /\ runner' = [runner EXCEPT ![m] = "none"]
                 /\ task' = [task EXCEPT ![m] = IF runner[m] = "task" THEN "none" ELSE @]

historyVars == <<pend, real, suspended, stray>>

AttemptProbe(m) ==
  /\ apc[m] = "probe"
  /\ \E a \in Answers : PresenceAnswer(a) /\ Goto(m, IF a = "yes" THEN "health" ELSE "start")
  /\ UNCHANGED <<stateVars, served, phase, historyVars, startLock, stopVars, sync,
                 startVars, tickVars>>

(* Mutant: any live process is left alone (before BCK-1).                    *)
KillsNothing(a) == FALSE

KillsZombie(a) == a = "no"

(* A live process is left to the sync unless its engine is known dead.       *)
AttemptHealth(m) ==
  /\ apc[m] = "health"
  /\ \E a \in Answers : /\ HealthAnswer(a)
                        /\ IF KillsZombie(a) THEN Goto(m, "kill") ELSE EndAttempt(m)
  /\ UNCHANGED <<stateVars, served, phase, historyVars, startLock, stopVars, sync,
                 startVars, tickVars>>

AttemptKill(m) ==
  /\ apc[m] = "kill"
  /\ \E ok \in BOOLEAN : Kill(ok)
  /\ Goto(m, "start")
  /\ UNCHANGED <<stateVars, historyVars, startLock, stopVars, sync, startVars, tickVars>>

(* start_model: under _start_lock; a 409 ends the attempt and clears the     *)
(* history only of a model that recovered.                                   *)
AttemptStart(m) ==
  /\ apc[m] = "start"
  /\ startLock = {}
  /\ \/ /\ ~Busy(m)
        /\ startLock' = {<<"watchdog", m>>}
        /\ Goto(m, "connect")
        /\ UNCHANGED historyVars
     \/ /\ status[m] = "LOADING"
        /\ EndAttempt(m)
        /\ UNCHANGED <<historyVars, startLock>>
     \/ /\ status[m] = "RUNNING"
        /\ ClearEnding({m}, {m})
        /\ UNCHANGED stray
  /\ UNCHANGED <<stateVars, hostVars, stopVars, sync, startVars, tickVars>>

AttemptStarted(m) ==
  /\ apc[m] = "connect"
  /\ MarkLoading(m)
  /\ Goto(m, "deliver")
  /\ startLock' = startLock \ {<<"watchdog", m>>}
  /\ UNCHANGED <<hostVars, historyVars, stopVars, sync, typed, tickVars>>

(* 503, or 400 over the environment: deferred to the next tick.  400 without *)
(* a start command: FAILED, history cleared.                                 *)
AttemptRefused(m) ==
  /\ apc[m] = "connect"
  /\ Spend
  /\ \/ /\ EndAttempt(m)
        /\ startLock' = startLock \ {<<"watchdog", m>>}
        /\ UNCHANGED <<stateVars, historyVars>>
     \/ /\ Become(m, "FAILED")
        /\ ClearEnding({m}, {m})
        /\ UNCHANGED <<locked, current, stray>>
  /\ UNCHANGED <<served, phase, stopVars, sync, startVars, tickVars>>

(* _deliver_start_command: the PTY takes the command, or there is no session *)
(* or no send window.                                                        *)
AttemptDeliver(m) ==
  /\ apc[m] = "deliver"
  /\ \/ Launch(m)
     \/ Spend /\ UNCHANGED <<served, phase>>
  /\ EndAttempt(m)
  /\ UNCHANGED <<stateVars, historyVars, startLock, stopVars, sync, startVars, tickVars>>

(* watchdog_tick: nothing at all while no model is locked or pending.        *)
TickStart == /\ tick = "idle"
             /\ pend # {} \/ locked # {}
             /\ SyncList("tick")
             /\ tick' = "sync"
             /\ UNCHANGED <<startVars, todo>>

(* Mutants: a launch in flight wipes the history (incident 2026-10-17); a    *)
(* replayed event is not retried by the tick.                                *)
TickClearsLoading == {m \in locked : status[m] \in Transient}
TickRealEvents    == {m \in pend \ {x \in locked : status[x] = "RUNNING"} : real[m] > 0}

TickClears == {m \in locked : status[m] = "RUNNING"}
TickEvents == pend \ TickClears

TickScan == /\ tick = "sync"
            /\ sync["tick"].pc = "done"
            /\ sync' = [sync EXCEPT !["tick"] = SyncIdle]
            /\ Clear(TickClears)
            /\ tick' = "scan"
            /\ todo' = TickEvents
            /\ UNCHANGED <<stateVars, hostVars, stopVars, startVars>>

(* The scan awaits each attempt it makes before it takes the next event.     *)
TickWaits == \E m \in Models : runner[m] = "tick"

TickNext(m) == /\ tick = "scan"
               /\ ~TickWaits
               /\ m \in todo
               /\ todo' = todo \ {m}
               /\ Enter(m, "tick")
               /\ UNCHANGED <<stray, stateVars, hostVars, stopVars, sync, startVars, tick>>

TickEnd == /\ tick = "scan"
           /\ todo = {}
           /\ ~TickWaits
           /\ tick' = "idle"
           /\ UNCHANGED <<stateVars, hostVars, policyVars, attemptVars, startLock,
                          stopVars, sync, startVars, todo>>

(* apply_model_lock (a threadpool handler).  Only an unlock clears.          *)
Lock(m) == /\ SetLocked(m)
           /\ UNCHANGED <<status, current, age, hostVars, policyVars, attemptVars,
                          startLock, stopVars, sync, startVars, tickVars>>

Unlock(m) == /\ SetUnlocked(m)
             /\ Clear({m})
             /\ UNCHANGED <<status, current, age, hostVars, stopVars, sync, startVars, tickVars>>

(* Between the end of its sync and its next await the tick has the event     *)
(* loop to itself: only threads and the outside world move.                  *)
LoopFree == /\ ~(tick = "sync" /\ sync["tick"].pc = "done")
            /\ ~(tick = "scan" /\ ~TickWaits)

TickInit == tick = "idle" /\ todo = {}

AttemptStep(m) == \/ AttemptProbe(m) \/ AttemptHealth(m) \/ AttemptKill(m)
                  \/ AttemptStart(m) \/ AttemptStarted(m) \/ AttemptRefused(m)
                  \/ AttemptDeliver(m)

TickStep == TickScan \/ TickEnd \/ \E m \in Models : TickNext(m)
=============================================================================
