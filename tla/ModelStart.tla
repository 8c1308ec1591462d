----------------------------- MODULE ModelStart -----------------------------
(* Starting a model: start_model and _verify_start_probe of                  *)
(* backend/service/model_lifecycle.py.  POST /models/start only marks the    *)
(* model LOADING and returns the command; the browser types it into the      *)
(* console PTY afterwards (frontend useConsoleWebSocket, mode=start).  The   *)
(* auto-benchmark mark and the access-log session that _start_model also     *)
(* hands over belong to other parts and are left out here.                   *)
EXTENDS StatusSync

CONSTANT Probes   \* bound: start probes alive at once

VARIABLES typed,  \* models whose returned command is not in the shell yet
          probe   \* the _verify_start_probe tasks

startVars == <<typed, probe>>

ProbePcs == {"off", "sleep1", "ask1", "sleep2", "ask2", "judge"}
ProbeOff == [pc |-> "off", m |-> None]

StartTypeOK == /\ typed \subseteq Models
               /\ probe \in [Probes -> [pc : ProbePcs, m : Models \cup {None}]]

Busy(m) == status[m] \in Transient      \* the 409 guard

(* The LOADING transition of _start_model and the probe task it creates.     *)
MarkLoading(m) == /\ Become(m, "LOADING")
                  /\ SetCurrent(m)
                  /\ UNCHANGED locked
                  /\ \E p \in Probes : /\ probe[p].pc = "off"
                                       /\ probe' = [probe EXCEPT ![p] = [pc |-> "sleep1", m |-> m]]

(* POST /models/start takes _start_lock and passes the guard, then waits for *)
(* the SSH connectivity probe holding the lock.                              *)
UserStart(m) == /\ startLock = {}
                /\ ~Busy(m)
                /\ startLock' = {<<"user", m>>}
                /\ UNCHANGED <<stateVars, hostVars, policyVars, attemptVars, stopVars,
                               sync, startVars>>

UserStarted(m) == /\ <<"user", m>> \in startLock
                  /\ startLock' = startLock \ {<<"user", m>>}
                  /\ MarkLoading(m)
                  /\ typed' = typed \cup {m}
                  /\ UNCHANGED <<hostVars, policyVars, attemptVars, stopVars, sync>>

(* 503 (no SSH) or 400 (no start command): nothing is written.               *)
UserRefused(m) == /\ <<"user", m>> \in startLock
                  /\ startLock' = startLock \ {<<"user", m>>}
                  /\ Spend
                  /\ UNCHANGED <<stateVars, served, phase, policyVars, attemptVars,
                                 stopVars, sync, startVars>>

(* The browser delivers the command, or is closed before it does.            *)
Type(m) == /\ m \in typed
           /\ typed' = typed \ {m}
           /\ \/ Launch(m)
              \/ Spend /\ UNCHANGED <<served, phase>>
           /\ UNCHANGED <<stateVars, policyVars, attemptVars, startLock, stopVars, sync, probe>>

(* _verify_start_probe wakes after 10 s: only a model still LOADING is       *)
(* probed.                                                                   *)
ProbeWake(p) ==
  /\ probe[p].pc \in {"sleep1", "sleep2"}
  /\ probe' = [probe EXCEPT ![p] =
                 IF status[probe[p].m] # "LOADING" THEN ProbeOff
                 ELSE [@ EXCEPT !.pc = IF @ = "sleep1" THEN "ask1" ELSE "ask2"]]
  /\ UNCHANGED <<stateVars, hostVars, policyVars, attemptVars, startLock, stopVars,
                 sync, typed>>

(* The presence probe is answered: only a definite "no" goes on.             *)
ProbeAsk(p) ==
  /\ probe[p].pc \in {"ask1", "ask2"}
  /\ \E a \in Answers :
       /\ PresenceAnswer(a)
       /\ probe' = [probe EXCEPT ![p] =
                      IF a # "no" THEN ProbeOff
                      ELSE [@ EXCEPT !.pc = IF @ = "ask1" THEN "sleep2" ELSE "judge"]]
  /\ UNCHANGED <<stateVars, served, phase, policyVars, attemptVars, startLock, stopVars,
                 sync, typed>>

(* The second "no" reaches the task: the model is rolled back unless a stop  *)
(* is in flight.  Its status is not read again.                              *)
RollsBack(m) == ~IsStopping(m)

ProbeJudge(p) ==
  LET m       == probe[p].m
      crashed == {m} \cap locked
  IN /\ probe[p].pc = "judge"
     /\ probe' = [probe EXCEPT ![p] = ProbeOff]
     /\ IF RollsBack(m)
        THEN /\ Update(AfterCrash([status EXCEPT ![m] = "STOPPED"], crashed))
             /\ ClearCurrent({m})
             /\ RecordCrash(crashed)
             /\ UNCHANGED locked
        ELSE UNCHANGED <<stateVars, policyVars, attemptVars, startLock>>
     /\ UNCHANGED <<hostVars, stopVars, sync, typed>>

StartInit == /\ typed = {}
             /\ probe = [p \in Probes |-> ProbeOff]

ProbeStep(p) == ProbeWake(p) \/ ProbeAsk(p) \/ ProbeJudge(p)
=============================================================================
