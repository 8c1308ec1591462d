------------------------- MODULE ModelControlProofs -------------------------
(* The safety properties of ModelControl that do not depend on its bounds,   *)
(* for every set of models, stops, syncs and probes.  The inductive          *)
(* invariant is the conjunction of what each part of the state guarantees.   *)
EXTENDS ModelHistory, TLAPS

StateInv == StateTypeOK /\ CurrentIsLive

PolicyInv == PolicyTypeOK /\ StartLockOwned /\ AttemptsOwned /\ BreakerHolds

(* An idle stop slot names no model and a closed window owns no flag, so     *)
(* reusing either overwrites nothing that FlagNeverLeaks relies on.          *)
StopSlotsIdle == /\ \A c \in Stops : stop[c].pc = "off" => stop[c].m = None
                 /\ \A c \in Stops : stop[c].pc # "off" => stop[c].m \in Models
                 /\ window = "off" => affected = {}

StopInv == StopTypeOK /\ StopSlotsIdle /\ FlagNeverLeaks

(* A live probe or a judging one is about a model.                           *)
ProbesNamed == \A p \in Probes : probe[p].pc # "off" => probe[p].m \in Models

StartInv == StartTypeOK /\ ProbesNamed

Inv == StateInv /\ HostTypeOK /\ PolicyInv /\ StopInv /\ SyncTypeOK /\ StartInv /\ TickTypeOK

IInv == Inv /\ ops \in 0..MaxOps

-----------------------------------------------------------------------------
(* What stays untouched keeps its invariant.                                 *)

LEMMA StateFrame == ASSUME StateInv, UNCHANGED stateVars PROVE StateInv'
  BY DEF StateInv, StateTypeOK, CurrentIsLive, stateVars

LEMMA HostFrame == ASSUME HostTypeOK, UNCHANGED hostVars PROVE HostTypeOK'
  BY DEF HostTypeOK, hostVars

LEMMA PolicyFrame ==
  ASSUME PolicyInv, UNCHANGED <<policyVars, attemptVars, startLock>> PROVE PolicyInv'
  BY DEF PolicyInv, PolicyTypeOK, StartLockOwned, AttemptsOwned, BreakerHolds,
         policyVars, attemptVars

LEMMA StopFrame == ASSUME StopInv, UNCHANGED stopVars PROVE StopInv'
  BY DEF StopInv, StopTypeOK, StopSlotsIdle, FlagNeverLeaks, stopVars

LEMMA SyncFrame == ASSUME SyncTypeOK, UNCHANGED sync PROVE SyncTypeOK'
  BY DEF SyncTypeOK

LEMMA StartFrame == ASSUME StartInv, UNCHANGED startVars PROVE StartInv'
  BY DEF StartInv, StartTypeOK, ProbesNamed, startVars

LEMMA TickFrame == ASSUME TickTypeOK, UNCHANGED tickVars PROVE TickTypeOK'
  BY DEF TickTypeOK, tickVars

-----------------------------------------------------------------------------
(* The state machine.                                                        *)

(* update_model_status keeps "loading_since is set iff LOADING".             *)
LEMMA UpdateType ==
  ASSUME StateTypeOK, NEW new \in [Models -> Statuses], Update(new),
         locked' \subseteq Models, current' \in Models \cup {None}
  PROVE  StateTypeOK'
<1>1. \A m \in Models : /\ AgeAfter(new, m) \in Ages
                        /\ AgeAfter(new, m) = "none" <=> new[m] # "LOADING"
  BY DEF AgeAfter, StateTypeOK, Ages, Statuses
<1> QED
  BY <1>1 DEF Update, StateTypeOK

(* A downgrade that takes every fallen model off current_model_id keeps the  *)
(* current model live.                                                       *)
LEMMA DowngradeInv ==
  ASSUME StateInv, NEW new \in [Models -> Statuses], NEW S \in SUBSET Models,
         Update(new), ClearCurrent(S), locked' \subseteq Models,
         \A m \in Models \ S : new[m] = status[m] \/ new[m] \in Transient \cup {"FAILED"}
  PROVE  StateInv'
<1>1. current' \in Models \cup {None}
  BY DEF StateInv, StateTypeOK, ClearCurrent
<1>2. StateTypeOK'
  BY <1>1, UpdateType DEF StateInv
<1>3. CurrentIsLive'
  BY NoneAssumption DEF StateInv, StateTypeOK, CurrentIsLive, ClearCurrent, Update
<1> QED
  BY <1>2, <1>3 DEF StateInv

(* Becoming the current model while coming up.                               *)
LEMMA UpgradeInv ==
  ASSUME StateInv, NEW new \in [Models -> Statuses], NEW m \in Models,
         Update(new), SetCurrent(m), locked' \subseteq Models,
         new[m] \in Transient \cup {"FAILED"}
  PROVE  StateInv'
<1>1. StateTypeOK'
  BY UpdateType DEF StateInv, SetCurrent
<1>2. CurrentIsLive'
  BY DEF CurrentIsLive, SetCurrent, Update
<1> QED
  BY <1>1, <1>2 DEF StateInv

LEMMA AfterCrashType ==
  ASSUME NEW new \in [Models -> Statuses], NEW S
  PROVE  AfterCrash(new, S) \in [Models -> Statuses]
  BY DEF AfterCrash, Statuses

-----------------------------------------------------------------------------
(* The watchdog's bookkeeping.                                               *)

(* on_model_crash: the limit is met only by suspending, and a superseded     *)
(* running task stays the owner of its attempt as a stray.                   *)
LEMMA RecordCrashInv ==
  ASSUME PolicyInv, NEW S \in SUBSET Models, RecordCrash(S) PROVE PolicyInv'
<1> USE DEF PolicyInv
<1>1. PolicyTypeOK'
  <2>1. real' \in [Models -> 0..BreakerMaxCrashes]
    BY BreakerAssumption DEF PolicyTypeOK, RecordCrash
  <2>2. stray' \in [Models -> 0..MaxStray]
    BY StrayAssumption DEF PolicyTypeOK, RecordCrash
  <2>3. task' \in [Models -> {"none", "wait", "run"}] /\ runner' \in [Models -> Runners]
    BY DEF PolicyTypeOK, RecordCrash, Runners
  <2> QED
    BY <2>1, <2>2, <2>3 DEF PolicyTypeOK, RecordCrash, Tripped
<1>2. StartLockOwned'
  BY DEF StartLockOwned, RecordCrash
<1>3. AttemptsOwned'
  BY DEF AttemptsOwned, RecordCrash, PolicyTypeOK, Runners, Tripped
<1>4. BreakerHolds'
  BY BreakerAssumption DEF BreakerHolds, RecordCrash, PolicyTypeOK, Tripped
<1> QED
  BY <1>1, <1>2, <1>3, <1>4

(* _clear: cancelling the registered task unwinds its attempt wherever it    *)
(* is, so the lock and _inflight never outlive it.                           *)
LEMMA ClearEndingInv ==
  ASSUME PolicyInv, NEW S \in SUBSET Models, NEW over \in SUBSET S,
         ClearEnding(S, over), stray' \in [Models -> 0..MaxStray]
  PROVE  PolicyInv'
<1> USE DEF PolicyInv
<1>1. PolicyTypeOK'
  <2>1. real' \in [Models -> 0..BreakerMaxCrashes]
    BY BreakerAssumption DEF PolicyTypeOK, ClearEnding
  <2>2. task' \in [Models -> {"none", "wait", "run"}] /\ runner' \in [Models -> Runners]
    BY DEF PolicyTypeOK, ClearEnding, Runners
  <2>3. apc' \in [Models -> AttemptPcs]
    BY DEF PolicyTypeOK, ClearEnding, AttemptPcs
  <2> QED
    BY <2>1, <2>2, <2>3 DEF PolicyTypeOK, ClearEnding
<1>2. StartLockOwned'
  BY DEF StartLockOwned, ClearEnding, PolicyTypeOK, Released, Cancelled
<1>3. AttemptsOwned'
  BY DEF AttemptsOwned, ClearEnding, PolicyTypeOK, Cancelled, Runners
<1>4. BreakerHolds'
  BY BreakerAssumption DEF BreakerHolds, ClearEnding, PolicyTypeOK
<1> QED
  BY <1>1, <1>2, <1>3, <1>4

LEMMA ClearInv ==
  ASSUME PolicyInv, NEW S \in SUBSET Models, Clear(S) PROVE PolicyInv'
<1>1. ClearEnding(S, {}) /\ stray' \in [Models -> 0..MaxStray]
  BY DEF Clear, PolicyInv, PolicyTypeOK
<1> QED
  BY <1>1, ClearEndingInv

(* An attempt enters _inflight with its runner, on every path of the guards. *)
LEMMA EnterInv ==
  ASSUME PolicyInv, NEW m \in Models, NEW who \in {"tick", "task", "stray"},
         who = "task" => task[m] = "wait", Enter(m, who),
         stray' \in [Models -> 0..MaxStray]
  PROVE  PolicyInv'
<1>1. CASE ClearEnding({m}, {})
  BY <1>1, ClearEndingInv
<1>2. CASE /\ MayAttempt(m)
           /\ apc' = [apc EXCEPT ![m] = "probe"]
           /\ runner' = [runner EXCEPT ![m] = who]
           /\ task' = IF who = "task" THEN [task EXCEPT ![m] = "run"] ELSE task
           /\ UNCHANGED <<pend, real, suspended, startLock>>
  <2>1. apc[m] = "idle" /\ task[m] # "run"
    BY <1>2 DEF MayAttempt, Inflight, PolicyInv, PolicyTypeOK, AttemptsOwned
  <2>2. PolicyTypeOK'
    BY <1>2 DEF PolicyInv, PolicyTypeOK, AttemptPcs, Runners
  <2>3. AttemptsOwned'
    BY <1>2, <2>1 DEF PolicyInv, PolicyTypeOK, AttemptsOwned, AttemptPcs, Runners
  <2>4. StartLockOwned' /\ BreakerHolds'
    BY <1>2, <2>1 DEF PolicyInv, PolicyTypeOK, StartLockOwned, BreakerHolds
  <2> QED
    BY <2>2, <2>3, <2>4 DEF PolicyInv
<1>3. CASE /\ task' = IF who = "task" THEN [task EXCEPT ![m] = "none"] ELSE task
           /\ UNCHANGED <<pend, real, suspended, attemptVars, startLock>>
  <2>1. PolicyTypeOK'
    BY <1>3 DEF PolicyInv, PolicyTypeOK, attemptVars
  <2>2. AttemptsOwned'
    BY <1>3 DEF PolicyInv, PolicyTypeOK, AttemptsOwned, attemptVars
  <2>3. StartLockOwned' /\ BreakerHolds'
    BY <1>3 DEF PolicyInv, StartLockOwned, BreakerHolds, attemptVars
  <2> QED
    BY <2>1, <2>2, <2>3 DEF PolicyInv
<1> QED
  BY <1>1, <1>2, <1>3 DEF Enter

(* A step of a running attempt that keeps the lock as it is.                 *)
LEMMA GotoInv ==
  ASSUME PolicyInv, NEW m \in Models, NEW pc \in AttemptPcs \ {"idle", "connect"},
         apc[m] \notin {"idle", "connect"}, Goto(m, pc),
         UNCHANGED <<historyVars, startLock>>
  PROVE  PolicyInv'
<1>1. PolicyTypeOK'
  BY DEF PolicyInv, PolicyTypeOK, Goto, historyVars
<1>2. StartLockOwned' /\ AttemptsOwned'
  BY DEF PolicyInv, PolicyTypeOK, StartLockOwned, AttemptsOwned, Goto
<1>3. BreakerHolds'
  BY DEF PolicyInv, BreakerHolds, historyVars
<1> QED
  BY <1>1, <1>2, <1>3 DEF PolicyInv

(* The end of an attempt, which gives back the lock if it holds it.          *)
LEMMA EndAttemptInv ==
  ASSUME PolicyInv, NEW m \in Models, EndAttempt(m), UNCHANGED historyVars,
         startLock' = startLock \ {<<"watchdog", m>>}
  PROVE  PolicyInv'
<1>1. PolicyTypeOK'
  BY DEF PolicyInv, PolicyTypeOK, EndAttempt, historyVars, AttemptPcs, Runners
<1>2. StartLockOwned'
  BY DEF PolicyInv, PolicyTypeOK, StartLockOwned, EndAttempt
<1>3. AttemptsOwned'
  BY DEF PolicyInv, PolicyTypeOK, AttemptsOwned, EndAttempt, Runners
<1>4. BreakerHolds'
  BY DEF PolicyInv, BreakerHolds, historyVars
<1> QED
  BY <1>1, <1>2, <1>3, <1>4 DEF PolicyInv

-----------------------------------------------------------------------------
(* Steps of the server.                                                      *)

LEMMA KillType == ASSUME HostTypeOK, NEW ok, Kill(ok) PROVE HostTypeOK'
  BY TroubleAssumption DEF HostTypeOK, Kill, Killed, Spend

LEMMA LaunchType == ASSUME HostTypeOK, NEW m \in Models, Launch(m) PROVE HostTypeOK'
  BY DEF HostTypeOK, Launch

(* A probe changes nothing on the server but the trouble it may spend.       *)
LEMMA SpendType ==
  ASSUME HostTypeOK, UNCHANGED <<served, phase>>, UNCHANGED trouble \/ Spend
  PROVE  HostTypeOK'
  BY TroubleAssumption DEF HostTypeOK, Spend

LEMMA ServerSteps == ASSUME HostTypeOK, HostReady \/ EngineDies \/ ProcessDies
                     PROVE  HostTypeOK'
  BY TroubleAssumption DEF HostTypeOK, HostReady, EngineDies, ProcessDies, Spend

-----------------------------------------------------------------------------
(* Deliberate stops.                                                         *)

StopSide == StateInv /\ HostTypeOK /\ PolicyInv /\ StopInv

(* A request raises the flag and takes an idle slot.                         *)
LEMMA StopCallInv ==
  ASSUME StopSide, NEW c \in Stops, NEW m \in Models, StopCall(c, m) PROVE StopSide'
<1>1. StateInv' /\ HostTypeOK' /\ PolicyInv'
  BY StateFrame, HostFrame, PolicyFrame DEF StopCall, StopSide
<1>2. stop' = [stop EXCEPT ![c] = [pc |-> "kill", m |-> m, ok |-> FALSE]]
  BY DEF StopCall
<1>3. StopTypeOK'
  BY <1>2 DEF StopCall, StopSide, StopInv, StopTypeOK
<1>4. StopSlotsIdle'
  BY <1>2 DEF StopCall, StopSide, StopInv, StopTypeOK, StopSlotsIdle
<1>5. FlagNeverLeaks'
  <2>1. stop[c].m = None
    BY DEF StopCall, StopSide, StopInv, StopSlotsIdle
  <2> QED
    BY <1>2, <2>1, NoneAssumption
       DEF StopCall, StopSide, StopInv, StopTypeOK, FlagNeverLeaks
<1> QED
  BY <1>1, <1>3, <1>4, <1>5 DEF StopSide, StopInv

(* Moving slots on, without freeing one or touching flags or window.         *)
LEMMA SlotMovesInv ==
  ASSUME StopInv, UNCHANGED <<stopping, window, affected>>,
         stop' \in [Stops -> [pc : {"off", "kill", "wait", "unset"},
                              m : Models \cup {None}, ok : BOOLEAN]],
         \A d \in Stops : /\ stop'[d].m = stop[d].m
                          /\ stop'[d].pc = "off" <=> stop[d].pc = "off"
  PROVE  StopInv'
<1>1. StopTypeOK'
  BY DEF StopInv, StopTypeOK
<1>2. StopSlotsIdle'
  <2>1. ASSUME NEW d \in Stops
        PROVE  /\ stop'[d].pc = "off" => stop'[d].m = None
               /\ stop'[d].pc # "off" => stop'[d].m \in Models
    BY DEF StopInv, StopSlotsIdle
  <2> QED
    BY <2>1 DEF StopInv, StopSlotsIdle
<1>3. FlagNeverLeaks'
  <2>1. ASSUME NEW m \in stopping, m \notin affected
        PROVE  \E d \in Stops : stop'[d].m = m
    <3>1. PICK d \in Stops : stop[d].m = m
      BY <2>1 DEF StopInv, FlagNeverLeaks
    <3>2. stop'[d].m = m
      BY <3>1
    <3> QED
      BY <3>2
  <2> QED
    BY <2>1 DEF FlagNeverLeaks
<1> QED
  BY <1>1, <1>2, <1>3 DEF StopInv

LEMMA KilledShape ==
  LET R == [pc : {"off", "kill", "wait", "unset"}, m : Models \cup {None}, ok : BOOLEAN]
  IN  \A r \in R, b \in BOOLEAN : [r EXCEPT !.pc = "wait", !.ok = b] \in R
  OBVIOUS

LEMMA StopKillInv ==
  ASSUME StopSide, NEW c \in Stops, StopKill(c) PROVE StopSide'
<1>1. PICK ok \in BOOLEAN : /\ Kill(ok)
                            /\ stop' = [stop EXCEPT ![c].pc = "wait", ![c].ok = ok]
  BY DEF StopKill
<1>2. StateInv' /\ HostTypeOK' /\ PolicyInv'
  BY <1>1, StateFrame, KillType, PolicyFrame DEF StopKill, StopSide
<1>3. /\ stop' \in [Stops -> [pc : {"off", "kill", "wait", "unset"},
                             m : Models \cup {None}, ok : BOOLEAN]]
      /\ \A d \in Stops : /\ stop'[d].m = stop[d].m
                          /\ stop'[d].pc = "off" <=> stop[d].pc = "off"
  <2>1. stop \in [Stops -> [pc : {"off", "kill", "wait", "unset"},
                            m : Models \cup {None}, ok : BOOLEAN]] /\ stop[c].pc = "kill"
    BY DEF StopKill, StopSide, StopInv, StopTypeOK
  <2>2. /\ stop'[c] = [stop[c] EXCEPT !.pc = "wait", !.ok = ok]
        /\ \A d \in Stops \ {c} : stop'[d] = stop[d]
    BY <1>1, <2>1
  <2>3. ASSUME NEW d \in Stops
        PROVE  stop'[d] \in [pc : {"off", "kill", "wait", "unset"},
                             m : Models \cup {None}, ok : BOOLEAN]
    <3>1. CASE d = c
      BY <2>1, <2>2, <3>1, KilledShape
    <3>2. CASE d # c
      BY <2>1, <2>2, <3>2
    <3> QED
      BY <3>1, <3>2
  <2>4. stop' = [d \in Stops |-> stop'[d]]
    BY <1>1, <2>1
  <2>5. stop'[c].m = stop[c].m /\ stop'[c].pc = "wait"
    BY <2>1, <2>2
  <2> QED
    BY <2>1, <2>2, <2>3, <2>4, <2>5
<1>4. StopInv'
  BY <1>3, SlotMovesInv DEF StopKill, StopSide
<1> QED
  BY <1>2, <1>4 DEF StopSide

(* The only step of a stop that writes the model: STOPPED, no longer         *)
(* current, history cleared.                                                 *)
LEMMA StopWaitInv ==
  ASSUME StopSide, NEW c \in Stops, StopWait(c) PROVE StopSide'
<1> DEFINE m == stop[c].m
<1>1. m \in Models
  BY DEF StopWait, StopSide, StopInv, StopSlotsIdle
<1>2. HostTypeOK'
  <2>1. UNCHANGED trouble \/ Spend
    BY DEF StopWait, WaitAnswer
  <2> QED
    BY <2>1, SpendType DEF StopWait, StopSide
<1>3. StopInv'
  <2>1. /\ stop' \in [Stops -> [pc : {"off", "kill", "wait", "unset"},
                               m : Models \cup {None}, ok : BOOLEAN]]
        /\ \A d \in Stops : /\ stop'[d].m = stop[d].m
                            /\ stop'[d].pc = "off" <=> stop[d].pc = "off"
    BY DEF StopWait, StopSide, StopInv, StopTypeOK
  <2> QED
    BY <2>1, SlotMovesInv DEF StopWait, StopSide
<1>4. StateInv' /\ PolicyInv'
  <2>1. CASE UNCHANGED <<stateVars, policyVars, attemptVars, startLock>>
    BY <2>1, StateFrame, PolicyFrame DEF StopSide
  <2>2. CASE /\ Become(m, "STOPPED")
             /\ ClearCurrent({m})
             /\ Clear({m})
             /\ UNCHANGED locked
    <3> DEFINE new == [status EXCEPT ![m] = "STOPPED"]
    <3>1. new \in [Models -> Statuses] /\ \A x \in Models \ {m} : new[x] = status[x]
      BY DEF StopSide, StateInv, StateTypeOK, Statuses
    <3>2. Update(new) /\ locked' \subseteq Models
      BY <2>2 DEF Become, StopSide, StateInv, StateTypeOK
    <3>3. StateInv'
      <4> HIDE DEF new
      <4> QED
        BY <1>1, <2>2, <3>1, <3>2, DowngradeInv DEF StopSide
    <3>4. PolicyInv'
      BY <1>1, <2>2, ClearInv DEF StopSide
    <3> QED
      BY <3>3, <3>4
  <2> QED
    BY <2>1, <2>2 DEF StopWait
<1> QED
  BY <1>2, <1>3, <1>4 DEF StopSide

(* The finally block lowers the flag of the slot it frees.                   *)
LEMMA StopEndInv ==
  ASSUME StopSide, NEW c \in Stops, StopEnd(c) PROVE StopSide'
<1>1. StateInv' /\ HostTypeOK' /\ PolicyInv'
  BY StateFrame, HostFrame, PolicyFrame DEF StopEnd, StopSide
<1>2. StopTypeOK'
  BY DEF StopEnd, FlagsAfter, StopIdle, StopSide, StopInv, StopTypeOK
<1>3. StopSlotsIdle'
  BY DEF StopEnd, StopIdle, StopSide, StopInv, StopTypeOK, StopSlotsIdle
<1>4. FlagNeverLeaks'
  BY DEF StopEnd, FlagsAfter, StopIdle, StopSide, StopInv, StopTypeOK, FlagNeverLeaks
<1> QED
  BY <1>1, <1>2, <1>3, <1>4 DEF StopSide, StopInv

(* Opening the window takes every live model down, flagged as its own.       *)
LEMMA WindowOpenInv == ASSUME StopSide, WindowOpen PROVE StopSide'
<1> DEFINE live == {m \in Models : status[m] \in Transient}
           new  == [m \in Models |-> IF m \in live THEN "STOPPED" ELSE status[m]]
<1>1. HostTypeOK' /\ PolicyInv'
  BY HostFrame, ClearInv DEF WindowOpen, StopSide
<1>2. StateInv'
  <2>1. new \in [Models -> Statuses] /\ \A x \in Models \ live : new[x] = status[x]
    BY DEF StopSide, StateInv, StateTypeOK, Statuses
  <2>2. Update(new) /\ ClearCurrent(live) /\ locked' \subseteq Models
    BY DEF WindowOpen, StopSide, StateInv, StateTypeOK
  <2> HIDE DEF new
  <2> QED
    BY <2>1, <2>2, DowngradeInv DEF StopSide
<1>3. StopInv'
  BY DEF WindowOpen, StopSide, StopInv, StopTypeOK, StopSlotsIdle, FlagNeverLeaks
<1> QED
  BY <1>1, <1>2, <1>3 DEF StopSide

LEMMA WindowMovesInv == ASSUME StopSide, WindowKill \/ WindowClose PROVE StopSide'
<1>1. CASE WindowKill
  <2>1. StateInv' /\ HostTypeOK' /\ PolicyInv'
    BY <1>1, StateFrame, KillType, PolicyFrame DEF WindowKill, StopSide
  <2>2. StopInv'
    BY <1>1 DEF WindowKill, StopSide, StopInv, StopTypeOK, StopSlotsIdle, FlagNeverLeaks
  <2> QED
    BY <2>1, <2>2 DEF StopSide
<1>2. CASE WindowClose
  <2>1. StateInv' /\ HostTypeOK' /\ PolicyInv'
    BY <1>2, StateFrame, HostFrame, PolicyFrame DEF WindowClose, StopSide
  <2>2. StopInv'
    BY <1>2 DEF WindowClose, StopSide, StopInv, StopTypeOK, StopSlotsIdle, FlagNeverLeaks
  <2> QED
    BY <2>1, <2>2 DEF StopSide
<1> QED
  BY <1>1, <1>2

-----------------------------------------------------------------------------
(* The status sync.                                                          *)

(* Whatever the answers, and however stale: every model the loop takes down  *)
(* is taken off current_model_id, and only an up model is put there.         *)
LEMMA ApplyInv ==
  ASSUME StateInv, PolicyInv, SyncTypeOK, NEW s \in Syncs, NEW r, Apply(s, r)
  PROVE  StateInv' /\ PolicyInv' /\ SyncTypeOK'
<1> DEFINE with(v)  == {m \in Models : Verdict(m, r) = v}
           fallen   == with("crash") \cup with("drop")
           crashed  == {m \in with("crash") : CountsAsCrash(m)}
           statuses == [m \in Models |-> IF m \in with("up") THEN "RUNNING"
                                         ELSE IF m \in fallen THEN "STOPPED" ELSE status[m]]
           new      == AfterCrash(statuses, crashed)
<1>1. statuses \in [Models -> Statuses]
  BY DEF StateInv, StateTypeOK, Statuses
<1>2. new \in [Models -> Statuses]
  BY <1>1, AfterCrashType
<1>3. \A m \in Models \ fallen : new[m] = status[m] \/ new[m] \in Transient \cup {"FAILED"}
  BY DEF AfterCrash, Transient
<1>4. \A m \in with("up") : new[m] \in Transient \cup {"FAILED"}
  BY DEF AfterCrash, Transient
<1>5. Update(new) /\ locked' \subseteq Models
  BY DEF Apply, StateInv, StateTypeOK
<1>6. StateInv'
  <2>1. (\E m \in with("up") : SetCurrent(m)) \/ ClearCurrent(fallen)
    BY DEF Apply
  <2>2. CASE \E m \in with("up") : SetCurrent(m)
    <3>1. PICK m \in with("up") : SetCurrent(m)
      BY <2>2
    <3>2. m \in Models /\ new[m] \in Transient \cup {"FAILED"}
      BY <1>4
    <3> HIDE DEF new
    <3> QED
      BY <1>2, <1>5, <3>1, <3>2, UpgradeInv
  <2>3. CASE ClearCurrent(fallen)
    <3>1. fallen \in SUBSET Models
      OBVIOUS
    <3> HIDE DEF new, fallen
    <3> QED
      BY <1>2, <1>3, <1>5, <2>3, <3>1, DowngradeInv
  <2> QED
    BY <2>1, <2>2, <2>3
<1>7. PolicyInv'
  <2>1. crashed \in SUBSET Models /\ RecordCrash(crashed)
    BY DEF Apply
  <2> QED
    BY <2>1, RecordCrashInv
<1>8. SyncTypeOK'
  BY DEF Apply, SyncTypeOK, SyncIdle, SyncPcs, Answers
<1> QED
  BY <1>6, <1>7, <1>8

LEMMA SyncListInv ==
  ASSUME HostTypeOK, SyncTypeOK, NEW s \in Syncs, SyncList(s)
  PROVE  HostTypeOK' /\ SyncTypeOK'
<1>1. PICK ids \in SUBSET Models :
        /\ ListAnswer(ids)
        /\ sync' = [sync EXCEPT ![s] = [SyncIdle EXCEPT !.pc = "answered", !.ids = ids]]
  BY DEF SyncList
<1>2. HostTypeOK'
  BY <1>1, SpendType DEF SyncList, ListAnswer
<1>3. SyncTypeOK'
  BY <1>1 DEF SyncTypeOK, SyncIdle, SyncPcs, Answers
<1> QED
  BY <1>2, <1>3

LEMMA ProbeSpends ==
  ASSUME NEW a, PresenceAnswer(a) \/ HealthAnswer(a) PROVE UNCHANGED trouble \/ Spend
  BY DEF PresenceAnswer, HealthAnswer

LEMMA SyncStepInv ==
  ASSUME Inv, NEW s \in Syncs, SyncStep(s)
  PROVE  StateInv' /\ HostTypeOK' /\ PolicyInv' /\ StopInv' /\ SyncTypeOK'
<1>1. CASE SyncRead(s)
  <2>1. HostTypeOK' /\ StopInv'
    BY <1>1, HostFrame, StopFrame DEF SyncRead, Inv
  <2>2. CASE Apply(s, sync[s])
    BY <2>1, <2>2, ApplyInv DEF Inv
  <2>3. CASE /\ SecondProbe(sync[s].ids) # "none"
             /\ sync' = [sync EXCEPT ![s].pc = "ask", ![s].probe = SecondProbe(sync[s].ids)]
             /\ UNCHANGED <<stateVars, policyVars, attemptVars, startLock>>
    <3>1. SecondProbe(sync[s].ids) \in {"none", "presence", "health"}
      BY DEF SecondProbe
    <3>2. SyncTypeOK'
      BY <2>3, <3>1 DEF Inv, SyncTypeOK, SyncPcs
    <3>3. StateInv' /\ PolicyInv'
      BY <2>3, StateFrame, PolicyFrame DEF Inv
    <3> QED
      BY <2>1, <3>2, <3>3
  <2> QED
    BY <1>1, <2>2, <2>3 DEF SyncRead
<1>2. CASE SyncAsk(s)
  <2>1. PICK a \in Answers : /\ PresenceAnswer(a) \/ HealthAnswer(a)
                             /\ sync' = [sync EXCEPT ![s].pc = "apply", ![s].ans = a]
    BY <1>2 DEF SyncAsk
  <2>2. HostTypeOK'
    BY <1>2, <2>1, ProbeSpends, SpendType DEF SyncAsk, Inv
  <2>3. SyncTypeOK'
    <3> DEFINE asked == [sync[s] EXCEPT !.pc = "apply", !.ans = a]
               Calls == [pc : SyncPcs, ids : SUBSET Models,
                         probe : {"none", "presence", "health"}, ans : Answers]
    <3>1. sync \in [Syncs -> Calls]
      BY DEF Inv, SyncTypeOK
    <3>2. asked \in Calls
      BY <3>1 DEF SyncPcs
    <3>3. sync' = [sync EXCEPT ![s] = asked]
      BY <2>1
    <3> HIDE DEF asked
    <3>4. sync' \in [Syncs -> Calls]
      BY <3>1, <3>2, <3>3
    <3> QED
      BY <3>4 DEF SyncTypeOK
  <2>4. StateInv' /\ PolicyInv' /\ StopInv'
    BY <1>2, StateFrame, PolicyFrame, StopFrame DEF SyncAsk, Inv
  <2> QED
    BY <2>2, <2>3, <2>4
<1>3. CASE SyncApply(s)
  BY <1>3, ApplyInv, HostFrame, StopFrame DEF SyncApply, Inv
<1> QED
  BY <1>1, <1>2, <1>3 DEF SyncStep

-----------------------------------------------------------------------------
(* Starting a model.                                                         *)

LEMMA MarkLoadingInv ==
  ASSUME StateInv, StartInv, NEW m \in Models, MarkLoading(m),
         typed' \subseteq Models
  PROVE  StateInv' /\ StartInv'
<1> DEFINE new == [status EXCEPT ![m] = "LOADING"]
<1>1. new \in [Models -> Statuses] /\ new[m] \in Transient \cup {"FAILED"}
  BY DEF StateInv, StateTypeOK, Statuses, Transient
<1>2. Update(new) /\ SetCurrent(m) /\ locked' \subseteq Models
  BY DEF MarkLoading, Become, StateInv, StateTypeOK
<1>3. StateInv'
  <2> HIDE DEF new
  <2> QED
    BY <1>1, <1>2, UpgradeInv
<1>4. StartInv'
  BY DEF MarkLoading, StartInv, StartTypeOK, ProbesNamed, ProbePcs
<1> QED
  BY <1>3, <1>4

(* The user takes and gives back _start_lock, the watchdog holding none of   *)
(* it meanwhile.                                                             *)
LEMMA UserLockInv ==
  ASSUME PolicyInv, NEW m \in Models, UNCHANGED <<policyVars, attemptVars>>,
         \/ startLock = {} /\ startLock' = {<<"user", m>>}
         \/ startLock' = startLock \ {<<"user", m>>}
  PROVE  PolicyInv'
<1>1. PolicyTypeOK'
  BY DEF PolicyInv, PolicyTypeOK, policyVars, attemptVars
<1>2. StartLockOwned'
  BY DEF PolicyInv, StartLockOwned, attemptVars
<1>3. AttemptsOwned' /\ BreakerHolds'
  BY DEF PolicyInv, AttemptsOwned, BreakerHolds, policyVars, attemptVars
<1> QED
  BY <1>1, <1>2, <1>3 DEF PolicyInv

LEMMA UserStartInv ==
  ASSUME Inv, NEW m \in Models, UserStart(m), UNCHANGED tickVars PROVE Inv'
<1>1. PolicyInv'
  BY UserLockInv DEF UserStart, Inv
<1> QED
  BY <1>1, StateFrame, HostFrame, StopFrame, SyncFrame, StartFrame, TickFrame
     DEF UserStart, Inv

LEMMA StartingInv ==
  ASSUME Inv, NEW m \in Models, UserStarted(m) \/ UserRefused(m) \/ Type(m),
         UNCHANGED tickVars
  PROVE  Inv'
<1>1. TickTypeOK'
  BY TickFrame DEF Inv
<1>2. CASE UserStarted(m)
  <2>1. StateInv' /\ StartInv'
    BY <1>2, MarkLoadingInv DEF UserStarted, Inv, StartInv, StartTypeOK
  <2>2. PolicyInv'
    BY <1>2, UserLockInv DEF UserStarted, Inv
  <2> QED
    BY <1>1, <1>2, <2>1, <2>2, HostFrame, StopFrame, SyncFrame DEF UserStarted, Inv
<1>3. CASE UserRefused(m)
  <2>1. PolicyInv'
    BY <1>3, UserLockInv DEF UserRefused, Inv
  <2>2. HostTypeOK'
    BY <1>3, SpendType DEF UserRefused, Inv
  <2> QED
    BY <1>1, <1>3, <2>1, <2>2, StateFrame, StopFrame, SyncFrame, StartFrame
       DEF UserRefused, Inv
<1>4. CASE Type(m)
  <2>1. HostTypeOK'
    BY <1>4, LaunchType, SpendType DEF Type, Inv
  <2>2. StartInv'
    BY <1>4 DEF Type, Inv, StartInv, StartTypeOK, ProbesNamed
  <2> QED
    BY <1>1, <1>4, <2>1, <2>2, StateFrame, PolicyFrame, StopFrame, SyncFrame DEF Type, Inv
<1> QED
  BY <1>2, <1>3, <1>4

LEMMA ProbeStepInv ==
  ASSUME Inv, NEW p \in Probes, ProbeStep(p), UNCHANGED tickVars PROVE Inv'
<1>1. TickTypeOK'
  BY TickFrame DEF Inv
<1>2. CASE ProbeWake(p)
  <2>1. StartInv'
    BY <1>2 DEF ProbeWake, ProbeOff, Inv, StartInv, StartTypeOK, ProbesNamed, ProbePcs
  <2> QED
    BY <1>1, <1>2, <2>1, StateFrame, HostFrame, PolicyFrame, StopFrame, SyncFrame
       DEF ProbeWake, Inv
<1>3. CASE ProbeAsk(p)
  <2>1. PICK a \in Answers :
          /\ PresenceAnswer(a)
          /\ probe' = [probe EXCEPT ![p] =
                         IF a # "no" THEN ProbeOff
                         ELSE [@ EXCEPT !.pc = IF @ = "ask1" THEN "sleep2" ELSE "judge"]]
    BY <1>3 DEF ProbeAsk
  <2>2. HostTypeOK'
    BY <1>3, <2>1, ProbeSpends, SpendType DEF ProbeAsk, Inv
  <2>3. StartInv'
    BY <1>3, <2>1 DEF ProbeAsk, ProbeOff, Inv, StartInv, StartTypeOK, ProbesNamed, ProbePcs
  <2> QED
    BY <1>1, <1>3, <2>2, <2>3, StateFrame, PolicyFrame, StopFrame, SyncFrame
       DEF ProbeAsk, Inv
<1>4. CASE ProbeJudge(p)
  <2> DEFINE m       == probe[p].m
             crashed == {m} \cap locked
             down    == [status EXCEPT ![m] = "STOPPED"]
             new     == AfterCrash(down, crashed)
  <2>1. m \in Models /\ crashed \in SUBSET Models
    BY <1>4 DEF ProbeJudge, Inv, StartInv, ProbesNamed, StateInv, StateTypeOK
  <2>2. StartInv'
    BY <1>4 DEF ProbeJudge, ProbeOff, Inv, StartInv, StartTypeOK, ProbesNamed, ProbePcs
  <2>3. StateInv' /\ PolicyInv'
    <3>1. CASE UNCHANGED <<stateVars, policyVars, attemptVars, startLock>>
      BY <3>1, StateFrame, PolicyFrame DEF Inv
    <3>2. CASE /\ Update(new)
               /\ ClearCurrent({m})
               /\ RecordCrash(crashed)
               /\ UNCHANGED locked
      <4>1. down \in [Models -> Statuses]
        BY DEF Inv, StateInv, StateTypeOK, Statuses
      <4>2. new \in [Models -> Statuses]
        BY <4>1, AfterCrashType
      <4>3. \A x \in Models \ {m} : new[x] = status[x]
        BY DEF AfterCrash, Tripped, Inv, StateInv, StateTypeOK
      <4>4. locked' \subseteq Models /\ {m} \in SUBSET Models
        BY <2>1, <3>2 DEF Inv, StateInv, StateTypeOK
      <4>5. StateInv'
        <5> HIDE DEF new
        <5> QED
          BY <3>2, <4>2, <4>3, <4>4, DowngradeInv DEF Inv
      <4>6. PolicyInv'
        BY <2>1, <3>2, RecordCrashInv DEF Inv
      <4> QED
        BY <4>5, <4>6
    <3> QED
      BY <1>4, <3>1, <3>2 DEF ProbeJudge
  <2> QED
    BY <1>1, <1>4, <2>2, <2>3, HostFrame, StopFrame, SyncFrame DEF ProbeJudge, Inv
<1> QED
  BY <1>2, <1>3, <1>4 DEF ProbeStep

-----------------------------------------------------------------------------
(* The restart attempt.                                                      *)

LEMMA FiringInv ==
  ASSUME Inv, NEW m \in Models, TaskFires(m) \/ StrayFires(m) PROVE Inv'
<1>1. stray' \in [Models -> 0..MaxStray]
  BY StrayAssumption DEF TaskFires, StrayFires, Inv, PolicyInv, PolicyTypeOK
<1>2. PolicyInv'
  BY <1>1, EnterInv DEF TaskFires, StrayFires, Inv
<1> QED
  BY <1>2, StateFrame, HostFrame, StopFrame, SyncFrame, StartFrame, TickFrame
     DEF TaskFires, StrayFires, Inv

(* The attempt's steps that only ask the server, kill on it or wait.         *)
LEMMA AttemptAsksInv ==
  ASSUME Inv, NEW m \in Models, AttemptProbe(m) \/ AttemptHealth(m) \/ AttemptKill(m)
  PROVE  Inv'
<1>1. HostTypeOK'
  <2>1. CASE AttemptProbe(m) \/ AttemptHealth(m)
    BY <2>1, ProbeSpends, SpendType DEF AttemptProbe, AttemptHealth, Inv
  <2>2. CASE AttemptKill(m)
    BY <2>2, KillType DEF AttemptKill, Inv
  <2> QED
    BY <2>1, <2>2
<1>2. PolicyInv'
  <2>1. /\ UNCHANGED <<historyVars, startLock>>
        /\ apc[m] \in {"probe", "health", "kill"}
        /\ EndAttempt(m) \/ \E pc \in {"health", "kill", "start"} : Goto(m, pc)
    BY DEF AttemptProbe, AttemptHealth, AttemptKill
  <2>2. CASE \E pc \in {"health", "kill", "start"} : Goto(m, pc)
    BY <2>1, <2>2, GotoInv DEF Inv, AttemptPcs
  <2>3. CASE EndAttempt(m)
    <3>1. startLock' = startLock \ {<<"watchdog", m>>}
      BY <2>1 DEF Inv, PolicyInv, StartLockOwned
    <3> QED
      BY <2>1, <2>3, <3>1, EndAttemptInv DEF Inv
  <2> QED
    BY <2>1, <2>2, <2>3
<1> QED
  BY <1>1, <1>2, StateFrame, StopFrame, SyncFrame, StartFrame, TickFrame
     DEF AttemptProbe, AttemptHealth, AttemptKill, Inv

(* start_model under _start_lock: the lock is taken with the move to         *)
(* "connect", or not at all.                                                 *)
LEMMA AttemptStartInv ==
  ASSUME Inv, NEW m \in Models, AttemptStart(m) PROVE Inv'
<1>1. PolicyInv'
  <2>1. CASE /\ startLock' = {<<"watchdog", m>>}
             /\ Goto(m, "connect")
             /\ UNCHANGED historyVars
    <3>1. PolicyTypeOK'
      BY <2>1 DEF Inv, PolicyInv, PolicyTypeOK, Goto, historyVars, AttemptPcs
    <3>2. StartLockOwned'
      BY <2>1 DEF AttemptStart, Inv, PolicyInv, PolicyTypeOK, StartLockOwned, Goto
    <3>3. AttemptsOwned'
      BY <2>1 DEF AttemptStart, Inv, PolicyInv, PolicyTypeOK, AttemptsOwned, Goto
    <3>4. BreakerHolds'
      BY <2>1 DEF Inv, PolicyInv, BreakerHolds, historyVars
    <3> QED
      BY <3>1, <3>2, <3>3, <3>4 DEF PolicyInv
  <2>2. CASE EndAttempt(m) /\ UNCHANGED <<historyVars, startLock>>
    <3>1. startLock' = startLock \ {<<"watchdog", m>>}
      BY <2>2 DEF AttemptStart
    <3> QED
      BY <2>2, <3>1, EndAttemptInv DEF Inv
  <2>3. CASE ClearEnding({m}, {m}) /\ UNCHANGED stray
    <3>1. stray' \in [Models -> 0..MaxStray]
      BY <2>3 DEF Inv, PolicyInv, PolicyTypeOK
    <3> QED
      BY <2>3, <3>1, ClearEndingInv DEF Inv
  <2> QED
    BY <2>1, <2>2, <2>3 DEF AttemptStart
<1> QED
  BY <1>1, StateFrame, HostFrame, StopFrame, SyncFrame, StartFrame, TickFrame
     DEF AttemptStart, Inv

LEMMA AttemptStartedInv ==
  ASSUME Inv, NEW m \in Models, AttemptStarted(m) PROVE Inv'
<1>1. StateInv' /\ StartInv'
  BY MarkLoadingInv DEF AttemptStarted, Inv, StartInv, StartTypeOK
<1>2. PolicyInv'
  <2>1. PolicyTypeOK'
    BY DEF AttemptStarted, Inv, PolicyInv, PolicyTypeOK, Goto, historyVars, AttemptPcs
  <2>2. StartLockOwned' /\ AttemptsOwned'
    BY DEF AttemptStarted, Inv, PolicyInv, PolicyTypeOK, StartLockOwned, AttemptsOwned, Goto
  <2>3. BreakerHolds'
    BY DEF AttemptStarted, Inv, PolicyInv, BreakerHolds, historyVars
  <2> QED
    BY <2>1, <2>2, <2>3 DEF PolicyInv
<1> QED
  BY <1>1, <1>2, HostFrame, StopFrame, SyncFrame, TickFrame DEF AttemptStarted, Inv

LEMMA AttemptRefusedInv ==
  ASSUME Inv, NEW m \in Models, AttemptRefused(m) PROVE Inv'
<1>1. HostTypeOK'
  BY SpendType DEF AttemptRefused, Inv
<1>2. StateInv' /\ PolicyInv'
  <2>1. CASE /\ EndAttempt(m)
             /\ startLock' = startLock \ {<<"watchdog", m>>}
             /\ UNCHANGED <<stateVars, historyVars>>
    BY <2>1, StateFrame, EndAttemptInv DEF Inv
  <2>2. CASE /\ Become(m, "FAILED")
             /\ ClearEnding({m}, {m})
             /\ UNCHANGED <<locked, current, stray>>
    <3> DEFINE new == [status EXCEPT ![m] = "FAILED"]
    <3>1. new \in [Models -> Statuses] /\ Update(new)
      BY <2>2 DEF Become, Inv, StateInv, StateTypeOK, Statuses
    <3>2. /\ \A x \in Models : new[x] = status[x] \/ new[x] \in Transient \cup {"FAILED"}
          /\ ClearCurrent({}) /\ locked' \subseteq Models
      BY <2>2 DEF ClearCurrent, Inv, StateInv, StateTypeOK
    <3>3. StateInv'
      <4> HIDE DEF new
      <4> QED
        BY <3>1, <3>2, DowngradeInv DEF Inv
    <3>4. stray' \in [Models -> 0..MaxStray]
      BY <2>2 DEF Inv, PolicyInv, PolicyTypeOK
    <3> QED
      BY <2>2, <3>3, <3>4, ClearEndingInv DEF Inv
  <2> QED
    BY <2>1, <2>2 DEF AttemptRefused
<1> QED
  BY <1>1, <1>2, StopFrame, SyncFrame, StartFrame, TickFrame DEF AttemptRefused, Inv

LEMMA AttemptDeliverInv ==
  ASSUME Inv, NEW m \in Models, AttemptDeliver(m) PROVE Inv'
<1>1. HostTypeOK'
  BY LaunchType, SpendType DEF AttemptDeliver, Inv
<1>2. startLock' = startLock \ {<<"watchdog", m>>}
  BY DEF AttemptDeliver, Inv, PolicyInv, StartLockOwned
<1>3. PolicyInv'
  BY <1>2, EndAttemptInv DEF AttemptDeliver, Inv
<1> QED
  BY <1>1, <1>3, StateFrame, StopFrame, SyncFrame, StartFrame, TickFrame
     DEF AttemptDeliver, Inv

LEMMA AttemptStepInv == ASSUME Inv, NEW m \in Models, AttemptStep(m) PROVE Inv'
  BY AttemptAsksInv, AttemptStartInv, AttemptStartedInv, AttemptRefusedInv,
     AttemptDeliverInv DEF AttemptStep

-----------------------------------------------------------------------------
(* The tick and the operations of the user.                                  *)

LEMMA TickStartInv == ASSUME Inv, TickStart PROVE Inv'
<1>1. HostTypeOK' /\ SyncTypeOK'
  BY SyncListInv, SyncsAssumption DEF TickStart, Inv
<1>2. TickTypeOK'
  BY DEF TickStart, Inv, TickTypeOK
<1> QED
  BY <1>1, <1>2, StateFrame, PolicyFrame, StopFrame, StartFrame
     DEF TickStart, SyncList, Inv

LEMMA TickStepInv == ASSUME Inv, TickStep PROVE Inv'
<1>1. CASE TickScan
  <2>1. PolicyInv'
    <3>1. TickClears \in SUBSET Models
      BY DEF TickClears, Inv, StateInv, StateTypeOK
    <3> QED
      BY <1>1, <3>1, ClearInv DEF TickScan, Inv
  <2>2. SyncTypeOK'
    BY <1>1 DEF TickScan, Inv, SyncTypeOK, SyncIdle, SyncPcs, Answers
  <2>3. TickTypeOK'
    BY <1>1 DEF TickScan, TickEvents, Inv, TickTypeOK, PolicyInv, PolicyTypeOK
  <2> QED
    BY <1>1, <2>1, <2>2, <2>3, StateFrame, HostFrame, StopFrame, StartFrame
       DEF TickScan, Inv
<1>2. CASE TickEnd
  <2>1. TickTypeOK'
    BY <1>2 DEF TickEnd, Inv, TickTypeOK
  <2> QED
    BY <1>2, <2>1, StateFrame, HostFrame, PolicyFrame, StopFrame, SyncFrame, StartFrame
       DEF TickEnd, Inv
<1>3. ASSUME NEW m \in Models, TickNext(m) PROVE Inv'
  <2>1. stray' \in [Models -> 0..MaxStray]
    BY <1>3 DEF TickNext, Inv, PolicyInv, PolicyTypeOK
  <2>2. PolicyInv'
    BY <1>3, <2>1, EnterInv DEF TickNext, Inv
  <2>3. TickTypeOK'
    BY <1>3 DEF TickNext, Inv, TickTypeOK
  <2> QED
    BY <1>3, <2>2, <2>3, StateFrame, HostFrame, StopFrame, SyncFrame, StartFrame
       DEF TickNext, Inv
<1> QED
  BY <1>1, <1>2, <1>3 DEF TickStep

LEMMA LockInv == ASSUME Inv, NEW m \in Models, Lock(m) \/ Unlock(m) PROVE Inv'
<1>1. StateInv'
  BY DEF Lock, Unlock, SetLocked, SetUnlocked, Inv, StateInv, StateTypeOK, CurrentIsLive
<1>2. PolicyInv'
  <2>1. {m} \in SUBSET Models
    OBVIOUS
  <2> QED
    BY <2>1, PolicyFrame, ClearInv DEF Lock, Unlock, Inv
<1> QED
  BY <1>1, <1>2, HostFrame, StopFrame, SyncFrame, StartFrame, TickFrame
     DEF Lock, Unlock, Inv

LEMMA ElapseInv == ASSUME StateInv, NEW m \in Models, Elapse(m) PROVE StateInv'
  BY DEF Elapse, StateInv, StateTypeOK, CurrentIsLive, Ages

LEMMA ExpireInv == ASSUME PolicyInv, NEW m \in Models, Expire(m) PROVE PolicyInv'
<1>1. PolicyTypeOK'
  BY BreakerAssumption DEF Expire, PolicyInv, PolicyTypeOK
<1>2. StartLockOwned' /\ AttemptsOwned'
  BY DEF Expire, PolicyInv, StartLockOwned, AttemptsOwned
<1>3. BreakerHolds'
  BY BreakerAssumption DEF Expire, PolicyInv, PolicyTypeOK, BreakerHolds
<1> QED
  BY <1>1, <1>2, <1>3 DEF PolicyInv

(* A restart drops every task, flag and lock at once.                        *)
LEMMA RestartInv == ASSUME Inv, DashboardRestart PROVE Inv'
<1>1. StateInv'
  <2>1. Coerced \in [Models -> Statuses]
    BY DEF Coerced, Inv, StateInv, StateTypeOK, Statuses
  <2>2. StateTypeOK'
    BY <2>1, UpdateType DEF DashboardRestart, Reload, Inv, StateInv, StateTypeOK
  <2>3. CurrentIsLive'
    BY DEF DashboardRestart, Reload, CurrentIsLive
  <2> QED
    BY <2>2, <2>3 DEF StateInv
<1>2. PolicyInv'
  <2>1. PendingLockedRestarts \subseteq Models
    BY DEF PendingLockedRestarts, Inv, StateInv, StateTypeOK
  <2>2. PolicyTypeOK'
    BY <2>1, BreakerAssumption, StrayAssumption
       DEF DashboardRestart, Replay, PolicyTypeOK, AttemptPcs, Runners
  <2>3. StartLockOwned' /\ AttemptsOwned'
    BY DEF DashboardRestart, Replay, StartLockOwned, AttemptsOwned
  <2>4. BreakerHolds'
    BY BreakerAssumption DEF DashboardRestart, Replay, BreakerHolds
  <2> QED
    BY <2>2, <2>3, <2>4 DEF PolicyInv
<1>3. StopInv'
  BY DEF DashboardRestart, StopIdle, StopInv, StopTypeOK, StopSlotsIdle, FlagNeverLeaks
<1>4. SyncTypeOK'
  BY DEF DashboardRestart, SyncTypeOK, SyncIdle, SyncPcs, Answers
<1>5. StartInv' /\ TickTypeOK'
  BY DEF DashboardRestart, ProbeOff, Inv, StartInv, StartTypeOK, ProbesNamed, ProbePcs,
         TickTypeOK
<1> QED
  BY <1>1, <1>2, <1>3, <1>4, <1>5, HostFrame DEF DashboardRestart, Inv

(* A step of the stop component leaves the others alone.                     *)
LEMMA StopComponentInv ==
  ASSUME Inv, StopSide', UNCHANGED Others PROVE Inv'
  BY SyncFrame, StartFrame, TickFrame DEF Inv, StopSide, Others

LEMMA UserNextInv == ASSUME Inv, UserNext PROVE Inv'
<1>1. StopSide
  BY DEF Inv, StopSide
<1>2. CASE Request
  <2>1. ASSUME NEW m \in Models, UserStart(m), UNCHANGED tickVars PROVE Inv'
    BY <2>1, UserStartInv
  <2>2. ASSUME NEW c \in Stops, NEW m \in Models, StopCall(c, m), UNCHANGED Others
        PROVE  Inv'
    BY <1>1, <2>2, StopCallInv, StopComponentInv
  <2> QED
    BY <1>2, <2>1, <2>2 DEF Request
<1>3. ASSUME NEW m \in Models, Lock(m) \/ Unlock(m) PROVE Inv'
  BY <1>3, LockInv
<1>4. CASE WindowOpen /\ UNCHANGED Others
  BY <1>1, <1>4, WindowOpenInv, StopComponentInv
<1>5. CASE DashboardRestart
  BY <1>5, RestartInv
<1>6. ASSUME NEW m \in Models, Expire(m), UNCHANGED <<stateVars, hostVars, stopVars, Others>>
      PROVE  Inv'
  BY <1>6, ExpireInv, StateFrame, HostFrame, StopFrame, SyncFrame, StartFrame, TickFrame
     DEF Inv, Others
<1>7. locked \subseteq Models
  BY DEF Inv, StateInv, StateTypeOK
<1> QED
  BY <1>2, <1>3, <1>4, <1>5, <1>6, <1>7 DEF UserNext

LEMMA SystemNextInv == ASSUME Inv, SystemNext PROVE Inv' /\ UNCHANGED ops
<1>1. StopSide
  BY DEF Inv, StopSide
<1>2. ASSUME Serves \/ Fails PROVE Inv'
  BY <1>2, ServerSteps, StateFrame, PolicyFrame, StopFrame, SyncFrame, StartFrame, TickFrame
     DEF Serves, Fails, Others, Inv
<1>3. CASE Window
  BY <1>1, <1>3, WindowMovesInv, StopComponentInv DEF Window
<1>4. CASE TickBegins
  BY <1>4, TickStartInv DEF TickBegins
<1>5. CASE TickRuns
  BY <1>5, TickStepInv DEF TickRuns
<1>6. ASSUME NEW m \in Models, Wait(m) PROVE Inv'
  BY <1>6, ElapseInv, HostFrame, PolicyFrame, StopFrame, SyncFrame, StartFrame, TickFrame
     DEF Wait, Others, Inv
<1>7. ASSUME NEW m \in Models, Starting(m) PROVE Inv'
  BY <1>7, StartingInv DEF Starting
<1>8. ASSUME NEW m \in Models, Firing(m) PROVE Inv'
  BY <1>8, FiringInv DEF Firing
<1>9. ASSUME NEW m \in Models, Attempting(m) PROVE Inv'
  BY <1>9, AttemptStepInv DEF Attempting
<1>10. ASSUME NEW c \in Stops, Stopping(c) PROVE Inv'
  BY <1>1, <1>10, StopKillInv, StopWaitInv, StopEndInv, StopComponentInv
     DEF Stopping, StopStep
<1>11. ASSUME NEW s \in Syncs, Syncing(s) PROVE Inv'
  BY <1>11, SyncStepInv, StartFrame, TickFrame DEF Syncing, Inv
<1>12. ASSUME NEW s \in Syncs, Poll(s) PROVE Inv'
  BY <1>12, SyncListInv, StateFrame, PolicyFrame, StopFrame, StartFrame, TickFrame
     DEF Poll, SyncList, Inv
<1>13. ASSUME NEW p \in Probes, Probing(p) PROVE Inv'
  BY <1>13, ProbeStepInv DEF Probing
<1>14. Inv'
  BY <1>2, <1>3, <1>4, <1>5, <1>6, <1>7, <1>8, <1>9, <1>10, <1>11, <1>12, <1>13
     DEF SystemNext
<1>15. UNCHANGED ops
  BY DEF SystemNext, Serves, Fails, Window, TickBegins, TickRuns, Wait, Starting, Firing,
         Attempting, Stopping, Syncing, Poll, Probing
<1> QED
  BY <1>14, <1>15

-----------------------------------------------------------------------------
(* The theorems.                                                             *)

LEMMA InitIInv == Init => IInv
<1> SUFFICES ASSUME Init PROVE IInv
  OBVIOUS
<1>1. StateInv /\ HostTypeOK
  <2>1. CASE WarmInit
    BY <2>1, TroubleAssumption
       DEF WarmInit, StateInv, StateTypeOK, CurrentIsLive, HostTypeOK, Statuses, Transient,
           Ages
  <2>2. CASE StateInit /\ HostInit
    BY <2>2, TroubleAssumption
       DEF StateInit, HostInit, StateInv, StateTypeOK, CurrentIsLive, HostTypeOK, Statuses,
           Ages
  <2> QED
    BY <2>1, <2>2 DEF Init
<1>2. PolicyInv
  BY BreakerAssumption, StrayAssumption
     DEF Init, PolicyInit, PolicyInv, PolicyTypeOK, StartLockOwned, AttemptsOwned,
         BreakerHolds, AttemptPcs, Runners
<1>3. StopInv
  BY DEF Init, StopInit, StopIdle, StopInv, StopTypeOK, StopSlotsIdle, FlagNeverLeaks
<1>4. SyncTypeOK
  BY DEF Init, SyncInit, SyncIdle, SyncTypeOK, SyncPcs, Answers
<1>5. StartInv /\ TickTypeOK
  BY DEF Init, StartInit, TickInit, ProbeOff, StartInv, StartTypeOK, ProbesNamed, ProbePcs,
         TickTypeOK
<1>6. ops \in 0..MaxOps
  BY OpsAssumption DEF Init
<1> QED
  BY <1>1, <1>2, <1>3, <1>4, <1>5, <1>6 DEF IInv, Inv

LEMMA StepIInv == IInv /\ [Next]_vars => IInv'
<1> SUFFICES ASSUME IInv, [Next]_vars PROVE IInv'
  OBVIOUS
<1>1. CASE UserNext /\ ops > 0 /\ ops' = ops - 1
  <2>1. Inv'
    BY <1>1, UserNextInv DEF IInv
  <2> QED
    BY <1>1, <2>1, OpsAssumption DEF IInv
<1>2. CASE SystemNext
  BY <1>2, SystemNextInv DEF IInv
<1>3. CASE UNCHANGED vars
  BY <1>3, StateFrame, HostFrame, PolicyFrame, StopFrame, SyncFrame, StartFrame, TickFrame
     DEF vars, IInv, Inv
<1> QED
  BY <1>1, <1>2, <1>3 DEF Next

LEMMA Inductive == Spec => []IInv
  BY InitIInv, StepIInv, PTL DEF Spec

(* Every reachable state is well typed, and loading_since is set exactly     *)
(* while a model is LOADING.                                                 *)
THEOREM ControlTypes == Spec => []TypeOK
<1>1. IInv => TypeOK
  BY DEF IInv, Inv, TypeOK, StateInv, PolicyInv, StopInv, StartInv
<1> QED
  BY <1>1, Inductive, PTL

(* _start_lock has one holder, and the watchdog's hold ends with the attempt *)
(* that took it, cancelled or not.                                           *)
THEOREM StartLockIsOwned == Spec => []StartLockOwned
<1>1. IInv => StartLockOwned
  BY DEF IInv, Inv, PolicyInv
<1> QED
  BY <1>1, Inductive, PTL

(* _restart_tasks and _inflight agree with the attempts that run.            *)
THEOREM AttemptsAreOwned == Spec => []AttemptsOwned
<1>1. IInv => AttemptsOwned
  BY DEF IInv, Inv, PolicyInv
<1> QED
  BY <1>1, Inductive, PTL

(* A model at the crash limit is suspended.                                  *)
THEOREM BreakerAlwaysHolds == Spec => []BreakerHolds
<1>1. IInv => BreakerHolds
  BY DEF IInv, Inv, PolicyInv
<1> QED
  BY <1>1, Inductive, PTL

(* No flag of _stopping_models survives the stops and the window it is for.  *)
THEOREM NoFlagLeaks == Spec => []FlagNeverLeaks
<1>1. IInv => FlagNeverLeaks
  BY DEF IInv, Inv, StopInv
<1> QED
  BY <1>1, Inductive, PTL

(* The current model is up, coming up or FAILED.                             *)
THEOREM CurrentAlwaysLive == Spec => []CurrentIsLive
<1>1. IInv => CurrentIsLive
  BY DEF IInv, Inv, StateInv
<1> QED
  BY <1>1, Inductive, PTL

-----------------------------------------------------------------------------
(* No crash is recorded for a model being stopped.                           *)

Spared == \A m \in Models : m \in stopping => real'[m] <= real[m]

LEMMA RealNat == ASSUME Inv, NEW m \in Models PROVE real[m] \in Nat
  BY BreakerAssumption DEF Inv, PolicyInv, PolicyTypeOK

LEMMA SparedSame == ASSUME Inv, UNCHANGED real PROVE Spared
  BY RealNat DEF Spared

LEMMA SparedClear == ASSUME Inv, NEW S, NEW over, ClearEnding(S, over) PROVE Spared
  BY RealNat DEF Spared, ClearEnding

(* Only RecordCrash adds events, and both its callers leave stopping models  *)
(* out.                                                                      *)
LEMMA SparedRecord ==
  ASSUME Inv, NEW S \in SUBSET Models, S \cap stopping = {}, RecordCrash(S) PROVE Spared
<1> SUFFICES ASSUME NEW m \in Models, m \in stopping PROVE real'[m] <= real[m]
  BY DEF Spared
<1>1. m \notin S
  OBVIOUS
<1>2. real'[m] = real[m]
  BY <1>1 DEF RecordCrash
<1> QED
  BY <1>2, RealNat

LEMMA SparedApply == ASSUME Inv, NEW s, NEW r, Apply(s, r) PROVE Spared
<1> DEFINE crashed == {m \in {x \in Models : Verdict(x, r) = "crash"} : CountsAsCrash(m)}
<1>1. RecordCrash(crashed) /\ crashed \in SUBSET Models
  BY DEF Apply
<1>2. crashed \cap stopping = {}
  BY DEF CountsAsCrash, IsStopping
<1> HIDE DEF crashed
<1> QED
  BY <1>1, <1>2, SparedRecord

LEMMA SparedEnter ==
  ASSUME Inv, NEW m \in Models, NEW who, Enter(m, who) PROVE Spared
  BY SparedSame, SparedClear DEF Enter

LEMMA SparedUser == ASSUME Inv, UserNext PROVE Spared
<1>1. CASE Request
  BY <1>1, SparedSame DEF Request, UserStart, StopCall, policyVars
<1>2. ASSUME NEW m \in Models, Lock(m) \/ Unlock(m) PROVE Spared
  BY <1>2, SparedSame, SparedClear DEF Lock, Unlock, Clear, policyVars
<1>3. CASE WindowOpen
  BY <1>3, SparedClear DEF WindowOpen, Clear
<1>4. CASE DashboardRestart
  BY <1>4, RealNat DEF DashboardRestart, Replay, Spared
<1>5. ASSUME NEW m \in Models, Expire(m) PROVE Spared
  <2>1. real' = [real EXCEPT ![m] = @ - 1] /\ real \in [Models -> 0..BreakerMaxCrashes]
    BY <1>5 DEF Expire, Inv, PolicyInv, PolicyTypeOK
  <2> QED
    BY <2>1, BreakerAssumption DEF Spared
<1>6. locked \subseteq Models
  BY DEF Inv, StateInv, StateTypeOK
<1> QED
  BY <1>1, <1>2, <1>3, <1>4, <1>5, <1>6 DEF UserNext

LEMMA SparedSystem == ASSUME Inv, SystemNext PROVE Spared
<1>1. ASSUME Serves \/ Fails \/ Window \/ TickBegins PROVE Spared
  BY <1>1, SparedSame DEF Serves, Fails, Window, WindowKill, WindowClose, TickBegins,
                          TickStart, SyncList, policyVars
<1>2. CASE TickRuns
  <2>1. CASE TickScan
    BY <2>1, SparedClear DEF TickScan, Clear
  <2>2. CASE TickEnd
    BY <2>2, SparedSame DEF TickEnd, policyVars
  <2>3. ASSUME NEW m \in Models, TickNext(m) PROVE Spared
    BY <2>3, SparedEnter DEF TickNext
  <2> QED
    BY <1>2, <2>1, <2>2, <2>3 DEF TickRuns, TickStep
<1>3. ASSUME NEW m \in Models, Wait(m) \/ Starting(m) PROVE Spared
  BY <1>3, SparedSame DEF Wait, Starting, UserStarted, UserRefused, Type, policyVars
<1>4. ASSUME NEW m \in Models, Firing(m) PROVE Spared
  BY <1>4, SparedEnter DEF Firing, TaskFires, StrayFires
<1>5. ASSUME NEW m \in Models, Attempting(m) PROVE Spared
  <2>1. CASE AttemptProbe(m) \/ AttemptHealth(m) \/ AttemptKill(m) \/ AttemptStarted(m)
             \/ AttemptDeliver(m)
    BY <2>1, SparedSame DEF AttemptProbe, AttemptHealth, AttemptKill, AttemptStarted,
                            AttemptDeliver, historyVars
  <2>2. CASE AttemptStart(m) \/ AttemptRefused(m)
    BY <2>2, SparedSame, SparedClear DEF AttemptStart, AttemptRefused, historyVars
  <2> QED
    BY <1>5, <2>1, <2>2 DEF Attempting, AttemptStep
<1>6. ASSUME NEW c \in Stops, Stopping(c) PROVE Spared
  BY <1>6, SparedSame, SparedClear
     DEF Stopping, StopStep, StopKill, StopWait, StopEnd, Clear, policyVars
<1>7. ASSUME NEW s \in Syncs, Syncing(s) PROVE Spared
  BY <1>7, SparedSame, SparedApply
     DEF Syncing, SyncStep, SyncRead, SyncAsk, SyncApply, policyVars
<1>8. ASSUME NEW s \in Syncs, Poll(s) PROVE Spared
  BY <1>8, SparedSame DEF Poll, SyncList, policyVars
<1>9. ASSUME NEW p \in Probes, Probing(p) PROVE Spared
  <2>1. CASE UNCHANGED real
    BY <2>1, SparedSame
  <2>2. CASE RollsBack(probe[p].m) /\ RecordCrash({probe[p].m} \cap locked)
    <3>1. /\ ({probe[p].m} \cap locked) \in SUBSET Models
          /\ ({probe[p].m} \cap locked) \cap stopping = {}
      BY <2>2 DEF RollsBack, IsStopping, Inv, StateInv, StateTypeOK
    <3> QED
      BY <2>2, <3>1, SparedRecord
  <2> QED
    BY <1>9, <2>1, <2>2
       DEF Probing, ProbeStep, ProbeWake, ProbeAsk, ProbeJudge, policyVars
<1> QED
  BY <1>1, <1>2, <1>3, <1>4, <1>5, <1>6, <1>7, <1>8, <1>9 DEF SystemNext

(* A deliberate stop is never counted as a crash while its flag is up,       *)
(* whichever sync or start probe meets the dead process.                     *)
THEOREM StopsAreNotCrashes == Spec => NoCrashWhileStopping
<1>1. IInv /\ [Next]_vars => [Spared]_vars
  BY SparedUser, SparedSystem DEF Next, IInv
<1>2. Spec => [][Spared]_vars
  BY <1>1, Inductive, PTL DEF Spec
<1> QED
  BY <1>2 DEF NoCrashWhileStopping, Spared

-----------------------------------------------------------------------------
(* The current model is not forgotten while it is up.                        *)

Remembered == current # None /\ current' = None => status'[current] \notin Transient

LEMMA RememberedSame == ASSUME UNCHANGED current PROVE Remembered
  BY DEF Remembered

LEMMA RememberedCleared ==
  ASSUME NEW S, ClearCurrent(S), \A m \in S \cap Models : status'[m] \notin Transient,
         current \in Models \cup {None}
  PROVE  Remembered
  BY DEF ClearCurrent, Remembered

(* A downgrade of the models of S leaves them STOPPED, or FAILED by the      *)
(* breaker.                                                                  *)
LEMMA RememberedFallen ==
  ASSUME Inv, NEW new, NEW S, NEW fallen, Update(AfterCrash(new, S)), ClearCurrent(fallen),
         \A m \in fallen \cap Models : new[m] = "STOPPED"
  PROVE  Remembered
<1>1. \A m \in fallen \cap Models : status'[m] \in {"STOPPED", "FAILED"}
  BY DEF Update, AfterCrash
<1> QED
  BY <1>1, RememberedCleared DEF Transient, Inv, StateInv, StateTypeOK

LEMMA RememberedApply == ASSUME Inv, NEW s, NEW r, Apply(s, r) PROVE Remembered
<1> DEFINE with(v)  == {m \in Models : Verdict(m, r) = v}
           fallen   == with("crash") \cup with("drop")
           crashed  == {m \in with("crash") : CountsAsCrash(m)}
           statuses == [m \in Models |-> IF m \in with("up") THEN "RUNNING"
                                         ELSE IF m \in fallen THEN "STOPPED" ELSE status[m]]
<1>1. /\ Update(AfterCrash(statuses, crashed))
      /\ \/ \E m \in with("up") : SetCurrent(m)
         \/ ClearCurrent(fallen)
  BY DEF Apply
<1>2. \A m \in fallen \cap Models : statuses[m] = "STOPPED"
  OBVIOUS
<1>3. with("up") \subseteq Models
  OBVIOUS
<1> HIDE DEF with, fallen, crashed, statuses
<1>4. CASE \E m \in with("up") : SetCurrent(m)
  BY <1>3, <1>4, NoneAssumption DEF SetCurrent, Remembered
<1>5. CASE ClearCurrent(fallen)
  BY <1>1, <1>2, <1>5, RememberedFallen
<1> QED
  BY <1>1, <1>4, <1>5

LEMMA RememberedUser == ASSUME Inv, UserNext PROVE Remembered
<1>1. CASE Request
  BY <1>1, RememberedSame DEF Request, UserStart, StopCall, stateVars
<1>2. ASSUME NEW m \in Models, Lock(m) \/ Unlock(m) PROVE Remembered
  BY <1>2, RememberedSame DEF Lock, Unlock
<1>3. CASE WindowOpen
  <2>1. PICK live \in SUBSET Models :
          /\ Update([m \in Models |-> IF m \in live THEN "STOPPED" ELSE status[m]])
          /\ ClearCurrent(live)
    BY <1>3 DEF WindowOpen
  <2>2. \A m \in live \cap Models : status'[m] \notin Transient
    BY <2>1 DEF Update, Transient
  <2> QED
    BY <2>1, <2>2, RememberedCleared DEF Inv, StateInv, StateTypeOK
<1>4. CASE DashboardRestart
  <2>1. \A m \in Models : status'[m] \notin Transient
    BY <1>4 DEF DashboardRestart, Reload, Update, Coerced, Transient
  <2> QED
    BY <2>1 DEF Remembered, Inv, StateInv, StateTypeOK
<1>5. ASSUME NEW m \in Models, Expire(m), UNCHANGED <<stateVars, hostVars, stopVars, Others>>
      PROVE  Remembered
  BY <1>5, RememberedSame DEF stateVars
<1>6. locked \subseteq Models
  BY DEF Inv, StateInv, StateTypeOK
<1> QED
  BY <1>1, <1>2, <1>3, <1>4, <1>5, <1>6 DEF UserNext

LEMMA RememberedSystem == ASSUME Inv, SystemNext PROVE Remembered
<1>1. ASSUME Serves \/ Fails \/ Window \/ TickBegins PROVE Remembered
  BY <1>1, RememberedSame DEF Serves, Fails, Window, WindowKill, WindowClose, TickBegins,
                              TickStart, SyncList, stateVars
<1>2. CASE TickRuns
  BY <1>2, RememberedSame DEF TickRuns, TickStep, TickScan, TickEnd, TickNext, stateVars
<1>3. ASSUME NEW m \in Models, Wait(m) \/ Firing(m) PROVE Remembered
  BY <1>3, RememberedSame DEF Wait, Elapse, Firing, TaskFires, StrayFires, stateVars
<1>4. ASSUME NEW m \in Models, MarkLoading(m) PROVE Remembered
  BY <1>4, NoneAssumption DEF MarkLoading, SetCurrent, Remembered
<1>5. ASSUME NEW m \in Models, Starting(m) PROVE Remembered
  BY <1>4, <1>5, RememberedSame DEF Starting, UserStarted, UserRefused, Type, stateVars
<1>6. ASSUME NEW m \in Models, Attempting(m) PROVE Remembered
  BY <1>4, <1>6, RememberedSame
     DEF Attempting, AttemptStep, AttemptProbe, AttemptHealth, AttemptKill, AttemptStart,
         AttemptStarted, AttemptRefused, AttemptDeliver, stateVars
<1>7. ASSUME NEW c \in Stops, Stopping(c) PROVE Remembered
  <2>1. CASE UNCHANGED current
    BY <2>1, RememberedSame
  <2>2. CASE Become(stop[c].m, "STOPPED") /\ ClearCurrent({stop[c].m})
    <3>1. \A m \in {stop[c].m} \cap Models : status'[m] \notin Transient
      BY <2>2 DEF Become, Update, Transient, Inv, StateInv, StateTypeOK
    <3> QED
      BY <2>2, <3>1, RememberedCleared DEF Inv, StateInv, StateTypeOK
  <2> QED
    BY <1>7, <2>1, <2>2 DEF Stopping, StopStep, StopKill, StopWait, StopEnd, stateVars
<1>8. ASSUME NEW s \in Syncs, Syncing(s) PROVE Remembered
  BY <1>8, RememberedSame, RememberedApply
     DEF Syncing, SyncStep, SyncRead, SyncAsk, SyncApply, stateVars
<1>9. ASSUME NEW s \in Syncs, Poll(s) PROVE Remembered
  BY <1>9, RememberedSame DEF Poll, SyncList, stateVars
<1>10. ASSUME NEW p \in Probes, Probing(p) PROVE Remembered
  <2> DEFINE m == probe[p].m
             crashed == {m} \cap locked
  <2>1. CASE UNCHANGED current
    BY <2>1, RememberedSame
  <2>2. CASE /\ Update(AfterCrash([status EXCEPT ![m] = "STOPPED"], crashed))
             /\ ClearCurrent({m})
    <3>1. \A x \in {m} \cap Models : [status EXCEPT ![m] = "STOPPED"][x] = "STOPPED"
      BY DEF Inv, StateInv, StateTypeOK
    <3> HIDE DEF m, crashed
    <3> QED
      BY <2>2, <3>1, RememberedFallen
  <2> QED
    BY <1>10, <2>1, <2>2 DEF Probing, ProbeStep, ProbeWake, ProbeAsk, ProbeJudge, stateVars
<1> QED
  BY <1>1, <1>2, <1>3, <1>5, <1>6, <1>7, <1>8, <1>9, <1>10 DEF SystemNext

(* The current model is not forgotten while it stays up: whoever takes a     *)
(* model down clears current_model_id for that model only.                   *)
THEOREM CurrentIsKept == Spec => CurrentNotLost
<1>1. IInv /\ [Next]_vars => [Remembered]_vars
  BY RememberedUser, RememberedSystem DEF Next, IInv
<1>2. Spec => [][Remembered]_vars
  BY <1>1, Inductive, PTL DEF Spec
<1> QED
  BY <1>2 DEF CurrentNotLost, Remembered

-----------------------------------------------------------------------------
(* How often the watchdog launches a model that never comes up.              *)

(* The attempt has not started the model yet.                                *)
BeforeLaunch == AttemptPcs \ {"idle", "deliver"}

(* Every launch is answered by a crash before the next one, or the count     *)
(* starts again: a model that is down was launched no more often than it     *)
(* crashed, one that is LOADING at most once more.                           *)
CrashesAnswer ==
  \A m \in Models :
    /\ status[m] = "RUNNING" => launches[m] = 0
    /\ status[m] = "LOADING" => launches[m] <= real[m] + 1
    /\ status[m] \notin Transient => launches[m] <= real[m]

(* An attempt that is on its way may still launch, although the breaker may  *)
(* trip meanwhile: what made it trip was a start by hand.                    *)
LaunchesLeft == \A m \in Models : apc[m] \in BeforeLaunch => launches[m] < BreakerMaxCrashes

(* Between the guard of a start and its mark nobody else marks LOADING.      *)
StartersSettled == \A w \in {"user", "watchdog"}, m \in Models :
                     <<w, m>> \in startLock => status[m] # "LOADING"

FlapInv == /\ launches \in [Models -> 0..BreakerMaxCrashes]
           /\ CrashesAnswer /\ LaunchesLeft /\ StartersSettled

(* What a step other than a launch may do to the status and the crashes of a *)
(* model.                                                                    *)
Steady(m) ==
  \/ CountRestarts(m)
  \/ status[m] = "RUNNING"
  \/ status'[m] = status[m] /\ real[m] <= real'[m]
  \/ status'[m] = "LOADING" /\ status[m] # "LOADING" /\ real'[m] = real[m]
  \/ /\ status'[m] \notin Transient
     /\ \/ status[m] \notin Transient /\ real[m] <= real'[m]
        \/ real[m] < real'[m]
        \/ real'[m] = BreakerMaxCrashes

(* No attempt launches, and one begins only for a model that is down and not *)
(* suspended.                                                                *)
Waits(m) ==
  /\ apc[m] # "connect" \/ apc'[m] # "deliver"
  /\ apc'[m] \in BeforeLaunch
       => apc[m] \in BeforeLaunch \/ (status[m] \notin Transient /\ m \notin suspended)

Tame == (\A m \in Models : Steady(m) /\ Waits(m)) /\ StartersSettled'

LEMMA FlapInitially == Init /\ HInit => FlapInv
<1> SUFFICES ASSUME Init, HInit PROVE FlapInv
  OBVIOUS
<1>1. /\ launches = [m \in Models |-> 0] /\ real = [m \in Models |-> 0]
      /\ apc = [m \in Models |-> "idle"] /\ startLock = {}
  BY DEF HInit, Init, PolicyInit
<1>2. 0 \in 0..BreakerMaxCrashes
  BY BreakerAssumption
<1> QED
  BY <1>1, <1>2 DEF FlapInv, CrashesAnswer, LaunchesLeft, StartersSettled, BeforeLaunch

LEMMA FlapTypes ==
  ASSUME Inv, FlapInv, NEW m \in Models
  PROVE  /\ BreakerMaxCrashes \in Nat \ {0}
         /\ real[m] \in 0..BreakerMaxCrashes /\ launches[m] \in 0..BreakerMaxCrashes
         /\ real[m] = BreakerMaxCrashes => m \in suspended
         /\ status[m] \in Statuses
  BY BreakerAssumption
  DEF Inv, PolicyInv, PolicyTypeOK, BreakerHolds, FlapInv, StateInv, StateTypeOK

(* A step that is tame keeps the invariant.                                  *)
LEMMA FlapTame == ASSUME Inv, Inv', FlapInv, HNext, Tame PROVE FlapInv'
<1>1. ASSUME NEW m \in Models
      PROVE  /\ launches'[m] \in {0, launches[m]}
             /\ CountRestarts(m) => launches'[m] = 0
  <2>1. ~Launched(m)
    BY DEF Tame, Waits, Launched
  <2> QED
    BY <2>1 DEF HNext
<1>2. ASSUME NEW m \in Models
      PROVE  /\ real[m] \in 0..BreakerMaxCrashes /\ real'[m] \in 0..BreakerMaxCrashes
             /\ launches[m] \in 0..BreakerMaxCrashes /\ BreakerMaxCrashes \in Nat
             /\ status[m] \in Statuses /\ status'[m] \in Statuses
  BY FlapTypes DEF Inv, PolicyInv, PolicyTypeOK, StateInv, StateTypeOK
<1>3. launches' \in [Models -> 0..BreakerMaxCrashes]
  <2>1. \A m \in Models : launches'[m] \in 0..BreakerMaxCrashes
    BY <1>1, <1>2
  <2>2. launches' = [m \in Models |-> launches'[m]]
    BY DEF HNext
  <2> QED
    BY <2>1, <2>2
<1>4. CrashesAnswer'
  <2> SUFFICES ASSUME NEW m \in Models
      PROVE  /\ status'[m] = "RUNNING" => launches'[m] = 0
             /\ status'[m] = "LOADING" => launches'[m] <= real'[m] + 1
             /\ status'[m] \notin Transient => launches'[m] <= real'[m]
    BY DEF CrashesAnswer
  <2>1. CASE launches'[m] = 0
    BY <1>2, <2>1
  <2>2. CASE launches'[m] # 0
    <3>1. launches'[m] = launches[m] /\ ~CountRestarts(m) /\ status[m] # "RUNNING"
      BY <1>1, <2>2 DEF FlapInv, CrashesAnswer
    <3>2. status'[m] # "RUNNING"
      BY <3>1 DEF CountRestarts
    <3>3. CASE status'[m] = status[m] /\ real[m] <= real'[m]
      BY <1>2, <3>1, <3>3 DEF FlapInv, CrashesAnswer
    <3>4. CASE status'[m] = "LOADING" /\ status[m] # "LOADING" /\ real'[m] = real[m]
      BY <1>2, <3>1, <3>4 DEF FlapInv, CrashesAnswer, Transient
    <3>5. CASE status'[m] \notin Transient /\ status[m] \notin Transient /\ real[m] <= real'[m]
      BY <1>2, <3>1, <3>5 DEF FlapInv, CrashesAnswer, Transient
    <3>6. CASE status'[m] \notin Transient /\ real[m] < real'[m]
      BY <1>2, <3>1, <3>6 DEF FlapInv, CrashesAnswer, Transient
    <3>7. CASE status'[m] \notin Transient /\ real'[m] = BreakerMaxCrashes
      BY <1>2, <3>1, <3>7 DEF Transient
    <3> QED
      BY <3>1, <3>3, <3>4, <3>5, <3>6, <3>7 DEF Tame, Steady
  <2> QED
    BY <2>1, <2>2
<1>5. LaunchesLeft'
  <2> SUFFICES ASSUME NEW m \in Models, apc'[m] \in BeforeLaunch
      PROVE  launches'[m] < BreakerMaxCrashes
    BY DEF LaunchesLeft
  <2>1. launches[m] < BreakerMaxCrashes
    <3>1. CASE apc[m] \in BeforeLaunch
      BY <3>1 DEF FlapInv, LaunchesLeft
    <3>2. CASE status[m] \notin Transient /\ m \notin suspended
      <4>1. launches[m] <= real[m]
        BY <3>2 DEF FlapInv, CrashesAnswer
      <4>2. real[m] # BreakerMaxCrashes
        BY <3>2, FlapTypes
      <4> QED
        BY <1>2, <4>1, <4>2
    <3> QED
      BY <3>1, <3>2 DEF Tame, Waits
  <2> QED
    BY <1>1, <1>2, <2>1, BreakerAssumption
<1> QED
  BY <1>3, <1>4, <1>5 DEF FlapInv, Tame

(* A launch by the watchdog.                                                 *)
LEMMA FlapLaunch ==
  ASSUME Inv, Inv', FlapInv, HNext, NEW m \in Models, AttemptStarted(m) PROVE FlapInv'
<1>1. /\ apc[m] = "connect" /\ UNCHANGED real
      /\ apc' = [apc EXCEPT ![m] = "deliver"]
      /\ status' = [status EXCEPT ![m] = "LOADING"]
      /\ startLock' = startLock \ {<<"watchdog", m>>}
  BY DEF AttemptStarted, MarkLoading, Become, Update, Goto, historyVars
<1>2. <<"watchdog", m>> \in startLock /\ startLock' = {}
  BY <1>1 DEF Inv, PolicyInv, StartLockOwned
<1>3. status \in [Models -> Statuses] /\ apc \in [Models -> AttemptPcs]
  BY DEF Inv, StateInv, StateTypeOK, PolicyInv, PolicyTypeOK
<1>4. launches[m] < BreakerMaxCrashes /\ launches[m] <= real[m]
  <2>1. launches[m] < BreakerMaxCrashes
    BY <1>1 DEF FlapInv, LaunchesLeft, BeforeLaunch, AttemptPcs
  <2>2. status[m] # "LOADING"
    BY <1>2 DEF FlapInv, StartersSettled
  <2>3. CASE status[m] = "RUNNING"
    BY <2>1, <2>3, FlapTypes DEF FlapInv, CrashesAnswer
  <2>4. CASE status[m] \notin Transient
    BY <2>1, <2>4 DEF FlapInv, CrashesAnswer
  <2> QED
    BY <2>1, <2>2, <2>3, <2>4 DEF Transient
<1>5. launches'[m] = launches[m] + 1 /\ apc'[m] = "deliver" /\ status'[m] = "LOADING"
  <2>1. Launched(m)
    BY <1>1, <1>3 DEF Launched
  <2>2. launches[m] <= BreakerMaxCrashes
    BY FlapTypes
  <2> QED
    BY <1>1, <1>3, <2>1, <2>2 DEF HNext
<1>6. ASSUME NEW x \in Models, x # m
      PROVE  /\ launches'[x] \in {0, launches[x]}
             /\ status'[x] = status[x] /\ apc'[x] = apc[x] /\ real'[x] = real[x]
  <2>1. status'[x] = status[x] /\ apc'[x] = apc[x] /\ real'[x] = real[x]
    BY <1>1, <1>6
  <2>2. ~Launched(x)
    BY <2>1 DEF Launched
  <2> QED
    BY <2>1, <2>2 DEF HNext
<1>7. launches' \in [Models -> 0..BreakerMaxCrashes]
  <2>1. \A x \in Models : launches'[x] \in 0..BreakerMaxCrashes
    BY <1>4, <1>5, <1>6, FlapTypes
  <2>2. launches' = [x \in Models |-> launches'[x]]
    BY DEF HNext
  <2> QED
    BY <2>1, <2>2
<1>8. CrashesAnswer'
  <2>1. launches'[m] <= real'[m] + 1
    BY <1>1, <1>4, <1>5, FlapTypes
  <2>2. ASSUME NEW x \in Models, x # m
        PROVE  /\ status'[x] = "RUNNING" => launches'[x] = 0
               /\ status'[x] = "LOADING" => launches'[x] <= real'[x] + 1
               /\ status'[x] \notin Transient => launches'[x] <= real'[x]
    BY <1>6, <2>2, FlapTypes DEF FlapInv, CrashesAnswer
  <2> QED
    BY <1>5, <2>1, <2>2 DEF CrashesAnswer, Transient
<1>9. LaunchesLeft'
  <2> SUFFICES ASSUME NEW x \in Models, apc'[x] \in BeforeLaunch
      PROVE  launches'[x] < BreakerMaxCrashes
    BY DEF LaunchesLeft
  <2>1. x # m
    BY <1>5 DEF BeforeLaunch
  <2> QED
    BY <1>6, <2>1, FlapTypes DEF FlapInv, LaunchesLeft
<1>10. StartersSettled'
  BY <1>2 DEF StartersSettled
<1> QED
  BY <1>7, <1>8, <1>9, <1>10 DEF FlapInv

-----------------------------------------------------------------------------
(* Every step but a launch is tame, unless a crash leaves the window.        *)

LEMMA SettledKept ==
  ASSUME StartersSettled, startLock' \subseteq startLock,
         \A m \in Models : status'[m] = "LOADING" => status[m] = "LOADING"
  PROVE  StartersSettled'
  BY DEF StartersSettled

LEMMA TameFrame ==
  ASSUME Inv, FlapInv, UNCHANGED <<status, real, apc, startLock>> PROVE Tame
<1>1. StartersSettled'
  BY SettledKept DEF FlapInv
<1> QED
  BY <1>1, RealNat DEF Tame, Steady, Waits

(* The attempt of m alone moves.                                             *)
LEMMA TameMove ==
  ASSUME Inv, FlapInv, NEW m \in Models, UNCHANGED <<status, real>>,
         NEW pc, apc' = [apc EXCEPT ![m] = pc], Waits(m), StartersSettled'
  PROVE  Tame
<1>1. \A x \in Models \ {m} : Waits(x)
  BY DEF Waits
<1> QED
  BY <1>1, RealNat DEF Tame, Steady

LEMMA TameClear ==
  ASSUME Inv, FlapInv, NEW S \in SUBSET Models, NEW over \in SUBSET Models,
         ClearEnding(S, over),
         \A m \in Models \ S : status'[m] = status[m],
         \A m \in S : CountRestarts(m) \/ status[m] = "RUNNING",
         \A m \in Models : status'[m] = "LOADING" => status[m] = "LOADING"
  PROVE  Tame
<1>1. \A m \in Models : apc'[m] \in {"idle", apc[m]}
  BY DEF ClearEnding
<1>2. \A m \in Models : Waits(m)
  BY <1>1 DEF Waits, BeforeLaunch
<1>3. \A m \in Models \ S : real'[m] = real[m]
  BY DEF ClearEnding
<1>4. \A m \in Models : Steady(m)
  BY <1>3, RealNat DEF Steady
<1>5. startLock' \subseteq startLock
  BY DEF ClearEnding
<1>6. StartersSettled'
  BY <1>5, SettledKept DEF FlapInv
<1> QED
  BY <1>2, <1>4, <1>6 DEF Tame

LEMMA TameEnter ==
  ASSUME Inv, FlapInv, NEW m \in Models, NEW who, Enter(m, who), UNCHANGED <<status, locked>>
  PROVE  Tame
<1>1. CASE ClearsAtOnce(m) /\ ClearEnding({m}, {})
  <2>1. CountRestarts(m) \/ status[m] = "RUNNING"
    BY <1>1 DEF ClearsAtOnce, CountRestarts
  <2> QED
    BY <1>1, <2>1, TameClear
<1>2. CASE /\ MayAttempt(m) /\ apc' = [apc EXCEPT ![m] = "probe"]
           /\ UNCHANGED <<pend, real, suspended, startLock>>
  <2>1. Waits(m)
    BY <1>2 DEF Waits, MayAttempt, Inv, PolicyInv, PolicyTypeOK
  <2>2. StartersSettled'
    BY <1>2, SettledKept DEF FlapInv
  <2> QED
    BY <1>2, <2>1, <2>2, TameMove
<1>3. CASE UNCHANGED <<pend, real, suspended, attemptVars, startLock>>
  BY <1>3, TameFrame DEF attemptVars
<1> QED
  BY <1>1, <1>2, <1>3 DEF Enter

(* Models come up or go down, those of S counted as crashes.                 *)
LEMMA TameFallen ==
  ASSUME Inv, FlapInv, NEW S \in SUBSET Models, NEW new \in [Models -> Statuses],
         Update(AfterCrash(new, S)), RecordCrash(S),
         \A m \in S : new[m] = "STOPPED",
         \A m \in Models : new[m] \in {status[m], "STOPPED", "RUNNING"}
  PROVE  Tame
<1>1. ASSUME NEW m \in Models, m \in S
      PROVE  /\ status'[m] \in {"STOPPED", "FAILED"}
             /\ real[m] < real'[m] \/ real'[m] = BreakerMaxCrashes
  <2>1. status'[m] \in {"STOPPED", "FAILED"}
    BY <1>1 DEF Update, AfterCrash
  <2>2. real'[m] = IF real[m] < BreakerMaxCrashes THEN real[m] + 1 ELSE real[m]
    BY <1>1 DEF RecordCrash
  <2> QED
    BY <2>1, <2>2, FlapTypes
<1>2. ASSUME NEW m \in Models, m \notin S
      PROVE  status'[m] = new[m] /\ real'[m] = real[m]
  <2>1. m \notin Tripped(S)
    BY <1>2 DEF Tripped
  <2> QED
    BY <1>2, <2>1 DEF Update, AfterCrash, RecordCrash
<1>3. ASSUME NEW m \in Models PROVE Steady(m)
  <2>1. CASE m \in S
    BY <1>1, <2>1 DEF Steady, Transient
  <2>2. CASE m \notin S /\ new[m] = status[m]
    BY <1>2, <2>2, RealNat DEF Steady
  <2>3. CASE m \notin S /\ new[m] = "RUNNING"
    BY <1>2, <2>3 DEF Steady, CountRestarts
  <2>4. CASE m \notin S /\ new[m] = "STOPPED"
    <3>1. status'[m] = "STOPPED" /\ real'[m] <= real[m] /\ real[m] <= real'[m]
      BY <1>2, <2>4, RealNat
    <3>2. CASE status[m] = "LOADING"
      BY <3>1, <3>2 DEF Steady, CountRestarts
    <3>3. CASE status[m] # "LOADING"
      BY <3>1, <3>3 DEF Steady, Transient
    <3> QED
      BY <3>2, <3>3
  <2> QED
    BY <2>1, <2>2, <2>3, <2>4
<1>4. \A m \in Models : Waits(m)
  BY DEF RecordCrash, Waits
<1>5. \A m \in Models : status'[m] = "LOADING" => status[m] = "LOADING"
  BY <1>1, <1>2
<1>6. StartersSettled'
  BY <1>5, SettledKept DEF FlapInv, RecordCrash
<1> QED
  BY <1>3, <1>4, <1>6 DEF Tame

LEMMA TameApply == ASSUME Inv, FlapInv, NEW s, NEW r, Apply(s, r) PROVE Tame
<1> DEFINE with(v)  == {m \in Models : Verdict(m, r) = v}
           fallen   == with("crash") \cup with("drop")
           crashed  == {m \in with("crash") : CountsAsCrash(m)}
           statuses == [m \in Models |-> IF m \in with("up") THEN "RUNNING"
                                         ELSE IF m \in fallen THEN "STOPPED" ELSE status[m]]
<1>1. Update(AfterCrash(statuses, crashed)) /\ RecordCrash(crashed)
  BY DEF Apply
<1>2. statuses \in [Models -> Statuses] /\ crashed \in SUBSET Models
  BY DEF Inv, StateInv, StateTypeOK, Statuses
<1>3. \A m \in crashed : statuses[m] = "STOPPED"
  OBVIOUS
<1>4. \A m \in Models : statuses[m] \in {status[m], "STOPPED", "RUNNING"}
  OBVIOUS
<1> HIDE DEF with, fallen, crashed, statuses
<1> QED
  BY <1>1, <1>2, <1>3, <1>4, TameFallen

LEMMA TameUser ==
  ASSUME Inv, FlapInv, UserNext, "expire" \notin Ops PROVE Tame
<1>1. CASE Request
  <2>1. ASSUME NEW m \in Models, UserStart(m) PROVE Tame
    <3>1. UNCHANGED <<status, real, apc>> /\ startLock' = {<<"user", m>>} /\ ~Busy(m)
      BY <2>1 DEF UserStart, stateVars, policyVars, attemptVars
    <3>2. StartersSettled'
      BY <3>1 DEF StartersSettled, Busy, Transient
    <3> QED
      BY <3>1, <3>2, RealNat DEF Tame, Steady, Waits
  <2>2. ASSUME NEW c \in Stops, NEW m \in Models, StopCall(c, m) PROVE Tame
    BY <2>2, TameFrame DEF StopCall, stateVars, policyVars, attemptVars
  <2> QED
    BY <1>1, <2>1, <2>2 DEF Request
<1>2. ASSUME NEW m \in Models, Lock(m) PROVE Tame
  BY <1>2, TameFrame DEF Lock, policyVars, attemptVars
<1>3. ASSUME NEW m \in Models, Unlock(m) PROVE Tame
  <2>1. CountRestarts(m)
    BY <1>3 DEF Unlock, SetUnlocked, CountRestarts
  <2> QED
    BY <1>3, <2>1, TameClear DEF Unlock, Clear
<1>4. CASE WindowOpen
  <2> DEFINE live == {m \in Models : status[m] \in Transient}
  <2>1. /\ Update([m \in Models |-> IF m \in live THEN "STOPPED" ELSE status[m]])
        /\ ClearEnding(live, {})
    BY <1>4 DEF WindowOpen, Clear
  <2>2. ASSUME NEW m \in live PROVE CountRestarts(m) \/ status[m] = "RUNNING"
    <3>1. status'[m] = "STOPPED" /\ real'[m] = 0
      BY <2>1 DEF Update, ClearEnding
    <3>2. real'[m] <= real[m]
      BY <3>1, RealNat
    <3> QED
      BY <3>1, <3>2 DEF CountRestarts, Transient
  <2>3. \A m \in Models \ live : status'[m] = status[m]
    BY <2>1 DEF Update
  <2>4. \A m \in Models : status'[m] = "LOADING" => status[m] = "LOADING"
    BY <2>1 DEF Update
  <2>5. live \in SUBSET Models
    OBVIOUS
  <2> HIDE DEF live
  <2> QED
    BY <2>1, <2>2, <2>3, <2>4, <2>5, TameClear
<1>5. CASE DashboardRestart
  <2>1. \A m \in Models : CountRestarts(m)
    BY <1>5 DEF CountRestarts
  <2>2. apc' = [m \in Models |-> "idle"] /\ startLock' = {}
    BY <1>5 DEF DashboardRestart, Replay
  <2> QED
    BY <2>1, <2>2 DEF Tame, Steady, Waits, BeforeLaunch, StartersSettled
<1>6. locked \subseteq Models
  BY DEF Inv, StateInv, StateTypeOK
<1> QED
  BY <1>1, <1>2, <1>3, <1>4, <1>5, <1>6 DEF UserNext

LEMMA TameStarting == ASSUME Inv, FlapInv, NEW m \in Models, Starting(m) PROVE Tame
<1>1. CASE UserStarted(m)
  <2>1. /\ <<"user", m>> \in startLock /\ startLock' = startLock \ {<<"user", m>>}
        /\ status' = [status EXCEPT ![m] = "LOADING"] /\ UNCHANGED <<real, apc>>
    BY <1>1 DEF UserStarted, MarkLoading, Become, Update, policyVars, attemptVars
  <2>2. startLock' = {}
    BY <2>1 DEF Inv, PolicyInv, StartLockOwned
  <2>3. status[m] # "LOADING"
    BY <2>1 DEF FlapInv, StartersSettled
  <2>4. status'[m] = "LOADING" /\ \A x \in Models \ {m} : status'[x] = status[x]
    BY <2>1 DEF Inv, StateInv, StateTypeOK
  <2>5. \A x \in Models : Steady(x)
    BY <2>1, <2>3, <2>4, RealNat DEF Steady
  <2> QED
    BY <2>1, <2>2, <2>5 DEF Tame, Waits, StartersSettled
<1>2. CASE UserRefused(m)
  <2>1. UNCHANGED <<status, real, apc>> /\ startLock' \subseteq startLock
    BY <1>2 DEF UserRefused, stateVars, policyVars, attemptVars
  <2>2. StartersSettled'
    BY <2>1, SettledKept DEF FlapInv
  <2> QED
    BY <2>1, <2>2, RealNat DEF Tame, Steady, Waits
<1>3. CASE Type(m)
  BY <1>3, TameFrame DEF Type, stateVars, policyVars, attemptVars
<1> QED
  BY <1>1, <1>2, <1>3 DEF Starting

LEMMA TameAttempt ==
  ASSUME Inv, FlapInv, NEW m \in Models, AttemptStep(m), ~AttemptStarted(m) PROVE Tame
<1>1. CASE AttemptProbe(m) \/ AttemptHealth(m) \/ AttemptKill(m) \/ AttemptDeliver(m)
  <2>1. UNCHANGED <<status, real, startLock>>
    BY <1>1 DEF AttemptProbe, AttemptHealth, AttemptKill, AttemptDeliver, stateVars, historyVars
  <2>2. StartersSettled'
    BY <2>1, SettledKept DEF FlapInv
  <2>3. PICK pc \in {"idle", "health", "kill", "start"} : apc' = [apc EXCEPT ![m] = pc]
    BY <1>1 DEF AttemptProbe, AttemptHealth, AttemptKill, AttemptDeliver, Goto, EndAttempt
  <2>4. apc'[m] = "idle" \/ apc[m] \in BeforeLaunch
    BY <1>1, <2>3 DEF AttemptProbe, AttemptHealth, AttemptKill, AttemptDeliver, Goto, EndAttempt,
                      BeforeLaunch, AttemptPcs, Inv, PolicyInv, PolicyTypeOK
  <2>5. apc'[m] = pc
    BY <2>3 DEF Inv, PolicyInv, PolicyTypeOK
  <2>6. Waits(m)
    BY <2>3, <2>4, <2>5 DEF Waits, BeforeLaunch
  <2> QED
    BY <2>1, <2>2, <2>3, <2>6, TameMove
<1>2. CASE AttemptStart(m)
  <2>1. UNCHANGED <<status, locked>> /\ apc[m] = "start"
    BY <1>2 DEF AttemptStart, stateVars
  <2>2. CASE ~Busy(m) /\ startLock' = {<<"watchdog", m>>} /\ Goto(m, "connect")
             /\ UNCHANGED historyVars
    <3>1. StartersSettled'
      BY <2>1, <2>2 DEF StartersSettled, Busy, Transient
    <3>2. Waits(m)
      BY <2>1, <2>2 DEF Waits, BeforeLaunch, AttemptPcs, Goto, Inv, PolicyInv, PolicyTypeOK
    <3> QED
      BY <2>1, <2>2, <3>1, <3>2, TameMove DEF Goto, historyVars
  <2>3. CASE EndAttempt(m) /\ UNCHANGED <<historyVars, startLock>>
    <3>1. StartersSettled'
      BY <2>1, <2>3, SettledKept DEF FlapInv
    <3>2. Waits(m)
      BY <2>1, <2>3 DEF Waits, BeforeLaunch, EndAttempt, Inv, PolicyInv, PolicyTypeOK
    <3> QED
      BY <2>1, <2>3, <3>1, <3>2, TameMove DEF EndAttempt, historyVars
  <2>4. CASE status[m] = "RUNNING" /\ ClearEnding({m}, {m})
    BY <2>1, <2>4, TameClear
  <2> QED
    BY <1>2, <2>2, <2>3, <2>4 DEF AttemptStart
<1>3. CASE AttemptRefused(m)
  <2>1. CASE EndAttempt(m) /\ startLock' = startLock \ {<<"watchdog", m>>}
             /\ UNCHANGED <<stateVars, historyVars>>
    <3>1. StartersSettled'
      BY <2>1, SettledKept DEF FlapInv, stateVars
    <3>2. Waits(m)
      BY <2>1 DEF Waits, BeforeLaunch, EndAttempt, Inv, PolicyInv, PolicyTypeOK
    <3> QED
      BY <2>1, <3>1, <3>2, TameMove DEF EndAttempt, historyVars, stateVars
  <2>2. CASE Become(m, "FAILED") /\ ClearEnding({m}, {m})
    <3>1. /\ status'[m] = "FAILED" /\ \A x \in Models \ {m} : status'[x] = status[x]
          /\ m \notin suspended'
      BY <2>2 DEF Become, Update, ClearEnding, Inv, StateInv, StateTypeOK
    <3>2. CountRestarts(m)
      BY <3>1 DEF CountRestarts
    <3>3. \A x \in Models : status'[x] = "LOADING" => status[x] = "LOADING"
      BY <3>1
    <3> QED
      BY <2>2, <3>1, <3>2, <3>3, TameClear
  <2> QED
    BY <1>3, <2>1, <2>2 DEF AttemptRefused
<1> QED
  BY <1>1, <1>2, <1>3 DEF AttemptStep

LEMMA TameStopping == ASSUME Inv, FlapInv, NEW c \in Stops, StopStep(c) PROVE Tame
<1>1. CASE UNCHANGED <<status, real, apc, startLock>>
  BY <1>1, TameFrame
<1>2. CASE StopWait(c) /\ Become(stop[c].m, "STOPPED") /\ Clear({stop[c].m})
  <2> DEFINE m == stop[c].m
  <2>1. m \in Models /\ stop[c].pc = "wait" /\ stop'[c].pc = "unset"
    BY <1>2 DEF StopWait, Inv, StopInv, StopTypeOK, StopSlotsIdle
  <2>2. status'[m] = "STOPPED" /\ \A x \in Models \ {m} : status'[x] = status[x]
    BY <1>2, <2>1 DEF Become, Update, Inv, StateInv, StateTypeOK
  <2>3. CountRestarts(m)
    BY <2>1, <2>2 DEF CountRestarts, Settled
  <2>4. ClearEnding({m}, {})
    BY <1>2 DEF Clear
  <2>5. \A x \in Models : status'[x] = "LOADING" => status[x] = "LOADING"
    BY <2>2
  <2> HIDE DEF m
  <2> QED
    BY <2>1, <2>2, <2>3, <2>4, <2>5, TameClear
<1> QED
  BY <1>1, <1>2 DEF StopStep, StopKill, StopWait, StopEnd, stateVars, policyVars, attemptVars

LEMMA TameSystem ==
  ASSUME Inv, FlapInv, SystemNext PROVE Tame \/ \E m \in Models : AttemptStarted(m)
<1>1. ASSUME Serves \/ Fails \/ Window \/ TickBegins PROVE Tame
  BY <1>1, TameFrame DEF Serves, Fails, Window, WindowKill, WindowClose, TickBegins,
                         TickStart, SyncList, stateVars, policyVars, attemptVars
<1>2. CASE TickRuns
  <2>1. CASE TickScan
    <3>1. TickClears \in SUBSET Models /\ \A m \in TickClears : status[m] = "RUNNING"
      BY DEF TickClears, Inv, StateInv, StateTypeOK
    <3>2. ClearEnding(TickClears, {}) /\ UNCHANGED status
      BY <2>1 DEF TickScan, Clear, stateVars
    <3> QED
      BY <3>1, <3>2, TameClear
  <2>2. CASE TickEnd
    BY <2>2, TameFrame DEF TickEnd, stateVars, policyVars, attemptVars
  <2>3. ASSUME NEW m \in Models, TickNext(m) PROVE Tame
    BY <2>3, TameEnter DEF TickNext, stateVars
  <2> QED
    BY <1>2, <2>1, <2>2, <2>3 DEF TickRuns, TickStep
<1>3. ASSUME NEW m \in Models, Wait(m) PROVE Tame
  BY <1>3, TameFrame DEF Wait, Elapse, policyVars, attemptVars
<1>4. ASSUME NEW m \in Models, Starting(m) PROVE Tame
  BY <1>4, TameStarting
<1>5. ASSUME NEW m \in Models, Firing(m) PROVE Tame
  BY <1>5, TameEnter DEF Firing, TaskFires, StrayFires, stateVars
<1>6. ASSUME NEW m \in Models, Attempting(m) PROVE Tame \/ AttemptStarted(m)
  BY <1>6, TameAttempt DEF Attempting
<1>7. ASSUME NEW c \in Stops, Stopping(c) PROVE Tame
  BY <1>7, TameStopping DEF Stopping
<1>8. ASSUME NEW s \in Syncs, Syncing(s) PROVE Tame
  BY <1>8, TameFrame, TameApply
     DEF Syncing, SyncStep, SyncRead, SyncAsk, SyncApply, stateVars, policyVars, attemptVars
<1>9. ASSUME NEW s \in Syncs, Poll(s) PROVE Tame
  BY <1>9, TameFrame DEF Poll, SyncList, stateVars, policyVars, attemptVars
<1>10. ASSUME NEW p \in Probes, Probing(p) PROVE Tame
  <2> DEFINE m       == probe[p].m
             crashed == {m} \cap locked
             new     == [status EXCEPT ![m] = "STOPPED"]
  <2>1. CASE UNCHANGED <<stateVars, policyVars, attemptVars, startLock>>
    BY <2>1, TameFrame DEF stateVars, policyVars, attemptVars
  <2>2. CASE /\ probe[p].pc = "judge"
             /\ Update(AfterCrash(new, crashed)) /\ RecordCrash(crashed)
    <3>1. m \in Models
      BY <2>2 DEF Inv, StartInv, ProbesNamed
    <3>2. new \in [Models -> Statuses] /\ new[m] = "STOPPED"
          /\ \A x \in Models : new[x] \in {status[x], "STOPPED", "RUNNING"}
      BY <3>1 DEF Inv, StateInv, StateTypeOK, Statuses
    <3>3. crashed \in SUBSET Models /\ \A x \in crashed : new[x] = "STOPPED"
      BY <3>1, <3>2
    <3> HIDE DEF m, crashed, new
    <3> QED
      BY <2>2, <3>2, <3>3, TameFallen
  <2> QED
    BY <1>10, <2>1, <2>2 DEF Probing, ProbeStep, ProbeWake, ProbeAsk, ProbeJudge
<1> QED
  BY <1>1, <1>2, <1>3, <1>4, <1>5, <1>6, <1>7, <1>8, <1>9, <1>10 DEF SystemNext

(* Theorem: as long as no crash leaves the 600 s window, the watchdog        *)
(* launches a model at most BREAKER_MAX_CRASHES times without its coming up, *)
(* for every limit, any number of models, failures, syncs and probes, stops, *)
(* starts by hand, deployment windows and restarts of the dashboard.         *)
THEOREM FlappingBounded ==
  ASSUME "expire" \notin Ops PROVE HistorySpec => []FlapBound
<1>1. IInv /\ FlapInv /\ [Next /\ HNext]_<<vars, histVars>> => IInv' /\ FlapInv'
  <2> SUFFICES ASSUME IInv, FlapInv, [Next /\ HNext]_<<vars, histVars>> PROVE IInv' /\ FlapInv'
    OBVIOUS
  <2>1. IInv' /\ Inv /\ Inv'
    BY StepIInv DEF IInv
  <2>2. CASE Next /\ HNext
    <3>1. CASE Tame
      BY <2>1, <2>2, <3>1, FlapTame
    <3>2. ASSUME NEW m \in Models, AttemptStarted(m) PROVE FlapInv'
      BY <2>1, <2>2, <3>2, FlapLaunch
    <3> QED
      BY <2>1, <2>2, <3>1, <3>2, TameUser, TameSystem DEF Next
  <2>3. CASE UNCHANGED <<vars, histVars>>
    <3>1. UNCHANGED <<status, real, apc, startLock, launches>>
      BY <2>3 DEF vars, histVars, stateVars, policyVars, attemptVars
    <3> QED
      BY <2>1, <3>1 DEF FlapInv, CrashesAnswer, LaunchesLeft, StartersSettled
  <2> QED
    BY <2>1, <2>2, <2>3
<1>2. FlapInv => FlapBound
  BY BreakerAssumption DEF FlapInv, FlapBound
<1> QED
  BY <1>1, <1>2, InitIInv, FlapInitially, PTL DEF HistorySpec
=============================================================================
