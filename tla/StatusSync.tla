----------------------------- MODULE StatusSync -----------------------------
(* backend/service/model_status_sync.py: _sync_status_once, run by GET       *)
(* /models (list), POST /models/sync (status) and the watchdog tick, each    *)
(* able to overlap the others at every await.                                *)
EXTENDS ModelStop

CONSTANT Syncs   \* the callers that may sync

ASSUME SyncsAssumption == "tick" \in Syncs /\ Syncs \subseteq {"list", "status", "tick"}

SyncPcs == {"idle", "answered", "ask", "apply", "done"}

VARIABLE sync    \* each call: its pc, the ids /v1/models listed, which second
                 \* probe it chose and what that answered

SyncIdle == [pc |-> "idle", ids |-> {}, probe |-> "none", ans |-> "unknown"]

SyncTypeOK == sync \in [Syncs -> [pc : SyncPcs, ids : SUBSET Models,
                                  probe : {"none", "presence", "health"},
                                  ans : Answers]]

TrackCurrent(s) == s = "status"        \* only sync_status passes track_current

IsStopping(m) == m \in stopping

(* GET /v1/models is answered by the server.                                 *)
SyncList(s) == /\ sync[s].pc = "idle"
               /\ \E ids \in SUBSET Models :
                    /\ ListAnswer(ids)
                    /\ sync' = [sync EXCEPT ![s] = [SyncIdle EXCEPT !.pc = "answered",
                                                                    !.ids = ids]]
               /\ UNCHANGED <<stateVars, served, phase, policyVars, attemptVars,
                              startLock, stopVars>>

(* The answer reaches the event loop: the statuses of that instant choose    *)
(* the second probe.                                                         *)
SecondProbe(ids) ==
  LET in(st) == \E m \in Models : status[m] = st IN
  CASE ids = {} /\ (in("LOADING") \/ in("RUNNING")) -> "presence"
    [] ids # {} /\ in("RUNNING")                    -> "health"
    [] OTHER                                        -> "none"

(* What the loop over the models decides about m, from the two answers "r"   *)
(* and the status m has when the loop runs.                                  *)
Gone(m, r)   == r.probe = "presence" /\ r.ans # "yes"  \* not vllm_process_exists

(* Mutant: a dead start is waited for without end.                           *)
GraceNever(m) == FALSE

GraceOver(m) == age[m] # "fresh"                       \* _loading_reset_allowed
CapOver(m)   == age[m] = "cap"                         \* _loading_hard_reset_allowed

Verdict(m, r) ==
  LET listed == m \in r.ids IN
  CASE status[m] # "RUNNING" /\ listed -> "up"
    [] status[m] = "LOADING" /\ ~listed /\ Gone(m, r) /\ GraceOver(m) -> "crash"
    [] status[m] = "LOADING" /\ ~listed /\ ~Gone(m, r) /\ CapOver(m)  -> "drop"
    [] status[m] = "RUNNING" /\ ~listed
         /\ (r.ids # {} \/ (r.probe = "presence" /\ r.ans = "no"))    -> "crash"
    [] status[m] = "RUNNING" /\ listed /\ r.probe = "health" /\ r.ans = "no" -> "crash"
    [] OTHER -> "keep"

(* Mutant: the sync before the stop guard (incident 2026-10-22).             *)
CountsAlways(m) == m \in locked

(* A downgrade counts as a crash only for a locked model nobody is stopping. *)
CountsAsCrash(m) == m \in locked /\ ~IsStopping(m)

(* The loop, atomic on the event loop.                                       *)
Apply(s, r) ==
  LET with(v)  == {m \in Models : Verdict(m, r) = v}
      fallen   == with("crash") \cup with("drop")
      crashed  == {m \in with("crash") : CountsAsCrash(m)}
      statuses == [m \in Models |-> IF m \in with("up") THEN "RUNNING"
                                    ELSE IF m \in fallen THEN "STOPPED" ELSE status[m]]
  IN /\ Update(AfterCrash(statuses, crashed))
     /\ IF TrackCurrent(s) /\ with("up") # {}
        THEN \E m \in with("up") : SetCurrent(m)
        ELSE ClearCurrent(fallen)
     /\ RecordCrash(crashed)
     /\ sync' = [sync EXCEPT ![s] = [SyncIdle EXCEPT
                               !.pc = IF s = "tick" THEN "done" ELSE "idle"]]
     /\ UNCHANGED locked

SyncRead(s) ==
  LET chosen == SecondProbe(sync[s].ids) IN
  /\ sync[s].pc = "answered"
  /\ IF chosen = "none"
     THEN Apply(s, sync[s])
     ELSE /\ sync' = [sync EXCEPT ![s].pc = "ask", ![s].probe = chosen]
          /\ UNCHANGED <<stateVars, policyVars, attemptVars, startLock>>
  /\ UNCHANGED <<hostVars, stopVars>>

(* The second probe is answered by the server...                             *)
SyncAsk(s) ==
  /\ sync[s].pc = "ask"
  /\ \E a \in Answers :
       /\ IF sync[s].probe = "presence" THEN PresenceAnswer(a) ELSE HealthAnswer(a)
       /\ sync' = [sync EXCEPT ![s].pc = "apply", ![s].ans = a]
  /\ UNCHANGED <<stateVars, served, phase, policyVars, attemptVars, startLock, stopVars>>

(* ... and the loop runs when that answer arrives.                           *)
SyncApply(s) == /\ sync[s].pc = "apply"
                /\ Apply(s, sync[s])
                /\ UNCHANGED <<hostVars, stopVars>>

SyncInit == sync = [s \in Syncs |-> SyncIdle]

SyncStep(s) == SyncRead(s) \/ SyncAsk(s) \/ SyncApply(s)
=============================================================================
