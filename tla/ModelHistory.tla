---------------------------- MODULE ModelHistory ----------------------------
(* ModelControl with two history variables, for what only a whole run shows: *)
(* how often the watchdog relaunched a model that never came up, and whether *)
(* a model was stopped by hand and not started by hand since.                *)
EXTENDS ModelControl

VARIABLES launches,  \* starts by the watchdog since counting last restarted
          quiet      \* models stopped by the user, not started since

histVars == <<launches, quiet>>

Launched(m) == apc[m] = "connect" /\ apc'[m] = "deliver"

Settled(m) == \E c \in Stops : /\ stop[c].pc = "wait" /\ stop'[c].pc = "unset"
                               /\ stop[c].m = m /\ status'[m] = "STOPPED"
StartedByHand(m) == <<"user", m>> \in startLock' \/ (m \in typed /\ m \notin typed')

(* Counting starts again when the model comes up, is unlocked or stopped,    *)
(* is given up for want of a start command, is taken back from LOADING with  *)
(* no crash recorded (hard cap, stop in flight), or the dashboard restarts.  *)
CountRestarts(m) ==
  \/ status'[m] = "RUNNING"
  \/ m \notin locked'
  \/ Settled(m)
  \/ status'[m] = "FAILED" /\ m \notin suspended'
  \/ status[m] = "LOADING" /\ status'[m] = "STOPPED" /\ real'[m] <= real[m]
  \/ DashboardRestart

HInit == /\ launches = [m \in Models |-> 0]
         /\ quiet = {}

HNext == /\ launches' = [m \in Models |->
                           IF Launched(m) /\ launches[m] <= BreakerMaxCrashes
                           THEN launches[m] + 1
                           ELSE IF CountRestarts(m) THEN 0 ELSE launches[m]]
         /\ quiet' = {m \in Models : \/ Settled(m)
                                     \/ m \in quiet /\ ~StartedByHand(m)}

HistorySpec == Init /\ HInit /\ [][Next /\ HNext]_<<vars, histVars>>

(* The breaker bounds the flapping of a broken start command: inside one     *)
(* window the watchdog starts a model at most BreakerMaxCrashes times        *)
(* without it ever reaching RUNNING (incident 2026-10-17: 65 times).         *)
FlapBound == \A m \in Models : launches[m] <= BreakerMaxCrashes

(* model_watchdog.py:5, "a manual stop of a locked model is NOT re-started". *)
ManualStopIsFinal == [][\A m \in quiet : ~Launched(m)]_<<vars, histVars>>

(* model_watchdog.py:66-68, keyed by model "so a manual stop can CANCEL the  *)
(* scheduled attempt": right after the stop settles no attempt is left.      *)
StopCancelsAttempts ==
  [][\A m \in Models : Settled(m) => stray'[m] = 0 /\ apc'[m] = "idle"]_<<vars, histVars>>
=============================================================================
