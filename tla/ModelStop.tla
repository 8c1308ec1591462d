------------------------------ MODULE ModelStop ------------------------------
(* Deliberate stops: stop_model of backend/service/model_lifecycle.py and    *)
(* the stop window a deployment task opens around its pipeline, with the     *)
(* _stopping_models set both of them write.                                  *)
EXTENDS RestartPolicy

CONSTANT Stops   \* concurrent /stop requests

VARIABLES stopping,  \* _stopping_models
          stop,      \* each /stop request: where it is, its model, and whether
                     \* the kill was delivered
          window,    \* the deployment window: off, open (kill not sent), killed
          affected   \* the models that window flipped to STOPPED

stopVars == <<stopping, stop, window, affected>>

StopIdle == [pc |-> "off", m |-> None, ok |-> FALSE]

StopTypeOK == /\ stopping \subseteq Models
              /\ stop \in [Stops -> [pc : {"off", "kill", "wait", "unset"},
                                     m : Models \cup {None}, ok : BOOLEAN]]
              /\ window \in {"off", "open", "killed"}
              /\ affected \subseteq Models

(* stop_model up to its first await: no check of the model's status.         *)
StopCall(c, m) == /\ stop[c].pc = "off"
                  /\ stopping' = stopping \cup {m}
                  /\ stop' = [stop EXCEPT ![c] = [pc |-> "kill", m |-> m, ok |-> FALSE]]
                  /\ UNCHANGED <<stateVars, hostVars, policyVars, attemptVars, startLock,
                                 window, affected>>

StopKill(c) == /\ stop[c].pc = "kill"
               /\ \E ok \in BOOLEAN :
                    /\ Kill(ok)
                    /\ stop' = [stop EXCEPT ![c].pc = "wait", ![c].ok = ok]
               /\ UNCHANGED <<stateVars, policyVars, attemptVars, startLock,
                              stopping, window, affected>>

(* _wait_for_remote_stop: CLEAN only when no process is left; SSH may fail,  *)
(* or the GPU teardown lag, past the deadline.                               *)
WaitAnswer(clean) == \/ clean = (phase = "off") /\ UNCHANGED trouble
                     \/ clean = FALSE /\ phase = "off" /\ Spend

(* A delivered kill settles the stop even when the wait timed out; a failed  *)
(* one leaves the status to the sync.                                        *)
StopSettles(c, clean) == clean \/ stop[c].ok

StopWait(c) ==
  /\ stop[c].pc = "wait"
  /\ \E clean \in BOOLEAN :
       /\ WaitAnswer(clean)
       /\ IF StopSettles(c, clean)
          THEN /\ Become(stop[c].m, "STOPPED")
               /\ ClearCurrent({stop[c].m})
               /\ Clear({stop[c].m})
               /\ UNCHANGED locked
          ELSE UNCHANGED <<stateVars, policyVars, attemptVars, startLock>>
  /\ stop' = [stop EXCEPT ![c].pc = "unset"]
  /\ UNCHANGED <<served, phase, stopping, window, affected>>

(* Mutant: the flag is dropped on the success path only.                     *)
FlagsAfterSuccess(c) == IF stop[c].ok THEN stopping \ {stop[c].m} ELSE stopping

FlagsAfter(c) == stopping \ {stop[c].m}

(* _unset_launch_env_vars returns, and the finally block runs.               *)
StopEnd(c) == /\ stop[c].pc = "unset"
              /\ stopping' = FlagsAfter(c)
              /\ stop' = [stop EXCEPT ![c] = StopIdle]
              /\ UNCHANGED <<stateVars, hostVars, policyVars, attemptVars, startLock,
                             window, affected>>

(* begin_deployment_stop_window.  It runs on the task's worker thread, model *)
(* by model; here in one step.                                               *)
WindowOpen ==
  LET live == {m \in Models : status[m] \in Transient} IN
  /\ window = "off"
  /\ window' = "open"
  /\ affected' = live
  /\ stopping' = stopping \cup live
  /\ Update([m \in Models |-> IF m \in live THEN "STOPPED" ELSE status[m]])
  /\ ClearCurrent(live)
  /\ Clear(live)
  /\ UNCHANGED <<locked, hostVars, stop>>

(* The pipeline's own global stop_vllm.                                      *)
WindowKill == /\ window = "open"
              /\ window' = "killed"
              /\ \E ok \in BOOLEAN : Kill(ok)
              /\ UNCHANGED <<stateVars, policyVars, attemptVars, startLock,
                             stopping, stop, affected>>

(* end_deployment_stop_window: the pipeline ended, at any point.             *)
WindowClose == /\ window # "off"
               /\ window' = "off"
               /\ stopping' = stopping \ affected
               /\ affected' = {}
               /\ UNCHANGED <<stateVars, hostVars, policyVars, attemptVars, startLock, stop>>

StopInit == /\ stopping = {}
            /\ stop = [c \in Stops |-> StopIdle]
            /\ window = "off"
            /\ affected = {}

StopStep(c) == StopKill(c) \/ StopWait(c) \/ StopEnd(c)
=============================================================================
