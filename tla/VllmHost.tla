------------------------------ MODULE VllmHost ------------------------------
(* The AI server as the dashboard meets it over HTTP and SSH (external).    *)
(* One vLLM process at a time owns port 8000 and the GPUs; a second launch  *)
(* while it lives exits on the port conflict.                               *)
EXTENDS ModelState, Naturals

CONSTANT MaxTrouble   \* bound: failures the environment may inflict in a run

ASSUME TroubleAssumption == MaxTrouble \in Nat

Answers == {"yes", "no", "unknown"}

VARIABLES served,   \* the model the process was launched for
          phase,    \* off, loading (process, no API yet), serving, or zombie
                    \* (API process alive, engine core dead)
          trouble   \* failures still available

hostVars == <<served, phase, trouble>>

HostTypeOK == /\ served \in Models \cup {None}
              /\ phase \in {"off", "loading", "serving", "zombie"}
              /\ trouble \in 0..MaxTrouble

Spend == trouble > 0 /\ trouble' = trouble - 1

(* GET /v1/models: a static list, which a zombie keeps answering; an error   *)
(* or a timeout reads as the empty list.                                     *)
Listed == IF phase \in {"serving", "zombie"} THEN {served} ELSE {}

ListAnswer(ids) == \/ ids = Listed /\ UNCHANGED trouble
                   \/ ids = {} /\ Listed # {} /\ Spend

(* _check_vllm_present_strict: TCP connect, then ps over SSH, unknown when   *)
(* SSH fails too.                                                            *)
PresenceAnswer(a) == \/ a = (IF phase = "off" THEN "no" ELSE "yes") /\ UNCHANGED trouble
                     \/ a = "unknown" /\ Spend

(* _check_vllm_engine_health: GET /health, 2xx only from a live engine.      *)
HealthTruth == CASE phase = "serving" -> "yes"
                 [] phase = "zombie"  -> "no"
                 [] OTHER             -> "unknown"

HealthAnswer(a) == \/ a = HealthTruth /\ UNCHANGED trouble
                   \/ a = "unknown" /\ HealthTruth # "unknown" /\ Spend

(* executor.stop_vllm: SIGKILL of the model's tree, or of every vLLM when no *)
(* process carries the model's path; one process at a time, so both end it.  *)
(* "ok" is FALSE when the SSH command failed, before or after it took effect. *)
Killed == phase' = "off" /\ served' = None

Kill(ok) == \/ ok = TRUE  /\ Killed /\ UNCHANGED trouble
            \/ ok = FALSE /\ Spend /\ (Killed \/ UNCHANGED <<phase, served>>)

(* The start command reaches the console shell.                              *)
Launch(m) == /\ IF phase = "off" THEN phase' = "loading" /\ served' = m
                                 ELSE UNCHANGED <<phase, served>>
             /\ UNCHANGED trouble

HostReady == /\ phase = "loading"
             /\ phase' = "serving"
             /\ UNCHANGED <<served, trouble>>

EngineDies == /\ phase = "serving"
              /\ phase' = "zombie"
              /\ Spend
              /\ UNCHANGED served

ProcessDies == /\ phase # "off"
               /\ phase' = "off"
               /\ served' = None
               /\ Spend

HostInit == served = None /\ phase = "off" /\ trouble = MaxTrouble
=============================================================================
