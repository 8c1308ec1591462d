------------------------------- MODULE PowerOps -------------------------------
(* executor/remote/power_ops.py and the power endpoints of                   *)
(* api/server_config.py: power actions through the BMC or, without one, over *)
(* SSH, and the power-on loop, which issues the command again and again      *)
(* until the BMC or the network confirms it.                                 *)
EXTENDS Naturals

CONSTANTS MaxFaults,    \* bound: times the BMC falls mute
          MaxActions,   \* bound: power actions and power-ons
          Rounds,       \* rounds of the loop within its 120 s
          ConfirmReads, \* reads of the confirm window (4 s, one each 1.5 s)
          FallTicks     \* the longest clean shutdown, in 1.5 s

ASSUME PowerBounds == /\ MaxFaults \in Nat /\ MaxActions \in Nat
                      /\ Rounds \in Nat /\ ConfirmReads \in Nat /\ FallTicks \in Nat
(* "A clean poweroff takes a few seconds": the window is meant to outlast it.*)
ASSUME ShutdownIsShort == FallTicks <= ConfirmReads

VARIABLES
  chassis,   \* off or on
  fall,      \* ticks until the shutdown under way drops it; 0: none
  network,   \* the server answers TCP
  hasBmc, bmcUp,
  faults, actions,
  models,    \* the dashboard shows models as running or loading
  onStep,    \* where power_on_server's loop is
  roundsLeft, readsLeft, \* its rounds, and reads of the confirm window, left
  outcome,   \* how the last power-on ended
  disturbed  \* history: a power action was issued since it was asked

machineVars == <<chassis, fall, network>>
loopVars    == <<onStep, roundsLeft, readsLeft>>
powerVars   == <<machineVars, hasBmc, bmcUp, faults, actions, models, loopVars, outcome,
                 disturbed>>

OnSteps == {"none", "issue", "check", "confirm", "read", "probe", "sleep"}

PowerTypeOK ==
  /\ chassis \in {"off", "on"} /\ fall \in 0..FallTicks
  /\ network \in BOOLEAN /\ hasBmc \in BOOLEAN /\ bmcUp \in BOOLEAN
  /\ models \in BOOLEAN /\ disturbed \in BOOLEAN
  /\ faults \in 0..MaxFaults /\ actions \in 0..MaxActions
  /\ onStep \in OnSteps /\ roundsLeft \in 0..Rounds /\ readsLeft \in 0..ConfirmReads
  /\ outcome \in {"none", "bmc", "network", "failed"}
  /\ network \/ fall > 0 => chassis = "on"

PowerInit == /\ chassis \in {"off", "on"} /\ fall = 0 /\ network = (chassis = "on")
             /\ hasBmc \in BOOLEAN /\ bmcUp = TRUE
             /\ faults = 0 /\ actions = 0
             /\ models = (chassis = "on")
             /\ onStep = "none" /\ roundsLeft = 0 /\ readsLeft = 0
             /\ outcome = "none" /\ disturbed = FALSE

-----------------------------------------------------------------------------
(* The machine, the BMC and the operator's models.                           *)
Fall == IF fall = 1
        THEN chassis' = "off" /\ fall' = 0 /\ network' = FALSE
        ELSE fall' = (IF fall = 0 THEN 0 ELSE fall - 1) /\ UNCHANGED <<chassis, network>>

Boot == /\ chassis = "on" /\ fall = 0 /\ ~network
        /\ network' = TRUE
        /\ UNCHANGED <<chassis, fall, hasBmc, bmcUp, faults, actions, models, loopVars,
                       outcome, disturbed>>

BmcChanges == /\ IF bmcUp THEN faults < MaxFaults /\ faults' = faults + 1
                          ELSE UNCHANGED faults
              /\ bmcUp' = ~bmcUp
              /\ UNCHANGED <<machineVars, hasBmc, actions, models, loopVars, outcome, disturbed>>

ModelComesUp == /\ network /\ ~models
                /\ models' = TRUE
                /\ UNCHANGED <<machineVars, hasBmc, bmcUp, faults, actions, loopVars, outcome,
                               disturbed>>

-----------------------------------------------------------------------------
PowersOff  == chassis' = "off" /\ fall' = 0 /\ network' = FALSE
ShutsDown  == /\ fall' \in IF chassis = "on" THEN 1..FallTicks ELSE {0}
              /\ UNCHANGED <<chassis, network>>
Restarts   == chassis' = chassis /\ fall' = 0 /\ network' = FALSE

(* shutdown_server: the channel by configuration, then the models that were  *)
(* up are STOPPED at once, whenever the machine really goes down.            *)
ResetModels == models' = FALSE

PowerAction ==
  /\ actions < MaxActions
  /\ \/ /\ hasBmc /\ bmcUp
        /\ PowersOff \/ ShutsDown \/ Restarts    \* off, soft, reset and cycle
     \/ /\ ~hasBmc /\ network
        /\ ShutsDown \/ Restarts                 \* sudo poweroff, sudo reboot
  /\ ResetModels
  /\ actions' = actions + 1
  /\ disturbed' = TRUE
  /\ UNCHANGED <<hasBmc, bmcUp, faults, loopVars, outcome>>

(* The page saw the chassis go off by itself.                                *)
BmcReset == /\ models
            /\ ResetModels
            /\ UNCHANGED <<machineVars, hasBmc, bmcUp, faults, actions, loopVars, outcome,
                           disturbed>>

-----------------------------------------------------------------------------
(* power_on_server.                                                          *)
Reads(power) == bmcUp /\ chassis = power

To(next) == onStep' = next /\ UNCHANGED <<roundsLeft, readsLeft>>

Ends(how) == onStep' = "none" /\ outcome' = how /\ UNCHANGED <<roundsLeft, readsLeft>>

PowerOnAsked ==
  /\ onStep = "none" /\ hasBmc /\ actions < MaxActions
  /\ actions' = actions + 1
  /\ onStep' = "issue" /\ roundsLeft' = Rounds /\ UNCHANGED readsLeft
  /\ outcome' = "none" /\ disturbed' = FALSE
  /\ UNCHANGED <<machineVars, hasBmc, bmcUp, faults, models>>

(* Of the three parts of a round, each is due at its own interval (8, 3 and  *)
(* 5 s): all in the first, any of them later.                                *)
MaySkip == roundsLeft < Rounds

(* "chassis power on" does nothing to a chassis that is still on.            *)
IssueOn == /\ onStep = "issue"
           /\ \/ bmcUp /\ chassis' = "on"
              \/ (~bmcUp \/ MaySkip) /\ UNCHANGED chassis
           /\ To("check")
           /\ UNCHANGED <<fall, network, hasBmc, bmcUp, faults, actions, models, outcome,
                          disturbed>>

CheckOn == /\ onStep = "check"
           /\ \/ /\ Reads("on")
                 /\ onStep' = "confirm" /\ readsLeft' = ConfirmReads /\ UNCHANGED roundsLeft
              \/ (~Reads("on") \/ MaySkip) /\ To("probe")
           /\ UNCHANGED <<machineVars, hasBmc, bmcUp, faults, actions, models, outcome,
                          disturbed>>

(* Mutant: a read without an answer does not count against the power-on.     *)
NotSeenOff == ~Reads("off")

(* _confirm_power_on: every read of the window must say on.                  *)
StillOn == Reads("on")

ConfirmOn == /\ onStep = "read"
             /\ \/ /\ StillOn /\ readsLeft > 1
                   /\ onStep' = "confirm" /\ readsLeft' = readsLeft - 1 /\ UNCHANGED roundsLeft
                   /\ UNCHANGED outcome
                \/ StillOn /\ readsLeft = 1 /\ Ends("bmc")
                \/ ~StillOn /\ To("probe") /\ UNCHANGED outcome
             /\ UNCHANGED <<machineVars, hasBmc, bmcUp, faults, actions, models, disturbed>>

(* The SSH probe, connected or merely not refused by a host that is down.    *)
ProbeServer == /\ onStep = "probe"
               /\ \/ network /\ Ends("network")
                  \/ (~network \/ MaySkip) /\ To("sleep") /\ UNCHANGED outcome
               /\ UNCHANGED <<machineVars, hasBmc, bmcUp, faults, actions, models,
                              disturbed>>

(* A tick: a sleep of the loop, or outside of it a moment of the machine's.  *)
PowerTick ==
  /\ \/ /\ onStep = "confirm" /\ To("read") /\ UNCHANGED outcome
     \/ /\ onStep = "sleep" /\ roundsLeft > 1
        /\ onStep' = "issue" /\ roundsLeft' = roundsLeft - 1 /\ UNCHANGED readsLeft
        /\ UNCHANGED outcome
     \/ onStep = "sleep" /\ roundsLeft <= 1 /\ Ends("failed")
     \/ fall > 0 /\ onStep \in {"none", "check", "probe"} /\ UNCHANGED <<loopVars, outcome>>
  /\ Fall
  /\ UNCHANGED <<hasBmc, bmcUp, faults, actions, models, disturbed>>

PowerNext == \/ Boot
             \/ BmcChanges
             \/ ModelComesUp
             \/ PowerAction
             \/ BmcReset
             \/ PowerOnAsked
             \/ IssueOn
             \/ CheckOn
             \/ ConfirmOn
             \/ ProbeServer
             \/ PowerTick

PowerSpec == PowerInit /\ [][PowerNext]_powerVars

-----------------------------------------------------------------------------
(* A power-on that the BMC confirmed leaves the machine on: neither a        *)
(* shutdown that was under way when it was asked nor a mute BMC is taken for *)
(* its success, unless another power action came in between.  (One confirmed *)
(* by the network promises nothing of the kind.)                             *)
ConfirmedIsOn == outcome = "bmc" /\ ~disturbed => chassis = "on" /\ fall = 0
=============================================================================
