--------------------------- MODULE PowerOpsProofs -----------------------------
(* A power-on the BMC confirmed is one: for every length of the confirm      *)
(* window that a clean shutdown does not outlast, any number of actions, and *)
(* a BMC that falls mute whenever it likes.                                  *)
EXTENDS PowerOps, TLAPS

(* While the window is open, the shutdown under way when it opened (if no    *)
(* other was asked for since) is over before the window is: there are at     *)
(* least as many reads left as it has ticks.                                 *)
WindowOutlasts ==
  ~disturbed => /\ onStep = "confirm" => fall <= readsLeft
                /\ onStep = "read" => fall = 0 \/ fall < readsLeft

PInv == PowerTypeOK /\ WindowOutlasts /\ ConfirmedIsOn

LEMMA InitPInv == PowerInit => PInv
<1> SUFFICES ASSUME PowerInit PROVE PInv
  OBVIOUS
<1>1. /\ network \in BOOLEAN /\ hasBmc \in BOOLEAN /\ bmcUp \in BOOLEAN
      /\ models \in BOOLEAN /\ disturbed \in BOOLEAN
  BY Zenon DEF PowerInit
<1>2. network => chassis = "on"
  BY Zenon DEF PowerInit
<1>3. PowerTypeOK
  BY <1>1, <1>2, PowerBounds DEF PowerInit, PowerTypeOK, OnSteps
<1> QED
  BY <1>3 DEF PowerInit, PInv, WindowOutlasts, ConfirmedIsOn

(* The machine's clock: a shutdown gets nearer, the chassis drops at its end.*)
LEMMA FallFacts ==
  ASSUME fall \in 0..FallTicks, chassis \in {"off", "on"}, network \in BOOLEAN,
         network \/ fall > 0 => chassis = "on", Fall
  PROVE  /\ fall' \in 0..FallTicks /\ chassis' \in {"off", "on"} /\ network' \in BOOLEAN
         /\ network' \/ fall' > 0 => chassis' = "on"
         /\ fall = 0 => fall' = 0 /\ chassis' = chassis
         /\ fall > 0 => fall' = fall - 1
<1>1. CASE fall = 1
  <2>1. network' \in BOOLEAN /\ ~network'
    BY <1>1 DEF Fall
  <2> QED
    BY <1>1, <2>1, PowerBounds DEF Fall
<1>2. CASE fall # 1
  BY <1>2, PowerBounds DEF Fall
<1> QED
  BY <1>1, <1>2

LEMMA StepPInv == PInv /\ [PowerNext]_powerVars => PInv'
<1> SUFFICES ASSUME PInv, [PowerNext]_powerVars PROVE PInv'
  OBVIOUS
<1> USE PowerBounds, ShutdownIsShort
    DEF PInv, PowerTypeOK, WindowOutlasts, ConfirmedIsOn,
        machineVars, loopVars, OnSteps
<1>1. CASE Boot
  BY <1>1 DEF Boot
<1>2. CASE BmcChanges
  BY <1>2 DEF BmcChanges
<1>3. CASE ModelComesUp
  BY <1>3 DEF ModelComesUp
<1>4. CASE PowerAction
  <2>1. models' \in BOOLEAN /\ disturbed'
    BY <1>4 DEF PowerAction, ResetModels
  <2>2. /\ UNCHANGED <<hasBmc, bmcUp, faults, loopVars, outcome>>
        /\ actions' \in 0..MaxActions
    BY <1>4 DEF PowerAction
  <2>3. network' = FALSE \/ network' = network
    BY <1>4 DEF PowerAction, PowersOff, ShutsDown, Restarts
  <2>4. network' \in BOOLEAN /\ (network' => network)
    <3>1. CASE network' = FALSE
      BY <3>1, Zenon
    <3>2. CASE network' = network
      BY <3>2
    <3> QED
      BY <2>3, <3>1, <3>2
  <2>5. network' /\ PowersOff => FALSE
    BY Zenon DEF PowersOff
  <2>6. chassis' \in {"off", "on"} /\ fall' \in 0..FallTicks
    BY <1>4 DEF PowerAction, PowersOff, ShutsDown, Restarts
  <2>7. network' \/ fall' > 0 => chassis' = "on"
    BY <1>4, <2>4, <2>5 DEF PowerAction, PowersOff, ShutsDown, Restarts
  <2> QED
    BY <2>1, <2>2, <2>4, <2>6, <2>7
<1>5. CASE BmcReset
  BY <1>5 DEF BmcReset, ResetModels
<1>6. CASE PowerOnAsked
  <2>1. disturbed' \in BOOLEAN /\ outcome' = "none" /\ onStep' = "issue"
    BY <1>6, Zenon DEF PowerOnAsked
  <2> QED
    BY <1>6, <2>1 DEF PowerOnAsked
<1>7. CASE IssueOn
  BY <1>7 DEF IssueOn, To, MaySkip
<1>8. CASE CheckOn
  BY <1>8 DEF CheckOn, To, MaySkip, Reads
<1>9. CASE ConfirmOn
  BY <1>9 DEF ConfirmOn, StillOn, Reads, To, Ends
<1>10. CASE ProbeServer
  BY <1>10 DEF ProbeServer, To, Ends, MaySkip
<1>11. CASE PowerTick
  <2>1. /\ fall' \in 0..FallTicks /\ chassis' \in {"off", "on"} /\ network' \in BOOLEAN
        /\ network' \/ fall' > 0 => chassis' = "on"
        /\ fall = 0 => fall' = 0 /\ chassis' = chassis
        /\ fall > 0 => fall' = fall - 1
    BY <1>11, FallFacts DEF PowerTick
  <2>2. PowerTypeOK'
    BY <1>11, <2>1 DEF PowerTick, To, Ends
  <2>3. WindowOutlasts'
    BY <1>11, <2>1 DEF PowerTick, To, Ends
  <2>4. ConfirmedIsOn'
    BY <1>11, <2>1 DEF PowerTick, To, Ends
  <2> QED
    BY <2>2, <2>3, <2>4
<1>12. CASE UNCHANGED powerVars
  BY <1>12 DEF powerVars
<1> QED
  BY <1>1, <1>2, <1>3, <1>4, <1>5, <1>6, <1>7, <1>8, <1>9, <1>10, <1>11, <1>12
  DEF PowerNext

(* The power endpoints never leave their types; in particular what answers   *)
(* the network, or is about to go down, is a machine that is on.             *)
THEOREM PowerTypes == PowerSpec => []PowerTypeOK
<1>1. PInv => PowerTypeOK
  BY DEF PInv
<1> QED
  BY <1>1, InitPInv, StepPInv, PTL DEF PowerSpec

(* "The chassis is on", confirmed by the BMC, is true and stays true until   *)
(* somebody acts: a shutdown under way when the power-on was asked, which a  *)
(* single read would take for success, is over within the confirm window.    *)
THEOREM ConfirmedStaysOn == PowerSpec => []ConfirmedIsOn
<1>1. PInv => ConfirmedIsOn
  BY DEF PInv
<1> QED
  BY <1>1, InitPInv, StepPInv, PTL DEF PowerSpec
=============================================================================
