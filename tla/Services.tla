------------------------------- MODULE Services -------------------------------
(* Three services of the dashboard process whose promise is that something   *)
(* eventually happens: the state machine's file (StateStore), the shared     *)
(* status bursts (StatusBursts) and the hardware feed (HardwareBroadcaster). *)
(* They share neither state nor locks, so a behaviour here is one of a       *)
(* single service.                                                           *)
EXTENDS StateStore, StatusBursts, HardwareBroadcaster

VARIABLE part

serviceVars == <<part, vars, burstVars, castVars>>

ServiceTypeOK == TypeOK /\ BurstTypeOK /\ CastTypeOK

(* The other services start beside one store rather than beside each.        *)
ServiceInit == /\ Init /\ BurstInit /\ CastInit
               /\ part \in {"store", "status", "hardware"}
               /\ part # "store" => \A m \in Models : disk[m] = "STOPPED"

ServiceNext ==
  \/ part = "store" /\ Next /\ UNCHANGED <<part, burstVars, castVars>>
  \/ part = "status" /\ BurstNext /\ UNCHANGED <<part, vars, castVars>>
  \/ part = "hardware" /\ CastNext /\ UNCHANGED <<part, vars, burstVars>>

(* What fairness makes happen is under way only in the service that moves.   *)
ServiceSpec == /\ ServiceInit /\ [][ServiceNext]_serviceVars
               /\ Fairness /\ BurstFairness /\ CastFairness
=============================================================================
