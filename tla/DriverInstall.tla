---------------------------- MODULE DriverInstall -----------------------------
(* The driver pipeline of service/deployment_entry.py and                    *)
(* service/deployment_pipelines_env.py: a request records the driver that is *)
(* installed, the task purges it and installs another, and a failed install  *)
(* puts the recorded one back.  Which tasks exclude each other and how they  *)
(* end is module DeployTasks' subject; here one driver task is in flight.    *)
EXTENDS FiniteSets

CONSTANTS Packages,  \* driver packages
          Requests,  \* requests for a driver
          NoPackage

ASSUME NoPackageAssumption == NoPackage \notin Packages

VARIABLES
  driver,    \* the package installed on the server
  recorded,  \* snapshots.driver.current_pkg
  previous,  \* snapshots.driver.previous_pkg
  request,   \* each request: step, package wanted, package found installed
  task,      \* the driver task: step, package, what it purged, its request
  overlap,   \* history: requests that ran while another one did
  verifying  \* the package of the awaiting task a reconcile is verifying

envVars == <<driver, recorded, previous, request, task, overlap, verifying>>
snapshot == <<recorded, previous>>

Package == Packages \cup {NoPackage}
NoRequest == [step |-> "none", wants |-> NoPackage, found |-> NoPackage]

EnvTypeOK ==
  /\ {driver, recorded, previous, verifying} \subseteq Package
  /\ request \in [Requests -> [step : {"none", "asked", "listed", "recorded"},
                               wants : Package, found : Package]]
  /\ task \in [step : {"none", "purge", "install", "heal", "healed", "awaiting"},
               wants : Package, purged : Package, of : Requests]
  /\ overlap \subseteq Requests

EnvInit == /\ driver \in Package /\ recorded = NoPackage /\ previous = NoPackage
           /\ request = [r \in Requests |-> NoRequest]
           /\ task \in [step : {"none"}, wants : {NoPackage}, purged : {NoPackage},
                        of : Requests]
           /\ overlap = {} /\ verifying = NoPackage

InFlight == task.step \in {"purge", "install", "heal", "healed"}
Under(r) == request[r].step # "none"

(* The operator uses apt by hand.                                            *)
ByHand == /\ ~InFlight /\ \A r \in Requests : ~Under(r)
          /\ driver' \in Package \ {driver}
          /\ UNCHANGED <<snapshot, request, task, overlap, verifying>>

-----------------------------------------------------------------------------
(* start_driver_task, in a worker thread of its own: refused while a driver  *)
(* task is in flight, else an awaiting one is superseded.                    *)
RequestDriver(r, p) ==
  LET others == {q \in Requests : Under(q)}
  IN /\ ~Under(r) /\ ~InFlight
     /\ request' = [request EXCEPT ![r] = [NoRequest EXCEPT !.step = "asked", !.wants = p]]
     /\ task' = [task EXCEPT !.step = "none"]
     /\ overlap' = (overlap \ {r}) \cup (IF others = {} THEN {} ELSE others \cup {r})
     /\ UNCHANGED <<driver, snapshot, verifying>>

ListInstalled(r) == /\ request[r].step = "asked"
                    /\ request' = [request EXCEPT ![r].step = "listed", ![r].found = driver]
                    /\ UNCHANGED <<driver, snapshot, task, overlap, verifying>>

(* Mutant: the recorded package is preferred to the one that is installed.   *)
RecordedOrFound(r) == IF recorded # NoPackage THEN recorded ELSE request[r].found

FoundOrRecorded(r) == IF request[r].found # NoPackage THEN request[r].found ELSE recorded

RecordPrevious(r) == /\ request[r].step = "listed"
                     /\ previous' = FoundOrRecorded(r)
                     /\ request' = [request EXCEPT ![r].step = "recorded"]
                     /\ UNCHANGED <<driver, recorded, task, overlap, verifying>>

(* The claim is checked again; a request refused here has recorded already.  *)
CreateTask(r) == /\ request[r].step = "recorded"
                 /\ task' = IF InFlight THEN task
                            ELSE [step |-> "purge", wants |-> request[r].wants,
                                  purged |-> NoPackage, of |-> r]
                 /\ request' = [request EXCEPT ![r] = NoRequest]
                 /\ UNCHANGED <<driver, snapshot, overlap, verifying>>

(* start_rollback_driver is a request for the recorded previous package.     *)
RequestRollBack(r) == previous # NoPackage /\ RequestDriver(r, previous)

-----------------------------------------------------------------------------
(* _run_driver.  A step that fails, is cancelled or times out may have done  *)
(* its work or not.                                                          *)
Over == task' = [task EXCEPT !.step = "none"]

Purge == /\ task.step = "purge"
         /\ \/ /\ driver' = NoPackage
               /\ task' = [task EXCEPT !.step = "install", !.purged = driver]
            \/ driver' \in {driver, NoPackage} /\ Over
         /\ UNCHANGED <<snapshot, request, overlap, verifying>>

Install == /\ task.step = "install"
           /\ \/ /\ driver' = task.wants
                 /\ recorded' = task.wants
                 /\ task' = [task EXCEPT !.step = "awaiting"]
              \/ /\ task' = [task EXCEPT !.step = "heal"]         \* the install fails
                 /\ UNCHANGED <<driver, recorded>>
              \/ /\ driver' \in {driver, task.wants} /\ Over      \* cancelled
                 /\ UNCHANGED recorded
           /\ UNCHANGED <<previous, request, overlap, verifying>>

SelfHeal == /\ task.step = "heal"
            /\ \/ /\ previous # NoPackage
                  /\ driver' = previous
                  /\ task' = [task EXCEPT !.step = "healed"]
               \/ Over /\ UNCHANGED driver
            /\ UNCHANGED <<snapshot, request, overlap, verifying>>

Reraise == /\ task.step = "healed"
           /\ Over
           /\ UNCHANGED <<driver, snapshot, request, overlap, verifying>>

(* reconcile_driver_task looks at the awaiting task, asks nvidia-smi, and    *)
(* records the package although the task may be superseded by then (and is   *)
(* left alone then).                                                         *)
ReconcileLooks == /\ task.step = "awaiting"
                  /\ driver = task.wants
                  /\ verifying' = task.wants
                  /\ UNCHANGED <<driver, snapshot, request, task, overlap>>

ReconcileRecords == /\ verifying # NoPackage
                    /\ recorded' = verifying
                    /\ verifying' = NoPackage
                    /\ \/ task.step = "awaiting" /\ task.wants = verifying /\ Over
                       \/ UNCHANGED task
                    /\ UNCHANGED <<driver, previous, request, overlap>>

EnvNext == \/ ByHand
           \/ \E r \in Requests : \/ \E p \in Packages : RequestDriver(r, p)
                                  \/ RequestRollBack(r) \/ ListInstalled(r)
                                  \/ RecordPrevious(r) \/ CreateTask(r)
           \/ Purge \/ Install \/ SelfHeal \/ Reraise
           \/ ReconcileLooks \/ ReconcileRecords

EnvSpec == EnvInit /\ [][EnvNext]_envVars

-----------------------------------------------------------------------------
(* A healed install is back at the driver that this very task purged, after  *)
(* any sequence of installs, failures, roll-backs and packages put in by     *)
(* hand, if its request did not overlap another one (which records its own   *)
(* view of the server into the same snapshot before it is refused).          *)
HealsPurged ==
  task.step = "healed" /\ task.of \notin overlap /\ task.purged # NoPackage
    => driver = task.purged
=============================================================================
