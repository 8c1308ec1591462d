------------------------------ MODULE DeployTool ------------------------------
(* tools/server_deploy.py: builds the dashboard's image on the server,       *)
(* replaces the container by it behind a health gate, and rolls back to the  *)
(* image that ran before.  Runs of one checkout exclude each other by        *)
(* .deploy.lock; connections break, docker refuses, runs are killed.         *)
EXTENDS FiniteSets, Naturals

CONSTANTS Runs,      \* runs of the tool from one checkout
          Versions,  \* contents of the working tree
          Runnable,  \* those whose container starts ...
          Healthy,   \* ... and those that answer /health then
          Nothing,
          MaxToolTrouble \* bound: broken connections, docker failures, kills

ASSUME DeployVersions == Healthy \subseteq Runnable /\ Runnable \subseteq Versions
ASSUME NothingAssumption == Nothing \notin Versions \cup Runs
ASSUME TroubleBound == MaxToolTrouble \in Nat

VARIABLES
  tree,      \* the working tree
  deployLock, \* .deploy.lock
  tarball,   \* TAR_LOCAL, shared by the runs of a checkout
  shipped,   \* TAR_REMOTE and BUILD_DIR
  container, \* the container of that name: its image, and whether it runs
  toolTrouble, \* failures so far
  run,       \* each run: pc, tree packed, image built, image and service found,
             \* whether all went well for it, its connection, its report
  last       \* history: the run that ended last

toolVars == <<tree, deployLock, tarball, shipped, container, toolTrouble, run, last>>

Content == Versions \cup {Nothing}
Absent  == [image |-> Nothing, up |-> FALSE]
NewRun  == [pc |-> "idle", packed |-> Nothing, image |-> Nothing, old |-> Nothing,
            served |-> FALSE, sound |-> TRUE, linked |-> TRUE, report |-> "none"]

ToolTypeOK ==
  /\ tree \in Versions /\ {tarball, shipped} \subseteq Content
  /\ deployLock \in Runs \cup {Nothing} /\ last \in Runs \cup {Nothing}
  /\ container \in [image : Content, up : BOOLEAN]
  /\ container.up => container.image \in Runnable
  /\ toolTrouble \in 0..MaxToolTrouble
  /\ run \in [Runs -> [pc : {"idle", "pack", "upload", "build", "inspect", "clear", "start",
                             "gate", "back", "restart", "regate", "cleanup", "ended"},
                       packed : Content, image : Content, old : Content,
                       served : BOOLEAN, sound : BOOLEAN, linked : BOOLEAN,
                       report : {"none", "refused", "ok", "rolled_back", "failed"}]]

ToolInit == /\ tree \in Versions
            /\ deployLock = Nothing /\ tarball = Nothing /\ shipped = Nothing
            /\ container \in {Absent} \cup {[image |-> v, up |-> TRUE] : v \in Healthy}
            /\ toolTrouble = 0
            /\ run = [r \in Runs |-> NewRun] /\ last = Nothing

At(r, pc)  == run[r].pc = pc
Go(r, pc)  == run' = [run EXCEPT ![r].pc = pc]
Exit(r, how) == run' = [run EXCEPT ![r].pc = "cleanup", ![r].report = how]

(* A step of the run that the environment spoils: it counts, and the run is  *)
(* no longer one in which everything worked.                                 *)
Spoils == toolTrouble < MaxToolTrouble /\ toolTrouble' = toolTrouble + 1

ChangeTree == /\ tree' \in Versions \ {tree}
              /\ \E r \in Runs : At(r, "idle")
              /\ UNCHANGED <<deployLock, tarball, shipped, container, toolTrouble, run, last>>

(* Mutant: the lock is taken without asking whether it is held.              *)
LockIgnored == TRUE

LockFreeToTake == deployLock = Nothing

(* _acquire_deploy_lock: taken at once or not at all.                        *)
LockOrRefuse(r) ==
  /\ At(r, "idle")
  /\ IF LockFreeToTake
     THEN deployLock' = r /\ Go(r, "pack")
     ELSE /\ run' = [run EXCEPT ![r].pc = "ended", ![r].report = "refused"]
          /\ UNCHANGED deployLock
  /\ UNCHANGED <<tree, tarball, shipped, container, toolTrouble, last>>

Pack(r) == /\ At(r, "pack")
           /\ tarball' = tree
           /\ run' = [run EXCEPT ![r].pc = "upload", ![r].packed = tree]
           /\ UNCHANGED <<tree, deployLock, shipped, container, toolTrouble, last>>

Upload(r) == /\ At(r, "upload") /\ run[r].linked
             /\ shipped' = tarball
             /\ Go(r, "build")
             /\ UNCHANGED <<tree, deployLock, tarball, container, toolTrouble, last>>

(* The image is what the build directory holds.                              *)
Build(r) == /\ At(r, "build") /\ run[r].linked
            /\ \/ /\ run' = [run EXCEPT ![r].pc = "inspect", ![r].image = shipped]
                  /\ UNCHANGED toolTrouble
               \/ Spoils /\ Exit(r, "failed")
            /\ UNCHANGED <<tree, deployLock, tarball, shipped, container, last>>

(* docker inspect: the image of the container there is, running or not.      *)
Inspect(r) == /\ At(r, "inspect") /\ run[r].linked
              /\ run' = [run EXCEPT ![r].pc = "clear", ![r].old = container.image,
                                    ![r].served = container.up]
              /\ UNCHANGED <<tree, deployLock, tarball, shipped, container, toolTrouble, last>>

(* _stop_and_remove: a container that is still there afterwards ends the run.*)
Removes(r, next) ==
  /\ run[r].linked
  /\ \/ /\ container' = Absent
        /\ Go(r, next)
        /\ UNCHANGED toolTrouble
     \/ /\ Spoils
        /\ container.image # Nothing
        /\ container' = [container EXCEPT !.up = FALSE]
        /\ run' = [run EXCEPT ![r].pc = "cleanup", ![r].report = "failed",
                              ![r].sound = FALSE]

StopAndRemove(r) == /\ At(r, "clear")
                    /\ Removes(r, "start")
                    /\ UNCHANGED <<tree, deployLock, tarball, shipped, last>>

(* docker run: refused when the name is taken; a container that cannot start *)
(* keeps the name.                                                           *)
RunContainer(v) ==
  container' = IF container.image = Nothing THEN [image |-> v, up |-> v \in Runnable]
                                            ELSE container
Started(v) == container.image = Nothing /\ v \in Runnable

(* Failed run or gate: back to the recorded image, if there is one.          *)
GiveUpNew(r) == IF run[r].old # Nothing THEN Go(r, "back") ELSE Exit(r, "failed")

StartNew(r) == /\ At(r, "start")
               /\ IF run[r].linked THEN RunContainer(run[r].image)
                                   ELSE UNCHANGED container
               /\ IF run[r].linked /\ Started(run[r].image) THEN Go(r, "gate")
                                                            ELSE GiveUpNew(r)
               /\ UNCHANGED <<tree, deployLock, tarball, shipped, toolTrouble, last>>

(* The gate may time out on an image that would have become healthy.         *)
Answers == container.up /\ container.image \in Healthy

Gate(r) == /\ At(r, "gate")
           /\ \/ run[r].linked /\ Answers /\ Exit(r, "ok") /\ UNCHANGED toolTrouble
              \/ ~(run[r].linked /\ Answers) /\ GiveUpNew(r) /\ UNCHANGED toolTrouble
              \/ Spoils /\ GiveUpNew(r)
           /\ UNCHANGED <<tree, deployLock, tarball, shipped, container, last>>

RollBackClears(r) == /\ At(r, "back")
                     /\ Removes(r, "restart")
                     /\ UNCHANGED <<tree, deployLock, tarball, shipped, last>>

RollBackRuns(r) == /\ At(r, "restart") /\ run[r].linked
                   /\ RunContainer(run[r].old)
                   /\ IF Started(run[r].old) THEN Go(r, "regate") ELSE Exit(r, "failed")
                   /\ UNCHANGED <<tree, deployLock, tarball, shipped, toolTrouble, last>>

RollBackGate(r) == /\ At(r, "regate") /\ run[r].linked
                   /\ \/ Answers /\ Exit(r, "rolled_back") /\ UNCHANGED toolTrouble
                      \/ ~Answers /\ Exit(r, "failed") /\ UNCHANGED toolTrouble
                      \/ Spoils /\ Exit(r, "failed")
                   /\ UNCHANGED <<tree, deployLock, tarball, shipped, container, last>>

(* deploy()'s finally and the end of the process, which frees the lock.      *)
CleanUp(r) == /\ At(r, "cleanup")
              /\ tarball' = Nothing
              /\ shipped' = IF run[r].linked THEN Nothing ELSE shipped
              /\ Go(r, "ended")
              /\ deployLock' = IF deployLock = r THEN Nothing ELSE deployLock
              /\ last' = r
              /\ UNCHANGED <<tree, container, toolTrouble>>

-----------------------------------------------------------------------------
(* The connection breaks for good: docker run may still have taken effect.   *)
LinkBreaks(r) ==
  /\ run[r].linked /\ run[r].pc \notin {"idle", "cleanup", "ended"}
  /\ Spoils
  /\ IF At(r, "start") THEN container' = container \/ RunContainer(run[r].image)
                       ELSE UNCHANGED container
  /\ run' = [run EXCEPT ![r].linked = FALSE, ![r].sound = FALSE]
  /\ UNCHANGED <<tree, deployLock, tarball, shipped, last>>

(* Every remote call but docker run and the gate of the new image is         *)
(* unguarded: the exception ends the run, in the rollback too.               *)
Raises(r) == /\ ~run[r].linked
             /\ run[r].pc \in {"upload", "build", "inspect", "clear", "back", "restart",
                               "regate"}
             /\ Exit(r, "failed")
             /\ UNCHANGED <<tree, deployLock, tarball, shipped, container, toolTrouble, last>>

Killed(r) == /\ run[r].pc \notin {"idle", "ended"}
             /\ Spoils
             /\ run' = [run EXCEPT ![r].pc = "ended", ![r].report = "failed",
                                   ![r].sound = FALSE]
             /\ deployLock' = IF deployLock = r THEN Nothing ELSE deployLock
             /\ last' = r
             /\ UNCHANGED <<tree, tarball, shipped, container>>

ToolNext ==
  \/ ChangeTree
  \/ \E r \in Runs : \/ LockOrRefuse(r) \/ Pack(r) \/ Upload(r) \/ Build(r) \/ Inspect(r)
                     \/ StopAndRemove(r) \/ StartNew(r) \/ Gate(r) \/ RollBackClears(r)
                     \/ RollBackRuns(r) \/ RollBackGate(r) \/ CleanUp(r)
                     \/ LinkBreaks(r) \/ Raises(r) \/ Killed(r)

ToolSpec == ToolInit /\ [][ToolNext]_toolVars

-----------------------------------------------------------------------------
Quiet == deployLock = Nothing /\ last # Nothing

(* What the tool reported last is so: after DEPLOY_OK the image packed by    *)
(* that very run serves, after ROLLED_BACK the image it found does, and a    *)
(* run in which no call was lost, no removal stuck and nobody killed it      *)
(* never leaves the port dark that it found served.                          *)
ReportIsTrue ==
  Quiet => LET r == run[last] IN
    /\ r.report = "ok" => container = [image |-> r.packed, up |-> TRUE]
    /\ r.report = "rolled_back" => container = [image |-> r.old, up |-> TRUE]
    /\ r.sound /\ r.served => container.up
=============================================================================
