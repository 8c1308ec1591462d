---------------------------- MODULE ServerChanges -----------------------------
(* What the dashboard does to the GPU server and keeps track of, one part    *)
(* per job: deployment tasks, the driver package under them, power, model    *)
(* downloads, the model catalog, launch configurations, vLLM's access log,   *)
(* and the tool that deploys the dashboard itself.  Each part's module has   *)
(* the steps of the others it meets as its own nondeterminism and shares no  *)
(* variable with them, so a behaviour here is one of a single part.          *)
EXTENDS Deployment, DriverInstall, PowerOps, Downloads, Catalog, LaunchFiles,
        AccessLog, DeployTool

VARIABLE part

filesVars   == <<dlVars, catVars, fileVars, logVars>>
hostVars    == <<envVars, powerVars, toolVars>>
changesVars == <<part, vars, hostVars, filesVars>>

ChangesTypeOK == /\ TypeOK /\ EnvTypeOK /\ PowerTypeOK /\ ToolTypeOK
                 /\ DownloadTypeOK /\ CatTypeOK /\ FileTypeOK /\ LogTypeOK

(* A part that does not move starts in one of its initial states only.       *)
ChangesInit ==
  /\ Init /\ EnvInit /\ PowerInit /\ ToolInit
  /\ DownloadInit /\ CatInit /\ FileInit /\ LogInit
  /\ part \in {"deployments", "driver", "power", "tool",
               "downloads", "catalog", "configs", "log"}
  /\ part # "driver" => driver = NoPackage /\ task.of = CHOOSE r \in Requests : TRUE
  /\ part # "power" => chassis = "on" /\ hasBmc
  /\ part # "tool" => container = Absent /\ tree = CHOOSE v \in Versions : TRUE
  /\ part # "catalog" => onServer = {}

HostNext ==
  \/ part = "driver" /\ EnvNext /\ UNCHANGED <<powerVars, toolVars>>
  \/ part = "power" /\ PowerNext /\ UNCHANGED <<envVars, toolVars>>
  \/ part = "tool" /\ ToolNext /\ UNCHANGED <<envVars, powerVars>>

FilesNext ==
  \/ part = "downloads" /\ DownloadNext /\ UNCHANGED <<catVars, fileVars, logVars>>
  \/ part = "catalog" /\ CatNext /\ UNCHANGED <<dlVars, fileVars, logVars>>
  \/ part = "configs" /\ FileNext /\ UNCHANGED <<dlVars, catVars, logVars>>
  \/ part = "log" /\ LogNext /\ UNCHANGED <<dlVars, catVars, fileVars>>

ChangesNext ==
  \/ part = "deployments" /\ Next /\ UNCHANGED <<part, hostVars, filesVars>>
  \/ HostNext /\ UNCHANGED <<part, vars, filesVars>>
  \/ FilesNext /\ UNCHANGED <<part, vars, hostVars>>

ChangesSpec == ChangesInit /\ [][ChangesNext]_changesVars
=============================================================================
