-------------------------- MODULE ServerChangesProofs --------------------------
(* The safety properties of the parts of ServerChanges, for every set of     *)
(* requests, packages, repositories, models, configurations, runs and every  *)
(* bound, and that a behaviour of ServerChanges is one of each of its parts, *)
(* so that what is proved of a part holds of the whole.                      *)
EXTENDS ServerChanges, DeploymentProofs, PowerOpsProofs

-----------------------------------------------------------------------------
(* DriverInstall: a request that overlaps no other is alone from its listing *)
(* to the end of its task, so what it recorded is what the task purges.      *)

(* A request that did not overlap is alone, finds no task in flight, and what *)
(* it lists and records is what is installed.                                *)
AloneUnderWay ==
  \A r \in Requests : Under(r) /\ r \notin overlap =>
    /\ ~InFlight /\ \A q \in Requests : Under(q) => q = r
    /\ request[r].step \in {"listed", "recorded"} => request[r].found = driver
    /\ request[r].step = "recorded" /\ driver # NoPackage => previous = driver

(* The task of such a request meets no other request, and what it purges is  *)
(* what a heal puts back.                                                    *)
AloneInFlight ==
  InFlight /\ task.of \notin overlap =>
    /\ \A q \in Requests : ~Under(q)
    /\ task.step = "purge" /\ driver # NoPackage => previous = driver
    /\ task.step \in {"install", "heal"} /\ task.purged # NoPackage
         => previous = task.purged
    /\ HealsPurged

EnvRequests == [step : {"none", "asked", "listed", "recorded"}, wants : Package,
                found : Package]
EnvTasks == [step : {"none", "purge", "install", "heal", "healed", "awaiting"},
             wants : Package, purged : Package, of : Requests]

EnvShape == /\ driver \in Package /\ recorded \in Package
            /\ previous \in Package /\ verifying \in Package
            /\ request \in [Requests -> EnvRequests] /\ task \in EnvTasks
            /\ overlap \subseteq Requests

EnvInv == EnvShape /\ AloneUnderWay /\ AloneInFlight

LEMMA EnvTyped == EnvShape => EnvTypeOK
  BY DEF EnvShape, EnvTypeOK, EnvRequests, EnvTasks

LEMMA EnvInitially == EnvInit => EnvInv
  BY DEF EnvInit, EnvInv, EnvShape, EnvTasks, EnvRequests, AloneUnderWay, AloneInFlight,
         InFlight, Under, NoRequest, Package

LEMMA TaskSteps ==
  ASSUME NEW t \in EnvTasks
  PROVE  /\ \A s \in {"none", "heal", "healed", "awaiting"} :
              /\ [t EXCEPT !.step = s] \in EnvTasks
              /\ [t EXCEPT !.step = s].of = t.of
              /\ [t EXCEPT !.step = s].step = s
         /\ \A p \in Package :
              /\ [t EXCEPT !.step = "install", !.purged = p] \in EnvTasks
              /\ [t EXCEPT !.step = "install", !.purged = p].of = t.of
  BY DEF EnvTasks

LEMMA RequestSteps ==
  ASSUME NEW q \in EnvRequests, NEW p \in Package
  PROVE  /\ [q EXCEPT !.step = "listed", !.found = p] \in EnvRequests
         /\ [q EXCEPT !.step = "listed", !.found = p].step = "listed"
         /\ [q EXCEPT !.step = "listed", !.found = p].found = p
         /\ [q EXCEPT !.step = "recorded"] \in EnvRequests
         /\ [q EXCEPT !.step = "recorded"].step = "recorded"
         /\ [q EXCEPT !.step = "recorded"].found = q.found
  BY DEF EnvRequests

LEMMA RequestAsks ==
  /\ NoRequest \in EnvRequests /\ NoRequest.step = "none"
  /\ \A p \in Package : /\ [NoRequest EXCEPT !.step = "asked", !.wants = p] \in EnvRequests
                         /\ [NoRequest EXCEPT !.step = "asked", !.wants = p].step = "asked"
  BY DEF EnvRequests, Package, NoRequest

LEMMA RequestMoves ==
  ASSUME EnvShape, NEW r \in Requests, NEW q \in EnvRequests,
         request' = [request EXCEPT ![r] = q]
  PROVE  /\ request' \in [Requests -> EnvRequests] /\ request'[r] = q
         /\ \A u \in Requests \ {r} : request'[u] = request[u]
  BY DEF EnvShape

LEMMA RequestDriverKeeps ==
  ASSUME EnvInv, NEW r \in Requests, NEW p \in Package, RequestDriver(r, p)
  PROVE  EnvInv'
<1> USE DEF EnvShape, EnvInv, AloneUnderWay, AloneInFlight, HealsPurged, InFlight, Under
<1> DEFINE q == [NoRequest EXCEPT !.step = "asked", !.wants = p]
<1>1. /\ request' = [request EXCEPT ![r] = q]
      /\ task' = [task EXCEPT !.step = "none"] /\ ~InFlight
      /\ UNCHANGED <<driver, recorded, previous, verifying>>
  BY DEF RequestDriver, snapshot
<1>2. q \in EnvRequests /\ q.step = "asked"
  BY RequestAsks
<1> HIDE DEF q
<1>3. /\ request' \in [Requests -> EnvRequests] /\ request'[r] = q
      /\ \A u \in Requests \ {r} : request'[u] = request[u]
  BY <1>1, <1>2, RequestMoves
<1>4. task' \in EnvTasks /\ task'.step = "none"
  BY <1>1, TaskSteps DEF EnvTasks
<1>5. overlap' \subseteq Requests
  BY DEF RequestDriver
<1>6. ASSUME NEW u \in Requests, Under(u) PROVE r \in overlap' /\ u \in overlap'
  BY <1>6 DEF RequestDriver
<1>7. ASSUME NEW u \in Requests, Under(u)', u \notin overlap'
      PROVE  u = r /\ \A v \in Requests : Under(v)' => v = r
  <2>1. u = r
    BY <1>3, <1>6, <1>7
  <2> QED
    BY <1>3, <1>6, <1>7, <2>1
<1> QED
  BY <1>1, <1>2, <1>3, <1>4, <1>5, <1>7

LEMMA EnvStep == EnvInv /\ [EnvNext]_envVars => EnvInv'
<1> SUFFICES ASSUME EnvInv, [EnvNext]_envVars PROVE EnvInv'
  OBVIOUS
<1> USE DEF EnvShape, EnvInv, AloneUnderWay, AloneInFlight, HealsPurged, InFlight, Under
<1>1. CASE ByHand
  BY <1>1 DEF ByHand, snapshot
<1>2. ASSUME NEW r \in Requests, NEW p \in Packages, RequestDriver(r, p) PROVE EnvInv'
  BY <1>2, RequestDriverKeeps DEF Package
<1>3. ASSUME NEW r \in Requests, ListInstalled(r) PROVE EnvInv'
  <2> DEFINE q == [request[r] EXCEPT !.step = "listed", !.found = driver]
  <2>1. /\ request' = [request EXCEPT ![r] = q] /\ request[r].step = "asked"
        /\ UNCHANGED <<driver, recorded, previous, task, overlap, verifying>>
    BY <1>3 DEF ListInstalled, snapshot
  <2>2. q \in EnvRequests /\ q.step = "listed" /\ q.found = driver
    <3>1. request[r] \in EnvRequests /\ driver \in Package
      OBVIOUS
    <3> HIDE DEF EnvShape, EnvInv, AloneUnderWay, AloneInFlight
    <3> QED
      BY ZenonT(40), <3>1, RequestSteps
  <2> HIDE DEF q
  <2>3. /\ request' \in [Requests -> EnvRequests] /\ request'[r] = q
        /\ \A u \in Requests \ {r} : request'[u] = request[u]
    BY <2>1, <2>2, RequestMoves
  <2> QED
    BY <2>1, <2>2, <2>3
<1>4. ASSUME NEW r \in Requests, RecordPrevious(r) PROVE EnvInv'
  <2> DEFINE q == [request[r] EXCEPT !.step = "recorded"]
  <2>1. /\ request' = [request EXCEPT ![r] = q] /\ request[r].step = "listed"
        /\ UNCHANGED <<driver, recorded, task, overlap, verifying>>
        /\ previous' \in Package
        /\ request[r].found # NoPackage => previous' = request[r].found
    BY <1>4 DEF RecordPrevious, FoundOrRecorded, EnvRequests
  <2>2. q \in EnvRequests /\ q.step = "recorded" /\ q.found = request[r].found
    <3>1. request[r] \in EnvRequests /\ driver \in Package
      OBVIOUS
    <3> HIDE DEF EnvShape, EnvInv, AloneUnderWay, AloneInFlight
    <3> QED
      BY ZenonT(40), <3>1, RequestSteps
  <2> HIDE DEF q
  <2>3. /\ request' \in [Requests -> EnvRequests] /\ request'[r] = q
        /\ \A u \in Requests \ {r} : request'[u] = request[u]
    BY <2>1, <2>2, RequestMoves
  <2> QED
    BY <2>1, <2>2, <2>3
<1>5. ASSUME NEW r \in Requests, CreateTask(r) PROVE EnvInv'
  <2>1. /\ request' = [request EXCEPT ![r] = NoRequest] /\ request[r].step = "recorded"
        /\ UNCHANGED <<driver, recorded, previous, overlap, verifying>>
    BY <1>5 DEF CreateTask, snapshot
  <2>2. NoRequest \in EnvRequests /\ NoRequest.step = "none"
    BY RequestAsks
  <2>3. /\ request' \in [Requests -> EnvRequests] /\ request'[r] = NoRequest
        /\ \A u \in Requests \ {r} : request'[u] = request[u]
    BY <2>1, <2>2, RequestMoves
  <2>4. CASE InFlight
    BY <1>5, <2>1, <2>2, <2>3, <2>4 DEF CreateTask
  <2>5. CASE ~InFlight
    <3>1. /\ task' = [step |-> "purge", wants |-> request[r].wants, purged |-> NoPackage,
                      of |-> r]
      BY <1>5, <2>5 DEF CreateTask
    <3>2. task' \in EnvTasks /\ task'.step = "purge" /\ task'.of = r
      BY <3>1 DEF EnvTasks, EnvRequests, Package
    <3> QED
      BY <2>1, <2>2, <2>3, <2>5, <3>2
  <2> QED
    BY <2>4, <2>5
<1>6. ASSUME NEW r \in Requests, RequestRollBack(r) PROVE EnvInv'
  BY <1>6, RequestDriverKeeps DEF RequestRollBack
<1>7. CASE Purge \/ Install \/ SelfHeal \/ Reraise
  <2>1. UNCHANGED <<request, overlap, verifying>> /\ InFlight
    BY <1>7 DEF Purge, Install, SelfHeal, Reraise
  <2>2. driver' \in Package /\ recorded' \in Package /\ previous' = previous
    BY <1>7 DEF Purge, Install, SelfHeal, Reraise, snapshot, Package, EnvTasks
  <2>3. task' \in EnvTasks /\ task'.of = task.of
    <3>1. \/ task' = [task EXCEPT !.step = "install", !.purged = driver]
          \/ \E s \in {"none", "heal", "healed", "awaiting"} : task' = [task EXCEPT !.step = s]
      BY <1>7 DEF Purge, Install, SelfHeal, Reraise, Over
    <3>2. task \in EnvTasks /\ driver \in Package
      OBVIOUS
    <3> HIDE DEF EnvShape, EnvInv, AloneUnderWay, AloneInFlight
    <3>3. ASSUME NEW s \in {"none", "heal", "healed", "awaiting"}, task' = [task EXCEPT !.step = s]
          PROVE  task' \in EnvTasks /\ task'.of = task.of
      BY Zenon, <3>2, <3>3, TaskSteps
    <3>4. CASE task' = [task EXCEPT !.step = "install", !.purged = driver]
      BY Zenon, <3>2, <3>4, TaskSteps
    <3> QED
      BY Zenon, <3>1, <3>3, <3>4
  <2>4. AloneUnderWay'
    BY <2>1
  <2>5. AloneInFlight'
    <3>1. ASSUME InFlight', task.of \notin overlap
          PROVE  /\ task'.step \in {"install", "heal"} /\ task'.purged # NoPackage
                      => previous = task'.purged
                 /\ task'.step = "healed" /\ task'.purged # NoPackage => driver' = task'.purged
                 /\ task'.step # "purge"
      <4>1. CASE Purge
        BY <2>1, <3>1, <4>1 DEF Purge, Over, EnvTasks
      <4>2. CASE Install
        BY <2>1, <3>1, <4>2 DEF Install, Over, EnvTasks
      <4>3. CASE SelfHeal
        BY <2>1, <3>1, <4>3 DEF SelfHeal, Over, EnvTasks
      <4>4. CASE Reraise
        BY <3>1, <4>4 DEF Reraise, Over, EnvTasks
      <4> QED
        BY <1>7, <4>1, <4>2, <4>3, <4>4
    <3> QED
      BY <2>1, <2>2, <2>3, <3>1
  <2> QED
    BY <2>1, <2>2, <2>3, <2>4, <2>5
<1>8. CASE ReconcileLooks
  BY <1>8 DEF ReconcileLooks, snapshot, EnvTasks
<1>9. CASE ReconcileRecords
  <2>1. task' \in EnvTasks /\ (task' = task \/ task'.step = "none")
    <3>1. task' = task \/ task' = [task EXCEPT !.step = "none"]
      BY <1>9 DEF ReconcileRecords, Over
    <3>2. task \in EnvTasks /\ "none" \in {"none", "heal", "healed", "awaiting"}
      OBVIOUS
    <3>3. CASE task' = [task EXCEPT !.step = "none"]
      <4>1. [task EXCEPT !.step = "none"] \in EnvTasks /\ [task EXCEPT !.step = "none"].step = "none"
        BY Zenon, <3>2, TaskSteps
      <4> QED
        BY <3>3, <4>1
    <3> QED
      BY <3>1, <3>2, <3>3
  <2>2. /\ UNCHANGED <<driver, previous, request, overlap>>
        /\ recorded' \in Package /\ verifying' \in Package
    BY <1>9 DEF ReconcileRecords, Package
  <2>3. InFlight' => task' = task
    BY <2>1
  <2>4. ~InFlight => ~InFlight'
    BY <2>1
  <2> QED
    BY <2>1, <2>2, <2>3, <2>4
<1>10. CASE UNCHANGED envVars
  BY <1>10 DEF envVars
<1> QED
  BY <1>1, <1>2, <1>3, <1>4, <1>5, <1>6, <1>7, <1>8, <1>9, <1>10 DEF EnvNext

(* Theorem: type correctness of the driver installation, its requests and its *)
(* snapshot.                                                                  *)
THEOREM EnvTypes == EnvSpec => []EnvTypeOK
<1>1. EnvInv => EnvTypeOK
  BY EnvTyped DEF EnvInv
<1> QED
  BY <1>1, EnvInitially, EnvStep, PTL DEF EnvSpec

(* Theorem: whatever fails between purge and installation, the driver that    *)
(* the self-heal of a request that overlapped no other puts back is the one   *)
(* its own task purged.                                                       *)
THEOREM HealRestores == EnvSpec => []HealsPurged
<1>1. EnvInv => HealsPurged
  BY DEF EnvInv, AloneInFlight, HealsPurged, InFlight
<1> QED
  BY <1>1, EnvInitially, EnvStep, PTL DEF EnvSpec

-----------------------------------------------------------------------------
(* Downloads: process numbers are given out once, so a growth seen of one    *)
(* process is never mistaken for another's.                                  *)

(* Process numbers are given out once: a shell that is about to launch has    *)
(* one nobody has seen, and no two of them or of their processes share one.   *)
PidsFresh ==
  /\ \A r \in Repos : \A p \in launches[r] : p <= starts /\ p # growth.pid
  /\ \A r, s \in Repos : \A p \in launches[r] : p \notin procs[s] /\ (p \in launches[s] => r = s)
  /\ \A r \in Repos : \A p \in procs[r] : p <= starts
  /\ growth.pid <= starts

(* What was seen growing is no more than there is; and when the process that  *)
(* was seen is the repository's own, an old growth means a quiet download.    *)
OldMeansQuiet ==
  /\ growth.bytes <= bytes
  /\ growth.old /\ growth.pid \in procs[Asked] /\ bytes <= growth.bytes => quiet

DownloadInv == DownloadTypeOK /\ PidsFresh /\ OldMeansQuiet

LEMMA DownloadInitially == DownloadInit => DownloadInv
<1> SUFFICES ASSUME DownloadInit PROVE DownloadInv
  OBVIOUS
<1>1. MaxBytes \in Nat /\ MaxStarts \in Nat
  BY DownloadBounds
<1>2. /\ \A r \in Repos : procs[r] = {} /\ launches[r] = {}
      /\ growth.pid = 0 /\ growth.bytes = 0 /\ ~growth.old /\ bytes = 0 /\ starts = 0
  BY DEF DownloadInit, Unseen
<1>3. DownloadTypeOK
  <2>1. procs \in [Repos -> SUBSET Pids] /\ launches \in [Repos -> SUBSET Pids]
    BY DEF DownloadInit
  <2>2. growth \in [pid : 0..MaxStarts, bytes : 0..MaxBytes, old : BOOLEAN]
    BY <1>1 DEF DownloadInit, Unseen
  <2>3. verdict \in [status : Verdicts, measured : BOOLEAN]
    BY DEF DownloadInit, Verdicts
  <2>4. pidFile \in 0..MaxStarts /\ starts \in 0..MaxStarts /\ bytes \in 0..MaxBytes
    BY <1>1 DEF DownloadInit
  <2>5. log \in {"absent", "partial", "snapshot", "error"} /\ quiet \in BOOLEAN
    BY DEF DownloadInit
  <2> HIDE DEF DownloadInit
  <2> QED
    BY <2>1, <2>2, <2>3, <2>4, <2>5 DEF DownloadTypeOK
<1>4. PidsFresh /\ OldMeansQuiet
  BY <1>2 DEF PidsFresh, OldMeansQuiet
<1> QED
  BY <1>3, <1>4 DEF DownloadInv

LEMMA DownloadStep == DownloadInv /\ [DownloadNext]_dlVars => DownloadInv'
<1> SUFFICES ASSUME DownloadInv, [DownloadNext]_dlVars PROVE DownloadInv'
  OBVIOUS
<1> USE DownloadConstants DEF DownloadInv, Pids
<1>0. MaxBytes \in Nat /\ MaxStarts \in Nat
  BY DownloadBounds
<1>1. ASSUME NEW r \in Repos, DownloadModel(r) PROVE DownloadInv'
  <2> DEFINE n == starts + 1
  <2>1. /\ n \in 1..MaxStarts /\ starts' = n /\ starts \in Nat /\ n > starts
        /\ launches' = [launches EXCEPT ![r] = @ \cup {n}]
        /\ UNCHANGED <<procs, pidFile, log, bytes, quiet, growth, verdict>>
    BY <1>0, <1>1 DEF DownloadModel, DownloadTypeOK
  <2> HIDE DEF n
  <2>2. /\ launches' \in [Repos -> SUBSET Pids] /\ launches'[r] = launches[r] \cup {n}
        /\ \A s \in Repos \ {r} : launches'[s] = launches[s]
    BY <2>1 DEF DownloadTypeOK
  <2>3. DownloadTypeOK'
    BY <2>1, <2>2 DEF DownloadTypeOK
  <2>4. /\ \A s \in Repos : \A p \in procs[s] : p \in Nat /\ p <= starts
        /\ \A s \in Repos : \A p \in launches[s] : p \in Nat /\ p <= starts
        /\ growth.pid \in Nat /\ growth.pid <= starts
    BY DEF DownloadTypeOK, PidsFresh
  <2>5. PidsFresh'
    BY <2>1, <2>2, <2>4 DEF PidsFresh
  <2>6. OldMeansQuiet'
    BY <2>1 DEF OldMeansQuiet
  <2> QED
    BY <2>3, <2>5, <2>6
<1>2. ASSUME NEW r \in Repos, NEW p \in Pids, LaunchDownload(r, p) PROVE DownloadInv'
  <2>1. /\ p \in launches[r]
        /\ launches' = [launches EXCEPT ![r] = @ \ {p}]
        /\ procs' = [procs EXCEPT ![r] = @ \cup {p}]
        /\ UNCHANGED <<bytes, starts, growth, verdict>>
    BY <1>2 DEF LaunchDownload
  <2>2. /\ launches' \in [Repos -> SUBSET Pids] /\ launches'[r] = launches[r] \ {p}
        /\ \A s \in Repos \ {r} : launches'[s] = launches[s]
    BY <2>1 DEF DownloadTypeOK
  <2>3. /\ procs' \in [Repos -> SUBSET Pids] /\ procs'[r] = procs[r] \cup {p}
        /\ \A s \in Repos \ {r} : procs'[s] = procs[s]
    BY <2>1 DEF DownloadTypeOK
  <2>4. DownloadTypeOK'
    <3>1. pidFile' \in 0..MaxStarts /\ log' \in {"absent", "partial", "snapshot", "error"}
      BY <1>2 DEF LaunchDownload, DownloadTypeOK
    <3>2. quiet' \in BOOLEAN
      BY <1>2 DEF LaunchDownload, DownloadTypeOK
    <3> QED
      BY <2>1, <2>2, <2>3, <3>1, <3>2 DEF DownloadTypeOK
  <2>5. PidsFresh'
    BY <2>1, <2>2, <2>3 DEF PidsFresh
  <2>6. OldMeansQuiet'
    <3>1. growth.pid # p
      BY <2>1 DEF PidsFresh
    <3>2. growth.pid \in procs'[Asked] => growth.pid \in procs[Asked]
      BY <2>3, <3>1
    <3>3. growth.pid \in procs[Asked] /\ quiet => quiet'
      BY <1>2 DEF LaunchDownload, DownloadTypeOK
    <3> QED
      BY <2>1, <3>2, <3>3 DEF OldMeansQuiet
  <2> QED
    BY <2>4, <2>5, <2>6
<1>3. CASE Grow
  <2>1. /\ bytes' = bytes + 1 /\ bytes < MaxBytes /\ bytes \in Nat /\ quiet' = FALSE
        /\ UNCHANGED <<procs, launches, pidFile, log, starts, growth, verdict>>
    BY <1>3 DEF Grow, DownloadTypeOK
  <2>2. DownloadTypeOK'
    <3>1. bytes' \in 0..MaxBytes
      BY <1>0, <2>1
    <3> QED
      BY <2>1, <3>1 DEF DownloadTypeOK
  <2>3. PidsFresh'
    BY <2>1 DEF PidsFresh
  <2>4. growth.bytes \in Nat
    BY DEF DownloadTypeOK
  <2>5. OldMeansQuiet'
    BY <2>1, <2>4 DEF OldMeansQuiet
  <2> QED
    BY <2>2, <2>3, <2>5
<1>4. CASE FallQuiet
  BY <1>4 DEF FallQuiet, DownloadTypeOK, PidsFresh, OldMeansQuiet
<1>5. ASSUME NEW r \in Repos, NEW p \in Pids, End(r, p) PROVE DownloadInv'
  <2>1. /\ procs' = [procs EXCEPT ![r] = @ \ {p}]
        /\ log' \in {"absent", "partial", "snapshot", "error"}
        /\ UNCHANGED <<launches, pidFile, bytes, quiet, starts, growth, verdict>>
    BY <1>5 DEF End, DownloadTypeOK
  <2>2. /\ procs' \in [Repos -> SUBSET Pids] /\ \A s \in Repos : procs'[s] \subseteq procs[s]
    BY <2>1 DEF DownloadTypeOK
  <2> QED
    BY <2>1, <2>2 DEF DownloadTypeOK, PidsFresh, OldMeansQuiet
<1>6. ASSUME NEW r \in Repos, StopDownload(r) PROVE DownloadInv'
  <2>1. UNCHANGED <<launches, pidFile, log, bytes, quiet, starts, growth, verdict>>
    BY <1>6 DEF StopDownload
  <2>2. /\ procs' \in [Repos -> SUBSET Pids] /\ \A s \in Repos : procs'[s] \subseteq procs[s]
    BY <1>6 DEF StopDownload, DownloadTypeOK
  <2> QED
    BY <2>1, <2>2 DEF DownloadTypeOK, PidsFresh, OldMeansQuiet
<1>7. CASE ComputeStatus
  <2>1. UNCHANGED <<procs, launches, pidFile, log, bytes, quiet, starts>>
    BY <1>7 DEF ComputeStatus, remoteSide
  <2>2. \/ UNCHANGED growth
        \/ growth' = Unseen
        \/ \E pid \in Alive, measured \in BOOLEAN :
             growth' = [pid |-> pid, bytes |-> IF measured THEN bytes ELSE 0, old |-> FALSE]
    BY <1>7 DEF ComputeStatus, StatusOfRunning, StatusOfEnded
  <2>3. verdict' \in [status : Verdicts, measured : BOOLEAN]
    <3>1. ASSUME NEW s \in Verdicts, NEW measured \in BOOLEAN, Verdict(s, measured)
          PROVE  verdict' \in [status : Verdicts, measured : BOOLEAN]
      BY <3>1 DEF Verdict
    <3>2. ASSUME NEW pid \in Alive, NEW measured \in BOOLEAN, StatusOfRunning(pid, measured)
          PROVE  \E s \in Verdicts : Verdict(s, measured)
      BY <3>2 DEF StatusOfRunning, Verdicts
    <3>3. ASSUME StatusOfEnded PROVE \E s \in Verdicts : Verdict(s, TRUE)
      BY <3>3 DEF StatusOfEnded, Verdicts
    <3>4. CASE \E s \in {"unknown", "not_found"} : Verdict(s, FALSE)
      BY <3>1, <3>4 DEF Verdicts
    <3> QED
      BY <1>7, <3>1, <3>2, <3>3, <3>4 DEF ComputeStatus
  <2>4. ASSUME NEW pid \in Alive
        PROVE  \E s \in Repos : pid \in procs[s]
    <3>1. CASE pidFile \in procs[Asked]
      BY <3>1 DEF Alive
    <3>2. CASE pid \in Found(Asked)
      BY <3>2 DEF Found
    <3> QED
      BY <3>1, <3>2 DEF Alive
  <2>5. \A pid \in Alive : /\ pid \in 1..MaxStarts /\ pid <= starts
                           /\ \A s \in Repos : pid \notin launches[s]
    BY <2>4 DEF PidsFresh, DownloadTypeOK
  <2>6. /\ growth'.pid \in 0..MaxStarts /\ growth'.bytes \in 0..MaxBytes
        /\ growth' \in [pid : 0..MaxStarts, bytes : 0..MaxBytes, old : BOOLEAN]
    <3>1. CASE UNCHANGED growth
      BY <3>1 DEF DownloadTypeOK
    <3>2. CASE growth' = Unseen
      BY <1>0, <3>2 DEF Unseen
    <3>3. ASSUME NEW pid \in Alive, NEW measured \in BOOLEAN,
                 growth' = [pid |-> pid, bytes |-> IF measured THEN bytes ELSE 0, old |-> FALSE]
          PROVE  growth' \in [pid : 0..MaxStarts, bytes : 0..MaxBytes, old : BOOLEAN]
      <4>1. pid \in 0..MaxStarts
        BY <1>0, <2>5
      <4>2. (IF measured THEN bytes ELSE 0) \in 0..MaxBytes
        BY <1>0 DEF DownloadTypeOK
      <4> QED
        BY <3>3, <4>1, <4>2
    <3>4. growth' \in [pid : 0..MaxStarts, bytes : 0..MaxBytes, old : BOOLEAN]
      BY <2>2, <3>1, <3>2, <3>3
    <3> QED
      BY <3>4
  <2>7. /\ growth'.pid <= starts /\ \A s \in Repos : growth'.pid \notin launches[s]
    <3>1. \A s \in Repos : 0 \notin launches[s] /\ 0 <= starts
      BY DEF DownloadTypeOK
    <3> QED
      BY <2>2, <2>5, <3>1 DEF PidsFresh, Unseen
  <2>8. growth'.bytes <= bytes /\ (growth'.old => growth' = growth)
    <3>1. bytes \in Nat
      BY DEF DownloadTypeOK
    <3> QED
      BY <2>2, <3>1 DEF OldMeansQuiet, Unseen
  <2>9. DownloadTypeOK'
    BY <2>1, <2>3, <2>6 DEF DownloadTypeOK
  <2>10. PidsFresh'
    BY <2>1, <2>7 DEF PidsFresh
  <2>11. OldMeansQuiet'
    BY <2>1, <2>8 DEF OldMeansQuiet
  <2> QED
    BY <2>9, <2>10, <2>11
<1>8. CASE UNCHANGED dlVars
  BY <1>8 DEF dlVars, remoteSide, DownloadTypeOK, PidsFresh, OldMeansQuiet
<1> QED
  BY <1>1, <1>2, <1>3, <1>4, <1>5, <1>6, <1>7, <1>8 DEF DownloadNext

(* Theorem: a live download is called stalled only when no byte arrived for   *)
(* the threshold, however many shells, processes and repositories whose names *)
(* match each other there are, and whatever the last poll had seen.           *)
THEOREM StalledDownloadsAreQuiet == DownloadSpec => StalledIsQuiet
<1>1. ASSUME DownloadInv, [DownloadNext]_dlVars
      PROVE  [verdict' # verdict /\ verdict'.status = "stalled" /\ Alive \subseteq procs[Asked]
                => quiet \/ ~verdict'.measured \/ bytes = 0]_dlVars
  <2> SUFFICES ASSUME verdict' # verdict, verdict'.status = "stalled",
                      Alive \subseteq procs[Asked], verdict'.measured, bytes # 0
               PROVE  quiet
    OBVIOUS
  <2>1. ComputeStatus
    BY <1>1 DEF DownloadNext, DownloadModel, LaunchDownload, Grow, FallQuiet, End, StopDownload,
                dlVars
  <2>2. PICK pid \in Alive, measured \in BOOLEAN : StatusOfRunning(pid, measured)
    BY <2>1 DEF ComputeStatus, StatusOfEnded, Verdict
  <2>3. measured
    BY <2>2 DEF StatusOfRunning, Verdict
  <2>4. growth.pid = pid /\ ~(bytes > growth.bytes) /\ growth.old
    BY <2>2, <2>3 DEF StatusOfRunning, Verdict, Grown
  <2> QED
    BY <1>1, <2>4, DownloadBounds DEF DownloadInv, DownloadTypeOK, OldMeansQuiet
<1> QED
  BY <1>1, DownloadInitially, DownloadStep, PTL DEF DownloadSpec, StalledIsQuiet

-----------------------------------------------------------------------------
(* Catalog: what may take an entry without files out again.                  *)

CatScans == [step : {"none", "add", "check", "remove"}, listed : SUBSET CatModels,
             add : SUBSET CatModels, look : SUBSET CatModels, gone : SUBSET CatModels]

CatShape == /\ onServer \subseteq CatModels /\ results \subseteq CatModels
            /\ inflight \subseteq CatModels /\ doubt \subseteq CatModels
            /\ late \subseteq CatModels
            /\ table \in [CatModels -> {"none", "down", "up"}]
            /\ scan \in [Scans -> CatScans]
            /\ delete \in [step : {"none", "wait", "files", "entry"},
                           model : CatModels \cup {NoModel}]
            /\ delete.step # "none" => delete.model \in CatModels
            /\ bench \in [Benches -> CatModels \cup {NoModel}]

(* A scan that will still look for m, or has found it gone.                  *)
Pursues(s, m) == \/ scan[s].step = "add"
                 \/ scan[s].step = "check" /\ m \in scan[s].look
                 \/ scan[s].step = "remove" /\ m \in scan[s].gone

(* An entry without files that nobody doubts is about to be taken out: by    *)
(* the delete that removed the files, or by a scan.                          *)
GhostsPursued ==
  \A m \in CatModels : table[m] # "none" /\ m \notin onServer \cup doubt =>
    \/ delete.step = "entry" /\ delete.model = m
    \/ \E s \in Scans : Pursues(s, m)

ResultsOwned == \A m \in results : table[m] # "none" \/ m \in late

CatInv == CatShape /\ GhostsPursued /\ ResultsOwned

LEMMA CatTyped == CatShape => CatTypeOK
  BY DEF CatShape, CatTypeOK, CatScans

LEMMA CatInitially == CatInit => CatInv
  BY DEF CatInit, CatInv, CatShape, CatScans, GhostsPursued, ResultsOwned, NoScan, NoDelete

LEMMA ScanMoves ==
  ASSUME CatShape, NEW s \in Scans, NEW r \in CatScans, scan' = [scan EXCEPT ![s] = r]
  PROVE  /\ scan' \in [Scans -> CatScans] /\ scan'[s] = r
         /\ \A u \in Scans \ {s} : scan'[u] = scan[u]
  BY DEF CatShape

LEMMA AskedScan ==
  ASSUME NEW q \in CatScans, NEW d \in SUBSET CatModels
  PROVE  /\ [q EXCEPT !.step = "check", !.look = d] \in CatScans
         /\ [q EXCEPT !.step = "check", !.look = d].step = "check"
         /\ [q EXCEPT !.step = "check", !.look = d].look = d
  BY DEF CatScans

LEMMA NoScanShape == NoScan \in CatScans /\ NoScan.step = "none"
  BY DEF NoScan, CatScans

(* A scan that moves keeps pursuing what the others do not, unless it is in  *)
(* doubt or there; nothing else of the table's changes.                      *)
LEMMA ScanKeepsInv ==
  ASSUME CatInv, NEW s \in Scans, NEW r \in CatScans, scan' = [scan EXCEPT ![s] = r],
         UNCHANGED <<onServer, results, inflight, delete, bench, late>>,
         doubt' \subseteq CatModels, table' \in [CatModels -> {"none", "down", "up"}],
         \A m \in CatModels : table[m] # "none" => table'[m] # "none",
         \A m \in CatModels :
           table'[m] # "none" /\ m \notin onServer \cup doubt'
             => \/ table[m] # "none" /\ m \notin doubt /\ (Pursues(s, m) => Pursues(s, m)')
                \/ Pursues(s, m)'
  PROVE  CatInv'
<1>1. /\ scan' \in [Scans -> CatScans] /\ scan'[s] = r
      /\ \A u \in Scans \ {s} : scan'[u] = scan[u]
  BY ScanMoves DEF CatInv
<1>2. \A u \in Scans \ {s}, m \in CatModels : Pursues(u, m) => Pursues(u, m)'
  BY <1>1 DEF Pursues
<1>3. CatShape'
  BY <1>1 DEF CatInv, CatShape
<1>4. GhostsPursued'
  <2> SUFFICES ASSUME NEW m \in CatModels, table'[m] # "none", m \notin onServer \cup doubt'
               PROVE  \/ delete.step = "entry" /\ delete.model = m
                      \/ \E u \in Scans : Pursues(u, m)'
    BY DEF GhostsPursued
  <2>1. CASE Pursues(s, m)'
    BY <2>1
  <2>2. CASE table[m] # "none" /\ m \notin doubt /\ ~Pursues(s, m)
    BY <2>2, <1>2 DEF CatInv, GhostsPursued
  <2> QED
    BY <2>1, <2>2
<1>5. ResultsOwned'
  BY DEF CatInv, CatShape, ResultsOwned
<1> QED
  BY <1>3, <1>4, <1>5 DEF CatInv

(* Taking an entry out ends its pursuit.                                     *)
LEMMA GoesKeepsInv ==
  ASSUME CatInv, NEW g \in CatModels,
         IF table[g] # "none" THEN Goes(g) ELSE UNCHANGED <<table, results, late>>,
         UNCHANGED <<onServer, doubt, inflight, bench>>,
         scan' \in [Scans -> CatScans],
         delete' \in [step : {"none", "wait", "files", "entry"}, model : CatModels \cup {NoModel}],
         delete'.step # "none" => delete'.model \in CatModels,
         \A m \in CatModels \ {g} :
           /\ delete.step = "entry" /\ delete.model = m => delete' = delete
           /\ \A s \in Scans : Pursues(s, m) => Pursues(s, m)'
  PROVE  CatInv'
<1> USE DEF CatInv
<1>1. /\ table' \in [CatModels -> {"none", "down", "up"}] /\ table'[g] = "none"
      /\ \A m \in CatModels \ {g} : table'[m] = table[m]
      /\ results' \subseteq results /\ (g \notin results' \/ UNCHANGED <<results, late>>)
      /\ late' \subseteq late /\ late \ {g} \subseteq late'
  BY DEF Goes, CatShape
<1>2. CatShape'
  BY <1>1 DEF CatShape
<1>3. GhostsPursued'
  <2> SUFFICES ASSUME NEW m \in CatModels, table'[m] # "none", m \notin onServer \cup doubt
               PROVE  \/ delete'.step = "entry" /\ delete'.model = m
                      \/ \E u \in Scans : Pursues(u, m)'
    BY DEF GhostsPursued
  <2>1. m # g /\ table[m] # "none"
    BY <1>1
  <2> QED
    BY <2>1 DEF GhostsPursued
<1>4. ResultsOwned'
  BY <1>1 DEF ResultsOwned, CatShape, Goes
<1> QED
  BY <1>2, <1>3, <1>4

LEMMA CatStep == CatInv /\ [CatNext]_catVars => CatInv'
<1> SUFFICES ASSUME CatInv, [CatNext]_catVars PROVE CatInv'
  OBVIOUS
<1> USE NoModelAssumption DEF CatInv
<1>1. ASSUME NEW m \in CatModels, Copy(m) PROVE CatInv'
  BY <1>1 DEF Copy, CatShape, GhostsPursued, ResultsOwned, Pursues
<1>2. ASSUME NEW m \in CatModels, Lives(m) PROVE CatInv'
  <2>1. /\ table' \in [CatModels -> {"none", "down", "up"}]
        /\ \A n \in CatModels : table'[n] # "none" <=> table[n] # "none"
    BY <1>2 DEF Lives, ComesUp, GoesDown, CatShape
  <2>2. UNCHANGED <<onServer, results, inflight, scan, delete, bench, doubt, late>>
    BY <1>2 DEF Lives
  <2> QED
    BY <2>1, <2>2 DEF CatShape, GhostsPursued, ResultsOwned, Pursues
<1>3. ASSUME NEW m \in CatModels, DeleteAsked(m) PROVE CatInv'
  <2>1. /\ delete' \in [step : {"none", "wait", "files", "entry"},
                        model : CatModels \cup {NoModel}]
        /\ delete'.model = m /\ delete.step = "none"
        /\ UNCHANGED <<onServer, table, results, inflight, scan, bench, doubt, late>>
    BY <1>3 DEF DeleteAsked
  <2> QED
    BY <2>1 DEF CatShape, GhostsPursued, ResultsOwned, Pursues
<1>4. ASSUME NEW s \in Scans, ScanLists(s) PROVE CatInv'
  <2> DEFINE r == [NoScan EXCEPT !.step = "add", !.listed = onServer, !.add = onServer]
  <2>1. r \in CatScans /\ r.step = "add"
    BY DEF NoScan, CatScans, CatShape
  <2>2. /\ scan' = [scan EXCEPT ![s] = r]
        /\ UNCHANGED <<onServer, table, results, inflight, delete, bench, doubt, late>>
    BY <1>4 DEF ScanLists
  <2> HIDE DEF r
  <2>3. scan'[s].step = "add"
    BY <2>1, <2>2, ScanMoves
  <2> QED
    BY <2>1, <2>2, <2>3, ScanKeepsInv DEF Pursues, CatShape
<1>5. ASSUME NEW s \in Scans, NEW m \in CatModels, ScanAdds(s, m) PROVE CatInv'
  <2> DEFINE r == [scan[s] EXCEPT !.add = @ \ {m}]
  <2>1. r \in CatScans /\ r.step = "add"
    BY <1>5 DEF ScanAdds, CatScans, CatShape
  <2>2. /\ scan' = [scan EXCEPT ![s] = r]
        /\ table' = IF table[m] = "none" THEN [table EXCEPT ![m] = "down"] ELSE table
        /\ UNCHANGED <<onServer, results, inflight, delete, bench, doubt, late>>
    BY <1>5 DEF ScanAdds
  <2> HIDE DEF r
  <2>3. scan'[s].step = "add"
    BY <2>1, <2>2, ScanMoves
  <2>4. /\ table' \in [CatModels -> {"none", "down", "up"}]
        /\ \A n \in CatModels : table[n] # "none" => table'[n] # "none"
    BY <2>2 DEF CatShape
  <2> QED
    BY <2>1, <2>2, <2>3, <2>4, ScanKeepsInv DEF Pursues, CatShape
<1>6. ASSUME NEW s \in Scans, ScanAsks(s) PROVE CatInv'
  <2> DEFINE down == {m \in CatModels : table[m] = "down"}
             r == [scan[s] EXCEPT !.step = "check", !.look = down]
  <2>1. r \in CatScans /\ r.step = "check" /\ r.look = down
    <3>1. scan[s] \in CatScans /\ down \in SUBSET CatModels
      BY DEF CatShape
    <3> HIDE DEF down, CatInv
    <3> QED
      BY Zenon, <3>1, AskedScan
  <2>2. /\ scan' = [scan EXCEPT ![s] = r]
        /\ doubt' = doubt \cup {m \in CatModels : table[m] = "up"}
        /\ UNCHANGED <<onServer, table, results, inflight, delete, bench, late>>
    BY <1>6 DEF ScanAsks
  <2> HIDE DEF r
  <2>3. scan'[s] = r
    BY <2>1, <2>2, ScanMoves
  <2>4. \A m \in CatModels : table[m] # "none" /\ m \notin doubt' => Pursues(s, m)'
    BY <2>1, <2>2, <2>3 DEF Pursues, CatShape
  <2>5. doubt' \subseteq CatModels
    BY <2>2 DEF CatShape
  <2> QED
    BY <2>1, <2>2, <2>4, <2>5, ScanKeepsInv DEF CatShape
<1>7. ASSUME NEW s \in Scans, ScanChecks(s) PROVE CatInv'
  <2>1. /\ scan[s].step = "check" /\ scan[s].look \subseteq CatModels
        /\ UNCHANGED <<onServer, table, results, inflight, delete, bench, late>>
    BY <1>7 DEF ScanChecks, CatShape, CatScans
  <2>2. CASE /\ scan' = [scan EXCEPT ![s] = [NoScan EXCEPT !.step = "remove", !.gone = NotThere(s)]]
             /\ doubt' = doubt \ scan[s].look
    <3> DEFINE r == [NoScan EXCEPT !.step = "remove", !.gone = NotThere(s)]
    <3>1. r \in CatScans /\ r.step = "remove" /\ r.gone = NotThere(s)
      BY <2>1 DEF NoScan, CatScans, NotThere
    <3> HIDE DEF r
    <3>2. scan' = [scan EXCEPT ![s] = r]
      BY <2>2 DEF r
    <3>3. scan'[s] = r
      BY <3>1, <3>2, ScanMoves
    <3>4. \A m \in CatModels : m \in scan[s].look /\ m \notin onServer => Pursues(s, m)'
      BY <3>1, <3>3 DEF Pursues, NotThere
    <3>5. \A m \in CatModels : Pursues(s, m) => m \in scan[s].look
      BY <2>1 DEF Pursues
    <3> QED
      BY <2>1, <2>2, <3>1, <3>2, <3>4, <3>5, ScanKeepsInv DEF CatShape
  <2>3. CASE /\ scan' = [scan EXCEPT ![s] = NoScan]
             /\ doubt' = doubt \cup scan[s].look
    <3>1. \A m \in CatModels : Pursues(s, m) => m \in scan[s].look
      BY <2>1 DEF Pursues
    <3> QED
      BY <2>1, <2>3, <3>1, NoScanShape, ScanKeepsInv DEF CatShape
  <2> QED
    BY <1>7, <2>2, <2>3 DEF ScanChecks
<1>8. ASSUME NEW s \in Scans, ScanRemoves(s) PROVE CatInv'
  <2>1. scan[s].step = "remove" /\ UNCHANGED <<onServer, inflight, delete, bench, doubt>>
    BY <1>8 DEF ScanRemoves
  <2>2. CASE scan[s].gone = {}
    <3>1. scan' = [scan EXCEPT ![s] = NoScan] /\ UNCHANGED <<table, results, late>>
      BY <1>8, <2>2 DEF ScanRemoves
    <3>2. \A m \in CatModels : ~Pursues(s, m)
      BY <2>1, <2>2 DEF Pursues
    <3> QED
      BY <2>1, <3>1, <3>2, NoScanShape, ScanKeepsInv DEF CatShape
  <2>3. ASSUME NEW g \in scan[s].gone, scan' = [scan EXCEPT ![s].gone = @ \ {g}],
               IF table[g] # "none" THEN Goes(g) ELSE UNCHANGED <<table, results, late>>
        PROVE  CatInv'
    <3> DEFINE r == [scan[s] EXCEPT !.gone = @ \ {g}]
    <3>1. g \in CatModels /\ r \in CatScans /\ r.step = "remove" /\ r.gone = scan[s].gone \ {g}
      BY <2>1 DEF CatScans, CatShape
    <3>2. scan' = [scan EXCEPT ![s] = r]
      BY <2>3
    <3> HIDE DEF r
    <3>3. /\ scan' \in [Scans -> CatScans] /\ scan'[s] = r
          /\ \A u \in Scans \ {s} : scan'[u] = scan[u]
      BY <3>1, <3>2, ScanMoves
    <3>4. \A m \in CatModels \ {g}, u \in Scans : Pursues(u, m) => Pursues(u, m)'
      BY <2>1, <3>1, <3>3 DEF Pursues
    <3> QED
      BY <2>1, <2>3, <3>1, <3>3, <3>4, GoesKeepsInv DEF CatShape
  <2> QED
    BY <1>8, <2>2, <2>3 DEF ScanRemoves
<1>9. CASE DeleteWaits
  <2>1. /\ delete' \in [step : {"none", "wait", "files", "entry"},
                        model : CatModels \cup {NoModel}]
        /\ delete'.step # "none" => delete'.model \in CatModels
        /\ delete.step = "wait"
        /\ UNCHANGED <<onServer, table, results, inflight, scan, bench, doubt, late>>
    BY <1>9 DEF DeleteWaits, NoDelete, CatShape
  <2> QED
    BY <2>1 DEF CatShape, GhostsPursued, ResultsOwned, Pursues
<1>10. CASE DeleteFiles
  <2>1. /\ delete' \in [step : {"none", "wait", "files", "entry"},
                        model : CatModels \cup {NoModel}]
        /\ delete'.step # "none" => delete'.model \in CatModels
        /\ delete.step = "files" /\ delete.model \in CatModels
        /\ onServer' \subseteq onServer /\ onServer \ {delete.model} \subseteq onServer'
        /\ doubt \subseteq doubt' /\ doubt' \subseteq CatModels
        /\ \/ delete'.step = "entry" /\ delete'.model = delete.model
           \/ delete.model \in doubt'
        /\ UNCHANGED <<table, results, inflight, scan, bench, late>>
    BY <1>10 DEF DeleteFiles, NoDelete, CatShape
  <2> QED
    BY <2>1 DEF CatShape, GhostsPursued, ResultsOwned, Pursues
<1>11. CASE DeleteEntry
  <2>1. /\ delete' = NoDelete /\ delete.step = "entry" /\ delete.model \in CatModels
        /\ UNCHANGED <<onServer, inflight, scan, bench, doubt>>
    BY <1>11 DEF DeleteEntry, CatShape
  <2>2. IF table[delete.model] # "none" THEN Goes(delete.model)
        ELSE UNCHANGED <<table, results, late>>
    BY <1>11 DEF DeleteEntry
  <2>3. /\ scan' \in [Scans -> CatScans]
        /\ \A m \in CatModels, s \in Scans : Pursues(s, m) => Pursues(s, m)'
    BY <2>1 DEF CatShape, Pursues
  <2>4. delete' \in [step : {"none", "wait", "files", "entry"}, model : CatModels \cup {NoModel}]
        /\ delete'.step = "none"
    BY <2>1 DEF NoDelete
  <2> QED
    BY <2>1, <2>2, <2>3, <2>4, GoesKeepsInv
<1>12. ASSUME NEW b \in Benches, NEW m \in CatModels, Acquires(b, m) PROVE CatInv'
  BY <1>12 DEF Acquires, CatShape, GhostsPursued, ResultsOwned, Pursues
<1>13. ASSUME NEW b \in Benches, Records(b) PROVE CatInv'
  <2>1. /\ inflight' \subseteq CatModels /\ bench' \in [Benches -> CatModels \cup {NoModel}]
        /\ bench[b] \in CatModels
        /\ UNCHANGED <<onServer, table, scan, delete, doubt>>
        /\ results' = results \cup {bench[b]}
        /\ late' = IF table[bench[b]] = "none" THEN late \cup {bench[b]} ELSE late
    BY <1>13 DEF Records, Releases, CatShape
  <2> QED
    BY <2>1 DEF CatShape, GhostsPursued, ResultsOwned, Pursues
<1>14. ASSUME NEW b \in Benches, BenchFails(b) PROVE CatInv'
  BY <1>14 DEF BenchFails, Releases, CatShape, GhostsPursued, ResultsOwned, Pursues
<1>15. CASE UNCHANGED catVars
  BY <1>15 DEF catVars, CatShape, GhostsPursued, ResultsOwned, Pursues
<1> QED
  BY <1>1, <1>2, <1>3, <1>4, <1>5, <1>6, <1>7, <1>8, <1>9, <1>10, <1>11, <1>12, <1>13, <1>14,
     <1>15 DEF CatNext

(* Theorem: once scans and deletes are over, an entry of the catalog has      *)
(* files on the server and a benchmark result has an entry, whatever order    *)
(* scans in their thread, deletes on the loop and benchmarks ran in.          *)
THEOREM NoGhostsLeft == CatSpec => []NoGhosts
<1>1. ASSUME CatInv PROVE NoGhosts
  <2> SUFFICES ASSUME Settled
               PROVE  /\ \A m \in CatModels : table[m] = "down" => m \in onServer \cup doubt
                      /\ \A m \in results : table[m] # "none" \/ m \in late
    BY DEF NoGhosts
  <2>1. delete.step = "none" /\ \A s \in Scans, m \in CatModels : ~Pursues(s, m)
    BY NoScanShape DEF Settled, NoDelete, Pursues
  <2> QED
    BY <1>1, <2>1 DEF CatInv, GhostsPursued, ResultsOwned
<1> QED
  BY <1>1, CatInitially, CatStep, PTL DEF CatSpec

-----------------------------------------------------------------------------
(* LaunchFiles: what the two files of an id hold while saves, deletes and    *)
(* loads interleave.                                                         *)

Looks == [id : ModelIds \cup {None}, step : {"idle", "primary", "own", "done"},
          answer : Stored, valid : SUBSET Stored, torn : BOOLEAN]

FileShape ==
  /\ configs \in [Paths -> Stored]
  /\ deleting \in ModelIds \cup {None}
  /\ load \in [Loads -> Looks]
  /\ saves \in 0..MaxSaves /\ kept \in [ModelIds -> Stored] /\ halfGone \subseteq ModelIds

(* An id's own path holds nothing else's file, and what a load would find of  *)
(* an id whose delete was not cut short is what was saved last.               *)
FilesKept ==
  /\ \A i \in ModelIds : configs[Own(i)].id \in {None, i}
  /\ \A i \in ModelIds \ halfGone : Loaded(i) = kept[i]

(* A delete between its two files has taken the first.                        *)
DeleteFits ==
  deleting # None =>
    /\ deleting \in halfGone /\ kept[deleting] = NoFile
    /\ configs[Primary(deleting)].id # deleting

(* A load under way that no delete tore may still answer with what was saved  *)
(* last, and, once it has found nothing at the primary path, with what is at  *)
(* the other one.                                                             *)
LoadFits(l) ==
  /\ load[l].step = "idle" <=> load[l].id = None
  /\ load[l].step \in {"primary", "own"} => load[l].answer = NoFile
  /\ load[l].step # "idle" /\ ~load[l].torn =>
       /\ load[l].id \notin halfGone /\ kept[load[l].id] \in load[l].valid
       /\ load[l].step = "own" => configs[Own(load[l].id)] \in load[l].valid
       /\ load[l].step = "done" => load[l].answer \in load[l].valid

FileInv == FileShape /\ FilesKept /\ DeleteFits /\ \A l \in Loads : LoadFits(l)

LEMMA PathsApart ==
  /\ \A i \in ModelIds : Primary(i) \in Paths /\ Own(i) \in Paths
  /\ \A i, j \in ModelIds : Primary(i) # Own(j) /\ (Own(i) = Own(j) => i = j)
  BY DEF Paths, Primary, Own

LEMMA StoredIds ==
  /\ NoFile \in Stored /\ NoFile.id = None
  /\ \A x \in Stored : x.id \in ModelIds \cup {None} /\ (x.id = None => x = NoFile)
  BY NoneAssumption DEF Stored, NoFile

LEMMA PathWritten ==
  ASSUME FileShape, NEW p \in Paths, NEW x \in Stored, configs' = [configs EXCEPT ![p] = x]
  PROVE  /\ configs' \in [Paths -> Stored] /\ configs'[p] = x
         /\ \A q \in Paths \ {p} : configs'[q] = configs[q]
  BY DEF FileShape

(* Taking a file away, if it is the id's.                                     *)
LEMMA PathUnlinked ==
  ASSUME FileShape, NEW p \in Paths, NEW i \in ModelIds, Unlink(p, i)
  PROVE  /\ configs' \in [Paths -> Stored]
         /\ configs'[p] = IF configs[p].id = i THEN NoFile ELSE configs[p]
         /\ \A q \in Paths \ {p} : configs'[q] = configs[q]
<1>1. CASE configs[p].id = i
  BY <1>1, StoredIds, PathWritten DEF Unlink
<1>2. CASE configs[p].id # i
  BY <1>2 DEF Unlink, FileShape
<1> QED
  BY <1>1, <1>2

LEMMA LookWidened ==
  ASSUME NEW x \in Looks, NEW v \in Stored
  PROVE  LET y == [x EXCEPT !.valid = @ \cup {v}] IN
         /\ y \in Looks /\ y.id = x.id /\ y.step = x.step /\ y.answer = x.answer
         /\ y.torn = x.torn /\ y.valid = x.valid \cup {v}
  BY DEF Looks

LEMMA LookTorn ==
  ASSUME NEW x \in Looks, NEW v \in Stored
  PROVE  LET y == [x EXCEPT !.valid = @ \cup {v}, !.torn = TRUE] IN
         /\ y \in Looks /\ y.id = x.id /\ y.step = x.step /\ y.answer = x.answer
         /\ y.torn = TRUE
  BY DEF Looks

LEMMA LookAnswers ==
  ASSUME NEW x \in Looks, NEW v \in Stored
  PROVE  LET y == [x EXCEPT !.answer = v, !.step = "done"] IN
         /\ y \in Looks /\ y.id = x.id /\ y.step = "done" /\ y.answer = v
         /\ y.torn = x.torn /\ y.valid = x.valid
  BY DEF Looks

LEMMA LookSteps ==
  ASSUME NEW x \in Looks, NEW next \in {"own", "done"}
  PROVE  LET y == [x EXCEPT !.step = next] IN
         /\ y \in Looks /\ y.id = x.id /\ y.step = next /\ y.answer = x.answer
         /\ y.torn = x.torn /\ y.valid = x.valid
  BY DEF Looks

LEMMA NoLoadShape ==
  NoLoad \in Looks /\ NoLoad.step = "idle" /\ NoLoad.id = None /\ NoLoad.answer = NoFile
  BY StoredIds DEF NoLoad, Looks

(* One load moves, and nothing else does.                                     *)
LEMMA LoadMoves ==
  ASSUME FileInv, NEW l \in Loads, NEW y \in Looks, load' = [load EXCEPT ![l] = y],
         UNCHANGED <<configs, deleting, saves, kept, halfGone>>,
         y.step = "idle" <=> y.id = None,
         y.step \in {"primary", "own"} => y.answer = NoFile,
         y.step # "idle" /\ ~y.torn =>
           /\ y.id \notin halfGone /\ kept[y.id] \in y.valid
           /\ y.step = "own" => configs[Own(y.id)] \in y.valid
           /\ y.step = "done" => y.answer \in y.valid
  PROVE  FileInv'
<1> USE DEF FileInv
<1>1. /\ load' \in [Loads -> Looks] /\ load'[l] = y
      /\ \A k \in Loads \ {l} : load'[k] = load[k]
  BY DEF FileShape
<1>2. FileShape'
  BY <1>1 DEF FileShape
<1>3. FilesKept' /\ DeleteFits'
  BY DEF FilesKept, DeleteFits, Loaded, Own, Primary
<1>4. ASSUME NEW k \in Loads PROVE LoadFits(k)'
  BY <1>1 DEF LoadFits, Own
<1> QED
  BY <1>2, <1>3, <1>4

LEMMA FileInitially == FileInit => FileInv
<1> SUFFICES ASSUME FileInit PROVE FileInv
  OBVIOUS
<1>1. FileShape
  BY StoredIds, NoLoadShape, SavesBound DEF FileInit, FileShape
<1>2. FilesKept
  BY StoredIds, PathsApart DEF FileInit, FilesKept, Loaded
<1>3. \A l \in Loads : LoadFits(l)
  BY NoLoadShape DEF FileInit, LoadFits
<1> QED
  BY <1>1, <1>2, <1>3 DEF FileInv, DeleteFits, FileInit

LEMMA SaveKeeps == ASSUME FileInv, NEW i \in ModelIds, Save(i) PROVE FileInv'
<1> USE DEF FileInv
<1>1. PICK api \in Apis \cup {None} :
        LET new == [id |-> i, api |-> api, save |-> saves + 1]
        IN /\ configs' = [configs EXCEPT ![PathFor(i)] = new]
           /\ kept' = [kept EXCEPT ![i] = new]
           /\ halfGone' = IF configs[Own(i)] = NoFile \/ PathFor(i) = Own(i)
                          THEN halfGone \ {i} ELSE halfGone
           /\ Allow(i, new)
  BY DEF Save
<1> DEFINE new == [id |-> i, api |-> api, save |-> saves + 1]
<1>2. new \in Stored /\ new.id = i
  BY SavesBound DEF Save, Stored, FileShape
<1> HIDE DEF new
<1>3. /\ configs' = [configs EXCEPT ![PathFor(i)] = new]
      /\ kept' = [kept EXCEPT ![i] = new]
      /\ halfGone' \subseteq halfGone /\ halfGone \subseteq halfGone' \cup {i}
      /\ load' = [l \in Loads |-> IF load[l].id = i THEN [load[l] EXCEPT !.valid = @ \cup {new}]
                                                   ELSE load[l]]
      /\ deleting = None /\ deleting' = None /\ saves' \in 0..MaxSaves
  <2>1. deleting = None /\ deleting' = None /\ saves' \in 0..MaxSaves
    BY SavesBound DEF Save, FileShape
  <2>2. halfGone' \in {halfGone \ {i}, halfGone}
    BY Zenon, <1>1 DEF new
  <2>3. /\ configs' = [configs EXCEPT ![PathFor(i)] = new]
        /\ kept' = [kept EXCEPT ![i] = new]
        /\ load' = [l \in Loads |-> IF load[l].id = i THEN [load[l] EXCEPT !.valid = @ \cup {new}]
                                                     ELSE load[l]]
    BY Zenon, <1>1 DEF new, Allow
  <2>4. halfGone' \subseteq halfGone /\ halfGone \subseteq halfGone' \cup {i}
    BY <2>2
  <2> QED
    BY <2>1, <2>3, <2>4
<1>4. /\ kept' \in [ModelIds -> Stored] /\ kept'[i] = new
      /\ \A j \in ModelIds \ {i} : kept'[j] = kept[j]
  BY <1>2, <1>3 DEF FileShape
<1>5. PathFor(i) \in Paths /\ (PathFor(i) = Primary(i) \/ PathFor(i) = Own(i))
  BY PathsApart DEF PathFor
<1>6. /\ configs' \in [Paths -> Stored] /\ configs'[PathFor(i)] = new
      /\ \A q \in Paths \ {PathFor(i)} : configs'[q] = configs[q]
  BY <1>2, <1>3, <1>5, PathWritten
<1>7. ASSUME NEW l \in Loads
      PROVE  /\ load'[l] \in Looks /\ load'[l].id = load[l].id /\ load'[l].step = load[l].step
             /\ load'[l].answer = load[l].answer /\ load'[l].torn = load[l].torn
             /\ load[l].valid \subseteq load'[l].valid
             /\ load[l].id = i => new \in load'[l].valid
  <2>1. load[l] \in Looks
    BY DEF FileShape
  <2>2. load'[l] = IF load[l].id = i THEN [load[l] EXCEPT !.valid = @ \cup {new}] ELSE load[l]
    BY <1>3
  <2> QED
    BY <1>2, <2>1, <2>2, LookWidened
<1>8. FileShape'
  <2>1. load' \in [Loads -> Looks]
    BY <1>3, <1>7
  <2> QED
    BY <1>3, <1>4, <1>6, <2>1 DEF FileShape
<1>9. FilesKept'
  <2>1. ASSUME NEW j \in ModelIds PROVE configs'[Own(j)].id \in {None, j}
    BY <1>2, <1>5, <1>6, PathsApart DEF FilesKept
  <2>2. Loaded(i)' = new
    <3>1. CASE PathFor(i) = Primary(i)
      BY <1>2, <1>6, <3>1 DEF Loaded
    <3>2. CASE PathFor(i) = Own(i)
      <4>1. configs[Primary(i)].id # i
        BY <3>2, PathsApart DEF PathFor
      <4>2. configs'[Primary(i)] = configs[Primary(i)]
        BY <1>6, <3>2, PathsApart
      <4> QED
        BY <1>6, <3>2, <4>1, <4>2 DEF Loaded
    <3> QED
      BY <1>5, <3>1, <3>2
  <2>3. ASSUME NEW j \in ModelIds \ {i} PROVE Loaded(j)' = Loaded(j)
    <3>1. configs'[Own(j)] = configs[Own(j)]
      BY <1>5, <1>6, PathsApart
    <3>2. CASE Primary(j) = PathFor(i)
      <4>1. configs[Primary(j)].id \in {None, i}
        BY <1>5, <3>2, PathsApart DEF PathFor
      <4> QED
        BY <1>2, <1>6, <3>1, <3>2, <4>1, NoneAssumption DEF Loaded
    <3>3. CASE Primary(j) # PathFor(i)
      BY <1>6, <3>1, <3>3, PathsApart DEF Loaded
    <3> QED
      BY <3>2, <3>3
  <2>4. ASSUME NEW j \in ModelIds \ halfGone' PROVE Loaded(j)' = kept'[j]
    BY <1>3, <1>4, <2>2, <2>3 DEF FilesKept
  <2> QED
    BY <2>1, <2>4 DEF FilesKept
<1>10. ASSUME NEW l \in Loads PROVE LoadFits(l)'
  <2>1. LoadFits(l)
    OBVIOUS
  <2>2. load[l].id \in ModelIds \cup {None}
    BY DEF FileShape, Looks
  <2>3. ASSUME load[l].step # "idle", ~load[l].torn
        PROVE  /\ load[l].id \notin halfGone' /\ kept'[load[l].id] \in load'[l].valid
               /\ load[l].step = "own" => configs'[Own(load[l].id)] \in load'[l].valid
               /\ load[l].step = "done" => load[l].answer \in load'[l].valid
    <3> DEFINE j == load[l].id
    <3>1. /\ j \in ModelIds /\ j \notin halfGone /\ kept[j] \in load[l].valid
          /\ load[l].step = "own" => configs[Own(j)] \in load[l].valid
          /\ load[l].step = "done" => load[l].answer \in load[l].valid
      BY <2>1, <2>2, <2>3 DEF LoadFits
    <3>2. load[l].valid \subseteq load'[l].valid /\ (j = i => new \in load'[l].valid)
      BY <1>7
    <3> HIDE DEF j
    <3>3. kept'[j] \in load'[l].valid
      BY <1>4, <3>1, <3>2
    <3>4. configs'[Own(j)] \in {configs[Own(j)], new} /\ (j # i => configs'[Own(j)] = configs[Own(j)])
      BY <1>5, <1>6, <3>1, PathsApart
    <3> QED
      BY <1>3, <3>1, <3>2, <3>3, <3>4 DEF j
  <2> QED
    BY <1>7, <2>1, <2>3 DEF LoadFits, Own
<1> QED
  BY <1>3, <1>8, <1>9, <1>10 DEF DeleteFits
LEMMA DeletePrimaryKeeps == ASSUME FileInv, NEW i \in ModelIds, DeletePrimary(i) PROVE FileInv'
<1> USE DEF FileInv
<1>1. /\ deleting = None /\ deleting' = i /\ Unlink(Primary(i), i)
      /\ kept' = [kept EXCEPT ![i] = NoFile] /\ halfGone' = halfGone \cup {i} /\ saves' = saves
      /\ load' = [l \in Loads |-> IF load[l].id = i
                   THEN [load[l] EXCEPT !.valid = @ \cup {NoFile}, !.torn = TRUE]
                   ELSE load[l]]
  BY DEF DeletePrimary
<1>2. /\ kept' \in [ModelIds -> Stored] /\ kept'[i] = NoFile
      /\ \A j \in ModelIds \ {i} : kept'[j] = kept[j]
  BY <1>1, StoredIds DEF FileShape
<1>3. /\ configs' \in [Paths -> Stored]
      /\ configs'[Primary(i)] = IF configs[Primary(i)].id = i THEN NoFile ELSE configs[Primary(i)]
      /\ \A q \in Paths \ {Primary(i)} : configs'[q] = configs[q]
  BY <1>1, PathUnlinked, PathsApart
<1>4. \A j \in ModelIds : configs'[Own(j)] = configs[Own(j)]
  BY <1>3, PathsApart
<1>5. ASSUME NEW l \in Loads
      PROVE  /\ load'[l] \in Looks /\ load'[l].id = load[l].id /\ load'[l].step = load[l].step
             /\ load'[l].answer = load[l].answer
             /\ load[l].id = i => load'[l].torn
             /\ load[l].id # i => load'[l] = load[l]
  <2>1. load[l] \in Looks
    BY DEF FileShape
  <2>2. load'[l] = IF load[l].id = i THEN [load[l] EXCEPT !.valid = @ \cup {NoFile}, !.torn = TRUE]
                                     ELSE load[l]
    BY <1>1
  <2>3. CASE load[l].id # i
    BY <2>1, <2>2, <2>3
  <2>4. CASE load[l].id = i
    <3> DEFINE y == [load[l] EXCEPT !.valid = @ \cup {NoFile}, !.torn = TRUE]
    <3>1. /\ y \in Looks /\ y.id = load[l].id /\ y.step = load[l].step
          /\ y.answer = load[l].answer /\ y.torn = TRUE
      BY <2>1, LookTorn, StoredIds
    <3>2. load'[l] = y
      BY <2>2, <2>4
    <3> HIDE DEF y
    <3> QED
      BY <2>4, <3>1, <3>2
  <2> QED
    BY <2>3, <2>4
<1>6. FileShape'
  <2>1. load' \in [Loads -> Looks]
    BY <1>1, <1>5
  <2> QED
    BY <1>1, <1>2, <1>3, <2>1 DEF FileShape
<1>7. FilesKept'
  <2>1. ASSUME NEW j \in ModelIds PROVE configs'[Own(j)].id \in {None, j}
    BY <1>4 DEF FilesKept
  <2>2. ASSUME NEW j \in ModelIds \ {i} PROVE Loaded(j)' = Loaded(j)
    <3>1. CASE Primary(j) = Primary(i) /\ configs[Primary(i)].id = i
      BY <1>3, <1>4, <3>1, StoredIds, NoneAssumption DEF Loaded
    <3>2. CASE Primary(j) = Primary(i) /\ configs[Primary(i)].id # i
      BY <1>3, <1>4, <3>2 DEF Loaded
    <3>3. CASE Primary(j) # Primary(i)
      BY <1>3, <1>4, <3>3, PathsApart DEF Loaded
    <3> QED
      BY <3>1, <3>2, <3>3
  <2>3. ASSUME NEW j \in ModelIds \ halfGone' PROVE Loaded(j)' = kept'[j]
    BY <1>1, <1>2, <2>2 DEF FilesKept
  <2> QED
    BY <2>1, <2>3 DEF FilesKept
<1>8. DeleteFits'
  <2>1. configs'[Primary(i)].id # i
    BY <1>3, StoredIds, NoneAssumption
  <2> QED
    BY <1>1, <1>2, <2>1 DEF DeleteFits, Primary
<1>9. ASSUME NEW l \in Loads PROVE LoadFits(l)'
  <2>1. LoadFits(l) /\ load[l].id \in ModelIds \cup {None}
    BY DEF FileShape, Looks
  <2>2. CASE load[l].id = i
    BY <1>5, <2>1, <2>2 DEF LoadFits
  <2>3. CASE load[l].id # i
    BY <1>1, <1>2, <1>4, <1>5, <2>1, <2>3 DEF LoadFits, Own
  <2> QED
    BY <2>2, <2>3
<1> QED
  BY <1>6, <1>7, <1>8, <1>9

LEMMA DeleteOwnKeeps == ASSUME FileInv, DeleteOwn PROVE FileInv'
<1> USE DEF FileInv
<1>0. PICK i \in ModelIds : deleting = i
  BY DEF DeleteOwn, FileShape
<1>1. /\ i \in ModelIds /\ deleting' = None /\ Unlink(Own(i), i) /\ halfGone' = halfGone \ {i}
      /\ UNCHANGED <<load, saves, kept>>
      /\ i \in halfGone /\ kept[i] = NoFile /\ configs[Primary(i)].id # i
  BY <1>0 DEF DeleteOwn, FileShape, DeleteFits
<1>2. /\ configs' \in [Paths -> Stored]
      /\ configs'[Own(i)] = IF configs[Own(i)].id = i THEN NoFile ELSE configs[Own(i)]
      /\ \A q \in Paths \ {Own(i)} : configs'[q] = configs[q]
  BY <1>1, PathUnlinked, PathsApart
<1>3. configs'[Own(i)] = NoFile
  BY <1>1, <1>2, StoredIds, PathsApart DEF FilesKept, FileShape
<1>4. FileShape'
  BY <1>1, <1>2 DEF FileShape
<1>5. \A j \in ModelIds : configs'[Primary(j)] = configs[Primary(j)]
  BY <1>1, <1>2, PathsApart
<1>6. \A j \in ModelIds \ {i} : configs'[Own(j)] = configs[Own(j)]
  BY <1>1, <1>2, PathsApart
<1>7. FilesKept'
  <2>1. ASSUME NEW j \in ModelIds PROVE configs'[Own(j)].id \in {None, j}
    BY <1>3, <1>6, StoredIds DEF FilesKept
  <2>2. Loaded(i)' = NoFile
    BY <1>1, <1>3, <1>5 DEF Loaded
  <2>3. ASSUME NEW j \in ModelIds \ {i} PROVE Loaded(j)' = Loaded(j)
    BY <1>5, <1>6 DEF Loaded
  <2>4. ASSUME NEW j \in ModelIds \ halfGone' PROVE Loaded(j)' = kept'[j]
    BY <1>1, <2>2, <2>3 DEF FilesKept
  <2> QED
    BY <2>1, <2>4 DEF FilesKept
<1>8. ASSUME NEW l \in Loads PROVE LoadFits(l)'
  <2>1. LoadFits(l) /\ load[l].id \in ModelIds \cup {None}
    BY DEF FileShape, Looks
  <2>2. CASE load[l].id = i
    BY <1>1, <2>1, <2>2 DEF LoadFits
  <2>3. CASE load[l].id # i
    <3>1. load[l].step # "idle" => configs'[Own(load[l].id)] = configs[Own(load[l].id)]
      BY <1>6, <2>1, <2>3 DEF LoadFits
    <3> QED
      BY <1>1, <2>1, <3>1 DEF LoadFits, Own
  <2> QED
    BY <2>2, <2>3
<1> QED
  BY <1>1, <1>4, <1>7, <1>8 DEF DeleteFits

LEMMA FileStep == FileInv /\ [FileNext]_fileVars => FileInv'
<1> SUFFICES ASSUME FileInv, [FileNext]_fileVars PROVE FileInv'
  OBVIOUS
<1> USE DEF FileInv
<1>1. ASSUME NEW i \in ModelIds, Save(i) PROVE FileInv'
  BY <1>1, SaveKeeps
<1>2. ASSUME NEW i \in ModelIds, DeletePrimary(i) PROVE FileInv'
  BY <1>2, DeletePrimaryKeeps
<1>3. CASE DeleteOwn
  BY <1>3, DeleteOwnKeeps
<1>4. CASE DeleteBreaks
  <2>1. /\ deleting' = None /\ UNCHANGED <<configs, saves, kept, halfGone>>
        /\ load' = load \/ load' = [l \in Loads |-> NoLoad]
    BY <1>4 DEF DeleteBreaks
  <2>2. FileShape'
    BY <2>1, NoLoadShape DEF FileShape
  <2>3. FilesKept' /\ DeleteFits'
    BY <2>1 DEF FilesKept, DeleteFits, Loaded, Own, Primary
  <2>4. ASSUME NEW l \in Loads PROVE LoadFits(l)'
    <3>1. CASE load' = load
      BY <2>1, <3>1 DEF LoadFits, Own
    <3>2. CASE load' = [k \in Loads |-> NoLoad]
      <4>1. load'[l] = NoLoad
        BY <3>2
      <4> QED
        BY <4>1, NoLoadShape DEF LoadFits
    <3> QED
      BY <2>1, <3>1, <3>2
  <2> QED
    BY <2>2, <2>3, <2>4
<1>5. ASSUME NEW l \in Loads, NEW i \in ModelIds, LoadBegins(l, i) PROVE FileInv'
  <2> DEFINE y == [id |-> i, step |-> "primary", answer |-> NoFile, valid |-> {kept[i]},
                   torn |-> i \in halfGone]
  <2>1. load' = [load EXCEPT ![l] = y] /\ UNCHANGED <<configs, deleting, saves, kept, halfGone>>
    BY <1>5 DEF LoadBegins
  <2>2. kept[i] \in Stored /\ NoFile \in Stored /\ (i \in halfGone) \in BOOLEAN
    BY StoredIds DEF FileShape
  <2>3. /\ y \in Looks /\ y.id = i /\ y.step = "primary" /\ y.answer = NoFile
        /\ y.valid = {kept[i]} /\ (~y.torn => i \notin halfGone)
    BY <2>2 DEF Looks
  <2> HIDE DEF y
  <2> QED
    BY <2>1, <2>3, NoneAssumption, LoadMoves
<1>6. ASSUME NEW l \in Loads, LoadPrimary(l) PROVE FileInv'
  <2> DEFINE x == load[l]
  <2>1. /\ x \in Looks /\ x.step = "primary" /\ LoadFits(l) /\ x.id \in ModelIds
    BY <1>6 DEF FileShape, LoadPrimary, LoadLooks, LoadFits, Looks
  <2>2. UNCHANGED <<configs, deleting, saves, kept, halfGone>>
    BY <1>6 DEF LoadPrimary, LoadLooks
  <2>3. ~x.torn => Loaded(x.id) = kept[x.id]
    BY <2>1 DEF LoadFits, FilesKept
  <2>4. CASE configs[Primary(x.id)].id = x.id
    <3> DEFINE y == [x EXCEPT !.answer = configs[Primary(x.id)], !.step = "done"]
    <3>1. load' = [load EXCEPT ![l] = y]
      BY <1>6, <2>4 DEF LoadPrimary, LoadLooks
    <3>2. configs[Primary(x.id)] \in Stored
      BY <2>1, PathsApart DEF FileShape
    <3>3. /\ y \in Looks /\ y.id = x.id /\ y.step = "done"
          /\ y.answer = configs[Primary(x.id)] /\ y.torn = x.torn /\ y.valid = x.valid
      BY <2>1, <3>2, LookAnswers
    <3> HIDE DEF y
    <3>4. ~x.torn => /\ y.answer \in y.valid /\ x.id \notin halfGone
                     /\ kept[x.id] \in y.valid
      BY <2>1, <2>3, <2>4, <3>3 DEF LoadFits, Loaded
    <3> HIDE DEF x
    <3> QED
      BY <2>1, <2>2, <3>1, <3>3, <3>4, NoneAssumption, LoadMoves
  <2>5. CASE configs[Primary(x.id)].id # x.id
    <3> DEFINE y == [x EXCEPT !.step = "own"]
    <3>1. load' = [load EXCEPT ![l] = y]
      BY <1>6, <2>5 DEF LoadPrimary, LoadLooks
    <3>2. /\ y \in Looks /\ y.id = x.id /\ y.step = "own"
          /\ y.answer = x.answer /\ y.torn = x.torn /\ y.valid = x.valid
      BY <2>1, LookSteps
    <3> HIDE DEF y
    <3>3. /\ x.answer = NoFile
          /\ ~x.torn => /\ configs[Own(x.id)] \in y.valid /\ x.id \notin halfGone
                        /\ kept[x.id] \in y.valid
      BY <2>1, <2>3, <2>5, <3>2 DEF LoadFits, Loaded
    <3> HIDE DEF x
    <3> QED
      BY <2>1, <2>2, <3>1, <3>2, <3>3, NoneAssumption, LoadMoves
  <2> QED
    BY <2>4, <2>5
<1>7. ASSUME NEW l \in Loads, LoadOwn(l) PROVE FileInv'
  <2> DEFINE x == load[l]
  <2>1. /\ x \in Looks /\ x.step = "own" /\ LoadFits(l) /\ x.id \in ModelIds
    BY <1>7 DEF FileShape, LoadOwn, LoadLooks, LoadFits, Looks
  <2>2. UNCHANGED <<configs, deleting, saves, kept, halfGone>>
    BY <1>7 DEF LoadOwn, LoadLooks
  <2>3. configs[Own(x.id)] \in Stored /\ configs[Own(x.id)].id \in {None, x.id}
    BY <2>1, PathsApart DEF FileShape, FilesKept
  <2>4. CASE configs[Own(x.id)].id = x.id
    <3> DEFINE y == [x EXCEPT !.answer = configs[Own(x.id)], !.step = "done"]
    <3>1. load' = [load EXCEPT ![l] = y]
      BY <1>7, <2>4 DEF LoadOwn, LoadLooks
    <3> DEFINE v == configs[Own(x.id)]
    <3>a. x \in Looks /\ v \in Stored
      BY <2>1, <2>3
    <3> HIDE DEF x, v
    <3>2. /\ y \in Looks /\ y.id = x.id /\ y.step = "done"
          /\ y.answer = configs[Own(x.id)] /\ y.torn = x.torn /\ y.valid = x.valid
      <4>1. y = [x EXCEPT !.answer = v, !.step = "done"]
        BY DEF v
      <4> HIDE DEF y
      <4> QED
        BY Zenon, <3>a, <4>1, LookAnswers DEF v
    <3> USE DEF x
    <3> HIDE DEF y
    <3>3. ~x.torn => /\ y.answer \in y.valid /\ x.id \notin halfGone
                     /\ kept[x.id] \in y.valid
      BY <2>1, <3>2 DEF LoadFits
    <3> HIDE DEF x
    <3> QED
      BY <2>1, <2>2, <3>1, <3>2, <3>3, NoneAssumption, LoadMoves
  <2>5. CASE configs[Own(x.id)].id # x.id
    <3> DEFINE y == [x EXCEPT !.step = "done"]
    <3>1. load' = [load EXCEPT ![l] = y]
      BY <1>7, <2>5 DEF LoadOwn, LoadLooks
    <3>2. /\ y \in Looks /\ y.id = x.id /\ y.step = "done"
          /\ y.answer = x.answer /\ y.torn = x.torn /\ y.valid = x.valid
      BY <2>1, LookSteps
    <3> HIDE DEF y
    <3>3. configs[Own(x.id)] = NoFile
      BY <2>3, <2>5, StoredIds
    <3>4. ~x.torn => /\ y.answer \in y.valid /\ x.id \notin halfGone
                     /\ kept[x.id] \in y.valid
      BY <2>1, <3>2, <3>3 DEF LoadFits
    <3> HIDE DEF x
    <3> QED
      BY <2>1, <2>2, <3>1, <3>2, <3>4, NoneAssumption, LoadMoves
  <2> QED
    BY <2>4, <2>5
<1>8. ASSUME NEW l \in Loads, LoadEnds(l) PROVE FileInv'
  BY <1>8, NoLoadShape, LoadMoves DEF LoadEnds
<1>9. CASE UNCHANGED fileVars
  BY <1>9 DEF fileVars, FileShape, FilesKept, DeleteFits, LoadFits, Loaded, Own, Primary
<1> QED
  BY <1>1, <1>2, <1>3, <1>4, <1>5, <1>6, <1>7, <1>8, <1>9 DEF FileNext

(* The groups asked while a model serves are models that serve, all of them.  *)
LEMMA ServingAnswer ==
  ASSUME NEW statuses \in [ModelIds -> {"running", "loading", "stopped"}],
         NEW current \in ModelIds \cup {None}, Says(Serving(statuses)) # {}
  PROVE  /\ Resolved(statuses, current) # {}
         /\ Resolved(statuses, current) \subseteq Says(Serving(statuses))
<1> DEFINE first == {current} \cap Serving(statuses)
           loading == {i \in ModelIds : statuses[i] = "loading"}
           running == {i \in ModelIds : statuses[i] = "running"}
           Heard(k, g) == \A j \in {1, 2, 3} : j < k => Says(g[j]) = {}
<1>1. AskedFirst(statuses, current) = <<first, loading, running>>
  BY DEF AskedFirst, Says, Serving
<1>2. /\ first \subseteq Serving(statuses)
      /\ Serving(statuses) = loading \cup running
  BY DEF Serving
<1>3. \A g, h : g \subseteq h => Says(g) \subseteq Says(h)
  BY DEF Says
<1>4. \E g \in {loading, running} : Says(g) # {}
  BY <1>2 DEF Says
<1> HIDE DEF first, loading, running
<1> DEFINE asked == <<first, loading, running>>
<1>5. DOMAIN asked = {1, 2, 3} /\ asked[1] = first /\ asked[2] = loading /\ asked[3] = running
  OBVIOUS
<1>6. Resolved(statuses, current)
        = UNION {Says(asked[k]) : k \in {n \in {1, 2, 3} : Heard(n, asked)}}
  BY <1>1, <1>5 DEF Resolved
<1>7. \A k \in {1, 2, 3} : Says(asked[k]) \subseteq Says(Serving(statuses))
  BY <1>2, <1>3, <1>5
<1>8. \E k \in {1, 2, 3} : Heard(k, asked) /\ Says(asked[k]) # {}
  <2>1. CASE Says(first) # {}
    BY <1>5, <2>1
  <2>2. CASE Says(first) = {} /\ Says(loading) # {}
    BY <1>5, <2>2
  <2>3. CASE Says(first) = {} /\ Says(loading) = {} /\ Says(running) # {}
    BY <1>5, <2>3
  <2> QED
    BY <1>4, <2>1, <2>2, <2>3
<1> HIDE DEF asked, Heard
<1> QED
  BY <1>6, <1>7, <1>8

(* Theorem: both readers of the launch files get the right one.  A load       *)
(* answers with a configuration that was the id's last saved one at some      *)
(* moment of it, whatever ids share its file name and whatever saves, deletes *)
(* and loads come in between, unless a delete of the id itself was cut in     *)
(* two; and while a model that serves says where, resolve_launch_api answers  *)
(* what such a model says, for every order of the table.                      *)
THEOREM ConfigurationsFound == FileSpec => [](FileTypeOK /\ ConfigsFound)
<1>1. FileInv => FileTypeOK /\ LoadsCurrent
  BY DEF FileInv, FileShape, FileTypeOK, Looks, LoadFits, LoadsCurrent
<1>2. ResolvesServing
  BY ServingAnswer DEF ResolvesServing
<1>3. FileInv => FileTypeOK /\ ConfigsFound
  BY <1>1, <1>2 DEF ConfigsFound
<1> QED
  BY <1>3, FileInitially, FileStep, PTL DEF FileSpec

-----------------------------------------------------------------------------
(* AccessLog: which lines of the file, of a chunk on its way and of the      *)
(* buffers are of the session shown, or of a later one.                      *)

(* Every line of a sequence, and every line of the file beyond a number of    *)
(* lines, is of session s or a later one; a file that has become shorter than *)
(* that number was rotated, and is new as a whole.                            *)
AllFrom(s, q) == \A i \in DOMAIN q : q[i] >= s

NewBeyond(s, n) == /\ \A i \in DOMAIN logFile : i > n => logFile[i] >= s
                   /\ Len(logFile) < n => AllFrom(s, logFile)

LogShape ==
  /\ logFile \in Seq(Written) /\ entries \in Seq(Written) /\ lineBuf \in Seq(Written)
  /\ Len(lineBuf) <= 1
  /\ session \in Written /\ known \in 0..session /\ offset \in 0..MaxLines
  /\ skipToEnd \in BOOLEAN /\ raced \in BOOLEAN
  /\ lines \in 0..MaxLines /\ rotations \in 0..MaxRotations
  /\ Len(logFile) + lines <= MaxLines
  /\ saved \in [at : 0..MaxLines, session : 0..session, raced : BOOLEAN]
  /\ poll \in [step : {"none", "answered", "decided"}, chunk : Seq(Written),
               size : 0..MaxLines, shrunk : BOOLEAN, skip : BOOLEAN]

(* What the poll in progress read fits the offset it was asked from.          *)
PollFits ==
  /\ poll.shrunk => poll.chunk = <<>>
  /\ poll.step # "none" /\ ~poll.shrunk => offset + Len(poll.chunk) = poll.size
  /\ poll.step = "decided" /\ poll.shrunk => offset = 0

LinesFresh ==
  /\ AllFrom(known, entries) /\ AllFrom(known, lineBuf)
  /\ ~skipToEnd => NewBeyond(known, offset)
  /\ Len(logFile) < offset => AllFrom(known, logFile)

PollFresh ==
  poll.step # "none" =>
    /\ NewBeyond(known, poll.size)
    /\ poll.shrunk => AllFrom(known, logFile)
    /\ ~skipToEnd => AllFrom(known, poll.chunk)
    /\ poll.step = "decided" /\ skipToEnd => poll.skip

LogInv == /\ LogShape /\ PollFits
          /\ raced \/ (LinesFresh /\ PollFresh)
          /\ saved.raced \/ NewBeyond(saved.session, saved.at)

LEMMA AppendFrom ==
  ASSUME NEW s \in Nat, NEW q \in Seq(Written), NEW e \in Written, e >= s, AllFrom(s, q)
  PROVE  AllFrom(s, Append(q, e))
BY DEF AllFrom, Written

LEMMA AppendBeyond ==
  ASSUME NEW s \in Nat, NEW n \in Nat, NEW e \in Written, e >= s, LogShape,
         NewBeyond(s, n), logFile' = Append(logFile, e)
  PROVE  /\ \A i \in DOMAIN logFile' : i > n => logFile'[i] >= s
         /\ Len(logFile') < n => AllFrom(s, logFile')
<1>1. logFile \in Seq(Written) /\ Len(logFile) \in Nat
  BY DEF LogShape
<1>2. \A i \in DOMAIN logFile' : i > n => logFile'[i] >= s
  BY <1>1 DEF NewBeyond, Written
<1>3. Len(logFile') = Len(logFile) + 1
  BY <1>1
<1>4. Len(logFile') < n => AllFrom(s, logFile)
  BY <1>1, <1>3 DEF NewBeyond
<1> QED
  BY <1>1, <1>2, <1>4, AppendFrom

(* A rotated file holds nothing, and nothing of it is old.                    *)
LEMMA EmptyIsNew ==
  ASSUME NEW s, NEW n, logFile' = <<>>
  PROVE  /\ \A i \in DOMAIN logFile' : i > n => logFile'[i] >= s
         /\ AllFrom(s, logFile')
BY DEF AllFrom

(* The lines from an offset on are those beyond it.                           *)
LEMMA TailFrom ==
  ASSUME NEW s \in Nat, NEW n \in Nat, LogShape, NewBeyond(s, n)
  PROVE  AllFrom(s, SubSeq(logFile, n + 1, Len(logFile)))
<1>1. logFile \in Seq(Written) /\ Len(logFile) \in Nat
  BY DEF LogShape
<1> DEFINE q == SubSeq(logFile, n + 1, Len(logFile))
<1>2. \A i \in DOMAIN q : i \in Nat \ {0} /\ q[i] = logFile[n + i] /\ n + i \in DOMAIN logFile
  BY <1>1
<1> HIDE DEF q
<1>3. AllFrom(s, q)
  BY <1>2 DEF AllFrom, NewBeyond
<1> QED
  BY <1>3 DEF q

(* Ingesting lines that are new keeps what was counted, and the line that     *)
(* waits, new; and keeps their types.                                         *)
LEMMA IngestKeeps ==
  ASSUME NEW s \in Nat, NEW chunk \in Seq(Written), LogShape, Ingest(chunk)
  PROVE  /\ entries' \in Seq(Written) /\ lineBuf' \in Seq(Written) /\ Len(lineBuf') <= 1
         /\ AllFrom(s, chunk) /\ AllFrom(s, entries) /\ AllFrom(s, lineBuf)
              => AllFrom(s, entries') /\ AllFrom(s, lineBuf')
<1>1. entries \in Seq(Written) /\ lineBuf \in Seq(Written) /\ Len(lineBuf) <= 1
  BY DEF LogShape
<1>2. CASE chunk = <<>>
  BY <1>1, <1>2 DEF Ingest
<1>3. CASE chunk # <<>>
  <2> DEFINE read  == lineBuf \o chunk
             front == SubSeq(read, 1, Len(read) - 1)
  <2>1. read \in Seq(Written) /\ Len(read) \in Nat \ {0}
    BY <1>1, <1>3
  <2>2. entries' = entries \o front /\ lineBuf' = <<read[Len(read)]>>
    BY <1>3 DEF Ingest, Front, Last
  <2>3. AllFrom(s, chunk) /\ AllFrom(s, lineBuf) => AllFrom(s, read)
    BY <1>1 DEF AllFrom
  <2> HIDE DEF read
  <2>4. front \in Seq(Written) /\ read[Len(read)] \in Written
    BY <2>1
  <2>5. AllFrom(s, read) => AllFrom(s, front) /\ read[Len(read)] >= s
    BY <2>1 DEF AllFrom
  <2> HIDE DEF front
  <2>6. entries' \in Seq(Written) /\ lineBuf' \in Seq(Written) /\ Len(lineBuf') <= 1
    BY <1>1, <2>2, <2>4
  <2>7. AllFrom(s, front) /\ AllFrom(s, entries) => AllFrom(s, entries')
    BY <1>1, <2>2, <2>4 DEF AllFrom
  <2>8. read[Len(read)] >= s => AllFrom(s, lineBuf')
    BY <2>2 DEF AllFrom
  <2> QED
    BY <2>3, <2>5, <2>6, <2>7, <2>8
<1> QED
  BY <1>2, <1>3

LEMMA LogInitially == LogInit => LogInv
<1> SUFFICES ASSUME LogInit PROVE LogInv
  OBVIOUS
<1>1. MaxLaunches \in Nat /\ MaxLines \in Nat /\ MaxRotations \in Nat
  BY AccessBounds
<1>2. <<>> \in Seq(Written) /\ 0 \in Written
  BY <1>1 DEF Written
<1>3. saved \in [at : 0..MaxLines, session : 0..session, raced : BOOLEAN]
  BY <1>1 DEF LogInit, NoStart
<1>4. poll \in [step : {"none", "answered", "decided"}, chunk : Seq(Written),
                size : 0..MaxLines, shrunk : BOOLEAN, skip : BOOLEAN]
  BY <1>1, <1>2 DEF LogInit, NoPoll
<1>5. LogShape
  <2>1. /\ logFile = <<>> /\ entries = <<>> /\ lineBuf = <<>> /\ session = 0 /\ known = 0
        /\ offset = 0 /\ skipToEnd = FALSE /\ raced = FALSE
        /\ lines = MaxLines /\ rotations = MaxRotations
    BY DEF LogInit
  <2> HIDE DEF LogInit
  <2>2. Len(lineBuf) <= 1 /\ Len(logFile) + lines <= MaxLines
    BY <1>1, <2>1
  <2>3. /\ session \in Written /\ known \in 0..session /\ offset \in 0..MaxLines
        /\ lines \in 0..MaxLines /\ rotations \in 0..MaxRotations
    BY <1>1, <1>2, <2>1
  <2>4. logFile \in Seq(Written) /\ entries \in Seq(Written) /\ lineBuf \in Seq(Written)
    BY <1>2, <2>1
  <2>5. skipToEnd \in BOOLEAN /\ raced \in BOOLEAN
    BY <2>1
  <2> QED
    BY <1>3, <1>4, <2>2, <2>3, <2>4, <2>5 DEF LogShape
<1>6. poll.step = "none" /\ ~poll.shrunk
  BY DEF LogInit, NoPoll
<1>7. AllFrom(known, entries) /\ AllFrom(known, lineBuf) /\ AllFrom(known, logFile)
  BY DEF LogInit, AllFrom
<1>8. \A s, n : logFile = <<>> => NewBeyond(s, n)
  BY DEF NewBeyond, AllFrom
<1> QED
  BY <1>5, <1>6, <1>7, <1>8 DEF LogInv, LogInit, PollFits, LinesFresh, PollFresh

LEMMA LogStep == LogInv /\ [LogNext]_logVars => LogInv'
<1> SUFFICES ASSUME LogInv, [LogNext]_logVars PROVE LogInv'
  OBVIOUS
<1> USE DEF LogInv
<1>0. /\ MaxLaunches \in Nat /\ MaxLines \in Nat /\ MaxRotations \in Nat
      /\ logFile \in Seq(Written) /\ Len(logFile) \in Nat
      /\ session \in Nat /\ known \in Nat /\ known <= session
      /\ saved.session \in Nat /\ saved.session <= session
      /\ offset \in Nat /\ saved.at \in Nat /\ poll.size \in Nat
  BY AccessBounds DEF LogShape, Written
<1>1. CASE Serve
  <2>1. /\ lines > 0 /\ lines' = lines - 1
        /\ logFile' = Append(logFile, session)
        /\ UNCHANGED <<session, rotations, entries, lineBuf, offset, skipToEnd,
                       saved, poll, known, raced>>
    BY <1>1 DEF Serve
  <2>2. session \in Written
    BY DEF LogShape
  <2>3. /\ logFile' \in Seq(Written) /\ Len(logFile') = Len(logFile) + 1
    BY <1>0, <2>1, <2>2
  <2>4. LogShape'
    BY <1>0, <2>1, <2>3 DEF LogShape
  <2>5. PollFits'
    BY <2>1 DEF PollFits
  <2>6. ASSUME NEW s \in Nat, s <= session, NEW n \in Nat, NewBeyond(s, n)
        PROVE  /\ \A i \in DOMAIN logFile' : i > n => logFile'[i] >= s
               /\ Len(logFile') < n => AllFrom(s, logFile')
    BY <1>0, <2>1, <2>2, <2>6, AppendBeyond
  <2>7. ASSUME NEW s \in Nat, s <= session, AllFrom(s, logFile)
        PROVE  AllFrom(s, logFile')
    BY <1>0, <2>1, <2>2, <2>7, AppendFrom
  <2>8. raced \/ LinesFresh'
    <3>1. Len(logFile') < offset => Len(logFile) < offset
      BY <1>0, <2>3
    <3> QED
      BY <1>0, <2>1, <2>6, <2>7, <3>1 DEF LinesFresh, NewBeyond
  <2>9. raced \/ PollFresh'
    BY <1>0, <2>1, <2>6, <2>7 DEF PollFresh, NewBeyond
  <2>10. saved.raced \/ NewBeyond(saved.session, saved.at)'
    BY <1>0, <2>1, <2>6 DEF NewBeyond
  <2> QED
    BY <2>1, <2>4, <2>5, <2>8, <2>9, <2>10
<1>2. CASE Rotate
  <2>1. /\ rotations > 0 /\ rotations' = rotations - 1 /\ logFile' = <<>>
        /\ UNCHANGED <<session, lines, entries, lineBuf, offset, skipToEnd,
                       saved, poll, known, raced>>
    BY <1>2 DEF Rotate
  <2>2. LogShape'
    <3>1. logFile' \in Seq(Written) /\ Len(logFile') = 0
      BY <2>1
    <3> QED
      BY <1>0, <2>1, <3>1 DEF LogShape
  <2>3. PollFits'
    BY <2>1 DEF PollFits
  <2>4. \A s : AllFrom(s, logFile)' /\ \A i \in DOMAIN logFile' : logFile'[i] >= s
    BY <2>1 DEF AllFrom
  <2>5. raced \/ (LinesFresh' /\ PollFresh')
    BY <2>1, <2>4 DEF LinesFresh, PollFresh, NewBeyond, AllFrom
  <2>6. NewBeyond(saved.session, saved.at)'
    BY <2>4 DEF NewBeyond, AllFrom
  <2> QED
    BY <2>1, <2>2, <2>3, <2>5, <2>6
<1>3. CASE MarkSessionStart
  <2>1. /\ session < MaxLaunches /\ session' = session + 1 /\ known' = session + 1
        /\ raced' = (poll.step # "none" \/ Len(logFile) < offset)
        /\ entries' = <<>> /\ lineBuf' = <<>> /\ skipToEnd' = TRUE
        /\ UNCHANGED <<logFile, lines, rotations, offset, saved, poll>>
    BY <1>3 DEF MarkSessionStart, Shrunk
  <2>2. LogShape'
    <3>1. session' \in Written /\ known' \in 0..session'
      BY <1>0, <2>1 DEF Written
    <3>2. entries' \in Seq(Written) /\ lineBuf' \in Seq(Written) /\ Len(lineBuf') <= 1
      BY <2>1
    <3>3. saved' \in [at : 0..MaxLines, session : 0..session', raced : BOOLEAN]
      BY <1>0, <2>1 DEF LogShape
    <3>4. raced' \in BOOLEAN /\ skipToEnd' \in BOOLEAN
      BY <2>1
    <3> QED
      BY <2>1, <3>1, <3>2, <3>3, <3>4 DEF LogShape
  <2>3. PollFits'
    BY <2>1 DEF PollFits
  <2>4. raced' \/ LinesFresh'
    <3>1. AllFrom(known', entries') /\ AllFrom(known', lineBuf')
      BY <2>1 DEF AllFrom
    <3>2. raced' \/ ~(Len(logFile') < offset')
      BY <2>1
    <3> QED
      BY <2>1, <3>1, <3>2 DEF LinesFresh
  <2>5. raced' \/ PollFresh'
    BY <2>1 DEF PollFresh
  <2>6. saved'.raced \/ NewBeyond(saved.session, saved.at)'
    BY <2>1 DEF NewBeyond
  <2> QED
    BY <2>2, <2>3, <2>4, <2>5, <2>6
<1>4. CASE PollAnswers
  <2> DEFINE tail == SubSeq(logFile, offset + 1, Len(logFile))
  <2>1. /\ poll.step = "none"
        /\ poll' = [step |-> "answered", size |-> Len(logFile),
                    shrunk |-> Len(logFile) < offset, chunk |-> tail, skip |-> FALSE]
        /\ UNCHANGED <<logFile, session, lines, rotations, entries, lineBuf, offset,
                       skipToEnd, saved, known, raced>>
    BY <1>4 DEF PollAnswers, Shrunk, serverVars
  <2>2. /\ tail \in Seq(Written)
        /\ Len(logFile) < offset => tail = <<>>
        /\ ~(Len(logFile) < offset) => offset + Len(tail) = Len(logFile)
    BY <1>0
  <2>3. NewBeyond(known, offset) => AllFrom(known, tail)
    BY <1>0, TailFrom
  <2> HIDE DEF tail
  <2>4. LogShape'
    <3>1. Len(logFile) \in 0..MaxLines
      BY <1>0 DEF LogShape
    <3>2. poll' \in [step : {"none", "answered", "decided"}, chunk : Seq(Written),
                      size : 0..MaxLines, shrunk : BOOLEAN, skip : BOOLEAN]
      BY <2>1, <2>2, <3>1
    <3> QED
      BY <2>1, <3>2 DEF LogShape
  <2>5. PollFits'
    BY <2>1, <2>2 DEF PollFits
  <2>6. raced \/ LinesFresh'
    BY <2>1 DEF LinesFresh, NewBeyond
  <2>7. NewBeyond(known, Len(logFile))
    BY <1>0 DEF NewBeyond
  <2>8. raced \/ PollFresh'
    BY <2>1, <2>3, <2>7 DEF PollFresh, LinesFresh, NewBeyond
  <2>9. saved.raced \/ NewBeyond(saved.session, saved.at)'
    BY <2>1 DEF NewBeyond
  <2> QED
    BY <2>1, <2>4, <2>5, <2>6, <2>8, <2>9
<1>5. CASE PollDecides
  <2>1. /\ poll.step = "answered"
        /\ poll' = [poll EXCEPT !.step = "decided", !.skip = skipToEnd]
        /\ UNCHANGED <<logFile, session, lines, rotations, skipToEnd, saved, known, raced>>
        /\ poll.shrunk => entries' = <<>> /\ lineBuf' = <<>> /\ offset' = 0
        /\ ~poll.shrunk => UNCHANGED <<entries, lineBuf, offset>>
    BY <1>5 DEF PollDecides, serverVars
  <2>2. /\ poll'.step = "decided" /\ poll'.skip = skipToEnd /\ poll'.shrunk = poll.shrunk
        /\ poll'.chunk = poll.chunk /\ poll'.size = poll.size
        /\ poll' \in [step : {"none", "answered", "decided"}, chunk : Seq(Written),
                       size : 0..MaxLines, shrunk : BOOLEAN, skip : BOOLEAN]
    BY <2>1 DEF LogShape
  <2>3. LogShape'
    <3>1. entries' \in Seq(Written) /\ lineBuf' \in Seq(Written) /\ Len(lineBuf') <= 1
          /\ offset' \in 0..MaxLines
      <4>1. CASE poll.shrunk
        BY <1>0, <2>1, <4>1
      <4>2. CASE ~poll.shrunk
        BY <2>1, <4>2 DEF LogShape
      <4> QED
        BY <4>1, <4>2
    <3> QED
      BY <2>1, <2>2, <3>1 DEF LogShape
  <2>4. PollFits'
    BY <2>1, <2>2 DEF PollFits
  <2>5. raced \/ LinesFresh'
    <3>1. CASE poll.shrunk
      <4>1. raced \/ AllFrom(known, logFile)
        BY <2>1, <3>1 DEF PollFresh
      <4>2. ~(Len(logFile) < 0)
        BY <1>0
      <4> QED
        BY <2>1, <3>1, <4>1, <4>2 DEF LinesFresh, NewBeyond, AllFrom
    <3>2. CASE ~poll.shrunk
      BY <2>1, <3>2 DEF LinesFresh, NewBeyond
    <3> QED
      BY <3>1, <3>2
  <2>6. raced \/ PollFresh'
    BY <2>1, <2>2 DEF PollFresh, NewBeyond
  <2>7. saved.raced \/ NewBeyond(saved.session, saved.at)'
    BY <2>1 DEF NewBeyond
  <2> QED
    BY <2>1, <2>3, <2>4, <2>5, <2>6, <2>7
<1>6. CASE PollSkips
  <2> DEFINE at == IF poll.shrunk THEN 0 ELSE poll.size
  <2>1. /\ poll.step = "decided" /\ poll.skip /\ skipToEnd' = FALSE
        /\ poll' = NoPoll /\ offset' = at /\ UNCHANGED <<entries, lineBuf>>
        /\ saved' \in {[at |-> at, session |-> known, raced |-> raced], saved}
        /\ UNCHANGED <<logFile, session, lines, rotations, known, raced>>
    BY <1>0, <1>6 DEF PollSkips, Persist, Ingest, PollFits, serverVars
  <2>2. at \in 0..MaxLines
    BY <1>0 DEF LogShape
  <2>3. raced \/ NewBeyond(known, at)
    <3>1. CASE poll.shrunk
      <4>1. raced \/ AllFrom(known, logFile)
        BY <2>1, <3>1 DEF PollFresh
      <4>2. ~(Len(logFile) < 0)
        BY <1>0
      <4> QED
        BY <3>1, <4>1, <4>2 DEF NewBeyond, AllFrom
    <3>2. CASE ~poll.shrunk
      BY <2>1, <3>2 DEF PollFresh
    <3> QED
      BY <3>1, <3>2
  <2> HIDE DEF at
  <2>4. LogShape'
    <3>1. saved' \in [at : 0..MaxLines, session : 0..session', raced : BOOLEAN]
      BY <1>0, <2>1, <2>2 DEF LogShape
    <3>2. poll' \in [step : {"none", "answered", "decided"}, chunk : Seq(Written),
                      size : 0..MaxLines, shrunk : BOOLEAN, skip : BOOLEAN]
      BY <1>0, <2>1 DEF NoPoll
    <3> QED
      BY <2>1, <2>2, <3>1, <3>2 DEF LogShape
  <2>5. PollFits' /\ PollFresh'
    BY <2>1 DEF PollFits, PollFresh, NoPoll
  <2>6. raced \/ LinesFresh'
    BY <2>1, <2>3 DEF LinesFresh, NewBeyond
  <2>7. saved'.raced \/ NewBeyond(saved.session, saved.at)'
    BY <2>1, <2>3 DEF NewBeyond
  <2> QED
    BY <2>1, <2>4, <2>5, <2>6, <2>7
<1>7. CASE PollMalformed
  <2>1. /\ poll' = NoPoll
        /\ UNCHANGED <<logFile, session, lines, rotations, entries, lineBuf, offset,
                       skipToEnd, saved, known, raced>>
    BY <1>7 DEF PollMalformed, serverVars
  <2>2. poll' \in [step : {"none", "answered", "decided"}, chunk : Seq(Written),
                   size : 0..MaxLines, shrunk : BOOLEAN, skip : BOOLEAN]
    BY <1>0, <2>1 DEF NoPoll
  <2>3. LogShape'
    BY <2>1, <2>2 DEF LogShape
  <2>4. PollFits' /\ PollFresh'
    BY <2>1 DEF PollFits, PollFresh, NoPoll
  <2> QED
    BY <2>1, <2>3, <2>4 DEF LinesFresh, NewBeyond
<1>8. CASE PollIngests
  <2>1. /\ poll.step = "decided" /\ ~poll.skip /\ Ingest(poll.chunk)
        /\ offset' = offset + Len(poll.chunk) /\ poll' = NoPoll
        /\ saved' \in {NoStart, saved}
        /\ UNCHANGED <<logFile, session, lines, rotations, skipToEnd, known, raced>>
    BY <1>8 DEF PollIngests, Invalidated, serverVars
  <2>2. poll.chunk \in Seq(Written)
    BY DEF LogShape
  <2>3. /\ entries' \in Seq(Written) /\ lineBuf' \in Seq(Written) /\ Len(lineBuf') <= 1
        /\ AllFrom(known, poll.chunk) /\ AllFrom(known, entries) /\ AllFrom(known, lineBuf)
             => AllFrom(known, entries') /\ AllFrom(known, lineBuf')
    BY <1>0, <2>1, <2>2, IngestKeeps
  <2>4. offset' = IF poll.shrunk THEN 0 ELSE poll.size
    BY <1>0, <2>1 DEF PollFits
  <2>5. LogShape'
    <3>1. offset' \in 0..MaxLines
      BY <1>0, <2>4 DEF LogShape
    <3>2. saved' \in [at : 0..MaxLines, session : 0..session', raced : BOOLEAN]
      <4>1. NoStart \in [at : 0..MaxLines, session : 0..session, raced : BOOLEAN]
        BY <1>0 DEF NoStart
      <4> QED
        BY <2>1, <4>1 DEF LogShape
    <3>3. poll' \in [step : {"none", "answered", "decided"}, chunk : Seq(Written),
                      size : 0..MaxLines, shrunk : BOOLEAN, skip : BOOLEAN]
      BY <1>0, <2>1 DEF NoPoll
    <3> QED
      BY <2>1, <2>3, <3>1, <3>2, <3>3 DEF LogShape
  <2>6. PollFits' /\ PollFresh'
    BY <2>1 DEF PollFits, PollFresh, NoPoll
  <2>7. raced \/ LinesFresh'
    <3> SUFFICES ASSUME ~raced PROVE LinesFresh'
      OBVIOUS
    <3>1. ~skipToEnd
      BY <2>1 DEF PollFresh
    <3>2. AllFrom(known, entries') /\ AllFrom(known, lineBuf')
      BY <2>1, <2>3, <3>1 DEF LinesFresh, PollFresh
    <3>3. NewBeyond(known, offset')
      <4>1. CASE poll.shrunk
        <5>1. AllFrom(known, logFile)
          BY <2>1, <4>1 DEF PollFresh
        <5> QED
          BY <2>4, <4>1, <5>1 DEF NewBeyond, AllFrom
      <4>2. CASE ~poll.shrunk
        BY <2>1, <2>4, <4>2 DEF PollFresh
      <4> QED
        BY <4>1, <4>2
    <3> QED
      BY <2>1, <3>2, <3>3 DEF LinesFresh, NewBeyond
  <2>8. saved'.raced \/ NewBeyond(saved.session, saved.at)'
    <3>1. NewBeyond(0, 0)
      BY <1>0 DEF NewBeyond, AllFrom, Written
    <3> QED
      BY <2>1, <3>1 DEF NewBeyond, NoStart
  <2> QED
    BY <2>1, <2>5, <2>6, <2>7, <2>8
<1>9. CASE LogRestart
  <2>1. /\ rotations > 0 /\ rotations' = rotations - 1
        /\ offset' = saved.at /\ known' = saved.session
        /\ entries' = <<>> /\ lineBuf' = <<>> /\ skipToEnd' = FALSE
        /\ poll' = NoPoll /\ raced' = saved.raced
        /\ UNCHANGED <<logFile, session, lines, saved>>
    BY <1>9 DEF LogRestart
  <2>2. LogShape'
    <3>1. entries' \in Seq(Written) /\ lineBuf' \in Seq(Written) /\ Len(lineBuf') <= 1
      BY <2>1
    <3>2. poll' \in [step : {"none", "answered", "decided"}, chunk : Seq(Written),
                      size : 0..MaxLines, shrunk : BOOLEAN, skip : BOOLEAN]
      BY <1>0, <2>1 DEF NoPoll
    <3>3. /\ offset' \in 0..MaxLines /\ known' \in 0..session' /\ raced' \in BOOLEAN
          /\ rotations' \in 0..MaxRotations
      BY <1>0, <2>1 DEF LogShape
    <3> QED
      BY <2>1, <3>1, <3>2, <3>3 DEF LogShape
  <2>3. PollFits' /\ PollFresh'
    BY <2>1 DEF PollFits, PollFresh, NoPoll
  <2>4. AllFrom(known', entries') /\ AllFrom(known', lineBuf')
    BY <2>1 DEF AllFrom
  <2>5. saved.raced \/ LinesFresh'
    BY <2>1, <2>4 DEF LinesFresh, NewBeyond
  <2>6. saved'.raced \/ NewBeyond(saved.session, saved.at)'
    BY <2>1 DEF NewBeyond
  <2> QED
    BY <2>1, <2>2, <2>3, <2>5, <2>6
<1>10. CASE UNCHANGED logVars
  BY <1>10 DEF logVars, LogShape, PollFits, LinesFresh, PollFresh, NewBeyond
<1> QED
  BY <1>1, <1>2, <1>3, <1>4, <1>5, <1>6, <1>7, <1>8, <1>9, <1>10 DEF LogNext

LEMMA LogHolds == LogInv => LogTypeOK /\ SessionExact
<1>1. LogShape => LogTypeOK
  BY AccessBounds DEF LogShape, LogTypeOK, Written
<1>2. LogInv => SessionExact
  BY DEF LogInv, LinesFresh, AllFrom, SessionExact
<1> QED
  BY <1>1, <1>2 DEF LogInv

(* Theorem: the access log's panel counts no line older than the session it   *)
(* shows, whatever rotations, restarts of vLLM and of the dashboard and lost  *)
(* writes of the session file come in between, unless the session's mark fell *)
(* into a poll or between a rotation and the poll that notices it.            *)
THEOREM NoOldLineCounted == LogSpec => [](LogTypeOK /\ SessionExact)
  BY LogInitially, LogStep, LogHolds, PTL DEF LogSpec

-----------------------------------------------------------------------------
(* DeployTool: what the run that holds the lock has brought about, step by   *)
(* step.                                                                     *)

Steps == {"idle", "pack", "upload", "build", "inspect", "clear", "start", "gate", "back",
          "restart", "regate", "cleanup", "ended"}
Reports == {"none", "refused", "ok", "rolled_back", "failed"}

(* Of a run, c being the container: what it reports of it is so.              *)
Truthful(x, c) ==
  /\ x.report = "ok" => c = [image |-> x.packed, up |-> TRUE]
  /\ x.report = "rolled_back" => c = [image |-> x.old, up |-> TRUE]
  /\ x.sound /\ x.served => c.up

(* What the run x that holds the lock has brought about when it is at a step: *)
(* t is the tarball, s what the server's build directory holds.               *)
Brought(x, t, s, c) ==
  /\ x.sound => x.linked
  /\ x.served => x.old \in Runnable
  /\ x.pc \in {"pack", "upload", "build", "inspect"} => ~x.served
  /\ x.pc = "upload" => t = x.packed
  /\ x.pc = "build" => s = x.packed
  /\ x.pc \in {"inspect", "clear", "start", "gate"} => x.image = x.packed
  /\ x.pc = "start" /\ x.linked => c = Absent
  /\ x.pc = "gate" => c = [image |-> x.image, up |-> TRUE]
  /\ x.pc \in {"back", "restart", "regate"} => x.old # Nothing
  /\ x.pc = "restart" => c = Absent
  /\ x.pc = "regate" => c = [image |-> x.old, up |-> TRUE]
  /\ x.pc = "cleanup" => Truthful(x, c)
  /\ x.pc # "cleanup" => x.report = "none"

LockExcludes ==
  /\ \A r \in Runs : run[r].pc \notin {"idle", "ended"} <=> deployLock = r
  /\ \A r \in Runs : run[r].pc = "idle" => run[r] = NewRun
  /\ last # Nothing => run[last].pc = "ended"

ToolRuns == [pc : Steps, packed : Content, image : Content, old : Content,
             served : BOOLEAN, sound : BOOLEAN, linked : BOOLEAN, report : Reports]

ToolShape ==
  /\ tree \in Versions /\ tarball \in Content /\ shipped \in Content
  /\ deployLock \in Runs \cup {Nothing} /\ last \in Runs \cup {Nothing}
  /\ container \in [image : Content, up : BOOLEAN]
  /\ container.up => container.image \in Runnable
  /\ toolTrouble \in 0..MaxToolTrouble
  /\ run \in [Runs -> ToolRuns]

ToolInv ==
  /\ ToolShape /\ LockExcludes
  /\ deployLock # Nothing => Brought(run[deployLock], tarball, shipped, container)
  /\ Quiet => Truthful(run[last], container)

LEMMA ToolTyped == ToolShape => ToolTypeOK
  BY DEF ToolShape, ToolTypeOK, ToolRuns, Steps, Reports

LEMMA ToolInitially == ToolInit => ToolInv
<1> SUFFICES ASSUME ToolInit PROVE ToolInv
  OBVIOUS
<1>1. NewRun \in ToolRuns /\ NewRun.pc = "idle"
  BY DEF NewRun, ToolRuns, Steps, Reports, Content
<1>2. \A r \in Runs : run[r] = NewRun
  BY DEF ToolInit
<1>3. run \in [Runs -> ToolRuns]
  BY <1>1 DEF ToolInit
<1>4. container \in [image : Content, up : BOOLEAN] /\ (container.up => container.image \in Runnable)
  <2>1. CASE container = Absent
    BY <2>1 DEF Absent, Content
  <2>2. ASSUME NEW v \in Healthy, container = [image |-> v, up |-> TRUE]
        PROVE  container \in [image : Content, up : BOOLEAN] /\ container.image \in Runnable
    BY <2>2, DeployVersions DEF Content
  <2> QED
    BY <2>1, <2>2 DEF ToolInit
<1>5. ToolShape
  <2>1. tree \in Versions /\ tarball \in Content /\ shipped \in Content
    BY DEF ToolInit, Content
  <2>2. deployLock \in Runs \cup {Nothing} /\ last \in Runs \cup {Nothing}
    BY DEF ToolInit
  <2>3. toolTrouble \in 0..MaxToolTrouble
    BY TroubleBound DEF ToolInit
  <2> QED
    BY <1>3, <1>4, <2>1, <2>2, <2>3 DEF ToolShape
<1>6. LockExcludes
  BY <1>1, <1>2, NothingAssumption DEF ToolInit, LockExcludes
<1> QED
  BY <1>5, <1>6 DEF ToolInit, ToolInv, Quiet

(* The run r moves on to y, holding the lock.                                 *)
LEMMA RunContinues ==
  ASSUME ToolInv, NEW r \in Runs, NEW y \in ToolRuns, run' = [run EXCEPT ![r] = y],
         deployLock = r \/ deployLock = Nothing, deployLock' = r, UNCHANGED <<last, tree>>,
         tarball' \in Content, shipped' \in Content,
         container' \in [image : Content, up : BOOLEAN],
         container'.up => container'.image \in Runnable,
         toolTrouble' \in 0..MaxToolTrouble,
         last = r => run[r].pc # "ended",
         y.pc \notin {"idle", "ended"},
         Brought(y, tarball', shipped', container')
  PROVE  ToolInv'
<1> USE DEF ToolInv
<1>1. /\ run' \in [Runs -> ToolRuns] /\ run'[r] = y
      /\ \A u \in Runs \ {r} : run'[u] = run[u]
  BY DEF ToolShape
<1>2. ToolShape'
  BY <1>1 DEF ToolShape
<1>3. last # r /\ last \in Runs \cup {Nothing}
  BY NothingAssumption DEF LockExcludes, ToolShape
<1>4. LockExcludes'
  BY <1>1, <1>3, NothingAssumption DEF LockExcludes
<1>5. deployLock' # Nothing
  BY NothingAssumption
<1> QED
  BY <1>1, <1>2, <1>4, <1>5 DEF Quiet

(* The run r, which holds the lock, ends as y.                                *)
LEMMA RunEnds ==
  ASSUME ToolInv, NEW r \in Runs, NEW y \in ToolRuns, run' = [run EXCEPT ![r] = y],
         deployLock = r, deployLock' = Nothing, last' = r,
         UNCHANGED <<tree, container>>,
         tarball' \in Content, shipped' \in Content, toolTrouble' \in 0..MaxToolTrouble,
         y.pc = "ended", Truthful(y, container)
  PROVE  ToolInv'
<1> USE DEF ToolInv
<1>1. /\ run' \in [Runs -> ToolRuns] /\ run'[r] = y
      /\ \A u \in Runs \ {r} : run'[u] = run[u]
  BY DEF ToolShape
<1>2. ToolShape'
  BY <1>1 DEF ToolShape
<1>3. LockExcludes'
  BY <1>1, NothingAssumption DEF LockExcludes
<1> QED
  BY <1>1, <1>2, <1>3 DEF Quiet

(* What the tool's assignments to the fields of a run make of it.             *)
GoesTo(x, to)   == [x EXCEPT !.pc = to]
Exits(x, how)   == [x EXCEPT !.pc = "cleanup", !.report = how]
Refused(x)      == [x EXCEPT !.pc = "ended", !.report = "refused"]
Packs(x, v)     == [x EXCEPT !.pc = "upload", !.packed = v]
Builds(x, v)    == [x EXCEPT !.pc = "inspect", !.image = v]
Finds(x, v, up) == [x EXCEPT !.pc = "clear", !.old = v, !.served = up]
Sticks(x)       == [x EXCEPT !.pc = "cleanup", !.report = "failed", !.sound = FALSE]
CutOff(x)       == [x EXCEPT !.linked = FALSE, !.sound = FALSE]
Dies(x)         == [x EXCEPT !.pc = "ended", !.report = "failed", !.sound = FALSE]

LEMMA MovedRun ==
  ASSUME NEW x \in ToolRuns, NEW to \in Steps
  PROVE  LET y == GoesTo(x, to) IN
         /\ y \in ToolRuns /\ y.pc = to /\ y.packed = x.packed /\ y.image = x.image
         /\ y.old = x.old /\ y.served = x.served /\ y.sound = x.sound
         /\ y.linked = x.linked /\ y.report = x.report
  BY DEF ToolRuns, GoesTo

LEMMA ExitedRun ==
  ASSUME NEW x \in ToolRuns, NEW how \in Reports
  PROVE  LET y == Exits(x, how) IN
         /\ y \in ToolRuns /\ y.pc = "cleanup" /\ y.packed = x.packed
         /\ y.old = x.old /\ y.served = x.served /\ y.sound = x.sound
         /\ y.linked = x.linked /\ y.report = how
  BY DEF ToolRuns, Exits, Steps

LEMMA RefusedRun ==
  ASSUME NEW x \in ToolRuns
  PROVE  Refused(x) \in ToolRuns /\ Refused(x).pc = "ended"
  BY DEF ToolRuns, Refused, Steps, Reports

LEMMA PackedRun ==
  ASSUME NEW x \in ToolRuns, NEW v \in Content
  PROVE  LET y == Packs(x, v) IN
         /\ y \in ToolRuns /\ y.pc = "upload" /\ y.packed = v
         /\ y.old = x.old /\ y.served = x.served /\ y.sound = x.sound
         /\ y.linked = x.linked /\ y.report = x.report
  BY DEF ToolRuns, Packs, Steps

LEMMA BuiltRun ==
  ASSUME NEW x \in ToolRuns, NEW v \in Content
  PROVE  LET y == Builds(x, v) IN
         /\ y \in ToolRuns /\ y.pc = "inspect" /\ y.packed = x.packed /\ y.image = v
         /\ y.old = x.old /\ y.served = x.served /\ y.sound = x.sound
         /\ y.linked = x.linked /\ y.report = x.report
  BY DEF ToolRuns, Builds, Steps

LEMMA FoundRun ==
  ASSUME NEW x \in ToolRuns, NEW v \in Content, NEW up \in BOOLEAN
  PROVE  LET y == Finds(x, v, up) IN
         /\ y \in ToolRuns /\ y.pc = "clear" /\ y.packed = x.packed /\ y.image = x.image
         /\ y.old = v /\ y.served = up /\ y.sound = x.sound
         /\ y.linked = x.linked /\ y.report = x.report
  BY DEF ToolRuns, Finds, Steps

LEMMA StuckRun ==
  ASSUME NEW x \in ToolRuns
  PROVE  LET y == Sticks(x) IN
         /\ y \in ToolRuns /\ y.pc = "cleanup" /\ y.old = x.old /\ y.served = x.served
         /\ ~y.sound /\ y.report = "failed"
  BY DEF ToolRuns, Sticks, Steps, Reports

LEMMA CutRun ==
  ASSUME NEW x \in ToolRuns
  PROVE  LET y == CutOff(x) IN
         /\ y \in ToolRuns /\ y.pc = x.pc /\ y.packed = x.packed /\ y.image = x.image
         /\ y.old = x.old /\ y.served = x.served /\ ~y.sound
         /\ ~y.linked /\ y.report = x.report
  BY DEF ToolRuns, CutOff

LEMMA DeadRun ==
  ASSUME NEW x \in ToolRuns
  PROVE  LET y == Dies(x) IN
         /\ y \in ToolRuns /\ y.pc = "ended" /\ ~y.sound /\ y.report = "failed"
  BY DEF ToolRuns, Dies, Steps, Reports

(* docker run of the image v, the name being free.                            *)
LEMMA NewContainer ==
  ASSUME NEW v \in Content, NEW c, c = [image |-> v, up |-> v \in Runnable]
  PROVE  /\ c \in [image : Content, up : BOOLEAN] /\ (c.up => c.image \in Runnable)
         /\ v \in Runnable => c = [image |-> v, up |-> TRUE]
<1>1. ASSUME NEW up \in BOOLEAN
      PROVE  /\ [image |-> v, up |-> up] \in [image : Content, up : BOOLEAN]
             /\ [image |-> v, up |-> up].image = v /\ [image |-> v, up |-> up].up = up
  OBVIOUS
<1>2. CASE v \in Runnable
  <2>1. c = [image |-> v, up |-> TRUE]
    BY Zenon, <1>2
  <2> QED
    BY Zenon, <1>1, <1>2, <2>1
<1>3. CASE v \notin Runnable
  <2>1. (v \in Runnable) = FALSE
    BY <1>3
  <2>2. [image |-> v, up |-> v \in Runnable] = [image |-> v, up |-> FALSE]
    BY Zenon, <2>1
  <2>3. c \in [image : Content, up : BOOLEAN] /\ ~c.up
    BY Zenon, <1>1, <2>2
  <2> QED
    BY Zenon, <1>3, <2>3
<1> QED
  BY <1>2, <1>3

(* A run under way holds the lock.                                            *)
LEMMA RunHolds ==
  ASSUME ToolInv, NEW r \in Runs, run[r].pc \notin {"idle", "ended"}
  PROVE  /\ deployLock = r /\ run[r] \in ToolRuns /\ last # r
         /\ Brought(run[r], tarball, shipped, container)
<1>1. deployLock = r /\ r # Nothing
  BY NothingAssumption DEF ToolInv, LockExcludes
<1>2. run[r] \in ToolRuns
  BY DEF ToolInv, ToolShape
<1>3. last # r
  BY <1>1 DEF ToolInv, LockExcludes
<1> QED
  BY <1>1, <1>2, <1>3 DEF ToolInv

(* The new image could not be started, or did not answer.                     *)
LEMMA GivesUp ==
  ASSUME ToolInv, NEW r \in Runs, run[r].pc \in {"start", "gate"}, GiveUpNew(r),
         UNCHANGED <<tree, deployLock, tarball, shipped, last>>,
         container' \in [image : Content, up : BOOLEAN],
         container'.up => container'.image \in Runnable,
         toolTrouble' \in 0..MaxToolTrouble
  PROVE  ToolInv'
<1> DEFINE x == run[r]
<1>1. /\ deployLock = r /\ x \in ToolRuns /\ last # r /\ x.pc \in {"start", "gate"}
      /\ Brought(x, tarball, shipped, container)
  BY RunHolds
<1>2. tarball \in Content /\ shipped \in Content
  BY DEF ToolInv, ToolShape
<1>3. CASE x.old # Nothing
  <2> DEFINE y == GoesTo(x, "back")
  <2>1. run' = [run EXCEPT ![r] = y]
    BY <1>3 DEF GiveUpNew, Go, GoesTo
  <2>2. /\ y \in ToolRuns /\ y.pc = "back" /\ y.packed = x.packed /\ y.image = x.image
        /\ y.old = x.old /\ y.served = x.served /\ y.sound = x.sound
        /\ y.linked = x.linked /\ y.report = x.report
    BY <1>1, MovedRun DEF Steps
  <2> HIDE DEF x, y
  <2>3. Brought(y, tarball', shipped', container')
    BY <1>1, <1>3, <2>2 DEF Brought
  <2> QED
    BY <1>1, <1>2, <2>1, <2>2, <2>3, RunContinues
<1>4. CASE x.old = Nothing
  <2> DEFINE y == Exits(x, "failed")
  <2>1. run' = [run EXCEPT ![r] = y]
    BY <1>4 DEF GiveUpNew, Exit, Exits
  <2>2. /\ y \in ToolRuns /\ y.pc = "cleanup" /\ y.packed = x.packed
        /\ y.old = x.old /\ y.served = x.served /\ y.sound = x.sound
        /\ y.linked = x.linked /\ y.report = "failed"
    BY <1>1, ExitedRun DEF Reports
  <2> HIDE DEF x, y
  <2>3. ~x.served
    BY <1>1, <1>4, NothingAssumption, DeployVersions DEF Brought
  <2>4. Brought(y, tarball', shipped', container')
    BY <1>1, <2>2, <2>3 DEF Brought, Truthful
  <2> QED
    BY <1>1, <1>2, <2>1, <2>2, <2>4, RunContinues
<1> QED
  BY <1>3, <1>4

(* Removing the container: it goes, or it sticks and the run is over.         *)
LEMMA RemovesKeeps ==
  ASSUME ToolInv, NEW r \in Runs, NEW next \in {"start", "restart"}, Removes(r, next),
         run[r].pc = IF next = "start" THEN "clear" ELSE "back",
         UNCHANGED <<tree, deployLock, tarball, shipped, last>>
  PROVE  ToolInv'
<1> DEFINE x == run[r]
<1>1. /\ deployLock = r /\ x \in ToolRuns /\ last # r
      /\ Brought(x, tarball, shipped, container)
  BY RunHolds
<1>2. /\ tarball \in Content /\ shipped \in Content /\ toolTrouble \in 0..MaxToolTrouble
      /\ container \in [image : Content, up : BOOLEAN]
  BY DEF ToolInv, ToolShape
<1>3. CASE container' = Absent /\ Go(r, next) /\ UNCHANGED toolTrouble
  <2> DEFINE y == GoesTo(x, next)
  <2>1. run' = [run EXCEPT ![r] = y]
    BY <1>3 DEF Go, GoesTo
  <2>2. /\ y \in ToolRuns /\ y.pc = next /\ y.packed = x.packed /\ y.image = x.image
        /\ y.old = x.old /\ y.served = x.served /\ y.sound = x.sound
        /\ y.linked = x.linked /\ y.report = x.report
    BY <1>1, MovedRun DEF Steps
  <2>3. /\ container' \in [image : Content, up : BOOLEAN]
        /\ container'.up => container'.image \in Runnable
    BY <1>3 DEF Absent, Content
  <2>4. x.pc = IF next = "start" THEN "clear" ELSE "back"
    OBVIOUS
  <2> HIDE DEF x, y
  <2>5. Brought(y, tarball', shipped', container')
    BY <1>1, <1>3, <2>2, <2>4 DEF Brought
  <2> QED
    BY <1>1, <1>2, <1>3, <2>1, <2>2, <2>3, <2>5, RunContinues
<1>4. CASE Spoils /\ container' = [container EXCEPT !.up = FALSE] /\ run' = [run EXCEPT ![r] = Sticks(x)]
  <2> DEFINE y == Sticks(x)
  <2>1. run' = [run EXCEPT ![r] = y]
    BY <1>4
  <2>2. /\ y \in ToolRuns /\ y.pc = "cleanup" /\ y.old = x.old /\ y.served = x.served
        /\ ~y.sound /\ y.report = "failed"
    BY <1>1, StuckRun
  <2>3. /\ container' \in [image : Content, up : BOOLEAN] /\ ~container'.up
    BY <1>2, <1>4
  <2>4. toolTrouble' \in 0..MaxToolTrouble
    BY <1>2, <1>4, TroubleBound DEF Spoils
  <2> HIDE DEF x, y
  <2>5. Brought(y, tarball', shipped', container')
    BY <1>1, <2>2 DEF Brought, Truthful
  <2> QED
    BY <1>1, <1>2, <2>1, <2>2, <2>3, <2>4, <2>5, RunContinues
<1> QED
  BY <1>3, <1>4 DEF Removes, Sticks

LEMMA ToolStep == ToolInv /\ [ToolNext]_toolVars => ToolInv'
<1> SUFFICES ASSUME ToolInv, [ToolNext]_toolVars PROVE ToolInv'
  OBVIOUS
<1>0. /\ tree \in Content /\ tarball \in Content /\ shipped \in Content /\ Nothing \in Content
      /\ toolTrouble \in 0..MaxToolTrouble
      /\ container \in [image : Content, up : BOOLEAN]
      /\ (container.up => container.image \in Runnable)
      /\ \A r \in Runs : run[r] \in ToolRuns
  BY DEF ToolInv, ToolShape, Content
<1>1. CASE ChangeTree
  BY <1>1 DEF ChangeTree, ToolInv, ToolShape, LockExcludes, Quiet
<1>2. ASSUME NEW r \in Runs, LockOrRefuse(r) PROVE ToolInv'
  <2> DEFINE x == run[r]
  <2>1. /\ x = NewRun /\ x.pc = "idle" /\ deployLock # r /\ x \in ToolRuns
        /\ last = r => x.pc # "ended"
        /\ UNCHANGED <<tree, tarball, shipped, container, toolTrouble, last>>
    BY <1>0, <1>2 DEF LockOrRefuse, At, ToolInv, LockExcludes
  <2>2. CASE deployLock = Nothing
    <3> DEFINE y == GoesTo(x, "pack")
    <3>1. run' = [run EXCEPT ![r] = y] /\ deployLock' = r
      BY <1>2, <2>2 DEF LockOrRefuse, LockFreeToTake, Go, GoesTo
    <3>2. /\ y \in ToolRuns /\ y.pc = "pack" /\ y.served = x.served /\ y.sound = x.sound
          /\ y.linked = x.linked /\ y.report = x.report
      BY <2>1, MovedRun DEF Steps
    <3>3. ~x.served /\ x.linked /\ x.report = "none"
      BY <2>1 DEF NewRun
    <3> HIDE DEF x, y
    <3>4. Brought(y, tarball', shipped', container')
      BY <3>2, <3>3 DEF Brought
    <3>5. last = r => run[r].pc # "ended"
      BY <2>1 DEF x
    <3> QED
      BY <1>0, <2>1, <2>2, <3>1, <3>2, <3>4, <3>5, RunContinues
  <2>3. CASE deployLock # Nothing
    <3> DEFINE y == Refused(x)
    <3>1. run' = [run EXCEPT ![r] = y] /\ UNCHANGED deployLock
      BY <1>2, <2>3 DEF LockOrRefuse, LockFreeToTake, Refused
    <3>2. y \in ToolRuns /\ y.pc = "ended"
      BY <2>1, RefusedRun
    <3> HIDE DEF y
    <3>3. /\ run' \in [Runs -> ToolRuns] /\ run'[r] = y
          /\ \A u \in Runs \ {r} : run'[u] = run[u]
      BY <3>1, <3>2 DEF ToolInv, ToolShape
    <3>4. ToolShape'
      BY <2>1, <3>1, <3>3 DEF ToolInv, ToolShape
    <3>5. LockExcludes'
      BY <2>1, <3>1, <3>2, <3>3 DEF ToolInv, ToolShape, LockExcludes
    <3>6. deployLock \in Runs \ {r}
      BY <2>1, <2>3 DEF ToolInv, ToolShape
    <3> QED
      BY <2>1, <3>1, <3>3, <3>4, <3>5, <3>6, <2>3 DEF ToolInv, Quiet
  <2> QED
    BY <2>2, <2>3
<1>3. ASSUME NEW r \in Runs, Pack(r) PROVE ToolInv'
  <2> DEFINE x == run[r]
             y == Packs(x, tree)
  <2>1. /\ x.pc = "pack"
        /\ tarball' = tree /\ UNCHANGED <<tree, deployLock, shipped, container, toolTrouble, last>>
    BY <1>3 DEF Pack, At
  <2>2. /\ deployLock = r /\ x \in ToolRuns /\ last # r
        /\ Brought(x, tarball, shipped, container)
    BY <2>1, RunHolds
  <2>3. run' = [run EXCEPT ![r] = y]
    BY <1>3 DEF Pack, Packs
  <2>4. /\ y \in ToolRuns /\ y.pc = "upload" /\ y.packed = tree
        /\ y.old = x.old /\ y.served = x.served /\ y.sound = x.sound
        /\ y.linked = x.linked /\ y.report = x.report
    BY <1>0, <2>2, PackedRun
  <2> HIDE DEF x, y
  <2>5. Brought(y, tarball', shipped', container')
    BY <2>1, <2>2, <2>4 DEF Brought, Truthful
  <2> QED
    BY <1>0, <2>1, <2>2, <2>3, <2>4, <2>5, RunContinues
<1>4. ASSUME NEW r \in Runs, Upload(r) PROVE ToolInv'
  <2> DEFINE x == run[r]
             y == GoesTo(x, "build")
  <2>1. /\ x.pc = "upload"
        /\ shipped' = tarball /\ UNCHANGED <<tree, deployLock, tarball, container, toolTrouble, last>>
    BY <1>4 DEF Upload, At
  <2>2. /\ deployLock = r /\ x \in ToolRuns /\ last # r
        /\ Brought(x, tarball, shipped, container)
    BY <2>1, RunHolds
  <2>3. run' = [run EXCEPT ![r] = y]
    BY <1>4 DEF Upload, Go, GoesTo
  <2>4. /\ y \in ToolRuns /\ y.pc = "build" /\ y.packed = x.packed /\ y.image = x.image
        /\ y.old = x.old /\ y.served = x.served /\ y.sound = x.sound
        /\ y.linked = x.linked /\ y.report = x.report
    BY <1>0, <2>2, MovedRun DEF Steps
  <2> HIDE DEF x, y
  <2>5. Brought(y, tarball', shipped', container')
    BY <2>1, <2>2, <2>4 DEF Brought, Truthful
  <2> QED
    BY <1>0, <2>1, <2>2, <2>3, <2>4, <2>5, RunContinues
<1>5. ASSUME NEW r \in Runs, Build(r) PROVE ToolInv'
  <2> DEFINE x == run[r]
  <2>1. /\ x.pc = "build"
        /\ UNCHANGED <<tree, deployLock, tarball, shipped, container, last>>
        /\ toolTrouble' \in 0..MaxToolTrouble
    BY <1>0, <1>5, TroubleBound DEF Build, At, Spoils
  <2>2. /\ deployLock = r /\ x \in ToolRuns /\ last # r
        /\ Brought(x, tarball, shipped, container)
    BY <2>1, RunHolds
  <2>3. ASSUME NEW y \in ToolRuns, run' = [run EXCEPT ![r] = y],
               y.served = x.served, y.sound = x.sound, y.linked = x.linked, y.old = x.old,
               \/ y.pc = "inspect" /\ y.image = shipped /\ y.packed = x.packed
                                   /\ y.report = x.report
               \/ y.pc = "cleanup" /\ y.report = "failed"
        PROVE  ToolInv'
    <3> HIDE DEF x
    <3>1. Brought(y, tarball', shipped', container')
      BY <2>1, <2>2, <2>3 DEF Brought, Truthful
    <3>2. y.pc \notin {"idle", "ended"}
      BY <2>3
    <3> QED
      BY <1>0, <2>1, <2>2, <2>3, <3>1, <3>2, RunContinues
  <2>4. CASE run' = [run EXCEPT ![r] = Builds(x, shipped)]
    <3> DEFINE y == Builds(x, shipped)
    <3>1. /\ y \in ToolRuns /\ y.pc = "inspect" /\ y.packed = x.packed /\ y.image = shipped
          /\ y.old = x.old /\ y.served = x.served /\ y.sound = x.sound
          /\ y.linked = x.linked /\ y.report = x.report
      BY <1>0, <2>2, BuiltRun
    <3> HIDE DEF y
    <3> QED
      BY <2>3, <2>4, <3>1 DEF y
  <2>5. CASE run' = [run EXCEPT ![r] = Exits(x, "failed")]
    <3> DEFINE y == Exits(x, "failed")
    <3>1. /\ y \in ToolRuns /\ y.pc = "cleanup"
          /\ y.old = x.old /\ y.served = x.served /\ y.sound = x.sound
          /\ y.linked = x.linked /\ y.report = "failed"
      BY <2>2, ExitedRun DEF Reports
    <3> HIDE DEF y
    <3> QED
      BY <2>3, <2>5, <3>1 DEF y
  <2> QED
    BY <1>5, <2>4, <2>5 DEF Build, Builds, Exit, Exits
<1>6. ASSUME NEW r \in Runs, Inspect(r) PROVE ToolInv'
  <2> DEFINE x == run[r]
             y == Finds(x, container.image, container.up)
  <2>1. /\ x.pc = "inspect"
        /\ UNCHANGED <<tree, deployLock, tarball, shipped, container, toolTrouble, last>>
    BY <1>6 DEF Inspect, At
  <2>2. /\ deployLock = r /\ x \in ToolRuns /\ last # r
        /\ Brought(x, tarball, shipped, container)
    BY <2>1, RunHolds
  <2>3. run' = [run EXCEPT ![r] = y]
    BY <1>6 DEF Inspect, Finds
  <2>4. /\ y \in ToolRuns /\ y.pc = "clear" /\ y.packed = x.packed /\ y.image = x.image
        /\ y.old = container.image /\ y.served = container.up /\ y.sound = x.sound
        /\ y.linked = x.linked /\ y.report = x.report
    <3>1. container.image \in Content /\ container.up \in BOOLEAN
      BY <1>0
    <3> QED
      BY <2>2, <3>1, FoundRun
  <2> HIDE DEF x, y
  <2>5. Brought(y, tarball', shipped', container')
    BY <1>0, <2>1, <2>2, <2>4 DEF Brought, Truthful
  <2> QED
    BY <1>0, <2>1, <2>2, <2>3, <2>4, <2>5, RunContinues
<1>7. ASSUME NEW r \in Runs, StopAndRemove(r) PROVE ToolInv'
  BY <1>7, RemovesKeeps DEF StopAndRemove, At
<1>8. ASSUME NEW r \in Runs, RollBackClears(r) PROVE ToolInv'
  BY <1>8, RemovesKeeps DEF RollBackClears, At
<1>9. ASSUME NEW r \in Runs, StartNew(r) PROVE ToolInv'
  <2> DEFINE x == run[r]
  <2>1. /\ x.pc = "start"
        /\ UNCHANGED <<tree, deployLock, tarball, shipped, toolTrouble, last>>
    BY <1>9 DEF StartNew, At
  <2>2. /\ deployLock = r /\ x \in ToolRuns /\ last # r
        /\ Brought(x, tarball, shipped, container)
    BY <2>1, RunHolds
  <2>3. /\ container' \in [image : Content, up : BOOLEAN]
        /\ container'.up => container'.image \in Runnable
        /\ x.linked => container' = [image |-> x.image, up |-> x.image \in Runnable]
    <3>1. CASE x.linked
      <4>1. container.image = Nothing
        BY <2>1, <2>2, <3>1 DEF Brought, Absent
      <4>2. x.image \in Content /\ container' = [image |-> x.image, up |-> x.image \in Runnable]
        BY <1>9, <2>2, <3>1, <4>1 DEF StartNew, RunContainer, ToolRuns
      <4> QED
        BY <4>2, NewContainer
    <3>2. CASE ~x.linked
      BY <1>0, <1>9, <3>2 DEF StartNew
    <3> QED
      BY <3>1, <3>2
  <2>4. CASE x.linked /\ Started(x.image) /\ Go(r, "gate")
    <3> DEFINE y == GoesTo(x, "gate")
    <3>1. /\ y \in ToolRuns /\ y.pc = "gate" /\ y.packed = x.packed /\ y.image = x.image
          /\ y.old = x.old /\ y.served = x.served /\ y.sound = x.sound
          /\ y.linked = x.linked /\ y.report = x.report
      BY <2>2, MovedRun DEF Steps
    <3>2. run' = [run EXCEPT ![r] = y]
      BY <2>4 DEF Go, GoesTo
    <3>3. container' = [image |-> y.image, up |-> TRUE]
      BY <2>3, <2>4, <3>1 DEF Started
    <3> HIDE DEF x, y
    <3>4. Brought(y, tarball', shipped', container')
      BY <2>1, <2>2, <3>1, <3>3 DEF Brought, Truthful
    <3> QED
      BY <1>0, <2>1, <2>2, <2>3, <3>1, <3>2, <3>4, RunContinues
  <2>5. CASE GiveUpNew(r)
    BY <1>0, <2>1, <2>3, <2>5, GivesUp
  <2> QED
    BY <1>9, <2>4, <2>5 DEF StartNew
<1>10. ASSUME NEW r \in Runs, Gate(r) PROVE ToolInv'
  <2> DEFINE x == run[r]
  <2>1. /\ x.pc = "gate"
        /\ UNCHANGED <<tree, deployLock, tarball, shipped, container, last>>
        /\ toolTrouble' \in 0..MaxToolTrouble
    BY <1>0, <1>10, TroubleBound DEF Gate, At, Spoils
  <2>2. /\ deployLock = r /\ x \in ToolRuns /\ last # r
        /\ Brought(x, tarball, shipped, container)
    BY <2>1, RunHolds
  <2>3. CASE run' = [run EXCEPT ![r] = Exits(x, "ok")]
    <3> DEFINE y == Exits(x, "ok")
    <3>1. /\ y \in ToolRuns /\ y.pc = "cleanup" /\ y.packed = x.packed
          /\ y.old = x.old /\ y.served = x.served /\ y.sound = x.sound
          /\ y.linked = x.linked /\ y.report = "ok"
      BY <2>2, ExitedRun DEF Reports
    <3> HIDE DEF x, y
    <3>2. Brought(y, tarball', shipped', container')
      BY <2>1, <2>2, <2>3, <3>1 DEF Brought, Truthful
    <3>3. run' = [run EXCEPT ![r] = y]
      BY <2>3 DEF y
    <3> QED
      BY <1>0, <2>1, <2>2, <3>1, <3>2, <3>3, RunContinues
  <2>4. CASE GiveUpNew(r)
    BY <1>0, <2>1, <2>4, GivesUp
  <2> QED
    BY <1>10, <2>3, <2>4 DEF Gate, Exit, Exits
<1>11. ASSUME NEW r \in Runs, RollBackRuns(r) PROVE ToolInv'
  <2> DEFINE x == run[r]
  <2>1. /\ x.pc = "restart" /\ RunContainer(x.old)
        /\ UNCHANGED <<tree, deployLock, tarball, shipped, toolTrouble, last>>
    BY <1>11 DEF RollBackRuns, At
  <2>2. /\ deployLock = r /\ x \in ToolRuns /\ last # r
        /\ Brought(x, tarball, shipped, container)
    BY <2>1, RunHolds
  <2>3. /\ container.image = Nothing
        /\ container' = [image |-> x.old, up |-> x.old \in Runnable]
    BY <2>1, <2>2 DEF Brought, Absent, RunContainer
  <2>4. /\ container' \in [image : Content, up : BOOLEAN]
        /\ container'.up => container'.image \in Runnable
    <3>1. x.old \in Content
      BY <2>2 DEF ToolRuns
    <3> QED
      BY <2>3, <3>1, NewContainer
  <2>5. CASE Started(x.old) /\ Go(r, "regate")
    <3> DEFINE y == GoesTo(x, "regate")
    <3>1. /\ y \in ToolRuns /\ y.pc = "regate" /\ y.packed = x.packed /\ y.image = x.image
          /\ y.old = x.old /\ y.served = x.served /\ y.sound = x.sound
          /\ y.linked = x.linked /\ y.report = x.report
      BY <2>2, MovedRun DEF Steps
    <3>2. run' = [run EXCEPT ![r] = y]
      BY <2>5 DEF Go, GoesTo
    <3>3. container' = [image |-> y.old, up |-> TRUE]
      BY <2>3, <2>5, <3>1 DEF Started
    <3> HIDE DEF x, y
    <3>4. Brought(y, tarball', shipped', container')
      BY <2>1, <2>2, <3>1, <3>3 DEF Brought, Truthful
    <3> QED
      BY <1>0, <2>1, <2>2, <2>4, <3>1, <3>2, <3>4, RunContinues
  <2>6. CASE ~Started(x.old) /\ Exit(r, "failed")
    <3> DEFINE y == Exits(x, "failed")
    <3>1. /\ y \in ToolRuns /\ y.pc = "cleanup" /\ y.packed = x.packed
          /\ y.old = x.old /\ y.served = x.served /\ y.sound = x.sound
          /\ y.linked = x.linked /\ y.report = "failed"
      BY <2>2, ExitedRun DEF Reports
    <3>2. run' = [run EXCEPT ![r] = y]
      BY <2>6 DEF Exit, Exits
    <3>3. ~x.served
      BY <2>2, <2>3, <2>6 DEF Started, Brought
    <3> HIDE DEF x, y
    <3>4. Brought(y, tarball', shipped', container')
      BY <2>2, <3>1, <3>3 DEF Brought, Truthful
    <3> QED
      BY <1>0, <2>1, <2>2, <2>4, <3>1, <3>2, <3>4, RunContinues
  <2> QED
    BY <1>11, <2>5, <2>6 DEF RollBackRuns
<1>12. ASSUME NEW r \in Runs, RollBackGate(r) PROVE ToolInv'
  <2> DEFINE x == run[r]
  <2>1. /\ x.pc = "regate"
        /\ UNCHANGED <<tree, deployLock, tarball, shipped, container, last>>
        /\ toolTrouble' \in 0..MaxToolTrouble
    BY <1>0, <1>12, TroubleBound DEF RollBackGate, At, Spoils
  <2>2. /\ deployLock = r /\ x \in ToolRuns /\ last # r
        /\ Brought(x, tarball, shipped, container)
    BY <2>1, RunHolds
  <2>3. CASE run' = [run EXCEPT ![r] = Exits(x, "rolled_back")]
    <3> DEFINE y == Exits(x, "rolled_back")
    <3>1. /\ y \in ToolRuns /\ y.pc = "cleanup" /\ y.packed = x.packed
          /\ y.old = x.old /\ y.served = x.served /\ y.sound = x.sound
          /\ y.linked = x.linked /\ y.report = "rolled_back"
      BY <2>2, ExitedRun DEF Reports
    <3> HIDE DEF x, y
    <3>2. Brought(y, tarball', shipped', container')
      BY <2>1, <2>2, <2>3, <3>1 DEF Brought, Truthful
    <3>3. run' = [run EXCEPT ![r] = y]
      BY <2>3 DEF y
    <3> QED
      BY <1>0, <2>1, <2>2, <3>1, <3>2, <3>3, RunContinues
  <2>4. CASE run' = [run EXCEPT ![r] = Exits(x, "failed")]
    <3> DEFINE y == Exits(x, "failed")
    <3>1. /\ y \in ToolRuns /\ y.pc = "cleanup" /\ y.packed = x.packed
          /\ y.old = x.old /\ y.served = x.served /\ y.sound = x.sound
          /\ y.linked = x.linked /\ y.report = "failed"
      BY <2>2, ExitedRun DEF Reports
    <3> HIDE DEF x, y
    <3>2. Brought(y, tarball', shipped', container')
      BY <2>1, <2>2, <2>4, <3>1 DEF Brought, Truthful
    <3>3. run' = [run EXCEPT ![r] = y]
      BY <2>4 DEF y
    <3> QED
      BY <1>0, <2>1, <2>2, <3>1, <3>2, <3>3, RunContinues
  <2> QED
    BY <1>12, <2>3, <2>4 DEF RollBackGate, Exit, Exits
<1>13. ASSUME NEW r \in Runs, CleanUp(r) PROVE ToolInv'
  <2> DEFINE x == run[r]
             y == GoesTo(x, "ended")
  <2>1. x.pc = "cleanup" /\ tarball' = Nothing /\ shipped' \in {Nothing, shipped}
        /\ last' = r /\ UNCHANGED <<tree, container, toolTrouble>>
        /\ deployLock' = IF deployLock = r THEN Nothing ELSE deployLock
    BY <1>13 DEF CleanUp, At
  <2>2. /\ deployLock = r /\ x \in ToolRuns /\ last # r
        /\ Brought(x, tarball, shipped, container)
    BY <2>1, RunHolds
  <2>3. run' = [run EXCEPT ![r] = y]
    BY <1>13 DEF CleanUp, Go, GoesTo
  <2>4. /\ y \in ToolRuns /\ y.pc = "ended" /\ y.packed = x.packed /\ y.image = x.image
        /\ y.old = x.old /\ y.served = x.served /\ y.sound = x.sound
        /\ y.linked = x.linked /\ y.report = x.report
    BY <2>2, MovedRun DEF Steps
  <2> HIDE DEF x, y
  <2>5. Truthful(y, container)
    BY <2>1, <2>2, <2>4 DEF Brought, Truthful
  <2> QED
    BY <1>0, <2>1, <2>2, <2>3, <2>4, <2>5, RunEnds
<1>14. ASSUME NEW r \in Runs, LinkBreaks(r) PROVE ToolInv'
  <2> DEFINE x == run[r]
             y == CutOff(x)
  <2>1. /\ x.pc \notin {"idle", "cleanup", "ended"}
        /\ UNCHANGED <<tree, deployLock, tarball, shipped, last>>
        /\ toolTrouble' \in 0..MaxToolTrouble
        /\ \/ container' = container
           \/ x.pc = "start" /\ RunContainer(x.image)
    BY <1>0, <1>14, TroubleBound DEF LinkBreaks, At, Spoils
  <2>2. /\ deployLock = r /\ x \in ToolRuns /\ last # r
        /\ Brought(x, tarball, shipped, container)
    BY <2>1, RunHolds
  <2>3. run' = [run EXCEPT ![r] = y]
    BY <1>14 DEF LinkBreaks, CutOff
  <2>4. /\ y \in ToolRuns /\ y.pc = x.pc /\ y.packed = x.packed /\ y.image = x.image
        /\ y.old = x.old /\ y.served = x.served /\ ~y.sound
        /\ ~y.linked /\ y.report = x.report
    BY <2>2, CutRun
  <2>5. /\ container' \in [image : Content, up : BOOLEAN]
        /\ container'.up => container'.image \in Runnable
    <3>1. CASE container' = container
      BY <1>0, <3>1
    <3>2. CASE container' = [image |-> x.image, up |-> x.image \in Runnable]
      <4>1. x.image \in Content
        BY <2>2 DEF ToolRuns
      <4> QED
        BY <3>2, <4>1, NewContainer
    <3> QED
      BY <2>1, <3>1, <3>2 DEF RunContainer
  <2> HIDE DEF x, y
  <2>6. Brought(y, tarball', shipped', container')
    <3>1. CASE container' = container
      BY <2>1, <2>2, <2>4, <3>1 DEF Brought
    <3>2. CASE x.pc = "start"
      BY <2>1, <2>2, <2>4, <3>2 DEF Brought
    <3> QED
      BY <2>1, <3>1, <3>2
  <2> QED
    BY <1>0, <2>1, <2>2, <2>3, <2>4, <2>5, <2>6, RunContinues
<1>15. ASSUME NEW r \in Runs, Raises(r) PROVE ToolInv'
  <2> DEFINE x == run[r]
  <2>1. /\ ~x.linked /\ x.pc \notin {"idle", "ended"}
        /\ UNCHANGED <<tree, deployLock, tarball, shipped, container, toolTrouble, last>>
    BY <1>15 DEF Raises
  <2>2. /\ deployLock = r /\ x \in ToolRuns /\ last # r
        /\ Brought(x, tarball, shipped, container)
    BY <2>1, RunHolds
  <2>3. CASE run' = [run EXCEPT ![r] = Exits(x, "failed")]
    <3> DEFINE y == Exits(x, "failed")
    <3>1. /\ y \in ToolRuns /\ y.pc = "cleanup" /\ y.packed = x.packed
          /\ y.old = x.old /\ y.served = x.served /\ y.sound = x.sound
          /\ y.linked = x.linked /\ y.report = "failed"
      BY <2>2, ExitedRun DEF Reports
    <3> HIDE DEF x, y
    <3>2. Brought(y, tarball', shipped', container')
      BY <2>1, <2>2, <2>3, <3>1 DEF Brought, Truthful
    <3>3. run' = [run EXCEPT ![r] = y]
      BY <2>3 DEF y
    <3> QED
      BY <1>0, <2>1, <2>2, <3>1, <3>2, <3>3, RunContinues
  <2> QED
    BY <1>15, <2>3 DEF Raises, Exit, Exits
<1>16. ASSUME NEW r \in Runs, Killed(r) PROVE ToolInv'
  <2> DEFINE x == run[r]
             y == Dies(x)
  <2>1. /\ x.pc \notin {"idle", "ended"} /\ last' = r
        /\ UNCHANGED <<tree, tarball, shipped, container>>
        /\ deployLock' = IF deployLock = r THEN Nothing ELSE deployLock
        /\ toolTrouble' \in 0..MaxToolTrouble
    BY <1>0, <1>16, TroubleBound DEF Killed, Spoils
  <2>2. /\ deployLock = r /\ x \in ToolRuns /\ last # r
        /\ Brought(x, tarball, shipped, container)
    BY <2>1, RunHolds
  <2>3. run' = [run EXCEPT ![r] = y]
    BY <1>16 DEF Killed, Dies
  <2>4. y \in ToolRuns /\ y.pc = "ended" /\ ~y.sound /\ y.report = "failed"
    BY <2>2, DeadRun
  <2> HIDE DEF x, y
  <2>5. Truthful(y, container)
    BY <2>4 DEF Truthful
  <2> QED
    BY <1>0, <2>1, <2>2, <2>3, <2>4, <2>5, RunEnds
<1>17. CASE UNCHANGED toolVars
  BY <1>17 DEF toolVars, ToolInv, ToolShape, LockExcludes, Quiet
<1> QED
  BY <1>1, <1>2, <1>3, <1>4, <1>5, <1>6, <1>7, <1>8, <1>9, <1>10, <1>11, <1>12, <1>13,
     <1>14, <1>15, <1>16, <1>17 DEF ToolNext

(* Theorem: what the deploy tool reported last is so, with any number of runs *)
(* started side by side, broken connections, docker failures and kills: DEPLOY*)
(* _OK names the image that serves, ROLLED_BACK the one it found, and a run   *)
(* in which nothing was lost leaves no port dark that it found served.        *)
THEOREM LastReportIsTrue == ToolSpec => []ReportIsTrue
<1>1. ToolInv => ReportIsTrue
  BY DEF ToolInv, Truthful, ReportIsTrue
<1> QED
  BY <1>1, ToolInitially, ToolStep, PTL DEF ToolSpec

-----------------------------------------------------------------------------
(* A behaviour of the whole is one of each part: a part's steps leave the    *)
(* variables of the others alone.                                            *)
LEMMA ChangesParts ==
  /\ ChangesSpec => Spec
  /\ ChangesSpec => EnvSpec
  /\ ChangesSpec => PowerSpec
  /\ ChangesSpec => ToolSpec
  /\ ChangesSpec => DownloadSpec
  /\ ChangesSpec => CatSpec
  /\ ChangesSpec => FileSpec
  /\ ChangesSpec => LogSpec
<1>1. ChangesInit => /\ Init /\ EnvInit /\ PowerInit /\ ToolInit
                     /\ DownloadInit /\ CatInit /\ FileInit /\ LogInit
  BY DEF ChangesInit
<1>2. [ChangesNext]_changesVars => /\ [Next]_vars
                                   /\ [EnvNext]_envVars
                                   /\ [PowerNext]_powerVars
                                   /\ [ToolNext]_toolVars
                                   /\ [DownloadNext]_dlVars
                                   /\ [CatNext]_catVars
                                   /\ [FileNext]_fileVars
                                   /\ [LogNext]_logVars
  BY DEF ChangesNext, HostNext, FilesNext, changesVars, hostVars, filesVars
<1> QED
  BY <1>1, <1>2, PTL DEF ChangesSpec, Spec, EnvSpec, PowerSpec, ToolSpec, DownloadSpec, CatSpec,
                         FileSpec, LogSpec

(* Theorem: the state of every part keeps its shape, whichever part moves.   *)
THEOREM ChangesTypes == ChangesSpec => []ChangesTypeOK
<1>1. ToolSpec => []ToolTypeOK
  <2>1. ToolInv => ToolTypeOK
    BY ToolTyped DEF ToolInv
  <2> QED
    BY <2>1, ToolInitially, ToolStep, PTL DEF ToolSpec
<1>2. DownloadSpec => []DownloadTypeOK
  <2>1. DownloadInv => DownloadTypeOK
    BY DEF DownloadInv
  <2> QED
    BY <2>1, DownloadInitially, DownloadStep, PTL DEF DownloadSpec
<1>3. CatSpec => []CatTypeOK
  <2>1. CatInv => CatTypeOK
    BY CatTyped DEF CatInv
  <2> QED
    BY <2>1, CatInitially, CatStep, PTL DEF CatSpec
<1>4. TypeOK /\ EnvTypeOK /\ PowerTypeOK /\ ToolTypeOK /\ DownloadTypeOK /\ CatTypeOK
        /\ FileTypeOK /\ LogTypeOK => ChangesTypeOK
  BY DEF ChangesTypeOK
<1> QED
  BY <1>1, <1>2, <1>3, <1>4, ChangesParts, DeployTypes, EnvTypes, PowerTypes, ConfigurationsFound,
     NoOldLineCounted, PTL

(* Theorem: what is proved of the parts holds of the whole: of deployment    *)
(* tasks, the driver's self-heal, a confirmed power-on, the deploy tool's    *)
(* report, the status of downloads, the catalog, launch configurations and   *)
(* the access log's panel.                                                   *)
THEOREM ChangesSafe ==
  ChangesSpec => /\ [](ClaimsHeld /\ JobsFollowTasks)
                 /\ FollowsLife /\ StalledIsQuiet
                 /\ [](HealsPurged /\ ConfirmedIsOn /\ ReportIsTrue)
                 /\ [](NoGhosts /\ ConfigsFound /\ SessionExact)
<1> QED
  BY ChangesParts, OneClaimPerDomain, NoJobLeftBehind, TasksFollowLife, HealRestores,
     ConfirmedStaysOn, LastReportIsTrue, StalledDownloadsAreQuiet, NoGhostsLeft,
     ConfigurationsFound, NoOldLineCounted, PTL
=============================================================================
