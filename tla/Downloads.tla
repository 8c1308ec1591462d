------------------------------ MODULE Downloads ------------------------------
(* backend/service/model_downloads.py, model_download_status.py and the      *)
(* download half of executor/remote/model_ops.py: downloads are processes on *)
(* the server that outlive the dashboard, found again by pid file and by     *)
(* grep; a status query judges one by its log, its process and its bytes.    *)
(* The queries of one log file exclude each other (StatusBursts!BurstShared),*)
(* so computing a status is one action.                                      *)
EXTENDS Naturals

CONSTANTS Repos,     \* repositories
          Matches,  \* <<r, s>>: grep -F of r's name finds s's processes
          Asked,     \* the repository whose status is polled
          MaxBytes,  \* bound: how often the bytes of a download grow
          MaxStarts  \* bound: download requests

ASSUME DownloadBounds == {MaxBytes, MaxStarts} \subseteq Nat
ASSUME DownloadConstants == Asked \in Repos
ASSUME MatchesAssumption == /\ Matches \in SUBSET (Repos \X Repos)
                             /\ \A r \in Repos : <<r, r>> \in Matches

VARIABLES
  procs,    \* the live downloads of each repository: their pids
  launches,   \* remote shells that found no download and are about to start one
  pidFile,  \* Asked: the pid file its last launch wrote
  log,      \* Asked: what the tail of its log says
  bytes,    \* Asked: bytes on disk
  quiet,    \* Asked: no byte arrived for longer than the stall threshold
  starts,   \* bound: download requests so far
  growth,   \* _dl_growth: pid and bytes last seen growing, and if that is old
  verdict   \* the status last computed, and whether its bytes were measured

remoteSide == <<procs, launches, pidFile, log, bytes, quiet, starts>>
dlVars == <<remoteSide, growth, verdict>>

Pids     == 1..MaxStarts
Unseen   == [pid |-> 0, bytes |-> 0, old |-> FALSE]
Verdicts == {"none", "unknown", "not_found", "downloading", "stalled", "complete",
             "failed", "stopped"}

DownloadTypeOK ==
  /\ procs \in [Repos -> SUBSET Pids]
  /\ launches \in [Repos -> SUBSET Pids]
  /\ pidFile \in 0..MaxStarts
  /\ log \in {"absent", "partial", "snapshot", "error"}
  /\ bytes \in 0..MaxBytes /\ quiet \in BOOLEAN
  /\ starts \in 0..MaxStarts
  /\ growth \in [pid : 0..MaxStarts, bytes : 0..MaxBytes, old : BOOLEAN]
  /\ verdict \in [status : Verdicts, measured : BOOLEAN]

DownloadInit ==
  /\ procs = [r \in Repos |-> {}] /\ launches = procs
  /\ pidFile = 0 /\ log = "absent" /\ bytes = 0 /\ quiet = FALSE
  /\ starts = 0 /\ growth = Unseen
  /\ verdict = [status |-> "none", measured |-> FALSE]

-----------------------------------------------------------------------------
(* What ps | grep finds for a repository.                                    *)
Found(r) == UNION {procs[s] : s \in {x \in Repos : <<r, x>> \in Matches}}

(* download_model: the service's probe finds nothing, and neither does the   *)
(* one the remote shell makes just before it launches.                       *)
DownloadModel(r) ==
  /\ Found(r) = {}
  /\ starts < MaxStarts
  /\ starts' = starts + 1
  /\ launches' = [launches EXCEPT ![r] = @ \cup {starts + 1}]
  /\ UNCHANGED <<procs, pidFile, log, bytes, quiet, growth, verdict>>

(* The nohup of that shell: the log is truncated.  A second writer (the two  *)
(* shells raced) does not make a quiet download less quiet.                  *)
LaunchDownload(r, p) ==
  /\ p \in launches[r]
  /\ launches' = [launches EXCEPT ![r] = @ \ {p}]
  /\ procs' = [procs EXCEPT ![r] = @ \cup {p}]
  /\ IF r = Asked
     THEN pidFile' = p /\ log' = "partial" /\ quiet' = (quiet /\ procs[r] # {})
     ELSE UNCHANGED <<pidFile, log, quiet>>
  /\ UNCHANGED <<bytes, starts, growth, verdict>>

Grow ==
  /\ procs[Asked] # {}
  /\ bytes < MaxBytes
  /\ bytes' = bytes + 1
  /\ quiet' = FALSE
  /\ UNCHANGED <<procs, launches, pidFile, log, starts, growth, verdict>>

(* A stall threshold passes without a byte.                                  *)
FallQuiet ==
  /\ quiet' = TRUE
  /\ growth' = [growth EXCEPT !.old = TRUE]
  /\ UNCHANGED <<procs, launches, pidFile, log, bytes, starts, verdict>>

End(r, p) ==
  /\ p \in procs[r]
  /\ procs' = [procs EXCEPT ![r] = @ \ {p}]
  /\ IF r = Asked THEN log' \in {"partial", "snapshot", "error"} ELSE UNCHANGED log
  /\ UNCHANGED <<launches, pidFile, bytes, quiet, starts, growth, verdict>>

(* stop_download kills whatever the grep finds.                              *)
StopDownload(r) ==
  /\ Found(r) # {}
  /\ procs' = [s \in Repos |-> procs[s] \ Found(r)]
  /\ UNCHANGED <<launches, pidFile, log, bytes, quiet, starts, growth, verdict>>

-----------------------------------------------------------------------------
(* The pid file's process, while it lives, else the first one grep finds.    *)
Alive == IF pidFile \in procs[Asked] THEN {pidFile} ELSE Found(Asked)

(* Mutant: only the bytes are compared with the last growth.                 *)
MoreBytes(pid, size) == growth.pid = 0 \/ size > growth.bytes

(* Growth, or a new process, restarts the stall clock.                       *)
Grown(pid, size) == growth.pid # pid \/ size > growth.bytes

Verdict(status, measured) ==
  verdict' = [status |-> status, measured |-> measured]

(* A live process: a size that could not be measured reads 0, and then the   *)
(* age of the log, silent for minutes or not, decides.                       *)
StatusOfRunning(pid, measured) ==
  LET size == IF measured THEN bytes ELSE 0
  IN IF Grown(pid, size)
     THEN /\ growth' = [pid |-> pid, bytes |-> size, old |-> FALSE]
          /\ Verdict("downloading", measured)
     ELSE /\ UNCHANGED growth
          /\ \/ size > 0 /\ Verdict(IF growth.old THEN "stalled" ELSE "downloading", measured)
             \/ size = 0 /\ \E s \in {"downloading", "stalled"} : Verdict(s, measured)

StatusOfEnded ==
  /\ growth' = Unseen
  /\ Verdict(CASE log = "snapshot" -> "complete"
               [] log = "error" -> "failed"
               [] OTHER -> "stopped", TRUE)

(* _compute_download_status: an unreadable log is unknown.                   *)
ComputeStatus ==
  /\ \/ Verdict("unknown", FALSE) /\ UNCHANGED growth
     \/ log = "absent" /\ Verdict("not_found", FALSE) /\ UNCHANGED growth
     \/ /\ log # "absent"
        /\ \/ \E pid \in Alive, measured \in BOOLEAN : StatusOfRunning(pid, measured)
           \/ Alive = {} /\ StatusOfEnded
  /\ UNCHANGED remoteSide

DownloadNext ==
  \/ \E r \in Repos : \/ DownloadModel(r) \/ StopDownload(r)
                      \/ \E p \in Pids : LaunchDownload(r, p) \/ End(r, p)
  \/ Grow
  \/ FallQuiet
  \/ ComputeStatus

DownloadSpec == DownloadInit /\ [][DownloadNext]_dlVars

-----------------------------------------------------------------------------
(* A live download is called stalled only when no byte arrived for the       *)
(* threshold, whichever process and whatever earlier download the last poll  *)
(* had seen, or when its size could not be read, or is zero; unless its pid  *)
(* file is stale and grep finds another repository's process.                *)
StalledIsQuiet ==
  [][verdict' # verdict /\ verdict'.status = "stalled" /\ Alive \subseteq procs[Asked]
       => quiet \/ ~verdict'.measured \/ bytes = 0]_dlVars
=============================================================================
