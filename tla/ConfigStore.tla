----------------------------- MODULE ConfigStore ------------------------------
(* config/remote_client.py's ConfigManager: the server configuration in      *)
(* memory and its file, merged into by threads of the pool (the settings     *)
(* form, a download's save path) under one lock, loaded at a start of the    *)
(* dashboard; and the vLLM version cached by the SSH checks of               *)
(* connection_probes.py, which an edit of the configuration forgets.         *)
EXTENDS Naturals

CONSTANTS Servers,      \* values of the field "host"
          Paths,        \* values of the field "path" (model_save_path)
          Editors,      \* requests that merge
          Checks,       \* SSH checks of /server/status
          Unset,        \* a field's default; no version
          Absent, Broken,   \* the file is missing, or not a configuration
          MaxMerges,        \* bounds
          MaxConfigTrouble  \* failed saves, crashes, damage to the file

ASSUME ConfigBounds == MaxMerges \in Nat /\ MaxConfigTrouble \in Nat

VARIABLES
  config,        \* ConfigManager.config
  file,          \* server_config.json
  merge,         \* who holds _lock for a merge, and the configuration before it
  committed,     \* history: each field's value of the last merge that reached the file
  sshVersion,    \* _ssh_version: the server it is the version of
  check,         \* each check: step, the server its executor is for, what was cached
  overlapped,    \* history: an edit was committed while a check was under way
  merges, configTrouble

configVars == <<config, file, merge, committed, sshVersion, check, overlapped,
                merges, configTrouble>>

Configs  == [host : Servers \cup {Unset}, path : Paths \cup {Unset}]

ASSUME ConfigValues == /\ Unset \notin Servers \cup Paths \cup Editors
                       /\ Absent # Broken
                       /\ {Absent, Broken} \cap Configs = {}

Defaults == [host |-> Unset, path |-> Unset]
Updates  == [host : Servers] \cup [path : Paths]
NoMerge  == [by |-> Unset, previous |-> Defaults]
NoCheck  == [step |-> "idle", host |-> Unset, cached |-> Unset]

ConfigTypeOK ==
  /\ {config, committed} \subseteq Configs
  /\ file \in Configs \cup {Absent, Broken}
  /\ merge \in [by : Editors \cup {Unset}, previous : Configs]
  /\ sshVersion \in Servers \cup {Unset}
  /\ check \in [Checks -> [step : {"idle", "begun", "probing"},
                           host : Servers \cup {Unset}, cached : Servers \cup {Unset}]]
  /\ overlapped \in BOOLEAN
  /\ merges \in 0..MaxMerges /\ configTrouble \in 0..MaxConfigTrouble

ConfigInit ==
  /\ config = Defaults /\ file = Absent /\ committed = Defaults
  /\ merge = NoMerge
  /\ sshVersion = Unset /\ check = [k \in Checks |-> NoCheck] /\ overlapped = FALSE
  /\ merges = 0 /\ configTrouble = 0

Unlocked == merge.by = Unset

ConfigFails == /\ configTrouble < MaxConfigTrouble
               /\ configTrouble' = configTrouble + 1

-----------------------------------------------------------------------------
(* merge_config: the candidate, a copy with the fields of the request        *)
(* replaced, is in memory before it is saved.                                *)
MergeBegins(e) ==
  /\ Unlocked
  /\ merges < MaxMerges /\ merges' = merges + 1
  /\ merge' = [by |-> e, previous |-> config]
  /\ \E u \in Updates :
       config' = [f \in {"host", "path"} |-> IF f \in DOMAIN u THEN u[f] ELSE config[f]]
  /\ UNCHANGED <<file, committed, sshVersion, check, overlapped, configTrouble>>

(* The version is the former server's.                                       *)
VersionAfterMerge == Unset

(* _save_config replaces the file by a whole new one.                        *)
MergeSaves ==
  /\ ~Unlocked
  /\ file' = config /\ committed' = config
  /\ sshVersion' = VersionAfterMerge
  /\ overlapped' = (overlapped \/ \E k \in Checks : check[k].step # "idle")
  /\ merge' = NoMerge
  /\ UNCHANGED <<config, check, merges, configTrouble>>

(* Mutant: the candidate stays in memory.                                    *)
CandidateKept == config

RolledBack == merge.previous

(* A credential cannot be encrypted or the temporary file not be written.    *)
MergeFails ==
  /\ ~Unlocked
  /\ ConfigFails
  /\ config' = RolledBack
  /\ merge' = NoMerge
  /\ UNCHANGED <<file, committed, sshVersion, check, overlapped, merges>>

-----------------------------------------------------------------------------
(* Somebody edits the file into something that is no configuration.          *)
Damage == /\ ConfigFails
          /\ file' = Broken
          /\ UNCHANGED <<config, merge, committed, sshVersion, check, overlapped, merges>>

(* The dashboard dies, at any moment, and loads the file at its next start;  *)
(* _load_config moves a broken one away and starts from the defaults.        *)
Reload ==
  /\ ConfigFails
  /\ config' = IF file \in {Absent, Broken} THEN Defaults ELSE file
  /\ file' = IF file = Broken THEN Absent ELSE file
  /\ committed' = IF file = Broken THEN Defaults ELSE committed
  /\ merge' = NoMerge
  /\ sshVersion' = Unset /\ check' = [k \in Checks |-> NoCheck] /\ overlapped' = FALSE
  /\ UNCHANGED merges

-----------------------------------------------------------------------------
(* check_connection, with refresh or without, and _check_ssh's executor.     *)
CheckBegins(k) ==
  /\ check[k].step = "idle" /\ Unlocked /\ config.host # Unset
  /\ sshVersion' \in {sshVersion, Unset}
  /\ check' = [check EXCEPT ![k] = [NoCheck EXCEPT !.step = "begun", !.host = config.host]]
  /\ UNCHANGED <<config, file, merge, committed, overlapped, merges, configTrouble>>

(* Whether the version is asked for depends on what is cached.               *)
CheckReads(k) ==
  /\ check[k].step = "begun" /\ Unlocked
  /\ check' = [check EXCEPT ![k].step = "probing", ![k].cached = sshVersion]
  /\ UNCHANGED <<config, file, merge, committed, sshVersion, overlapped, merges,
                 configTrouble>>

(* The server answers, perhaps without a version (vLLM is not installed), or *)
(* the command fails.                                                        *)
CheckEnds(k) ==
  /\ check[k].step = "probing" /\ Unlocked
  /\ check' = [check EXCEPT ![k] = NoCheck]
  /\ \/ sshVersion' = Unset
     \/ sshVersion' = IF check[k].cached = Unset THEN check[k].host ELSE sshVersion
     \/ check[k].cached = Unset /\ sshVersion' = sshVersion
  /\ UNCHANGED <<config, file, merge, committed, overlapped, merges, configTrouble>>

ConfigNext ==
  \/ \E e \in Editors : MergeBegins(e)
  \/ MergeSaves \/ MergeFails \/ Damage \/ Reload
  \/ \E k \in Checks : CheckBegins(k) \/ CheckReads(k) \/ CheckEnds(k)

ConfigSpec == ConfigInit /\ [][ConfigNext]_configVars

-----------------------------------------------------------------------------
(* When nobody merges, memory holds what every merge that reached the file   *)
(* set, no update of another field and no failed one among it, and so does   *)
(* the file unless it was damaged; and the cached version is that of the     *)
(* configured server unless an edit overtook a check.                        *)
ConfigKept ==
  Unlocked => /\ config = committed
              /\ file \in {config, Broken} \/ (file = Absent /\ config = Defaults)
              /\ sshVersion # Unset /\ ~overlapped => sshVersion = config.host

(* What the comments promise: remote_client.py:197 and 213 forget the        *)
(* version with the server it was of.  A check under way brings it back.     *)
VersionFitsServer == Unlocked /\ sshVersion # Unset => sshVersion = config.host
=============================================================================
