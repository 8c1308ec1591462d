----------------------------- MODULE LaunchFiles ------------------------------
(* config/model_launch_config.py: one file per model holds its launch        *)
(* configuration.  Models whose ids give the same file name share the        *)
(* primary path: the second one goes to a path of its own.  Saves and        *)
(* deletes hold a lock, loads do not.  resolve_launch_api reads the file of  *)
(* the model that serves to learn where vLLM listens.                        *)
EXTENDS FiniteSets, Naturals

CONSTANTS ModelIds, \* model ids
          Safe,     \* Safe[i]: the file name _safe_id makes of i
          Apis,     \* what a configuration says of port and key, or None
          Loads,    \* loads in flight
          None,
          MaxSaves  \* bound: saves

ASSUME SafeAssumption == DOMAIN Safe = ModelIds
ASSUME NoneAssumption == None \notin ModelIds
ASSUME SavesBound == MaxSaves \in Nat

Paths == {<<"primary", Safe[i]>> : i \in ModelIds} \cup {<<"own", i>> : i \in ModelIds}

VARIABLES
  configs,   \* path -> the id and configuration stored there
  deleting,  \* the id whose delete is between its two files
  load,      \* each load: id, the path it is at, what was current meanwhile
  saves,
  kept,      \* history: the configuration last saved for each id
  halfGone   \* history: ids whose delete is, or was left, half done

fileVars == <<configs, deleting, load, saves, kept, halfGone>>

NoFile  == [id |-> None, api |-> None, save |-> 0]
NoLoad  == [id |-> None, step |-> "idle", answer |-> NoFile, valid |-> {}, torn |-> FALSE]
Stored  == [id : ModelIds, api : Apis \cup {None}, save : 1..MaxSaves] \cup {NoFile}

FileTypeOK ==
  /\ configs \in [Paths -> Stored]
  /\ deleting \in ModelIds \cup {None}
  /\ load \in [Loads -> [id : ModelIds \cup {None}, step : {"idle", "primary", "own", "done"},
                         answer : Stored, valid : SUBSET Stored, torn : BOOLEAN]]
  /\ saves \in 0..MaxSaves /\ kept \in [ModelIds -> Stored] /\ halfGone \subseteq ModelIds

FileInit == /\ configs = [p \in Paths |-> NoFile]
            /\ deleting = None
            /\ load = [l \in Loads |-> NoLoad]
            /\ saves = 0 /\ kept = [i \in ModelIds |-> NoFile] /\ halfGone = {}

Primary(i) == <<"primary", Safe[i]>>
Own(i)     == <<"own", i>>

(* What a load of i may answer from now on includes v.                       *)
Allow(i, v) == load' = [l \in Loads |-> IF load[l].id = i
                                        THEN [load[l] EXCEPT !.valid = @ \cup {v}]
                                        ELSE load[l]]

-----------------------------------------------------------------------------
(* save_config: the primary path unless another id's file is there.          *)
PathFor(i) == IF configs[Primary(i)].id \in {None, i} THEN Primary(i) ELSE Own(i)

Save(i) == /\ deleting = None
           /\ saves < MaxSaves
           /\ saves' = saves + 1
           /\ \E api \in Apis \cup {None} :
                LET new == [id |-> i, api |-> api, save |-> saves + 1]
                IN /\ configs' = [configs EXCEPT ![PathFor(i)] = new]
                   /\ kept' = [kept EXCEPT ![i] = new]
                   /\ halfGone' = IF configs[Own(i)] = NoFile \/ PathFor(i) = Own(i)
                                  THEN halfGone \ {i} ELSE halfGone
                   /\ Allow(i, new)
           /\ UNCHANGED deleting

(* delete_config: the id's file at either path, one after the other.         *)
Unlink(path, i) ==
  configs' = IF configs[path].id = i THEN [configs EXCEPT ![path] = NoFile] ELSE configs

DeletePrimary(i) ==
  /\ deleting = None
  /\ Unlink(Primary(i), i)
  /\ deleting' = i
  /\ kept' = [kept EXCEPT ![i] = NoFile]
  /\ halfGone' = halfGone \cup {i}
  /\ load' = [l \in Loads |-> IF load[l].id = i
                THEN [load[l] EXCEPT !.valid = @ \cup {NoFile}, !.torn = TRUE]
                ELSE load[l]]
  /\ UNCHANGED saves

(* Mutant: the delete stops at the first file it finds.                      *)
DeleteOwnNot == /\ deleting # None
                /\ deleting' = None
                /\ halfGone' = halfGone \ {deleting}
                /\ UNCHANGED <<configs, load, saves, kept>>

DeleteOwn == /\ deleting # None
             /\ Unlink(Own(deleting), deleting)
             /\ deleting' = None
             /\ halfGone' = halfGone \ {deleting}
             /\ UNCHANGED <<load, saves, kept>>

(* The process dies, or the second unlink raises, between the two.           *)
DeleteBreaks == /\ deleting # None
                /\ deleting' = None
                /\ load' \in {load, [l \in Loads |-> NoLoad]}
                /\ UNCHANGED <<configs, saves, kept, halfGone>>

-----------------------------------------------------------------------------
(* load_config: the primary path if it holds the id's file, else its own.    *)
LoadBegins(l, i) ==
  /\ load[l].step = "idle"
  /\ load' = [load EXCEPT ![l] = [id |-> i, step |-> "primary", answer |-> NoFile,
                                  valid |-> {kept[i]}, torn |-> i \in halfGone]]
  /\ UNCHANGED <<configs, deleting, saves, kept, halfGone>>

LoadLooks(l, here, step, next) ==
  /\ load[l].step = step
  /\ IF configs[here].id = load[l].id
     THEN load' = [load EXCEPT ![l].answer = configs[here], ![l].step = "done"]
     ELSE load' = [load EXCEPT ![l].step = next]
  /\ UNCHANGED <<configs, deleting, saves, kept, halfGone>>

LoadPrimary(l) == LoadLooks(l, Primary(load[l].id), "primary", "own")
LoadOwn(l)     == LoadLooks(l, Own(load[l].id), "own", "done")

LoadEnds(l) == /\ load[l].step = "done"
               /\ load' = [load EXCEPT ![l] = NoLoad]
               /\ UNCHANGED <<configs, deleting, saves, kept, halfGone>>

-----------------------------------------------------------------------------
(* resolve_launch_api: the models asked, group by group, given each model's  *)
(* status and the current model; in a group the table's order decides.       *)
Serving(statuses) == {i \in ModelIds : statuses[i] \in {"running", "loading"}}

AskedFirst(statuses, current) ==
  LET With(s) == {i \in ModelIds : statuses[i] = s}
  IN IF Serving(statuses) # {}
     THEN <<{current} \cap Serving(statuses), With("loading"), With("running")>>
     ELSE <<{current} \cap ModelIds, With("stopped")>>

Loaded(i) == IF configs[Primary(i)].id = i THEN configs[Primary(i)] ELSE configs[Own(i)]

Says(group) == {Loaded(i).api : i \in group} \ {None}

(* What may be answered: what the first group that says something says.      *)
Resolved(statuses, current) ==
  LET asked == AskedFirst(statuses, current)
  IN UNION {Says(asked[k]) : k \in {n \in DOMAIN asked :
                                      \A j \in DOMAIN asked : j < n => Says(asked[j]) = {}}}

FileNext == \/ \E i \in ModelIds : Save(i) \/ DeletePrimary(i)
            \/ DeleteOwn
            \/ DeleteBreaks
            \/ \E l \in Loads : \/ \E i \in ModelIds : LoadBegins(l, i)
                                \/ LoadPrimary(l) \/ LoadOwn(l) \/ LoadEnds(l)

FileSpec == FileInit /\ [][FileNext]_fileVars

-----------------------------------------------------------------------------
(* A load answers with a configuration that was the id's last saved one at   *)
(* some moment of the load, whatever saves and deletes of ids that share its *)
(* file name come before and meanwhile, unless a delete of the id itself was *)
(* under way or had been cut short between its two files.                    *)
LoadsCurrent ==
  \A l \in Loads : load[l].step = "done" /\ ~load[l].torn =>
    load[l].answer \in load[l].valid

(* While a model serves whose configuration says where, vLLM is looked for   *)
(* where a model that serves says, not where a stale current model does,     *)
(* however the files of the two collided.                                    *)
ResolvesServing ==
  \A statuses \in [ModelIds -> {"running", "loading", "stopped"}], current \in ModelIds \cup {None} :
    LET found == Resolved(statuses, current)
        says  == Says(Serving(statuses))
    IN says # {} => found # {} /\ found \subseteq says

(* Both readers of the files, a page that loads one model's configuration    *)
(* and a request that looks for the vLLM that serves, get the right one.     *)
ConfigsFound == LoadsCurrent /\ ResolvesServing
=============================================================================
