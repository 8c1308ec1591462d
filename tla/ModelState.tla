----------------------------- MODULE ModelState -----------------------------
(* The in-memory half of backend/controller/state_machine.py: what the      *)
(* dashboard believes about each registered model.  The file behind it      *)
(* (debounced save, reload) is module StateStore.  Adding and removing      *)
(* models (scan, delete) is not modelled: Models is the registered set.     *)
EXTENDS FiniteSets

CONSTANTS Models,   \* ids in state_machine.models
          None      \* "no model", for current_model_id

ASSUME NoneAssumption == None \notin Models

Statuses  == {"STOPPED", "LOADING", "RUNNING", "FAILED", "DOWNLOADED"}
Transient == {"LOADING", "RUNNING"}                 \* _TRANSIENT_STATES
Ages      == {"none", "fresh", "grace", "cap"}

VARIABLES status,   \* ModelInfo.status
          locked,   \* the models whose ModelInfo.locked is set
          current,  \* current_model_id
          age       \* ModelInfo.loading_since, as what the sync reads from it:
                    \* none, below 120 s, past the grace, past the hard cap

stateVars == <<status, locked, current, age>>

StateTypeOK == /\ status \in [Models -> Statuses]
               /\ locked \subseteq Models
               /\ current \in Models \cup {None}
               /\ age \in [Models -> Ages]
               /\ \A m \in Models : age[m] = "none" <=> status[m] # "LOADING"

(* Mutant: loading_since survives the end of LOADING.                        *)
AgeKept(new, m) == IF new[m] = "LOADING" THEN "fresh" ELSE age[m]

(* update_model_status on every model whose status in "new" differs or is  *)
(* rewritten: loading_since is set on entry to LOADING and dropped when the *)
(* model leaves it.                                                         *)
AgeAfter(new, m) == IF new[m] # "LOADING" THEN "none"
                    ELSE IF status[m] = "LOADING" THEN age[m] ELSE "fresh"

Update(new) == /\ status' = new
               /\ age' = [m \in Models |-> AgeAfter(new, m)]

Become(m, st) == Update([status EXCEPT ![m] = st])

(* set_current_model; clear_current_model for each model of S, which only   *)
(* clears when that model is the current one.                               *)
SetCurrent(m)   == current' = m

(* Mutants: the current model is never cleared, or whoever it is.            *)
ClearNone(S) == current' = current
ClearAny(S)  == current' = IF S = {} THEN current ELSE None

ClearCurrent(S) == current' = IF current \in S THEN None ELSE current

(* set_model_locked: locking one model unlocks every other.                 *)
SetLocked(m)   == locked' = {m}
SetUnlocked(m) == locked' = locked \ {m}

(* Time seen by a LOADING model: 120 s, then 30 min after loading_since.     *)
Elapse(m) == /\ age[m] \in {"fresh", "grace"}
             /\ age' = [age EXCEPT ![m] = IF age[m] = "fresh" THEN "grace" ELSE "cap"]
             /\ UNCHANGED <<status, locked, current>>

(* _load_state after a restart: transient statuses come back as STOPPED, so *)
(* the saved current model, kept only if RUNNING, never survives.           *)
Coerced == [m \in Models |-> IF status[m] \in Transient THEN "STOPPED" ELSE status[m]]

Reload == /\ Update(Coerced)
          /\ current' = None
          /\ UNCHANGED locked

(* The locked models that were RUNNING or LOADING: _pending_locked_restarts. *)
PendingLockedRestarts == {m \in locked : status[m] \in Transient}

StateInit == /\ status \in [Models -> {"STOPPED", "DOWNLOADED"}]
             /\ locked = {}
             /\ current = None
             /\ age = [m \in Models |-> "none"]
=============================================================================
