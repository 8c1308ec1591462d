---------------------------- MODULE DurableState ------------------------------
(* What backend/controller/state_machine.py promises its callers about the   *)
(* state it keeps, without debounce timers, retries, locks or temporary      *)
(* files: the file is always a state the memory had, a restart brings back   *)
(* the file's, and what is unsaved does not stay so.                         *)
CONSTANTS States,   \* states of the models
          Reload(_) \* what a file's state is loaded as

VARIABLES memory, file,
          unsaved   \* the memory has changes that the file has not

durableVars == <<memory, file, unsaved>>

Init == /\ file \in States
        /\ memory = Reload(file)
        /\ unsaved = FALSE

Change == /\ memory' \in States
          /\ unsaved' = TRUE
          /\ UNCHANGED file

Save == /\ unsaved
        /\ file' = memory
        /\ unsaved' = FALSE
        /\ UNCHANGED memory

(* Killed: whatever is unsaved is lost.                                      *)
Restart == /\ memory' = Reload(file)
           /\ unsaved' = FALSE
           /\ UNCHANGED file

(* Ended in order: the last changes are saved on the way out.                *)
Shutdown == /\ unsaved
            /\ file' = memory
            /\ memory' = Reload(memory)
            /\ unsaved' = FALSE

Next == Change \/ Save \/ Restart \/ Shutdown

Spec == Init /\ [][Next]_durableVars

(* Save cannot be put off for ever.                                          *)
Live == Spec /\ (unsaved ~> ~unsaved)
=============================================================================
