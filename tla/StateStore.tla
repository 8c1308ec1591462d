----------------------------- MODULE StateStore -----------------------------
(* The persistent half of backend/controller/state_machine.py: every change  *)
(* of the models arms a 1 s debounce timer, the timer's thread writes the    *)
(* whole state to a .tmp file and renames it over models_state.json, a       *)
(* failed write is retried with backoff, and a restart reloads the file.     *)
(* What the fields mean is module ModelState's; here a content is a status   *)
(* per model.                                                                *)
EXTENDS Naturals, FiniteSets

CONSTANTS Models,
          Torn,          \* a file that is not a whole state: cut short
          Timers,        \* identities of timer threads (a bound in TLC only)
          NoTimer,       \* None in _debounce_timer
          MaxChanges,    \* bound: state changes in a run
          MaxFailures    \* bound: failed writes in a run

ASSUME StoreBounds == MaxChanges \in Nat /\ MaxFailures \in Nat

Transient == {"LOADING", "RUNNING"}
Contents  == [Models -> {"STOPPED", "LOADING", "RUNNING", "FAILED"}]

ASSUME TornAssumption == Torn \notin Contents
ASSUME NoTimerAssumption == NoTimer \notin Timers

VARIABLES
  mem,        \* models, in memory
  disk,       \* models_state.json
  tmp,        \* models_state.json.tmp
  dirty,      \* _dirty
  armed,      \* started timers that neither fired nor were cancelled
  fired,      \* timers whose thread waits for _lock
  retry,      \* which of the timers are retry timers: they flush anonymously
  debounce,   \* _debounce_timer
  writer,     \* the thread inside _flush_state: idle, or after opening .tmp
  changes, failures

bounds == <<changes, failures>>
timerVars == <<armed, fired, retry, debounce>>
vars == <<mem, disk, tmp, dirty, timerVars, writer, bounds>>

TypeOK == /\ mem \in Contents
          /\ {disk, tmp} \subseteq Contents \cup {Torn}
          /\ dirty \in BOOLEAN
          /\ armed \subseteq Timers
          /\ fired \subseteq Timers
          /\ retry \subseteq Timers
          /\ debounce \in Timers \cup {NoTimer}
          /\ writer \in {"idle", "writing", "written"}
          /\ changes \in 0..MaxChanges
          /\ failures \in 0..MaxFailures

(* Mutant: the models that were up are dropped instead of coerced.           *)
LoadedDropped(c) == [m \in {x \in Models : c[x] \notin Transient} |-> c[m]]

(* _load_state: transient statuses come back as STOPPED.                     *)
Loaded(c) == [m \in Models |-> IF c[m] \in Transient THEN "STOPPED" ELSE c[m]]

Free == Timers \ (armed \cup fired \cup {debounce})

Init == /\ disk \in Contents
        /\ tmp = Torn
        /\ mem = Loaded(disk)
        /\ dirty = FALSE
        /\ armed = {} /\ fired = {} /\ retry = {} /\ debounce = NoTimer
        /\ writer = "idle"
        /\ changes = MaxChanges /\ failures = MaxFailures

(* Mutants: the old timer is cancelled and no new one started while a save   *)
(* is pending; the .tmp file is renamed before it is complete.               *)
ArmedOnlyIfClean(t) == IF dirty THEN armed \ {debounce} ELSE armed \cup {t}
(* _schedule_save cancels the registered timer, if it has not fired, and     *)
(* registers a new one.                                                      *)
ArmedAfterSave(t) == (armed \ {debounce}) \cup {t}

(* Any of the mutating operations, under _lock.                              *)
Change == /\ writer = "idle"
          /\ changes > 0
          /\ changes' = changes - 1
          /\ mem' \in Contents
          /\ dirty' = TRUE
          /\ \E t \in Free : /\ debounce' = t
                             /\ armed' = ArmedAfterSave(t)
                             /\ retry' = retry \ {t}
          /\ UNCHANGED <<disk, tmp, fired, writer, failures>>

Fire(t) == /\ t \in armed
           /\ armed' = armed \ {t}
           /\ fired' = fired \cup {t}
           /\ UNCHANGED <<mem, disk, tmp, dirty, retry, debounce, writer, bounds>>

(* _flush_state under _lock: nothing to do, or the flag is taken down before *)
(* the write.  A retry timer does not say who it is and unregisters whatever *)
(* timer is registered.                                                      *)
FlushIdle(t) == /\ writer = "idle"
                /\ t \in fired
                /\ ~dirty
                /\ fired' = fired \ {t}
                /\ UNCHANGED <<mem, disk, tmp, dirty, armed, retry, debounce, writer, bounds>>

FlushBegin(t) == /\ writer = "idle"
                 /\ t \in fired
                 /\ dirty
                 /\ dirty' = FALSE
                 /\ fired' = fired \ {t}
                 /\ debounce' = IF t \in retry \/ debounce = t THEN NoTimer ELSE debounce
                 /\ writer' = "writing"
                 /\ tmp' = Torn
                 /\ UNCHANGED <<mem, disk, armed, retry, bounds>>

FlushWrite == /\ writer = "writing"
              /\ writer' = "written"
              /\ tmp' = mem
              /\ UNCHANGED <<mem, disk, dirty, timerVars, bounds>>

(* os.replace once the .tmp file is closed.                                  *)
Replaceable == writer = "written"

FlushReplace == /\ Replaceable
                /\ disk' = tmp
                /\ writer' = "idle"
                /\ UNCHANGED <<mem, tmp, dirty, timerVars, bounds>>

DirtyAfterFailure == TRUE

(* The except branch: dirty again, and a retry timer registered over         *)
(* whatever is registered, which is not cancelled.                           *)
FlushFail == /\ writer # "idle"
             /\ failures > 0
             /\ failures' = failures - 1
             /\ writer' = "idle"
             /\ dirty' = DirtyAfterFailure
             /\ \E t \in Free : /\ debounce' = t
                                /\ armed' = armed \cup {t}
                                /\ retry' = retry \cup {t}
             /\ UNCHANGED <<mem, disk, tmp, fired, changes>>

(* The process dies anywhere, also inside the write, and is started again.   *)
(* FileIsWhole says why a torn file need not be loaded.                      *)
Crash == /\ disk # Torn
         /\ mem' = Loaded(disk)
         /\ dirty' = FALSE
         /\ armed' = {} /\ fired' = {} /\ retry' = {} /\ debounce' = NoTimer
         /\ writer' = "idle"
         /\ UNCHANGED <<disk, tmp, bounds>>

(* An orderly exit first runs the atexit flush, which blocks on _lock until  *)
(* a write in progress is over; if its write fails it is lost like a crash.  *)
Exit == /\ writer = "idle"
        /\ disk # Torn
        /\ mem' = IF dirty THEN Loaded(mem) ELSE Loaded(disk)
        /\ disk' = IF dirty THEN mem ELSE disk
        /\ tmp' = IF dirty THEN mem ELSE tmp
        /\ dirty' = FALSE
        /\ armed' = {} /\ fired' = {} /\ retry' = {} /\ debounce' = NoTimer
        /\ UNCHANGED <<writer, bounds>>

Next == \/ Change
        \/ \E t \in Timers : Fire(t) \/ FlushIdle(t) \/ FlushBegin(t)
        \/ FlushWrite
        \/ FlushReplace
        \/ FlushFail
        \/ Crash
        \/ Exit

Spec == Init /\ [][Next]_vars

(* Timers fire, and a thread waiting for _lock gets it.                      *)
Fairness == /\ \A t \in Timers : /\ WF_vars(Fire(t))
                                 /\ SF_vars(FlushIdle(t) \/ FlushBegin(t))
            /\ WF_vars(FlushWrite \/ FlushReplace)

FairSpec == Spec /\ Fairness

-----------------------------------------------------------------------------
(* An unsaved change always has a thread on its way to save it: neither the  *)
(* cancelling of timers, nor one firing as it is cancelled, nor a retry      *)
(* unregistering someone else's timer leaves the state dirty for good.       *)
DirtyIsScheduled == dirty => armed \cup fired # {}

(* When nothing is dirty and nobody writes, the file is the memory, or the   *)
(* memory is what that file loads as (after a restart, the coerced statuses  *)
(* are deliberately not written back, so a crash right after a restart still *)
(* finds the locked model that was up).                                      *)
CleanIsSaved == ~dirty /\ writer = "idle" => mem = disk \/ mem = Loaded(disk)

(* The file is whole at every instant a crash may happen.                    *)
FileIsWhole == disk # Torn

(* The abstract specification.  A change is unsaved until the file is        *)
(* replaced, also while a thread that took the dirty flag down is writing.   *)
Durable == INSTANCE DurableState WITH
             States <- Contents, Reload <- Loaded,
             memory <- mem, file <- disk, unsaved <- (dirty \/ writer # "idle")

(* Timers, cancelled and retried, half-written files and the exit handler    *)
(* implement it: every file is a memory of the past, a restart comes back to *)
(* the file, and every change is saved unless the process dies first.        *)
ImplementsDurable == Durable!Live
=============================================================================
