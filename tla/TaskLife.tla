------------------------------- MODULE TaskLife -------------------------------
(* What DeploymentTaskManager promises of its tasks, without requests,       *)
(* threads, remote jobs or the reattach thread: which status may follow      *)
(* which, and that a task is admitted only beside tasks it may run with.     *)
CONSTANTS Tasks,
          Rivals,   \* for each kind, the kinds a new task must not meet
          NoTask    \* no task

VARIABLES status, kind,
          revived   \* the task in flight that is watched, not run

lifeVars == <<status, kind, revived>>

InFlight == {t \in Tasks : status[t] \in {"queued", "running"}}
Ended    == {"success", "failed", "cancelled"}

Init == /\ status = [t \in Tasks |-> "none"]
        /\ kind \in [Tasks -> DOMAIN Rivals]
        /\ revived = NoTask

Becomes(t, s) == status' = [status EXCEPT ![t] = s]

(* A task is created in one step with the check of its rivals.               *)
Claim(t, k) == /\ status[t] = "none"
               /\ \A u \in InFlight : kind[u] \notin Rivals[k]
               /\ Becomes(t, "queued")
               /\ kind' = [kind EXCEPT ![t] = k]
               /\ UNCHANGED revived

Start(t) == /\ status[t] = "queued"
            /\ Becomes(t, "running")
            /\ UNCHANGED <<kind, revived>>

(* A driver waits for the machine's restart, and is then complete...         *)
Awaits(t) == /\ status[t] = "running" /\ t # revived /\ kind[t] = "driver"
             /\ Becomes(t, "awaiting_reboot")
             /\ UNCHANGED <<kind, revived>>

Completes(t) == /\ status[t] = "awaiting_reboot"
                /\ Becomes(t, "success")
                /\ UNCHANGED <<kind, revived>>

(* ...or superseded.                                                         *)
Supersede == /\ LET S == {t \in Tasks : kind[t] = "driver" /\ status[t] = "awaiting_reboot"}
                IN  status' = [t \in Tasks |-> IF t \in S THEN "failed" ELSE status[t]]
             /\ UNCHANGED <<kind, revived>>

(* A revived task has lost its pipeline and cannot succeed.                  *)
Ends(t) == /\ t \in InFlight
           /\ \/ Becomes(t, "failed") \/ Becomes(t, "cancelled")
              \/ status[t] = "running" /\ t # revived /\ Becomes(t, "success")
           /\ revived' = IF t = revived THEN NoTask ELSE revived
           /\ UNCHANGED kind

Interrupt == /\ status' = [t \in Tasks |-> IF t \in InFlight THEN "interrupted" ELSE status[t]]
             /\ revived' = NoTask
             /\ UNCHANGED kind

Revive(t) == /\ status[t] = "interrupted" /\ revived = NoTask
             /\ Becomes(t, "running")
             /\ revived' = t
             /\ UNCHANGED kind

Next == \/ Supersede \/ Interrupt
        \/ \E t \in Tasks : \/ \E k \in DOMAIN Rivals : Claim(t, k)
                            \/ Start(t) \/ Awaits(t) \/ Completes(t) \/ Ends(t) \/ Revive(t)

Spec == Init /\ [][Next]_lifeVars

-----------------------------------------------------------------------------
(* What follows from it: rivals are never in flight together, apart from a   *)
(* revived task, and a task ends once.                                       *)
OneClaim == \A t, u \in InFlight :
              t # u /\ kind[t] \in Rivals[kind[u]] /\ kind[u] \in Rivals[kind[t]]
                => revived \in {t, u}

EndsOnce == [][\A t \in Tasks : status[t] \in Ended => status'[t] = status[t]]_lifeVars
=============================================================================
