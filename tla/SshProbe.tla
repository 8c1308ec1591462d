------------------------------- MODULE SshProbe -------------------------------
(* executor/remote/ssh_probe.py: one background thread probes the configured *)
(* server every second into a shared cache; a request serves the cache if it *)
(* is of the configuration it read, restarts a thread whose cache went stale *)
(* and probes for itself when the cache is older than 5 s.                   *)
EXTENDS Naturals, FiniteSets

CONSTANTS Hosts,      \* configurations (fingerprints) of the server
          Probers,    \* probe threads (bound: restarts in a run)
          Callers,    \* requests for the SSH status
          Nobody,
          MaxEdits    \* bound: configuration changes

ASSUME ProbeBounds == MaxEdits \in Nat
ASSUME NobodyAssumption == /\ Nobody \notin Hosts \cup Probers \cup Callers
                           /\ Probers \cap Callers = {}

VARIABLES
  host,      \* config_manager's configuration
  edits,
  cache,     \* _ssh_probe_cache and _ssh_probe_fp: the configuration probed
  age,       \* of the cache: fresh, over 5 s, over 60 s
  throttled, \* a restart was made less than 60 s ago
  stop,      \* _ssh_probe_stop
  current,   \* _ssh_probe_thread
  thread,    \* each thread: none, asleep, probing, dead
  round,     \* the configuration each round in flight is probing
  restarter, \* the request that joins the old thread under _ssh_probe_lock
  ask        \* each request: step, the configuration it read, those in force
             \* since, and the configuration its answer is about

probeVars == <<host, edits, cache, age, throttled, stop, current, thread, round,
               restarter, ask>>
threadVars == <<stop, current, thread>>

NoAsk == [step |-> "idle", host |-> Nobody, since |-> {}, answer |-> Nobody]
Known == Hosts \cup {Nobody}

ProbeTypeOK ==
  /\ host \in Hosts /\ cache \in Known
  /\ edits \in 0..MaxEdits
  /\ age \in {"fresh", "aging", "stale"}
  /\ {throttled, stop} \subseteq BOOLEAN
  /\ current \in Probers \cup {Nobody}
  /\ thread \in [Probers -> {"none", "asleep", "probing", "dead"}]
  /\ round \in [Probers \cup Callers -> Known]
  /\ restarter \in Callers \cup {Nobody}
  /\ ask \in [Callers -> [step : {"idle", "asked", "joining", "healing", "answered"},
                          host : Known, since : SUBSET Hosts, answer : Known]]

ProbeInit ==
  /\ host \in Hosts /\ edits = 0
  /\ cache = Nobody /\ age = "stale" /\ throttled = FALSE
  /\ stop = FALSE /\ current = Nobody
  /\ thread = [p \in Probers |-> "none"]
  /\ round = [a \in Probers \cup Callers |-> Nobody]
  /\ restarter = Nobody
  /\ ask = [c \in Callers |-> NoAsk]

LockFree == restarter = Nobody

(* The configuration changes under everybody.                                *)
Edit == /\ edits < MaxEdits
        /\ edits' = edits + 1
        /\ host' \in Hosts \ {host}
        /\ ask' = [c \in Callers |-> [ask[c] EXCEPT !.since = @ \cup {host'}]]
        /\ UNCHANGED <<cache, age, throttled, threadVars, round, restarter>>

Pass == /\ \/ /\ age' = IF age = "fresh" THEN "aging" ELSE "stale"
              /\ UNCHANGED throttled
           \/ age = "stale" /\ throttled' = FALSE /\ UNCHANGED age
        /\ UNCHANGED <<host, edits, cache, threadVars, round, restarter, ask>>

-----------------------------------------------------------------------------
(* _run_ssh_probe: the configuration is read, the probe may take any time,   *)
(* the result is stored under the lock.                                      *)
StoreRound(a) == /\ LockFree
                 /\ cache' = round[a]
                 /\ age' = "fresh"
                 /\ round' = [round EXCEPT ![a] = Nobody]

(* _ssh_probe_loop.                                                          *)
Wake(p) == /\ thread[p] = "asleep"
           /\ thread' = [thread EXCEPT ![p] = IF stop THEN "dead" ELSE "probing"]
           /\ round' = [round EXCEPT ![p] = IF stop THEN Nobody ELSE host]
           /\ UNCHANGED <<host, edits, cache, age, throttled, stop, current, restarter, ask>>

Finish(p) == /\ thread[p] = "probing"
             /\ StoreRound(p)
             /\ thread' = [thread EXCEPT ![p] = "asleep"]
             /\ UNCHANGED <<host, edits, throttled, stop, current, restarter, ask>>

-----------------------------------------------------------------------------
(* check_ssh_connectivity.                                                   *)
Ask(c) == /\ ask[c].step = "idle"
          /\ ask' = [ask EXCEPT ![c] = [step |-> "asked", host |-> host, since |-> {host},
                                        answer |-> Nobody]]
          /\ UNCHANGED <<host, edits, cache, age, throttled, threadVars, round, restarter>>

(* Mutant: the cache is served whatever configuration it was probed with.    *)
UsableAnyway(h) == cache # Nobody

FitsHost(h) == cache = h

Answered(c, h) == ask' = [ask EXCEPT ![c].step = "answered", ![c].answer = h]

(* refresh=True: the request makes a round of its own and waits for it.      *)
AskRefresh(c) == /\ ask[c].step = "asked"
                 /\ round[c] = Nobody
                 /\ round' = [round EXCEPT ![c] = host]
                 /\ ask' = [ask EXCEPT ![c].step = "healing"]
                 /\ UNCHANGED <<host, edits, cache, age, throttled, threadVars, restarter>>

(* A cache that is of this configuration and young, or over 5 s old, when    *)
(* the request heals it first.                                               *)
ServeYoung(c) == /\ ask[c].step = "asked"
                 /\ LockFree
                 /\ FitsHost(ask[c].host) /\ age = "fresh"
                 /\ Answered(c, cache)
                 /\ UNCHANGED <<host, edits, cache, age, throttled, threadVars, round,
                                restarter>>

Heal(c) == /\ ask' = [ask EXCEPT ![c].step = "healing", ![c].answer = cache]
           /\ round' = [round EXCEPT ![c] = host]

ServeAged(c) == /\ ask[c].step = "asked"
                /\ LockFree
                /\ round[c] = Nobody
                /\ FitsHost(ask[c].host)
                /\ age = "aging" \/ (age = "stale" /\ throttled)
                /\ Heal(c)
                /\ UNCHANGED <<host, edits, cache, age, throttled, threadVars, restarter>>

(* Over 60 s: the old thread is told to stop and joined, under the lock.     *)
RestartBegins(c) == /\ ask[c].step = "asked"
                    /\ LockFree
                    /\ round[c] = Nobody
                    /\ FitsHost(ask[c].host)
                    /\ age = "stale" /\ ~throttled
                    /\ restarter' = c
                    /\ stop' = (current # Nobody)
                    /\ ask' = [ask EXCEPT ![c].step = "joining"]
                    /\ UNCHANGED <<host, edits, cache, age, throttled, current, thread, round>>

Fresh == {p \in Probers : thread[p] = "none"}

(* Mutant: the flag is left up for the old thread to see.                    *)
StopAfterJoin == stop

(* The join is over: a sleeping thread has seen the flag within its 2 s, one *)
(* in a round has not.  The flag is cleared and a new thread started.        *)
StopAfterRestart == FALSE

RestartEnds(c) ==
  /\ restarter = c
  /\ current # Nobody => thread[current] # "asleep"
  /\ restarter' = Nobody
  /\ stop' = StopAfterRestart
  /\ \E p \in Fresh : /\ current' = p
                      /\ thread' = [thread EXCEPT ![p] = "asleep"]
  /\ throttled' = TRUE
  /\ Heal(c)
  /\ UNCHANGED <<host, edits, cache, age>>

(* No usable cache: a dead or missing thread is started, the answer is "not  *)
(* ready".                                                                   *)
ServeNotReady(c) ==
  /\ ask[c].step = "asked"
  /\ LockFree
  /\ ~FitsHost(ask[c].host)
  /\ IF current = Nobody \/ thread[current] = "dead"
     THEN \E p \in Fresh : /\ current' = p
                           /\ thread' = [thread EXCEPT ![p] = "asleep"]
                           /\ stop' = FALSE
     ELSE UNCHANGED threadVars
  /\ Answered(c, Nobody)
  /\ UNCHANGED <<host, edits, cache, age, throttled, round, restarter>>

(* The self-heal round stores its result, at once or long after the request  *)
(* gave up on it and served the last known state.                            *)
HealDone(c) == /\ round[c] # Nobody
               /\ StoreRound(c)
               /\ IF ask[c].step = "healing" THEN Answered(c, round[c]) ELSE UNCHANGED ask
               /\ UNCHANGED <<host, edits, throttled, threadVars, restarter>>

HealTimesOut(c) == /\ ask[c].step = "healing"
                   /\ ask[c].answer # Nobody
                   /\ Answered(c, ask[c].answer)
                   /\ UNCHANGED <<host, edits, cache, age, throttled, threadVars, round,
                                  restarter>>

Reply(c) == /\ ask[c].step = "answered"
            /\ ask' = [ask EXCEPT ![c] = NoAsk]
            /\ UNCHANGED <<host, edits, cache, age, throttled, threadVars, round, restarter>>

ProbeNext ==
  \/ Edit
  \/ Pass
  \/ \E p \in Probers : Wake(p) \/ Finish(p)
  \/ \E c \in Callers : \/ Ask(c) \/ AskRefresh(c) \/ ServeYoung(c) \/ ServeAged(c)
                        \/ RestartBegins(c) \/ RestartEnds(c) \/ ServeNotReady(c)
                        \/ HealDone(c) \/ HealTimesOut(c) \/ Reply(c)

ProbeSpec == ProbeInit /\ [][ProbeNext]_probeVars

-----------------------------------------------------------------------------
(* The registered probe thread is alive whenever nobody is restarting it:    *)
(* the stop meant for a wedged thread never reaches its successor.           *)
ProberAlive == LockFree /\ current # Nobody => ~stop /\ thread[current] # "dead"

(* An answer is about a configuration that was in force at some time during  *)
(* the request, however late the rounds end that were begun before it.       *)
AnswersForConfig ==
  \A c \in Callers : ask[c].step = "answered" =>
    ask[c].answer \in ask[c].since \cup {Nobody}
=============================================================================
