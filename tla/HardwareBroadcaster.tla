------------------------- MODULE HardwareBroadcaster -------------------------
(* backend/ws/hardware_broadcaster.py: one poll loop probes the hardware and *)
(* sends the result to every subscriber; each subscriber's handler waits for *)
(* its frames and nudges a silent one with a keepalive.  A subscriber may    *)
(* die without a word: its socket then takes frames until its buffer is full.*)
EXTENDS Naturals

CONSTANTS Subscribers,  \* browsers, each with at most one websocket
          Buffer,       \* frames a dead socket's buffer takes (bound)
          MaxBadCycles  \* bound: poll cycles that raise

ASSUME BroadcastBounds == Buffer \in Nat /\ MaxBadCycles \in Nat

VARIABLES
  clients,   \* HardwareBroadcaster._clients
  loop,      \* _poll_task: none, probing, sending, pausing, done
  badCycles,
  sending,   \* the subscribers whose send of this cycle is in flight
  failed,    \* those whose send raised or took over 3 s
  handler,   \* websocket_hardware: receiving, nudging, closed (or not open yet)
  link,      \* the peer: alive, or dead without FIN or RST
  room       \* free places of the socket's buffer once the peer is dead

castVars == <<clients, loop, badCycles, sending, failed, handler, link, room>>

CastTypeOK ==
  /\ {clients, sending, failed} \subseteq SUBSET Subscribers
  /\ loop \in {"none", "probing", "sending", "pausing", "done"}
  /\ badCycles \in 0..MaxBadCycles
  /\ handler \in [Subscribers -> {"receiving", "nudging", "closed"}]
  /\ link \in [Subscribers -> {"alive", "dead"}]
  /\ room \in [Subscribers -> 0..Buffer]

CastInit ==
  /\ clients = {} /\ sending = {} /\ failed = {}
  /\ loop = "none" /\ badCycles = 0
  /\ handler = [s \in Subscribers |-> "closed"]
  /\ link = [s \in Subscribers |-> "alive"]
  /\ room = [s \in Subscribers |-> Buffer]

-----------------------------------------------------------------------------
(* Mutant: a task that has ended is taken for a running one.                 *)
NeverStarted == loop = "none"

LoopEnded == loop \in {"none", "done"}

(* A new websocket: its handler registers it, which starts the loop if none  *)
(* runs.                                                                     *)
Subscribe(s) ==
  /\ handler[s] = "closed" /\ s \notin sending \cup failed
  /\ handler' = [handler EXCEPT ![s] = "receiving"]
  /\ clients' = clients \cup {s}
  /\ loop' = IF LoopEnded THEN "probing" ELSE loop
  /\ link' = [link EXCEPT ![s] = "alive"]
  /\ room' = [room EXCEPT ![s] = Buffer]
  /\ UNCHANGED <<badCycles, sending, failed>>

(* The handler's end, however it comes, unregisters.                         *)
Ends(s) == /\ handler' = [handler EXCEPT ![s] = "closed"]
           /\ clients' = clients \ {s}

(* The peer says goodbye, or sends a frame that is too long.                 *)
Goodbye(s) == /\ handler[s] = "receiving" /\ link[s] = "alive"
              /\ Ends(s)
              /\ UNCHANGED <<loop, badCycles, sending, failed, link, room>>

(* Nothing was received for 60 s.                                            *)
Silence(s) == /\ handler[s] = "receiving"
              /\ handler' = [handler EXCEPT ![s] = "nudging"]
              /\ UNCHANGED <<clients, loop, badCycles, sending, failed, link, room>>

Taken(s) == /\ link[s] = "alive" \/ room[s] > 0
            /\ room' = IF link[s] = "alive" THEN room ELSE [room EXCEPT ![s] = @ - 1]

NudgeTaken(s) == /\ handler[s] = "nudging"
                 /\ Taken(s)
                 /\ handler' = [handler EXCEPT ![s] = "receiving"]
                 /\ UNCHANGED <<clients, loop, badCycles, sending, failed, link>>

(* Full or closed: the keepalive took over 5 s or raised.                    *)
NudgeFails(s) == /\ handler[s] = "nudging"
                 /\ link[s] = "dead" /\ room[s] = 0
                 /\ Ends(s)
                 /\ UNCHANGED <<loop, badCycles, sending, failed, link, room>>

Dies(s) == /\ link[s] = "alive" /\ handler[s] \in {"receiving", "nudging"}
           /\ link' = [link EXCEPT ![s] = "dead"]
           /\ UNCHANGED <<clients, loop, badCycles, sending, failed, handler, room>>

-----------------------------------------------------------------------------
(* _poll_loop: the probe answers or its time is up; with nobody left there   *)
(* is nothing to send.                                                       *)
ProbeEnds == /\ loop = "probing"
             /\ sending' = clients /\ failed' = {}
             /\ loop' = IF clients = {} THEN "pausing" ELSE "sending"
             /\ UNCHANGED <<clients, badCycles, handler, link, room>>

CycleFails == /\ loop = "probing" /\ badCycles < MaxBadCycles
              /\ badCycles' = badCycles + 1
              /\ loop' = "pausing"
              /\ UNCHANGED <<clients, sending, failed, handler, link, room>>

SendTaken(s) == /\ s \in sending /\ handler[s] # "closed"
                /\ Taken(s)
                /\ sending' = sending \ {s}
                /\ UNCHANGED <<clients, loop, badCycles, failed, handler, link>>

(* A closed socket raises; a dead or slow one takes over 3 s.                *)
SendFails(s) == /\ s \in sending
                /\ sending' = sending \ {s}
                /\ failed' = failed \cup {s}
                /\ UNCHANGED <<clients, loop, badCycles, handler, link, room>>

(* gather returns: the failed ones are dropped.                              *)
Broadcast == /\ loop = "sending" /\ sending = {}
             /\ clients' = clients \ failed
             /\ failed' = {}
             /\ loop' = "pausing"
             /\ UNCHANGED <<badCycles, sending, handler, link, room>>

Continue == /\ loop = "pausing"
            /\ loop' = IF clients = {} THEN "done" ELSE "probing"
            /\ UNCHANGED <<clients, badCycles, sending, failed, handler, link, room>>

Polling == ProbeEnds \/ CycleFails \/ Broadcast \/ Continue
Sends(s) == SendTaken(s) \/ SendFails(s)
Nudges(s) == NudgeTaken(s) \/ NudgeFails(s)

CastNext == \/ Polling
            \/ \E s \in Subscribers :
                 \/ Subscribe(s) \/ Goodbye(s) \/ Silence(s) \/ Dies(s)
                 \/ Sends(s) \/ Nudges(s)

CastSpec == CastInit /\ [][CastNext]_castVars

(* The event loop runs whatever is ready; every wait is timed.               *)
CastFairness == /\ WF_castVars(Polling)
                /\ \A s \in Subscribers : /\ WF_castVars(Sends(s))
                                          /\ WF_castVars(Nudges(s) \/ Silence(s))

-----------------------------------------------------------------------------
(* Whoever is registered is sent to again or leaves, also one that came when *)
(* the last loop had ended or while a cycle failed; and a subscriber that    *)
(* died without a word is forgotten and its handler ends, although its       *)
(* socket takes frames for a while.                                          *)
SubscribersServed ==
  \A s \in Subscribers :
    /\ s \in clients ~> (s \in sending \/ s \notin clients)
    /\ link[s] = "dead" ~> (s \notin clients /\ handler[s] = "closed")
=============================================================================
