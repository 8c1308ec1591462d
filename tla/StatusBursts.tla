----------------------------- MODULE StatusBursts -----------------------------
(* get_download_status of backend/service/model_download_status.py: a status *)
(* query is a burst of SSH commands, and the requests polling one log file   *)
(* share the burst in flight: its owner publishes, the others wait for its   *)
(* event.  What a burst finds is module Downloads'.                          *)
CONSTANTS Tabs,  \* the requests polling one log file
          NoTab

ASSUME NoTabAssumption == NoTab \notin Tabs

VARIABLES
  inflight, \* _dl_status_inflight: the owner of the burst
  tab,      \* each request: its step, the owner whose event it awaits, and
            \* (history) whether that burst, or a later one, was published
  locked    \* who holds _dl_status_lock across a wait

burstVars == <<inflight, tab, locked>>

NoReply  == [step |-> "idle", awaits |-> NoTab, fresh |-> FALSE]
Bursting == {"computing", "computed", "raised", "closing"}
Steps    == {"idle", "missed", "waiting", "woken", "unserved", "racing"} \cup Bursting

BurstTypeOK ==
  /\ {inflight, locked} \subseteq Tabs \cup {NoTab}
  /\ tab \in [Tabs -> [step : Steps, awaits : Tabs \cup {NoTab}, fresh : BOOLEAN]]

BurstInit == /\ inflight = NoTab /\ locked = NoTab
             /\ tab = [t \in Tabs |-> NoReply]

LockFree == locked = NoTab

(* The answer is _dl_status_last, the result last published, if any.         *)
Settle(t) == tab' = [tab EXCEPT ![t] = NoReply]

(* get_download_status: a look at the owner, under the lock.                 *)
Look(t) ==
  /\ tab[t].step = "idle"
  /\ LockFree
  /\ tab' = [tab EXCEPT ![t] =
       [step |-> IF inflight = NoTab THEN "missed" ELSE "waiting", awaits |-> inflight,
        fresh |-> \E u \in Tabs : inflight = u /\ tab[u].step = "closing"]]
  /\ UNCHANGED <<inflight, locked>>

(* Mutant: no second look at the owner.                                      *)
MayClaimBlindly == TRUE

MayClaim == inflight = NoTab

Claim(t) ==
  /\ tab[t].step = "missed"
  /\ LockFree
  /\ MayClaim
  /\ inflight' = t
  /\ tab' = [tab EXCEPT ![t].step = "computing"]
  /\ UNCHANGED locked

(* Somebody claimed in between: its event is awaited under the lock.         *)
ClaimLost(t) ==
  /\ tab[t].step = "missed"
  /\ LockFree
  /\ inflight # NoTab
  /\ tab' = [tab EXCEPT ![t].step = "racing", ![t].awaits = inflight]
  /\ locked' = t
  /\ UNCHANGED inflight

(* _compute_download_status, or an exception that leaves nothing to publish.  *)
Compute(t) ==
  /\ tab[t].step = "computing"
  /\ \E s \in {"computed", "raised"} : tab' = [tab EXCEPT ![t].step = s]
  /\ UNCHANGED <<inflight, locked>>

Publish(t) ==
  /\ tab[t].step = "computed"
  /\ LockFree
  /\ tab' = [u \in Tabs |-> IF u = t THEN [tab[u] EXCEPT !.step = "closing"]
                                      ELSE [tab[u] EXCEPT !.fresh = tab[u].step # "idle"]]
  /\ UNCHANGED <<inflight, locked>>

(* Mutant: the claim is given back only after a result was published.        *)
ClosesPublished(t) == tab[t].step = "closing"

Closes(t) == tab[t].step \in {"closing", "raised"}

(* The finally clause gives the claim back and wakes the followers.          *)
Close(t) ==
  /\ Closes(t)
  /\ LockFree
  /\ inflight' = NoTab
  /\ tab' = [u \in Tabs |->
       CASE u = t -> NoReply
         [] tab[u].step = "waiting" /\ tab[u].awaits = t ->
              [tab[u] EXCEPT !.step = IF tab[t].step = "closing" THEN "woken" ELSE "unserved"]
         [] OTHER -> tab[u]]
  /\ UNCHANGED locked

(* A follower reads the last result when the event is set or 30 s are over.  *)
Follow(t) ==
  /\ tab[t].step \in {"waiting", "woken", "unserved"}
  /\ LockFree
  /\ Settle(t)
  /\ UNCHANGED <<inflight, locked>>

(* The owner cannot publish meanwhile: only the timeout ends the race.       *)
RaceTimesOut(t) ==
  /\ tab[t].step = "racing"
  /\ Settle(t)
  /\ locked' = NoTab
  /\ UNCHANGED inflight

(* What a request does under the lock, and what it does without it.          *)
Locking(t) == Claim(t) \/ ClaimLost(t) \/ Publish(t) \/ Close(t) \/ Follow(t)
Unlocked(t) == Compute(t) \/ RaceTimesOut(t)

BurstNext == \E t \in Tabs : Look(t) \/ Locking(t) \/ Unlocked(t)

BurstSpec == BurstInit /\ [][BurstNext]_burstVars

(* A thread of the pool runs; every wait for an event is timed; a thread that *)
(* keeps asking for the lock gets it, but new requests may get it first.     *)
BurstFairness == \A t \in Tabs : SF_burstVars(Unlocked(t) \/ Locking(t))

-----------------------------------------------------------------------------
(* Concurrent requests share one burst: there is one owner at a time, it is  *)
(* the registered one, and a follower its event wakes finds the result of    *)
(* the burst that was in flight when the follower came, or of a later one.   *)
BurstShared ==
  /\ \A t \in Tabs : tab[t].step \in Bursting <=> inflight = t
  /\ \A t \in Tabs : tab[t].step = "woken" => tab[t].fresh

(* Every status request is answered, although one that lost the race for the *)
(* claim holds the lock its owner needs: the race is timed.                  *)
StatusAnswered == \A t \in Tabs : tab[t].step # "idle" ~> tab[t].step = "idle"
=============================================================================
