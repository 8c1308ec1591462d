-------------------------- MODULE StateStoreProofs --------------------------
(* The safety properties of the three services, for every set of models,     *)
(* timers, requests and subscribers and every bound: the state store with    *)
(* its refinement of DurableState, the shared bursts, the hardware feed.     *)
EXTENDS Services, TLAPS

(* What is in the .tmp file when it is about to be renamed.                  *)
TmpComplete == writer = "written" => tmp = mem

(* The lock is held for the whole write: nothing changes meanwhile.          *)
WriterCleans == writer # "idle" => ~dirty

IInv == TypeOK /\ TmpComplete /\ WriterCleans /\ DirtyIsScheduled /\ CleanIsSaved /\ FileIsWhole

LEMMA LoadedType == ASSUME NEW c \in Contents PROVE Loaded(c) \in Contents
  BY DEF Loaded, Contents, Transient

LEMMA InitIInv == Init => IInv
<1> SUFFICES ASSUME Init PROVE IInv
  OBVIOUS
<1>1. mem \in Contents
  BY LoadedType DEF Init
<1>2. TypeOK
  <2>1. changes \in 0..MaxChanges /\ failures \in 0..MaxFailures
    BY StoreBounds DEF Init
  <2>2. {disk, tmp} \subseteq Contents \cup {Torn}
    BY DEF Init
  <2> QED
    BY <1>1, <2>1, <2>2 DEF Init, TypeOK
<1>3. FileIsWhole
  BY TornAssumption DEF Init, FileIsWhole
<1> QED
  BY <1>2, <1>3 DEF Init, IInv, TmpComplete, WriterCleans, DirtyIsScheduled, CleanIsSaved

LEMMA StepIInv == IInv /\ [Next]_vars => IInv'
<1> SUFFICES ASSUME IInv, [Next]_vars PROVE IInv'
  OBVIOUS
<1> USE StoreBounds, TornAssumption, NoTimerAssumption
    DEF IInv, TypeOK, TmpComplete, WriterCleans, DirtyIsScheduled, CleanIsSaved, FileIsWhole,
        bounds, timerVars
<1>1. CASE Change
  BY <1>1 DEF Change, ArmedAfterSave, Free
<1>2. ASSUME NEW t \in Timers, Fire(t) PROVE IInv'
  BY <1>2 DEF Fire
<1>3. ASSUME NEW t \in Timers, FlushIdle(t) PROVE IInv'
  BY <1>3 DEF FlushIdle
<1>4. ASSUME NEW t \in Timers, FlushBegin(t) PROVE IInv'
  BY <1>4 DEF FlushBegin
<1>5. CASE FlushWrite
  BY <1>5 DEF FlushWrite
<1>6. CASE FlushReplace
  BY <1>6 DEF FlushReplace, Replaceable
<1>7. CASE FlushFail
  BY <1>7 DEF FlushFail, DirtyAfterFailure, Free
<1>8. CASE Crash
  <2>1. mem' \in Contents
    BY <1>8, LoadedType DEF Crash
  <2> QED
    BY <1>8, <2>1 DEF Crash
<1>9. CASE Exit
  <2>1. mem' \in Contents /\ disk' \in Contents
    BY <1>9, LoadedType DEF Exit
  <2>2. mem' = Loaded(disk')
    BY <1>9 DEF Exit
  <2> QED
    BY <1>9, <2>1, <2>2 DEF Exit
<1>10. CASE UNCHANGED vars
  BY <1>10 DEF vars
<1> QED
  BY <1>1, <1>2, <1>3, <1>4, <1>5, <1>6, <1>7, <1>8, <1>9, <1>10 DEF Next

LEMMA Inductive == Spec => []IInv
  BY InitIInv, StepIInv, PTL DEF Spec

(* The store never leaves its types.                                         *)
THEOREM StoreTypes == Spec => []TypeOK
<1>1. IInv => TypeOK
  BY DEF IInv
<1> QED
  BY <1>1, Inductive, PTL

(* A dirty state always has a timer on its way to write it, however timers   *)
(* are cancelled, unregistered by others and retried.                        *)
THEOREM NeverDirtyForGood == Spec => []DirtyIsScheduled
<1>1. IInv => DirtyIsScheduled
  BY DEF IInv
<1> QED
  BY <1>1, Inductive, PTL

(* A clean idle store has written what is in memory.                         *)
THEOREM CleanMeansSaved == Spec => []CleanIsSaved
<1>1. IInv => CleanIsSaved
  BY DEF IInv
<1> QED
  BY <1>1, Inductive, PTL

(* A crash at any instant, also inside the write, finds a whole file.        *)
THEOREM FileNeverTorn == Spec => []FileIsWhole
<1>1. IInv => FileIsWhole
  BY DEF IInv
<1> QED
  BY <1>1, Inductive, PTL

-----------------------------------------------------------------------------
(* The refinement: every step of the store is a step of the durable state it *)
(* promises, or none.                                                        *)

LEMMA InitRefines == Init => Durable!Init
  BY DEF Init, Durable!Init

LEMMA StepRefines == IInv /\ [Next]_vars => [Durable!Next]_(Durable!durableVars)
<1> SUFFICES ASSUME IInv, [Next]_vars PROVE [Durable!Next]_(Durable!durableVars)
  OBVIOUS
<1> USE DEF Durable!durableVars, bounds, timerVars
<1>1. CASE Change
  BY <1>1 DEF Change, Durable!Next, Durable!Change
<1>2. ASSUME NEW t \in Timers, Fire(t) \/ FlushIdle(t) PROVE UNCHANGED Durable!durableVars
  BY <1>2 DEF Fire, FlushIdle
<1>3. ASSUME NEW t \in Timers, FlushBegin(t) PROVE UNCHANGED Durable!durableVars
  BY <1>3 DEF FlushBegin
<1>4. CASE FlushWrite
  BY <1>4 DEF FlushWrite
<1>5. CASE FlushReplace
  BY <1>5 DEF FlushReplace, Replaceable, IInv, TmpComplete, WriterCleans,
              Durable!Next, Durable!Save
<1>6. CASE FlushFail
  BY <1>6 DEF FlushFail, DirtyAfterFailure
<1>7. CASE Crash
  BY <1>7 DEF Crash, Durable!Next, Durable!Restart
<1>8. CASE Exit
  <2>1. CASE dirty
    BY <1>8, <2>1 DEF Exit, Durable!Next, Durable!Shutdown
  <2>2. CASE ~dirty
    BY <1>8, <2>2 DEF Exit, IInv, TypeOK, Durable!Next, Durable!Restart
  <2> QED
    BY <2>1, <2>2
<1>9. CASE UNCHANGED vars
  BY <1>9 DEF vars
<1> QED
  BY <1>1, <1>2, <1>3, <1>4, <1>5, <1>6, <1>7, <1>8, <1>9 DEF Next

(* The store implements the durable state: the file always is what the       *)
(* memory was at some moment, whole, a restart comes back to the file, and    *)
(* only a death of the process loses a change.                               *)
THEOREM StoreIsDurable == Spec => Durable!Spec
  BY InitRefines, StepRefines, Inductive, PTL DEF Spec, Durable!Spec

-----------------------------------------------------------------------------
(* StatusBursts.  A follower of a burst that has published, and whose event  *)
(* it is about to set, finds the result of that burst or of a later one.     *)
FollowersServed ==
  \A t, u \in Tabs :
    tab[t].step = "waiting" /\ tab[t].awaits = u /\ tab[u].step = "closing" => tab[t].fresh

BurstInv == BurstTypeOK /\ BurstShared /\ FollowersServed

LEMMA BurstInitially == BurstInit => BurstInv
  BY NoTabAssumption
  DEF BurstInit, BurstInv, BurstTypeOK, BurstShared, FollowersServed, NoReply, Steps, Bursting

LEMMA BurstStep == BurstInv /\ [BurstNext]_burstVars => BurstInv'
<1> SUFFICES ASSUME BurstInv, [BurstNext]_burstVars PROVE BurstInv'
  OBVIOUS
<1> USE NoTabAssumption
    DEF BurstInv, BurstTypeOK, BurstShared, FollowersServed, Steps, Bursting
<1>1. ASSUME NEW t \in Tabs, Look(t) PROVE BurstInv'
  <2> DEFINE owner == IF inflight = NoTab THEN "missed" ELSE "waiting"
             done == \E u \in Tabs : inflight = u /\ tab[u].step = "closing"
             reply == [step |-> owner, awaits |-> inflight, fresh |-> done]
  <2>1. tab' = [tab EXCEPT ![t] = reply] /\ UNCHANGED <<inflight, locked>> /\ tab[t].step = "idle"
    BY <1>1 DEF Look
  <2>2. /\ owner \in {"missed", "waiting"}
        /\ done \in BOOLEAN
        /\ \A u \in Tabs : inflight = u /\ tab[u].step = "closing" => done
    OBVIOUS
  <2> HIDE DEF owner, done
  <2>3. /\ reply \in [step : Steps, awaits : Tabs \cup {NoTab}, fresh : BOOLEAN]
        /\ reply.step = owner /\ reply.awaits = inflight /\ reply.fresh = done
    BY <2>2
  <2> HIDE DEF reply
  <2>4. BurstTypeOK'
    BY <2>1, <2>3
  <2>5. BurstShared'
    BY <2>1, <2>2, <2>3
  <2>6. FollowersServed'
    BY <2>1, <2>2, <2>3
  <2> QED
    BY <2>4, <2>5, <2>6
<1>2. ASSUME NEW t \in Tabs, Claim(t) PROVE BurstInv'
  BY <1>2 DEF Claim, LockFree, MayClaim
<1>3. ASSUME NEW t \in Tabs, ClaimLost(t) PROVE BurstInv'
  <2>1. /\ tab' = [tab EXCEPT ![t] = [tab[t] EXCEPT !.step = "racing", !.awaits = inflight]]
        /\ tab[t].step = "missed" /\ locked' = t /\ UNCHANGED inflight
    BY <1>3 DEF ClaimLost
  <2>2. ASSUME NEW u \in Tabs
        PROVE  /\ tab'[u] \in [step : Steps, awaits : Tabs \cup {NoTab}, fresh : BOOLEAN]
               /\ u # t => tab'[u] = tab[u]
               /\ tab'[t].step = "racing"
    BY <2>1
  <2>3. tab' \in [Tabs -> [step : Steps, awaits : Tabs \cup {NoTab}, fresh : BOOLEAN]]
    BY <2>1, <2>2
  <2>4. BurstShared'
    BY <2>1, <2>2
  <2>5. FollowersServed'
    BY <2>2
  <2> QED
    BY <2>1, <2>3, <2>4, <2>5
<1>4. ASSUME NEW t \in Tabs, Publish(t) PROVE BurstInv'
  <2>1. /\ tab[t].step = "computed" /\ UNCHANGED <<inflight, locked>>
        /\ tab' = [u \in Tabs |-> IF u = t THEN [tab[u] EXCEPT !.step = "closing"]
                                  ELSE [tab[u] EXCEPT !.fresh = tab[u].step # "idle"]]
    BY <1>4 DEF Publish
  <2>2. ASSUME NEW u \in Tabs
        PROVE  /\ tab'[u] \in [step : Steps, awaits : Tabs \cup {NoTab}, fresh : BOOLEAN]
               /\ u # t => tab'[u].step = tab[u].step
               /\ u # t => (tab'[u].fresh = (tab[u].step # "idle"))
               /\ tab'[t].step = "closing"
    <3>1. tab[u] \in [step : Steps, awaits : Tabs \cup {NoTab}, fresh : BOOLEAN]
      OBVIOUS
    <3>2. CASE u = t
      BY <2>1, <3>1, <3>2
    <3>3. CASE u # t
      <4>1. tab'[u] = [tab[u] EXCEPT !.fresh = (tab[u].step # "idle")]
        BY <2>1, <3>3
      <4>2. (tab[u].step # "idle") \in BOOLEAN
        OBVIOUS
      <4>3. ASSUME NEW b \in BOOLEAN, tab'[u] = [tab[u] EXCEPT !.fresh = b]
            PROVE  /\ tab'[u] \in [step : Steps, awaits : Tabs \cup {NoTab}, fresh : BOOLEAN]
                   /\ tab'[u].step = tab[u].step /\ tab'[u].fresh = b
        BY <3>1, <4>3
      <4>4. tab'[t].step = "closing"
        BY <2>1
      <4> QED
        BY <4>1, <4>2, <4>3, <4>4
    <3> QED
      BY <3>2, <3>3
  <2>3. BurstTypeOK'
    <3>1. tab' \in [Tabs -> [step : Steps, awaits : Tabs \cup {NoTab}, fresh : BOOLEAN]]
      BY <2>1, <2>2
    <3> QED
      BY <2>1, <3>1
  <2>4. BurstShared'
    <3>1. ASSUME NEW u \in Tabs PROVE tab'[u].step \in Bursting <=> inflight = u
      BY <2>1, <2>2
    <3>2. ASSUME NEW u \in Tabs, tab'[u].step = "woken" PROVE tab'[u].fresh
      BY <2>1, <2>2, <3>2
    <3> QED
      BY <2>1, <3>1, <3>2
  <2>5. FollowersServed'
    <3> HIDE DEF BurstInv, BurstTypeOK, BurstShared, FollowersServed
    <3>1. ASSUME NEW u \in Tabs, tab'[u].step = "waiting" PROVE tab'[u].fresh
      <4>1. u # t
        BY <2>2, <3>1
      <4>2. tab[u].step = "waiting"
        BY <2>2, <3>1, <4>1
      <4> QED
        BY <2>2, <4>1, <4>2
    <3> QED
      BY <3>1 DEF FollowersServed
  <2> QED
    BY <2>3, <2>4, <2>5
<1>5. ASSUME NEW t \in Tabs, Close(t) PROVE BurstInv'
  BY <1>5 DEF Close, Closes, LockFree, NoReply
<1>6. ASSUME NEW t \in Tabs, Follow(t) PROVE BurstInv'
  BY <1>6 DEF Follow, Settle, LockFree, NoReply
<1>7. ASSUME NEW t \in Tabs, Compute(t) PROVE BurstInv'
  BY <1>7 DEF Compute
<1>8. ASSUME NEW t \in Tabs, RaceTimesOut(t) PROVE BurstInv'
  BY <1>8 DEF RaceTimesOut, Settle, NoReply
<1>9. CASE UNCHANGED burstVars
  BY <1>9 DEF burstVars
<1> QED
  BY <1>1, <1>2, <1>3, <1>4, <1>5, <1>6, <1>7, <1>8, <1>9 DEF BurstNext, Locking, Unlocked

LEMMA BurstInvAlways == BurstSpec => []BurstInv
  BY BurstInitially, BurstStep, PTL DEF BurstSpec

(* Theorem: requests that poll one log file share one burst, whose owner is  *)
(* the registered one, and whom its event wakes finds the result of the      *)
(* burst that was in flight when it came, or of a later one, for any number  *)
(* of requests, exceptions and timeouts.                                     *)
THEOREM BurstsAreShared == BurstSpec => []BurstShared
<1>1. BurstInv => BurstShared
  BY DEF BurstInv
<1> QED
  BY <1>1, BurstInvAlways, PTL

-----------------------------------------------------------------------------
(* The hardware feed's state keeps its shape.                                *)
LEMMA CastInitially == CastInit => CastTypeOK
  BY BroadcastBounds DEF CastInit, CastTypeOK

LEMMA CastStep == CastTypeOK /\ [CastNext]_castVars => CastTypeOK'
<1> SUFFICES ASSUME CastTypeOK, [CastNext]_castVars PROVE CastTypeOK'
  OBVIOUS
<1> USE BroadcastBounds DEF CastTypeOK
<1>1. CASE Polling
  BY <1>1 DEF Polling, ProbeEnds, CycleFails, Broadcast, Continue
<1>2. ASSUME NEW s \in Subscribers,
             Subscribe(s) \/ Goodbye(s) \/ Silence(s) \/ Dies(s) PROVE CastTypeOK'
  BY <1>2 DEF Subscribe, Goodbye, Silence, Dies, Ends, LoopEnded
<1>3. ASSUME NEW s \in Subscribers, Sends(s) PROVE CastTypeOK'
  BY <1>3 DEF Sends, SendTaken, SendFails, Taken
<1>4. ASSUME NEW s \in Subscribers, Nudges(s) PROVE CastTypeOK'
  BY <1>4 DEF Nudges, NudgeTaken, NudgeFails, Taken, Ends
<1>5. CASE UNCHANGED castVars
  BY <1>5 DEF castVars
<1> QED
  BY <1>1, <1>2, <1>3, <1>4, <1>5 DEF CastNext

-----------------------------------------------------------------------------
(* A behaviour of the services is one of each: the steps of one leave the    *)
(* variables of the others alone.                                            *)
LEMMA ServicesAlone ==
  /\ ServiceSpec => Spec
  /\ ServiceSpec => BurstSpec
  /\ ServiceSpec => CastSpec
<1>1. ServiceInit => Init /\ BurstInit /\ CastInit
  BY DEF ServiceInit
<1>2. [ServiceNext]_serviceVars => [Next]_vars /\ [BurstNext]_burstVars /\ [CastNext]_castVars
  BY DEF ServiceNext, serviceVars
<1> QED
  BY <1>1, <1>2, PTL DEF ServiceSpec, Spec, BurstSpec, CastSpec

(* Theorem: the state of each service keeps its shape, whichever moves.      *)
THEOREM ServiceTypes == ServiceSpec => []ServiceTypeOK
<1>1. CastSpec => []CastTypeOK
  BY CastInitially, CastStep, PTL DEF CastSpec
<1>2. BurstInv => BurstTypeOK
  BY DEF BurstInv
<1>3. TypeOK /\ BurstTypeOK /\ CastTypeOK => ServiceTypeOK
  BY DEF ServiceTypeOK
<1> QED
  BY <1>1, <1>2, <1>3, ServicesAlone, StoreTypes, BurstInvAlways, PTL

(* Theorem: what is proved of the services holds where they run side by      *)
(* side: no change unsaved without a save on its way, no file torn, bursts   *)
(* shared, and the store implementing the safety of DurableState.            *)
THEOREM ServicesSafe ==
  ServiceSpec => /\ [](DirtyIsScheduled /\ CleanIsSaved /\ FileIsWhole)
                 /\ []BurstShared
                 /\ Durable!Spec
<1> QED
  BY ServicesAlone, NeverDirtyForGood, CleanMeansSaved, FileNeverTorn, BurstsAreShared,
     StoreIsDurable, PTL
=============================================================================
