-------------------------- MODULE DeploymentProofs ---------------------------
(* The safety properties of deployment tasks, for every number of tasks,     *)
(* requests, reconciliations, restarts and failures.                         *)
EXTENDS Deployment, WellFoundedInduction, TLAPS

(* Where a task's thread stands says what its status may be.                 *)
ThreadFits(t) ==
  /\ pc[t] = "ready" => status[t] = "queued"
  /\ pc[t] \in {"step", "launched", "poll", "kill", "expire"} => status[t] = "running"
  /\ pc[t] \in {"launched", "poll"} => left[t] > 0
  /\ pc[t] = "ran" => status[t] \in {"running", "awaiting_reboot", "success", "failed"}
  /\ pc[t] = "record" => status[t] \in {"success", "failed", "cancelled", "awaiting_reboot"}

(* A task that has not ended has no history entry, and one that has ended    *)
(* has at most one while somebody may still push another.                    *)
Ended == {"success", "failed", "cancelled"}
PushesFit(t) ==
  /\ status[t] \notin Ended => pushed[t] = 0
  /\ pc[t] \in {"ran", "record"} => pushed[t] <= 1
  /\ attach.pc = "record" /\ attach.t = t => pushed[t] = 0

(* A remote job that runs, while SSH has never failed, has a thread between  *)
(* its launch and its end, or none because the dashboard was restarted.      *)
JobFits(t) ==
  trouble = MaxTrouble /\ job[t] = "running"
    => /\ pc[t] \in {"none", "launched", "poll", "kill", "expire"}
       /\ status[t] \in {"running", "interrupted"}

(* A request that created its task holds it alone until it submits it.       *)
RequestsFit ==
  /\ \A r \in Reqs : req[r].pc = "created" =>
       /\ req[r].t \in Ids
       /\ status[req[r].t] = "queued" /\ pc[req[r].t] = "none"
  /\ \A r, s \in Reqs : req[r].pc = "created" /\ req[s].pc = "created" /\ req[r].t = req[s].t
                        => r = s

(* The reattach thread takes interrupted tasks only, and nobody else touches *)
(* the one it watches.                                                       *)
AttachFits ==
  /\ \A t \in attach.todo : status[t] = "interrupted"
  /\ attach.pc \in {"watch", "record"} => attach.t \in Ids /\ pc[attach.t] = "none"
  /\ attach.pc = "watch" => status[attach.t] = "running"
  /\ attach.pc = "record" => status[attach.t] \in Ended

TasksFit == \A t \in Ids : ThreadFits(t) /\ PushesFit(t) /\ JobFits(t)

DeployInv == TypeOK /\ TasksFit /\ RequestsFit /\ AttachFits /\ ClaimsHeld

USE DeployBounds, KindsAssumption, RestartsAssumption

-----------------------------------------------------------------------------
(* Sets of task ids have a first and a last member.                          *)
LEMMA LeastNatural ==
  ASSUME NEW S, S \subseteq Nat, S # {}
  PROVE  \E x \in S : \A y \in S : x <= y
<1>1. PICK x \in S : \A y \in S : ~ (<<y, x>> \in OpToRel(<, Nat))
  BY NatLessThanWellFounded, WFMin
<1>2. ASSUME NEW y \in S PROVE x <= y
  <2>1. <<y, x>> \in Nat \X Nat /\ <<y, x>>[1] = y /\ <<y, x>>[2] = x
    OBVIOUS
  <2>2. ~ (y < x)
    BY <1>1, <2>1 DEF OpToRel
  <2> QED
    BY <2>2
<1> QED
  BY <1>1, <1>2

LEMMA NewestIn ==
  ASSUME NEW S, S \subseteq Ids, S # {}
  PROVE  Newest(S) \in S
<1> DEFINE D == {MaxTasks - t : t \in S}
<1>1. D \subseteq Nat /\ D # {}
  <2>1. MaxTasks \in Nat
    OBVIOUS
  <2>2. \A t \in S : t \in Nat /\ MaxTasks - t \in Nat
    BY <2>1 DEF Ids
  <2> QED
    BY <2>2
<1>2. PICK d \in D : \A e \in D : d <= e
  <2> HIDE DEF D
  <2> QED
    BY <1>1, LeastNatural
<1>3. PICK t \in S : d = MaxTasks - t
  BY <1>2
<1>4. \A u \in S : u <= t
  <2> TAKE u \in S
  <2>1. MaxTasks - u \in D
    OBVIOUS
  <2>2. MaxTasks - t <= MaxTasks - u
    BY <1>2, <1>3, <2>1
  <2> QED
    BY <2>2 DEF Ids
<1> QED
  BY <1>4 DEF Newest
LEMMA FirstFree ==
  ASSUME \E u \in Ids : status[u] = "none"
  PROVE  LET t == CHOOSE u \in Ids : status[u] = "none" /\ \A v \in 1..(u - 1) : status[v] # "none"
         IN  t \in Ids /\ status[t] = "none"
<1> DEFINE F == {u \in Ids : status[u] = "none"}
<1>1. F \subseteq Nat /\ F # {}
  BY DEF Ids
<1>2. PICK u \in F : \A v \in F : u <= v
  <2> HIDE DEF F
  <2> QED
    BY <1>1, LeastNatural
<1>3. u \in Ids /\ status[u] = "none" /\ \A v \in 1..(u - 1) : status[v] # "none"
  BY <1>2 DEF Ids
<1> QED
  BY <1>3

LEMMA DeployInvInit == Init => DeployInv
<1> SUFFICES ASSUME Init PROVE DeployInv
  OBVIOUS
<1>1. TypeOK
  BY DEF Init, TasksInit, TypeOK, TasksTypeOK, AttachOff, ReqIdle, Statuses, Pcs, Jobs,
         Ids, NoTask, Pipelines
<1>2. TasksFit /\ RequestsFit /\ AttachFits
  BY DEF Init, TasksInit, TasksFit, ThreadFits, PushesFit, JobFits, RequestsFit, AttachFits,
         AttachOff, ReqIdle
<1>3. Inflight = {}
  BY DEF Init, TasksInit, Inflight
<1> QED
  BY <1>1, <1>2, <1>3 DEF DeployInv, ClaimsHeld, ClaimOwned, ClaimsExclusive

(* What a step of one task's thread does, seen from outside.                 *)
Moved(t) ==
  /\ status' \in [Ids -> Statuses] /\ pc' \in [Ids -> Pcs] /\ left' \in [Ids -> 0..LongSteps]
  /\ job' \in [Ids -> Jobs] /\ pushed' \in [Ids -> 0..2] /\ trouble' \in 0..trouble
  /\ files' \subseteq Ids
  /\ \A u \in Ids \ {t} : /\ status'[u] = status[u] /\ pc'[u] = pc[u] /\ left'[u] = left[u]
                          /\ pushed'[u] = pushed[u]
                          /\ job'[u] = "running" => job[u] = "running"
  /\ pc[t] # "none" /\ (t \in Inflight' => t \in Inflight /\ pc'[t] # "none")
  /\ ThreadFits(t)' /\ PushesFit(t)' /\ JobFits(t)'
  /\ UNCHANGED <<kind, event, req, recon, attach, restarts>>

LEMMA ThreadMoves ==
  ASSUME DeployInv, NEW t \in Ids, Thread(t), UNCHANGED Local
  PROVE  Moved(t)
<1> USE DEF DeployInv, TypeOK, TasksTypeOK, Statuses, Pcs, Jobs, TasksFit, ThreadFits, PushesFit,
            JobFits, Ended, Inflight, Local, Set, Moved
<1>0. attach.pc = "record" /\ attach.t = t => pc[t] = "none"
  BY DEF AttachFits
<1>1. CASE Begin(t)
  BY <1>0, <1>1 DEF Begin
<1>2. CASE StepCancelled(t)
  BY <1>0, <1>2 DEF StepCancelled, Stops
<1>3. CASE Launch(t)
  <2>1. CASE trouble' = trouble
    BY <1>0, <1>3, <2>1 DEF Launch, Spend, Breaks
  <2>2. CASE Spend /\ job' \in {job, Set(job, t, "running")} /\ Breaks(t)
    <3>1. job' \in [Ids -> Jobs] /\ \A u \in Ids \ {t} : job'[u] = job[u]
      BY <2>2
    <3>2. trouble' \in 0..trouble /\ trouble' \in 0..MaxTrouble /\ trouble' # MaxTrouble
      BY <2>2 DEF Spend
    <3>3. /\ pc[t] = "step" /\ pc' = [pc EXCEPT ![t] = "record"]
          /\ status' = [status EXCEPT ![t] = "failed"]
          /\ UNCHANGED <<kind, left, event, files, pushed, req>>
      BY <1>3, <2>2 DEF Launch, Breaks
    <3> QED
      BY <1>0, <3>1, <3>2, <3>3
  <2> QED
    BY <1>3, <2>1, <2>2 DEF Launch
<1>4. CASE Record(t)
  BY <1>0, <1>4 DEF Record
<1>5. CASE PollCancelled(t)
  BY <1>0, <1>5 DEF PollCancelled
<1>6. CASE PollDone(t)
  BY <1>0, <1>6 DEF PollDone
<1>7. CASE PollFails(t)
  BY <1>0, <1>7 DEF PollFails, Spend, Breaks
<1>8. CASE PollKills(t)
  <2>1. /\ job' \in [Ids -> Jobs] /\ \A u \in Ids \ {t} : job'[u] = job[u]
        /\ trouble' \in 0..trouble /\ trouble' \in 0..MaxTrouble
        /\ trouble' = MaxTrouble => job'[t] # "running"
    BY <1>8 DEF PollKills, KillJob, Spend
  <2>2. UNCHANGED <<kind, left, event, pushed, req, recon, attach, restarts>>
    BY <1>8 DEF PollKills
  <2>3. CASE pc[t] = "kill"
    <3>1. /\ files' = files \ {t}
          /\ pc' = [pc EXCEPT ![t] = "none"]
          /\ status' = [status EXCEPT ![t] = "cancelled"]
      BY <1>8, <2>3 DEF PollKills, Stops
    <3> QED
      BY <1>0, <2>1, <2>2, <2>3, <3>1
  <2>4. CASE pc[t] = "expire"
    <3>1. /\ files' = files
          /\ pc' = [pc EXCEPT ![t] = "record"]
          /\ status' = [status EXCEPT ![t] = "failed"]
      BY <1>8, <2>4 DEF PollKills, Breaks
    <3> QED
      BY <1>0, <2>1, <2>2, <2>4, <3>1
  <2> QED
    BY <1>8, <2>3, <2>4 DEF PollKills
<1>9. CASE Returns(t)
  BY <1>0, <1>9 DEF Returns
<1>10. CASE VerifyFails(t)
  BY <1>0, <1>10 DEF VerifyFails, Spend, Breaks
<1>11. CASE Succeeds(t)
  BY <1>0, <1>11 DEF Succeeds
<1>12. CASE RecordHistory(t)
  BY <1>0, <1>12 DEF RecordHistory, Finished
<1> QED
  BY <1>1, <1>2, <1>3, <1>4, <1>5, <1>6, <1>7, <1>8, <1>9, <1>10, <1>11, <1>12 DEF Thread

LEMMA RebootMoves ==
  ASSUME DeployInv, NEW t \in Ids, Reboot(t)
  PROVE  Moved(t)
<1> USE DEF DeployInv, TypeOK, TasksTypeOK, Statuses, Pcs, Jobs, TasksFit, ThreadFits, PushesFit,
            JobFits, Ended, Inflight, Set, Moved
<1>0. attach.pc = "record" /\ attach.t = t => pc[t] = "none"
  BY DEF AttachFits
<1>1. CASE HostReboots /\ pc' = Set(pc, t, "ran") /\ UNCHANGED <<status, trouble>>
  <2>1. job' \in [Ids -> Jobs] /\ \A u \in Ids : job'[u] # "running"
    BY <1>1 DEF HostReboots
  <2>2. /\ pc[t] = "step" /\ pc' = [pc EXCEPT ![t] = "ran"]
        /\ UNCHANGED <<status, kind, left, event, files, pushed, req, trouble, recon, attach,
                       restarts>>
    BY <1>1 DEF Reboot
  <2> QED
    BY <1>0, <2>1, <2>2
<1>2. CASE Spend /\ Breaks(t) /\ UNCHANGED <<job, active>>
  <2>1. trouble' \in 0..trouble /\ trouble' \in 0..MaxTrouble /\ trouble' # MaxTrouble
    BY <1>2 DEF Spend
  <2>2. /\ pc[t] = "step" /\ pc' = [pc EXCEPT ![t] = "record"]
        /\ status' = [status EXCEPT ![t] = "failed"]
        /\ UNCHANGED <<kind, left, event, files, job, pushed, req, recon, attach, restarts>>
    BY <1>2 DEF Reboot, Breaks
  <2> QED
    BY <1>0, <2>1, <2>2
<1> QED
  BY <1>1, <1>2 DEF Reboot

(* Nothing but the thread's own task is touched.                             *)
LEMMA MovedKeeps ==
  ASSUME DeployInv, NEW t \in Ids, Moved(t), active' \subseteq Ids
  PROVE  DeployInv'
<1> USE DEF DeployInv, Moved
<1>1. TasksFit'
  <2>1. ASSUME NEW u \in Ids, u # t PROVE (ThreadFits(u) /\ PushesFit(u) /\ JobFits(u))'
    <3>1. ThreadFits(u) /\ PushesFit(u) /\ JobFits(u)
      BY DEF TasksFit
    <3>2. trouble' = MaxTrouble => trouble = MaxTrouble
      BY DEF TypeOK, TasksTypeOK
    <3> QED
      BY <2>1, <3>1, <3>2 DEF ThreadFits, PushesFit, JobFits
  <2> QED
    BY <2>1 DEF TasksFit
<1>2. RequestsFit'
  BY DEF RequestsFit
<1>3. AttachFits'
  <2>1. \A u \in attach.todo : u \in Ids /\ u # t
    BY DEF AttachFits, TasksFit, ThreadFits, TypeOK, TasksTypeOK, Pcs
  <2> QED
    BY <2>1 DEF AttachFits
<1>4. \A u \in Inflight' : u \in Inflight
  BY DEF Inflight
<1>5. ClaimOwned'
  <2>1. ASSUME NEW u \in Inflight'
        PROVE  \/ pc'[u] # "none"
               \/ \E r \in Reqs : req'[r].pc = "created" /\ req'[r].t = u
               \/ attach'.pc = "watch" /\ attach'.t = u
    BY <1>4, <2>1 DEF ClaimsHeld, ClaimOwned, Inflight
  <2> QED
    BY <2>1 DEF ClaimOwned
<1>6. ClaimsExclusive'
  BY <1>4 DEF ClaimsHeld, ClaimsExclusive, Domain
<1>7. TypeOK'
  <2>1. trouble' \in 0..MaxTrouble
    BY DEF TypeOK, TasksTypeOK
  <2> QED
    BY <2>1 DEF TypeOK, TasksTypeOK
<1> QED
  BY <1>1, <1>2, <1>3, <1>5, <1>6, <1>7 DEF ClaimsHeld

-----------------------------------------------------------------------------
(* The steps that leave every task's status and thread alone.                *)
LEMMA QuietKeeps ==
  ASSUME DeployInv, TypeOK', UNCHANGED <<status, kind, pc, left, pushed>>, trouble' \in 0..trouble,
         \A t \in Ids : job'[t] = "running" => job[t] = "running",
         RequestsFit', AttachFits',
         \A r \in Reqs : req[r].pc = "created" => req'[r] = req[r],
         attach.pc = "watch" => attach' = attach,
         attach'.pc = "record" => attach' = attach
  PROVE  DeployInv'
<1> USE DEF DeployInv
<1>1. TasksFit'
  <2>1. ASSUME NEW u \in Ids PROVE (ThreadFits(u) /\ PushesFit(u) /\ JobFits(u))'
    <3>1. ThreadFits(u) /\ PushesFit(u) /\ JobFits(u)
      BY DEF TasksFit
    <3>2. trouble' = MaxTrouble => trouble = MaxTrouble
      BY DEF TypeOK, TasksTypeOK
    <3> QED
      BY <3>1, <3>2 DEF ThreadFits, PushesFit, JobFits
  <2> QED
    BY <2>1 DEF TasksFit
<1>2. Inflight' = Inflight
  BY DEF Inflight
<1>3. ClaimOwned'
  <2>1. ASSUME NEW t \in Inflight
        PROVE  \/ pc'[t] # "none"
               \/ \E r \in Reqs : req'[r].pc = "created" /\ req'[r].t = t
               \/ attach'.pc = "watch" /\ attach'.t = t
    <3>1. CASE \E r \in Reqs : req[r].pc = "created" /\ req[r].t = t
      BY <3>1
    <3> QED
      BY <2>1, <3>1 DEF ClaimsHeld, ClaimOwned
  <2> QED
    BY <1>2, <2>1 DEF ClaimOwned
<1>4. ClaimsExclusive'
  BY <1>2 DEF ClaimsHeld, ClaimsExclusive, Domain
<1> QED
  BY <1>1, <1>3, <1>4 DEF ClaimsHeld

LEMMA QuietSteps ==
  ASSUME DeployInv,
         \/ \E r \in Reqs : \/ \E k \in Kinds : Ask(r, k)
                            \/ Refuse(r)
         \/ \E t \in Ids : Cancel(t) \/ JobExits(t),
         UNCHANGED Local
  PROVE  DeployInv'
<1> USE DEF DeployInv, Local, taskVars
<1>1. ASSUME NEW r \in Reqs, NEW k \in Kinds, Ask(r, k) PROVE DeployInv'
  <2>1. TypeOK'
    BY <1>1 DEF Ask, TypeOK, TasksTypeOK
  <2>2. RequestsFit' /\ AttachFits'
    BY <1>1 DEF Ask, RequestsFit, AttachFits, TypeOK, TasksTypeOK
  <2> QED
    BY <1>1, <2>1, <2>2, QuietKeeps DEF Ask, TypeOK, TasksTypeOK
<1>2. ASSUME NEW r \in Reqs, Refuse(r) PROVE DeployInv'
  <2>1. trouble' \in 0..MaxTrouble /\ trouble' \in 0..trouble
    BY <1>2 DEF Refuse, Spend, TypeOK, TasksTypeOK
  <2>2. TypeOK'
    BY <1>2, <2>1 DEF Refuse, TypeOK, TasksTypeOK, ReqIdle, NoTask
  <2>3. RequestsFit' /\ AttachFits'
    BY <1>2 DEF Refuse, RequestsFit, AttachFits, TypeOK, TasksTypeOK, ReqIdle
  <2> QED
    BY <1>2, <2>1, <2>2, <2>3, QuietKeeps DEF Refuse, TypeOK, TasksTypeOK
<1>3. ASSUME NEW t \in Ids, Cancel(t) PROVE DeployInv'
  <2>1. TypeOK'
    BY <1>3 DEF Cancel, TypeOK, TasksTypeOK
  <2>2. RequestsFit' /\ AttachFits'
    BY <1>3 DEF Cancel, RequestsFit, AttachFits
  <2> QED
    BY <1>3, <2>1, <2>2, QuietKeeps DEF Cancel, TypeOK, TasksTypeOK
<1>4. ASSUME NEW t \in Ids, JobExits(t) PROVE DeployInv'
  <2>1. TypeOK' /\ \A u \in Ids : job'[u] = "running" => job[u] = "running"
    BY <1>4 DEF JobExits, TypeOK, TasksTypeOK, Jobs, Set
  <2>2. RequestsFit' /\ AttachFits'
    BY <1>4 DEF JobExits, RequestsFit, AttachFits
  <2> QED
    BY <1>4, <2>1, <2>2, QuietKeeps DEF JobExits, TypeOK, TasksTypeOK
<1> QED
  BY <1>1, <1>2, <1>3, <1>4

(* The deadline of a long step: one thread moves.                            *)
LEMMA PollExpiresKeeps ==
  ASSUME DeployInv, NEW t \in Ids, PollExpires(t), UNCHANGED Local
  PROVE  DeployInv'
<1>1. attach.pc = "record" /\ attach.t = t => pc[t] = "none"
  BY DEF DeployInv, AttachFits
<1>2. Moved(t)
  BY <1>1 DEF PollExpires, DeployInv, TypeOK, TasksTypeOK, Statuses, Pcs, Jobs, TasksFit,
              ThreadFits, PushesFit, JobFits, Ended, Inflight, Local, Set, Moved
<1> QED
  BY <1>2, MovedKeeps DEF Local, DeployInv, TypeOK

AwaitingTasks == {t \in Ids : status[t] = "awaiting_reboot"}

(* An awaiting driver task settles: the one way a task without a thread may  *)
(* end, apart from the reattach thread.                                      *)
LEMMA SettleKeeps ==
  ASSUME DeployInv, NEW S, S \subseteq AwaitingTasks, NEW end \in {"failed", "success"},
         status' = [t \in Ids |-> IF t \in S THEN end ELSE status[t]],
         pushed' = [t \in Ids |-> IF t \in S THEN pushed[t] + 1 ELSE pushed[t]],
         \A r \in Reqs : req[r].pc = "created" \/ req'[r].pc = "created" => req'[r] = req[r],
         req' \in [Reqs -> [pc : {"off", "asked", "ready", "created"},
                            k : Pipelines \cup {"reboot"}, t : Ids \cup {NoTask}]],
         recon' \in [Recons -> Ids \cup {NoTask}],
         UNCHANGED <<kind, pc, left, event, files, job, trouble, active, attach, restarts>>
  PROVE  DeployInv'
<1> USE DEF DeployInv
<1>0. \A t \in S : t \in Ids /\ status[t] = "awaiting_reboot" /\ pushed[t] = 0
  BY DEF AwaitingTasks, TasksFit, PushesFit, Ended
<1>1. TypeOK'
  BY <1>0 DEF TypeOK, TasksTypeOK, Statuses
<1>2. TasksFit'
  <2>1. ASSUME NEW t \in Ids PROVE (ThreadFits(t) /\ PushesFit(t) /\ JobFits(t))'
    <3>1. ThreadFits(t) /\ PushesFit(t) /\ JobFits(t)
      BY DEF TasksFit
    <3>2. attach.pc = "record" /\ attach.t = t => t \notin S
      BY <1>0 DEF AttachFits, Ended
    <3> QED
      BY <1>0, <3>1, <3>2 DEF ThreadFits, PushesFit, JobFits, Ended
  <2> QED
    BY <2>1 DEF TasksFit
<1>3. RequestsFit'
  BY <1>0 DEF RequestsFit
<1>4. AttachFits'
  BY <1>0 DEF AttachFits, Ended, TypeOK
<1>5. Inflight' = Inflight
  BY <1>0 DEF Inflight
<1>6. ClaimOwned'
  <2>1. ASSUME NEW t \in Inflight
        PROVE  \/ pc'[t] # "none"
               \/ \E r \in Reqs : req'[r].pc = "created" /\ req'[r].t = t
               \/ attach'.pc = "watch" /\ attach'.t = t
    BY <2>1 DEF ClaimsHeld, ClaimOwned
  <2> QED
    BY <1>5, <2>1 DEF ClaimOwned
<1>7. ClaimsExclusive'
  BY <1>5 DEF ClaimsHeld, ClaimsExclusive, Domain
<1> QED
  BY <1>1, <1>2, <1>3, <1>4, <1>6, <1>7 DEF ClaimsHeld

LEMMA SupersedeKeeps ==
  ASSUME DeployInv, NEW r \in Reqs, Supersede(r), UNCHANGED Local
  PROVE  DeployInv'
<1>1. req' = [req EXCEPT ![r].pc = "ready"] /\ req[r].pc = "asked"
  BY DEF Supersede
<1>2. /\ req' \in [Reqs -> [pc : {"off", "asked", "ready", "created"},
                            k : Pipelines \cup {"reboot"}, t : Ids \cup {NoTask}]]
      /\ \A q \in Reqs : req[q].pc = "created" \/ req'[q].pc = "created" => req'[q] = req[q]
  BY <1>1 DEF DeployInv, TypeOK, TasksTypeOK
<1>3. recon' \in [Recons -> Ids \cup {NoTask}]
  BY DEF DeployInv, TypeOK, Local
<1>4. Awaiting \subseteq AwaitingTasks
  BY DEF Awaiting, AwaitingTasks
<1> QED
  BY <1>2, <1>3, <1>4, SettleKeeps DEF Supersede, Local

LEMMA ReconcileEndKeeps ==
  ASSUME DeployInv, NEW c \in Recons, ReconcileEnd(c)
  PROVE  DeployInv'
<1> DEFINE t == recon[c]
           S == IF t \in active /\ Completable(t) THEN {t} ELSE {}
<1>1. t \in Ids /\ recon' \in [Recons -> Ids \cup {NoTask}]
  BY DEF ReconcileEnd, DeployInv, TypeOK
<1>2. /\ status' = [u \in Ids |-> IF u \in S THEN "success" ELSE status[u]]
      /\ pushed' = [u \in Ids |-> IF u \in S THEN pushed[u] + 1 ELSE pushed[u]]
  BY <1>1 DEF ReconcileEnd, DeployInv, TypeOK, TasksTypeOK, Set
<1>3. /\ \A q \in Reqs : req[q].pc = "created" \/ req'[q].pc = "created" => req'[q] = req[q]
      /\ req' \in [Reqs -> [pc : {"off", "asked", "ready", "created"},
                            k : Pipelines \cup {"reboot"}, t : Ids \cup {NoTask}]]
  BY DEF ReconcileEnd, DeployInv, TypeOK, TasksTypeOK
<1>4. S \subseteq AwaitingTasks
  BY <1>1 DEF Completable, AwaitingTasks
<1> QED
  BY <1>1, <1>2, <1>3, <1>4, SettleKeeps DEF ReconcileEnd

(* A reconciliation takes up the newest awaiting task.                       *)
LEMMA ReconcileBeginKeeps ==
  ASSUME DeployInv, NEW c \in Recons, ReconcileBegin(c)
  PROVE  DeployInv'
<1>1. Newest(Awaiting) \in Ids
  BY NewestIn DEF ReconcileBegin, Awaiting
<1>2. TypeOK'
  BY <1>1 DEF ReconcileBegin, DeployInv, TypeOK, TasksTypeOK, taskVars
<1>3. RequestsFit' /\ AttachFits'
  BY DEF ReconcileBegin, DeployInv, RequestsFit, AttachFits, taskVars
<1> QED
  BY <1>2, <1>3, QuietKeeps DEF ReconcileBegin, DeployInv, TypeOK, TasksTypeOK, taskVars

(* A reboot of the host as a step of the thread that asked for it.           *)
LEMMA RebootKeeps ==
  ASSUME DeployInv, NEW t \in Ids, Reboot(t)
  PROVE  DeployInv'
<1>1. Awaiting \subseteq Ids /\ active \subseteq Ids
  BY DEF Awaiting, DeployInv, TypeOK
<1>2. Awaiting = {} \/ {Newest(Awaiting)} \subseteq Ids
  BY <1>1, NewestIn
<1>3. active' \subseteq Ids
  BY <1>1, <1>2 DEF Reboot, HostReboots
<1> QED
  BY <1>3, RebootMoves, MovedKeeps

LEMMA ThreadKeeps ==
  ASSUME DeployInv, NEW t \in Ids, Thread(t), UNCHANGED Local
  PROVE  DeployInv'
<1>1. active' \subseteq Ids
  BY DEF Local, DeployInv, TypeOK
<1> QED
  BY <1>1, ThreadMoves, MovedKeeps

(* The claim of a new task.                                                  *)
LEMMA CreateKeeps ==
  ASSUME DeployInv, NEW r \in Reqs, Create(r), UNCHANGED Local
  PROVE  DeployInv'
<1> DEFINE t == CHOOSE u \in Ids : status[u] = "none" /\ \A v \in 1..(u - 1) : status[v] # "none"
           k == req[r].k
<1>1. t \in Ids /\ status[t] = "none"
  BY FirstFree DEF Create
<1>2. /\ req[r].pc = "ready" /\ k \in Pipelines \cup {"reboot"}
      /\ UNCHANGED <<pc, event, files, job, pushed, trouble, recon, active, attach, restarts>>
  BY DEF Create, Local, DeployInv, TypeOK, TasksTypeOK
<1>3. pc[t] = "none" /\ pushed[t] = 0 /\ (trouble = MaxTrouble => job[t] # "running")
  BY <1>1 DEF DeployInv, TasksFit, ThreadFits, PushesFit, JobFits, Ended, TypeOK, TasksTypeOK, Pcs
<1>4. CASE Unclaimed(k)
  <2>1. /\ req' = [req EXCEPT ![r] = [pc |-> "created", k |-> k, t |-> t]]
        /\ status' = [status EXCEPT ![t] = "queued"]
        /\ kind' = [kind EXCEPT ![t] = k]
        /\ left' = [left EXCEPT ![t] = IF k = "reboot" THEN 0 ELSE LongSteps]
    BY <1>4 DEF Create, Set
  <2> HIDE DEF t, k
  <2> USE DEF DeployInv
  <2>2. TypeOK'
    BY <1>1, <1>2, <2>1 DEF TypeOK, TasksTypeOK, Statuses
  <2>3. TasksFit'
    <3>1. ASSUME NEW u \in Ids PROVE (ThreadFits(u) /\ PushesFit(u) /\ JobFits(u))'
      <4>1. ThreadFits(u) /\ PushesFit(u) /\ JobFits(u)
        BY DEF TasksFit
      <4> QED
        BY <1>1, <1>2, <1>3, <2>1, <4>1 DEF ThreadFits, PushesFit, JobFits, Ended, TypeOK, TasksTypeOK
    <3> QED
      BY <3>1 DEF TasksFit
  <2>4. RequestsFit'
    BY <1>1, <1>2, <1>3, <2>1 DEF RequestsFit, TypeOK, TasksTypeOK
  <2>5. AttachFits'
    BY <1>1, <1>2, <2>1 DEF AttachFits, Ended, TypeOK, TasksTypeOK
  <2>6. Inflight' = Inflight \cup {t} /\ t \notin Inflight
    BY <1>1, <2>1 DEF Inflight, TypeOK, TasksTypeOK
  <2>7. ClaimOwned'
    <3>1. ASSUME NEW u \in Inflight'
          PROVE  \/ pc'[u] # "none"
                 \/ \E q \in Reqs : req'[q].pc = "created" /\ req'[q].t = u
                 \/ attach'.pc = "watch" /\ attach'.t = u
      <4>1. CASE u = t
        BY <2>1, <4>1 DEF TypeOK, TasksTypeOK
      <4>2. CASE u \in Inflight
        <5>1. CASE \E q \in Reqs : req[q].pc = "created" /\ req[q].t = u
          BY <1>2, <2>1, <5>1 DEF TypeOK, TasksTypeOK
        <5> QED
          BY <1>2, <4>2, <5>1 DEF ClaimsHeld, ClaimOwned
      <4> QED
        BY <2>6, <3>1, <4>1, <4>2
    <3> QED
      BY <3>1 DEF ClaimOwned
  <2>8. ClaimsExclusive'
    <3>1. ASSUME NEW u \in Inflight', NEW v \in Inflight', u # v,
                 kind'[v] \in Domain(kind'[u]), kind'[u] # "reboot"
          PROVE  attach'.pc = "watch" /\ attach'.t \in {u, v}
      <4>1. \A w \in Inflight : kind'[w] = kind[w] /\ w \in Ids
        BY <2>1, <2>6 DEF TypeOK, TasksTypeOK, Inflight
      <4>2. kind'[t] = k
        BY <1>1, <2>1 DEF TypeOK, TasksTypeOK
      <4>3. u # t
        <5> SUFFICES ASSUME u = t PROVE FALSE
          OBVIOUS
        <5>1. v \in Inflight
          BY <2>6, <3>1
        <5> QED
          BY <1>4, <3>1, <4>1, <4>2, <5>1 DEF Unclaimed
      <4>4. v # t
        <5> SUFFICES ASSUME v = t PROVE FALSE
          OBVIOUS
        <5>1. u \in Inflight /\ kind[u] \in Pipelines \cup {"reboot"} /\ kind[u] # "reboot"
          BY <2>6, <3>1, <4>1 DEF TypeOK, TasksTypeOK
        <5>2. k \in Domain(kind[u])
          BY <3>1, <4>1, <4>2, <5>1
        <5>3. kind[u] \in Domain(k)
          BY <5>1, <5>2 DEF Domain, Pipelines
        <5> QED
          BY <1>4, <5>1, <5>3 DEF Unclaimed
      <4>5. u \in Inflight /\ v \in Inflight
        BY <2>6, <3>1, <4>3, <4>4
      <4>6. attach.pc = "watch" /\ attach.t \in {u, v}
        BY <3>1, <4>1, <4>5 DEF ClaimsHeld, ClaimsExclusive
      <4> QED
        BY <1>2, <4>6
    <3> QED
      BY <3>1 DEF ClaimsExclusive, Domain
  <2> QED
    BY <2>2, <2>3, <2>4, <2>5, <2>7, <2>8 DEF ClaimsHeld
<1>5. CASE ~Unclaimed(k)
  <2>1. req' = [req EXCEPT ![r] = ReqIdle] /\ UNCHANGED <<status, kind, left>>
    BY <1>5 DEF Create
  <2>2. TypeOK'
    BY <1>2, <2>1 DEF DeployInv, TypeOK, TasksTypeOK, ReqIdle, NoTask
  <2>3. RequestsFit' /\ AttachFits'
    BY <1>2, <2>1 DEF DeployInv, RequestsFit, AttachFits, TypeOK, TasksTypeOK, ReqIdle
  <2> HIDE DEF t, k
  <2> QED
    BY <1>2, <2>1, <2>2, <2>3, QuietKeeps DEF DeployInv, TypeOK, TasksTypeOK
<1> QED
  BY <1>4, <1>5

(* The request hands its task over to a thread.                              *)
LEMMA SubmitKeeps ==
  ASSUME DeployInv, NEW r \in Reqs, Submit(r), UNCHANGED Local
  PROVE  DeployInv'
<1> DEFINE t == req[r].t
<1> USE DEF DeployInv
<1>1. /\ req[r].pc = "created" /\ t \in Ids /\ status[t] = "queued" /\ pc[t] = "none"
      /\ \A q \in Reqs \ {r} : req[q].pc = "created" => req[q].t # t
  BY DEF Submit, RequestsFit
<1>2. /\ req' = [req EXCEPT ![r] = ReqIdle] /\ pc' = [pc EXCEPT ![t] = "ready"]
      /\ UNCHANGED <<status, kind, left, event, files, job, pushed, trouble, recon, active,
                     attach, restarts>>
  BY DEF Submit, Local, Set
<1> HIDE DEF t
<1>3. TypeOK'
  BY <1>1, <1>2 DEF TypeOK, TasksTypeOK, ReqIdle, NoTask, Pcs
<1>4. TasksFit'
  <2>1. ASSUME NEW u \in Ids PROVE (ThreadFits(u) /\ PushesFit(u) /\ JobFits(u))'
    <3>1. ThreadFits(u) /\ PushesFit(u) /\ JobFits(u)
      BY DEF TasksFit
    <3> QED
      BY <1>1, <1>2, <3>1 DEF ThreadFits, PushesFit, JobFits, TypeOK, TasksTypeOK
  <2> QED
    BY <2>1 DEF TasksFit
<1>5. RequestsFit'
  BY <1>1, <1>2 DEF RequestsFit, TypeOK, TasksTypeOK, ReqIdle
<1>6. AttachFits'
  BY <1>1, <1>2 DEF AttachFits, Ended, TypeOK, TasksTypeOK
<1>7. Inflight' = Inflight
  BY <1>2 DEF Inflight
<1>8. ClaimOwned'
  <2>1. ASSUME NEW u \in Inflight
        PROVE  \/ pc'[u] # "none"
               \/ \E q \in Reqs : req'[q].pc = "created" /\ req'[q].t = u
               \/ attach'.pc = "watch" /\ attach'.t = u
    <3>1. CASE u = t
      BY <1>1, <1>2, <3>1 DEF TypeOK, TasksTypeOK
    <3>2. CASE u # t /\ \E q \in Reqs : req[q].pc = "created" /\ req[q].t = u
      BY <1>1, <1>2, <3>2 DEF TypeOK, TasksTypeOK, t
    <3> QED
      BY <1>1, <1>2, <2>1, <3>1, <3>2 DEF ClaimsHeld, ClaimOwned, TypeOK, TasksTypeOK
  <2> QED
    BY <1>7, <2>1 DEF ClaimOwned
<1>9. ClaimsExclusive'
  BY <1>2, <1>7 DEF ClaimsHeld, ClaimsExclusive, Domain
<1> QED
  BY <1>3, <1>4, <1>5, <1>6, <1>8, <1>9 DEF ClaimsHeld

-----------------------------------------------------------------------------
(* A restart leaves nothing in flight.                                       *)
LEMMA DashboardRestartKeeps ==
  ASSUME DeployInv, DashboardRestart
  PROVE  DeployInv'
<1> USE DEF DeployInv
<1>1. /\ status' \in [Ids -> Statuses]
      /\ \A t \in Ids : status'[t] = Recovered(t) /\ pc'[t] = "none"
  BY DEF DashboardRestart, Recovered, TypeOK, TasksTypeOK, Statuses
<1>2. /\ attach'.pc \in {"off", "probe"} /\ attach'.todo \in {{}, Candidates}
      /\ attach'.t = NoTask
  BY DEF DashboardRestart, AttachOff
<1>3. TypeOK'
  <2>1. Candidates \subseteq Ids
    BY DEF Candidates, TypeOK, TasksTypeOK
  <2>2. attach' \in [pc : {"off", "probe", "next", "watch", "record"},
                     todo : SUBSET Ids, t : Ids \cup {NoTask}]
    BY <2>1 DEF DashboardRestart, AttachOff
  <2>3. restarts' \in 0..MaxRestarts
    BY DEF DashboardRestart, TypeOK
  <2>4. pc' \in [Ids -> Pcs] /\ recon' \in [Recons -> Ids \cup {NoTask}]
    BY DEF DashboardRestart, Pcs
  <2> QED
    BY <1>1, <2>2, <2>3, <2>4 DEF DashboardRestart, TypeOK, TasksTypeOK, ReqIdle, NoTask
<1>4. TasksFit'
  <2>1. ASSUME NEW t \in Ids PROVE (ThreadFits(t) /\ PushesFit(t) /\ JobFits(t))'
    <3>1. ThreadFits(t) /\ PushesFit(t) /\ JobFits(t)
      BY DEF TasksFit
    <3> QED
      BY <1>1, <1>2, <3>1 DEF ThreadFits, PushesFit, JobFits, DashboardRestart, Recovered,
                              Inflight, Ended
  <2> QED
    BY <2>1 DEF TasksFit
<1>5. RequestsFit'
  BY DEF DashboardRestart, RequestsFit, ReqIdle
<1>6. AttachFits'
  BY <1>1, <1>2 DEF AttachFits, Candidates, TypeOK, TasksTypeOK
<1>7. Inflight' = {}
  BY <1>1 DEF Inflight, Recovered
<1> QED
  BY <1>3, <1>4, <1>5, <1>6, <1>7 DEF ClaimsHeld, ClaimOwned, ClaimsExclusive

LEMMA AttachProbeKeeps ==
  ASSUME DeployInv, AttachProbe
  PROVE  DeployInv'
<1> USE DEF DeployInv
<1>1. trouble' \in 0..MaxTrouble /\ trouble' \in 0..trouble
  BY DEF AttachProbe, Spend, TypeOK, TasksTypeOK
<1>2. /\ attach'.pc \in {"next", "off"} /\ attach'.todo \subseteq attach.todo
      /\ attach' \in [pc : {"off", "probe", "next", "watch", "record"},
                      todo : SUBSET Ids, t : Ids \cup {NoTask}]
  <2>1. CASE attach' = [attach EXCEPT !.pc = "next",
                                      !.todo = {t \in attach.todo : job[t] = "running"}]
    BY <2>1 DEF TypeOK
  <2>2. CASE attach' = AttachOff
    BY <2>2 DEF AttachOff, NoTask, TypeOK
  <2> QED
    BY <2>1, <2>2 DEF AttachProbe
<1>3. TypeOK'
  BY <1>1, <1>2 DEF AttachProbe, TypeOK, TasksTypeOK, taskVars
<1>4. RequestsFit' /\ AttachFits'
  BY <1>2 DEF AttachProbe, RequestsFit, AttachFits, taskVars
<1> QED
  BY <1>1, <1>2, <1>3, <1>4, QuietKeeps DEF AttachProbe, TypeOK, TasksTypeOK, taskVars

(* The reattach thread revives one task.                                     *)
LEMMA AttachNextKeeps ==
  ASSUME DeployInv, AttachNext
  PROVE  DeployInv'
<1> USE DEF DeployInv
<1>1. CASE attach' = AttachOff /\ UNCHANGED <<status, event>>
  <2>1. TypeOK'
    BY <1>1 DEF AttachNext, AttachOff, TypeOK, TasksTypeOK, NoTask
  <2>2. RequestsFit' /\ AttachFits'
    BY <1>1 DEF AttachNext, AttachOff, RequestsFit, AttachFits
  <2> QED
    BY <1>1, <2>1, <2>2, QuietKeeps DEF AttachNext, AttachOff, TypeOK, TasksTypeOK
<1>2. ASSUME NEW t \in attach.todo,
             attach' = [pc |-> "watch", todo |-> attach.todo \ {t}, t |-> t],
             status' = [status EXCEPT ![t] = "running"],
             event' = event \ {t}
      PROVE  DeployInv'
  <2>1. t \in Ids /\ status[t] = "interrupted" /\ pc[t] = "none" /\ attach.pc = "next"
    BY DEF AttachNext, AttachFits, TasksFit, ThreadFits, TypeOK, TasksTypeOK, Pcs
  <2>2. UNCHANGED <<kind, pc, left, files, job, pushed, req, trouble, recon, active, restarts>>
    BY DEF AttachNext
  <2>3. TypeOK'
    BY <1>2, <2>1, <2>2 DEF TypeOK, TasksTypeOK, Statuses
  <2>4. TasksFit'
    <3>1. ASSUME NEW u \in Ids PROVE (ThreadFits(u) /\ PushesFit(u) /\ JobFits(u))'
      <4>1. ThreadFits(u) /\ PushesFit(u) /\ JobFits(u)
        BY DEF TasksFit
      <4> QED
        BY <1>2, <2>1, <2>2, <4>1 DEF ThreadFits, PushesFit, JobFits, Ended, TypeOK, TasksTypeOK
    <3> QED
      BY <3>1 DEF TasksFit
  <2>5. RequestsFit' /\ AttachFits'
    BY <1>2, <2>1, <2>2 DEF RequestsFit, AttachFits, TypeOK, TasksTypeOK
  <2>6. Inflight' = Inflight \cup {t} /\ t \notin Inflight
    BY <1>2, <2>1 DEF Inflight, TypeOK, TasksTypeOK
  <2>7. ClaimOwned'
    <3>1. ASSUME NEW u \in Inflight'
          PROVE  \/ pc'[u] # "none"
                 \/ \E q \in Reqs : req'[q].pc = "created" /\ req'[q].t = u
                 \/ attach'.pc = "watch" /\ attach'.t = u
      BY <1>2, <2>1, <2>2, <2>6, <3>1 DEF ClaimsHeld, ClaimOwned
    <3> QED
      BY <3>1 DEF ClaimOwned
  <2>8. ClaimsExclusive'
    BY <1>2, <2>1, <2>2, <2>6 DEF ClaimsHeld, ClaimsExclusive, Domain
  <2> QED
    BY <2>3, <2>4, <2>5, <2>7, <2>8 DEF ClaimsHeld
<1> QED
  BY <1>1, <1>2 DEF AttachNext, Set

(* It lets go of the task it watches.                                        *)
LEMMA WatchEndsKeeps ==
  ASSUME DeployInv, WatchEnds
  PROVE  DeployInv'
<1> DEFINE t == attach.t
<1> USE DEF DeployInv
<1>1. t \in Ids /\ status[t] = "running" /\ pc[t] = "none" /\ attach.pc = "watch" /\ pushed[t] = 0
  BY DEF WatchEnds, AttachFits, TasksFit, PushesFit, Ended
<1>2. /\ attach' = [attach EXCEPT !.pc = "record"]
      /\ UNCHANGED <<kind, pc, left, event, pushed, req, recon, active, restarts>>
  BY DEF WatchEnds
<1>3. PICK end \in {"cancelled", "failed"} : status' = [status EXCEPT ![t] = end]
  BY DEF WatchEnds, Set
<1>4. files' \subseteq Ids /\ trouble' \in 0..trouble /\ trouble' \in 0..MaxTrouble
  BY DEF WatchEnds, KillJob, Spend, TypeOK, TasksTypeOK
<1>5. /\ job' \in [Ids -> Jobs] /\ \A u \in Ids \ {t} : job'[u] = job[u]
      /\ trouble' = MaxTrouble => job'[t] # "running"
  BY <1>1 DEF WatchEnds, KillJob, Spend, Set, TypeOK, TasksTypeOK, Jobs
<1> HIDE DEF t
<1>6. TypeOK'
  BY <1>1, <1>2, <1>3, <1>4, <1>5 DEF TypeOK, TasksTypeOK, Statuses
<1>7. TasksFit'
  <2>1. ASSUME NEW u \in Ids PROVE (ThreadFits(u) /\ PushesFit(u) /\ JobFits(u))'
    <3>1. ThreadFits(u) /\ PushesFit(u) /\ JobFits(u) /\ (u # t => attach'.t # u)
      BY <1>2 DEF TasksFit, TypeOK, t
    <3>2. trouble' = MaxTrouble => trouble = MaxTrouble
      BY <1>4 DEF TypeOK, TasksTypeOK
    <3>3. CASE u = t
      BY <1>1, <1>2, <1>3, <1>5, <3>1, <3>3 DEF ThreadFits, PushesFit, JobFits, Ended, TypeOK,
                                                TasksTypeOK
    <3>4. CASE u # t
      BY <1>2, <1>3, <1>5, <3>1, <3>2, <3>4 DEF ThreadFits, PushesFit, JobFits, Ended, TypeOK,
                                                TasksTypeOK
    <3> QED
      BY <3>3, <3>4
  <2> QED
    BY <2>1 DEF TasksFit
<1>8. RequestsFit'
  BY <1>1, <1>2, <1>3 DEF RequestsFit, TypeOK, TasksTypeOK
<1>9. AttachFits'
  BY <1>1, <1>2, <1>3 DEF AttachFits, Ended, TypeOK, TasksTypeOK, t
<1>10. Inflight' = Inflight \ {t}
  BY <1>1, <1>3 DEF Inflight, TypeOK, TasksTypeOK
<1>11. ClaimOwned'
  <2>1. ASSUME NEW u \in Inflight'
        PROVE  \/ pc'[u] # "none"
               \/ \E q \in Reqs : req'[q].pc = "created" /\ req'[q].t = u
               \/ attach'.pc = "watch" /\ attach'.t = u
    BY <1>2, <1>10, <2>1 DEF ClaimsHeld, ClaimOwned, t
  <2> QED
    BY <2>1 DEF ClaimOwned
<1>12. ClaimsExclusive'
  BY <1>2, <1>10 DEF ClaimsHeld, ClaimsExclusive, Domain, t
<1> QED
  BY <1>6, <1>7, <1>8, <1>9, <1>11, <1>12 DEF ClaimsHeld

LEMMA AttachRecordKeeps ==
  ASSUME DeployInv, AttachRecord
  PROVE  DeployInv'
<1> DEFINE t == attach.t
<1> USE DEF DeployInv
<1>1. t \in Ids /\ status[t] \in Ended /\ pc[t] = "none" /\ attach.pc = "record" /\ pushed[t] = 0
  BY DEF AttachRecord, AttachFits, TasksFit, PushesFit
<1>2. /\ attach' = [attach EXCEPT !.pc = "next", !.t = NoTask]
      /\ pushed' = [pushed EXCEPT ![t] = 1]
      /\ UNCHANGED <<status, kind, pc, left, event, files, job, req, trouble, recon, active,
                     restarts>>
  BY <1>1 DEF AttachRecord, Set
<1> HIDE DEF t
<1>3. TypeOK'
  <2>1. pushed' \in [Ids -> 0..2]
    BY <1>1, <1>2 DEF TypeOK, TasksTypeOK
  <2>2. attach' \in [pc : {"off", "probe", "next", "watch", "record"},
                     todo : SUBSET Ids, t : Ids \cup {NoTask}]
    BY <1>2 DEF TypeOK
  <2> QED
    BY <1>2, <2>1, <2>2 DEF TypeOK, TasksTypeOK
<1>4. TasksFit'
  <2>1. ASSUME NEW u \in Ids PROVE (ThreadFits(u) /\ PushesFit(u) /\ JobFits(u))'
    <3>1. ThreadFits(u) /\ PushesFit(u) /\ JobFits(u)
      BY DEF TasksFit
    <3> QED
      BY <1>1, <1>2, <3>1 DEF ThreadFits, PushesFit, JobFits, Ended, TypeOK, TasksTypeOK
  <2> QED
    BY <2>1 DEF TasksFit
<1>5. RequestsFit' /\ AttachFits'
  BY <1>2 DEF RequestsFit, AttachFits, TypeOK
<1>6. Inflight' = Inflight
  BY <1>2 DEF Inflight
<1>7. ClaimOwned'
  <2>1. ASSUME NEW u \in Inflight
        PROVE  \/ pc'[u] # "none"
               \/ \E q \in Reqs : req'[q].pc = "created" /\ req'[q].t = u
               \/ attach'.pc = "watch" /\ attach'.t = u
    BY <1>1, <1>2, <2>1 DEF ClaimsHeld, ClaimOwned
  <2> QED
    BY <1>6, <2>1 DEF ClaimOwned
<1>8. ClaimsExclusive'
  BY <1>1, <1>2, <1>6 DEF ClaimsHeld, ClaimsExclusive, Domain
<1> QED
  BY <1>3, <1>4, <1>5, <1>7, <1>8 DEF ClaimsHeld

-----------------------------------------------------------------------------
LEMMA DeployInvNext ==
  ASSUME DeployInv, [Next]_vars
  PROVE  DeployInv'
<1>1. CASE \E r \in Reqs : Request(r) /\ UNCHANGED Local
  BY <1>1, QuietSteps, SupersedeKeeps, CreateKeeps, SubmitKeeps DEF Request
<1>2. CASE \E t \in Ids : Running(t)
  BY <1>2, ThreadKeeps, RebootKeeps DEF Running
<1>3. CASE \E t \in Ids : (Cancel(t) \/ PollExpires(t) \/ JobExits(t)) /\ UNCHANGED Local
  BY <1>3, QuietSteps, PollExpiresKeeps
<1>4. CASE \E c \in Recons : ReconcileBegin(c) \/ ReconcileEnd(c)
  BY <1>4, ReconcileBeginKeeps, ReconcileEndKeeps
<1>5. CASE DashboardRestart
  BY <1>5, DashboardRestartKeeps
<1>6. CASE Attach
  BY <1>6, AttachProbeKeeps, AttachNextKeeps, WatchEndsKeeps, AttachRecordKeeps DEF Attach
<1>7. CASE UNCHANGED vars
  <2>1. /\ TypeOK' /\ RequestsFit' /\ AttachFits'
    BY <1>7 DEF DeployInv, TypeOK, TasksTypeOK, RequestsFit, AttachFits, vars, taskVars
  <2> QED
    BY <1>7, <2>1, QuietKeeps DEF vars, taskVars, DeployInv, TypeOK, TasksTypeOK
<1> QED
  BY <1>1, <1>2, <1>3, <1>4, <1>5, <1>6, <1>7 DEF Next

LEMMA DeployInvAlways == Spec => []DeployInv
<1> QED
  BY DeployInvInit, DeployInvNext, PTL DEF Spec

(* The state of tasks, threads, jobs, requests and of the reattach thread    *)
(* keeps its shape; no task gets more than two history entries.              *)
THEOREM DeployTypes == Spec => []TypeOK
<1>1. DeployInv => TypeOK
  BY DEF DeployInv
<1> QED
  BY <1>1, DeployInvAlways, PTL

(* The claim that DeploymentTaskManager.create takes under its lock holds    *)
(* against every interleaving of requests, restarts and the reattach thread: *)
(* a domain in flight has one task, apart from a revived one, and somebody   *)
(* who will let go of it.                                                    *)
THEOREM OneClaimPerDomain == Spec => []ClaimsHeld
<1>1. DeployInv => ClaimsHeld
  BY DEF DeployInv
<1> QED
  BY <1>1, DeployInvAlways, PTL

(* While SSH works no remote job outlives its task: run_long's cancellation  *)
(* and deadline, the reattach watcher and a restart leave none behind.       *)
THEOREM NoJobLeftBehind == Spec => []JobsFollowTasks
<1>1. DeployInv => JobsFollowTasks
  BY DEF DeployInv, TasksFit, JobFits, JobsFollowTasks
<1> QED
  BY <1>1, DeployInvAlways, PTL

-----------------------------------------------------------------------------
(* The refinement: every step of requests, threads, reconciliations,         *)
(* restarts and the reattach thread is a step of the life of one task, or of *)
(* all that a restart interrupts or a request supersedes, or none.           *)

LEMMA LifeInit == Init => Life!Init
  BY DEF Init, TasksInit, AttachOff, Watched, Domains, Life!Init

(* A step that moves one status keeps what is watched, and is one of these.  *)
LEMMA OneMoves ==
  ASSUME DeployInv, NEW t \in Ids, NEW s, status' = [status EXCEPT ![t] = s],
         UNCHANGED <<kind, Watched>>,
         \/ s = status[t]
         \/ status[t] = "queued" /\ s = "running"
         \/ t # Watched /\ t \in Inflight /\ s \in {"failed", "cancelled"}
         \/ t # Watched /\ status[t] = "running" /\ s = "success"
         \/ t # Watched /\ status[t] = "running" /\ s = "awaiting_reboot" /\ kind[t] = "driver"
         \/ status[t] = "awaiting_reboot" /\ s = "success"
  PROVE  [Life!Next]_(Life!lifeVars)
<1>1. s = status[t] => UNCHANGED Life!lifeVars
  BY DEF DeployInv, TypeOK, TasksTypeOK, Life!lifeVars
<1> QED
  BY <1>1 DEF Inflight, Life!Next, Life!Start, Life!Ends, Life!Awaits, Life!Completes,
              Life!Becomes, Life!InFlight

LEMMA ThreadLives ==
  ASSUME DeployInv, NEW t \in Ids, (Thread(t) /\ UNCHANGED Local) \/ Reboot(t) \/
         (PollExpires(t) /\ UNCHANGED Local)
  PROVE  [Life!Next]_(Life!lifeVars)
<1>1. pc[t] # "none" /\ t # Watched /\ UNCHANGED <<kind, Watched>>
  BY DEF Thread, Reboot, PollExpires, Local, DeployInv, AttachFits, Watched, Ids, NoTask,
         Begin, StepCancelled, Launch, Record, PollCancelled, PollDone, PollFails, PollKills,
         Returns, VerifyFails, Succeeds, RecordHistory
<1>2. ThreadFits(t) /\ status = [status EXCEPT ![t] = status[t]]
  BY DEF DeployInv, TasksFit, TypeOK, TasksTypeOK
<1>3. CASE Begin(t)
  BY <1>1, <1>2, <1>3, OneMoves DEF Begin, Set, ThreadFits
<1>4. CASE status' = status
  BY <1>1, <1>2, <1>4, OneMoves
<1>5. CASE /\ pc[t] \in {"step", "launched", "poll", "kill", "expire"}
           /\ \E s \in {"failed", "cancelled"} : status' = Set(status, t, s)
  BY <1>1, <1>2, <1>5, OneMoves DEF Set, ThreadFits, Inflight
<1>6. CASE Returns(t)
  BY <1>1, <1>2, <1>6, OneMoves DEF Returns, Set, ThreadFits
<1>7. CASE Succeeds(t)
  BY <1>1, <1>2, <1>7, OneMoves DEF Succeeds, Set
<1>8. StepCancelled(t) \/ Launch(t) \/ Record(t) \/ PollCancelled(t) \/ PollDone(t)
        \/ PollFails(t) \/ PollKills(t) \/ VerifyFails(t) \/ RecordHistory(t) \/ Reboot(t)
        \/ PollExpires(t)
      => \/ status' = status
         \/ /\ pc[t] \in {"step", "launched", "poll", "kill", "expire"}
            /\ \E s \in {"failed", "cancelled"} : status' = Set(status, t, s)
  BY DEF StepCancelled, Launch, Record, PollCancelled, PollDone, PollFails, PollKills,
         VerifyFails, RecordHistory, Reboot, PollExpires, Stops, Breaks
<1> QED
  BY <1>3, <1>4, <1>5, <1>6, <1>7, <1>8 DEF Thread

LEMMA RequestLives ==
  ASSUME DeployInv, NEW r \in Reqs, Request(r), UNCHANGED Local
  PROVE  [Life!Next]_(Life!lifeVars)
<1>1. UNCHANGED Watched
  BY DEF Local, Watched
<1>2. CASE Supersede(r)
  BY <1>1, <1>2 DEF Supersede, Awaiting, Life!Next, Life!Supersede
<1>3. CASE Create(r)
  <2> DEFINE new == CHOOSE u \in Ids : status[u] = "none" /\ \A v \in 1..(u - 1) : status[v] # "none"
  <2>1. new \in Ids /\ status[new] = "none"
    BY <1>3, FirstFree DEF Create
  <2>2. \/ UNCHANGED <<status, kind>>
        \/ /\ Unclaimed(req[r].k)
           /\ status' = [status EXCEPT ![new] = "queued"]
           /\ kind' = [kind EXCEPT ![new] = req[r].k]
    BY <1>3 DEF Create, Set
  <2>3. req[r].k \in DOMAIN Domains /\ Domains[req[r].k] = Domain(req[r].k)
    BY DEF Domains, DeployInv, TypeOK, TasksTypeOK
  <2> HIDE DEF new
  <2>4. CASE UNCHANGED <<status, kind>>
    BY <1>1, <2>4 DEF Life!lifeVars
  <2>5. CASE /\ Unclaimed(req[r].k)
             /\ status' = [status EXCEPT ![new] = "queued"]
             /\ kind' = [kind EXCEPT ![new] = req[r].k]
    <3>1. Life!Claim(new, req[r].k)
      BY <1>1, <2>1, <2>3, <2>5 DEF Unclaimed, Inflight, Life!Claim, Life!InFlight, Life!Becomes
    <3> QED
      BY <2>1, <2>3, <3>1 DEF Life!Next
  <2> QED
    BY <2>2, <2>4, <2>5
<1>4. CASE \/ \E k \in Kinds : Ask(r, k)
           \/ Refuse(r) \/ Submit(r)
  BY <1>1, <1>4 DEF Ask, Refuse, Submit, taskVars, Life!lifeVars
<1> QED
  BY <1>2, <1>3, <1>4 DEF Request

LEMMA AttachLives ==
  ASSUME DeployInv, Attach
  PROVE  [Life!Next]_(Life!lifeVars)
<1> USE DEF DeployInv, TypeOK, TasksTypeOK
<1>1. CASE AttachProbe \/ AttachRecord
  <2>1. attach.pc # "watch" /\ attach'.pc # "watch"
    <3>1. CASE AttachRecord
      BY <3>1 DEF AttachRecord
    <3>2. CASE AttachProbe
      <4>1. CASE attach' = [attach EXCEPT !.pc = "next",
                                          !.todo = {t \in attach.todo : job[t] = "running"}]
        BY <3>2, <4>1 DEF AttachProbe
      <4>2. CASE attach' = AttachOff
        BY <3>2, <4>2 DEF AttachProbe, AttachOff
      <4> QED
        BY <3>2, <4>1, <4>2 DEF AttachProbe
    <3> QED
      BY <1>1, <3>1, <3>2
  <2>2. UNCHANGED <<status, kind>>
    BY <1>1 DEF AttachProbe, AttachRecord, taskVars
  <2> QED
    BY <2>1, <2>2 DEF Watched, Life!lifeVars
<1>2. CASE AttachNext
  <2>1. CASE attach' = AttachOff /\ UNCHANGED <<status, event>>
    BY <1>2, <2>1 DEF AttachNext, AttachOff, Watched, Life!lifeVars
  <2>2. ASSUME NEW t \in attach.todo,
               attach' = [pc |-> "watch", todo |-> attach.todo \ {t}, t |-> t],
               status' = Set(status, t, "running")
        PROVE  Life!Next
    <3>1. t \in Ids /\ status[t] = "interrupted" /\ Watched = NoTask /\ Watched' = t
      BY <1>2, <2>2 DEF AttachNext, AttachFits, Watched
    <3>2. Life!Revive(t)
      BY <1>2, <2>2, <3>1 DEF AttachNext, Set, Life!Revive, Life!Becomes
    <3> QED
      BY <3>1, <3>2 DEF Life!Next
  <2> QED
    BY <1>2, <2>1, <2>2 DEF AttachNext
<1>3. CASE WatchEnds
  <2> DEFINE t == attach.t
  <2>1. t \in Ids /\ status[t] = "running" /\ Watched = t /\ Watched' = NoTask
    BY <1>3 DEF WatchEnds, AttachFits, Watched
  <2>2. UNCHANGED kind /\ \E s \in {"failed", "cancelled"} : status' = [status EXCEPT ![t] = s]
    BY <1>3 DEF WatchEnds, Set
  <2>3. Life!Ends(t)
    BY <2>1, <2>2 DEF Life!Ends, Life!InFlight, Life!Becomes
  <2> QED
    BY <2>1, <2>3 DEF Life!Next
<1> QED
  BY <1>1, <1>2, <1>3 DEF Attach

LEMMA LifeStep ==
  ASSUME DeployInv, [Next]_vars
  PROVE  [Life!Next]_(Life!lifeVars)
<1>1. CASE \E r \in Reqs : Request(r) /\ UNCHANGED Local
  BY <1>1, RequestLives
<1>2. CASE \E t \in Ids : Running(t) \/ (PollExpires(t) /\ UNCHANGED Local)
  BY <1>2, ThreadLives DEF Running
<1>3. CASE \E t \in Ids : (Cancel(t) \/ JobExits(t)) /\ UNCHANGED Local
  BY <1>3 DEF Cancel, JobExits, Local, Watched, Life!lifeVars
<1>4. ASSUME NEW c \in Recons, ReconcileBegin(c) \/ ReconcileEnd(c)
      PROVE  [Life!Next]_(Life!lifeVars)
  <2>1. UNCHANGED <<kind, Watched>>
    BY <1>4 DEF ReconcileBegin, ReconcileEnd, taskVars, Watched
  <2>2. CASE UNCHANGED status
    BY <2>1, <2>2 DEF Life!lifeVars
  <2>3. CASE ReconcileEnd(c) /\ status' # status
    <3>1. recon[c] \in Ids
      BY <2>3 DEF ReconcileEnd, DeployInv, TypeOK
    <3>2. status[recon[c]] = "awaiting_reboot" /\ status' = [status EXCEPT ![recon[c]] = "success"]
      BY <2>3 DEF ReconcileEnd, Completable, Set
    <3> QED
      BY <2>1, <3>1, <3>2, OneMoves
  <2> QED
    BY <1>4, <2>2, <2>3 DEF ReconcileBegin, taskVars
<1>5. CASE DashboardRestart
  <2>1. Watched' = NoTask
    BY <1>5 DEF DashboardRestart, AttachOff, Watched
  <2>2. Life!Interrupt
    BY <1>5, <2>1 DEF DashboardRestart, Recovered, Inflight, Life!Interrupt, Life!InFlight
  <2> QED
    BY <2>2 DEF Life!Next
<1>6. CASE Attach
  BY <1>6, AttachLives
<1>7. CASE UNCHANGED vars
  BY <1>7 DEF vars, taskVars, Watched, Life!lifeVars
<1> QED
  BY <1>1, <1>2, <1>3, <1>4, <1>5, <1>6, <1>7 DEF Next

(* Theorem: the deployment tasks implement TaskLife.  Whatever requests,     *)
(* threads that read a status outside the lock, two reconciliations, host    *)
(* reboots, restarts and the reattach thread do, a task moves only along its *)
(* life: it is claimed beside no rival, started once, ended once, and a      *)
(* revived one is never called a success.                                    *)
THEOREM TasksFollowLife == Spec => FollowsLife
<1> QED
  BY LifeInit, LifeStep, DeployInvAlways, PTL DEF Spec, FollowsLife, Life!Spec

(* Theorem: the life of tasks keeps what the entry points promise: tasks in  *)
(* flight are no rivals, apart from a revived one, and an ended task of any  *)
(* kind never moves again.                                                   *)
THEOREM LifeKeepsPromises == Life!Spec => []Life!OneClaim /\ Life!EndsOnce
<1> DEFINE Typed == status \in [Ids -> Statuses] /\ kind \in [Ids -> DOMAIN Domains]
                    /\ Watched \in Ids \cup {NoTask}
<1>1. Life!Init => Typed /\ Life!OneClaim
  BY DEF Life!Init, Life!OneClaim, Life!InFlight, Statuses
<1>2. ASSUME Typed, Life!OneClaim, [Life!Next]_(Life!lifeVars)
      PROVE  /\ Typed' /\ Life!OneClaim'
             /\ \A t \in Ids : status[t] \in Life!Ended => status'[t] = status[t]
  <2>0. Domains' = Domains
    BY DEF Domains, Domain, Pipelines
  <2> USE <1>2, <2>0 DEF Life!OneClaim, Life!InFlight, Life!Ended, Life!Becomes, Statuses
  <2>1. CASE Life!Supersede
    BY <2>1 DEF Life!Supersede
  <2>2. CASE Life!Interrupt
    BY <2>2 DEF Life!Interrupt
  <2>3. ASSUME NEW t \in Ids, NEW k \in DOMAIN Domains, Life!Claim(t, k)
        PROVE  /\ Typed' /\ Life!OneClaim'
               /\ \A u \in Ids : status[u] \in Life!Ended => status'[u] = status[u]
    BY <2>3 DEF Life!Claim
  <2>4. ASSUME NEW t \in Ids, Life!Start(t) \/ Life!Awaits(t) \/ Life!Completes(t)
        PROVE  /\ Typed' /\ Life!OneClaim'
               /\ \A u \in Ids : status[u] \in Life!Ended => status'[u] = status[u]
    BY <2>4 DEF Life!Start, Life!Awaits, Life!Completes
  <2>5. ASSUME NEW t \in Ids, Life!Ends(t)
        PROVE  /\ Typed' /\ Life!OneClaim'
               /\ \A u \in Ids : status[u] \in Life!Ended => status'[u] = status[u]
    BY <2>5 DEF Life!Ends
  <2>6. ASSUME NEW t \in Ids, Life!Revive(t)
        PROVE  /\ Typed' /\ Life!OneClaim'
               /\ \A u \in Ids : status[u] \in Life!Ended => status'[u] = status[u]
    <3>1. Typed' /\ \A u \in Ids : u # t => status'[u] = status[u]
      BY <2>6 DEF Life!Revive
    <3>2. ASSUME NEW u \in Life!InFlight', NEW v \in Life!InFlight', u # v, t \notin {u, v},
                 kind'[u] \in Domains'[kind'[v]], kind'[v] \in Domains'[kind'[u]]
          PROVE  FALSE
      <4>1. u \in Life!InFlight /\ v \in Life!InFlight
        BY <3>1, <3>2
      <4>2. NoTask \notin {u, v}
        BY <4>1 DEF Ids, NoTask
      <4> QED
        BY <2>6, <3>2, <4>1, <4>2 DEF Life!Revive
    <3>3. Life!OneClaim'
      BY <2>6, <3>2 DEF Life!Revive
    <3> QED
      BY <2>6, <3>1, <3>3 DEF Life!Revive
  <2>7. CASE UNCHANGED Life!lifeVars
    BY <2>7 DEF Life!lifeVars
  <2> QED
    BY <2>1, <2>2, <2>3, <2>4, <2>5, <2>6, <2>7 DEF Life!Next
<1>3. ASSUME Typed, Life!OneClaim, [Life!Next]_(Life!lifeVars)
      PROVE  [\A t \in Ids : status[t] \in Life!Ended => status'[t] = status[t]]_(Life!lifeVars)
  BY <1>2, <1>3
<1> QED
  BY <1>1, <1>2, <1>3, PTL DEF Life!Spec, Life!EndsOnce
=============================================================================
