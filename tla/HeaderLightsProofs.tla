-------------------------- MODULE HeaderLightsProofs --------------------------
(* The header's lights on a dead machine, for any number of requests, any    *)
(* threshold of failures and any number of outages.                          *)
EXTENDS HeaderLights, TLAPS

(* Outside an outage nothing is counted; during one, an answered echo is of  *)
(* a request from before it, and each green answer is paid for by a failure  *)
(* of the streak in progress or by a late success.                           *)
Outside == echoes => within = {} /\ late = 0 /\ greens = 0
Inside  == \A r \in within : ping[r] # "echoed"
Tolerated(n) == IF n < DownStrikes THEN n ELSE DownStrikes - 1
Paid == greens <= IF lamp = "ssh" THEN late * (DownStrikes - 1) + Tolerated(streak)
                                  ELSE 0

LightInv == LightTypeOK /\ Outside /\ Inside /\ Paid

USE LightBounds

LEMMA LateAddsOne ==
  ASSUME NEW n \in Nat
  PROVE  /\ n * (DownStrikes - 1) \in Nat
         /\ (n + 1) * (DownStrikes - 1) = n * (DownStrikes - 1) + (DownStrikes - 1)
         /\ 0 * (DownStrikes - 1) = 0
  OBVIOUS

LEMMA LightInvInit == LightInit => LightInv
  BY LateAddsOne DEF LightInit, LightInv, LightTypeOK, Outside, Inside, Paid, Tolerated

(* The steps that leave the tracker and the counters alone.                  *)
LEMMA PingSteps ==
  ASSUME LightInv, NEW r \in Pingers, SendPing(r) \/ Echo(r) \/ LosePing(r)
  PROVE  LightInv'
<1>1. LightTypeOK' /\ Outside'
  BY DEF LightInv, LightTypeOK, Outside, SendPing, Echo, LosePing
<1>2. Inside'
  <2>1. CASE Echo(r)
    <3>1. within = {}
      BY <2>1 DEF LightInv, Outside, Echo
    <3> QED
      BY <2>1, <3>1 DEF Echo, Inside
  <2>2. CASE SendPing(r) \/ LosePing(r)
    BY <2>2 DEF LightInv, LightTypeOK, Inside, SendPing, LosePing
  <2> QED
    BY <2>1, <2>2
<1>3. Paid'
  BY DEF LightInv, Paid, Tolerated, SendPing, Echo, LosePing
<1> QED
  BY <1>1, <1>2, <1>3 DEF LightInv

(* An outcome recorded: a success was late or the machine is up, a failure   *)
(* adds to the streak, and the answer is green only while the streak allows. *)
LEMMA RecordStep ==
  ASSUME LightInv, NEW r \in Pingers, Record(r)
  PROVE  LightInv'
<1> USE DEF LightInv
<1>1. PICK green \in BOOLEAN :
        /\ green => MayBeGreen(NetState(streak'))
        /\ greens' = greens + (IF green /\ r \in within THEN 1 ELSE 0)
  BY DEF Record
<1>2. /\ streak \in 0..DownStrikes + 1 /\ streak' = StreakAfter(ping[r])
      /\ streak' \in 0..DownStrikes + 1
  BY DEF Record, LightTypeOK, StreakAfter
<1>3. /\ late \in Nat /\ greens \in Nat /\ late' \in Nat /\ greens' \in Nat
      /\ late' = late + (IF ~echoes /\ ping[r] = "echoed" THEN 1 ELSE 0)
  BY <1>1 DEF Record, LightTypeOK
<1>4. LightTypeOK'
  BY <1>2, <1>3 DEF Record, LightTypeOK
<1>5. Outside'
  BY <1>1, <1>3 DEF Record, Outside
<1>6. Inside'
  BY DEF Record, Inside, LightTypeOK
<1>7. Paid'
  <2>1. lamp' = lamp /\ lamp \in {"ssh", "bmc"} /\ ping[r] \in {"echoed", "lost"}
    BY DEF Record, LightTypeOK
  <2>2. CASE ping[r] = "echoed"
    <3>1. r \notin within /\ greens' = greens
      BY <2>2, <1>1, <1>3 DEF Inside
    <3>2. streak' = 0
      BY <2>2, <1>2 DEF StreakAfter
    <3>3. CASE echoes
      BY <3>1, <3>2, <3>3, <1>3, <2>1, LateAddsOne DEF Outside, Paid, Tolerated
    <3>4. CASE ~echoes
      <4>1. late' = late + 1
        BY <2>2, <3>4, <1>3
      <4>2. late' * (DownStrikes - 1) = late * (DownStrikes - 1) + (DownStrikes - 1)
        BY <4>1, <1>3, LateAddsOne
      <4>3. Tolerated(streak) <= DownStrikes - 1 /\ Tolerated(streak') = 0
        BY <3>2, <1>2 DEF Tolerated
      <4> DEFINE paid == late * (DownStrikes - 1)
      <4>4. paid \in Nat
        BY <1>3, LateAddsOne
      <4>5. greens <= IF lamp = "ssh" THEN paid + Tolerated(streak) ELSE 0
        BY DEF Paid
      <4>6. Tolerated(streak) \in Nat
        BY <1>2 DEF Tolerated
      <4> HIDE DEF paid
      <4>7. greens' <= IF lamp = "ssh" THEN (paid + (DownStrikes - 1)) + 0 ELSE 0
        BY <3>1, <4>3, <4>4, <4>5, <4>6, <1>3
      <4> QED
        BY <2>1, <4>2, <4>3, <4>7 DEF Paid, paid
    <3> QED
      BY <3>3, <3>4
  <2>3. CASE ping[r] = "lost"
    <3>1. late' = late /\ ~(streak' = 0)
      BY <2>3, <1>2, <1>3 DEF StreakAfter
    <3>2. green => NetState(streak') # "up"
      BY <3>1, <1>2 DEF NetState
    <3>3. CASE lamp = "bmc"
      BY <3>2, <3>3, <2>1, <1>1, <1>3 DEF MayBeGreen, Paid
    <3>4. CASE lamp = "ssh"
      <4>1. green => streak' < DownStrikes
        BY <3>1, <3>4, <1>1, <1>2 DEF MayBeGreen, NetState
      <4>2. green => Tolerated(streak') = Tolerated(streak) + 1
        BY <4>1, <2>3, <1>2 DEF Tolerated, StreakAfter
      <4>3. Tolerated(streak') >= Tolerated(streak)
        BY <2>3, <1>2 DEF Tolerated, StreakAfter
      <4> DEFINE paid == late * (DownStrikes - 1)
      <4>4. paid \in Nat /\ greens <= paid + Tolerated(streak)
        BY <3>4, <1>3, LateAddsOne DEF Paid
      <4>5. Tolerated(streak) \in Nat /\ Tolerated(streak') \in Nat
        BY <1>2 DEF Tolerated
      <4> HIDE DEF paid
      <4>6. greens' <= paid + Tolerated(streak')
        BY <4>2, <4>3, <4>4, <4>5, <1>1, <1>3
      <4> QED
        BY <3>1, <3>4, <2>1, <4>6 DEF Paid, paid
    <3> QED
      BY <3>3, <3>4, <2>1
  <2> QED
    BY <2>1, <2>2, <2>3
<1> QED
  BY <1>4, <1>5, <1>6, <1>7

LEMMA LightInvStep == LightInv /\ [LightNext]_lightVars => LightInv'
<1> SUFFICES ASSUME LightInv, [LightNext]_lightVars PROVE LightInv'
  OBVIOUS
<1>1. CASE GoDown
  <2>1. within = {} /\ late' = late /\ streak' = streak
    BY <1>1 DEF LightInv, Outside, GoDown
  <2>2. LightTypeOK' /\ Outside' /\ Inside'
    <3>1. outages' \in 0..MaxOutages
      BY <1>1 DEF LightInv, LightTypeOK, GoDown
    <3>2. LightTypeOK'
      BY <1>1, <3>1 DEF LightInv, LightTypeOK, GoDown
    <3>3. Outside' /\ Inside'
      BY <1>1, <2>1 DEF Outside, Inside, GoDown
    <3> QED
      BY <3>2, <3>3
  <2>3. Paid'
    <3>1. late' * (DownStrikes - 1) = late * (DownStrikes - 1)
      BY <2>1
    <3>2. lamp' = lamp /\ greens' = greens
      BY <1>1 DEF GoDown
    <3>3. Tolerated(streak') = Tolerated(streak)
      BY <2>1
    <3> QED
      BY <3>1, <3>2, <3>3 DEF LightInv, Paid
  <2> QED
    BY <2>2, <2>3 DEF LightInv
<1>2. CASE ComeUp
  <2>1. late' * (DownStrikes - 1) = 0 /\ streak' = streak
    BY <1>2, LateAddsOne DEF ComeUp
  <2> QED
    BY <1>2, <2>1 DEF LightInv, LightTypeOK, Outside, Inside, Paid, Tolerated, ComeUp
<1>3. CASE \E r \in Pingers : SendPing(r) \/ Echo(r) \/ LosePing(r) \/ Record(r)
  BY <1>3, PingSteps, RecordStep
<1>4. CASE UNCHANGED lightVars
  BY <1>4 DEF LightInv, LightTypeOK, Outside, Inside, Paid, Tolerated, lightVars
<1> QED
  BY <1>1, <1>2, <1>3, <1>4 DEF LightNext

LEMMA PaidIsBounded == LightInv => GreenIsBounded
<1> SUFFICES ASSUME LightInv PROVE GreenIsBounded
  OBVIOUS
<1>1. late \in Nat /\ greens \in Nat /\ streak \in 0..DownStrikes + 1
  BY DEF LightInv, LightTypeOK
<1>2. Tolerated(streak) <= DownStrikes - 1 /\ Tolerated(streak) \in Nat
  BY <1>1 DEF Tolerated
<1> DEFINE paid == late * (DownStrikes - 1)
<1>3. paid \in Nat /\ (late + 1) * (DownStrikes - 1) = paid + (DownStrikes - 1)
  BY <1>1, LateAddsOne
<1>4. greens <= IF lamp = "ssh" THEN paid + Tolerated(streak) ELSE 0
  BY DEF LightInv, Paid
<1> HIDE DEF paid
<1> QED
  BY <1>1, <1>2, <1>3, <1>4 DEF GreenIsBounded

(* However many requests interleave and however late their echoes are        *)
(* recorded, a light is green on a dead machine for at most DownStrikes - 1  *)
(* requests sent since it died, and as many more for each late success.      *)
THEOREM DeadMachineTurnsRed == LightSpec => []GreenIsBounded
<1>1. LightSpec => []LightInv
  BY LightInvInit, LightInvStep, PTL DEF LightSpec
<1> QED
  BY <1>1, PaidIsBounded, PTL
=============================================================================
