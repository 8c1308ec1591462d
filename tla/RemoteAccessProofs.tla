-------------------------- MODULE RemoteAccessProofs ---------------------------
(* The safety properties of the parts of RemoteAccess, for every set of      *)
(* accounts, sockets, sessions, requests, threads and configurations, and    *)
(* that a behaviour of RemoteAccess is one of each of its parts, so that     *)
(* what is proved of a part holds of the whole.                              *)
EXTENDS RemoteAccess, SshPoolProofs, HeaderLightsProofs

-----------------------------------------------------------------------------
(* ConfigStore: what memory holds, or will hold again if the merge under way *)
(* fails, is what the merges that reached the file set.                      *)

Settled == IF Unlocked THEN config ELSE merge.previous

ConfigInv ==
  /\ ConfigTypeOK
  /\ Settled = committed
  /\ file \in {committed, Broken} \/ (file = Absent /\ committed = Defaults)
  /\ sshVersion # Unset /\ ~overlapped => sshVersion = committed.host
  /\ ~overlapped => \A k \in Checks : check[k].step # "idle" => check[k].host = committed.host

LEMMA ConfigInvInit == ConfigInit => ConfigInv
<1> SUFFICES ASSUME ConfigInit PROVE ConfigInv
  OBVIOUS
<1>1. Defaults \in Configs
  BY DEF Defaults, Configs
<1>2. ConfigTypeOK
  <2>1. merge \in [by : Editors \cup {Unset}, previous : Configs]
    BY <1>1 DEF ConfigInit, NoMerge
  <2>2. check \in [Checks -> [step : {"idle", "begun", "probing"},
                             host : Servers \cup {Unset}, cached : Servers \cup {Unset}]]
    BY DEF ConfigInit, NoCheck
  <2>3. overlapped \in BOOLEAN
    BY DEF ConfigInit
  <2>4. merges \in 0..MaxMerges /\ configTrouble \in 0..MaxConfigTrouble
    BY ConfigBounds DEF ConfigInit
  <2>5. {config, committed} \subseteq Configs /\ file \in Configs \cup {Absent, Broken}
        /\ sshVersion \in Servers \cup {Unset}
    BY <1>1 DEF ConfigInit
  <2> QED
    BY <2>1, <2>2, <2>3, <2>4, <2>5 DEF ConfigTypeOK
<1> QED
  BY <1>1, <1>2 DEF ConfigInit, ConfigInv, NoMerge, NoCheck, Settled, Unlocked

LEMMA MergeTouchesConfigs ==
  ASSUME NEW c \in Configs, NEW u \in Updates
  PROVE  [f \in {"host", "path"} |-> IF f \in DOMAIN u THEN u[f] ELSE c[f]] \in Configs
<1>1. CASE u \in [host : Servers]
  BY <1>1 DEF Configs
<1>2. CASE u \in [path : Paths]
  BY <1>2 DEF Configs
<1> QED
  BY <1>1, <1>2 DEF Updates

LEMMA ReadShape ==
  LET R == [step : {"idle", "begun", "probing"},
            host : Servers \cup {Unset}, cached : Servers \cup {Unset}]
  IN  \A r \in R, v \in Servers \cup {Unset} :
        /\ [r EXCEPT !.step = "probing", !.cached = v] \in R
        /\ [r EXCEPT !.step = "probing", !.cached = v].host = r.host
  OBVIOUS

LEMMA ConfigInvNext ==
  ASSUME ConfigInv, [ConfigNext]_configVars
  PROVE  ConfigInv'
<1> USE ConfigBounds, ConfigValues DEF ConfigInv, ConfigTypeOK, Settled, Unlocked
<1>1. ASSUME NEW e \in Editors, MergeBegins(e) PROVE ConfigInv'
  <2>1. config \in Configs
    OBVIOUS
  <2>2. config' \in Configs
    BY <1>1, <2>1, MergeTouchesConfigs DEF MergeBegins
  <2>3. /\ merge' = [by |-> e, previous |-> config] /\ e # Unset /\ merges' \in 0..MaxMerges
        /\ UNCHANGED <<file, committed, sshVersion, check, overlapped, configTrouble>>
    BY <1>1 DEF MergeBegins
  <2> QED
    BY <1>1, <2>1, <2>2, <2>3 DEF MergeBegins
<1>2. CASE MergeSaves
  BY <1>2 DEF MergeSaves, VersionAfterMerge, NoMerge, Configs, Defaults
<1>3. CASE MergeFails
  BY <1>3 DEF MergeFails, ConfigFails, RolledBack, NoMerge, Configs, Defaults
<1>4. CASE Damage
  BY <1>4 DEF Damage, ConfigFails
<1>5. CASE Reload
  <2>1. Defaults \in Configs /\ Defaults.host = Unset
    BY DEF Defaults, Configs
  <2>2. /\ merge' = [by |-> Unset, previous |-> Defaults] /\ merges' = merges
        /\ sshVersion' = Unset /\ overlapped' = FALSE
        /\ configTrouble' \in 0..MaxConfigTrouble
    BY <1>5 DEF Reload, ConfigFails, NoMerge
  <2>3. /\ check' \in [Checks -> [step : {"idle", "begun", "probing"},
                                  host : Servers \cup {Unset}, cached : Servers \cup {Unset}]]
        /\ \A k \in Checks : check'[k].step = "idle"
    BY <1>5 DEF Reload, NoCheck
  <2>4. CASE file = Broken
    <3>1. config' = Defaults /\ committed' = Defaults /\ file' = Absent
      BY <1>5, <2>4 DEF Reload
    <3> QED
      BY <2>1, <2>2, <2>3, <3>1
  <2>5. CASE file = Absent
    <3>1. config' = Defaults /\ committed' = committed /\ file' = file /\ committed = Defaults
      BY <1>5, <2>5 DEF Reload
    <3> QED
      BY <2>1, <2>2, <2>3, <2>5, <3>1
  <2>6. CASE file \notin {Absent, Broken}
    <3>1. config' = file /\ committed' = committed /\ file' = file /\ file = committed
      BY <1>5, <2>6 DEF Reload
    <3> QED
      BY <2>1, <2>2, <2>3, <2>6, <3>1
  <2> QED
    BY <2>4, <2>5, <2>6
<1>6. ASSUME NEW k \in Checks, CheckBegins(k) PROVE ConfigInv'
  BY <1>6 DEF CheckBegins, NoCheck, Configs
<1>7. ASSUME NEW k \in Checks, CheckReads(k) PROVE ConfigInv'
  <2>1. /\ check' = [check EXCEPT ![k] = [@ EXCEPT !.step = "probing", !.cached = sshVersion]]
        /\ check[k].step = "begun"
        /\ UNCHANGED <<config, file, merge, committed, sshVersion, overlapped, merges,
                       configTrouble>>
    BY <1>7 DEF CheckReads
  <2>2. /\ check' \in [Checks -> [step : {"idle", "begun", "probing"},
                                  host : Servers \cup {Unset}, cached : Servers \cup {Unset}]]
        /\ \A l \in Checks : /\ check'[l].host = check[l].host
                              /\ check'[l].step # "idle" => check[l].step # "idle"
    <3>1. \A l \in Checks : l # k => check'[l] = check[l]
      BY <2>1
    <3>2. check'[k] = [check[k] EXCEPT !.step = "probing", !.cached = sshVersion]
      BY <2>1
    <3>3. check' \in [Checks -> [step : {"idle", "begun", "probing"},
                                host : Servers \cup {Unset}, cached : Servers \cup {Unset}]]
      <4>1. ASSUME NEW l \in Checks
            PROVE  check'[l] \in [step : {"idle", "begun", "probing"},
                                  host : Servers \cup {Unset}, cached : Servers \cup {Unset}]
        <5>1. CASE l = k
          <6>1. /\ sshVersion \in Servers \cup {Unset}
                /\ check[k] \in [step : {"idle", "begun", "probing"},
                                 host : Servers \cup {Unset}, cached : Servers \cup {Unset}]
            OBVIOUS
          <6>2. [check[k] EXCEPT !.step = "probing", !.cached = sshVersion]
                  \in [step : {"idle", "begun", "probing"},
                       host : Servers \cup {Unset}, cached : Servers \cup {Unset}]
            BY <6>1, ReadShape
          <6> QED
            BY <5>1, <3>2, <6>2
        <5>2. CASE l # k
          BY <5>2, <3>1
        <5> QED
          BY <5>1, <5>2
      <4>2. check' = [l \in Checks |-> check'[l]]
        BY <2>1
      <4> QED
        BY <4>1, <4>2
    <3>4. check'[k].host = check[k].host
      BY <3>2, ReadShape
    <3> QED
      BY <2>1, <3>1, <3>3, <3>4
  <2> QED
    BY <2>1, <2>2
<1>8. ASSUME NEW k \in Checks, CheckEnds(k) PROVE ConfigInv'
  BY <1>8 DEF CheckEnds, NoCheck
<1>9. CASE UNCHANGED configVars
  BY <1>9 DEF configVars
<1> QED
  BY <1>1, <1>2, <1>3, <1>4, <1>5, <1>6, <1>7, <1>8, <1>9 DEF ConfigNext

LEMMA ConfigInvAlways == ConfigSpec => []ConfigInv
<1> QED
  BY ConfigInvInit, ConfigInvNext, PTL DEF ConfigSpec

(* remote_client.py's merge keeps every committed field and no other,        *)
(* whatever fails: the rollback, the whole-file replacement and the          *)
(* quarantine of a broken file leave memory and file agreeing, and the       *)
(* cached version is the configured server's unless an edit overtook a check. *)
THEOREM ConfigurationKept == ConfigSpec => []ConfigKept
<1>1. ConfigInv => ConfigKept
  BY DEF ConfigInv, ConfigKept, Settled
<1> QED
  BY <1>1, ConfigInvAlways, PTL

-----------------------------------------------------------------------------
(* SshProbe: the stop flag is up only while the lock is held for a restart,  *)
(* whose request still sees the cache it found stale; a request remembers    *)
(* the configurations in force since it began, its own round among them.     *)

ProbeInv ==
  /\ ProbeTypeOK
  /\ LockFree => ~stop
  /\ ProberAlive
  /\ ~LockFree => ask[restarter].step = "joining" /\ cache = ask[restarter].host
  /\ \A c \in Callers :
       /\ ask[c].step # "idle" => host \in ask[c].since /\ ask[c].host \in ask[c].since
       /\ ask[c].step \in {"asked", "joining"} => ask[c].answer = Nobody
       /\ ask[c].step = "joining" => restarter = c
       /\ ask[c].step = "healing" => round[c] \in ask[c].since
       /\ ask[c].answer \in ask[c].since \cup {Nobody}

LEMMA AnsweredShape ==
  LET R == [step : {"idle", "asked", "joining", "healing", "answered"},
            host : Known, since : SUBSET Hosts, answer : Known]
  IN  \A r \in R, h \in Known : [r EXCEPT !.step = "answered", !.answer = h] \in R
  OBVIOUS

LEMMA ProbeInvInit == ProbeInit => ProbeInv
<1> SUFFICES ASSUME ProbeInit PROVE ProbeInv
  OBVIOUS
<1>1. ProbeTypeOK
  <2>1. ask \in [Callers -> [step : {"idle", "asked", "joining", "healing", "answered"},
                            host : Known, since : SUBSET Hosts, answer : Known]]
    BY DEF ProbeInit, NoAsk, Known
  <2>2. edits \in 0..MaxEdits
    BY ProbeBounds DEF ProbeInit
  <2> QED
    BY <2>1, <2>2 DEF ProbeInit, ProbeTypeOK, Known
<1> QED
  BY <1>1 DEF ProbeInit, ProbeInv, ProberAlive, LockFree, NoAsk

(* Storing the result of a round happens under the lock and touches no       *)
(* request.                                                                  *)
LEMMA ProbeInvNext ==
  ASSUME ProbeInv, [ProbeNext]_probeVars
  PROVE  ProbeInv'
<1> USE ProbeBounds, NobodyAssumption
    DEF ProbeInv, ProbeTypeOK, ProberAlive, LockFree, Known, threadVars
<1>1. CASE Edit
  BY <1>1 DEF Edit
<1>2. CASE Pass
  BY <1>2 DEF Pass
<1>3. ASSUME NEW p \in Probers, Wake(p) PROVE ProbeInv'
  <2>1. ProbeTypeOK'
    BY <1>3 DEF Wake
  <2>2. ProberAlive'
    BY <1>3 DEF Wake
  <2>3. \A c \in Callers : round'[c] = round[c]
    BY <1>3 DEF Wake
  <2> QED
    BY <1>3, <2>1, <2>2, <2>3 DEF Wake
<1>4. ASSUME NEW p \in Probers, Finish(p) PROVE ProbeInv'
  <2>1. ProbeTypeOK'
    BY <1>4 DEF Finish, StoreRound
  <2>2. ProberAlive'
    BY <1>4 DEF Finish, StoreRound
  <2>3. \A c \in Callers : round'[c] = round[c]
    BY <1>4 DEF Finish, StoreRound
  <2> QED
    BY <1>4, <2>1, <2>2, <2>3 DEF Finish, StoreRound
<1>5. ASSUME NEW c \in Callers, Ask(c) PROVE ProbeInv'
  BY <1>5 DEF Ask
<1>6. ASSUME NEW c \in Callers, AskRefresh(c) PROVE ProbeInv'
  BY <1>6 DEF AskRefresh
<1>7. ASSUME NEW c \in Callers, ServeYoung(c) PROVE ProbeInv'
  BY <1>7 DEF ServeYoung, FitsHost, Answered
<1>8. ASSUME NEW c \in Callers, ServeAged(c) PROVE ProbeInv'
  BY <1>8 DEF ServeAged, FitsHost, Heal
<1>9. ASSUME NEW c \in Callers, RestartBegins(c) PROVE ProbeInv'
  BY <1>9 DEF RestartBegins, FitsHost
<1>10. ASSUME NEW c \in Callers, RestartEnds(c) PROVE ProbeInv'
  BY <1>10 DEF RestartEnds, Heal, StopAfterRestart, Fresh
<1>11. ASSUME NEW c \in Callers, ServeNotReady(c) PROVE ProbeInv'
  <2>1. /\ UNCHANGED <<host, edits, cache, age, throttled, round, restarter>>
        /\ ask[c].step = "asked" /\ restarter = Nobody
        /\ ask' = [ask EXCEPT ![c].step = "answered", ![c].answer = Nobody]
    BY <1>11 DEF ServeNotReady, Answered
  <2>2. \/ UNCHANGED <<stop, current, thread>>
        \/ \E p \in Probers : /\ current' = p /\ stop' = FALSE
                              /\ thread' = [thread EXCEPT ![p] = "asleep"]
    BY <1>11 DEF ServeNotReady, Fresh
  <2>3. ask' \in [Callers -> [step : {"idle", "asked", "joining", "healing", "answered"},
                              host : Known, since : SUBSET Hosts, answer : Known]]
    <3>1. [ask[c] EXCEPT !.step = "answered", !.answer = Nobody]
            \in [step : {"idle", "asked", "joining", "healing", "answered"},
                host : Known, since : SUBSET Hosts, answer : Known]
      BY AnsweredShape
    <3> QED
      BY <2>1, <3>1
  <2>4. ProbeTypeOK' /\ ProberAlive' /\ ~stop'
    <3>1. ~stop
      BY <2>1
    <3>2. CASE UNCHANGED <<stop, current, thread>>
      BY <2>1, <2>3, <3>1, <3>2
    <3>3. ASSUME NEW p \in Probers, current' = p, stop' = FALSE,
                 thread' = [thread EXCEPT ![p] = "asleep"]
          PROVE  ProbeTypeOK' /\ ProberAlive' /\ ~stop'
      BY <2>1, <2>3, <3>3
    <3> QED
      BY <2>2, <3>2, <3>3
  <2>5. /\ \A d \in Callers : d # c => ask'[d] = ask[d]
        /\ ask'[c] = [ask[c] EXCEPT !.step = "answered", !.answer = Nobody]
    BY <2>1
  <2> QED
    BY <2>1, <2>4, <2>5
<1>12. ASSUME NEW c \in Callers, HealDone(c) PROVE ProbeInv'
  BY <1>12 DEF HealDone, StoreRound, Answered
<1>13. ASSUME NEW c \in Callers, HealTimesOut(c) PROVE ProbeInv'
  <2>1. /\ UNCHANGED <<host, edits, cache, age, throttled, threadVars, round, restarter>>
        /\ ask[c].step = "healing"
        /\ ask' = [ask EXCEPT ![c].step = "answered", ![c].answer = ask[c].answer]
    BY <1>13 DEF HealTimesOut, Answered
  <2>2. ask' \in [Callers -> [step : {"idle", "asked", "joining", "healing", "answered"},
                              host : Known, since : SUBSET Hosts, answer : Known]]
    <3>1. [ask[c] EXCEPT !.step = "answered", !.answer = ask[c].answer]
            \in [step : {"idle", "asked", "joining", "healing", "answered"},
                host : Known, since : SUBSET Hosts, answer : Known]
      BY AnsweredShape
    <3> QED
      BY <2>1, <3>1
  <2> QED
    BY <2>1, <2>2
<1>14. ASSUME NEW c \in Callers, Reply(c) PROVE ProbeInv'
  BY <1>14 DEF Reply, NoAsk
<1>15. CASE UNCHANGED probeVars
  BY <1>15 DEF probeVars
<1> QED
  BY <1>1, <1>2, <1>3, <1>4, <1>5, <1>6, <1>7, <1>8, <1>9, <1>10, <1>11, <1>12, <1>13, <1>14,
     <1>15 DEF ProbeNext

LEMMA ProbeInvAlways == ProbeSpec => []ProbeInv
<1> QED
  BY ProbeInvInit, ProbeInvNext, PTL DEF ProbeSpec

(* The stop flag meant for a wedged probe thread is down before anybody but  *)
(* the restarting request can look: the registered thread stays alive.       *)
THEOREM ProbeThreadLives == ProbeSpec => []ProberAlive
<1>1. ProbeInv => ProberAlive
  BY DEF ProbeInv
<1> QED
  BY <1>1, ProbeInvAlways, PTL

(* However late a round stores its result, an answer is about a              *)
(* configuration that was in force during the request.                       *)
THEOREM AnswersAreCurrent == ProbeSpec => []AnswersForConfig
<1>1. ProbeInv => AnswersForConfig
  BY DEF ProbeInv, AnswersForConfig
<1> QED
  BY <1>1, ProbeInvAlways, PTL

-----------------------------------------------------------------------------
(* ConsoleSessions: the count of a session is the number of its attached     *)
(* sockets, a creation is alone and its sentinel stands until it is over.    *)

SockShape == [pc : SockPcs, a : Accounts, s : Sessions \cup {NoSession}]

ConsoleShape ==
  /\ slot \in [Accounts -> Sessions \cup {NoSession, Creating}]
  /\ shell \in [Sessions -> {"closed", "live", "dead"}]
  /\ attached \in [Sessions -> Nat]
  /\ sock \in [Sockets -> SockShape]
  /\ shells \in 0..MaxShellTrouble

Atts(s) == {w \in Sockets : sock[w].pc = "attached" /\ sock[w].s = s}
AttachedExact == \A s \in Sessions : attached[s] = Cardinality(Atts(s))

InHand == \A w \in Sockets : sock[w].pc \in {"greet", "attached"} => sock[w].s \in Sessions

Creates(w) == sock[w].pc \in {"create", "store"}
CreatesAlone ==
  /\ \A v, w \in Sockets : Creates(v) /\ Creates(w) /\ sock[v].a = sock[w].a => v = w
  /\ \A w \in Sockets : Creates(w) => slot[sock[w].a] = Creating

ConsoleInv == /\ ConsoleShape /\ AttachedExact /\ InHand /\ CreatesAlone
              /\ CapacityHeld /\ NoSessionLeaks

LEMMA SockIdleShape ==
  /\ SockIdle \in SockShape /\ SockIdle.pc = "idle"
  /\ \A a \in Accounts : SockAt(a) \in SockShape /\ SockAt(a).pc = "ask"
<1>1. (CHOOSE a \in Accounts : TRUE) \in Accounts
  BY SessionAssumption
<1> QED
  BY <1>1 DEF SockIdle, SockAt, SockShape, SockPcs

LEMMA AttsFinite ==
  ASSUME NEW s
  PROVE  /\ IsFiniteSet(Atts(s)) /\ Cardinality(Atts(s)) \in Nat
         /\ Cardinality(Atts(s)) <= Cardinality(Sockets)
<1>1. Atts(s) \subseteq Sockets
  BY DEF Atts
<1> QED
  BY <1>1, SessionAssumption, FS_Subset, FS_CardinalityType

LEMMA UsedFinite ==
  ASSUME NEW t
  PROVE  IsFiniteSet(Used(t)) /\ Cardinality(Used(t)) \in Nat
<1>1. Used(t) \subseteq Accounts
  BY DEF Used
<1> QED
  BY <1>1, SessionAssumption, FS_Subset, FS_CardinalityType

(* The three ways a step changes who is attached.                            *)
LEMMA AttsSame ==
  ASSUME ConsoleInv, attached' = attached,
         \A w \in Sockets : /\ sock'[w].pc = "attached" <=> sock[w].pc = "attached"
                            /\ sock[w].pc = "attached" => sock'[w].s = sock[w].s
  PROVE  AttachedExact'
<1>1. ASSUME NEW s \in Sessions PROVE Atts(s)' = Atts(s)
  BY DEF Atts
<1> QED
  BY <1>1 DEF ConsoleInv, AttachedExact

LEMMA AttsGained ==
  ASSUME ConsoleInv, NEW w \in Sockets, sock[w].pc = "greet",
         attached' = [attached EXCEPT ![sock[w].s] = @ + 1],
         sock' = [sock EXCEPT ![w].pc = "attached"]
  PROVE  AttachedExact' /\ attached' \in [Sessions -> Nat]
<1>0. sock \in [Sockets -> SockShape] /\ attached \in [Sessions -> Nat]
  BY DEF ConsoleInv, ConsoleShape
<1>1. PICK s \in Sessions : s = sock[w].s
  BY DEF ConsoleInv, InHand
<1>2. Atts(s)' = Atts(s) \cup {w} /\ w \notin Atts(s)
  BY <1>0, <1>1 DEF Atts, SockShape
<1>3. Cardinality(Atts(s)') = Cardinality(Atts(s)) + 1
  BY <1>2, AttsFinite, FS_AddElement
<1>4. ASSUME NEW u \in Sessions, u # s PROVE Atts(u)' = Atts(u)
  BY <1>0, <1>1, <1>4 DEF Atts, SockShape
<1>5. attached' = [attached EXCEPT ![s] = attached[s] + 1]
  BY <1>1
<1>6. ASSUME NEW u \in Sessions PROVE attached'[u] = Cardinality(Atts(u)')
  <2>1. CASE u = s
    BY <1>0, <1>1, <1>3, <1>5, <2>1 DEF ConsoleInv, AttachedExact
  <2>2. CASE u # s
    BY <1>0, <1>1, <1>4, <1>5, <2>2 DEF ConsoleInv, AttachedExact
  <2> QED
    BY <2>1, <2>2
<1> QED
  BY <1>0, <1>1, <1>5, <1>6 DEF AttachedExact

LEMMA AttsLost ==
  ASSUME ConsoleInv, NEW w \in Sockets, sock[w].pc = "attached",
         attached' = Detached(sock[w].s), SockEnds(w)
  PROVE  AttachedExact' /\ attached' \in [Sessions -> Nat]
<1>0. sock \in [Sockets -> SockShape] /\ attached \in [Sessions -> Nat]
  BY DEF ConsoleInv, ConsoleShape
<1>1. PICK s \in Sessions : s = sock[w].s
  BY DEF ConsoleInv, InHand
<1>2. Atts(s)' = Atts(s) \ {w} /\ w \in Atts(s)
  BY <1>0, <1>1, SockIdleShape DEF Atts, SockEnds
<1>3. /\ Cardinality(Atts(s)') = Cardinality(Atts(s)) - 1 /\ Cardinality(Atts(s)') \in Nat
      /\ Cardinality(Atts(s)) \in Nat
  BY <1>2, AttsFinite, FS_RemoveElement, FS_CardinalityType
<1>4. ASSUME NEW u \in Sessions, u # s PROVE Atts(u)' = Atts(u)
  BY <1>0, <1>1, <1>4, SockIdleShape DEF Atts, SockEnds
<1>5. attached' = [attached EXCEPT ![s] = IF attached[s] > 0 THEN attached[s] - 1 ELSE 0]
  BY <1>1 DEF Detached
<1>6. ASSUME NEW u \in Sessions PROVE attached'[u] = Cardinality(Atts(u)')
  <2>1. CASE u = s
    BY <1>0, <1>1, <1>3, <1>5, <2>1 DEF ConsoleInv, AttachedExact
  <2>2. CASE u # s
    BY <1>0, <1>1, <1>4, <1>5, <2>2 DEF ConsoleInv, AttachedExact
  <2> QED
    BY <2>1, <2>2
<1> QED
  BY <1>0, <1>1, <1>5, <1>6 DEF AttachedExact

LEMMA AttachedCounts ==
  ASSUME ConsoleInv, NEW w \in Sockets, sock[w].pc = "attached"
  PROVE  sock[w].s \in Sessions /\ attached[sock[w].s] > 0
<1>1. sock[w].s \in Sessions
  BY DEF ConsoleInv, InHand
<1>2. w \in Atts(sock[w].s)
  BY DEF Atts
<1>3. Cardinality(Atts(sock[w].s)) # 0
  BY <1>2, AttsFinite, FS_EmptySet
<1> QED
  BY <1>1, <1>3, AttsFinite DEF ConsoleInv, AttachedExact

(* The table only loses entries, or one entry gives way to another.          *)
LEMMA TableShrinks ==
  ASSUME ConsoleInv, \A a \in Accounts : slot'[a] # NoSession => slot[a] # NoSession
  PROVE  CapacityHeld'
<1>1. Used(slot') \subseteq Used(slot)
  BY DEF Used
<1>2. Cardinality(Used(slot')) <= Cardinality(Used(slot))
  BY <1>1, UsedFinite, FS_Subset
<1>3. Cardinality(Used(slot)) \in Nat /\ Cardinality(Used(slot')) \in Nat
  BY UsedFinite
<1> QED
  BY <1>2, <1>3, SessionAssumption DEF ConsoleInv, CapacityHeld

LEMMA PurgedShape ==
  ASSUME ConsoleInv, NEW a \in Accounts
  PROVE  /\ Purged \in [Accounts -> Sessions \cup {NoSession, Creating}]
         /\ Purged[a] # NoSession => Purged[a] = slot[a]
         /\ slot[a] = Creating <=> Purged[a] = Creating
         /\ a \in Stale <=> slot[a] \in Sessions /\ Purged[a] = NoSession
         /\ Purged[a] \in Sessions => shell[slot[a]] = "live"
  BY SessionAssumption DEF ConsoleInv, ConsoleShape, Purged, Stale

LEMMA ConsoleInvInit == ConsoleInit => ConsoleInv
<1> SUFFICES ASSUME ConsoleInit PROVE ConsoleInv
  OBVIOUS
<1>1. ConsoleShape
  BY SockIdleShape, SessionAssumption DEF ConsoleInit, ConsoleShape
<1>2. \A w \in Sockets : sock[w].pc = "idle"
  BY SockIdleShape DEF ConsoleInit
<1>3. AttachedExact
  <2>1. ASSUME NEW s \in Sessions PROVE Atts(s) = {}
    BY <1>2 DEF Atts
  <2> QED
    BY <2>1, FS_EmptySet DEF ConsoleInit, AttachedExact
<1>4. CapacityHeld
  <2>1. Used(slot) = {}
    BY DEF ConsoleInit, Used
  <2> QED
    BY <2>1, FS_EmptySet, SessionAssumption DEF CapacityHeld
<1>5. NoSessionLeaks
  BY DEF ConsoleInit, NoSessionLeaks
<1> QED
  BY <1>1, <1>2, <1>3, <1>4, <1>5 DEF ConsoleInv, InHand, CreatesAlone, Creates

(* A socket's step that leaves the table, the shells and the counts alone.   *)
LEMMA SockMoves ==
  ASSUME ConsoleInv, NEW w \in Sockets, NEW next \in SockShape, sock' = [sock EXCEPT ![w] = next],
         sock[w].pc \notin {"store", "attached"},
         next.pc = "store" => sock[w].pc = "create" /\ next.a = sock[w].a,
         next.pc \notin {"create", "greet", "attached"},
         shells' \in 0..MaxShellTrouble,
         UNCHANGED <<slot, shell, attached>>
  PROVE  ConsoleInv'
<1> USE DEF ConsoleInv, ConsoleShape
<1>1. AttachedExact'
  BY AttsSame
<1>2. CapacityHeld'
  BY TableShrinks
<1>3. InHand'
  BY DEF InHand
<1>4. CreatesAlone'
  BY DEF CreatesAlone, Creates
<1>5. NoSessionLeaks'
  BY DEF NoSessionLeaks
<1> QED
  BY <1>1, <1>2, <1>3, <1>4, <1>5

(* A look at the table that only purges it.                                  *)
LEMMA AskPurges ==
  ASSUME ConsoleInv, NEW w \in Sockets, NEW next \in SockShape, sock' = [sock EXCEPT ![w] = next],
         sock[w].pc = "ask",
         next.pc \in {"ask", "idle", "greet"}, next.pc = "greet" => next.s \in Sessions,
         slot' = Purged, CloseShells({slot[a] : a \in Stale}), UNCHANGED <<attached, shells>>
  PROVE  ConsoleInv'
<1> USE DEF ConsoleInv, ConsoleShape
<1>1. ConsoleShape'
  BY PurgedShape, SessionAssumption DEF CloseShells
<1>2. AttachedExact'
  BY AttsSame
<1>3. CapacityHeld'
  BY PurgedShape, TableShrinks
<1>4. InHand'
  BY DEF InHand
<1>5. CreatesAlone'
  BY PurgedShape DEF CreatesAlone, Creates, SockShape
<1>6. NoSessionLeaks'
  <2>1. ASSUME NEW s \in Sessions, shell'[s] # "closed"
        PROVE  \/ \E a \in Accounts : slot'[a] = s
               \/ \E v \in Sockets : sock'[v].pc = "store" /\ sock'[v].s = s
    <3>1. shell[s] # "closed" /\ \A a \in Stale : slot[a] # s
      BY <2>1 DEF CloseShells
    <3>2. ASSUME NEW a \in Accounts, slot[a] = s PROVE slot'[a] = s
      BY <3>1, <3>2, SessionAssumption DEF Purged
    <3>3. CASE \E a \in Accounts : slot[a] = s
      BY <3>2, <3>3
    <3>4. CASE \E v \in Sockets : sock[v].pc = "store" /\ sock[v].s = s
      BY <3>4
    <3> QED
      BY <3>1, <3>3, <3>4 DEF NoSessionLeaks
  <2> QED
    BY <2>1 DEF NoSessionLeaks
<1> QED
  BY <1>1, <1>2, <1>3, <1>4, <1>5, <1>6

(* A look at the table that begins a creation, which may evict one session.  *)
LEMMA AskCreatesKeeps ==
  ASSUME ConsoleInv, NEW w \in Sockets, AskCreates(w)
  PROVE  ConsoleInv'
<1> DEFINE a == sock[w].a
<1> USE DEF ConsoleInv, ConsoleShape
<1>1. PICK e \in (IF TableFull THEN {{b} : b \in Unattached} ELSE {{}}) :
        /\ slot' = [b \in Accounts |-> IF b = a THEN Creating
                                       ELSE IF b \in e THEN NoSession ELSE Purged[b]]
        /\ CloseShells({slot[b] : b \in Stale \cup e})
  BY DEF AskCreates
<1>2. /\ sock[w].pc = "ask" /\ Purged[a] = NoSession /\ a \in Accounts
      /\ sock' = [sock EXCEPT ![w].pc = "create"] /\ UNCHANGED <<attached, shells>>
  BY DEF AskCreates, SockGoto, SockShape
<1>3. e \subseteq Unattached /\ (TableFull => \E b \in Unattached : e = {b})
  BY <1>1
<1> HIDE DEF a
<1>4. \A b \in e : b \in Accounts /\ Purged[b] \in Sessions /\ Purged[b] = slot[b] /\ b # a
  BY <1>2, <1>3, PurgedShape, SessionAssumption DEF Unattached
<1>5. ConsoleShape'
  <2>1. sock' \in [Sockets -> SockShape]
    BY <1>2 DEF SockShape, SockPcs
  <2>2. slot' \in [Accounts -> Sessions \cup {NoSession, Creating}]
    BY <1>1, PurgedShape
  <2> QED
    BY <1>1, <1>2, <2>1, <2>2 DEF CloseShells
<1>6. AttachedExact'
  BY <1>2, AttsSame DEF SockShape
<1>7. InHand'
  BY <1>2 DEF InHand, SockShape
<1>8. slot[a] # Creating /\ \A v \in Sockets : Creates(v) => sock[v].a # a
  BY <1>2, PurgedShape, SessionAssumption DEF CreatesAlone
<1>9. CreatesAlone'
  <2>1. \A v \in Sockets : /\ v # w => sock'[v] = sock[v]
                           /\ sock'[v].a = sock[v].a
    BY <1>2 DEF SockShape
  <2>2. \A b \in Accounts : slot[b] = Creating => slot'[b] = Creating
    BY <1>1, <1>4, PurgedShape, SessionAssumption
  <2>3. slot'[a] = Creating /\ sock[w].a = a
    BY <1>1, <1>2 DEF a
  <2> QED
    BY <1>8, <2>1, <2>2, <2>3 DEF CreatesAlone, Creates, SockShape
<1>10. NoSessionLeaks'
  <2>1. ASSUME NEW s \in Sessions, shell'[s] # "closed"
        PROVE  \/ \E b \in Accounts : slot'[b] = s
               \/ \E v \in Sockets : sock'[v].pc = "store" /\ sock'[v].s = s
    <3>1. shell[s] # "closed" /\ \A b \in Stale \cup e : slot[b] # s
      BY <1>1, <2>1 DEF CloseShells
    <3>2. ASSUME NEW b \in Accounts, slot[b] = s PROVE slot'[b] = s
      <4>1. b \notin Stale /\ b \notin e
        BY <3>1, <3>2
      <4>2. Purged[b] = s /\ b # a
        BY <1>2, <3>2, <4>1, SessionAssumption DEF Purged
      <4> QED
        BY <1>1, <4>1, <4>2
    <3>3. CASE \E b \in Accounts : slot[b] = s
      BY <3>2, <3>3
    <3>4. CASE \E v \in Sockets : sock[v].pc = "store" /\ sock[v].s = s
      BY <1>2, <3>4 DEF SockShape
    <3> QED
      BY <3>1, <3>3, <3>4 DEF NoSessionLeaks
  <2> QED
    BY <2>1 DEF NoSessionLeaks
<1>11. CapacityHeld'
  <2>1. Used(slot') = (Used(Purged) \ e) \cup {a} /\ a \notin Used(Purged) \ e
    BY <1>1, <1>2, <1>4, SessionAssumption DEF Used
  <2>2. /\ IsFiniteSet(Used(Purged)) /\ Cardinality(Used(Purged)) \in Nat
        /\ Cardinality(Used(Purged)) <= MaxSessions
    <3>1. Used(Purged) \subseteq Used(slot)
      BY PurgedShape DEF Used
    <3>2. Cardinality(Used(Purged)) <= Cardinality(Used(slot))
      BY <3>1, UsedFinite, FS_Subset
    <3> QED
      BY <3>2, UsedFinite, SessionAssumption DEF CapacityHeld
  <2>3. Cardinality(Used(Purged) \ e) \in Nat /\ Cardinality(Used(Purged) \ e) < MaxSessions
        /\ IsFiniteSet(Used(Purged) \ e)
    <3>1. CASE TableFull
      <4>1. PICK b \in Unattached : e = {b}
        BY <1>3, <3>1
      <4>2. b \in Used(Purged)
        BY <1>4, <4>1, SessionAssumption DEF Used
      <4>3. Cardinality(Used(Purged) \ {b}) = Cardinality(Used(Purged)) - 1
            /\ IsFiniteSet(Used(Purged) \ {b}) /\ Cardinality(Used(Purged) \ {b}) \in Nat
        BY <2>2, <4>2, FS_RemoveElement, FS_CardinalityType
      <4> QED
        BY <2>2, <4>1, <4>3, SessionAssumption
    <3>2. CASE ~TableFull
      <4>1. e = {}
        BY <1>1, <3>2
      <4>2. Used(Purged) \ e = Used(Purged)
        BY <4>1
      <4> QED
        BY <2>2, <3>2, <4>2, SessionAssumption DEF TableFull
    <3> QED
      BY <3>1, <3>2
  <2>4. Cardinality(Used(slot')) = Cardinality(Used(Purged) \ e) + 1
    BY <2>1, <2>3, FS_AddElement
  <2> QED
    BY <2>3, <2>4, SessionAssumption DEF CapacityHeld
<1> QED
  BY <1>5, <1>6, <1>7, <1>9, <1>10, <1>11

LEMMA CreateOkKeeps ==
  ASSUME ConsoleInv, NEW w \in Sockets, CreateOk(w)
  PROVE  ConsoleInv'
<1> USE DEF ConsoleInv, ConsoleShape
<1>1. PICK s \in Unused : /\ shell' = [shell EXCEPT ![s] = "live"]
                          /\ sock' = [sock EXCEPT ![w].pc = "store", ![w].s = s]
  BY DEF CreateOk
<1>2. sock[w].pc = "create" /\ UNCHANGED <<slot, attached, shells>> /\ s \in Sessions
  BY DEF CreateOk, Unused
<1>3. ConsoleShape'
  <2>1. sock' \in [Sockets -> SockShape]
    BY <1>1, <1>2 DEF SockShape, SockPcs
  <2> QED
    BY <1>1, <1>2, <2>1
<1>4. AttachedExact'
  BY <1>1, <1>2, AttsSame DEF SockShape
<1>5. CapacityHeld'
  BY <1>2, TableShrinks
<1>6. InHand' /\ CreatesAlone'
  BY <1>1, <1>2 DEF InHand, CreatesAlone, Creates, SockShape
<1>7. NoSessionLeaks'
  BY <1>1, <1>2 DEF NoSessionLeaks, SockShape
<1> QED
  BY <1>3, <1>4, <1>5, <1>6, <1>7

(* Only the creator stores, and it finds its sentinel.                       *)
LEMMA StoreFinds ==
  ASSUME ConsoleInv, NEW w \in Sockets, Store(w)
  PROVE  /\ slot[sock[w].a] = Creating /\ sock[w].pc = "store"
         /\ slot' = [slot EXCEPT ![sock[w].a] = sock[w].s]
         /\ shell' = shell /\ UNCHANGED <<attached, shells>>
         /\ \/ sock[w].s # NoSession /\ sock' = [sock EXCEPT ![w].pc = "greet"]
            \/ sock[w].s = NoSession /\ sock' = [sock EXCEPT ![w] = SockIdle]
<1>1. slot[sock[w].a] = Creating /\ sock[w].pc = "store"
  BY DEF Store, ConsoleInv, CreatesAlone, Creates
<1>2. CloseShells({}) => shell' = shell
  BY DEF CloseShells, ConsoleInv, ConsoleShape
<1> QED
  BY <1>1, <1>2 DEF Store, SockGoto, SockEnds

LEMMA StoreKeeps ==
  ASSUME ConsoleInv, NEW w \in Sockets, Store(w)
  PROVE  ConsoleInv'
<1> USE DEF ConsoleInv, ConsoleShape
<1>1. /\ slot[sock[w].a] = Creating /\ sock[w].pc = "store"
      /\ slot' = [slot EXCEPT ![sock[w].a] = sock[w].s]
      /\ shell' = shell /\ UNCHANGED <<attached, shells>>
  BY StoreFinds
<1>2. PICK next \in SockShape :
        /\ sock' = [sock EXCEPT ![w] = next]
        /\ next.pc \in {"greet", "idle"} /\ (next.pc = "greet" => next.s \in Sessions)
  <2>1. CASE sock[w].s # NoSession /\ sock' = [sock EXCEPT ![w].pc = "greet"]
    <3>1. [sock[w] EXCEPT !.pc = "greet"] \in SockShape
      BY DEF SockShape, SockPcs
    <3>2. sock' = [sock EXCEPT ![w] = [sock[w] EXCEPT !.pc = "greet"]]
      BY <2>1
    <3> QED
      BY <2>1, <3>1, <3>2 DEF SockShape
  <2>2. CASE sock' = [sock EXCEPT ![w] = SockIdle]
    BY <2>2, SockIdleShape
  <2> QED
    BY StoreFinds, <2>1, <2>2
<1>3. sock[w].a \in Accounts /\ sock[w].s \in Sessions \cup {NoSession}
  BY DEF SockShape
<1>4. ConsoleShape'
  BY <1>1, <1>2, <1>3
<1>5. AttachedExact'
  BY <1>1, <1>2, AttsSame
<1>6. CapacityHeld'
  BY <1>1, <1>3, SessionAssumption, TableShrinks
<1>7. InHand'
  BY <1>2 DEF InHand
<1>8. CreatesAlone'
  BY <1>1, <1>2, <1>3 DEF CreatesAlone, Creates, SockShape
<1>9. NoSessionLeaks'
  <2>1. ASSUME NEW s \in Sessions, shell'[s] # "closed"
        PROVE  \/ \E a \in Accounts : slot'[a] = s
               \/ \E v \in Sockets : sock'[v].pc = "store" /\ sock'[v].s = s
    <3>1. CASE \E a \in Accounts : slot[a] = s
      BY <1>1, <3>1, SessionAssumption
    <3>2. ASSUME NEW v \in Sockets, sock[v].pc = "store", sock[v].s = s
          PROVE  \/ \E a \in Accounts : slot'[a] = s
                 \/ sock'[v].pc = "store" /\ sock'[v].s = s
      BY <1>1, <1>2, <1>3, <3>2
    <3> QED
      BY <1>1, <2>1, <3>1, <3>2 DEF NoSessionLeaks
  <2> QED
    BY <2>1 DEF NoSessionLeaks
<1> QED
  BY <1>4, <1>5, <1>6, <1>7, <1>8, <1>9

LEMMA AttachKeeps ==
  ASSUME ConsoleInv, NEW w \in Sockets, Attach(w) \/ Detach(w)
  PROVE  ConsoleInv'
<1> USE DEF ConsoleInv, ConsoleShape
<1>1. AttachedExact' /\ attached' \in [Sessions -> Nat]
  BY AttsGained, AttsLost DEF Attach, Detach, SockGoto
<1>2. PICK next \in SockShape :
        /\ sock' = [sock EXCEPT ![w] = next] /\ sock[w].pc \in {"greet", "attached"}
        /\ next.pc \in {"attached", "idle"} /\ (next.pc = "attached" => next.s \in Sessions)
        /\ UNCHANGED <<slot, shell, shells>>
  <2>1. CASE Attach(w)
    <3>1. [sock[w] EXCEPT !.pc = "attached"] \in SockShape
      BY DEF SockShape, SockPcs
    <3>2. sock' = [sock EXCEPT ![w] = [sock[w] EXCEPT !.pc = "attached"]]
      BY <2>1 DEF Attach, SockGoto
    <3> QED
      BY <2>1, <3>1, <3>2 DEF Attach, SockShape, InHand
  <2>2. CASE Detach(w)
    BY <2>2, SockIdleShape DEF Detach, SockEnds
  <2> QED
    BY <2>1, <2>2
<1>3. ConsoleShape'
  BY <1>1, <1>2
<1>4. CapacityHeld'
  BY <1>2, TableShrinks
<1>5. InHand' /\ CreatesAlone'
  BY <1>2 DEF InHand, CreatesAlone, Creates
<1>6. NoSessionLeaks'
  BY <1>2 DEF NoSessionLeaks
<1> QED
  BY <1>1, <1>3, <1>4, <1>5, <1>6

LEMMA ShellDiesKeeps ==
  ASSUME ConsoleInv, \/ \E s \in Sessions : ShellDies(s)
                     \/ UNCHANGED consoleVars
  PROVE  ConsoleInv'
<1> USE DEF ConsoleInv, ConsoleShape
<1>1. UNCHANGED <<slot, attached, sock>>
  BY DEF ShellDies, consoleVars
<1>2. /\ shell' \in [Sessions -> {"closed", "live", "dead"}] /\ shells' \in 0..MaxShellTrouble
      /\ \A s \in Sessions : shell'[s] # "closed" => shell[s] # "closed"
  BY SessionAssumption DEF ShellDies, SpendShell, consoleVars
<1>3. ConsoleShape'
  BY <1>1, <1>2
<1>4. AttachedExact'
  BY <1>1, AttsSame
<1>5. CapacityHeld'
  BY <1>1, TableShrinks
<1>6. InHand' /\ CreatesAlone'
  BY <1>1 DEF InHand, CreatesAlone, Creates
<1>7. NoSessionLeaks'
  BY <1>1, <1>2 DEF NoSessionLeaks
<1> QED
  BY <1>3, <1>4, <1>5, <1>6, <1>7

LEMMA ConsoleInvNext ==
  ASSUME ConsoleInv, [ConsoleNext]_consoleVars
  PROVE  ConsoleInv'
<1> USE DEF ConsoleInv, ConsoleShape
<1>1. ASSUME NEW w \in Sockets, NEW a \in Accounts, SockStart(w, a) PROVE ConsoleInv'
  BY <1>1, SockIdleShape, SockMoves DEF SockStart
<1>2. ASSUME NEW w \in Sockets, AskWaits(w) PROVE ConsoleInv'
  <2>1. sock' = [sock EXCEPT ![w] = sock[w]] \/ sock' = [sock EXCEPT ![w] = SockIdle]
    BY <1>2 DEF AskWaits
  <2>2. sock[w] \in SockShape /\ sock[w].pc = "ask"
    BY <1>2 DEF AskWaits
  <2> QED
    BY <1>2, <2>1, <2>2, SockIdleShape, AskPurges DEF AskWaits
<1>3. ASSUME NEW w \in Sockets, AskFinds(w) PROVE ConsoleInv'
  <2> DEFINE next == [sock[w] EXCEPT !.pc = "greet", !.s = slot[sock[w].a]]
  <2>1. slot[sock[w].a] \in Sessions /\ sock[w].a \in Accounts /\ sock[w].pc = "ask"
    BY <1>3, PurgedShape, SessionAssumption DEF AskFinds, SockShape
  <2>2. next \in SockShape /\ next.pc = "greet" /\ next.s \in Sessions
    BY <2>1 DEF SockShape, SockPcs
  <2>3. sock' = [sock EXCEPT ![w] = next]
    BY <1>3 DEF AskFinds
  <2> HIDE DEF next
  <2> QED
    BY <1>3, <2>1, <2>2, <2>3, AskPurges DEF AskFinds
<1>4. ASSUME NEW w \in Sockets, AskRefused(w) PROVE ConsoleInv'
  BY <1>4, SockIdleShape, AskPurges DEF AskRefused, SockEnds
<1>5. ASSUME NEW w \in Sockets, CreateFails(w) PROVE ConsoleInv'
  <2> DEFINE next == [sock[w] EXCEPT !.pc = "store"]
  <2>1. next \in SockShape /\ next.pc = "store" /\ next.a = sock[w].a
    BY DEF SockShape, SockPcs
  <2>2. sock' = [sock EXCEPT ![w] = next] /\ shells' \in 0..MaxShellTrouble
    BY <1>5, SessionAssumption DEF CreateFails, SockGoto, SpendShell
  <2> HIDE DEF next
  <2> QED
    BY <1>5, <2>1, <2>2, SockMoves DEF CreateFails
<1>6. ASSUME NEW w \in Sockets, CreateRaises(w) \/ Leave(w) PROVE ConsoleInv'
  <2>1. shells' \in 0..MaxShellTrouble
    BY <1>6, SessionAssumption DEF CreateRaises, Leave, SpendShell
  <2> QED
    BY <1>6, <2>1, SockIdleShape, SockMoves DEF CreateRaises, Leave, SockEnds
<1>7. CASE \E w \in Sockets : SockNext(w)
  BY <1>1, <1>2, <1>3, <1>4, <1>5, <1>6, <1>7, AskCreatesKeeps, CreateOkKeeps, StoreKeeps,
     AttachKeeps DEF SockNext
<1> QED
  BY <1>7, ShellDiesKeeps DEF ConsoleNext

LEMMA ConsoleInvAlways == ConsoleSpec => []ConsoleInv
<1> QED
  BY ConsoleInvInit, ConsoleInvNext, PTL DEF ConsoleSpec

(* The table, the shells, the sockets and the counts keep their shape: no    *)
(* session has more attached sockets than there are.                         *)
THEOREM ConsoleTypes == ConsoleSpec => []ConsoleTypeOK
<1>1. ASSUME ConsoleInv PROVE ConsoleTypeOK
  <2>1. ASSUME NEW s \in Sessions PROVE attached[s] \in 0..Cardinality(Sockets)
    BY <1>1, AttsFinite, SessionAssumption, FS_CardinalityType DEF ConsoleInv, AttachedExact
  <2> QED
    BY <1>1, <2>1 DEF ConsoleInv, ConsoleShape, ConsoleTypeOK, SockShape
<1> QED
  BY <1>1, ConsoleInvAlways, PTL

(* However get_or_create's looks at the table, its connecting without the    *)
(* lock and its return interleave, the table is never over its capacity.     *)
THEOREM TableWithinCapacity == ConsoleSpec => []CapacityHeld
<1>1. ConsoleInv => CapacityHeld
  BY DEF ConsoleInv
<1> QED
  BY <1>1, ConsoleInvAlways, PTL

(* One creation per account is under way, its sentinel stands for it until   *)
(* it is over, and no open shell is lost by a purge, an eviction or a race.  *)
THEOREM SessionsHaveOwners == ConsoleSpec => []SessionsOwned
<1>1. ASSUME ConsoleInv PROVE SingleFlight
  <2>1. ASSUME NEW a \in Accounts PROVE Cardinality(Creators(a)) <= 1
    <3>1. \A v, w \in Creators(a) : v = w
      BY <1>1 DEF ConsoleInv, CreatesAlone, Creates, Creators
    <3>2. CASE Creators(a) = {}
      BY <3>2, FS_EmptySet
    <3>3. ASSUME NEW w \in Creators(a) PROVE Cardinality(Creators(a)) <= 1
      <4>1. Creators(a) = {w}
        BY <3>1, <3>3
      <4> QED
        BY <4>1, FS_Singleton
    <3> QED
      BY <3>2, <3>3
  <2>2. ASSUME NEW a \in Accounts, Creators(a) # {} PROVE slot[a] = Creating
    BY <1>1, <2>2 DEF ConsoleInv, CreatesAlone, Creates, Creators
  <2> QED
    BY <2>1, <2>2 DEF SingleFlight
<1>2. ConsoleInv => SessionsOwned
  BY <1>1 DEF ConsoleInv, SessionsOwned
<1> QED
  BY <1>2, ConsoleInvAlways, PTL

(* The count a capacity eviction reads is right when it reads it: no step    *)
(* closes a live shell with an attached socket.                              *)
THEOREM EvictionSparesAttached == ConsoleSpec => AttachedSurvive
<1> DEFINE Survives(w) == sock[w].pc = "attached" /\ shell[sock[w].s] = "live"
                            => shell'[sock[w].s] # "closed"
<1>1. ASSUME ConsoleInv, [ConsoleNext]_consoleVars, NEW w \in Sockets PROVE Survives(w)
  <2> SUFFICES ASSUME sock[w].pc = "attached", shell[sock[w].s] = "live"
               PROVE  shell'[sock[w].s] = "live" \/ shell'[sock[w].s] = "dead"
    BY DEF ConsoleInv
  <2> USE <1>1 DEF ConsoleInv, ConsoleShape
  <2>1. PICK s \in Sessions : s = sock[w].s /\ attached[s] > 0 /\ shell[s] = "live"
    BY AttachedCounts
  <2>2. CASE UNCHANGED shell
    BY <2>1, <2>2
  <2>3. ASSUME NEW e, e \subseteq Unattached, CloseShells({slot[b] : b \in Stale \cup e})
        PROVE  shell'[s] = "live"
    <3>1. \A b \in Stale : slot[b] # s
      BY <2>1 DEF Stale
    <3>2. \A b \in e : slot[b] # s
      BY <2>1, <2>3 DEF Unattached
    <3> QED
      BY <2>1, <2>3, <3>1, <3>2 DEF CloseShells
  <2>4. ASSUME CloseShells({slot[b] : b \in Stale}) PROVE shell'[s] = "live"
    BY <2>1, <2>4 DEF CloseShells, Stale
  <2>5. ASSUME NEW v \in Sockets, SockNext(v) PROVE shell'[s] = "live"
    <3>1. CASE AskCreates(v)
      <4>1. PICK e \in (IF TableFull THEN {{b} : b \in Unattached} ELSE {{}}) :
              CloseShells({slot[b] : b \in Stale \cup e})
        BY <3>1 DEF AskCreates
      <4>2. e \subseteq Unattached
        BY <4>1
      <4> QED
        BY <2>3, <4>1, <4>2
    <3>2. CASE AskWaits(v) \/ AskFinds(v) \/ AskRefused(v)
      BY <2>4, <3>2 DEF AskWaits, AskFinds, AskRefused
    <3>3. CASE CreateOk(v)
      BY <2>1, <3>3 DEF CreateOk
    <3>4. CASE Store(v)
      BY <2>1, <3>4, StoreFinds
    <3>5. CASE UNCHANGED shell
      BY <2>1, <3>5
    <3> QED
      BY <2>5, <3>1, <3>2, <3>3, <3>4, <3>5
         DEF SockNext, SockStart, CreateFails, CreateRaises, Leave, Attach, Detach
  <2>6. ASSUME NEW u \in Sessions, ShellDies(u)
        PROVE  shell'[s] = "live" \/ shell'[s] = "dead"
    BY <2>1, <2>6 DEF ShellDies
  <2> QED
    BY <2>1, <2>2, <2>5, <2>6 DEF ConsoleNext, consoleVars
<1>2. ASSUME ConsoleInv, [ConsoleNext]_consoleVars
      PROVE  [\A w \in Sockets : sock[w].pc = "attached" /\ shell[sock[w].s] = "live"
                                   => shell'[sock[w].s] # "closed"]_consoleVars
  BY <1>1, <1>2
<1> QED
  BY <1>2, ConsoleInvAlways, PTL DEF ConsoleSpec, AttachedSurvive

-----------------------------------------------------------------------------
(* A behaviour of RemoteAccess is one of each part, which moves or stands    *)
(* still: what is proved of the parts holds of the whole.                    *)

LEMMA PartsAlone ==
  /\ RemoteSpec => PoolSpec
  /\ RemoteSpec => ConsoleSpec
  /\ RemoteSpec => ProbeSpec
  /\ RemoteSpec => LightSpec
  /\ RemoteSpec => ConfigSpec
<1>1. RemoteInit => PoolInit /\ ConsoleInit /\ ProbeInit /\ LightInit /\ ConfigInit
  BY DEF RemoteInit
<1>2. [RemoteNext]_remoteVars => /\ [PoolNext]_poolVars
                                 /\ [ConsoleNext]_consoleVars
                                 /\ [ProbeNext]_probeVars
                                 /\ [LightNext]_lightVars
                                 /\ [ConfigNext]_configVars
  BY DEF RemoteNext, remoteVars
<1> QED
  BY <1>1, <1>2, PTL DEF RemoteSpec, PoolSpec, ConsoleSpec, ProbeSpec, LightSpec, ConfigSpec

(* The state of every part keeps its shape, the console's table its capacity. *)
THEOREM RemoteTypes == RemoteSpec => []RemoteTypeOK
<1>1. LightSpec => []LightInv
  BY LightInvInit, LightInvStep, PTL DEF LightSpec
<1>2. LightInv => LightTypeOK
  BY DEF LightInv
<1>3. ProbeInv => ProbeTypeOK
  BY DEF ProbeInv
<1>4. ConfigInv => ConfigTypeOK
  BY DEF ConfigInv
<1>5. PoolTypeOK /\ ConsoleTypeOK /\ CapacityHeld /\ ProbeTypeOK /\ LightTypeOK /\ ConfigTypeOK
        => RemoteTypeOK
  BY DEF RemoteTypeOK
<1> QED
  BY <1>1, <1>2, <1>3, <1>4, <1>5, PartsAlone, PoolTypes, ConsoleTypes, TableWithinCapacity,
     ProbeInvAlways, ConfigInvAlways, PTL

(* All that is proved of the parts, of the whole.                            *)
THEOREM RemoteSafe ==
  RemoteSpec => /\ [](RefsAreHolders /\ ConnectingAlone /\ NoConnectionLeaks)
                /\ []SessionsOwned
                /\ [](ProberAlive /\ AnswersForConfig)
                /\ [](GreenIsBounded /\ ConfigKept)
                /\ EvictionSparesUsed /\ AttachedSurvive
<1> QED
  BY PartsAlone, ReferencesExact, OneConnects, NothingLeaks, SessionsHaveOwners, ProbeThreadLives,
     AnswersAreCurrent, DeadMachineTurnsRed, ConfigurationKept, EvictionSafe,
     EvictionSparesAttached, PTL
=============================================================================
