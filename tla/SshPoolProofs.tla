---------------------------- MODULE SshPoolProofs ----------------------------
(* The safety properties of SshPool, for every set of keys, workers and      *)
(* clients, every pool size and every number of failures.                    *)
EXTENDS SshPool, FiniteSetTheorems, TLAPS

(* Everything typed but the bound on refs, which follows from RefsAreHolders. *)
PoolShape == /\ pool \in [Keys -> Clients \cup {NoClient}]
             /\ aged \subseteq Keys
             /\ refs \in [Keys -> Nat]
             /\ lock \subseteq Workers
             /\ conn \in [Clients -> {"closed", "open", "broken"}]
             /\ cmd \in [Workers -> [pc : CmdPcs, k : Keys,
                                     c : Clients \cup {NoClient}, again : BOOLEAN]]
             /\ links \in 0..MaxLinkTrouble

(* A worker has a client exactly between connecting and releasing.           *)
HandsMatchPc == \A w \in Workers :
  cmd[w].c # NoClient <=> cmd[w].pc \in {"insert", "open", "run"}

(* A client connects to one host: pool entries and workers agree on its key. *)
OneKey == /\ \A k, l \in Keys : pool[k] # NoClient /\ pool[k] = pool[l] => k = l
          /\ \A w \in Workers, k \in Keys :
               cmd[w].c # NoClient /\ pool[k] = cmd[w].c => cmd[w].k = k
          /\ \A v, w \in Workers :
               cmd[v].c # NoClient /\ cmd[v].c = cmd[w].c => cmd[v].k = cmd[w].k

PInv == /\ PoolShape /\ HandsMatchPc /\ OneKey
        /\ RefsAreHolders /\ ConnectingAlone /\ NoConnectionLeaks

Commands == [pc : CmdPcs, k : Keys, c : Clients \cup {NoClient}, again : BOOLEAN]

-----------------------------------------------------------------------------
LEMMA IdleShape == CmdIdle \in [pc : CmdPcs, k : Keys, c : Clients \cup {NoClient},
                                again : BOOLEAN]
                   /\ CmdIdle.pc = "idle" /\ CmdIdle.c = NoClient
  BY PoolAssumption DEF CmdIdle, CmdAsks, CmdPcs

LEMMA OpenShape ==
  LET R == [pc : CmdPcs, k : Keys, c : Clients \cup {NoClient}, again : BOOLEAN]
  IN  \A r \in R, u \in Clients : [r EXCEPT !.pc = "open", !.c = u] \in R
  BY DEF CmdPcs

(* A step of one worker leaves the others' commands alone.                   *)
LEMMA CommandMoves ==
  ASSUME PoolShape, NEW w \in Workers, NEW r \in Commands, cmd' = [cmd EXCEPT ![w] = r]
  PROVE  /\ cmd' \in [Workers -> Commands] /\ cmd'[w] = r
         /\ \A v \in Workers \ {w} : cmd'[v] = cmd[v]
  BY DEF PoolShape, Commands

LEMMA HoldersFinite == ASSUME NEW k \in Keys
                       PROVE IsFiniteSet(Holders(k)) /\ Cardinality(Holders(k)) \in Nat
                             /\ Cardinality(Holders(k)) <= Cardinality(Workers)
  BY PoolAssumption, FS_Subset, FS_CardinalityType DEF Holders

LEMMA PoolTyped == PInv => PoolTypeOK
<1> SUFFICES ASSUME PInv PROVE PoolTypeOK
  OBVIOUS
<1>1. Cardinality(Workers) \in Nat
  BY PoolAssumption, FS_CardinalityType
<1>2. ASSUME NEW k \in Keys PROVE refs[k] \in 0..Cardinality(Workers)
  BY <1>1, HoldersFinite DEF PInv, RefsAreHolders
<1> QED
  BY <1>2 DEF PInv, PoolShape, PoolTypeOK

(* The three ways a step changes who holds a reference.                      *)
Held(w) == cmd[w].pc \in {"connect", "insert", "open", "run"}

LEMMA RefsSame ==
  ASSUME PInv, refs' = refs,
         \A w \in Workers : /\ Held(w)' <=> Held(w)
                            /\ Held(w) => cmd'[w].k = cmd[w].k
  PROVE  RefsAreHolders'
<1>1. ASSUME NEW k \in Keys PROVE Holders(k)' = Holders(k)
  BY DEF Holders, Held
<1> QED
  BY <1>1 DEF PInv, RefsAreHolders

LEMMA RefsGained ==
  ASSUME PInv, NEW w \in Workers, NEW k \in Keys, k = cmd[w].k,
         ~Held(w), Held(w)', cmd'[w].k = k, refs' = Counted(k, 1), \A v \in Workers \ {w} : cmd'[v] = cmd[v]
  PROVE  RefsAreHolders'
<1> refs \in [Keys -> Nat]
  BY DEF PInv, PoolShape
<1>1. Holders(k)' = Holders(k) \cup {w} /\ w \notin Holders(k)
  BY DEF Holders, Held
<1>2. refs'[k] = refs[k] + 1 /\ \A l \in Keys \ {k} : refs'[l] = refs[l]
  BY DEF Counted
<1>3. Cardinality(Holders(k) \cup {w}) = Cardinality(Holders(k)) + 1
  BY <1>1, HoldersFinite, FS_AddElement
<1>4. refs'[k] = Cardinality(Holders(k)')
  BY <1>1, <1>2, <1>3 DEF PInv, RefsAreHolders
<1>5. ASSUME NEW l \in Keys \ {k} PROVE Holders(l)' = Holders(l)
  BY DEF Holders, Held
<1>6. ASSUME NEW l \in Keys PROVE refs'[l] = Cardinality(Holders(l)')
  <2>1. CASE l = k
    BY <2>1, <1>4
  <2>2. CASE l # k
    BY <2>2, <1>2, <1>5 DEF PInv, RefsAreHolders
  <2> QED
    BY <2>1, <2>2
<1> QED
  BY <1>6 DEF RefsAreHolders

LEMMA RefsLost ==
  ASSUME PInv, NEW w \in Workers, NEW k \in Keys, k = cmd[w].k,
         Held(w), ~Held(w)', refs' = Counted(k, 0 - 1), \A v \in Workers \ {w} : cmd'[v] = cmd[v]
  PROVE  RefsAreHolders'
<1> refs \in [Keys -> Nat]
  BY DEF PInv, PoolShape
<1>1. Holders(k)' = Holders(k) \ {w} /\ w \in Holders(k)
  BY DEF Holders, Held
<1>2. \A l \in Keys \ {k} : refs'[l] = refs[l]
  BY DEF Counted
<1>3. Cardinality(Holders(k) \ {w}) = Cardinality(Holders(k)) - 1
  BY <1>1, HoldersFinite, FS_RemoveElement
<1>4. Cardinality(Holders(k) \ {w}) \in Nat
  BY HoldersFinite, FS_RemoveElement, FS_CardinalityType
<1>5. refs'[k] = Cardinality(Holders(k)')
  <2>1. refs[k] = Cardinality(Holders(k)) /\ Cardinality(Holders(k)) \in Nat
    BY HoldersFinite DEF PInv, RefsAreHolders
  <2>2. refs'[k] = refs[k] - 1
    BY <1>3, <1>4, <2>1 DEF Counted
  <2> QED
    BY <1>1, <1>3, <2>1, <2>2
<1>6. ASSUME NEW l \in Keys \ {k} PROVE Holders(l)' = Holders(l)
  BY DEF Holders, Held
<1>7. ASSUME NEW l \in Keys PROVE refs'[l] = Cardinality(Holders(l)')
  <2>1. CASE l = k
    BY <2>1, <1>5
  <2>2. CASE l # k
    BY <2>2, <1>2, <1>6 DEF PInv, RefsAreHolders
  <2> QED
    BY <2>1, <2>2
<1> QED
  BY <1>7 DEF RefsAreHolders

LEMMA EndingLosesRef ==
  ASSUME PInv, NEW w \in Workers, Held(w), cmd' = [cmd EXCEPT ![w] = CmdIdle],
         refs' = Counted(cmd[w].k, 0 - 1)
  PROVE  RefsAreHolders'
<1>1. CmdIdle \in Commands /\ PoolShape
  BY IdleShape DEF Commands, PInv
<1>2. cmd'[w] = CmdIdle /\ \A v \in Workers \ {w} : cmd'[v] = cmd[v]
  BY <1>1, CommandMoves
<1>3. ~Held(w)'
  BY <1>2, IdleShape DEF Held
<1>4. cmd[w].k \in Keys
  BY <1>1 DEF PoolShape
<1> QED
  BY <1>2, <1>3, <1>4, RefsLost

-----------------------------------------------------------------------------
LEMMA PoolInitially == PoolInit => PInv
<1> SUFFICES ASSUME PoolInit PROVE PInv
  OBVIOUS
<1>1. PoolShape /\ HandsMatchPc /\ OneKey
  BY IdleShape, PoolAssumption
     DEF PoolInit, PoolShape, HandsMatchPc, OneKey
<1>2. RefsAreHolders
  <2>1. ASSUME NEW k \in Keys PROVE Holders(k) = {}
    BY IdleShape DEF PoolInit, Holders
  <2> QED
    BY <2>1, FS_EmptySet DEF PoolInit, RefsAreHolders
<1>3. ConnectingAlone /\ NoConnectionLeaks
  BY IdleShape DEF PoolInit, ConnectingAlone, NoConnectionLeaks
<1> QED
  BY <1>1, <1>2, <1>3 DEF PInv

(* A step of Insert evicts the clients of e, which nobody refers to, and      *)
(* pools the worker's own client under its key, which was empty.             *)
Evicts(w, e) ==
  LET k == cmd[w].k  c == cmd[w].c IN
  /\ k \notin e
  /\ \A v \in e : pool[v] # NoClient /\ refs[v] = 0
  /\ pool' = [v \in Keys |-> IF v = k THEN c
                             ELSE IF v \in e THEN NoClient ELSE pool[v]]
  /\ Close({pool[v] : v \in e})
  /\ aged' = aged \ (e \cup {k})
  /\ cmd' = [cmd EXCEPT ![w].pc = "open", ![w].c = c]
  /\ lock' = lock \ {w} /\ UNCHANGED <<refs, links>>

LEMMA InsertShape == ASSUME PInv, NEW w \in Workers, Insert(w)
                     PROVE  \E e \in SUBSET Keys : Evicts(w, e)
<1> DEFINE k == cmd[w].k
           c == cmd[w].c
           out == IF Full /\ ~Usable(k) THEN Evictable ELSE {}
<1>1. /\ k \in Keys /\ c \in Clients /\ pool[k] = NoClient /\ ~Usable(k)
  BY DEF PInv, Insert, Usable, PoolShape, HandsMatchPc, ConnectingAlone
<1>2. PICK e \in (IF out = {} THEN {{}} ELSE {{v} : v \in out}) :
        /\ pool' = [v \in Keys |-> IF v = k THEN c
                                   ELSE IF v \in e THEN NoClient ELSE pool[v]]
        /\ Close(({c, pool[k]} \ {c, NoClient}) \cup {pool[v] : v \in e})
        /\ aged' = aged \ (e \cup {k})
  BY <1>1 DEF Insert
<1>3. ({c, pool[k]} \ {c, NoClient}) \cup {pool[v] : v \in e} = {pool[v] : v \in e}
  BY <1>1
<1>4. Close({pool[v] : v \in e})
  BY <1>2, <1>3
<1>5. out \subseteq Evictable
  OBVIOUS
<1>6. e \subseteq Evictable
  <2> HIDE DEF out
  <2> QED
    BY <1>2, <1>5
<1>7. e \in SUBSET Keys /\ k \notin e /\ \A v \in e : pool[v] # NoClient /\ refs[v] = 0
  BY <1>1, <1>6 DEF Evictable
<1>8. /\ cmd' = [cmd EXCEPT ![w].pc = "open", ![w].c = c]
      /\ lock' = lock \ {w} /\ UNCHANGED <<refs, links>>
  BY <1>1 DEF Insert
<1> QED
  BY <1>2, <1>4, <1>7, <1>8 DEF Evicts

(* The part of the invariant that is not counting.                           *)
PLinks == PoolShape /\ HandsMatchPc /\ OneKey /\ ConnectingAlone /\ NoConnectionLeaks

(* A step that only moves one worker's command and keeps its client.         *)
LEMMA CommandKeepsClient ==
  ASSUME PLinks, NEW w \in Workers, NEW r \in Commands, cmd' = [cmd EXCEPT ![w] = r],
         r.c = cmd[w].c, r.c # NoClient => r.k = cmd[w].k,
         r.c # NoClient <=> r.pc \in {"insert", "open", "run"},
         UNCHANGED <<pool, aged, refs, conn, links>>
  PROVE  /\ cmd' \in [Workers -> Commands] /\ cmd'[w] = r
         /\ \A v \in Workers \ {w} : cmd'[v] = cmd[v]
         /\ lock' \subseteq Workers => PoolShape'
         /\ HandsMatchPc' /\ OneKey' /\ NoConnectionLeaks'
<1> USE DEF PLinks
<1>1. /\ cmd' \in [Workers -> Commands] /\ cmd'[w] = r
      /\ \A v \in Workers \ {w} : cmd'[v] = cmd[v]
  BY CommandMoves
<1>2. lock' \subseteq Workers => PoolShape'
  BY <1>1 DEF PoolShape, Commands
<1>3. HandsMatchPc'
  BY <1>1 DEF HandsMatchPc
<1>4. \A v \in Workers : cmd'[v].c = cmd[v].c /\ (cmd'[v].c # NoClient => cmd'[v].k = cmd[v].k)
  BY <1>1
<1>5. OneKey' /\ NoConnectionLeaks'
  BY <1>4 DEF OneKey, NoConnectionLeaks
<1> QED
  BY <1>1, <1>2, <1>3, <1>5

(* A worker gives its client up: it is closed and dropped from the pool if   *)
(* it is there, or, on a release of a live pooled client, it stays pooled.   *)
LEMMA ClientGivenUp ==
  ASSUME PInv, NEW w \in Workers, NEW r \in Commands,
         cmd[w].pc \in {"open", "run"}, r.pc \in {"idle", "ask"}, r.c = NoClient,
         cmd' = [cmd EXCEPT ![w] = r], refs' = Counted(cmd[w].k, 0 - 1),
         aged' \subseteq aged, lock' = lock, links' \in 0..MaxLinkTrouble,
         \/ pool[cmd[w].k] = cmd[w].c /\ pool' = pool /\ Close({})
         \/ pool' = Dropped(cmd[w].k, cmd[w].c) /\ Close({cmd[w].c})
  PROVE  PInv'
<1> DEFINE k == cmd[w].k
           c == cmd[w].c
<1> USE DEF PoolShape, HandsMatchPc, OneKey, ConnectingAlone, NoConnectionLeaks, CmdPcs
<1>1. k \in Keys /\ c \in Clients /\ w \notin lock /\ NoClient \notin Clients
  BY PoolAssumption DEF PInv
<1>2. /\ cmd' \in [Workers -> Commands] /\ cmd'[w] = r
      /\ \A v \in Workers \ {w} : cmd'[v] = cmd[v]
  <2>1. PoolShape
    BY DEF PInv
  <2> HIDE DEF PoolShape
  <2> QED
    BY <2>1, CommandMoves
<1>3. /\ pool' \in [Keys -> Clients \cup {NoClient}]
      /\ conn' \in [Clients -> {"closed", "open", "broken"}]
      /\ \A l \in Keys : pool'[l] = pool[l] \/ pool'[l] = NoClient
      /\ \A l \in Keys : pool'[l] = pool[l] \/ pool[l] = c
      /\ \A u \in Clients : conn'[u] # "closed" => conn[u] # "closed"
      /\ conn'[c] # "closed" => pool'[k] = c
  <2>1. CASE pool[k] = c /\ pool' = pool /\ Close({})
    BY <2>1, <1>1 DEF PInv, Close
  <2>2. CASE pool' = Dropped(k, c) /\ Close({c})
    BY <2>2, <1>1 DEF PInv, Close, Dropped
  <2> QED
    BY <2>1, <2>2
<1> HIDE DEF k, c
<1>4. PoolShape'
  <2>1. refs' \in [Keys -> Nat]
    BY <1>1 DEF PInv, Counted, k
  <2>2. aged' \subseteq Keys /\ lock' \subseteq Workers
    BY DEF PInv
  <2>3. cmd' \in [Workers -> [pc : CmdPcs, k : Keys, c : Clients \cup {NoClient},
                             again : BOOLEAN]]
    BY Zenon, <1>2 DEF Commands
  <2> QED
    BY Zenon, <1>3, <2>1, <2>2, <2>3
<1>5. HandsMatchPc'
  BY <1>2 DEF PInv
<1>6. OneKey'
  <2>1. \A v \in Workers : cmd'[v].c # NoClient => cmd'[v] = cmd[v]
    BY <1>2
  <2> QED
    BY <1>3, <2>1 DEF PInv
<1>7. ConnectingAlone'
  <2>1. \A v \in Workers : v \in lock' <=> cmd'[v].pc \in {"lookup", "connect", "insert"}
    BY <1>1, <1>2 DEF PInv
  <2>2. \A u, v \in lock' : cmd'[u].k = cmd'[v].k => u = v
    BY <1>1, <1>2 DEF PInv
  <2>3. \A v \in Workers : cmd'[v].pc \in {"connect", "insert"} => pool'[cmd'[v].k] = NoClient
    BY <1>2, <1>3 DEF PInv
  <2> QED
    BY <2>1, <2>2, <2>3
<1>8. NoConnectionLeaks'
  <2> SUFFICES ASSUME NEW u \in Clients, conn'[u] # "closed"
               PROVE  (\E l \in Keys : pool'[l] = u) \/ \E v \in Workers : cmd'[v].c = u
    OBVIOUS
  <2>1. CASE u = c
    BY <2>1, <1>1, <1>3
  <2>2. CASE u # c
    BY <1>2, <1>3, <2>2 DEF PInv, c
  <2> QED
    BY <2>1, <2>2
<1>9. RefsAreHolders'
  BY <1>1, <1>2, RefsLost DEF Held, k
<1> QED
  BY <1>4, <1>5, <1>6, <1>7, <1>8, <1>9 DEF PInv

LEMMA PoolStep == PInv /\ [PoolNext]_poolVars => PInv'
<1> SUFFICES ASSUME PInv, [PoolNext]_poolVars PROVE PInv'
  OBVIOUS
<1> USE PoolAssumption, IdleShape
        DEF PoolShape, HandsMatchPc, OneKey, ConnectingAlone, NoConnectionLeaks, CmdPcs
<1> HIDE PoolAssumption
<1>1. ASSUME NEW w \in Workers, NEW k \in Keys, CmdStart(w, k) PROVE PInv'
  <2> DEFINE r == CmdAsks(k, FALSE)
  <2>1. /\ r \in Commands /\ r.pc = "ask" /\ r.k = k /\ r.c = NoClient
        /\ cmd[w].pc = "idle" /\ w \notin lock
        /\ cmd' = [cmd EXCEPT ![w] = r]
        /\ UNCHANGED <<pool, aged, refs, lock, conn, links>>
    BY <1>1 DEF PInv, CmdStart, CmdAsks, Commands
  <2> HIDE DEF r
  <2>2. PLinks
    BY DEF PInv, PLinks
  <2>3. cmd[w].c = NoClient
    BY <2>1 DEF PInv
  <2>4. /\ PoolShape' /\ HandsMatchPc' /\ OneKey' /\ NoConnectionLeaks'
        /\ cmd'[w] = r /\ \A v \in Workers \ {w} : cmd'[v] = cmd[v]
    <3> HIDE DEF PoolShape, HandsMatchPc, OneKey, NoConnectionLeaks, ConnectingAlone, CmdPcs
    <3>1. lock' \subseteq Workers
      BY <2>1, <2>2 DEF PLinks, PoolShape
    <3> QED
      BY <2>1, <2>2, <2>3, <3>1, CommandKeepsClient
  <2>5. ConnectingAlone'
    BY <2>1, <2>4 DEF PInv
  <2>6. RefsAreHolders'
    BY <2>1, <2>4, RefsSame DEF PInv, Held
  <2> QED
    BY <2>4, <2>5, <2>6 DEF PInv
<1>2. ASSUME NEW w \in Workers, TakeLock(w) PROVE PInv'
  <2>1. PLinks'
    BY <1>2 DEF PInv, PLinks, TakeLock, CmdGoto, LockedBy
  <2>2. RefsAreHolders'
    BY <1>2, RefsSame DEF PInv, TakeLock, CmdGoto, Held
  <2> QED
    BY <2>1, <2>2 DEF PInv, PLinks
<1>3. ASSUME NEW w \in Workers, LockTimesOut(w) PROVE PInv'
  <2>1. /\ cmd[w].pc = "ask" /\ cmd' = [cmd EXCEPT ![w] = CmdIdle]
        /\ links' \in 0..MaxLinkTrouble /\ UNCHANGED <<pool, aged, refs, lock, conn>>
    BY <1>3, PoolAssumption DEF PInv, LockTimesOut, CmdEnds, SpendLink
  <2>2. CmdIdle \in Commands /\ PoolShape /\ w \notin lock
    BY <2>1, IdleShape DEF PInv, Commands
  <2>3. /\ cmd' \in [Workers -> Commands] /\ cmd'[w] = CmdIdle
        /\ \A v \in Workers \ {w} : cmd'[v] = cmd[v]
    BY <2>1, <2>2, CommandMoves
  <2>4. PLinks'
    <3>1. PoolShape' /\ HandsMatchPc'
      BY <2>1, <2>3, IdleShape DEF PInv, Commands
    <3>2. \A v \in Workers : cmd'[v].c = cmd[v].c /\ (cmd'[v].c # NoClient => cmd'[v] = cmd[v])
      BY <2>1, <2>3, IdleShape DEF PInv
    <3>3. OneKey' /\ NoConnectionLeaks'
      BY <2>1, <3>2 DEF PInv
    <3>4. ConnectingAlone'
      BY <2>1, <2>2, <2>3, IdleShape DEF PInv
    <3> QED
      BY <3>1, <3>3, <3>4 DEF PLinks
  <2>5. RefsAreHolders'
    BY <2>1, <2>3, IdleShape, RefsSame DEF Held
  <2> QED
    BY <2>4, <2>5 DEF PInv, PLinks
<1>4. ASSUME NEW w \in Workers, LookupHit(w) PROVE PInv'
  <2>1. PLinks'
    BY <1>4 DEF PInv, PLinks, LookupHit, Usable, Counted
  <2>2. RefsAreHolders'
    BY <1>4, RefsGained DEF PInv, LookupHit, Held
  <2> QED
    BY <2>1, <2>2 DEF PInv, PLinks
<1>5. ASSUME NEW w \in Workers, LookupMiss(w) PROVE PInv'
  <2>1. PoolShape' /\ HandsMatchPc' /\ OneKey'
    BY <1>5 DEF PInv, LookupMiss, CmdGoto, Close, Counted
  <2>2. ConnectingAlone'
    BY <1>5 DEF PInv, LookupMiss, CmdGoto
  <2>3. NoConnectionLeaks'
    BY <1>5 DEF PInv, LookupMiss, CmdGoto, Close
  <2>4. RefsAreHolders'
    BY <1>5, RefsGained DEF PInv, LookupMiss, CmdGoto, Held
  <2> QED
    BY <2>1, <2>2, <2>3, <2>4 DEF PInv
<1>6. ASSUME NEW w \in Workers, Connect(w) PROVE PInv'
  <2>1. PICK c \in Forgotten : c = CHOOSE u \in Forgotten : TRUE
    BY <1>6 DEF Connect
  <2>2. PLinks'
    BY <1>6, <2>1, PoolAssumption DEF PInv, PLinks, Connect, Forgotten
  <2>3. RefsAreHolders'
    BY <1>6, RefsSame DEF PInv, Connect, Held
  <2> QED
    BY <2>2, <2>3 DEF PInv, PLinks
<1>7. ASSUME NEW w \in Workers, ConnectFails(w) PROVE PInv'
  <2>1. PLinks'
    BY <1>7, PoolAssumption
       DEF PInv, PLinks, ConnectFails, CmdEnds, SpendLink, CountedAfterFailure,
           UnlockedAfterFailure, Counted
  <2>2. RefsAreHolders'
    <3>1. /\ cmd[w].pc = "connect" /\ cmd' = [cmd EXCEPT ![w] = CmdIdle]
          /\ refs' = Counted(cmd[w].k, 0 - 1)
      BY <1>7 DEF ConnectFails, CmdEnds, CountedAfterFailure
    <3> QED
      BY <3>1, EndingLosesRef DEF Held
  <2> QED
    BY <2>1, <2>2 DEF PInv, PLinks
<1>8. ASSUME NEW w \in Workers, Insert(w) PROVE PInv'
  <2> DEFINE k == cmd[w].k
             c == cmd[w].c
  <2>1. /\ cmd[w].pc = "insert" /\ k \in Keys /\ c \in Clients
        /\ pool[k] = NoClient
    BY <1>8 DEF PInv, Insert
  <2>2. PICK e \in SUBSET Keys : Evicts(w, e)
    BY <1>8, InsertShape
  <2>3. /\ cmd' = [cmd EXCEPT ![w].pc = "open", ![w].c = c]
        /\ lock' = lock \ {w} /\ UNCHANGED <<refs, links>>
    BY <2>2 DEF Evicts
  <2>4. conn' = [u \in Clients |-> IF \E v \in e : pool[v] = u THEN "closed" ELSE conn[u]]
    BY <2>2 DEF Close, Evicts
  <2> HIDE DEF k, c
  <2>5. PoolShape' /\ HandsMatchPc'
    <3>1. pool' \in [Keys -> Clients \cup {NoClient}] /\ aged' \subseteq Keys
      BY <2>1, <2>2 DEF PInv, Evicts, k, c
    <3>2. conn' \in [Clients -> {"closed", "open", "broken"}]
      BY <2>4 DEF PInv
    <3>3. cmd' \in [Workers -> [pc : CmdPcs, k : Keys, c : Clients \cup {NoClient},
                               again : BOOLEAN]]
      <4>1. [cmd[w] EXCEPT !.pc = "open", !.c = c] \in Commands
        <5>1. cmd[w] \in Commands
          BY DEF PInv, Commands
        <5> QED
          BY <2>1, <5>1, OpenShape DEF Commands
      <4>2. cmd' = [cmd EXCEPT ![w] = [cmd[w] EXCEPT !.pc = "open", !.c = c]]
        BY <2>3
      <4> QED
        BY <4>1, <4>2, CommandMoves DEF PInv, Commands
    <3>4. ASSUME NEW v \in Workers
          PROVE  cmd'[v].c # NoClient <=> cmd'[v].pc \in {"insert", "open", "run"}
      <4>1. CASE v = w
        BY <2>1, <2>3, <4>1, PoolAssumption DEF PInv
      <4>2. CASE v # w
        BY <2>3, <4>2 DEF PInv
      <4> QED
        BY <4>1, <4>2
    <3> QED
      BY <2>3, <3>1, <3>2, <3>3, <3>4 DEF PInv
  <2>6. OneKey'
    BY <2>1, <2>2, <2>3 DEF PInv, Evicts, k, c
  <2>7. ConnectingAlone'
    BY <2>1, <2>2, <2>3 DEF PInv, Evicts, k, c
  <2>8. NoConnectionLeaks'
    <3> SUFFICES ASSUME NEW u \in Clients, conn'[u] # "closed"
                 PROVE  (\E l \in Keys : pool'[l] = u) \/ \E v \in Workers : cmd'[v].c = u
      OBVIOUS
    <3>1. conn[u] # "closed" /\ \A v \in e : pool[v] # u
      BY <2>4
    <3>2. ASSUME NEW l \in Keys, pool[l] = u PROVE pool'[l] = u
      BY <2>1, <2>2, <3>1, <3>2, PoolAssumption DEF Evicts, k, c
    <3>3. ASSUME NEW v \in Workers, cmd[v].c = u PROVE cmd'[v].c = u
      BY <2>3, <3>3 DEF PInv, c
    <3> QED
      BY <3>1, <3>2, <3>3 DEF PInv
  <2>9. RefsAreHolders'
    <3>1. cmd'[w].pc = "open" /\ cmd'[w].k = k /\ \A v \in Workers \ {w} : cmd'[v] = cmd[v]
      BY <2>3 DEF PInv, k
    <3>2. refs' = refs
      BY <2>3
    <3> QED
      BY <2>1, <3>1, <3>2, RefsSame DEF Held, k
  <2> QED
    BY <2>5, <2>6, <2>7, <2>8, <2>9 DEF PInv
<1>9. ASSUME NEW w \in Workers, ChannelOpens(w) PROVE PInv'
  <2> DEFINE r == [cmd[w] EXCEPT !.pc = "run"]
  <2>1. /\ r \in Commands /\ r.pc = "run" /\ r.k = cmd[w].k /\ r.c = cmd[w].c
        /\ cmd[w].pc = "open" /\ cmd[w].c # NoClient /\ w \notin lock
        /\ cmd' = [cmd EXCEPT ![w] = r]
        /\ UNCHANGED <<pool, aged, refs, lock, conn, links>>
    BY <1>9 DEF PInv, ChannelOpens, CmdGoto, Commands
  <2> HIDE DEF r
  <2>2. PLinks
    BY DEF PInv, PLinks
  <2>3. /\ PoolShape' /\ HandsMatchPc' /\ OneKey' /\ NoConnectionLeaks'
        /\ cmd'[w] = r /\ \A v \in Workers \ {w} : cmd'[v] = cmd[v]
    <3> HIDE DEF PoolShape, HandsMatchPc, OneKey, NoConnectionLeaks, ConnectingAlone, CmdPcs
    <3>1. lock' \subseteq Workers
      BY <2>1, <2>2 DEF PLinks, PoolShape
    <3> QED
      BY <2>1, <2>2, <3>1, CommandKeepsClient
  <2>4. ConnectingAlone'
    BY <2>1, <2>3 DEF PInv
  <2>5. RefsAreHolders'
    BY <2>1, <2>3, RefsSame DEF PInv, Held
  <2> QED
    BY <2>3, <2>4, <2>5 DEF PInv
<1>10. ASSUME NEW w \in Workers, EvictAndRetry(w) PROVE PInv'
  <2> DEFINE r == CmdAsks(cmd[w].k, TRUE)
  <2>1. cmd[w].pc = "open" /\ r \in Commands /\ r.pc = "ask" /\ r.c = NoClient
    BY <1>10 DEF PInv, EvictAndRetry, CmdAsks, Commands
  <2>2. /\ cmd' = [cmd EXCEPT ![w] = r] /\ refs' = Counted(cmd[w].k, 0 - 1)
        /\ pool' = Dropped(cmd[w].k, cmd[w].c) /\ Close({cmd[w].c})
        /\ aged' \subseteq aged /\ lock' = lock
    BY <1>10 DEF EvictAndRetry
  <2>3. links' \in 0..MaxLinkTrouble
    BY <1>10, PoolAssumption DEF PInv, EvictAndRetry, ChannelRefused, SpendLink
  <2> HIDE DEF r
  <2> QED
    BY <2>1, <2>2, <2>3, ClientGivenUp
<1>11. ASSUME NEW w \in Workers, RetryFails(w) \/ CmdFinish(w) PROVE PInv'
  <2>1. Release(w) /\ links' \in 0..MaxLinkTrouble /\ cmd[w].pc \in {"open", "run"}
    BY <1>11, PoolAssumption DEF PInv, RetryFails, CmdFinish, ChannelRefused, SpendLink
  <2>2. CmdIdle \in Commands
    BY IdleShape DEF Commands
  <2>3. /\ cmd' = [cmd EXCEPT ![w] = CmdIdle] /\ refs' = Counted(cmd[w].k, 0 - 1)
        /\ aged' \subseteq aged /\ lock' = lock
    BY <2>1 DEF Release, CmdEnds
  <2>4. \/ pool[cmd[w].k] = cmd[w].c /\ pool' = pool /\ Close({})
        \/ pool' = Dropped(cmd[w].k, cmd[w].c) /\ Close({cmd[w].c})
    BY <2>1 DEF Release
  <2> QED
    BY <2>1, <2>2, <2>3, <2>4, IdleShape, ClientGivenUp
<1>12. ASSUME NEW c \in Clients, Breaks(c) PROVE PInv'
  <2>1. PLinks'
    BY <1>12, PoolAssumption DEF PInv, PLinks, Breaks, SpendLink
  <2>2. RefsAreHolders'
    BY <1>12, RefsSame DEF Breaks, Held
  <2> QED
    BY <2>1, <2>2 DEF PInv, PLinks
<1>13. ASSUME NEW k \in Keys, Ages(k) PROVE PInv'
  <2>1. PLinks'
    BY <1>13 DEF PInv, PLinks, Ages
  <2>2. RefsAreHolders'
    BY <1>13, RefsSame DEF Ages, Held
  <2> QED
    BY <2>1, <2>2 DEF PInv, PLinks
<1>14. CASE UNCHANGED poolVars
  <2>1. PLinks'
    BY <1>14 DEF PInv, PLinks, poolVars
  <2>2. RefsAreHolders'
    BY <1>14, RefsSame DEF poolVars, Held
  <2> QED
    BY <2>1, <2>2 DEF PInv, PLinks
<1> QED
  BY <1>1, <1>2, <1>3, <1>4, <1>5, <1>6, <1>7, <1>8, <1>9, <1>10, <1>11, <1>12, <1>13, <1>14
     DEF PoolNext, CmdNext

(* The invariant the theorems below are read off.                            *)
LEMMA PoolInvariant == PoolSpec => []PInv
  BY PoolInitially, PoolStep, PTL DEF PoolSpec

-----------------------------------------------------------------------------
(* The pool's state stays what _pool, _refcounts and the locks can hold: in  *)
(* particular no key is ever referred to by more commands than there are.    *)
THEOREM PoolTypes == PoolSpec => []PoolTypeOK
  BY PoolInvariant, PoolTyped, PTL

(* get, evict and release count exactly the commands that hold a client of   *)
(* the key or are about to, along every failure path.                        *)
THEOREM ReferencesExact == PoolSpec => []RefsAreHolders
<1>1. PInv => RefsAreHolders
  BY DEF PInv
<1> QED
  BY <1>1, PoolInvariant, PTL

(* conn_lock is held by one worker of a key at a time, from get to its end,  *)
(* and the key stays empty under it.                                         *)
THEOREM OneConnects == PoolSpec => []ConnectingAlone
<1>1. PInv => ConnectingAlone
  BY DEF PInv
<1> QED
  BY <1>1, PoolInvariant, PTL

(* No client that was replaced, evicted or failed stays open unreachable.    *)
THEOREM NothingLeaks == PoolSpec => []NoConnectionLeaks
<1>1. PInv => NoConnectionLeaks
  BY DEF PInv
<1> QED
  BY <1>1, PoolInvariant, PTL

(* _evict_oldest_idle never closes the client of a running command.          *)
THEOREM EvictionSafe == PoolSpec => EvictionSparesUsed
<1> DEFINE Spares ==
      \A v, w \in Workers :
        cmd[w].pc = "insert" /\ cmd'[w].pc = "open" /\ cmd[v].pc \in {"open", "run"}
          => conn'[cmd[v].c] = conn[cmd[v].c]
<1>1. ASSUME PInv, [PoolNext]_poolVars PROVE Spares
  <2> SUFFICES ASSUME NEW v \in Workers, NEW w \in Workers,
                      cmd[w].pc = "insert", cmd'[w].pc = "open",
                      cmd[v].pc \in {"open", "run"}
               PROVE  conn'[cmd[v].c] = conn[cmd[v].c]
    OBVIOUS
  <2>1. Insert(w)
    <3>1. cmd'[w] # cmd[w]
      OBVIOUS
    <3>2. ASSUME NEW u \in Workers, CmdNext(u) PROVE Insert(w)
      <4>1. CASE u = w
        BY <3>2, <4>1, IdleShape
           DEF CmdNext, CmdStart, CmdAsks, TakeLock, LockTimesOut, LookupHit, LookupMiss,
               Connect, ConnectFails, ChannelOpens, EvictAndRetry, RetryFails, CmdFinish
      <4>2. CASE u # w
        BY <1>1, <3>1, <3>2, <4>2
           DEF CmdNext, CmdStart, TakeLock, LockTimesOut, LookupHit, LookupMiss,
               Connect, ConnectFails, Insert, ChannelOpens, EvictAndRetry, RetryFails,
               CmdFinish, Release, CmdGoto, CmdEnds, PInv, PoolShape
      <4> QED
        BY <4>1, <4>2
    <3> QED
      BY <1>1, <3>1, <3>2 DEF PoolNext, Breaks, Ages, poolVars
  <2>2. PICK e \in SUBSET Keys : Evicts(w, e)
    BY <1>1, <2>1, InsertShape
  <2>3. cmd[v].c \in Clients /\ cmd[v].c # NoClient
    BY <1>1 DEF PInv, PoolShape, HandsMatchPc
  <2>4. ASSUME NEW l \in e, pool[l] = cmd[v].c PROVE FALSE
    <3>1. v \in Holders(l)
      BY <1>1, <2>3, <2>4 DEF PInv, OneKey, Holders
    <3>2. Cardinality(Holders(l)) = 0
      BY <1>1, <2>2 DEF PInv, RefsAreHolders, Evicts
    <3> QED
      BY <3>1, <3>2, HoldersFinite, FS_EmptySet
  <2> QED
    BY <2>2, <2>3, <2>4 DEF Evicts, Close
<1> QED
  BY <1>1, PoolInvariant, PTL DEF PoolSpec, EvictionSparesUsed
=============================================================================
