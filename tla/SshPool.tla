------------------------------- MODULE SshPool -------------------------------
(* SSHConnectionPool of backend/executor/remote/ssh.py under the commands    *)
(* that use it (_open_and_exec of backend/executor/remote_executor.py): one  *)
(* pooled client per (host, port, user), shared by concurrent commands.      *)
EXTENDS Naturals, FiniteSets

CONSTANTS Keys,        \* (host, port, username)
          Workers,     \* threads running a command each
          Clients,     \* paramiko clients, reused once closed and forgotten
          NoClient,
          MaxPooled,   \* max_connections
          MaxLinkTrouble  \* bound: failures of connections and channels

ASSUME PoolAssumption == /\ Keys # {}
                         /\ IsFiniteSet(Workers)
                         /\ NoClient \notin Clients
                         /\ MaxPooled \in Nat /\ MaxLinkTrouble \in Nat

VARIABLES pool,    \* _pool: the client of each key
          aged,    \* the keys whose client was last touched over 30 s ago
          refs,    \* _refcounts
          lock,    \* _conn_locks: the workers that hold one
          conn,    \* each client: closed, open, or broken (transport dead)
          cmd,     \* each worker: where its command is, key, client, and
                   \* whether it is on its second connection
          links    \* failures still available

poolVars == <<pool, aged, refs, lock, conn, cmd, links>>

CmdPcs  == {"idle", "ask", "lookup", "connect", "insert", "open", "run"}
CmdAsks(k, again) == [pc |-> "ask", k |-> k, c |-> NoClient, again |-> again]
CmdIdle == [CmdAsks(CHOOSE k \in Keys : TRUE, FALSE) EXCEPT !.pc = "idle"]

PoolTypeOK == /\ pool \in [Keys -> Clients \cup {NoClient}]
              /\ aged \subseteq Keys
              /\ refs \in [Keys -> 0..Cardinality(Workers)]
              /\ lock \subseteq Workers
              /\ conn \in [Clients -> {"closed", "open", "broken"}]
              /\ cmd \in [Workers -> [pc : CmdPcs, k : Keys,
                                      c : Clients \cup {NoClient}, again : BOOLEAN]]
              /\ links \in 0..MaxLinkTrouble

SpendLink == links > 0 /\ links' = links - 1

PoolInit == /\ pool = [k \in Keys |-> NoClient]
            /\ aged = {}
            /\ refs = [k \in Keys |-> 0]
            /\ lock = {}
            /\ conn = [c \in Clients |-> "closed"]
            /\ cmd = [w \in Workers |-> CmdIdle]
            /\ links = MaxLinkTrouble

(* client.close() for each of S; the worker's next place.                    *)
Close(S)      == conn' = [c \in Clients |-> IF c \in S THEN "closed" ELSE conn[c]]
CmdGoto(w, pc)   == cmd' = [cmd EXCEPT ![w].pc = pc]
CmdEnds(w)    == cmd' = [cmd EXCEPT ![w] = CmdIdle]
Counted(k, n) == [refs EXCEPT ![k] = IF @ + n > 0 THEN @ + n ELSE 0]

(* Alive and used in the last 30 s, whoever is using it now.                 *)
Usable(k) == pool[k] # NoClient /\ conn[pool[k]] = "open" /\ k \notin aged

-----------------------------------------------------------------------------
(* get: under the key's conn_lock, which a worker waits for at most 30 s.    *)

CmdStart(w, k) == /\ cmd[w].pc = "idle"
                  /\ cmd' = [cmd EXCEPT ![w] = CmdAsks(k, FALSE)]
                  /\ UNCHANGED <<pool, aged, refs, lock, conn, links>>

LockedBy(k) == {v \in lock : cmd[v].k = k}

TakeLock(w) == /\ cmd[w].pc = "ask"
               /\ LockedBy(cmd[w].k) = {}
               /\ lock' = lock \cup {w}
               /\ CmdGoto(w, "lookup")
               /\ UNCHANGED <<pool, aged, refs, conn, links>>

LockTimesOut(w) == /\ cmd[w].pc = "ask"
                   /\ LockedBy(cmd[w].k) # {}
                   /\ SpendLink
                   /\ CmdEnds(w)
                   /\ UNCHANGED <<pool, aged, refs, lock, conn>>

(* The pooled client, or none: what cannot be used is closed and dropped.    *)
LookupHit(w) == LET k == cmd[w].k IN
  /\ cmd[w].pc = "lookup"
  /\ Usable(k)
  /\ refs' = Counted(k, 1)
  /\ cmd' = [cmd EXCEPT ![w].pc = "open", ![w].c = pool[k]]
  /\ lock' = lock \ {w}
  /\ UNCHANGED <<pool, aged, conn, links>>

LookupMiss(w) == LET k == cmd[w].k IN
  /\ cmd[w].pc = "lookup"
  /\ ~Usable(k)
  /\ refs' = Counted(k, 1)
  /\ Close({pool[k]} \ {NoClient})
  /\ pool' = [pool EXCEPT ![k] = NoClient]
  /\ aged' = aged \ {k}
  /\ CmdGoto(w, "connect")
  /\ UNCHANGED <<lock, links>>

(* _create_client, outside the pool's lock but under conn_lock.              *)
Forgotten == {c \in Clients : /\ conn[c] = "closed"
                              /\ \A k \in Keys : pool[k] # c
                              /\ \A w \in Workers : cmd[w].c # c}

(* Which unused name the new client gets is immaterial.                      *)
Connect(w) == LET c == CHOOSE u \in Forgotten : TRUE IN
  /\ cmd[w].pc = "connect"
  /\ Forgotten # {}
  /\ conn' = [conn EXCEPT ![c] = "open"]
  /\ cmd' = [cmd EXCEPT ![w].pc = "insert", ![w].c = c]
  /\ UNCHANGED <<pool, aged, refs, lock, links>>

(* Mutant: a failed get keeps its reference.                                 *)
CountedKept(k)  == refs
CountedAfterFailure(k)  == Counted(k, 0 - 1)
UnlockedAfterFailure(w) == lock \ {w}

ConnectFails(w) == /\ cmd[w].pc = "connect"
                   /\ SpendLink
                   /\ refs' = CountedAfterFailure(cmd[w].k)
                   /\ lock' = UnlockedAfterFailure(w)
                   /\ CmdEnds(w)
                   /\ UNCHANGED <<pool, aged, conn>>

(* Mutant: the oldest connection is evicted, used or not.                    *)
EvictableAny == {k \in Keys : pool[k] # NoClient}

(* _evict_oldest_idle takes the least recently used key nobody holds a       *)
(* reference to; here any such key.                                          *)
Evictable == {k \in Keys : pool[k] # NoClient /\ refs[k] = 0}
Full      == Cardinality({k \in Keys : pool[k] # NoClient}) >= MaxPooled

(* The new client is pooled, unless a healthy one is there by now.           *)
Insert(w) ==
  LET k   == cmd[w].k
      won == IF Usable(k) THEN pool[k] ELSE cmd[w].c
      out == IF Full /\ ~Usable(k) THEN Evictable ELSE {}
  IN /\ cmd[w].pc = "insert"
     /\ \E e \in (IF out = {} THEN {{}} ELSE {{v} : v \in out}) :
          /\ pool' = [v \in Keys |-> IF v = k THEN won
                                     ELSE IF v \in e THEN NoClient ELSE pool[v]]
          /\ Close(({cmd[w].c, pool[k]} \ {won, NoClient}) \cup {pool[v] : v \in e})
          /\ aged' = aged \ (e \cup {k})
     /\ cmd' = [cmd EXCEPT ![w].pc = "open", ![w].c = won]
     /\ lock' = lock \ {w}
     /\ UNCHANGED <<refs, links>>

-----------------------------------------------------------------------------
(* The command on its client.                                                *)

ChannelOpens(w) == /\ cmd[w].pc = "open"
                   /\ conn[cmd[w].c] = "open"
                   /\ CmdGoto(w, "run")
                   /\ UNCHANGED <<pool, aged, refs, lock, conn, links>>

(* Mutant: whatever the key holds is dropped with the client.                *)
DroppedKey(k, c) == [pool EXCEPT ![k] = NoClient]

(* The pool without c: a replacement pooled by another worker stays.         *)
Dropped(k, c) == [pool EXCEPT ![k] = IF @ = c THEN NoClient ELSE @]

(* evict, then get once more: the client refuses a channel, because it is    *)
(* dead or closed or, on a live one, the server's limit is reached.          *)
ChannelRefused(w) == IF conn[cmd[w].c] = "open" THEN SpendLink ELSE UNCHANGED links

EvictAndRetry(w) == LET k == cmd[w].k IN
  /\ cmd[w].pc = "open" /\ ~cmd[w].again
  /\ ChannelRefused(w)
  /\ refs' = Counted(k, 0 - 1)
  /\ pool' = Dropped(k, cmd[w].c)
  /\ aged' = {v \in aged : pool'[v] # NoClient}
  /\ Close({cmd[w].c})
  /\ cmd' = [cmd EXCEPT ![w] = CmdAsks(k, TRUE)]
  /\ UNCHANGED lock

(* release: a live client that is still the pooled one is touched, any other *)
(* is closed.                                                                *)
Release(w) == LET k == cmd[w].k  c == cmd[w].c  kept == conn[c] = "open" /\ pool[k] = c IN
  /\ refs' = Counted(k, 0 - 1)
  /\ pool' = IF kept THEN pool ELSE Dropped(k, c)
  /\ aged' = {v \in aged : pool'[v] # NoClient /\ ~(kept /\ v = k)}
  /\ Close(IF kept THEN {} ELSE {c})
  /\ CmdEnds(w)
  /\ UNCHANGED lock

RetryFails(w) == /\ cmd[w].pc = "open" /\ cmd[w].again
                 /\ ChannelRefused(w)
                 /\ Release(w)

CmdFinish(w) == cmd[w].pc = "run" /\ Release(w) /\ UNCHANGED links

-----------------------------------------------------------------------------
(* The transport dies; 30 s pass since a client was last touched.            *)
Breaks(c) == /\ conn[c] = "open"
             /\ SpendLink
             /\ conn' = [conn EXCEPT ![c] = "broken"]
             /\ UNCHANGED <<pool, aged, refs, lock, cmd>>

Ages(k) == /\ pool[k] # NoClient /\ k \notin aged
           /\ aged' = aged \cup {k}
           /\ UNCHANGED <<pool, refs, lock, conn, cmd, links>>

CmdNext(w) == \/ \E k \in Keys : CmdStart(w, k)
              \/ TakeLock(w) \/ LockTimesOut(w) \/ LookupHit(w) \/ LookupMiss(w)
              \/ Connect(w) \/ ConnectFails(w) \/ Insert(w)
              \/ ChannelOpens(w) \/ EvictAndRetry(w) \/ RetryFails(w) \/ CmdFinish(w)

PoolNext == \/ \E w \in Workers : CmdNext(w)
            \/ \E c \in Clients : Breaks(c)
            \/ \E k \in Keys : Ages(k)

PoolSpec == PoolInit /\ [][PoolNext]_poolVars

-----------------------------------------------------------------------------
Holders(k) == {w \in Workers : cmd[w].k = k
                                /\ cmd[w].pc \in {"connect", "insert", "open", "run"}}

(* The reference count of a key is the number of commands that hold one of   *)
(* its clients or are about to: no failure path of get, evict or release     *)
(* loses or doubles a reference, so eviction can rely on the count.          *)
RefsAreHolders == \A k \in Keys : refs[k] = Cardinality(Holders(k))

(* conn_lock makes connecting a matter of one worker per key, who gives it   *)
(* back on every path; nobody pools a client under its hands, so insertion   *)
(* always finds the key empty.                                               *)
ConnectingAlone ==
  /\ \A w \in Workers : w \in lock <=> cmd[w].pc \in {"lookup", "connect", "insert"}
  /\ \A v, w \in lock : cmd[v].k = cmd[w].k => v = w
  /\ \A w \in Workers : cmd[w].pc \in {"connect", "insert"} => pool[cmd[w].k] = NoClient

(* A connection that is not closed is pooled or in somebody's hands: no      *)
(* replaced, evicted or failed client is left open for good.                 *)
NoConnectionLeaks ==
  \A c \in Clients : conn[c] # "closed" => \/ \E k \in Keys : pool[k] = c
                                           \/ \E w \in Workers : cmd[w].c = c

(* Making room in the pool never closes a client a command of another key is *)
(* using.                                                                    *)
EvictionSparesUsed ==
  [][\A v, w \in Workers :
       cmd[w].pc = "insert" /\ cmd'[w].pc = "open" /\ cmd[v].pc \in {"open", "run"}
         => conn'[cmd[v].c] = conn[cmd[v].c]]_poolVars

(* ssh.py:120-122, after get "commands run concurrently on the same          *)
(* transport": no other command's get closes the client a command runs on.   *)
GetSparesRunning ==
  [][\A v, w \in Workers :
       cmd[w].pc = "lookup" /\ cmd'[w].pc = "connect"
         /\ cmd[v].pc = "run" /\ conn[cmd[v].c] = "open"
         => conn'[cmd[v].c] = "open"]_poolVars
=============================================================================
