--------------------------- MODULE ConsoleSessions ---------------------------
(* ConsoleSessionManager of backend/console/session_manager.py: one shell    *)
(* session per SSH account, shared by the WebSockets of its consoles         *)
(* (websocket_console) and by the watchdog's start commands.                 *)
EXTENDS Naturals, FiniteSets

CONSTANTS Accounts,     \* keys: host, port, user, password hash
          Sockets,      \* console WebSockets, and watchdog threads
          Sessions,     \* shell sessions, reused once closed and forgotten
          NoSession,
          Creating,     \* _CREATING: somebody is connecting
          MaxSessions,  \* _MAX_SESSIONS
          MaxShellTrouble  \* bound: failures of connections and shells

ASSUME SessionAssumption == /\ Accounts # {}
                            /\ IsFiniteSet(Sockets) /\ IsFiniteSet(Accounts)
                            /\ NoSession \notin Sessions /\ Creating \notin Sessions
                            /\ NoSession # Creating
                            /\ MaxSessions \in Nat \ {0} /\ MaxShellTrouble \in Nat

VARIABLES slot,      \* _sessions: what each account has
          shell,     \* each session: closed, live, or dead (not yet closed)
          attached,  \* active_ws of each session
          sock,      \* each socket: where it is, its account and session
          shells     \* failures still available

consoleVars == <<slot, shell, attached, sock, shells>>

SockPcs == {"idle", "ask", "create", "store", "greet", "attached"}

ConsoleTypeOK ==
  /\ slot \in [Accounts -> Sessions \cup {NoSession, Creating}]
  /\ shell \in [Sessions -> {"closed", "live", "dead"}]
  /\ attached \in [Sessions -> 0..Cardinality(Sockets)]
  /\ sock \in [Sockets -> [pc : SockPcs, a : Accounts, s : Sessions \cup {NoSession}]]
  /\ shells \in 0..MaxShellTrouble

SockAt(a) == [pc |-> "ask", a |-> a, s |-> NoSession]
SockIdle  == [SockAt(CHOOSE a \in Accounts : TRUE) EXCEPT !.pc = "idle"]

ConsoleInit == /\ slot = [a \in Accounts |-> NoSession]
               /\ shell = [s \in Sessions |-> "closed"]
               /\ attached = [s \in Sessions |-> 0]
               /\ sock = [w \in Sockets |-> SockIdle]
               /\ shells = MaxShellTrouble

SpendShell == shells > 0 /\ shells' = shells - 1

SockGoto(w, pc)  == sock' = [sock EXCEPT ![w].pc = pc]
SockEnds(w)      == sock' = [sock EXCEPT ![w] = SockIdle]
CloseShells(S)   == shell' = [s \in Sessions |-> IF s \in S THEN "closed" ELSE shell[s]]

-----------------------------------------------------------------------------
(* get_or_create: every look at the table drops the dead sessions first.     *)

(* Mutant: a creation under way counts as dead.                              *)
StaleOrCreating == {a \in Accounts : IF slot[a] \in Sessions THEN shell[slot[a]] # "live"
                                     ELSE slot[a] = Creating}

Stale == {a \in Accounts : slot[a] \in Sessions /\ shell[slot[a]] # "live"}

Purged == [a \in Accounts |-> IF a \in Stale THEN NoSession ELSE slot[a]]

Used(t) == {a \in Accounts : t[a] # NoSession}

SockStart(w, a) == /\ sock[w].pc = "idle"
                   /\ sock' = [sock EXCEPT ![w] = SockAt(a)]
                   /\ UNCHANGED <<slot, shell, attached, shells>>

(* Someone is creating the account's session: ask again, at most for 20 s.   *)
AskWaits(w) == /\ sock[w].pc = "ask"
               /\ slot[sock[w].a] = Creating
               /\ slot' = Purged
               /\ CloseShells({slot[a] : a \in Stale})
               /\ sock' \in {sock, [sock EXCEPT ![w] = SockIdle]}
               /\ UNCHANGED <<attached, shells>>

AskFinds(w) == LET a == sock[w].a IN
  /\ sock[w].pc = "ask"
  /\ Purged[a] \in Sessions
  /\ slot' = Purged
  /\ CloseShells({slot[b] : b \in Stale})
  /\ sock' = [sock EXCEPT ![w].pc = "greet", ![w].s = slot[a]]
  /\ UNCHANGED <<attached, shells>>

(* Mutant: any session may be evicted.                                       *)
EvictableAttached == {a \in Accounts : Purged[a] \in Sessions}

(* _evict_one_locked: the first session without a WebSocket; here any.       *)
Unattached == {a \in Accounts : Purged[a] \in Sessions /\ attached[slot[a]] = 0}

TableFull     == Cardinality(Used(Purged)) >= MaxSessions

AskCreates(w) == LET a == sock[w].a IN
  /\ sock[w].pc = "ask"
  /\ Purged[a] = NoSession
  /\ \E e \in IF TableFull THEN {{b} : b \in Unattached} ELSE {{}} :
       /\ slot' = [b \in Accounts |-> IF b = a THEN Creating
                                      ELSE IF b \in e THEN NoSession ELSE Purged[b]]
       /\ CloseShells({slot[b] : b \in Stale \cup e})
  /\ SockGoto(w, "create")
  /\ UNCHANGED <<attached, shells>>

AskRefused(w) == /\ sock[w].pc = "ask"
                 /\ Purged[sock[w].a] = NoSession
                 /\ TableFull /\ Unattached = {}
                 /\ slot' = Purged
                 /\ CloseShells({slot[a] : a \in Stale})
                 /\ SockEnds(w)
                 /\ UNCHANGED <<attached, shells>>

-----------------------------------------------------------------------------
(* _create connects and opens a shell, without the lock.                     *)

Unused == {s \in Sessions : /\ shell[s] = "closed" /\ attached[s] = 0
                            /\ \A a \in Accounts : slot[a] # s
                            /\ \A w \in Sockets : sock[w].s # s}

(* Which unused name the new session gets is immaterial.                     *)
CreateOk(w) == LET s == CHOOSE u \in Unused : TRUE IN
  /\ sock[w].pc = "create"
  /\ Unused # {}
  /\ shell' = [shell EXCEPT ![s] = "live"]
  /\ sock' = [sock EXCEPT ![w].pc = "store", ![w].s = s]
  /\ UNCHANGED <<slot, attached, shells>>

CreateFails(w) == /\ sock[w].pc = "create"
                  /\ SpendShell
                  /\ SockGoto(w, "store")
                  /\ UNCHANGED <<slot, shell, attached>>

(* invoke_shell raises: nothing above it catches, the sentinel stays (and    *)
(* the SSH client is left to the garbage collector).                         *)
CreateRaises(w) == /\ sock[w].pc = "create"
                   /\ SpendShell
                   /\ SockEnds(w)
                   /\ UNCHANGED <<slot, shell, attached>>

(* The session goes into the slot that still holds the sentinel, else it is  *)
(* closed.                                                                   *)
Store(w) == LET a == sock[w].a  s == sock[w].s  kept == slot[a] = Creating IN
  /\ sock[w].pc = "store"
  /\ slot' = IF kept THEN [slot EXCEPT ![a] = s] ELSE slot
  /\ CloseShells(IF kept THEN {} ELSE {s} \cap Sessions)
  /\ IF kept /\ s # NoSession THEN SockGoto(w, "greet") ELSE SockEnds(w)
  /\ UNCHANGED <<attached, shells>>

-----------------------------------------------------------------------------
(* websocket_console: history and greeting are sent before the socket is     *)
(* attached. Leave: sending them fails, or the watchdog has sent its command *)
(* (_deliver_start_command never attaches).                                  *)

Leave(w) == sock[w].pc = "greet" /\ SockEnds(w)
            /\ UNCHANGED <<slot, shell, attached, shells>>

Attach(w) == /\ sock[w].pc = "greet"
             /\ attached' = [attached EXCEPT ![sock[w].s] = @ + 1]
             /\ SockGoto(w, "attached")
             /\ UNCHANGED <<slot, shell, shells>>

Detached(s) == [attached EXCEPT ![s] = IF @ > 0 THEN @ - 1 ELSE 0]

Detach(w) == /\ sock[w].pc = "attached"
             /\ attached' = Detached(sock[w].s)
             /\ SockEnds(w)
             /\ UNCHANGED <<slot, shell, shells>>

(* The reader thread sees the channel closed or the shell gone.              *)
ShellDies(s) == /\ shell[s] = "live"
                /\ SpendShell
                /\ shell' = [shell EXCEPT ![s] = "dead"]
                /\ UNCHANGED <<slot, attached, sock>>

SockNext(w) == \/ \E a \in Accounts : SockStart(w, a)
               \/ AskWaits(w) \/ AskFinds(w) \/ AskCreates(w) \/ AskRefused(w)
               \/ CreateOk(w) \/ CreateFails(w) \/ CreateRaises(w) \/ Store(w)
               \/ Leave(w) \/ Attach(w) \/ Detach(w)

ConsoleNext == \/ \E w \in Sockets : SockNext(w)
               \/ \E s \in Sessions : ShellDies(s)

ConsoleSpec == ConsoleInit /\ [][ConsoleNext]_consoleVars

-----------------------------------------------------------------------------
Creators(a) == {w \in Sockets : sock[w].a = a /\ sock[w].pc \in {"create", "store"}}

(* At most one creation per account is under way, and its sentinel stands    *)
(* for it until it is over: no look at the table purges, evicts or replaces  *)
(* it, so the session it brings always finds its slot.                       *)
SingleFlight == \A a \in Accounts :
  /\ Cardinality(Creators(a)) <= 1
  /\ Creators(a) # {} => slot[a] = Creating

(* The table never holds more than _MAX_SESSIONS sessions and sentinels.     *)
CapacityHeld == Cardinality(Used(slot)) <= MaxSessions

(* A session that is not closed is in its slot or in its creator's hands: no *)
(* SSH connection is lost by purge, eviction or a lost race.                 *)
NoSessionLeaks == \A s \in Sessions : shell[s] # "closed" =>
  \/ \E a \in Accounts : slot[a] = s
  \/ \E w \in Sockets : sock[w].pc = "store" /\ sock[w].s = s

(* A sentinel or a session always has somebody who will dispose of it: the   *)
(* one creation its account has under way, or the table.                     *)
SessionsOwned == SingleFlight /\ NoSessionLeaks

(* session_manager.py:66-67: capacity eviction never closes a live session   *)
(* with an attached WebSocket.                                               *)
AttachedSurvive == [][\A w \in Sockets :
  sock[w].pc = "attached" /\ shell[sock[w].s] = "live"
    => shell'[sock[w].s] # "closed"]_consoleVars

(* session_manager.py:102-103, "a concurrent connection is establishing this *)
(* session": whoever waits for a sentinel waits for somebody.                *)
SentinelHasCreator == \A a \in Accounts : slot[a] = Creating => Creators(a) # {}

(* session_manager.py:216-217, "capacity eviction never closes a live        *)
(* console": nor one handed out and about to be attached.                    *)
HandedOutSurvive == [][\A w \in Sockets :
  sock[w].pc = "greet" /\ shell[sock[w].s] = "live"
    => shell'[sock[w].s] # "closed"]_consoleVars
=============================================================================
