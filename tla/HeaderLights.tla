---------------------------- MODULE HeaderLights -----------------------------
(* The network layer of the header's SSH and BMC lights: executor/remote/    *)
(* net_probe.py, and its users in ssh_probe.py and power_ops.py.  Every      *)
(* request pings the machine for itself and feeds the tracker all requests   *)
(* share; what else it reports (the probe's cache, ipmitool) may be wrong.   *)
EXTENDS Naturals

CONSTANTS Pingers,     \* requests for the state of the light
          DownStrikes, \* failures in a row that mean down
          MaxOutages   \* bound: times the machine goes down

ASSUME LightBounds == DownStrikes \in Nat \ {0} /\ MaxOutages \in Nat

VARIABLES
  lamp,    \* which light: ssh, or bmc
  echoes,  \* the machine answers pings
  outages,
  streak,  \* PingTracker._streak of the machine, counted to DownStrikes + 1
  ping,    \* each request's echo: none, on its way, answered, lost
  within,  \* history: the requests sent since the machine went down
  late,    \* history: successes recorded since, of echoes from before
  greens   \* history: answers that said connected, of requests sent since

lightVars == <<lamp, echoes, outages, streak, ping, within, late, greens>>

LightTypeOK ==
  /\ lamp \in {"ssh", "bmc"}
  /\ echoes \in BOOLEAN
  /\ outages \in 0..MaxOutages
  /\ streak \in 0..DownStrikes + 1
  /\ ping \in [Pingers -> {"none", "sent", "echoed", "lost"}]
  /\ within \subseteq Pingers
  /\ late \in Nat /\ greens \in Nat

LightInit ==
  /\ lamp \in {"ssh", "bmc"}
  /\ echoes = TRUE /\ outages = 0
  /\ streak = 0
  /\ ping = [r \in Pingers |-> "none"]
  /\ within = {} /\ late = 0 /\ greens = 0

-----------------------------------------------------------------------------
GoDown == /\ echoes /\ outages < MaxOutages
          /\ echoes' = FALSE
          /\ outages' = outages + 1
          /\ UNCHANGED <<lamp, streak, ping, within, late, greens>>

ComeUp == /\ ~echoes
          /\ echoes' = TRUE
          /\ within' = {} /\ late' = 0 /\ greens' = 0
          /\ UNCHANGED <<lamp, outages, streak, ping>>

(* icmp_ping: one echo with a sequence number of its own, awaited for 1 s.   *)
SendPing(r) == /\ ping[r] = "none"
               /\ ping' = [ping EXCEPT ![r] = "sent"]
               /\ within' = IF echoes THEN within ELSE within \cup {r}
               /\ UNCHANGED <<lamp, echoes, outages, streak, late, greens>>

Echo(r) == /\ ping[r] = "sent" /\ echoes
           /\ ping' = [ping EXCEPT ![r] = "echoed"]
           /\ UNCHANGED <<lamp, echoes, outages, streak, within, late, greens>>

(* The packet is dropped, or there is nobody to answer it.                   *)
LosePing(r) == /\ ping[r] = "sent"
               /\ ping' = [ping EXCEPT ![r] = "lost"]
               /\ UNCHANGED <<lamp, echoes, outages, streak, within, late, greens>>

-----------------------------------------------------------------------------
(* PingTracker.record.                                                       *)
StreakAfter(outcome) ==
  IF outcome = "echoed" THEN 0 ELSE IF streak > DownStrikes THEN streak ELSE streak + 1

(* Mutant: down is reported one failure late.                                *)
NetStateLate(n) == CASE n = 0           -> "up"
                     [] n > DownStrikes -> "down"
                     [] OTHER           -> "degraded"

NetState(n) == CASE n = 0            -> "up"
                 [] n >= DownStrikes -> "down"
                 [] OTHER            -> "degraded"

(* check_ssh_connectivity overrules the cache when the tracker says down,    *)
(* check_bmc_status asks ipmitool only when it says up.                      *)
MayBeGreen(state) == IF lamp = "ssh" THEN state # "down" ELSE state = "up"

(* The outcome is recorded and the request answered from the tracker's state *)
(* it got, with whatever the service layer says.                             *)
Record(r) ==
  /\ ping[r] \in {"echoed", "lost"}
  /\ streak' = StreakAfter(ping[r])
  /\ \E green \in BOOLEAN :
       /\ green => MayBeGreen(NetState(streak'))
       /\ greens' = greens + (IF green /\ r \in within THEN 1 ELSE 0)
  /\ late' = late + (IF ~echoes /\ ping[r] = "echoed" THEN 1 ELSE 0)
  /\ ping' = [ping EXCEPT ![r] = "none"]
  /\ within' = within \ {r}
  /\ UNCHANGED <<lamp, echoes, outages>>

LightNext == \/ GoDown \/ ComeUp
             \/ \E r \in Pingers : SendPing(r) \/ Echo(r) \/ LosePing(r) \/ Record(r)

LightSpec == LightInit /\ [][LightNext]_lightVars

-----------------------------------------------------------------------------
(* A light does not stay green on a dead machine whatever the probe's cache  *)
(* holds and however the requests interleave: of the requests sent since the *)
(* machine went down at most DownStrikes - 1 are told it is connected, and   *)
(* as many more for each success of an earlier request recorded late; the    *)
(* BMC's light, without a cache, is never green for one of them.             *)
GreenIsBounded ==
  ~echoes => greens <= IF lamp = "ssh" THEN (late + 1) * (DownStrikes - 1) ELSE 0
=============================================================================
