----------------------------- MODULE RemoteAccess -----------------------------
(* The ways the dashboard reaches the server over SSH, and how it tells that *)
(* it can: pooled clients for commands (SshPool), shells for consoles        *)
(* (ConsoleSessions), the probe that tells whether SSH works (SshProbe), the *)
(* pings behind the header's lights (HeaderLights) and the configuration     *)
(* that says where the server is (ConfigStore).  They share neither state    *)
(* nor locks (the probe's configurations, and what it found, are free inputs *)
(* of the parts that use them), so a behaviour here is one of a single part. *)
EXTENDS SshPool, ConsoleSessions, SshProbe, HeaderLights, ConfigStore

VARIABLE part

remoteVars == <<part, poolVars, consoleVars, probeVars, lightVars, configVars>>

(* The console's table stays within its capacity, sentinels included.        *)
RemoteTypeOK ==
  /\ PoolTypeOK /\ ConsoleTypeOK /\ CapacityHeld
  /\ ProbeTypeOK /\ LightTypeOK /\ ConfigTypeOK

(* A part that does not move starts in one of its initial states only.       *)
RemoteInit == /\ PoolInit /\ ConsoleInit /\ ProbeInit /\ LightInit /\ ConfigInit
              /\ part \in {"pool", "console", "probe", "lights", "config"}
              /\ part # "probe" => host = CHOOSE h \in Hosts : TRUE
              /\ part # "lights" => lamp = "ssh"

RemoteNext ==
  \/ /\ part = "pool" /\ PoolNext
     /\ UNCHANGED <<part, consoleVars, probeVars, lightVars, configVars>>
  \/ /\ part = "console" /\ ConsoleNext
     /\ UNCHANGED <<part, poolVars, probeVars, lightVars, configVars>>
  \/ /\ part = "probe" /\ ProbeNext
     /\ UNCHANGED <<part, poolVars, consoleVars, lightVars, configVars>>
  \/ /\ part = "lights" /\ LightNext
     /\ UNCHANGED <<part, poolVars, consoleVars, probeVars, configVars>>
  \/ /\ part = "config" /\ ConfigNext
     /\ UNCHANGED <<part, poolVars, consoleVars, probeVars, lightVars>>

RemoteSpec == RemoteInit /\ [][RemoteNext]_remoteVars
=============================================================================
