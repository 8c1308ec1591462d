------------------------------- MODULE MCRemote -------------------------------
EXTENDS RemoteAccess, TLC

(* Workers, sockets and callers are interchangeable: no action chooses among *)
(* them, and the run checks no liveness property.                            *)
Interchangeable ==
  Permutations(Workers) \cup Permutations(Sockets) \cup Permutations(Callers)
=============================================================================
