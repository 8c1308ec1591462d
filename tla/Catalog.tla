------------------------------- MODULE Catalog --------------------------------
(* service/model_catalog.py and service/model_benchmark.py: a scan lists the *)
(* server's model directories into the table and then takes out what is no   *)
(* longer there, in a worker thread; a delete stops the model, removes its   *)
(* files and then its entry, on the event loop; a benchmark measures the     *)
(* model that serves and records its result.                                 *)
EXTENDS FiniteSets

CONSTANTS CatModels, \* models
          Scans,     \* scans in flight
          Benches,   \* benchmarks in flight
          NoModel

ASSUME NoModelAssumption == NoModel \notin CatModels

VARIABLES
  onServer,  \* models whose files are there
  table,     \* the state machine's entry of each: none, down, up (or loading)
  results,   \* _benchmark_results: models with a result
  inflight,  \* _benchmark_inflight
  scan,      \* each scan: step, models listed, still to add, looked for, gone
  delete,    \* the delete in progress: step and model
  bench,     \* each benchmark: the model it measures
  doubt,     \* history: entries whose files the last look could not tell about
  late       \* history: results recorded after their model was taken out

catVars == <<onServer, table, results, inflight, scan, delete, bench, doubt, late>>

NoScan   == [step |-> "none", listed |-> {}, add |-> {}, look |-> {}, gone |-> {}]
NoDelete == [step |-> "none", model |-> NoModel]

CatTypeOK ==
  /\ {onServer, results, inflight, doubt, late} \subseteq SUBSET CatModels
  /\ table \in [CatModels -> {"none", "down", "up"}]
  /\ scan \in [Scans -> [step : {"none", "add", "check", "remove"},
                         listed : SUBSET CatModels, add : SUBSET CatModels,
                         look : SUBSET CatModels, gone : SUBSET CatModels]]
  /\ delete \in [step : {"none", "wait", "files", "entry"}, model : CatModels \cup {NoModel}]
  /\ bench \in [Benches -> CatModels \cup {NoModel}]

CatInit == /\ onServer \in SUBSET CatModels
           /\ table = [m \in CatModels |-> "none"]
           /\ results = {} /\ inflight = {}
           /\ scan = [s \in Scans |-> NoScan] /\ delete = NoDelete
           /\ bench = [b \in Benches |-> NoModel]
           /\ doubt = {} /\ late = {}

-----------------------------------------------------------------------------
(* The server and the model's life, module ModelControl's subject.           *)
Copy(m) == /\ m \notin onServer
           /\ onServer' = onServer \cup {m}
           /\ UNCHANGED <<table, results, inflight, scan, delete, bench, doubt, late>>

ComesUp(m)   == table[m] = "down" /\ table' = [table EXCEPT ![m] = "up"]
GoesDown(m)  == table[m] = "up" /\ table' = [table EXCEPT ![m] = "down"]

Lives(m) == /\ ComesUp(m) \/ GoesDown(m)
            /\ UNCHANGED <<onServer, results, inflight, scan, delete, bench, doubt, late>>

Goes(m) == /\ table' = [table EXCEPT ![m] = "none"]
           /\ results' = results \ {m}
           /\ late' = late \ {m}

-----------------------------------------------------------------------------
(* scan_models.                                                              *)
ScanLists(s) == /\ scan[s].step = "none"
                /\ scan' = [scan EXCEPT ![s] =
                                      [NoScan EXCEPT !.step = "add", !.listed = onServer,
                                                     !.add = onServer]]
                /\ UNCHANGED <<onServer, table, results, inflight, delete, bench, doubt, late>>

ScanAdds(s, m) ==
  /\ scan[s].step = "add" /\ m \in scan[s].add
  /\ scan' = [scan EXCEPT ![s].add = @ \ {m}]
  /\ table' = IF table[m] = "none" THEN [table EXCEPT ![m] = "down"] ELSE table
  /\ UNCHANGED <<onServer, results, inflight, delete, bench, doubt, late>>

(* Models that are up are not looked for.                                    *)
ScanAsks(s) ==
  LET down == {m \in CatModels : table[m] = "down"}
  IN /\ scan[s].step = "add" /\ scan[s].add = {}
     /\ scan' = [scan EXCEPT ![s].step = "check", ![s].look = down]
     /\ doubt' = doubt \cup {m \in CatModels : table[m] = "up"}
     /\ UNCHANGED <<onServer, table, results, inflight, delete, bench, late>>

(* Mutant: what the scan listed is taken for what is there.                  *)
NotListed(s) == scan[s].look \ scan[s].listed

NotThere(s) == scan[s].look \ onServer

(* The look may fail, and then nothing is taken out.                         *)
ScanChecks(s) ==
  /\ scan[s].step = "check"
  /\ \/ /\ scan' = [scan EXCEPT ![s] = [NoScan EXCEPT !.step = "remove", !.gone = NotThere(s)]]
        /\ doubt' = doubt \ scan[s].look
     \/ /\ scan' = [scan EXCEPT ![s] = NoScan]
        /\ doubt' = doubt \cup scan[s].look
  /\ UNCHANGED <<onServer, table, results, inflight, delete, bench, late>>

ScanRemoves(s) ==
  /\ scan[s].step = "remove"
  /\ IF scan[s].gone = {}
     THEN scan' = [scan EXCEPT ![s] = NoScan] /\ UNCHANGED <<table, results, late>>
     ELSE \E m \in scan[s].gone : /\ scan' = [scan EXCEPT ![s].gone = @ \ {m}]
                                  /\ IF table[m] # "none" THEN Goes(m)
                                     ELSE UNCHANGED <<table, results, late>>
  /\ UNCHANGED <<onServer, inflight, delete, bench, doubt>>

-----------------------------------------------------------------------------
(* delete_model: a model that is up is stopped first, and the stop awaited.  *)
DeleteAsked(m) ==
  /\ delete.step = "none" /\ table[m] # "none"
  /\ delete' = [step |-> IF table[m] = "up" THEN "wait" ELSE "files", model |-> m]
  /\ UNCHANGED <<onServer, table, results, inflight, scan, bench, doubt, late>>

DeleteWaits ==
  /\ delete.step = "wait"
  /\ \/ delete' = [delete EXCEPT !.step = "files"]
     \/ delete' = NoDelete                              \* 503: still running
  /\ UNCHANGED <<onServer, table, results, inflight, scan, bench, doubt, late>>

(* rm and its verification; no await from here to the entry, but the scan's  *)
(* thread runs on.                                                           *)
DeleteFiles ==
  /\ delete.step = "files"
  /\ \/ /\ onServer' = onServer \ {delete.model}
        /\ delete' = [delete EXCEPT !.step = "entry"]
        /\ UNCHANGED doubt
     \/ /\ onServer' \in {onServer, onServer \ {delete.model}}
        /\ delete' = NoDelete
        /\ doubt' = doubt \cup {delete.model}
  /\ UNCHANGED <<table, results, inflight, scan, bench, late>>

DeleteEntry == /\ delete.step = "entry"
               /\ IF table[delete.model] # "none" THEN Goes(delete.model)
                  ELSE UNCHANGED <<table, results, late>>
               /\ delete' = NoDelete
               /\ UNCHANGED <<onServer, inflight, scan, bench, doubt>>

-----------------------------------------------------------------------------
(* benchmark_model: one at a time per model, the key released on every path. *)
Acquires(b, m) == /\ bench[b] = NoModel
                  /\ table[m] = "up" /\ m \notin inflight
                  /\ inflight' = inflight \cup {m}
                  /\ bench' = [bench EXCEPT ![b] = m]
                  /\ UNCHANGED <<onServer, table, results, scan, delete, doubt, late>>

Releases(b) == inflight' = inflight \ {bench[b]} /\ bench' = [bench EXCEPT ![b] = NoModel]

Records(b) == /\ bench[b] # NoModel
              /\ results' = results \cup {bench[b]}
              /\ late' = IF table[bench[b]] = "none" THEN late \cup {bench[b]} ELSE late
              /\ Releases(b)
              /\ UNCHANGED <<onServer, table, scan, delete, doubt>>

BenchFails(b) == /\ bench[b] # NoModel
                 /\ Releases(b)
                 /\ UNCHANGED <<onServer, table, results, scan, delete, doubt, late>>

CatNext ==
  \/ \E m \in CatModels : Copy(m) \/ Lives(m) \/ DeleteAsked(m)
  \/ \E s \in Scans : \/ ScanLists(s) \/ ScanAsks(s) \/ ScanChecks(s) \/ ScanRemoves(s)
                      \/ \E m \in CatModels : ScanAdds(s, m)
  \/ DeleteWaits \/ DeleteFiles \/ DeleteEntry
  \/ \E b \in Benches : \/ \E m \in CatModels : Acquires(b, m)
                        \/ Records(b) \/ BenchFails(b)

CatSpec == CatInit /\ [][CatNext]_catVars

-----------------------------------------------------------------------------
Settled == delete = NoDelete /\ \A s \in Scans : scan[s] = NoScan

(* A scan that listed a model before a delete took its files does not leave  *)
(* it in the table: once scans and deletes are over, an entry has files and  *)
(* a result has an entry, but for what the last look could not tell (it      *)
(* failed, or the model was up) and results measured past the deletion.      *)
NoGhosts ==
  Settled => /\ \A m \in CatModels : table[m] = "down" => m \in onServer \cup doubt
             /\ \A m \in results : table[m] # "none" \/ m \in late
=============================================================================
