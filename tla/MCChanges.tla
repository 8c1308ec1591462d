------------------------------ MODULE MCChanges -------------------------------
EXTENDS ServerChanges, TLC

(* Repository q's name is a part of qx's; the ids a and b give one file name. *)
Names == {<<"q", "q">>, <<"q", "qx">>, <<"qx", "qx">>}
Clash == [i \in {"a", "b"} |-> "ab"]

(* No action chooses among requests or models, and no property is a liveness *)
(* property.                                                                 *)
Interchangeable == Permutations(Reqs) \cup Permutations(CatModels)
=============================================================================
