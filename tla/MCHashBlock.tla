---------------------------- MODULE MCHashBlock -----------------------------
(* Small instances of HashBlock for TLC. *)
EXTENDS HashBlock

E(k) == [key |-> k, val |-> "old"]
MCDifferent == {<<E(1), [key |-> 2, val |-> "new"]>>}
MCInitial == {<<E(1)>>, <<E(1), E(2)>>}

\* Threads are alike, so each has its own part of the calls.
A(kind, k) == [kind |-> kind, key |-> k, val |-> "new"]
MCMenu == [t \in Threads |->
  CASE t = 0 -> {A("insert", 3), A("upsert", 1)}
    [] t = 1 -> {A("remove", 1), A("remove", 2)}
    [] t = 2 -> {A("find", 2), A("insert", 1), A("upsert", 1)}]
MCSizes == <<1, 2>>
MCMaxCalls == [t \in Threads |-> 1]
=============================================================================
