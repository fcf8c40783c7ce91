------------------------------- MODULE MCList -------------------------------
(* A small instance of List for TLC: two keys, both there at the start. *)
EXTENDS List

MCKeys == {1, 2}
MCInitial == {<<"old1", "old2">>}

\* Threads are alike, so each has its own part of the calls: neighbours that
\* are removed at the same time, a key that goes and comes back, and a find.
A(kind, k) == [kind |-> kind, key |-> k, val |-> "new"]
MCMenu == [t \in Threads |->
  CASE t = 0 -> {A("remove", 1), A("remove", 2)}
    [] t = 1 -> {A("remove", 2), A("insert", 2)}
    [] t = 2 -> {A("find", 1), A("find", 2), A("insert", 2)}]
MCMaxCalls == [t \in Threads |-> IF t = 1 THEN 2 ELSE 1]
=============================================================================
