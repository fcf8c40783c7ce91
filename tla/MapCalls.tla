------------------------------ MODULE MapCalls ------------------------------
(***************************************************************************)
(* The callers of a map structure: which calls the threads make, and the   *)
(* history of each call that ConcurrentMap speaks of.                      *)
(***************************************************************************)
EXTENDS Naturals

CONSTANTS
  Keys, Values, None,
  Threads,   \* the worker ids, from 0
  Menu,      \* the calls that each thread may make
  MaxCalls   \* bound on the calls of each thread

ASSUME ThreadsAssumption == Threads \subseteq Nat
ASSUME MaxCallsAssumption == MaxCalls \in [Threads -> Nat]
ASSUME NoneAssumption == None \notin Values /\ None \notin Keys
ASSUME MenuAssumption ==
  \A t \in Threads :
    Menu[t] \subseteq [kind : {"insert", "upsert", "remove", "find"}, key : Keys, val : Values]

VARIABLES calls, op, seen, did, ret

hist == <<calls, op, seen, did, ret>>

NoCall == [kind |-> "none", key |-> None, val |-> None]
InCall(t) == op[t].kind # "none"

HistInit ==
  /\ calls = [t \in Threads |-> 0]
  /\ op = [t \in Threads |-> NoCall]
  /\ seen = [t \in Threads |-> {}]
  /\ did = [t \in Threads |-> "nothing"]
  /\ ret = [t \in Threads |-> [ok |-> FALSE, val |-> None]]

\* Thread t makes a call while the map is m.
Begins(t, call, m) ==
  /\ ~InCall(t) /\ calls[t] < MaxCalls[t]
  /\ calls' = [calls EXCEPT ![t] = @ + 1]
  /\ op' = [op EXCEPT ![t] = call]
  /\ seen' = [seen EXCEPT ![t] = {m[call.key]}]
  /\ UNCHANGED <<did, ret>>

\* Its store makes the map m.
Does(t, what, m) ==
  /\ did' = [did EXCEPT ![t] = what]
  /\ seen' = [u \in Threads |->
                IF InCall(u) THEN seen[u] \cup {m[op[u].key]} ELSE seen[u]]
  /\ UNCHANGED <<calls, op, ret>>

Ends(t, ok, val) ==
  /\ op' = [op EXCEPT ![t] = NoCall]
  /\ seen' = [seen EXCEPT ![t] = {}]
  /\ did' = [did EXCEPT ![t] = "nothing"]
  /\ ret' = [ret EXCEPT ![t] = [ok |-> ok, val |-> val]]
  /\ UNCHANGED calls
=============================================================================
