--------------------------- MODULE ConcurrentMap ---------------------------
(***************************************************************************)
(* What a map of the structures promises to concurrent callers: every call *)
(* takes effect, or is answered, at one moment between its start and its   *)
(* end.  An update that changes the map does so in one step of its own.    *)
(* The answer of any other call only has to have been right at some moment *)
(* of the call, whatever other threads did before and after; `seen' keeps  *)
(* the values that its key has had since the call started.                 *)
(***************************************************************************)
CONSTANTS Threads, Keys, Values, None

VARIABLES
  map,   \* the value of each key, or None
  op,    \* per thread: the call it is in
  seen,  \* per thread: the values of the key of its call, since the start
  did,   \* per thread: what its call did to the map
  ret    \* per thread: what its last call returned

mapVars == <<map, op, seen, did, ret>>

Kinds == {"insert", "upsert", "remove", "find"}
Calls == [kind : Kinds, key : Keys, val : Values]
NoCall == [kind |-> "none", key |-> None, val |-> None]
Returns == [ok : BOOLEAN, val : Values \cup {None}]
InCall(t) == op[t].kind # "none"

Init ==
  /\ map \in [Keys -> Values \cup {None}]
  /\ op = [t \in Threads |-> NoCall]
  /\ seen = [t \in Threads |-> {}]
  /\ did = [t \in Threads |-> "nothing"]
  /\ ret = [t \in Threads |-> [ok |-> FALSE, val |-> None]]

Begin(t, call) ==
  /\ ~InCall(t)
  /\ op' = [op EXCEPT ![t] = call]
  /\ seen' = [seen EXCEPT ![t] = {map[call.key]}]
  /\ UNCHANGED <<map, did, ret>>

\* What the call of t may do to its key, and what that is called.
May(t, v, what) ==
  LET kind == op[t].kind  present == map[op[t].key] # None IN
  \/ kind \in {"insert", "upsert"} /\ ~present /\ v = op[t].val /\ what = "inserted"
  \/ kind = "upsert" /\ present /\ v = op[t].val /\ what = "updated"
  \/ kind = "remove" /\ present /\ v = None /\ what = "removed"

Effect(t) ==
  /\ InCall(t) /\ did[t] = "nothing"
  /\ \E v \in Values \cup {None}, what \in {"inserted", "updated", "removed"} :
       /\ did' = [did EXCEPT ![t] = what]
       /\ May(t, v, what)
       /\ map' = [map EXCEPT ![op[t].key] = v]
  /\ seen' = [u \in Threads |->
                IF InCall(u) THEN seen[u] \cup {map'[op[u].key]} ELSE seen[u]]
  /\ UNCHANGED <<op, ret>>

\* The answers that are right: for a call that changed the map, and for one
\* that found nothing to change or only looked.
Right(t, ok) ==
  LET kind == op[t].kind  present == \E v \in seen[t] : v # None IN
  IF did[t] # "nothing"
    THEN ok = (did[t] # "updated")
    ELSE \/ kind = "insert" /\ ~ok /\ present
         \/ kind = "remove" /\ ~ok /\ None \in seen[t]
         \/ kind = "find" /\ IF ok THEN present ELSE None \in seen[t]

End(t) ==
  /\ InCall(t)
  /\ op' = [op EXCEPT ![t] = NoCall]
  /\ \E r \in Returns : Right(t, r.ok) /\ ret' = [ret EXCEPT ![t] = r]
  /\ seen' = [seen EXCEPT ![t] = {}]
  /\ did' = [did EXCEPT ![t] = "nothing"]
  /\ UNCHANGED map

Next == \E t \in Threads :
  Effect(t) \/ End(t) \/ \E call \in Calls : Begin(t, call)

Spec == Init /\ [][Next]_mapVars

-----------------------------------------------------------------------------
\* A find that succeeds returns a value that its key had during the call.
FindsValue ==
  [][\A t \in Threads :
       op[t].kind = "find" /\ ~InCall(t)' /\ ret'[t].ok => ret'[t].val \in seen[t]
    ]_mapVars
=============================================================================
