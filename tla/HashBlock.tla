----------------------------- MODULE HashBlock ------------------------------
(***************************************************************************)
(* One bucket of the hash table of structures/hash_block/unordered_map.h.  *)
(* The bucket points to a node with all of its entries; an update copies   *)
(* the node, changes the copy and installs it, with a compare-and-swap     *)
(* (UseCAS) or with a store under the lock of the bucket.  Nodes come from *)
(* pools for different sizes, and the pool that a node goes back to is     *)
(* worked out from the number of its entries.                              *)
(*                                                                         *)
(* Every load and store of the bucket is a step; work on a node that no    *)
(* other thread has is part of the step before.  A retired node is not     *)
(* used again while a thread may see it (epochs); a destructed one is.     *)
(***************************************************************************)
EXTENDS SpinLock, MapCalls, FiniteSets, SequencesExt

CONSTANTS
  Nodes,     \* numbers, for the addresses of nodes
  Sizes,     \* the sizes of the pools; <<1, 3, 7, 31>> in the code
  Initial    \* the sequences of entries the bucket may hold at the start

ASSUME NodesAssumption == Nodes \subseteq Nat \ {0} /\ Nodes # {}
ASSUME SizesAssumption ==
  /\ Sizes \in Seq(Nat) /\ Sizes # <<>> /\ Sizes[1] = 1
  /\ \A i \in 1 .. Len(Sizes) - 1 : Sizes[i] < Sizes[i + 1]
ASSUME InitialAssumption ==
  /\ Initial \subseteq Seq([key : Keys, val : Values])
  /\ \A e \in Initial : \A i, j \in 1 .. Len(e) : e[i].key = e[j].key => i = j

VARIABLES
  useCas,    \* which of the two builds this is
  ptr, lck,  \* the bucket
  node,      \* the pool and the entries of each node; pool 0 while it is free
  retired,   \* how often each was given to retire
  th         \* the locals of each thread

bucket == <<useCas, ptr, lck>>
vars == <<bucket, node, retired, th, hist>>

Null == 0
Free == [pool |-> 0, entries |-> <<>>]
Idle == [pc |-> "idle", old |-> Null, new |-> Null, le |-> Unlocked, res |-> FALSE]

\* The pools are numbered; the last one is that of the big nodes.
Big == Len(Sizes) + 1
Regular == 1 .. Len(Sizes)
First(S) == Min(S \cup {Big})

EntriesAt(n) == IF n = Null THEN <<>> ELSE node[n].entries
Cnt(n) == Len(EntriesAt(n))

-----------------------------------------------------------------------------
\* find_in_range: the index of the key, or 0.
FindInRange(e, k) ==
  LET hits == {i \in 1 .. Len(e) : e[i].key = k} IN
  IF hits = {} THEN 0 ELSE Min(hits)

FindIndex(n, k) == FindInRange(EntriesAt(n), k)

\* Node::find, with the index that it uses when the key is not the first.
Find(n, k) ==
  LET e == EntriesAt(n) IN
  IF Len(e) <= Last(Sizes)
    THEN IF e[1].key = k THEN e[1].val
         ELSE LET i == FindInRange(Tail(e), k) IN IF i = 0 THEN None ELSE e[i].val
    ELSE LET i == FindInRange(e, k) IN IF i = 0 THEN None ELSE e[i].val

Contents == [k \in Keys |->
  LET i == FindIndex(ptr, k) IN IF i = 0 THEN None ELSE EntriesAt(ptr)[i].val]

Abs == INSTANCE ConcurrentMap WITH map <- Contents

-----------------------------------------------------------------------------
\* MUTANT: a full node is copied to one of its own size.
LooseInsertToNode(n, k, v) ==
  LET fits == {i \in Regular : IF n = Null THEN i = 1 ELSE i > 1 /\ Cnt(n) <= Sizes[i]} IN
  [pool |-> First(fits), entries |-> Append(EntriesAt(n), [key |-> k, val |-> v])]

\* insert_to_node, update_node and remove_from_node: the pool and the entries
\* of the copy.
InsertToNode(n, k, v) ==
  LET fits == {i \in Regular : IF n = Null THEN i = 1 ELSE i > 1 /\ Cnt(n) < Sizes[i]} IN
  [pool |-> First(fits), entries |-> Append(EntriesAt(n), [key |-> k, val |-> v])]

UpdateNode(n, k, v) ==
  LET fits == {i \in Regular : Cnt(n) <= Sizes[i]} IN
  [pool |-> First(fits), entries |-> [EntriesAt(n) EXCEPT ![FindIndex(n, k)].val = v]]

RemoveFromNode(n, k) ==
  LET fits == {i \in Regular : Cnt(n) <= Sizes[i] + 1} IN
  [pool |-> First(fits), entries |-> RemoveAt(EntriesAt(n), FindIndex(n, k))]

\* retire_node and destruct_node: the pool that a node is given back to.
RetirePool(n) == First({i \in Regular : Cnt(n) <= Sizes[i]})

FreeNodes == {n \in Nodes : node[n] = Free}
FreeNode == Min(FreeNodes)

-----------------------------------------------------------------------------
Init ==
  /\ useCas \in BOOLEAN
  /\ \E e \in Initial :
       LET fits == {i \in Regular : Len(e) <= Sizes[i]} IN
       /\ ptr = IF e = <<>> THEN Null ELSE Min(Nodes)
       /\ node = [n \in Nodes |-> IF n = ptr THEN [pool |-> First(fits), entries |-> e]
                                             ELSE Free]
  /\ lck = Unlocked
  /\ retired = [n \in Nodes |-> 0]
  /\ th = [t \in Threads |-> Idle]
  /\ HistInit

Call(t, call) ==
  /\ Begins(t, call, Contents)
  /\ th' = [th EXCEPT ![t].pc = "load"]
  /\ UNCHANGED <<bucket, node, retired>>

Return(t, ok, val) ==
  /\ Ends(t, ok, val)
  /\ th' = [th EXCEPT ![t] = Idle]
  /\ UNCHANGED <<bucket, node>>

Goto(t, pc) == th' = [th EXCEPT ![t].pc = pc] /\ UNCHANGED <<bucket, node, retired, hist>>

-----------------------------------------------------------------------------
\* The load of the bucket.  A find answers from the node.  A call that has
\* nothing to change validates that with the lock build; any other makes its
\* new node, except an update with the lock build.
Present(t) == FindIndex(ptr, op[t].key) # 0

LoadFind(t) ==
  /\ th[t].pc = "load" /\ op[t].kind = "find"
  /\ LET v == IF ptr = Null THEN None ELSE Find(ptr, op[t].key)
     IN Return(t, v # None, v)
  /\ UNCHANGED retired

LoadNothingToDo(t) ==
  /\ th[t].pc = "load"
  /\ op[t].kind = IF Present(t) THEN "insert" ELSE "remove"
  /\ \/ useCas /\ Return(t, FALSE, None) /\ UNCHANGED retired
     \/ /\ ~useCas
        /\ th' = [th EXCEPT ![t].pc = "validate", ![t].old = ptr]
        /\ UNCHANGED <<bucket, node, retired, hist>>

Validate(t) ==
  /\ th[t].pc = "validate"
  /\ \/ ptr = th[t].old /\ Return(t, FALSE, None) /\ UNCHANGED retired
     \/ ptr # th[t].old /\ Goto(t, "load")

Copy(t) ==
  LET k == op[t].key IN
  CASE op[t].kind = "remove" -> RemoveFromNode(ptr, k)
    [] op[t].kind = "upsert" /\ Present(t) -> UpdateNode(ptr, k, op[t].val)
    [] OTHER -> InsertToNode(ptr, k, op[t].val)

LoadAndCopy(t) ==
  /\ th[t].pc = "load"
  /\ \/ op[t].kind = IF Present(t) THEN "remove" ELSE "insert"
     \/ op[t].kind = "upsert" /\ (useCas \/ ~Present(t))
  /\ LET empty == op[t].kind = "remove" /\ Cnt(ptr) = 1
         new == IF empty THEN Null ELSE FreeNode IN
     /\ empty \/ FreeNodes # {}
     /\ node' = IF empty THEN node ELSE [node EXCEPT ![new] = Copy(t)]
     /\ th' = [th EXCEPT ![t].pc = IF useCas THEN "reload" ELSE "lock",
                         ![t].old = ptr, ![t].new = new]
  /\ UNCHANGED <<bucket, retired, hist>>

LoadUpdate(t) ==
  /\ th[t].pc = "load" /\ op[t].kind = "upsert" /\ ~useCas /\ Present(t)
  /\ th' = [th EXCEPT ![t].pc = "lock", ![t].old = ptr, ![t].new = Null]
  /\ UNCHANGED <<bucket, node, retired, hist>>

-----------------------------------------------------------------------------
\* The bucket gets its new node.
What(t) == IF op[t].kind = "remove" THEN "removed"
           ELSE IF FindIndex(th[t].old, op[t].key) # 0 THEN "updated" ELSE "inserted"

Install(t, n, pc) ==
  /\ ptr' = n
  /\ th' = [th EXCEPT ![t].pc = pc, ![t].new = Null, ![t].res = TRUE]
  /\ UNCHANGED <<useCas, retired>>

\* try_update with a compare-and-swap.
Reload(t) ==
  /\ th[t].pc = "reload"
  /\ Goto(t, IF ptr = th[t].old THEN "cas" ELSE "destruct")

Cas(t) ==
  /\ th[t].pc = "cas"
  /\ \/ ptr # th[t].old /\ Goto(t, "destruct")
     \/ /\ ptr = th[t].old
        /\ Install(t, th[t].new, "retire")
        /\ UNCHANGED <<lck, node>>
        /\ Does(t, What(t), Contents')

\* try_update, and the update of try_upsert_at, under the lock.
LockLoad(t) ==
  /\ th[t].pc = "lock"
  /\ \/ Fails(lck, t) /\ Goto(t, "destruct")
     \/ /\ ~IsLocked(lck)
        /\ th' = [th EXCEPT ![t].pc = "take", ![t].le = lck]
        /\ UNCHANGED <<bucket, node, retired, hist>>

LockTake(t) ==
  /\ th[t].pc = "take"
  /\ \/ lck # th[t].le /\ Goto(t, "destruct")
     \/ /\ lck = th[t].le
        /\ lck' = TakeLock(lck, t)
        /\ th' = [th EXCEPT ![t].pc = "check"]
        /\ UNCHANGED <<useCas, ptr, node, retired, hist>>

\* MUTANT: the section stores without a look at the bucket.
UncheckedStore(t) == th[t].pc = "check" /\ Goto(t, "store")

Check(t) ==
  /\ th[t].pc = "check"
  /\ Goto(t, IF ptr = th[t].old THEN "store" ELSE "unlock")

InPlace(t) == op[t].kind = "upsert" /\ What(t) = "updated"

Store(t) ==
  /\ th[t].pc = "store"
  /\ LET n == IF InPlace(t) THEN FreeNode ELSE th[t].new IN
     /\ InPlace(t) => FreeNodes # {}
     /\ Install(t, n, "unlock")
     /\ node' = IF InPlace(t)
                  THEN [node EXCEPT ![n] = UpdateNode(th[t].old, op[t].key, op[t].val)]
                  ELSE node
  /\ UNCHANGED lck
  /\ Does(t, What(t), Contents')

\* MUTANT: a section that gives up does not release the lock.
LeakyUnlock(t) ==
  /\ th[t].pc = "unlock"
  /\ lck' = IF th[t].res THEN Released(lck, t) ELSE lck
  /\ th' = [th EXCEPT ![t].pc = IF th[t].res THEN "retire" ELSE "destruct"]
  /\ UNCHANGED <<useCas, ptr, node, retired, hist>>

Unlock(t) ==
  /\ th[t].pc = "unlock"
  /\ lck' = Released(lck, t)
  /\ th' = [th EXCEPT ![t].pc = IF th[t].res THEN "retire" ELSE "destruct"]
  /\ UNCHANGED <<useCas, ptr, node, retired, hist>>

-----------------------------------------------------------------------------
\* The end of an attempt: the old node is retired, or the new one destructed.
Retire(t) ==
  /\ th[t].pc = "retire"
  /\ retired' = IF th[t].old = Null THEN retired
                ELSE [retired EXCEPT ![th[t].old] = @ + 1]
  /\ Return(t, What(t) # "updated", None)

\* MUTANT: an attempt that fails forgets the node it made.
LeakyDestruct(t) ==
  /\ th[t].pc = "destruct"
  /\ th' = [th EXCEPT ![t] = [Idle EXCEPT !.pc = "load"]]
  /\ UNCHANGED <<bucket, node, retired, hist>>

Destruct(t) ==
  /\ th[t].pc = "destruct"
  /\ node' = IF th[t].new = Null THEN node ELSE [node EXCEPT ![th[t].new] = Free]
  /\ th' = [th EXCEPT ![t] = [Idle EXCEPT !.pc = "load"]]
  /\ UNCHANGED <<bucket, retired, hist>>

-----------------------------------------------------------------------------
Step(t) ==
  \/ LoadFind(t) \/ LoadNothingToDo(t) \/ Validate(t) \/ LoadAndCopy(t) \/ LoadUpdate(t)
  \/ Reload(t) \/ Cas(t) \/ LockLoad(t) \/ LockTake(t) \/ Check(t) \/ Store(t)
  \/ Unlock(t) \/ Retire(t) \/ Destruct(t)

Next == \E t \in Threads : Step(t) \/ \E call \in Menu[t] : Call(t, call)

\* The scheduler lets every thread that is in a call go on.
Fairness == \A t \in Threads : WF_vars(Step(t))
Spec == Init /\ [][Next]_vars /\ Fairness

-----------------------------------------------------------------------------
\* Every call on the bucket takes effect or is answered as if at one moment
\* between its start and its end, in both builds; of what a find returns,
\* only whether it found the key.
IsMap == Abs!Spec

\* Node::find: "return optional value found in entries given a key".
FindsValue == Abs!FindsValue

\* Every node has room for its entries, and the pool that retire_node and
\* destruct_node work out from the number of entries is the one it came from.
NodesFit ==
  \A n \in Nodes : node[n] # Free =>
    /\ node[n].pool # Big => Cnt(n) <= Sizes[node[n].pool]
    /\ node[n].pool = RetirePool(n)

\* Whichever way an attempt ends, every node that was allocated is in the
\* bucket, or retired once, or still to be given back by exactly one thread.
NodesAccountedFor ==
  \A n \in Nodes : node[n] # Free =>
    1 = retired[n] + (IF ptr = n THEN 1 ELSE 0)
        + Cardinality({t \in Threads : th[t].new = n \/ (th[t].res /\ th[t].old = n)})

\* No set of callers blocks itself: when the calls are finite in number every
\* one of them returns, whatever failed locks and lost races it meets.
CallsReturn == \A t \in Threads : InCall(t) ~> ~InCall(t)
=============================================================================
