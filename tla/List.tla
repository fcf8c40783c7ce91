-------------------------------- MODULE List --------------------------------
(***************************************************************************)
(* The sorted list of structures/list/ordered_map.h over the spin locks:   *)
(* find_location goes down the list without locks; an update then takes    *)
(* the locks it needs with try_lock, looks whether the place it found is   *)
(* still right, and otherwise starts over (try_loop).                      *)
(*                                                                         *)
(* Every load and store of a shared field is a step.  `next' is a          *)
(* versioned pointer and `removed' a write-once atomic; outside of         *)
(* snapshots both are read and written like atomics.  A node is not used   *)
(* again: the epoch machinery keeps it from a thread that may still see    *)
(* it.                                                                     *)
(***************************************************************************)
EXTENDS SpinLock, MapCalls, FiniteSets

CONSTANTS
  Nodes,     \* the nodes that hold entries; the first ones are named by keys
  Tail,      \* the last node; the first one, root, is 0
  Initial    \* the maps that the list may hold at the start

ASSUME NodesAssumption ==
  Keys \subseteq Nodes /\ Nodes \subseteq Nat \ {0, Tail} /\ Tail \in Nat \ {0}
ASSUME MenuOfList == \A t \in Threads : \A call \in Menu[t] : call.kind # "upsert"
ASSUME InitialAssumption == Initial \subseteq [Keys -> Values \cup {None}]

VARIABLES
  next, key, value, removed,   \* the fields of the nodes
  lck,                         \* their locks
  retired,                     \* how often each was given to retire
  th                           \* the locals of each thread

heap == <<next, key, value, removed, lck, retired>>
vars == <<heap, th, hist>>

Root == 0
All == Nodes \cup {Root, Tail}
Idle == [pc |-> "idle", cur |-> Root, nxt |-> Root, nn |-> Root,
         le |-> Unlocked, held |-> 0, res |-> FALSE]

-----------------------------------------------------------------------------
\* The nodes on the list, as check() goes along it: the least set that has the
\* root and is closed under `next'; and the map they hold.
Closed(S) == \A n \in S : next[n] = Tail \/ next[n] \in S

Reach ==
  LET closed == {S \in {{Root} \cup R : R \in SUBSET Nodes} : Closed(S)} IN
  {n \in Nodes \cup {Root} : \A S \in closed : n \in S}

Contents ==
  LET entries == Reach \cap Nodes IN
  [k \in Keys |-> IF \E n \in entries : key[n] = k
                    THEN value[CHOOSE n \in entries : key[n] = k] ELSE None]

Abs == INSTANCE ConcurrentMap WITH map <- Contents

-----------------------------------------------------------------------------
NextKey(m, n) ==
  LET later == {k \in Keys : m[k] # None /\ k > n} IN
  IF later = {} THEN Tail ELSE CHOOSE k \in later : \A l \in later : k <= l

Init ==
  /\ \E m \in Initial :
       /\ key = [n \in Nodes |-> IF n \in Keys /\ m[n] # None THEN n ELSE None]
       /\ value = [n \in Nodes |-> IF n \in Keys THEN m[n] ELSE None]
       /\ next = [n \in All |-> IF n = Tail THEN Root
                                ELSE IF n = Root \/ key[n] # None THEN NextKey(m, n)
                                ELSE Tail]
  /\ removed = [n \in All |-> FALSE]
  /\ lck = [n \in All |-> Unlocked]
  /\ retired = [n \in Nodes |-> 0]
  /\ th = [t \in Threads |-> Idle]
  /\ HistInit

Call(t, call) ==
  /\ Begins(t, call, Contents)
  /\ th' = [th EXCEPT ![t].pc = "start"]
  /\ UNCHANGED heap

Return(t, ok, val) ==
  /\ Ends(t, ok, val)
  /\ th' = [th EXCEPT ![t] = Idle]
  /\ UNCHANGED heap

\* A step of t that only reads and then goes on at pc.
Goto(t, pc) == th' = [th EXCEPT ![t].pc = pc] /\ UNCHANGED <<heap, hist>>

-----------------------------------------------------------------------------
\* find_location, and where its caller goes from there.
Start(t) ==
  /\ th[t].pc = "start"
  /\ th' = [th EXCEPT ![t] = [Idle EXCEPT !.pc = "walk", !.nxt = next[Root]]]
  /\ UNCHANGED <<heap, hist>>

\* MUTANT: the walk goes past a node with the key itself.
StopsBehind(t) == th[t].nxt # Tail => key[th[t].nxt] > op[t].key

Stops(t) == th[t].nxt # Tail => key[th[t].nxt] >= op[t].key

\* MUTANT: any node that the walk stops at counts as the key's.
FoundAny(t) == th[t].nxt # Tail

Found(t) == th[t].nxt # Tail /\ key[th[t].nxt] = op[t].key

Walk(t) ==
  /\ th[t].pc = "walk" /\ ~Stops(t)
  /\ th' = [th EXCEPT ![t].cur = th[t].nxt, ![t].nxt = next[th[t].nxt]]
  /\ UNCHANGED <<heap, hist>>

FindAnswer(t) == IF Found(t) THEN Return(t, TRUE, value[th[t].nxt])
                             ELSE Return(t, FALSE, None)

Located(t) ==
  /\ th[t].pc = "walk" /\ Stops(t)
  /\ \/ op[t].kind = "find" /\ FindAnswer(t)         \* find_
     \/ op[t].kind = "find" /\ Goto(t, "validate")   \* try_find
     \/ /\ op[t].kind # "find"
        /\ Goto(t, IF Found(t) = (op[t].kind = "insert") THEN "validate" ELSE "lock")

\* read_lock: the thunk runs without the lock, and makes two loads.
ValidateNext(t) ==
  /\ th[t].pc = "validate"
  /\ Goto(t, IF next[th[t].cur] = th[t].nxt THEN "validate2" ELSE "start")

Validated(t) ==
  /\ th[t].pc = "validate2"
  /\ IF removed[th[t].cur] THEN Goto(t, "start")
     ELSE IF op[t].kind = "find" THEN FindAnswer(t) ELSE Return(t, FALSE, None)

-----------------------------------------------------------------------------
\* try_lock on cur, and inside it, for a remove, on nxt.
Target(t) == IF th[t].held = 0 THEN th[t].cur ELSE th[t].nxt
NotLocked(t) == Goto(t, IF th[t].held = 0 THEN "start" ELSE "unlock")

LockLoad(t) ==
  LET le == lck[Target(t)] IN
  /\ th[t].pc = "lock"
  /\ \/ Fails(le, t) /\ NotLocked(t)
     \/ /\ ~IsLocked(le)
        /\ th' = [th EXCEPT ![t].pc = "cas", ![t].le = le]
        /\ UNCHANGED <<heap, hist>>

LockCas(t) ==
  /\ th[t].pc = "cas"
  /\ IF lck[Target(t)] # th[t].le THEN NotLocked(t)
     ELSE /\ lck' = [lck EXCEPT ![Target(t)] = TakeLock(@, t)]
          /\ th' = [th EXCEPT ![t].held = @ + 1,
                              ![t].pc = IF th[t].held = 0 THEN "check" ELSE "load"]
          /\ UNCHANGED <<next, key, value, removed, retired, hist>>

\* MUTANT: the section does not look whether cur was removed.
UncheckedRemoved(t) == th[t].pc = "check" /\ Goto(t, "check2")

\* The section: is the place still right?
CheckRemoved(t) ==
  /\ th[t].pc = "check"
  /\ Goto(t, IF removed[th[t].cur] THEN "unlock" ELSE "check2")

\* MUTANT: the section does not look whether nxt still follows cur.
UncheckedNext(t) ==
  /\ th[t].pc = "check2"
  /\ Goto(t, IF op[t].kind = "insert" THEN "splice" ELSE "lock")

CheckNext(t) ==
  /\ th[t].pc = "check2"
  /\ Goto(t, IF next[th[t].cur] # th[t].nxt THEN "unlock"
             ELSE IF op[t].kind = "insert" THEN "splice" ELSE "lock")

Splice(t) ==
  /\ th[t].pc = "splice"
  /\ \E n \in Nodes :
       /\ key[n] = None /\ \A m \in Nodes : key[m] = None => n <= m
       /\ key' = [key EXCEPT ![n] = op[t].key]
       /\ value' = [value EXCEPT ![n] = op[t].val]
       /\ next' = [next EXCEPT ![n] = th[t].nxt, ![th[t].cur] = n]
  /\ th' = [th EXCEPT ![t].pc = "unlock", ![t].res = TRUE]
  /\ UNCHANGED <<removed, lck, retired>>
  /\ Does(t, "inserted", Contents')

LoadNext(t) ==
  /\ th[t].pc = "load"
  /\ th' = [th EXCEPT ![t].pc = "mark", ![t].nn = next[th[t].nxt]]
  /\ UNCHANGED <<heap, hist>>

Mark(t) ==
  /\ th[t].pc = "mark"
  /\ removed' = [removed EXCEPT ![th[t].nxt] = TRUE]
  /\ th' = [th EXCEPT ![t].pc = "shortcut"]
  /\ UNCHANGED <<next, key, value, lck, retired, hist>>

Shortcut(t) ==
  /\ th[t].pc = "shortcut"
  /\ next' = [next EXCEPT ![th[t].cur] = th[t].nn]
  /\ th' = [th EXCEPT ![t].pc = "retire"]
  /\ UNCHANGED <<key, value, removed, lck, retired>>
  /\ Does(t, "removed", Contents')

Retire(t) ==
  /\ th[t].pc = "retire"
  /\ retired' = [retired EXCEPT ![th[t].nxt] = @ + 1]
  /\ th' = [th EXCEPT ![t].pc = "unlock", ![t].res = TRUE]
  /\ UNCHANGED <<next, key, value, removed, lck, hist>>

\* MUTANT: the outer section ends without a release when it gave up.
LeakyUnlock(t) ==
  /\ th[t].pc = "unlock" /\ th[t].held > 0
  /\ lck' = IF th[t].held = 1 /\ ~th[t].res THEN lck
            ELSE [lck EXCEPT ![IF th[t].held = 1 THEN th[t].cur ELSE th[t].nxt] =
                    Released(@, t)]
  /\ th' = [th EXCEPT ![t].held = @ - 1]
  /\ UNCHANGED <<next, key, value, removed, retired, hist>>

\* The sections end, the inner one first; then the call is over, or is tried
\* again from the start.
Unlock(t) ==
  /\ th[t].pc = "unlock" /\ th[t].held > 0
  /\ lck' = [lck EXCEPT ![IF th[t].held = 1 THEN th[t].cur ELSE th[t].nxt] =
               Released(@, t)]
  /\ th' = [th EXCEPT ![t].held = @ - 1]
  /\ UNCHANGED <<next, key, value, removed, retired, hist>>

Finish(t) ==
  /\ th[t].pc = "unlock" /\ th[t].held = 0
  /\ IF th[t].res THEN Return(t, TRUE, None) ELSE Goto(t, "start")

-----------------------------------------------------------------------------
Step(t) ==
  \/ Start(t) \/ Walk(t) \/ Located(t) \/ ValidateNext(t) \/ Validated(t)
  \/ LockLoad(t) \/ LockCas(t) \/ CheckRemoved(t) \/ CheckNext(t) \/ Splice(t)
  \/ LoadNext(t) \/ Mark(t) \/ Shortcut(t) \/ Retire(t) \/ Unlock(t) \/ Finish(t)

Next == \E t \in Threads : Step(t) \/ \E call \in Menu[t] : Call(t, call)

\* The scheduler lets every thread that is in a call go on.
Fairness == \A t \in Threads : WF_vars(Step(t))
Spec == Init /\ [][Next]_vars /\ Fairness

-----------------------------------------------------------------------------
\* Every call on the list takes effect or is answered as if at one moment
\* between its start and its end: the walks without locks, the validations
\* and the retries together implement the map of ConcurrentMap.
IsMap == Abs!Spec

\* A find that succeeds returns a value that its key had during the call,
\* though the node it comes from may have been removed and retired by then.
FindsValue == Abs!FindsValue

\* A node is retired at most once and by then no thread that starts at the
\* root can get to it: what retire needs for the epochs to protect it.
RetiredSafely ==
  \A n \in Nodes : retired[n] <= 1 /\ (retired[n] = 1 => n \notin Reach)

\* The keys grow along the list, as check() demands at any moment: no two calls
\* put the same key in, and none splices behind a node that others have put a
\* smaller key behind meanwhile.
Sorted == \A n \in Reach \ {Root} : next[n] # Tail => key[n] < key[next[n]]

\* No set of callers blocks itself: when the calls are finite in number every
\* one of them returns, whatever failed locks and lost validations it meets.
CallsReturn == \A t \in Threads : InCall(t) ~> ~InCall(t)
=============================================================================
