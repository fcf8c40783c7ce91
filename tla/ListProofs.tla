----------------------------- MODULE ListProofs -----------------------------
(***************************************************************************)
(* Proofs about the sorted list: no node is retired twice or while it can  *)
(* still be reached from the root, every call is atomic, and a find        *)
(* returns a value that its key had during the call, for any number of     *)
(* threads, keys and nodes.                                                *)
(*                                                                         *)
(* Three things carry the proof.  The shape of the list (SortInv,          *)
(* ReachInv): what one can reach from the root, which is the least set     *)
(* closed under `next', is sorted and jumps over none of its own nodes,    *)
(* and a store behind a locked node adds or takes away one node            *)
(* (SpliceReach, CutReach).  The locks (LockInv): a thread that has locked *)
(* a node is alone with its fields, so what it checked inside its section  *)
(* still holds when it stores (Sure).  And hindsight (TrailInv): a walk    *)
(* without locks may be on nodes that were cut out long ago, but it stays  *)
(* in a set of nodes, closed under `next', each of which tells of the key  *)
(* of the call only what the map had at some moment of the call (Knows).   *)
(***************************************************************************)
EXTENDS List, WellFoundedInduction, NaturalsInduction, TLAPS

\* The types of the variables: calls, effects and lock words, and the places
\* and locals of a thread.
Requests == [kind : {"insert", "remove", "find"}, key : Keys, val : Values]
Deeds == {"nothing", "inserted", "updated", "removed"}
LockWords == [count : Nat, proc : Nat]
Pcs == {"idle", "start", "walk", "validate", "validate2", "lock", "cas", "check", "check2",
        "splice", "load", "mark", "shortcut", "retire", "unlock"}
Locals == [pc : Pcs, cur : All, nxt : All, nn : All, le : LockWords, held : 0 .. 2,
           res : BOOLEAN]

\* The nodes that have been made, and those that may have one after them.
Used == {n \in Nodes : key[n] # None}
Inner == Used \cup {Root}
Outer == Used \cup {Tail}

\* Type correctness.
Types ==
  /\ next \in [All -> All] /\ removed \in [All -> BOOLEAN] /\ lck \in [All -> LockWords]
  /\ key \in [Nodes -> Keys \cup {None}] /\ value \in [Nodes -> Values \cup {None}]
  /\ retired \in [Nodes -> Nat]
  /\ th \in [Threads -> Locals]
  /\ calls \in [Threads -> Nat]
  /\ op \in [Threads -> Requests \cup {NoCall}]
  /\ seen \in [Threads -> SUBSET (Values \cup {None})]
  /\ did \in [Threads -> Deeds]
  /\ ret \in [Threads -> [ok : BOOLEAN, val : Values \cup {None}]]

\* The order of the nodes.
Before(m, n) == m = Root \/ n = Tail \/ key[m] < key[n]

\* Nodes are followed by larger ones; those not made yet by none.
SortInv ==
  /\ \A n \in Inner : next[n] \in Outer /\ Before(n, next[n])
  /\ \A n \in Nodes \ Used : next[n] = Tail
  /\ \A n \in Used : value[n] \in Values

\* The nodes on the list: every key once, and none is passed by.
ReachInv ==
  /\ Reach \subseteq Inner
  /\ \A m, n \in Reach \ {Root} : key[m] = key[n] => m = n
  /\ \A m \in Reach, n \in Reach \ {Root} :
       Before(m, n) => next[m] = n \/ (next[m] # Tail /\ Before(next[m], n))

\* A node that was on the list and no longer is has been marked before.
RemovedInv ==
  /\ ~removed[Root]
  /\ \A n \in Nodes : n \notin Used => ~removed[n]
  /\ \A n \in Used \ Reach : removed[n]

\* A node is retired once, when it is off the list.
RetiredInv ==
  \A n \in Nodes : retired[n] \in {0, 1} /\ (retired[n] = 1 => n \in Used \ Reach)

\* The locks of a thread, by the section it is in: on cur, then on nxt.
Holds(t, n) == (th[t].held >= 1 /\ n = th[t].cur) \/ (th[t].held = 2 /\ n = th[t].nxt)

\* The locks of a thread say so.
LockInv ==
  /\ \A n \in All : lck[n].count < CountMod
  /\ \A t \in Threads : \A n \in All :
       Holds(t, n) => IsLocked(lck[n]) /\ IsSelfLocked(lck[n], t)

\* A walk for key k goes on behind n, stops at n, and answers so there.
Below(n, k) == n = Root \/ key[n] < k
StopsAt(n, k) == n # Tail => key[n] >= k
AnswerAt(n, k) == IF n # Tail /\ key[n] = k THEN value[n] ELSE None

\* The key of the call lies between m and the node after it, and the call has
\* seen what that says of the key.
Knows(t, m) ==
  Below(m, op[t].key) /\ StopsAt(next[m], op[t].key)
    => AnswerAt(next[m], op[t].key) \in seen[t]

\* Wherever the walk goes from here it has seen what it will find.
Trail(t) ==
  \E S \in SUBSET Inner :
    /\ Root \in S /\ Closed(S) /\ th[t].nxt \in S \cup {Tail}
    /\ \A m \in S : Knows(t, m)

\* The places of an update that has yet to do something.
Ahead == {"lock", "cas", "check", "check2", "splice", "load", "mark", "shortcut", "retire"}
\* The place is known to be right.
Sure(t) ==
  \/ th[t].pc \in {"splice", "load", "mark", "shortcut"}
  \/ th[t].pc \in {"lock", "cas"} /\ th[t].held = 1

\* What a thread knows at each point of its call.
Local(t) ==
  LET l == th[t]  kind == op[t].kind  k == op[t].key IN
  /\ l.pc = "idle" => op[t] = NoCall /\ l = Idle
  /\ l.pc # "idle" => op[t] \in Requests
  /\ l.pc \notin {"idle", "start"} =>
       /\ l.cur \in Inner /\ l.nxt \in Outer /\ Below(l.cur, k) /\ Before(l.cur, l.nxt)
  /\ l.pc \notin {"idle", "start", "walk"} => StopsAt(l.nxt, k)
  /\ l.pc \in {"idle", "start", "walk", "validate", "validate2"} => l.held = 0
  /\ l.pc \in {"walk", "validate", "validate2"} =>
       (StopsAt(l.nxt, k) => AnswerAt(l.nxt, k) \in seen[t])
  /\ l.pc \in {"validate", "validate2"} =>
       kind = "find" \/ kind = IF Found(t) THEN "insert" ELSE "remove"
  /\ l.pc \in Ahead => kind = IF Found(t) THEN "remove" ELSE "insert"
  /\ l.pc \in {"lock", "cas"} => l.held \in {0, 1} /\ (l.held = 1 => kind = "remove")
  /\ l.pc \in {"check", "check2", "splice"} => l.held = 1
  /\ l.pc = "splice" => kind = "insert"
  /\ l.pc \in {"load", "mark", "shortcut", "retire"} => l.held = 2 /\ kind = "remove"
  /\ l.pc = "unlock" => kind \in {"insert", "remove"}
  /\ l.pc = "cas" => ~IsLocked(l.le)
  /\ l.pc = "check2" => ~removed[l.cur]
  /\ Sure(t) => ~removed[l.cur] /\ next[l.cur] = l.nxt
  /\ l.pc \in {"mark", "shortcut"} => l.nn = next[l.nxt]
  /\ l.pc = "shortcut" => removed[l.nxt]
  /\ l.pc = "retire" => l.nxt \in Used \ Reach /\ retired[l.nxt] = 0
  /\ l.res => l.pc = "unlock"
  /\ did[t] = IF l.pc = "retire" \/ l.res
                THEN IF kind = "insert" THEN "inserted" ELSE "removed"
                ELSE "nothing"

\* The threads know what they should, walk on nodes that answer rightly, and
\* have seen what the map has for their key now.
LocalInv == \A t \in Threads : Local(t)
TrailInv == \A t \in Threads : th[t].pc = "walk" => Trail(t)
SeenInv == \A t \in Threads : InCall(t) => Contents[op[t].key] \in seen[t]

\* The inductive invariant.
IInv ==
  /\ Types /\ SortInv /\ ReachInv /\ RemovedInv /\ RetiredInv /\ LockInv
  /\ LocalInv /\ TrailInv /\ SeenInv

-----------------------------------------------------------------------------
\* Closed and Reach for a given `next'.
ClosedIn(nx, S) == \A n \in S : nx[n] = Tail \/ nx[n] \in S
ReachIn(nx) == {n \in Nodes \cup {Root} : \A S \in SUBSET (Nodes \cup {Root}) :
                  Root \in S /\ ClosedIn(nx, S) => n \in S}
Succs == [All -> All]

\* What the assumptions say of root, tail, nodes and keys.
LEMMA NodesLemma ==
  /\ Root \notin Nodes /\ Tail \notin Nodes /\ Keys \subseteq Nat /\ None \notin Keys
  /\ All = Nodes \cup {Root, Tail} /\ Nodes \subseteq Nat /\ Keys \subseteq Nodes
BY NodesAssumption, NoneAssumption DEF Root, All

\* Reach is ReachIn of the present `next'; so too after a step.
LEMMA ReachLemma == Reach = ReachIn(next)
<1> DEFINE L == {{Root} \cup R : R \in SUBSET Nodes}
           C == {S \in L : Closed(S)}
<1>1. Reach = {n \in Nodes \cup {Root} : \A S \in C : n \in S}  BY Zenon DEF Reach
<1>2. \A S : S \in L <=> S \in SUBSET (Nodes \cup {Root}) /\ Root \in S
  <2> SUFFICES ASSUME NEW S  PROVE S \in L <=> S \in SUBSET (Nodes \cup {Root}) /\ Root \in S
    OBVIOUS
  <2>1. ASSUME S \in L  PROVE S \in SUBSET (Nodes \cup {Root}) /\ Root \in S  BY <2>1
  <2>2. ASSUME S \in SUBSET (Nodes \cup {Root}), Root \in S  PROVE S \in L
    <3>1. S = {Root} \cup (S \cap Nodes) /\ S \cap Nodes \in SUBSET Nodes  BY <2>2
    <3> QED  BY <3>1
  <2> QED  BY <2>1, <2>2
<1>3. \A S : Closed(S) <=> ClosedIn(next, S)  BY Zenon DEF Closed, ClosedIn
<1>4. \A S : S \in C <=> S \in SUBSET (Nodes \cup {Root}) /\ Root \in S /\ ClosedIn(next, S)
  BY <1>2, <1>3, Zenon
<1> HIDE DEF C
<1> QED  BY <1>1, <1>4 DEF ReachIn

\* The same in the next state.
LEMMA ReachPrimed == (Reach = ReachIn(next))'
BY ReachLemma, PTL

\* The same, with the prime moved in.
LEMMA ReachNext == Reach' = ReachIn(next')
BY ReachPrimed

\* The list is the same as long as `next' is.
LEMMA ReachSame ==
  ASSUME next' = next
  PROVE  Reach' = Reach
BY ReachLemma, ReachNext

\* The nodes that one can reach: root is one, and so is what follows one.
LEMMA InReach ==
  ASSUME NEW nx \in Succs
  PROVE  /\ Root \in ReachIn(nx) /\ ReachIn(nx) \subseteq Nodes \cup {Root}
         /\ ClosedIn(nx, ReachIn(nx))
<1>1. Root \in ReachIn(nx) /\ ReachIn(nx) \subseteq Nodes \cup {Root}  BY DEF ReachIn
<1>2. ASSUME NEW n \in ReachIn(nx), nx[n] # Tail  PROVE nx[n] \in ReachIn(nx)
  <2>1. nx[n] \in Nodes \cup {Root}  BY <1>1, <1>2, NodesLemma DEF Succs
  <2>2. ASSUME NEW S \in SUBSET (Nodes \cup {Root}), Root \in S, ClosedIn(nx, S)
        PROVE  nx[n] \in S
    <3>1. n \in S  BY <2>2 DEF ReachIn
    <3> QED  BY <1>2, <2>2, <3>1 DEF ClosedIn
  <2> QED  BY <2>1, <2>2 DEF ReachIn
<1> QED  BY <1>1, <1>2 DEF ClosedIn

\* Any closed set with the root in it has all of them.
LEMMA LeastReach ==
  ASSUME NEW nx, NEW S \in SUBSET (Nodes \cup {Root}), Root \in S, ClosedIn(nx, S)
  PROVE  ReachIn(nx) \subseteq S
BY DEF ReachIn

\* A node that is put behind one on the list is on the list with the others
\* (the store of insert).
LEMMA SpliceReach ==
  ASSUME NEW nx \in Succs, NEW cur \in ReachIn(nx), NEW n \in Nodes, n \notin ReachIn(nx),
         nx[n] = Tail, NEW ny \in Succs,
         \A m \in All : ny[m] = IF m = cur THEN n ELSE IF m = n THEN nx[cur] ELSE nx[m]
  PROVE  ReachIn(ny) = ReachIn(nx) \cup {n}
<1> DEFINE R == ReachIn(nx)
<1>0. Root \in R /\ R \subseteq Nodes \cup {Root} /\ ClosedIn(nx, R)  BY InReach
<1>1. cur \in All /\ n \in All /\ n # cur /\ n # Tail /\ R \subseteq All  BY <1>0, NodesLemma
<1>2. ReachIn(ny) \subseteq R \cup {n}
  <2>1. R \cup {n} \in SUBSET (Nodes \cup {Root}) /\ Root \in R \cup {n}  BY <1>0
  <2> HIDE DEF R
  <2>2. cur \in R  BY DEF R
  <2>3. ClosedIn(ny, R \cup {n})  BY <1>0, <1>1, <2>2 DEF ClosedIn
  <2> QED  BY <2>1, <2>3, LeastReach
<1>3. ASSUME NEW S \in SUBSET (Nodes \cup {Root}), Root \in S, ClosedIn(ny, S)
      PROVE  R \subseteq S /\ n \in S
  <2>0. S \subseteq All  BY NodesLemma
  <2>1. ASSUME NEW m \in S  PROVE nx[m] = Tail \/ nx[m] \in S
    <3>1. CASE m = cur
      <4>1. ny[cur] = n /\ ny[n] = nx[cur]  BY <1>1
      <4>2. n \in S  BY <1>1, <1>3, <3>1, <4>1 DEF ClosedIn
      <4> QED  BY <1>3, <3>1, <4>1, <4>2 DEF ClosedIn
    <3>2. CASE m = n  BY <3>2
    <3>3. CASE m # cur /\ m # n
      <4>1. ny[m] = nx[m]  BY <2>0, <3>3
      <4> QED  BY <1>3, <4>1 DEF ClosedIn
    <3> QED  BY <3>1, <3>2, <3>3
  <2>2. ClosedIn(nx, S)  BY <2>1 DEF ClosedIn
  <2>3. R \subseteq S  BY <1>3, <2>2, LeastReach
  <2>4. cur \in S /\ ny[cur] = n  BY <1>1, <2>3
  <2>5. n \in S  BY <1>1, <1>3, <2>4 DEF ClosedIn
  <2> QED  BY <2>3, <2>5
<1>4. R \cup {n} \subseteq ReachIn(ny)
  <2>1. R \cup {n} \subseteq Nodes \cup {Root}  BY <1>0
  <2> HIDE DEF R
  <2> QED  BY <1>3, <2>1 DEF ReachIn
<1> QED  BY <1>2, <1>4

\* The node behind cur is cut out of the list and nothing else is, when no
\* other node of the list is followed by it (the store of remove).
LEMMA CutReach ==
  ASSUME NEW nx \in Succs, NEW cur \in ReachIn(nx), NEW x \in Nodes, nx[cur] = x, x # cur,
         nx[x] # x, \A m \in ReachIn(nx) : nx[m] = x => m = cur, NEW ny \in Succs,
         \A m \in All : ny[m] = IF m = cur THEN nx[x] ELSE nx[m]
  PROVE  ReachIn(ny) = ReachIn(nx) \ {x}
<1> DEFINE R == ReachIn(nx)
<1>0. Root \in R /\ R \subseteq Nodes \cup {Root} /\ ClosedIn(nx, R)  BY InReach
<1>1. cur \in All /\ x \in All /\ x # Root /\ x # Tail /\ R \subseteq All  BY <1>0, NodesLemma
<1>2. x \in R /\ (nx[x] = Tail \/ nx[x] \in R)  BY <1>0, <1>1 DEF ClosedIn
<1>3. ReachIn(ny) \subseteq R \ {x}
  <2>1. R \ {x} \in SUBSET (Nodes \cup {Root}) /\ Root \in R \ {x}  BY <1>0, <1>1
  <2>2. ASSUME NEW m \in R \ {x}  PROVE ny[m] = Tail \/ ny[m] \in R \ {x}
    <3>1. CASE m = cur  BY <1>1, <1>2, <3>1
    <3>2. CASE m # cur
      <4>1. ny[m] = nx[m] /\ nx[m] # x  BY <1>1, <3>2
      <4> QED  BY <1>0, <4>1 DEF ClosedIn
    <3> QED  BY <3>1, <3>2
  <2> HIDE DEF R
  <2>3. ClosedIn(ny, R \ {x})  BY <2>2, Zenon DEF ClosedIn
  <2> QED  BY <2>1, <2>3, LeastReach
<1>4. ASSUME NEW S \in SUBSET (Nodes \cup {Root}), Root \in S, ClosedIn(ny, S)
      PROVE  R \ {x} \subseteq S
  <2>0. S \subseteq All  BY NodesLemma
  <2> DEFINE P == S \cup {x}
  <2>1. P \in SUBSET (Nodes \cup {Root}) /\ Root \in P /\ P \subseteq All  BY <1>1, <1>4, <2>0
  <2>2. ASSUME NEW m \in S, m # cur  PROVE nx[m] = Tail \/ nx[m] \in P
    <3>1. ny[m] = nx[m]  BY <2>0, <2>2
    <3> QED  BY <1>4, <3>1 DEF ClosedIn
  <2>5. CASE cur \in S
    <3>1. ny[cur] = nx[x]  BY <1>1
    <3>2. nx[x] = Tail \/ nx[x] \in S  BY <1>4, <2>5, <3>1 DEF ClosedIn
    <3>3. ClosedIn(nx, P)  BY <2>2, <3>2, <1>1 DEF ClosedIn
    <3>4. R \subseteq P  BY <2>1, <3>3, LeastReach
    <3> QED  BY <3>4
  <2>6. CASE cur \notin S
    <3>1. ASSUME NEW m \in S  PROVE nx[m] = Tail \/ nx[m] \in S
      <4>1. m # cur /\ ny[m] = nx[m]  BY <2>0, <2>6
      <4> QED  BY <1>4, <4>1 DEF ClosedIn
    <3>2. ClosedIn(nx, S)  BY <3>1 DEF ClosedIn
    <3> QED  BY <1>4, <3>2, LeastReach
  <2> QED  BY <2>5, <2>6
<1>5. R \ {x} \subseteq ReachIn(ny)
  <2>1. R \ {x} \subseteq Nodes \cup {Root}  BY <1>0
  <2> HIDE DEF R
  <2> QED  BY <1>4, <2>1 DEF ReachIn
<1> QED  BY <1>3, <1>5

-----------------------------------------------------------------------------
\* The list starts with root and goes on up to tail.
LEMMA ReachFacts ==
  Types => /\ Root \in Reach /\ Reach \subseteq Nodes \cup {Root}
           /\ \A n \in Reach : next[n] = Tail \/ next[n] \in Reach
<1> SUFFICES ASSUME Types
             PROVE  /\ Root \in Reach /\ Reach \subseteq Nodes \cup {Root}
                    /\ \A n \in Reach : next[n] = Tail \/ next[n] \in Reach
  OBVIOUS
<1>1. next \in Succs  BY DEF Types, Succs
<1> QED  BY <1>1, InReach, ReachLemma DEF ClosedIn

\* The same in the next state.
LEMMA ReachFactsNext ==
  (Types => /\ Root \in Reach /\ Reach \subseteq Nodes \cup {Root}
            /\ \A n \in Reach : next[n] = Tail \/ next[n] \in Reach)'
BY ReachFacts, PTL

\* The nodes that are made are neither root nor tail, and have a key.
LEMMA UsedFacts ==
  Types => /\ Used \subseteq Nodes /\ Root \notin Used /\ Tail \notin Used /\ Root # Tail
           /\ Inner \subseteq All /\ Outer \subseteq All
           /\ \A n \in Used : key[n] \in Keys /\ key[n] \in Nat
<1> SUFFICES ASSUME Types
             PROVE  /\ Used \subseteq Nodes /\ Root \notin Used /\ Tail \notin Used
                    /\ Inner \subseteq All /\ Outer \subseteq All /\ Root # Tail
                    /\ \A n \in Used : key[n] \in Keys /\ key[n] \in Nat
  OBVIOUS
<1>1. key \in [Nodes -> Keys \cup {None}]  BY DEF Types
<1>2. Used \subseteq Nodes  BY DEF Used
<1>3. Inner \subseteq All /\ Outer \subseteq All  BY <1>2, NodesLemma DEF Inner, Outer
<1>4. Root # Tail  BY NodesAssumption DEF Root
<1> QED  BY <1>1, <1>2, <1>3, <1>4, NodesLemma DEF Used

\* A node on the list gives its key its value.
LEMMA MapHit ==
  ASSUME Types, ReachInv, NEW n \in Reach, n # Root, NEW k \in Keys, key[n] = k
  PROVE  Contents[k] = value[n]
<1> DEFINE E == Reach \cap Nodes
<1>1. Root \notin Nodes /\ n \in E  BY ReachFacts, NodesLemma
<1>2. \A m \in E : key[m] = k => m = n  BY <1>1 DEF ReachInv
<1>3. (CHOOSE m \in E : key[m] = k) = n  BY <1>1, <1>2
<1>4. \E m \in E : key[m] = k  BY <1>1
<1> QED  BY <1>3, <1>4, Zenon DEF Contents

\* A key that no node on the list has, has no value.
LEMMA MapMiss ==
  ASSUME Types, NEW k \in Keys, \A n \in Reach \ {Root} : key[n] # k
  PROVE  Contents[k] = None
<1> DEFINE E == Reach \cap Nodes
<1>1. ~ \E m \in E : key[m] = k  BY NodesLemma
<1> QED  BY <1>1, Zenon DEF Contents

\* No node on the list has a key between those of two neighbours.
LEMMA GapMiss ==
  ASSUME Types, SortInv, ReachInv, NEW m \in Reach, NEW k \in Keys, Below(m, k),
         next[m] = Tail \/ key[next[m]] > k
  PROVE  \A n \in Reach \ {Root} : key[n] # k
<1>1. m \in Inner /\ next[m] \in Outer /\ next[m] # Root
  BY UsedFacts DEF ReachInv, SortInv, Outer
<1>2. ASSUME NEW n \in Reach \ {Root}, key[n] = k  PROVE FALSE
  <2>1. n \in Used /\ n # Tail /\ k \in Nat  BY UsedFacts, NodesLemma DEF ReachInv, Inner
  <2>2. Before(m, n)  BY <1>2 DEF Below, Before
  <2>3. next[m] # n  BY <1>2, <2>1
  <2>4. next[m] # Tail /\ Before(next[m], n)  BY <2>2, <2>3 DEF ReachInv
  <2>5. key[next[m]] < k /\ key[next[m]] > k  BY <1>1, <1>2, <2>1, <2>4 DEF Before
  <2>6. key[next[m]] \in Nat  BY <1>1, <2>4, UsedFacts DEF Outer
  <2> QED  BY <2>1, <2>5, <2>6
<1> QED  BY <1>2

\* Where a walk for k would stop on the list tells what the map has for k.
LEMMA Gap ==
  ASSUME Types, SortInv, ReachInv, NEW m \in Reach, NEW k \in Keys, Below(m, k),
         StopsAt(next[m], k)
  PROVE  Contents[k] = AnswerAt(next[m], k)
<1>1. m \in Inner /\ next[m] \in Outer /\ next[m] # Root
  BY UsedFacts DEF ReachInv, SortInv, Outer
<1>2. next[m] # Tail => next[m] \in Reach /\ next[m] \in Used
  BY <1>1, ReachFacts DEF Outer
<1>3. CASE next[m] # Tail /\ key[next[m]] = k
  BY <1>1, <1>2, <1>3, MapHit DEF AnswerAt
<1>4. CASE ~(next[m] # Tail /\ key[next[m]] = k)
  <2>1. next[m] = Tail \/ key[next[m]] > k
    <3>1. next[m] # Tail => key[next[m]] \in Nat /\ k \in Nat  BY <1>2, UsedFacts, NodesLemma
    <3> QED  BY <1>4, <3>1 DEF StopsAt
  <2>2. Contents[k] = None  BY <2>1, GapMiss, MapMiss
  <2> QED  BY <1>4, <2>2 DEF AnswerAt
<1> QED  BY <1>3, <1>4

\* The parts of a call.
LEMMA RequestFacts ==
  ASSUME NEW r \in Requests
  PROVE  r.key \in Keys /\ r.key \in Nat /\ r.val \in Values /\ r.kind # "none"
         /\ r.kind \in {"insert", "remove", "find"}
BY NodesLemma DEF Requests

\* The nodes on the list tell a call only what it has seen.
LEMMA KnowsOnList ==
  Types /\ SortInv /\ ReachInv /\ SeenInv =>
    \A t \in Threads : op[t] \in Requests => \A m \in Reach : Knows(t, m)
<1> SUFFICES ASSUME Types, SortInv, ReachInv, SeenInv, NEW t \in Threads, op[t] \in Requests,
                    NEW m \in Reach
             PROVE  Knows(t, m)
  OBVIOUS
<1>1. op[t].key \in Keys /\ InCall(t)  BY RequestFacts DEF InCall
<1>2. Contents[op[t].key] \in seen[t]  BY <1>1 DEF SeenInv
<1> QED  BY <1>1, <1>2, Gap DEF Knows

\* The same in the next state.
LEMMA KnowsOnListNext ==
  (Types /\ SortInv /\ ReachInv /\ SeenInv)' =>
    (\A t \in Threads : op[t] \in Requests => \A m \in Reach : Knows(t, m))'
BY KnowsOnList, PTL

\* UsedFacts in the next state.
LEMMA UsedFactsNext ==
  Types' => /\ Used' \subseteq Nodes /\ Root \notin Used' /\ Tail \notin Used'
            /\ Inner' \subseteq All /\ Outer' \subseteq All
            /\ \A n \in Used' : key'[n] \in Keys /\ key'[n] \in Nat
<1>1. (Types => /\ Used \subseteq Nodes /\ Root \notin Used /\ Tail \notin Used /\ Root # Tail
           /\ Inner \subseteq All /\ Outer \subseteq All
           /\ \A n \in Used : key[n] \in Keys /\ key[n] \in Nat)'
  BY UsedFacts, PTL
<1> QED  BY <1>1

\* The map is the same as long as the nodes are.
LEMMA ContentsSame ==
  ASSUME next' = next, key' = key, value' = value
  PROVE  Contents' = Contents
BY ReachSame DEF Contents

\* The map gives every key a value or None.
LEMMA ContentsTypes ==
  value \in [Nodes -> Values \cup {None}] => Contents \in [Keys -> Values \cup {None}]
<1> SUFFICES ASSUME value \in [Nodes -> Values \cup {None}]
             PROVE  Contents \in [Keys -> Values \cup {None}]
  OBVIOUS
<1> DEFINE E == Reach \cap Nodes
           C(k) == IF \E n \in E : key[n] = k THEN value[CHOOSE n \in E : key[n] = k] ELSE None
<1>1. Contents = [k \in Keys |-> C(k)]  BY Zenon DEF Contents
<1>2. ASSUME NEW k \in Keys  PROVE C(k) \in Values \cup {None}
  <2>1. CASE \E n \in E : key[n] = k
    <3>1. (CHOOSE n \in E : key[n] = k) \in E  BY <2>1
    <3>2. (CHOOSE n \in E : key[n] = k) \in Nodes  BY <3>1
    <3> QED  BY <2>1, <3>2
  <2> QED  BY <2>1
<1> HIDE DEF C
<1> QED  BY <1>1, <1>2

\* The same in the next state.
LEMMA ContentsTypesNext ==
  (value \in [Nodes -> Values \cup {None}])' =>
    (Contents \in [Keys -> Values \cup {None}])'
BY ContentsTypes, PTL

-----------------------------------------------------------------------------
\* The types of the locals.
LEMMA ThTypes ==
  ASSUME Types, NEW t \in Threads
  PROVE  /\ th[t] \in Locals /\ th[t].pc \in Pcs
         /\ th[t].cur \in All /\ th[t].nxt \in All /\ th[t].nn \in All
         /\ th[t].le \in LockWords /\ th[t].held \in 0 .. 2 /\ th[t].res \in BOOLEAN
<1>1. th[t] \in Locals  BY DEF Types
<1> QED  BY <1>1 DEF Locals

\* What a thread knows, when other threads leave its locks' nodes alone.
LEMMA Bystander ==
  ASSUME Types, NEW u \in Threads, Local(u),
         th'[u] = th[u], op'[u] = op[u], did'[u] = did[u], seen[u] \subseteq seen'[u],
         \A n \in Used : n \in Used' /\ key'[n] = key[n] /\ value'[n] = value[n],
         \A n \in All : removed[n] => removed'[n],
         \A n \in All : Holds(u, n) => (~removed[n] => ~removed'[n]) /\ next'[n] = next[n],
         \A n \in Used : n \notin Reach => n \notin Reach',
         th[u].pc = "retire" => retired'[th[u].nxt] = retired[th[u].nxt]
  PROVE  Local(u)'
<1> DEFINE l == th[u]  kind == op[u].kind  k == op[u].key
<1>1. l.cur \in All /\ l.nxt \in All /\ l.held \in 0 .. 2  BY ThTypes
<1>2. Root \notin Used /\ Tail \notin Used /\ Root # Tail  BY UsedFacts
<1>3. l.pc \notin {"idle", "start"} =>
        /\ l.cur \in Inner' /\ l.nxt \in Outer'
        /\ l.cur # Root => key'[l.cur] = key[l.cur]
        /\ l.nxt # Tail => key'[l.nxt] = key[l.nxt] /\ value'[l.nxt] = value[l.nxt]
  BY DEF Local, Inner, Outer
<1>4. l.pc \notin {"idle", "start"} => Below(l.cur, k)' /\ Before(l.cur, l.nxt)'
  BY <1>2, <1>3 DEF Local, Below, Before
<1>5. l.pc \notin {"idle", "start"} =>
        /\ StopsAt(l.nxt, k)' <=> StopsAt(l.nxt, k)
        /\ AnswerAt(l.nxt, k)' = AnswerAt(l.nxt, k)
        /\ Found(u)' <=> Found(u)
  BY <1>2, <1>3 DEF StopsAt, AnswerAt, Found
<1>6. Sure(u) => l.held >= 1 /\ l.pc \notin {"idle", "start"}
  BY <1>1 DEF Local, Sure, Pcs
<1>7. Sure(u)' => ~removed'[l.cur] /\ next'[l.cur] = l.nxt
  BY <1>1, <1>6 DEF Local, Sure, Holds
<1>8. l.pc \in {"mark", "shortcut"} => l.nn = next'[l.nxt]
  BY <1>1 DEF Local, Holds
<1>9. l.pc = "shortcut" => removed'[l.nxt]
  BY <1>1 DEF Local
<1>10. l.pc = "retire" => l.nxt \in Used' \ Reach' /\ retired'[l.nxt] = 0
  BY DEF Local
<1>11. l.pc = "check2" => ~removed'[l.cur]
  BY <1>1 DEF Local, Holds
<1>12. l.pc \in {"walk", "validate", "validate2"} =>
         (StopsAt(l.nxt, k)' => AnswerAt(l.nxt, k)' \in seen'[u])
  BY <1>5 DEF Local
<1>13. l.pc \notin {"idle", "start", "walk"} => StopsAt(l.nxt, k)'
  BY <1>5 DEF Local
<1>14. /\ l.pc \in {"validate", "validate2"} =>
            kind = "find" \/ kind = IF Found(u)' THEN "insert" ELSE "remove"
       /\ l.pc \in Ahead => kind = IF Found(u)' THEN "remove" ELSE "insert"
  BY <1>5 DEF Local, Ahead
<1> QED
  BY <1>3, <1>4, <1>7, <1>8, <1>9, <1>10, <1>11, <1>12, <1>13, <1>14 DEF Local

\* The same when the nodes do not change.
LEMMA BystanderQuiet ==
  ASSUME Types, NEW u \in Threads, Local(u),
         th'[u] = th[u], op'[u] = op[u], did'[u] = did[u], seen[u] \subseteq seen'[u],
         next' = next, key' = key, value' = value, removed' = removed, retired' = retired
  PROVE  Local(u)'
<1>1. Used' = Used /\ Reach' = Reach  BY ReachSame DEF Used
<1> QED  BY <1>1, Bystander

\* A walk stays on its trail while the nodes do not change.
LEMMA TrailQuiet ==
  ASSUME NEW u \in Threads, Trail(u), th'[u].nxt = th[u].nxt, op'[u] = op[u],
         seen[u] \subseteq seen'[u], next' = next, key' = key, value' = value
  PROVE  Trail(u)'
<1>1. Inner' = Inner  BY DEF Inner, Used
<1>2. PICK S \in SUBSET Inner : /\ Root \in S /\ Closed(S) /\ th[u].nxt \in S \cup {Tail}
                                /\ \A m \in S : Knows(u, m)
  BY DEF Trail
<1>3. Closed(S)'  BY <1>2 DEF Closed
<1>4. \A m \in S : Knows(u, m)'  BY <1>2 DEF Knows, Below, StopsAt, AnswerAt
<1> QED  BY <1>1, <1>2, <1>3, <1>4 DEF Trail

\* Two threads never hold the same lock.
LEMMA Exclusive ==
  ASSUME LockInv, NEW t \in Threads, NEW u \in Threads, NEW n \in All, Holds(t, n), Holds(u, n)
  PROVE  t = u
<1>1. lck[n].proc = t + 1 /\ lck[n].proc = u + 1  BY DEF LockInv, IsSelfLocked
<1> QED  BY <1>1, ThreadsAssumption

-----------------------------------------------------------------------------
\* A step on the locals of one thread, or on a lock, keeps what is said of the
\* nodes and of the other threads.
LEMMA Quiet ==
  ASSUME IInv, NEW t \in Threads, NEW x \in Locals, th' = [th EXCEPT ![t] = x],
         UNCHANGED <<next, key, value, removed, retired, hist>>, lck' \in [All -> LockWords],
         LockInv', Local(t)', x.pc = "walk" => Trail(t)'
  PROVE  IInv'
<1>1. /\ next' = next /\ key' = key /\ value' = value /\ removed' = removed
      /\ retired' = retired /\ calls' = calls /\ op' = op /\ seen' = seen /\ did' = did
      /\ ret' = ret
  BY DEF hist
<1>2. th'[t] = x /\ \A u \in Threads : u # t => th'[u] = th[u]  BY DEF IInv, Types
<1>3. Types'
  <2>1. th' \in [Threads -> Locals]  BY DEF IInv, Types
  <2> QED  BY <1>1, <2>1 DEF IInv, Types
<1>4. Reach' = Reach /\ Used' = Used /\ Inner' = Inner /\ Outer' = Outer
  BY <1>1, ReachSame DEF Used, Inner, Outer
<1>5. SortInv'  BY <1>1, <1>4 DEF IInv, SortInv, Before
<1>6. ReachInv'  BY <1>1, <1>4 DEF IInv, ReachInv, Before
<1>7. RemovedInv' /\ RetiredInv'  BY <1>1, <1>4 DEF IInv, RemovedInv, RetiredInv
<1>8. LocalInv'
  <2>1. ASSUME NEW u \in Threads, u # t  PROVE Local(u)'
    <3>1. Types /\ Local(u)  BY DEF IInv, LocalInv
    <3>2. th'[u] = th[u]  BY <1>2, <2>1
    <3> QED  BY <1>1, <3>1, <3>2, BystanderQuiet
  <2> QED  BY <2>1 DEF LocalInv
<1>9. TrailInv'
  <2>1. ASSUME NEW u \in Threads, u # t, th'[u].pc = "walk"  PROVE Trail(u)'
    <3>1. th'[u] = th[u]  BY <1>2, <2>1
    <3>2. Trail(u)  BY <2>1, <3>1 DEF IInv, TrailInv
    <3> QED  BY <1>1, <3>1, <3>2, TrailQuiet
  <2> QED  BY <1>2, <2>1 DEF TrailInv
<1>10. SeenInv'
  <2>1. Contents' = Contents  BY <1>1, ContentsSame
  <2> QED  BY <1>1, <2>1 DEF IInv, SeenInv, InCall
<1> QED  BY <1>3, <1>5, <1>6, <1>7, <1>8, <1>9, <1>10 DEF IInv

\* The same for a step that takes and gives back no lock.
LEMMA QuietUnlocked ==
  ASSUME IInv, NEW t \in Threads, NEW x \in Locals, th' = [th EXCEPT ![t] = x],
         UNCHANGED <<heap, hist>>, x.held = th[t].held,
         x.held # 0 => x.cur = th[t].cur /\ x.nxt = th[t].nxt,
         Local(t)', x.pc = "walk" => Trail(t)'
  PROVE  IInv'
<1>1. lck' = lck /\ UNCHANGED <<next, key, value, removed, retired, hist>>  BY DEF heap
<1>2. lck' \in [All -> LockWords]  BY <1>1 DEF IInv, Types
<1>3. th'[t] = x /\ \A u \in Threads : u # t => th'[u] = th[u]  BY DEF IInv, Types
<1>4. x.held \in 0 .. 2  BY DEF Locals
<1>5. ASSUME NEW u \in Threads, NEW n, Holds(u, n)'  PROVE Holds(u, n)
  <2>1. CASE u = t  BY <1>3, <1>4, <1>5, <2>1 DEF Holds
  <2>2. CASE u # t  BY <1>3, <1>5, <2>2 DEF Holds
  <2> QED  BY <2>1, <2>2
<1>6. LockInv'  BY <1>1, <1>5 DEF IInv, LockInv
<1> QED  BY <1>1, <1>2, <1>6, Quiet

\* A thread's part of the invariant.
LEMMA LocalOf ==
  ASSUME IInv, NEW t \in Threads
  PROVE  Local(t) /\ Types
BY DEF IInv, LocalInv

\* The same for a step that only reads.
LEMMA GotoKept ==
  ASSUME IInv, NEW t \in Threads, NEW pc \in Pcs, Goto(t, pc), pc # "walk", Local(t)'
  PROVE  IInv'
<1> DEFINE x == [th[t] EXCEPT !.pc = pc]
<1>1. th[t] \in Locals  BY ThTypes, LocalOf
<1>2. /\ x \in Locals /\ x.pc = pc /\ x.cur = th[t].cur /\ x.nxt = th[t].nxt
      /\ x.held = th[t].held
  BY <1>1 DEF Locals
<1>3. th' = [th EXCEPT ![t] = x] /\ UNCHANGED <<heap, hist>>  BY DEF Goto
<1> HIDE DEF x
<1> QED  BY <1>2, <1>3, QuietUnlocked

\* What such a step leaves as it is.
LEMMA GotoFacts ==
  ASSUME IInv, NEW t \in Threads, NEW pc \in Pcs, Goto(t, pc)
  PROVE  /\ th'[t].pc = pc /\ th'[t].cur = th[t].cur /\ th'[t].nxt = th[t].nxt
         /\ th'[t].nn = th[t].nn /\ th'[t].le = th[t].le /\ th'[t].held = th[t].held
         /\ th'[t].res = th[t].res
         /\ next' = next /\ key' = key /\ value' = value /\ removed' = removed
         /\ retired' = retired /\ op' = op /\ seen' = seen /\ did' = did
         /\ Used' = Used /\ Inner' = Inner /\ Outer' = Outer /\ Reach' = Reach
         /\ (Found(t)' <=> Found(t))
<1>1. th[t] \in Locals  BY ThTypes, LocalOf
<1>2. th' = [th EXCEPT ![t].pc = pc] /\ UNCHANGED <<heap, hist>>  BY DEF Goto
<1>3. th'[t] = [th[t] EXCEPT !.pc = pc]  BY <1>2 DEF IInv, Types
<1>4. /\ th'[t].pc = pc /\ th'[t].cur = th[t].cur /\ th'[t].nxt = th[t].nxt
      /\ th'[t].nn = th[t].nn /\ th'[t].le = th[t].le /\ th'[t].held = th[t].held
      /\ th'[t].res = th[t].res
  BY <1>1, <1>3 DEF Locals
<1>5. /\ next' = next /\ key' = key /\ value' = value /\ removed' = removed
      /\ retired' = retired /\ op' = op /\ seen' = seen /\ did' = did
  BY <1>2 DEF heap, hist
<1>6. Used' = Used /\ Inner' = Inner /\ Outer' = Outer /\ Reach' = Reach
  BY <1>5, ReachSame DEF Used, Inner, Outer
<1> QED  BY <1>4, <1>5, <1>6 DEF Found

-----------------------------------------------------------------------------
\* The locals of a thread that is in no call.
LEMMA IdleLemma ==
  /\ Idle \in Locals /\ Idle.pc = "idle" /\ Idle.cur = Root /\ Idle.nxt = Root
  /\ Idle.nn = Root /\ Idle.held = 0 /\ Idle.res = FALSE
<1>1. Root \in All  BY NodesLemma
<1>2. Unlocked \in LockWords  BY DEF Unlocked, LockWords
<1> QED  BY <1>1, <1>2 DEF Idle, Locals, Pcs

\* find_location starts at root: its trail is the list as it is now.
LEMMA StartKept ==
  ASSUME IInv, NEW t \in Threads, Start(t)
  PROVE  IInv'
<1> DEFINE x == [Idle EXCEPT !.pc = "walk", !.nxt = next[Root]]
<1>1. Types /\ SortInv /\ ReachInv /\ SeenInv  BY DEF IInv
<1>2. Local(t)  BY LocalOf
<1>3. /\ th[t].pc = "start" /\ th' = [th EXCEPT ![t] = x] /\ UNCHANGED <<heap, hist>>
  BY DEF Start
<1>4. /\ next' = next /\ key' = key /\ value' = value /\ op' = op /\ seen' = seen /\ did' = did
      /\ removed' = removed
  BY <1>3 DEF heap, hist
<1>5. Root \in All /\ next[Root] \in All /\ next[Root] \in Outer /\ Root \in Inner
  BY <1>1, NodesLemma DEF Types, SortInv, Inner
<1>6. /\ x \in Locals /\ x.pc = "walk" /\ x.cur = Root /\ x.nxt = next[Root] /\ x.held = 0
      /\ x.res = FALSE
  BY <1>5, IdleLemma DEF Locals, Pcs
<1> HIDE DEF x
<1>7. th'[t] = x  BY <1>1, <1>3 DEF Types
<1>8. op[t] \in Requests /\ did[t] = "nothing" /\ th[t].held = 0
  BY <1>2, <1>3 DEF Local
<1>9. \A m \in Reach : Knows(t, m)  BY <1>1, <1>8, KnowsOnList
<1>10. Root \in Reach /\ Closed(Reach) /\ Reach \subseteq Inner
  BY <1>1, ReachFacts DEF Closed, ReachInv
<1>11. Inner' = Inner /\ Outer' = Outer  BY <1>4 DEF Inner, Outer, Used
<1>12. Trail(t)'
  <2> DEFINE S == Reach
  <2>1. S \in SUBSET Inner /\ Root \in S /\ next[Root] \in S \cup {Tail}
    BY <1>1, <1>10, ReachFacts
  <2>2. \A n \in S : next[n] = Tail \/ next[n] \in S  BY <1>10 DEF Closed
  <2>3. \A m \in S : Knows(t, m)'  BY <1>4, <1>9 DEF Knows, Below, StopsAt, AnswerAt
  <2> HIDE DEF S
  <2>4. \E R \in SUBSET Inner' :
          /\ Root \in R /\ (\A n \in R : next'[n] = Tail \/ next'[n] \in R)
          /\ th'[t].nxt \in R \cup {Tail} /\ \A m \in R : Knows(t, m)'
    BY <1>4, <1>6, <1>7, <1>11, <2>1, <2>2, <2>3
  <2> QED  BY <2>4 DEF Trail, Closed
<1>13. StopsAt(next[Root], op[t].key) => AnswerAt(next[Root], op[t].key) \in seen[t]
  BY <1>9, <1>10 DEF Knows, Below
<1>14. Local(t)'
  BY <1>4, <1>5, <1>6, <1>7, <1>8, <1>11, <1>13
     DEF Local, Below, Before, StopsAt, AnswerAt, Sure, Ahead
<1> QED  BY <1>3, <1>6, <1>8, <1>12, <1>14, QuietUnlocked

\* find_location goes on to the next node, which is on its trail too.
LEMMA WalkKept ==
  ASSUME IInv, NEW t \in Threads, Walk(t)
  PROVE  IInv'
<1> DEFINE y == th[t].nxt
           x == [th[t] EXCEPT !.cur = y, !.nxt = next[y]]
<1>1. Types /\ SortInv /\ Trail(t)  BY DEF IInv, TrailInv, Walk
<1>2. Local(t)  BY LocalOf
<1>3. /\ th[t].pc = "walk" /\ ~Stops(t) /\ th' = [th EXCEPT ![t] = x]
      /\ UNCHANGED <<heap, hist>>
  BY DEF Walk
<1>4. /\ next' = next /\ key' = key /\ value' = value /\ op' = op /\ seen' = seen /\ did' = did
      /\ removed' = removed
  BY <1>3 DEF heap, hist
<1>5. op[t] \in Requests /\ did[t] = "nothing" /\ th[t].held = 0 /\ ~th[t].res /\ y \in Outer
  BY <1>2, <1>3 DEF Local
<1>6. y # Tail /\ y \in Used /\ key[y] < op[t].key
  <2>1. y # Tail /\ ~(key[y] >= op[t].key)  BY <1>3 DEF Stops
  <2>2. y \in Used  BY <1>5, <2>1 DEF Outer
  <2>3. key[y] \in Nat /\ op[t].key \in Nat  BY <1>1, <1>5, <2>2, UsedFacts, RequestFacts
  <2> QED  BY <2>1, <2>2, <2>3
<1>7. next[y] \in Outer /\ Before(y, next[y]) /\ y \in Inner /\ y \in All /\ next[y] \in All
  BY <1>1, <1>6, UsedFacts DEF SortInv, Inner, Outer
<1>8. th[t] \in Locals  BY <1>1, ThTypes
<1>9. /\ x \in Locals /\ x.pc = "walk" /\ x.cur = y /\ x.nxt = next[y] /\ x.held = 0
      /\ x.res = FALSE
  BY <1>3, <1>5, <1>7, <1>8 DEF Locals
<1> HIDE DEF x
<1>10. th'[t] = x  BY <1>1, <1>3 DEF Types
<1>11. Inner' = Inner /\ Outer' = Outer  BY <1>4 DEF Inner, Outer, Used
<1>12. PICK S \in SUBSET Inner : /\ Root \in S /\ Closed(S) /\ y \in S \cup {Tail}
                                 /\ \A m \in S : Knows(t, m)
  BY <1>1 DEF Trail
<1>13. y \in S /\ (next[y] = Tail \/ next[y] \in S) /\ Knows(t, y)  BY <1>6, <1>12 DEF Closed
<1>14. Trail(t)'
  <2>1. Closed(S)'  BY <1>4, <1>12 DEF Closed
  <2>2. \A m \in S : Knows(t, m)'  BY <1>4, <1>12 DEF Knows, Below, StopsAt, AnswerAt
  <2>3. th'[t].nxt \in S \cup {Tail}  BY <1>9, <1>10, <1>13
  <2> QED  BY <1>11, <1>12, <2>1, <2>2, <2>3 DEF Trail
<1>15. StopsAt(next[y], op[t].key) => AnswerAt(next[y], op[t].key) \in seen[t]
  BY <1>6, <1>13 DEF Knows, Below
<1> HIDE DEF y
<1>16. Local(t)'
  BY <1>4, <1>5, <1>6, <1>7, <1>9, <1>10, <1>11, <1>15
     DEF Local, Below, Before, StopsAt, AnswerAt, Sure, Ahead
<1> QED  BY <1>3, <1>5, <1>9, <1>14, <1>16, QuietUnlocked

\* A call starts over (try_loop).
LEMMA AgainKept ==
  ASSUME IInv, NEW t \in Threads, th[t].pc # "idle", th[t].pc # "retire", th[t].held = 0,
         ~th[t].res, Goto(t, "start")
  PROVE  IInv'
<1>1. Local(t) /\ "start" \in Pcs  BY LocalOf DEF Pcs
<1>2. Local(t)'  BY <1>1, GotoFacts DEF Local, Sure, Ahead
<1> QED  BY <1>1, <1>2, GotoKept

\* A call that has nothing to change goes to check the place it found.
LEMMA ToValidateKept ==
  ASSUME IInv, NEW t \in Threads, th[t].pc = "walk", Stops(t),
         op[t].kind = "find" \/ op[t].kind = IF Found(t) THEN "insert" ELSE "remove",
         Goto(t, "validate")
  PROVE  IInv'
<1>1. Local(t) /\ "validate" \in Pcs  BY LocalOf DEF Pcs
<1>2. Local(t)'
  BY <1>1, GotoFacts DEF Local, Sure, Ahead, Stops, Below, Before, StopsAt, AnswerAt
<1> QED  BY <1>1, <1>2, GotoKept

\* A call that has something to change goes to lock the place it found.
LEMMA ToLockKept ==
  ASSUME IInv, NEW t \in Threads, th[t].pc = "walk", Stops(t),
         op[t].kind = IF Found(t) THEN "remove" ELSE "insert", Goto(t, "lock")
  PROVE  IInv'
<1>1. Local(t) /\ "lock" \in Pcs  BY LocalOf DEF Pcs
<1>2. Local(t)'
  BY <1>1, GotoFacts DEF Local, Sure, Ahead, Stops, Below, Before, StopsAt, AnswerAt
<1> QED  BY <1>1, <1>2, GotoKept

\* The first load of read_lock's check keeps the invariant.
LEMMA ValidateNextKept ==
  ASSUME IInv, NEW t \in Threads, ValidateNext(t)
  PROVE  IInv'
<1>1. Local(t) /\ "validate2" \in Pcs  BY LocalOf DEF Pcs
<1>2. th[t].pc = "validate" /\ (Goto(t, "validate2") \/ Goto(t, "start"))  BY DEF ValidateNext
<1>3. th[t].held = 0 /\ ~th[t].res  BY <1>1, <1>2 DEF Local
<1>4. CASE Goto(t, "start")  BY <1>2, <1>3, <1>4, AgainKept
<1>5. CASE Goto(t, "validate2")
  <2>1. Local(t)'
    BY <1>1, <1>2, <1>5, GotoFacts DEF Local, Sure, Ahead, Below, Before, StopsAt, AnswerAt
  <2> QED  BY <1>1, <1>5, <2>1, GotoKept
<1> QED  BY <1>2, <1>4, <1>5

\* A thread that gives up in a section, or before one.
LEMMA ToUnlockKept ==
  ASSUME IInv, NEW t \in Threads, th[t].pc \in {"lock", "cas", "check", "check2"},
         Goto(t, "unlock")
  PROVE  IInv'
<1>1. Local(t) /\ "unlock" \in Pcs  BY LocalOf DEF Pcs
<1>2. op[t].kind \in {"insert", "remove"}  BY <1>1 DEF Local, Ahead
<1>3. Local(t)'
  BY <1>1, <1>2, GotoFacts DEF Local, Sure, Ahead, Below, Before, StopsAt, AnswerAt
<1> QED  BY <1>1, <1>3, GotoKept

\* A try_lock that fails keeps the invariant.
LEMMA NotLockedKept ==
  ASSUME IInv, NEW t \in Threads, th[t].pc \in {"lock", "cas"}, NotLocked(t)
  PROVE  IInv'
<1>1. Local(t)  BY LocalOf
<1>2. ~th[t].res  BY <1>1 DEF Local
<1>3. CASE th[t].held = 0 /\ Goto(t, "start")  BY <1>2, <1>3, AgainKept
<1>4. CASE Goto(t, "unlock")  BY <1>4, ToUnlockKept
<1> QED  BY <1>3, <1>4 DEF NotLocked

\* The load of try_lock keeps the invariant.
LEMMA LockLoadKept ==
  ASSUME IInv, NEW t \in Threads, LockLoad(t)
  PROVE  IInv'
<1> DEFINE le == lck[Target(t)]
           x == [th[t] EXCEPT !.pc = "cas", !.le = le]
<1>1. Local(t) /\ Types  BY LocalOf
<1>2. th[t].pc = "lock"  BY DEF LockLoad
<1>3. CASE NotLocked(t)  BY <1>2, <1>3, NotLockedKept
<1>4. CASE ~IsLocked(le) /\ th' = [th EXCEPT ![t] = x] /\ UNCHANGED <<heap, hist>>
  <2>1. th[t] \in Locals /\ Target(t) \in All  BY <1>1, ThTypes DEF Target
  <2>2. le \in LockWords  BY <1>1, <2>1 DEF Types
  <2> HIDE DEF le
  <2>3. /\ x \in Locals /\ x.pc = "cas" /\ x.cur = th[t].cur /\ x.nxt = th[t].nxt
        /\ x.held = th[t].held /\ x.res = th[t].res /\ x.le = le
    BY <2>1, <2>2 DEF Locals, Pcs
  <2> HIDE DEF x
  <2>4. th'[t] = x  BY <1>1, <1>4 DEF Types
  <2>5. /\ next' = next /\ key' = key /\ value' = value /\ removed' = removed
        /\ retired' = retired /\ op' = op /\ seen' = seen /\ did' = did
    BY <1>4 DEF heap, hist
  <2>6. Used' = Used /\ Inner' = Inner /\ Outer' = Outer  BY <2>5 DEF Used, Inner, Outer
  <2>7. Local(t)'
    BY <1>1, <1>2, <1>4, <2>3, <2>4, <2>5, <2>6
       DEF Local, Sure, Ahead, Below, Before, StopsAt, AnswerAt, Found
  <2> QED  BY <1>4, <2>3, <2>7, QuietUnlocked
<1> QED
  <2>1. \/ NotLocked(t)
        \/ ~IsLocked(le) /\ th' = [th EXCEPT ![t].pc = "cas", ![t].le = le]
           /\ UNCHANGED <<heap, hist>>
    BY DEF LockLoad
  <2> QED  BY <1>3, <1>4, <2>1

-----------------------------------------------------------------------------
\* The lock word.
LEMMA TakeLemma ==
  ASSUME NEW le \in LockWords, le.count < CountMod, ~IsLocked(le), NEW t \in Threads
  PROVE  /\ TakeLock(le, t) \in LockWords /\ TakeLock(le, t).count < CountMod
         /\ IsLocked(TakeLock(le, t)) /\ IsSelfLocked(TakeLock(le, t), t)
<1> DEFINE c == le.count
<1>1. c \in Nat /\ c < CountMod /\ c % 2 = 0 /\ t \in Nat
  BY ThreadsAssumption DEF LockWords, IsLocked
<1>2. CountMod \in Nat /\ CountMod % 2 = 0 /\ CountMod > 0  BY CountModAssumption
<1> HIDE DEF c
<1>3. c + 1 < CountMod /\ (c + 1) % 2 = 1  BY <1>1, <1>2
<1>4. (c + 1) % CountMod = c + 1  BY <1>1, <1>2, <1>3
<1>5. TakeLock(le, t) = [count |-> c + 1, proc |-> t + 1]  BY <1>4 DEF TakeLock, c
<1> QED  BY <1>1, <1>3, <1>5 DEF LockWords, IsLocked, IsSelfLocked

\* A release leaves a lock word.
LEMMA ReleaseLemma ==
  ASSUME NEW le \in LockWords, le.count < CountMod, NEW t
  PROVE  Released(le, t) \in LockWords /\ Released(le, t).count < CountMod
<1>1. le.count \in Nat /\ CountMod \in Nat /\ CountMod > 0
  BY CountModAssumption DEF LockWords
<1>2. (le.count + 1) % CountMod \in Nat /\ (le.count + 1) % CountMod < CountMod  BY <1>1
<1>3. (le.count + 1) \div CountMod \in Nat  BY <1>1
<1> QED  BY <1>2, <1>3 DEF Released, ReleaseLock, LockWords

\* A lock that t takes is then held by t alone.
LEMMA TakenLock ==
  ASSUME IInv, NEW t \in Threads, NEW n \in All, ~IsLocked(lck[n]),
         lck' = [lck EXCEPT ![n] = TakeLock(lck[n], t)],
         \A u \in Threads : u # t => th'[u] = th[u],
         \A m \in All : Holds(t, m)' => m = n \/ Holds(t, m)
  PROVE  lck' \in [All -> LockWords] /\ LockInv'
<1>1. lck \in [All -> LockWords] /\ LockInv  BY DEF IInv, Types
<1> DEFINE w == TakeLock(lck[n], t)
<1>2. w \in LockWords /\ w.count < CountMod /\ IsLocked(w) /\ IsSelfLocked(w, t)
  <2>1. lck[n] \in LockWords /\ lck[n].count < CountMod  BY <1>1 DEF LockInv
  <2> QED  BY <2>1, TakeLemma
<1> HIDE DEF w
<1>3. lck' = [lck EXCEPT ![n] = w]  BY DEF w
<1>4. lck' \in [All -> LockWords]  BY <1>1, <1>2, <1>3
<1>5. \A m \in All : lck'[m].count < CountMod  BY <1>1, <1>2, <1>3 DEF LockInv
<1>6. ASSUME NEW u \in Threads, NEW m \in All, Holds(u, m)'
      PROVE  IsLocked(lck'[m]) /\ IsSelfLocked(lck'[m], u)
  <2>1. CASE u = t /\ m = n
    <3>1. lck'[m] = w  BY <1>1, <1>3, <2>1
    <3> QED  BY <1>2, <2>1, <3>1
  <2>2. CASE ~(u = t /\ m = n)
    <3>1. Holds(u, m)
      <4>1. CASE u = t  BY <1>6, <2>2, <4>1
      <4>2. CASE u # t  BY <1>6, <4>2 DEF Holds
      <4> QED  BY <4>1, <4>2
    <3>2. IsLocked(lck[m]) /\ IsSelfLocked(lck[m], u)  BY <1>1, <3>1 DEF LockInv
    <3>3. m # n  BY <3>2
    <3>4. lck'[m] = lck[m]  BY <1>1, <1>3, <3>3
    <3> QED  BY <3>2, <3>4
  <2> QED  BY <2>1, <2>2
<1> QED  BY <1>4, <1>5, <1>6 DEF LockInv

\* A lock that t releases was held by t alone.
LEMMA ReleasedLock ==
  ASSUME IInv, NEW t \in Threads, NEW n \in All, Holds(t, n),
         lck' = [lck EXCEPT ![n] = Released(lck[n], t)],
         \A u \in Threads : u # t => th'[u] = th[u],
         \A m \in All : Holds(t, m)' => m # n /\ Holds(t, m)
  PROVE  lck' \in [All -> LockWords] /\ LockInv'
<1>1. lck \in [All -> LockWords] /\ LockInv  BY DEF IInv, Types
<1> DEFINE w == Released(lck[n], t)
<1>2. w \in LockWords /\ w.count < CountMod
  <2>1. lck[n] \in LockWords /\ lck[n].count < CountMod  BY <1>1 DEF LockInv
  <2> QED  BY <2>1, ReleaseLemma
<1> HIDE DEF w
<1>3. lck' = [lck EXCEPT ![n] = w]  BY DEF w
<1>4. lck' \in [All -> LockWords]  BY <1>1, <1>2, <1>3
<1>5. \A m \in All : lck'[m].count < CountMod  BY <1>1, <1>2, <1>3 DEF LockInv
<1>6. ASSUME NEW u \in Threads, NEW m \in All, Holds(u, m)'
      PROVE  IsLocked(lck'[m]) /\ IsSelfLocked(lck'[m], u)
  <2>1. Holds(u, m) /\ m # n
    <3>1. CASE u = t  BY <1>6, <3>1
    <3>2. CASE u # t
      <4>1. Holds(u, m)  BY <1>6, <3>2 DEF Holds
      <4> QED  BY <1>1, <3>2, <4>1, Exclusive
    <3> QED  BY <3>1, <3>2
  <2>2. lck'[m] = lck[m]  BY <1>1, <1>3, <2>1
  <2> QED  BY <1>1, <2>1, <2>2 DEF LockInv
<1> QED  BY <1>4, <1>5, <1>6 DEF LockInv

\* The compare-and-swap of try_lock keeps the invariant.
LEMMA LockCasKept ==
  ASSUME IInv, NEW t \in Threads, LockCas(t)
  PROVE  IInv'
<1> DEFINE n == Target(t)
           pc == IF th[t].held = 0 THEN "check" ELSE "load"
           h == th[t].held + 1
           x == [th[t] EXCEPT !.held = h, !.pc = pc]
<1>1. Local(t) /\ Types  BY LocalOf
<1>2. th[t].pc = "cas"  BY DEF LockCas
<1>3. CASE lck[n] # th[t].le
  <2>1. NotLocked(t)  BY <1>3 DEF LockCas
  <2> QED  BY <1>2, <2>1, NotLockedKept
<1>4. CASE lck[n] = th[t].le
  <2>1. /\ lck' = [lck EXCEPT ![n] = TakeLock(lck[n], t)] /\ th' = [th EXCEPT ![t] = x]
        /\ UNCHANGED <<next, key, value, removed, retired, hist>>
    <3>1. /\ lck' = [lck EXCEPT ![n] = TakeLock(@, t)]
          /\ th' = [th EXCEPT ![t].held = @ + 1, ![t].pc = pc]
          /\ UNCHANGED <<next, key, value, removed, retired, hist>>
      BY <1>4 DEF LockCas
    <3> QED  BY <3>1
  <2>2. th[t].held \in {0, 1} /\ (th[t].held = 1 => op[t].kind = "remove") /\ ~th[t].res
    BY <1>1, <1>2 DEF Local
  <2>3. ~IsLocked(lck[n])  BY <1>1, <1>2, <1>4 DEF Local
  <2>4. th[t] \in Locals /\ n \in All  BY <1>1, ThTypes DEF Target
  <2>5. pc \in {"check", "load"} /\ h \in 1 .. 2 /\ (pc = "check" <=> h = 1)  BY <2>2
  <2>6. h = 1 => n = th[t].cur  BY <2>2 DEF Target
  <2>7. h = 2 => n = th[t].nxt /\ th[t].held = 1  BY <2>2 DEF Target
  <2> HIDE DEF n, pc, h
  <2>8. /\ x \in Locals /\ x.pc = pc /\ x.cur = th[t].cur /\ x.nxt = th[t].nxt
        /\ x.held = h /\ x.res = th[t].res
    <3>1. h \in 0 .. 2  BY <2>5
    <3>2. pc \in Pcs  BY <2>5 DEF Pcs
    <3> QED  BY <2>4, <3>1, <3>2 DEF Locals
  <2> HIDE DEF x
  <2>9. th'[t] = x /\ \A u \in Threads : u # t => th'[u] = th[u]  BY <1>1, <2>1 DEF Types
  <2>10. \A m \in All : Holds(t, m)' => m = n \/ Holds(t, m)
    BY <2>5, <2>6, <2>7, <2>8, <2>9 DEF Holds
  <2>11. lck' \in [All -> LockWords] /\ LockInv'  BY <2>1, <2>3, <2>4, <2>9, <2>10, TakenLock
  <2>12. /\ next' = next /\ key' = key /\ value' = value /\ removed' = removed
         /\ retired' = retired /\ op' = op /\ seen' = seen /\ did' = did
    BY <2>1 DEF hist
  <2>13. Used' = Used /\ Inner' = Inner /\ Outer' = Outer  BY <2>12 DEF Used, Inner, Outer
  <2>14. Local(t)'
    BY <1>1, <1>2, <2>2, <2>5, <2>7, <2>8, <2>9, <2>12, <2>13
       DEF Local, Sure, Ahead, Below, Before, StopsAt, AnswerAt, Found
  <2> QED  BY <2>1, <2>5, <2>8, <2>11, <2>14, Quiet
<1> QED  BY <1>3, <1>4

\* The end of a section keeps the invariant.
LEMMA UnlockKept ==
  ASSUME IInv, NEW t \in Threads, Unlock(t)
  PROVE  IInv'
<1> DEFINE n == IF th[t].held = 1 THEN th[t].cur ELSE th[t].nxt
           h == th[t].held - 1
           x == [th[t] EXCEPT !.held = h]
<1>1. Local(t) /\ Types  BY LocalOf
<1>2. /\ th[t].pc = "unlock" /\ th[t].held > 0
      /\ lck' = [lck EXCEPT ![n] = Released(lck[n], t)] /\ th' = [th EXCEPT ![t] = x]
      /\ UNCHANGED <<next, key, value, removed, retired, hist>>
  <2>1. /\ th[t].pc = "unlock" /\ th[t].held > 0
        /\ lck' = [lck EXCEPT ![n] = Released(@, t)] /\ th' = [th EXCEPT ![t].held = @ - 1]
        /\ UNCHANGED <<next, key, value, removed, retired, hist>>
    BY DEF Unlock
  <2> QED  BY <2>1
<1>3. th[t] \in Locals /\ n \in All /\ th[t].held \in 0 .. 2  BY <1>1, ThTypes
<1>4. h \in {0, 1} /\ (h = 1 <=> th[t].held = 2) /\ (h = 0 <=> th[t].held = 1)
  BY <1>2, <1>3
<1>5. th[t].cur # th[t].nxt
  <2>1. th[t].cur \in Inner /\ th[t].nxt \in Outer /\ Before(th[t].cur, th[t].nxt)
    BY <1>1, <1>2 DEF Local
  <2> QED  BY <1>1, <2>1, UsedFacts DEF Before, Inner, Outer
<1>6. Holds(t, n)  BY <1>4 DEF Holds
<1>7. (h = 1 => n = th[t].nxt) /\ (h = 0 => n = th[t].cur)  BY <1>4
<1> HIDE DEF n, h
<1>8. /\ x \in Locals /\ x.pc = "unlock" /\ x.cur = th[t].cur /\ x.nxt = th[t].nxt
      /\ x.held = h /\ x.res = th[t].res
  BY <1>2, <1>3, <1>4 DEF Locals
<1> HIDE DEF x
<1>9. th'[t] = x /\ \A u \in Threads : u # t => th'[u] = th[u]  BY <1>1, <1>2 DEF Types
<1>10. \A m \in All : Holds(t, m)' => m # n /\ Holds(t, m)
  BY <1>4, <1>5, <1>7, <1>8, <1>9 DEF Holds
<1>11. lck' \in [All -> LockWords] /\ LockInv'
  BY <1>2, <1>3, <1>6, <1>9, <1>10, ReleasedLock
<1>12. /\ next' = next /\ key' = key /\ value' = value /\ removed' = removed
       /\ retired' = retired /\ op' = op /\ seen' = seen /\ did' = did
  BY <1>2 DEF hist
<1>13. Used' = Used /\ Inner' = Inner /\ Outer' = Outer  BY <1>12 DEF Used, Inner, Outer
<1>14. Local(t)'
  BY <1>1, <1>2, <1>8, <1>9, <1>12, <1>13
     DEF Local, Sure, Ahead, Below, Before, StopsAt, AnswerAt, Found
<1> QED  BY <1>2, <1>8, <1>11, <1>14, Quiet

-----------------------------------------------------------------------------
\* The section.
LEMMA CheckRemovedKept ==
  ASSUME IInv, NEW t \in Threads, CheckRemoved(t)
  PROVE  IInv'
<1>1. Local(t) /\ "check2" \in Pcs  BY LocalOf DEF Pcs
<1>2. th[t].pc = "check"  BY DEF CheckRemoved
<1>3. CASE removed[th[t].cur]
  <2>1. Goto(t, "unlock")  BY <1>3 DEF CheckRemoved
  <2> QED  BY <1>2, <2>1, ToUnlockKept
<1>4. CASE ~removed[th[t].cur]
  <2>1. Goto(t, "check2")  BY <1>4 DEF CheckRemoved
  <2>2. Local(t)'
    BY <1>1, <1>2, <1>4, <2>1, GotoFacts
       DEF Local, Sure, Ahead, Below, Before, StopsAt, AnswerAt
  <2> QED  BY <1>1, <2>1, <2>2, GotoKept
<1> QED  BY <1>3, <1>4

\* A section that finds nxt still behind cur may rely on it from there on.
LEMMA CheckNextKept ==
  ASSUME IInv, NEW t \in Threads, CheckNext(t)
  PROVE  IInv'
<1>1. Local(t) /\ "splice" \in Pcs /\ "lock" \in Pcs  BY LocalOf DEF Pcs
<1>2. th[t].pc = "check2"  BY DEF CheckNext
<1>3. CASE next[th[t].cur] # th[t].nxt
  <2>1. Goto(t, "unlock")  BY <1>3 DEF CheckNext
  <2> QED  BY <1>2, <2>1, ToUnlockKept
<1>4. CASE next[th[t].cur] = th[t].nxt
  <2>0. op[t].kind \in {"insert", "remove"}  BY <1>1, <1>2 DEF Local, Ahead
  <2>1. CASE op[t].kind = "insert"
    <3>1. Goto(t, "splice")  BY <1>4, <2>1 DEF CheckNext
    <3>2. Local(t)'
      BY <1>1, <1>2, <1>4, <2>1, <3>1, GotoFacts
         DEF Local, Sure, Ahead, Below, Before, StopsAt, AnswerAt
    <3> QED  BY <1>1, <3>1, <3>2, GotoKept
  <2>2. CASE op[t].kind = "remove"
    <3>1. Goto(t, "lock")  BY <1>4, <2>2 DEF CheckNext
    <3>2. Local(t)'
      BY <1>1, <1>2, <1>4, <2>2, <3>1, GotoFacts
         DEF Local, Sure, Ahead, Below, Before, StopsAt, AnswerAt
    <3> QED  BY <1>1, <3>1, <3>2, GotoKept
  <2> QED  BY <2>0, <2>1, <2>2
<1> QED  BY <1>3, <1>4

\* remove loads what follows the node it has locked.
LEMMA LoadNextKept ==
  ASSUME IInv, NEW t \in Threads, LoadNext(t)
  PROVE  IInv'
<1> DEFINE n == next[th[t].nxt]
           x == [th[t] EXCEPT !.pc = "mark", !.nn = n]
<1>1. Local(t) /\ Types  BY LocalOf
<1>2. th[t].pc = "load" /\ th' = [th EXCEPT ![t] = x] /\ UNCHANGED <<heap, hist>>
  BY DEF LoadNext
<1>3. th[t] \in Locals /\ n \in All  BY <1>1, ThTypes DEF Types
<1>4. n = next[th[t].nxt]  OBVIOUS
<1> HIDE DEF n
<1>5. /\ x \in Locals /\ x.pc = "mark" /\ x.cur = th[t].cur /\ x.nxt = th[t].nxt /\ x.nn = n
      /\ x.held = th[t].held /\ x.res = th[t].res
  BY <1>3 DEF Locals, Pcs
<1> HIDE DEF x
<1>6. th'[t] = x  BY <1>1, <1>2 DEF Types
<1>7. /\ next' = next /\ key' = key /\ value' = value /\ removed' = removed
      /\ retired' = retired /\ op' = op /\ seen' = seen /\ did' = did
  BY <1>2 DEF heap, hist
<1>8. Used' = Used /\ Inner' = Inner /\ Outer' = Outer  BY <1>7 DEF Used, Inner, Outer
<1>9. Local(t)'
  BY <1>1, <1>2, <1>4, <1>5, <1>6, <1>7, <1>8
     DEF Local, Sure, Ahead, Below, Before, StopsAt, AnswerAt, Found
<1> QED  BY <1>2, <1>5, <1>9, QuietUnlocked


-----------------------------------------------------------------------------
\* A call returns.
LEMMA ReturnFacts ==
  ASSUME IInv, NEW t \in Threads, NEW ok \in BOOLEAN, NEW val \in Values \cup {None},
         Return(t, ok, val)
  PROVE  /\ next' = next /\ key' = key /\ value' = value /\ removed' = removed /\ lck' = lck
         /\ retired' = retired /\ calls' = calls
         /\ th' = [th EXCEPT ![t] = Idle]
         /\ op' = [op EXCEPT ![t] = NoCall] /\ seen' = [seen EXCEPT ![t] = {}]
         /\ did' = [did EXCEPT ![t] = "nothing"]
         /\ ret' = [ret EXCEPT ![t] = [ok |-> ok, val |-> val]]
BY DEF Return, Ends, heap

\* A return keeps the invariant.
LEMMA ReturnKept ==
  ASSUME IInv, NEW t \in Threads, NEW ok \in BOOLEAN, NEW val \in Values \cup {None},
         Return(t, ok, val), th[t].held = 0
  PROVE  IInv'
<1>1. /\ next' = next /\ key' = key /\ value' = value /\ removed' = removed /\ lck' = lck
      /\ retired' = retired /\ calls' = calls
      /\ th' = [th EXCEPT ![t] = Idle]
      /\ op' = [op EXCEPT ![t] = NoCall] /\ seen' = [seen EXCEPT ![t] = {}]
      /\ did' = [did EXCEPT ![t] = "nothing"]
      /\ ret' = [ret EXCEPT ![t] = [ok |-> ok, val |-> val]]
  BY ReturnFacts
<1>2. Types  BY DEF IInv
<1>3. /\ th'[t] = Idle /\ op'[t] = NoCall /\ did'[t] = "nothing"
      /\ \A u \in Threads : u # t =>
           th'[u] = th[u] /\ op'[u] = op[u] /\ did'[u] = did[u] /\ seen'[u] = seen[u]
  BY <1>1, <1>2 DEF Types
<1>4. Types'
  <2>1. th' \in [Threads -> Locals]  BY <1>1, <1>2, IdleLemma DEF Types
  <2>2. op' \in [Threads -> Requests \cup {NoCall}]  BY <1>1, <1>2 DEF Types
  <2>3. seen' \in [Threads -> SUBSET (Values \cup {None})]  BY <1>1, <1>2 DEF Types
  <2>4. did' \in [Threads -> Deeds]  BY <1>1, <1>2 DEF Types, Deeds
  <2>5. ret' \in [Threads -> [ok : BOOLEAN, val : Values \cup {None}]]
    BY <1>1, <1>2 DEF Types
  <2> QED  BY <1>1, <1>2, <2>1, <2>2, <2>3, <2>4, <2>5 DEF Types
<1>5. Reach' = Reach /\ Used' = Used /\ Inner' = Inner /\ Outer' = Outer
  BY <1>1, ReachSame DEF Used, Inner, Outer
<1>6. SortInv'  BY <1>1, <1>5 DEF IInv, SortInv, Before
<1>7. ReachInv'  BY <1>1, <1>5 DEF IInv, ReachInv, Before
<1>8. RemovedInv' /\ RetiredInv'  BY <1>1, <1>5 DEF IInv, RemovedInv, RetiredInv
<1>9. LockInv'
  <2>1. ASSUME NEW u \in Threads, NEW n, Holds(u, n)'  PROVE Holds(u, n)
    <3>1. CASE u = t  BY <1>3, <2>1, <3>1, IdleLemma DEF Holds
    <3>2. CASE u # t  BY <1>3, <2>1, <3>2 DEF Holds
    <3> QED  BY <3>1, <3>2
  <2> QED  BY <1>1, <2>1 DEF IInv, LockInv
<1>10. Local(t)'
  BY <1>3, IdleLemma DEF Local, Sure, Ahead
<1>11. LocalInv'
  <2>1. ASSUME NEW u \in Threads, u # t  PROVE Local(u)'
    <3>1. Local(u)  BY LocalOf
    <3>2. th'[u] = th[u] /\ op'[u] = op[u] /\ did'[u] = did[u] /\ seen[u] \subseteq seen'[u]
      BY <1>3, <2>1
    <3> QED  BY <1>1, <1>2, <3>1, <3>2, BystanderQuiet
  <2> QED  BY <1>10, <2>1 DEF LocalInv
<1>12. TrailInv'
  <2>1. ASSUME NEW u \in Threads, th'[u].pc = "walk"  PROVE Trail(u)'
    <3>1. u # t  BY <1>3, <2>1, IdleLemma
    <3>2. th'[u] = th[u] /\ op'[u] = op[u] /\ seen[u] \subseteq seen'[u]  BY <1>3, <3>1
    <3>3. Trail(u)  BY <2>1, <3>2 DEF IInv, TrailInv
    <3> QED  BY <1>1, <3>2, <3>3, TrailQuiet
  <2> QED  BY <2>1 DEF TrailInv
<1>13. SeenInv'
  <2>1. Contents' = Contents  BY <1>1, ContentsSame
  <2>2. ASSUME NEW u \in Threads, InCall(u)'  PROVE Contents'[op'[u].key] \in seen'[u]
    <3>1. u # t  BY <1>3, <2>2 DEF InCall, NoCall
    <3> QED  BY <1>3, <2>1, <2>2, <3>1 DEF IInv, SeenInv, InCall
  <2> QED  BY <2>2 DEF SeenInv
<1> QED  BY <1>4, <1>6, <1>7, <1>8, <1>9, <1>11, <1>12, <1>13 DEF IInv

-----------------------------------------------------------------------------
\* What a call answers by the place it found is what it has seen.
LEMMA Answers ==
  ASSUME IInv, NEW t \in Threads, th[t].pc \in {"walk", "validate", "validate2"}, Stops(t)
  PROVE  /\ op[t] \in Requests /\ did[t] = "nothing" /\ th[t].held = 0
         /\ Found(t) => value[th[t].nxt] \in Values /\ value[th[t].nxt] \in seen[t]
         /\ ~Found(t) => None \in seen[t]
<1>1. Local(t) /\ SortInv  BY LocalOf DEF IInv
<1>2. StopsAt(th[t].nxt, op[t].key)  BY DEF Stops, StopsAt
<1>3. op[t] \in Requests /\ did[t] = "nothing" /\ th[t].held = 0 /\ th[t].nxt \in Outer
  BY <1>1 DEF Local
<1>4. AnswerAt(th[t].nxt, op[t].key) \in seen[t]  BY <1>1, <1>2 DEF Local
<1>5. Found(t) => th[t].nxt \in Used  BY <1>3 DEF Found, Outer
<1> QED  BY <1>1, <1>3, <1>4, <1>5 DEF AnswerAt, Found, SortInv

\* The answer of find_ and try_find keeps the invariant.
LEMMA FindAnswerKept ==
  ASSUME IInv, NEW t \in Threads, th[t].pc \in {"walk", "validate", "validate2"}, Stops(t),
         FindAnswer(t)
  PROVE  IInv'
<1>1. CASE Found(t)
  <2>1. Return(t, TRUE, value[th[t].nxt])  BY <1>1 DEF FindAnswer
  <2>2. value[th[t].nxt] \in Values \cup {None} /\ th[t].held = 0  BY <1>1, Answers
  <2> QED  BY <2>1, <2>2, ReturnKept
<1>2. CASE ~Found(t)
  <2>1. Return(t, FALSE, None)  BY <1>2 DEF FindAnswer
  <2>2. th[t].held = 0  BY Answers
  <2> QED  BY <2>1, <2>2, ReturnKept
<1> QED  BY <1>1, <1>2

\* The end of find_location keeps the invariant.
LEMMA LocatedKept ==
  ASSUME IInv, NEW t \in Threads, Located(t)
  PROVE  IInv'
<1>1. th[t].pc = "walk" /\ Stops(t)  BY DEF Located
<1>2. op[t] \in Requests  BY <1>1, Answers
<1>3. CASE FindAnswer(t)  BY <1>1, <1>3, FindAnswerKept
<1>4. CASE op[t].kind = "find" /\ Goto(t, "validate")  BY <1>1, <1>4, ToValidateKept
<1>5. CASE op[t].kind # "find"
           /\ Goto(t, IF Found(t) = (op[t].kind = "insert") THEN "validate" ELSE "lock")
  <2>1. op[t].kind \in {"insert", "remove"}  BY <1>2, <1>5, RequestFacts
  <2>2. Found(t) \in BOOLEAN  BY DEF Found
  <2>3. CASE Found(t) = (op[t].kind = "insert")
    <3>1. Goto(t, "validate")  BY <1>5, <2>3
    <3>2. op[t].kind = IF Found(t) THEN "insert" ELSE "remove"  BY <2>1, <2>2, <2>3
    <3> QED  BY <1>1, <3>1, <3>2, ToValidateKept
  <2>4. CASE Found(t) # (op[t].kind = "insert")
    <3>1. Goto(t, "lock")  BY <1>5, <2>4
    <3>2. op[t].kind = IF Found(t) THEN "remove" ELSE "insert"  BY <2>1, <2>2, <2>4
    <3> QED  BY <1>1, <3>1, <3>2, ToLockKept
  <2> QED  BY <2>3, <2>4
<1> QED  BY <1>3, <1>4, <1>5 DEF Located

\* The second load of read_lock's check keeps the invariant.
LEMMA ValidatedKept ==
  ASSUME IInv, NEW t \in Threads, Validated(t)
  PROVE  IInv'
<1>1. Local(t)  BY LocalOf
<1>2. th[t].pc = "validate2"  BY DEF Validated
<1>3. Stops(t) /\ ~th[t].res  BY <1>1, <1>2 DEF Local, Stops, StopsAt
<1>4. th[t].held = 0  BY <1>2, <1>3, Answers
<1>5. CASE Goto(t, "start")  BY <1>2, <1>3, <1>4, <1>5, AgainKept
<1>6. CASE FindAnswer(t)  BY <1>2, <1>3, <1>6, FindAnswerKept
<1>7. CASE Return(t, FALSE, None)  BY <1>4, <1>7, ReturnKept
<1> QED  BY <1>5, <1>6, <1>7 DEF Validated

\* The end of a try keeps the invariant.
LEMMA FinishKept ==
  ASSUME IInv, NEW t \in Threads, Finish(t)
  PROVE  IInv'
<1>1. th[t].pc = "unlock" /\ th[t].held = 0  BY DEF Finish
<1>2. CASE th[t].res
  <2>1. Return(t, TRUE, None)  BY <1>2 DEF Finish
  <2> QED  BY <1>1, <2>1, ReturnKept
<1>3. CASE ~th[t].res
  <2>1. Goto(t, "start")  BY <1>3 DEF Finish
  <2> QED  BY <1>1, <1>3, <2>1, AgainKept
<1> QED  BY <1>2, <1>3

-----------------------------------------------------------------------------
\* A call starts.
LEMMA CallFacts ==
  ASSUME IInv, NEW t \in Threads, NEW call \in Menu[t], Call(t, call)
  PROVE  /\ call \in Requests /\ ~InCall(t) /\ th[t] = Idle
         /\ next' = next /\ key' = key /\ value' = value /\ removed' = removed /\ lck' = lck
         /\ retired' = retired /\ did' = did /\ ret' = ret
         /\ calls' = [calls EXCEPT ![t] = @ + 1]
         /\ op' = [op EXCEPT ![t] = call]
         /\ seen' = [seen EXCEPT ![t] = {Contents[call.key]}]
         /\ th' = [th EXCEPT ![t].pc = "start"]
<1>1. call \in Requests  BY MenuAssumption, MenuOfList DEF Requests
<1>2. ~InCall(t)  BY DEF Call, Begins
<1>3. th[t] = Idle
  <2>1. Local(t)  BY LocalOf
  <2>2. op[t] \notin Requests  BY <1>2, RequestFacts DEF InCall
  <2> QED  BY <2>1, <2>2 DEF Local
<1> QED  BY <1>1, <1>2, <1>3 DEF Call, Begins, heap

\* The start of a call keeps the invariant.
LEMMA CallKept ==
  ASSUME IInv, NEW t \in Threads, NEW call \in Menu[t], Call(t, call)
  PROVE  IInv'
<1> DEFINE x == [Idle EXCEPT !.pc = "start"]
           c == {Contents[call.key]}
<1>1. /\ call \in Requests /\ ~InCall(t) /\ th[t] = Idle
      /\ next' = next /\ key' = key /\ value' = value /\ removed' = removed /\ lck' = lck
      /\ retired' = retired /\ did' = did /\ ret' = ret
      /\ calls' = [calls EXCEPT ![t] = @ + 1]
      /\ op' = [op EXCEPT ![t] = call]
      /\ seen' = [seen EXCEPT ![t] = c]
      /\ th' = [th EXCEPT ![t].pc = "start"]
  BY CallFacts
<1>2. Types /\ SortInv /\ ReachInv  BY DEF IInv
<1>3. x \in Locals /\ x.pc = "start" /\ x.held = 0 /\ x.res = FALSE
  BY IdleLemma DEF Locals, Pcs
<1>4. th' = [th EXCEPT ![t] = x]  BY <1>1
<1>5. call.key \in Keys /\ call.kind # "none"  BY <1>1, RequestFacts
<1>6. c \in SUBSET (Values \cup {None})
  <2>1. Contents \in [Keys -> Values \cup {None}]  BY <1>2, ContentsTypes DEF Types
  <2> QED  BY <1>5, <2>1
<1>7. Contents[call.key] \in c  OBVIOUS
<1> HIDE DEF x, c
<1>8. /\ th'[t] = x /\ op'[t] = call /\ seen'[t] = c /\ did'[t] = did[t]
      /\ \A u \in Threads : u # t =>
           th'[u] = th[u] /\ op'[u] = op[u] /\ did'[u] = did[u] /\ seen'[u] = seen[u]
  BY <1>1, <1>2, <1>4 DEF Types
<1>9. Types'
  <2>1. th' \in [Threads -> Locals]  BY <1>2, <1>3, <1>4 DEF Types
  <2>2. op' \in [Threads -> Requests \cup {NoCall}]  BY <1>1, <1>2 DEF Types
  <2>3. seen' \in [Threads -> SUBSET (Values \cup {None})]  BY <1>1, <1>2, <1>6 DEF Types
  <2>4. calls' \in [Threads -> Nat]  BY <1>1, <1>2 DEF Types
  <2> QED  BY <1>1, <1>2, <2>1, <2>2, <2>3, <2>4 DEF Types
<1>10. Reach' = Reach /\ Used' = Used /\ Inner' = Inner /\ Outer' = Outer
  BY <1>1, ReachSame DEF Used, Inner, Outer
<1>11. SortInv'  BY <1>1, <1>10 DEF IInv, SortInv, Before
<1>12. ReachInv'  BY <1>1, <1>10 DEF IInv, ReachInv, Before
<1>13. RemovedInv' /\ RetiredInv'  BY <1>1, <1>10 DEF IInv, RemovedInv, RetiredInv
<1>14. LockInv'
  <2>1. ASSUME NEW u \in Threads, NEW n, Holds(u, n)'  PROVE Holds(u, n)
    <3>1. CASE u = t  BY <1>3, <1>8, <2>1, <3>1 DEF Holds
    <3>2. CASE u # t  BY <1>8, <2>1, <3>2 DEF Holds
    <3> QED  BY <3>1, <3>2
  <2> QED  BY <1>1, <2>1 DEF IInv, LockInv
<1>15. Local(t)'
  <2>1. did[t] = "nothing"  BY <1>1, LocalOf, IdleLemma DEF Local
  <2> QED  BY <1>1, <1>3, <1>8, <2>1 DEF Local, Sure, Ahead
<1>16. LocalInv'
  <2>1. ASSUME NEW u \in Threads, u # t  PROVE Local(u)'
    <3>1. Local(u)  BY LocalOf
    <3>2. th'[u] = th[u] /\ op'[u] = op[u] /\ did'[u] = did[u] /\ seen[u] \subseteq seen'[u]
      BY <1>8, <2>1
    <3> QED  BY <1>1, <1>2, <3>1, <3>2, BystanderQuiet
  <2> QED  BY <1>15, <2>1 DEF LocalInv
<1>17. TrailInv'
  <2>1. ASSUME NEW u \in Threads, th'[u].pc = "walk"  PROVE Trail(u)'
    <3>1. u # t  BY <1>3, <1>8, <2>1
    <3>2. th'[u] = th[u] /\ op'[u] = op[u] /\ seen[u] \subseteq seen'[u]  BY <1>8, <3>1
    <3>3. Trail(u)  BY <2>1, <3>2 DEF IInv, TrailInv
    <3> QED  BY <1>1, <3>2, <3>3, TrailQuiet
  <2> QED  BY <2>1 DEF TrailInv
<1>18. SeenInv'
  <2>1. Contents' = Contents  BY <1>1, ContentsSame
  <2>2. ASSUME NEW u \in Threads, InCall(u)'  PROVE Contents'[op'[u].key] \in seen'[u]
    <3>1. CASE u = t  BY <1>7, <1>8, <2>1, <3>1
    <3>2. CASE u # t  BY <1>8, <2>1, <2>2, <3>2 DEF IInv, SeenInv, InCall
    <3> QED  BY <3>1, <3>2
  <2> QED  BY <2>2 DEF SeenInv
<1> QED  BY <1>9, <1>11, <1>12, <1>13, <1>14, <1>16, <1>17, <1>18 DEF IInv

-----------------------------------------------------------------------------
\* A step of one thread in its section that leaves the list alone.
LEMMA SectionKept ==
  ASSUME IInv, NEW t \in Threads, NEW x \in Locals, th' = [th EXCEPT ![t] = x],
         UNCHANGED <<next, key, value, lck, hist>>, x.pc # "walk",
         x.held = th[t].held, x.cur = th[t].cur, x.nxt = th[t].nxt,
         removed' \in [All -> BOOLEAN], retired' \in [Nodes -> Nat],
         RemovedInv', RetiredInv', LocalInv'
  PROVE  IInv'
<1>1. /\ next' = next /\ key' = key /\ value' = value /\ lck' = lck
      /\ calls' = calls /\ op' = op /\ seen' = seen /\ did' = did /\ ret' = ret
  BY DEF hist
<1>2. th'[t] = x /\ \A u \in Threads : u # t => th'[u] = th[u]  BY DEF IInv, Types
<1>3. Types'
  <2>1. th' \in [Threads -> Locals]  BY DEF IInv, Types
  <2> QED  BY <1>1, <2>1 DEF IInv, Types
<1>4. Reach' = Reach /\ Used' = Used /\ Inner' = Inner /\ Outer' = Outer
  BY <1>1, ReachSame DEF Used, Inner, Outer
<1>5. SortInv'  BY <1>1, <1>4 DEF IInv, SortInv, Before
<1>6. ReachInv'  BY <1>1, <1>4 DEF IInv, ReachInv, Before
<1>7. LockInv'
  <2>1. ASSUME NEW u \in Threads, NEW n, Holds(u, n)'  PROVE Holds(u, n)
    <3>1. CASE u = t  BY <1>2, <2>1, <3>1 DEF Holds
    <3>2. CASE u # t  BY <1>2, <2>1, <3>2 DEF Holds
    <3> QED  BY <3>1, <3>2
  <2> QED  BY <1>1, <2>1 DEF IInv, LockInv
<1>8. TrailInv'
  <2>1. ASSUME NEW u \in Threads, u # t, th'[u].pc = "walk"  PROVE Trail(u)'
    <3>1. th'[u] = th[u]  BY <1>2, <2>1
    <3>2. Trail(u)  BY <2>1, <3>1 DEF IInv, TrailInv
    <3> QED  BY <1>1, <3>1, <3>2, TrailQuiet
  <2> QED  BY <1>2, <2>1 DEF TrailInv
<1>9. SeenInv'
  <2>1. Contents' = Contents  BY <1>1, ContentsSame
  <2> QED  BY <1>1, <2>1 DEF IInv, SeenInv, InCall
<1> QED  BY <1>3, <1>5, <1>6, <1>7, <1>8, <1>9 DEF IInv

\* What a thread in the inner section knows of its two nodes.
LEMMA InnerFacts ==
  ASSUME IInv, NEW t \in Threads, th[t].pc \in {"load", "mark", "shortcut", "retire"}
  PROVE  /\ th[t].nxt \in Used /\ th[t].nxt \in Nodes /\ th[t].cur \in All
         /\ th[t].cur # th[t].nxt /\ th[t].nxt # Tail
         /\ key[th[t].nxt] = op[t].key
         /\ Holds(t, th[t].cur) /\ Holds(t, th[t].nxt)
         /\ \A u \in Threads : u # t => ~Holds(u, th[t].cur) /\ ~Holds(u, th[t].nxt)
<1>1. Local(t) /\ Types  BY LocalOf
<1>2. Found(t) /\ th[t].held = 2 /\ th[t].nxt \in Outer /\ th[t].cur \in Inner
      /\ Before(th[t].cur, th[t].nxt)
  BY <1>1 DEF Local, Ahead
<1>3. th[t].nxt # Tail /\ th[t].nxt \in Used /\ key[th[t].nxt] = op[t].key
  BY <1>2 DEF Found, Outer
<1>4. th[t].cur # th[t].nxt  BY <1>1, <1>2, <1>3, UsedFacts DEF Before, Inner
<1>5. th[t].cur \in All /\ th[t].nxt \in All  BY <1>1, ThTypes
<1>6. Holds(t, th[t].cur) /\ Holds(t, th[t].nxt)  BY <1>2 DEF Holds
<1>7. LockInv  BY DEF IInv
<1>8. th[t].nxt \in Nodes  BY <1>3 DEF Used
<1> QED  BY <1>3, <1>4, <1>5, <1>6, <1>7, <1>8, Exclusive

\* Marking the node that both locks protect keeps the invariant.
LEMMA MarkKept ==
  ASSUME IInv, NEW t \in Threads, Mark(t)
  PROVE  IInv'
<1> DEFINE x == [th[t] EXCEPT !.pc = "shortcut"]
           y == th[t].nxt
<1>1. Local(t) /\ Types /\ RemovedInv /\ RetiredInv  BY LocalOf DEF IInv
<1>2. /\ th[t].pc = "mark" /\ removed' = [removed EXCEPT ![y] = TRUE]
      /\ th' = [th EXCEPT ![t] = x] /\ UNCHANGED <<next, key, value, lck, retired, hist>>
  BY DEF Mark
<1>3. /\ y \in Used /\ y \in Nodes /\ y \in All /\ th[t].cur \in All /\ th[t].cur # y
      /\ \A u \in Threads : u # t => ~Holds(u, y)
  BY <1>1, <1>2, InnerFacts, ThTypes
<1>4. th[t] \in Locals  BY <1>1, ThTypes
<1>5. /\ x \in Locals /\ x.pc = "shortcut" /\ x.cur = th[t].cur /\ x.nxt = y /\ x.nn = th[t].nn
      /\ x.held = th[t].held /\ x.res = th[t].res
  BY <1>4 DEF Locals, Pcs
<1>6. y = th[t].nxt  OBVIOUS
<1> HIDE DEF x, y
<1>7. th'[t] = x /\ \A u \in Threads : u # t => th'[u] = th[u]  BY <1>1, <1>2 DEF Types
<1>8. /\ next' = next /\ key' = key /\ value' = value /\ retired' = retired
      /\ op' = op /\ seen' = seen /\ did' = did
  BY <1>2 DEF hist
<1>9. Reach' = Reach /\ Used' = Used /\ Inner' = Inner /\ Outer' = Outer
  BY <1>8, ReachSame DEF Used, Inner, Outer
<1>10. /\ removed' \in [All -> BOOLEAN] /\ removed'[y] = TRUE
       /\ \A n \in All : n # y => removed'[n] = removed[n]
  BY <1>1, <1>2, <1>3 DEF Types
<1>11. RemovedInv'
  <2>1. Root \in All /\ Nodes \subseteq All /\ Root # y  BY <1>3, NodesLemma
  <2>2. Used \subseteq Nodes  BY DEF Used
  <2> QED  BY <1>1, <1>3, <1>9, <1>10, <2>1, <2>2 DEF RemovedInv
<1>12. RetiredInv' /\ retired' \in [Nodes -> Nat]  BY <1>1, <1>8, <1>9 DEF RetiredInv, Types
<1>13. Local(t)'
  BY <1>1, <1>2, <1>3, <1>5, <1>6, <1>7, <1>8, <1>9, <1>10
     DEF Local, Sure, Ahead, Below, Before, StopsAt, AnswerAt, Found
<1>14. LocalInv'
  <2>1. ASSUME NEW u \in Threads, u # t  PROVE Local(u)'
    <3>1. Local(u)  BY LocalOf
    <3>2. th'[u] = th[u]  BY <1>7, <2>1
    <3>3. \A n \in All : Holds(u, n) => n # y  BY <1>3, <2>1
    <3>4. \A n \in All : Holds(u, n) => (~removed[n] => ~removed'[n]) /\ next'[n] = next[n]
      BY <1>8, <1>10, <3>3
    <3>5. \A n \in All : removed[n] => removed'[n]  BY <1>10
    <3> QED  BY <1>1, <1>8, <1>9, <3>1, <3>2, <3>4, <3>5, Bystander
  <2> QED  BY <1>13, <2>1 DEF LocalInv
<1> QED  BY <1>2, <1>5, <1>6, <1>10, <1>11, <1>12, <1>14, SectionKept

\* Retiring the node that was cut out keeps the invariant.
LEMMA RetireKept ==
  ASSUME IInv, NEW t \in Threads, Retire(t)
  PROVE  IInv'
<1> DEFINE x == [th[t] EXCEPT !.pc = "unlock", !.res = TRUE]
           y == th[t].nxt
<1>1. Local(t) /\ Types /\ RemovedInv /\ RetiredInv  BY LocalOf DEF IInv
<1>2. /\ th[t].pc = "retire" /\ retired' = [retired EXCEPT ![y] = @ + 1]
      /\ th' = [th EXCEPT ![t] = x] /\ UNCHANGED <<next, key, value, removed, lck, hist>>
  BY DEF Retire
<1>3. /\ y \in Used /\ y \in Nodes /\ y \in All
      /\ \A u \in Threads : u # t => ~Holds(u, y)
  BY <1>1, <1>2, InnerFacts, ThTypes
<1>4. th[t] \in Locals  BY <1>1, ThTypes
<1>5. /\ x \in Locals /\ x.pc = "unlock" /\ x.cur = th[t].cur /\ x.nxt = y
      /\ x.held = th[t].held /\ x.res = TRUE
  BY <1>4 DEF Locals, Pcs
<1>6. y = th[t].nxt  OBVIOUS
<1> HIDE DEF x, y
<1>7. th'[t] = x /\ \A u \in Threads : u # t => th'[u] = th[u]  BY <1>1, <1>2 DEF Types
<1>8. /\ next' = next /\ key' = key /\ value' = value /\ removed' = removed
      /\ op' = op /\ seen' = seen /\ did' = did
  BY <1>2 DEF hist
<1>9. Reach' = Reach /\ Used' = Used /\ Inner' = Inner /\ Outer' = Outer
  BY <1>8, ReachSame DEF Used, Inner, Outer
<1>10. y \in Used \ Reach /\ retired[y] = 0  BY <1>1, <1>2, <1>6 DEF Local
<1>11. /\ retired' \in [Nodes -> Nat] /\ retired'[y] = 1
       /\ \A n \in Nodes : n # y => retired'[n] = retired[n]
  BY <1>1, <1>2, <1>3, <1>10 DEF Types
<1>12. RetiredInv'  BY <1>1, <1>9, <1>10, <1>11 DEF RetiredInv
<1>13. RemovedInv' /\ removed' \in [All -> BOOLEAN]
  BY <1>1, <1>8, <1>9 DEF RemovedInv, Types
<1>14. Local(t)'
  BY <1>1, <1>2, <1>5, <1>6, <1>7, <1>8, <1>9
     DEF Local, Sure, Ahead, Below, Before, StopsAt, AnswerAt, Found
<1>15. LocalInv'
  <2>1. ASSUME NEW u \in Threads, u # t  PROVE Local(u)'
    <3>1. Local(u)  BY LocalOf
    <3>2. th'[u] = th[u]  BY <1>7, <2>1
    <3>3. th[u].pc = "retire" => retired'[th[u].nxt] = retired[th[u].nxt]
      <4>1. th[u].pc = "retire" => th[u].nxt # y /\ th[u].nxt \in Nodes
        BY <1>3, <2>1, InnerFacts
      <4> QED  BY <1>11, <4>1
    <3> QED  BY <1>1, <1>8, <1>9, <3>1, <3>2, <3>3, Bystander
  <2> QED  BY <1>14, <2>1 DEF LocalInv
<1> QED  BY <1>2, <1>5, <1>6, <1>12, <1>11, <1>13, <1>15, SectionKept

-----------------------------------------------------------------------------
\* A walk stays on its trail when another thread changes the list.  What is
\* ahead of it is on the list, or was cut out with what followed it then.
LEMMA TrailKept ==
  ASSUME IInv, Types', SortInv', ReachInv', SeenInv', NEW u \in Threads, Trail(u),
         op[u] \in Requests, th'[u] = th[u], op'[u] = op[u], seen[u] \subseteq seen'[u],
         \A n \in Used : n \in Used' /\ key'[n] = key[n] /\ value'[n] = value[n],
         \A n \in Inner : n \notin Reach' => next'[n] = next[n]
  PROVE  Trail(u)'
<1>1. Types /\ SortInv  BY DEF IInv
<1>2. PICK S \in SUBSET Inner : /\ Root \in S /\ Closed(S) /\ th[u].nxt \in S \cup {Tail}
                                /\ \A m \in S : Knows(u, m)
  BY DEF Trail
<1> DEFINE R == Reach'
           P == S \cup R
<1>3. Inner \subseteq Inner' /\ R \subseteq Inner'  BY DEF Inner, ReachInv
<1>4. \A m \in R : next'[m] = Tail \/ next'[m] \in R
  <2>1. (Types => /\ Root \in Reach /\ Reach \subseteq Nodes \cup {Root}
                  /\ \A n \in Reach : next[n] = Tail \/ next[n] \in Reach)'
    BY ReachFactsNext
  <2> QED  BY <2>1
<1>5. \A m \in R : Knows(u, m)'
  <2>1. \A t \in Threads : op'[t] \in Requests => \A m \in Reach' : Knows(t, m)'
    BY KnowsOnListNext
  <2> QED  BY <2>1
<1>6. \A m \in S : m \notin R => next'[m] = next[m]  BY <1>2
<1> HIDE DEF R
<1>7. ASSUME NEW m \in P  PROVE next'[m] = Tail \/ next'[m] \in P
  <2>1. CASE m \in R  BY <1>4, <2>1
  <2>2. CASE m \notin R  BY <1>2, <1>6, <2>2 DEF Closed
  <2> QED  BY <2>1, <2>2
<1>8. ASSUME NEW m \in P  PROVE Knows(u, m)'
  <2>1. CASE m \in R  BY <1>5, <2>1
  <2>2. CASE m \notin R
    <3>1. m \in Inner /\ Knows(u, m) /\ next'[m] = next[m]  BY <1>2, <1>6, <2>2
    <3>2. next[m] \in Outer  BY <1>1, <3>1 DEF SortInv
    <3>3. m # Root => key'[m] = key[m]  BY <3>1 DEF Inner
    <3>4. next[m] # Tail => key'[next[m]] = key[next[m]] /\ value'[next[m]] = value[next[m]]
      BY <3>2 DEF Outer
    <3> QED  BY <3>1, <3>3, <3>4 DEF Knows, Below, StopsAt, AnswerAt
  <2> QED  BY <2>1, <2>2
<1>9. P \in SUBSET Inner' /\ Root \in P /\ th'[u].nxt \in P \cup {Tail}  BY <1>2, <1>3
<1> HIDE DEF P
<1>10. \E Q \in SUBSET Inner' :
         /\ Root \in Q /\ (\A n \in Q : next'[n] = Tail \/ next'[n] \in Q)
         /\ th'[u].nxt \in Q \cup {Tail} /\ \A m \in Q : Knows(u, m)'
  BY <1>7, <1>8, <1>9
<1> QED  BY <1>10 DEF Trail, Closed

\* What a store to the list keeps of the invariant, for any store that keeps
\* the list sorted and leaves the locked nodes of the others alone.
LEMMA UpdateKept ==
  ASSUME IInv, NEW t \in Threads, NEW x \in Locals, th' = [th EXCEPT ![t] = x],
         x.pc # "walk", x.held = th[t].held, x.cur = th[t].cur, x.nxt = th[t].nxt,
         lck' = lck, removed' = removed, retired' = retired,
         NEW what \in Deeds, Does(t, what, Contents'),
         next' \in [All -> All], key' \in [Nodes -> Keys \cup {None}],
         value' \in [Nodes -> Values \cup {None}],
         SortInv', ReachInv', RemovedInv', RetiredInv', Local(t)',
         \A n \in Used : n \in Used' /\ key'[n] = key[n] /\ value'[n] = value[n],
         \A n \in Inner : n \notin Reach' => next'[n] = next[n],
         \A u \in Threads : u # t => \A n \in All : Holds(u, n) => next'[n] = next[n],
         \A n \in Used : n \notin Reach => n \notin Reach'
  PROVE  IInv'
<1>1. Types  BY DEF IInv
<1>2. /\ calls' = calls /\ op' = op /\ ret' = ret /\ did' = [did EXCEPT ![t] = what]
      /\ seen' = [u \in Threads |->
                   IF InCall(u) THEN seen[u] \cup {Contents'[op[u].key]} ELSE seen[u]]
  BY DEF Does
<1>3. Contents' \in [Keys -> Values \cup {None}]  BY ContentsTypesNext
<1>4. th'[t] = x /\ \A u \in Threads : u # t => th'[u] = th[u]  BY <1>1 DEF Types
<1>5. \A u \in Threads : op[u] \in Requests => InCall(u) /\ op[u].key \in Keys
  BY RequestFacts DEF InCall
<1>6. \A u \in Threads : InCall(u) => op[u] \in Requests  BY <1>1 DEF Types, InCall, NoCall
<1>7. Types'
  <2>1. th' \in [Threads -> Locals]  BY <1>1 DEF Types
  <2>2. did' \in [Threads -> Deeds]  BY <1>1, <1>2 DEF Types
  <2>3. seen' \in [Threads -> SUBSET (Values \cup {None})]
    <3>1. ASSUME NEW u \in Threads
          PROVE  (IF InCall(u) THEN seen[u] \cup {Contents'[op[u].key]} ELSE seen[u])
                   \in SUBSET (Values \cup {None})
      <4>1. seen[u] \in SUBSET (Values \cup {None})  BY <1>1 DEF Types
      <4>2. InCall(u) => Contents'[op[u].key] \in Values \cup {None}  BY <1>3, <1>5, <1>6
      <4> QED  BY <4>1, <4>2
    <3> QED  BY <1>2, <3>1
  <2> QED  BY <1>1, <1>2, <2>1, <2>2, <2>3 DEF Types
<1>8. \A u \in Threads : seen[u] \subseteq seen'[u]  BY <1>2
<1>9. SeenInv'
  <2>1. ASSUME NEW u \in Threads, InCall(u)'  PROVE Contents'[op'[u].key] \in seen'[u]
    <3>1. InCall(u)  BY <1>2, <2>1 DEF InCall
    <3> QED  BY <1>2, <3>1
  <2> QED  BY <2>1 DEF SeenInv
<1>10. LockInv'
  <2>1. ASSUME NEW u \in Threads, NEW n, Holds(u, n)'  PROVE Holds(u, n)
    <3>1. CASE u = t  BY <1>4, <2>1, <3>1 DEF Holds
    <3>2. CASE u # t  BY <1>4, <2>1, <3>2 DEF Holds
    <3> QED  BY <3>1, <3>2
  <2> QED  BY <2>1 DEF IInv, LockInv
<1>11. LocalInv'
  <2>1. ASSUME NEW u \in Threads, u # t  PROVE Local(u)'
    <3>1. Local(u)  BY LocalOf
    <3>2. th'[u] = th[u] /\ op'[u] = op[u] /\ did'[u] = did[u]  BY <1>1, <1>2, <1>4, <2>1 DEF Types
    <3>3. \A n \in All : Holds(u, n) => (~removed[n] => ~removed'[n]) /\ next'[n] = next[n]
      BY <2>1
    <3> QED  BY <1>1, <1>8, <3>1, <3>2, <3>3, Bystander
  <2> QED  BY <2>1 DEF LocalInv
<1>12. TrailInv'
  <2>1. ASSUME NEW u \in Threads, u # t, th'[u].pc = "walk"  PROVE Trail(u)'
    <3>1. th'[u] = th[u] /\ op'[u] = op[u]  BY <1>2, <1>4, <2>1
    <3>2. Trail(u)  BY <2>1, <3>1 DEF IInv, TrailInv
    <3>3. op[u] \in Requests  BY <2>1, <3>1, LocalOf DEF Local
    <3> QED  BY <1>7, <1>8, <1>9, <3>1, <3>2, <3>3, TrailKept
  <2> QED  BY <1>4, <2>1 DEF TrailInv
<1> QED  BY <1>7, <1>9, <1>10, <1>11, <1>12 DEF IInv

-----------------------------------------------------------------------------
\* Putting a node between two neighbours keeps the list sorted.
LEMMA SpliceList ==
  ASSUME Types, SortInv, ReachInv, RemovedInv, RetiredInv,
         NEW c \in Reach, NEW n \in Nodes, n \notin Used, NEW k \in Keys, NEW v \in Values,
         Below(c, k), next[c] = Tail \/ key[next[c]] > k,
         key' = [key EXCEPT ![n] = k], value' = [value EXCEPT ![n] = v],
         next' = [next EXCEPT ![n] = next[c], ![c] = n],
         removed' = removed, retired' = retired
  PROVE  /\ key' \in [Nodes -> Keys \cup {None}] /\ value' \in [Nodes -> Values \cup {None}]
         /\ next' \in [All -> All]
         /\ Reach' = Reach \cup {n} /\ Used' = Used \cup {n}
         /\ SortInv' /\ ReachInv' /\ RemovedInv' /\ RetiredInv'
         /\ \A m \in Used : key'[m] = key[m] /\ value'[m] = value[m]
         /\ key'[n] = k /\ value'[n] = v
         /\ \A m \in All : m # n /\ m # c => next'[m] = next[m]
<1> DEFINE z == next[c]
           Aft(i, j) == i = Root \/ j = Tail \/ key'[i] < key'[j]
<1>1. /\ next \in [All -> All] /\ key \in [Nodes -> Keys \cup {None}]
      /\ value \in [Nodes -> Values \cup {None}]
  BY DEF Types
<1>2. /\ Reach \subseteq Inner /\ Inner \subseteq All /\ Used \subseteq Nodes /\ Nodes \subseteq All
      /\ Root \notin Nodes /\ Tail \notin Nodes /\ Root # Tail /\ k \in Nat /\ k # None
      /\ Root \in Reach /\ Reach \subseteq Nodes \cup {Root}
  BY UsedFacts, ReachFacts, NodesLemma DEF ReachInv
<1>3. c \in Inner /\ c \in All /\ n \in All /\ n \notin Inner /\ n # c /\ z \in Outer
      /\ next[n] = Tail
  BY <1>2 DEF Inner, SortInv
<1>4. z \in All /\ (z # Tail => z \in Reach /\ z \in Used)
  BY <1>1, <1>3, ReachFacts DEF Outer
<1>5. \A m \in Used : key[m] \in Nat /\ key[m] \in Keys  BY UsedFacts
<1> HIDE DEF z
<1>6. next' = [next EXCEPT ![n] = z, ![c] = n]  BY DEF z
<1>7. /\ key' \in [Nodes -> Keys \cup {None}] /\ value' \in [Nodes -> Values \cup {None}]
      /\ next' \in [All -> All]
  BY <1>1, <1>3, <1>4, <1>6
<1>8. /\ key'[n] = k /\ value'[n] = v
      /\ \A m \in Nodes : m # n => key'[m] = key[m] /\ value'[m] = value[m]
  BY <1>1
<1>9. /\ next'[n] = z /\ next'[c] = n
      /\ \A m \in All : m # n /\ m # c => next'[m] = next[m]
  BY <1>1, <1>3, <1>6
<1>10. Used' = Used \cup {n}  BY <1>2, <1>8 DEF Used
<1>11. Inner' = Inner \cup {n} /\ Outer' = Outer \cup {n}  BY <1>10 DEF Inner, Outer
<1>12. \A m \in Used : m # n /\ key'[m] = key[m] /\ value'[m] = value[m]  BY <1>2, <1>8
<1>13. Reach' = Reach \cup {n}
  <2>1. next \in Succs /\ next' \in Succs  BY <1>1, <1>7 DEF Succs
  <2>2. n \notin Reach  BY <1>2, <1>3
  <2>3. \A m \in All : next'[m] = IF m = c THEN n ELSE IF m = n THEN next[c] ELSE next[m]
    BY <1>3, <1>9 DEF z
  <2> DEFINE ny == next'
  <2>4. ReachIn(ny) = ReachIn(next) \cup {n}
    <3>1. ny \in Succs /\ c \in ReachIn(next) /\ n \notin ReachIn(next)
      BY <2>1, <2>2, ReachLemma
    <3>2. \A m \in All : ny[m] = IF m = c THEN n ELSE IF m = n THEN next[c] ELSE next[m]
      BY <2>3
    <3> HIDE DEF ny
    <3> QED  BY <1>3, <2>1, <3>1, <3>2, SpliceReach
  <2> QED  BY <2>4, ReachLemma, ReachNext
<1>14. c # Root => c \in Used /\ key[c] < k  BY <1>3 DEF Below, Inner
<1>15. z # Tail => key[z] > k /\ key[z] \in Nat /\ z # n /\ z # Root
  BY <1>2, <1>4, <1>5, <1>12 DEF z
<1>16. SortInv'
  <2>1. ASSUME NEW m \in Inner'  PROVE next'[m] \in Outer' /\ Aft(m, next'[m])
    <3>1. CASE m = c
      <4>1. Aft(c, n)  BY <1>8, <1>12, <1>14 DEF Before
      <4> QED  BY <1>9, <1>11, <3>1, <4>1 DEF Outer
    <3>2. CASE m = n
      <4>1. Aft(n, z)  BY <1>4, <1>8, <1>12, <1>15, <1>2 DEF Before
      <4> QED  BY <1>3, <1>9, <1>11, <3>2, <4>1
    <3>3. CASE m # c /\ m # n
      <4>1. m \in Inner /\ m \in All /\ next'[m] = next[m]  BY <1>2, <1>9, <1>11, <3>3
      <4>2. next[m] \in Outer /\ Before(m, next[m])  BY <4>1 DEF SortInv
      <4>3. Aft(m, next[m])  BY <1>12, <4>1, <4>2 DEF Before, Inner, Outer
      <4> QED  BY <1>11, <4>1, <4>2, <4>3
    <3> QED  BY <3>1, <3>2, <3>3
  <2>2. ASSUME NEW m \in Nodes \ Used'  PROVE next'[m] = Tail
    <3>1. m \in Nodes \ Used /\ m # n /\ m # c  BY <1>2, <1>3, <1>10 DEF Inner
    <3>2. next'[m] = next[m]  BY <1>2, <1>9, <3>1
    <3> QED  BY <3>1, <3>2 DEF SortInv
  <2>3. \A m \in Used' : value'[m] \in Values  BY <1>8, <1>10, <1>12 DEF SortInv
  <2> QED  BY <2>1, <2>2, <2>3 DEF SortInv, Before
<1>17. \A m \in Reach \ {Root} : m \in Used /\ key[m] # k
  <2>1. \A m \in Reach \ {Root} : key[m] # k  BY GapMiss
  <2> QED  BY <1>2, <2>1 DEF Inner
<1>18. ReachInv'
  <2>1. Reach' \subseteq Inner'  BY <1>2, <1>11, <1>13
  <2>2. ASSUME NEW m \in Reach' \ {Root}, NEW l \in Reach' \ {Root}, key'[m] = key'[l]
        PROVE  m = l
    <3>1. CASE m = n /\ l # n  BY <1>8, <1>12, <1>13, <1>17, <2>2, <3>1
    <3>2. CASE m # n /\ l = n  BY <1>8, <1>12, <1>13, <1>17, <2>2, <3>2
    <3>3. CASE m # n /\ l # n  BY <1>12, <1>13, <1>17, <2>2, <3>3 DEF ReachInv
    <3> QED  BY <3>1, <3>2, <3>3
  <2>3. ASSUME NEW m \in Reach', NEW l \in Reach' \ {Root}, Aft(m, l)
        PROVE  next'[m] = l \/ (next'[m] # Tail /\ Aft(next'[m], l))
    <3>1. l # Tail /\ l # Root  BY <1>2, <1>13
    <3>2. \A i \in Reach \cup {n} : i # Root => key'[i] \in Nat
      BY <1>2, <1>5, <1>8, <1>12, <1>13, <1>17
    <3>3. m = Root \/ key'[m] < key'[l]  BY <2>3, <3>1 DEF Before
    <3>4. CASE l = n /\ m # n
      <4>1. m = Root \/ key[m] < k  BY <1>8, <1>12, <1>13, <1>17, <3>3, <3>4
      <4>2. CASE m = c  BY <1>9, <3>4, <4>2
      <4>3. CASE m # c
        <5>1. next'[m] = next[m] /\ m \in Reach  BY <1>2, <1>9, <1>13, <3>4, <4>3
        <5>2. Below(m, k) /\ Before(m, z)
          <6>1. m # Root => key[m] \in Nat  BY <1>5, <1>17, <5>1
          <6> QED  BY <1>2, <1>15, <4>1, <6>1 DEF Below, Before
        <5>3. ~(next[m] = Tail \/ key[next[m]] > k)
          <6>1. ASSUME next[m] = Tail \/ key[next[m]] > k  PROVE FALSE
            <7>1. CASE Before(m, c) /\ c # Root
              <8>1. next[m] = c \/ (next[m] # Tail /\ Before(next[m], c))
                BY <5>1, <7>1 DEF ReachInv
              <8>2. next[m] # Root /\ next[m] # Tail
                BY <1>2, <5>1, <8>1, <7>1, <1>14, UsedFacts DEF SortInv, Outer
              <8>3. next[m] \in Used /\ c # Tail
                BY <1>2, <5>1, <8>2, <1>14 DEF SortInv, Outer
              <8>4. key[next[m]] \in Nat /\ key[next[m]] <= key[c]
                BY <1>5, <1>14, <7>1, <8>1, <8>2, <8>3 DEF Before
              <8> QED  BY <1>5, <1>2, <1>14, <6>1, <7>1, <8>2, <8>4
            <7>2. CASE ~(Before(m, c) /\ c # Root)
              <8>1. m # Root /\ key[m] \in Nat
                <9>1. CASE c = Root  BY <1>5, <1>17, <4>3, <5>1, <9>1
                <9>2. CASE c # Root  BY <1>5, <1>17, <5>1, <7>2, <9>2 DEF Before
                <9> QED  BY <9>1, <9>2
              <8>2. Before(c, m)
                <9>1. CASE c = Root  BY <9>1 DEF Before
                <9>2. CASE c # Root
                  <10>1. key[c] # key[m]  BY <4>3, <5>1, <8>1, <9>2 DEF ReachInv
                  <10>2. ~(key[m] < key[c])  BY <7>2, <9>2 DEF Before
                  <10> QED  BY <1>5, <1>14, <8>1, <9>2, <10>1, <10>2 DEF Before
                <9> QED  BY <9>1, <9>2
              <8>3. z = m \/ (z # Tail /\ Before(z, m))
                BY <5>1, <8>1, <8>2 DEF ReachInv, z
              <8>4. m # Tail /\ key[m] < k  BY <1>2, <4>1, <5>1, <8>1
              <8>5. z # Tail /\ key[z] <= key[m]  BY <1>15, <8>1, <8>3, <8>4 DEF Before
              <8> QED  BY <1>2, <1>15, <8>1, <8>4, <8>5
            <7> QED  BY <7>1, <7>2
          <6> QED  BY <6>1
        <5>4. next[m] # Tail /\ next[m] \in Reach /\ next[m] # Root
          BY <1>2, <5>1, <5>3, ReachFacts, UsedFacts DEF SortInv, Outer
        <5>5. next[m] \in Used /\ key[next[m]] # k /\ key[next[m]] \in Nat
          BY <1>5, <1>17, <5>4
        <5>6. key'[next[m]] < k  BY <1>2, <1>12, <5>3, <5>5
        <5> QED  BY <1>8, <3>4, <5>1, <5>4, <5>6 DEF Before
      <4> QED  BY <4>2, <4>3
    <3>5. CASE l # n
      <4>1. l \in Reach /\ l \in Used /\ key'[l] = key[l] /\ key[l] \in Nat
        BY <1>5, <1>12, <1>13, <1>17, <3>5
      <4>2. CASE m = n
        <5>1. k < key[l]  BY <1>2, <1>3, <1>8, <3>3, <4>1, <4>2 DEF Inner
        <5>2. Before(c, l)  BY <1>2, <1>5, <1>14, <4>1, <5>1 DEF Before
        <5>3. z = l \/ (z # Tail /\ Before(z, l))  BY <2>3, <4>1, <5>2 DEF ReachInv, z
        <5>4. z # Tail => (Aft(z, l) <=> Before(z, l))
          BY <1>4, <1>12, <1>15, <3>1, <4>1 DEF Before
        <5> QED  BY <1>9, <4>2, <5>3, <5>4
      <4>3. CASE m = c
        <5>1. Before(c, l)  BY <1>12, <1>14, <3>3, <4>1, <4>3 DEF Before
        <5>2. z = l \/ (z # Tail /\ Before(z, l))  BY <2>3, <4>1, <5>1 DEF ReachInv, z
        <5>3. z # Tail /\ key[z] <= key[l]  BY <1>2, <1>15, <3>1, <4>1, <5>2 DEF Before
        <5>4. k < key[l]  BY <1>2, <1>15, <4>1, <5>3
        <5>5. Aft(n, l)  BY <1>8, <4>1, <5>4 DEF Before
        <5> QED  BY <1>2, <1>9, <4>3, <5>5
      <4>4. CASE m # n /\ m # c
        <5>1. m \in Reach /\ next'[m] = next[m]  BY <1>2, <1>9, <1>13, <4>4
        <5>2. Before(m, l)  BY <1>12, <1>17, <3>3, <4>1, <5>1 DEF Before
        <5>3. next[m] = l \/ (next[m] # Tail /\ Before(next[m], l))
          BY <2>3, <4>1, <5>1, <5>2 DEF ReachInv
        <5>4. next[m] # Tail => next[m] \in Used  BY <1>2, <5>1 DEF SortInv, Outer
        <5>5. next[m] # Tail => (Aft(next[m], l) <=> Before(next[m], l))
          BY <1>12, <4>1, <5>4 DEF Before
        <5> QED  BY <5>1, <5>3, <5>5
      <4> QED  BY <4>2, <4>3, <4>4
    <3>6. ~(l = n /\ m = n)  BY <1>2, <1>8, <3>1, <3>3
    <3> QED  BY <3>4, <3>5, <3>6
  <2> QED  BY <2>1, <2>2, <2>3 DEF ReachInv, Before
<1>19. RemovedInv' /\ RetiredInv'
  <2>1. RemovedInv'  BY <1>10, <1>13 DEF RemovedInv
  <2>2. RetiredInv'  BY <1>10, <1>13 DEF RetiredInv
  <2> QED  BY <2>1, <2>2
<1> QED  BY <1>7, <1>8, <1>9, <1>10, <1>12, <1>13, <1>16, <1>18, <1>19

\* What an insert knows when it stores.
LEMMA SpliceFacts ==
  ASSUME IInv, NEW t \in Threads, th[t].pc = "splice"
  PROVE  /\ th[t].cur \in Reach /\ next[th[t].cur] = th[t].nxt /\ ~removed[th[t].cur]
         /\ op[t] \in Requests /\ op[t].kind = "insert" /\ did[t] = "nothing"
         /\ op[t].key \in Keys /\ op[t].val \in Values /\ Below(th[t].cur, op[t].key)
         /\ (th[t].nxt = Tail \/ key[th[t].nxt] > op[t].key)
         /\ th[t].held = 1
<1>1. Local(t) /\ Types /\ RemovedInv  BY LocalOf DEF IInv
<1>2. /\ op[t] \in Requests /\ op[t].kind = "insert" /\ did[t] = "nothing" /\ th[t].held = 1
      /\ th[t].cur \in Inner /\ th[t].nxt \in Outer /\ Below(th[t].cur, op[t].key)
      /\ StopsAt(th[t].nxt, op[t].key)
      /\ op[t].kind = IF Found(t) THEN "remove" ELSE "insert"
      /\ ~removed[th[t].cur] /\ next[th[t].cur] = th[t].nxt
  BY <1>1 DEF Local, Sure, Ahead
<1>3. th[t].cur \in Reach  BY <1>1, <1>2, ReachFacts DEF RemovedInv, Inner
<1>4. op[t].key \in Keys /\ op[t].val \in Values /\ op[t].key \in Nat  BY <1>2, RequestFacts
<1>5. th[t].nxt # Tail => key[th[t].nxt] \in Nat  BY <1>1, <1>2, UsedFacts DEF Outer
<1>6. ~Found(t)  BY <1>2
<1>7. th[t].nxt = Tail \/ key[th[t].nxt] > op[t].key
  BY <1>2, <1>4, <1>5, <1>6 DEF StopsAt, Found
<1> QED  BY <1>2, <1>3, <1>4, <1>7

\* The nodes whose locks a thread has are made.
LEMMA HeldUsed ==
  ASSUME IInv, NEW u \in Threads, NEW n \in Nodes, Holds(u, n)
  PROVE  n \in Used
<1>1. Local(u) /\ Types  BY LocalOf
<1>2. th[u].held \in 0 .. 2 /\ Root \notin Nodes /\ Tail \notin Nodes
  BY <1>1, ThTypes, NodesLemma
<1>3. th[u].held # 0  BY <1>2 DEF Holds
<1>4. th[u].pc \notin {"idle", "start"}  BY <1>1, <1>3 DEF Local
<1>5. th[u].cur \in Inner /\ th[u].nxt \in Outer  BY <1>1, <1>4 DEF Local
<1> QED  BY <1>2, <1>5 DEF Holds, Inner, Outer

\* The store of insert keeps the invariant.
LEMMA SpliceKept ==
  ASSUME IInv, NEW t \in Threads, Splice(t)
  PROVE  IInv'
<1> DEFINE c == th[t].cur
           k == op[t].key
           v == op[t].val
           x == [th[t] EXCEPT !.pc = "unlock", !.res = TRUE]
<1>1. /\ Types /\ SortInv /\ ReachInv /\ RemovedInv /\ RetiredInv /\ LockInv
      /\ Local(t)
  BY LocalOf DEF IInv
<1>2. /\ th[t].pc = "splice" /\ th' = [th EXCEPT ![t] = x]
      /\ UNCHANGED <<removed, lck, retired>> /\ Does(t, "inserted", Contents')
  BY DEF Splice
<1>3. /\ c \in Reach /\ next[c] = th[t].nxt /\ op[t].kind = "insert" /\ k \in Keys
      /\ v \in Values /\ Below(c, k) /\ (next[c] = Tail \/ key[next[c]] > k)
      /\ th[t].held = 1 /\ op[t] \in Requests
  BY <1>2, SpliceFacts
<1>4. PICK n \in Nodes : /\ key[n] = None /\ key' = [key EXCEPT ![n] = k]
                         /\ value' = [value EXCEPT ![n] = v]
                         /\ next' = [next EXCEPT ![n] = next[c], ![c] = n]
  BY <1>3 DEF Splice
<1>5. n \notin Used  BY <1>4 DEF Used
<1>6. th[t] \in Locals /\ c \in All  BY <1>1, ThTypes
<1>7. /\ x \in Locals /\ x.pc = "unlock" /\ x.res = TRUE /\ x.held = th[t].held
      /\ x.cur = th[t].cur /\ x.nxt = th[t].nxt
  BY <1>6 DEF Locals, Pcs
<1>8. c = th[t].cur /\ k = op[t].key  OBVIOUS
<1> HIDE DEF c, k, v, x
<1>9. /\ key' \in [Nodes -> Keys \cup {None}] /\ value' \in [Nodes -> Values \cup {None}]
      /\ next' \in [All -> All]
      /\ Reach' = Reach \cup {n} /\ Used' = Used \cup {n}
      /\ SortInv' /\ ReachInv' /\ RemovedInv' /\ RetiredInv'
      /\ \A m \in Used : key'[m] = key[m] /\ value'[m] = value[m]
      /\ \A m \in All : m # n /\ m # c => next'[m] = next[m]
  BY <1>1, <1>2, <1>3, <1>4, <1>5, SpliceList
<1>10. Inner \subseteq All /\ Inner \subseteq Inner' /\ Outer \subseteq Outer'
  BY <1>1, <1>9, UsedFacts DEF Inner, Outer
<1>11. \A m \in Inner : m \notin Reach' => next'[m] = next[m]
  BY <1>3, <1>9, <1>10
<1>12. ASSUME NEW u \in Threads, u # t, NEW m \in All, Holds(u, m)  PROVE next'[m] = next[m]
  <2>1. m # n  BY <1>5, <1>12, HeldUsed
  <2>2. Holds(t, c)  BY <1>3, <1>8 DEF Holds
  <2>3. m # c  BY <1>1, <1>6, <1>12, <2>2, Exclusive
  <2> QED  BY <1>9, <2>1, <2>3
<1>13. Local(t)'
  <2>1. th'[t] = x  BY <1>1, <1>2 DEF Types
  <2>2. op'[t] = op[t] /\ did'[t] = "inserted"  BY <1>1, <1>2 DEF Does, Types
  <2>3. /\ c \in Inner /\ th[t].nxt \in Outer /\ Below(c, k) /\ Before(c, th[t].nxt)
        /\ StopsAt(th[t].nxt, k)
    BY <1>1, <1>2, <1>8 DEF Local
  <2>4. (c # Root => key'[c] = key[c]) /\ (th[t].nxt # Tail => key'[th[t].nxt] = key[th[t].nxt])
    BY <1>9, <2>3 DEF Inner, Outer
  <2>5. c \in Inner' /\ th[t].nxt \in Outer'  BY <1>10, <2>3
  <2> DEFINE z == th[t].nxt
  <2>6. (c = Root \/ key'[c] < k) /\ (c = Root \/ z = Tail \/ key'[c] < key'[z])
        /\ (z # Tail => key'[z] >= k)
    BY <2>3, <2>4 DEF Below, Before, StopsAt
  <2> HIDE DEF z
  <2>7. x.cur = c /\ x.nxt = z /\ op'[t].key = k /\ op'[t] \in Requests /\ op'[t].kind = "insert"
        /\ z \in Outer'
    BY <1>3, <1>7, <1>8, <2>2, <2>5 DEF z
  <2> QED
    BY <1>7, <2>1, <2>2, <2>5, <2>6, <2>7
       DEF Local, Below, Before, StopsAt, Sure, Ahead
<1>14. \A m \in Used : m \in Used' /\ key'[m] = key[m] /\ value'[m] = value[m]  BY <1>9
<1>15. \A m \in Used : m \notin Reach => m \notin Reach'  BY <1>5, <1>9
<1>16. "inserted" \in Deeds  BY DEF Deeds
<1> QED
  BY <1>2, <1>7, <1>9, <1>11, <1>12, <1>13, <1>14, <1>15, <1>16, UpdateKept

-----------------------------------------------------------------------------
\* A node on the list comes after one node only.
LEMMA NoTwo ==
  ASSUME Types, SortInv, ReachInv, NEW a \in Reach, NEW b \in Reach, b # Root, Before(a, b),
         NEW y \in Used, next[a] = y, next[b] = y
  PROVE  FALSE
<1>1. y # Tail /\ y # Root /\ b # Tail /\ b \in Used
  BY UsedFacts, ReachFacts, NodesLemma DEF ReachInv, Inner
<1>2. key[y] \in Nat /\ key[b] \in Nat  BY <1>1, UsedFacts
<1>3. y = b \/ key[y] < key[b]  BY <1>1 DEF ReachInv, Before
<1>4. key[b] < key[y]
  <2>1. Before(b, y)  BY <1>1 DEF SortInv, Inner
  <2> QED  BY <1>1, <2>1 DEF Before
<1> QED  BY <1>2, <1>3, <1>4

\* The same without the order of the two.
LEMMA OnePredecessor ==
  ASSUME Types, SortInv, ReachInv, NEW a \in Reach, NEW b \in Reach, NEW y \in Used,
         next[a] = y, next[b] = y
  PROVE  a = b
<1>1. \A m \in Reach : m # Root => m \in Used /\ key[m] \in Nat
  BY UsedFacts DEF ReachInv, Inner
<1>2. CASE a = Root /\ b # Root
  <2>1. Before(a, b)  BY <1>2 DEF Before
  <2> QED  BY <1>2, <2>1, NoTwo
<1>3. CASE a # Root /\ b = Root
  <2>1. Before(b, a)  BY <1>3 DEF Before
  <2> QED  BY <1>3, <2>1, NoTwo
<1>4. CASE a # Root /\ b # Root
  <2>1. key[a] = key[b] => a = b  BY <1>4 DEF ReachInv
  <2>2. key[a] \in Nat /\ key[b] \in Nat  BY <1>1, <1>4
  <2>3. CASE key[a] < key[b]
    <3>1. Before(a, b)  BY <2>3 DEF Before
    <3> QED  BY <1>4, <3>1, NoTwo
  <2>4. CASE key[b] < key[a]
    <3>1. Before(b, a)  BY <2>4 DEF Before
    <3> QED  BY <1>4, <3>1, NoTwo
  <2> QED  BY <2>1, <2>2, <2>3, <2>4
<1> QED  BY <1>2, <1>3, <1>4

\* Cutting out the node behind cur keeps the list sorted.
LEMMA CutList ==
  ASSUME Types, SortInv, ReachInv, RemovedInv, RetiredInv,
         NEW c \in Reach, NEW y \in Used, next[c] = y, removed[y],
         next' = [next EXCEPT ![c] = next[y]], key' = key, value' = value,
         removed' = removed, retired' = retired
  PROVE  /\ next' \in [All -> All] /\ Reach' = Reach \ {y} /\ Used' = Used /\ y \in Reach
         /\ SortInv' /\ ReachInv' /\ RemovedInv' /\ RetiredInv'
         /\ \A m \in All : m # c => next'[m] = next[m]
<1> DEFINE z == next[y]
           Aft(i, j) == i = Root \/ j = Tail \/ key'[i] < key'[j]
<1>1. next \in [All -> All]  BY DEF Types
<1>2. /\ Reach \subseteq Inner /\ Inner \subseteq All /\ Used \subseteq Nodes /\ Nodes \subseteq All
      /\ Root \notin Nodes /\ Tail \notin Nodes /\ Root # Tail
      /\ Root \in Reach /\ Reach \subseteq Nodes \cup {Root}
  BY UsedFacts, ReachFacts, NodesLemma DEF ReachInv
<1>3. c \in Inner /\ c \in All /\ y \in Inner /\ y \in All /\ y # Root /\ y # Tail /\ y \in Nodes
  BY <1>2 DEF Inner
<1>4. /\ Before(c, y) /\ z \in Outer /\ Before(y, z) /\ z \in All
  BY <1>1, <1>3 DEF SortInv
<1>5. y \in Reach  BY <1>3, ReachFacts
<1>6. \A m \in Used : key[m] \in Nat  BY UsedFacts
<1>7. c # Root => c \in Used /\ key[c] < key[y]  BY <1>3, <1>4 DEF Before, Inner
<1>8. z # Tail => z \in Used /\ key[y] < key[z]  BY <1>3, <1>4 DEF Before, Outer
<1>9. y # c /\ z # y  BY <1>3, <1>6, <1>7, <1>8
<1>10. z = next[y]  OBVIOUS
<1> HIDE DEF z
<1>11. next' = [next EXCEPT ![c] = z]  BY <1>10
<1>12. /\ next' \in [All -> All] /\ next'[c] = z
       /\ \A m \in All : m # c => next'[m] = next[m]
  BY <1>1, <1>3, <1>4, <1>11
<1>13. Used' = Used /\ Inner' = Inner /\ Outer' = Outer  BY DEF Used, Inner, Outer
<1>14. Reach' = Reach \ {y}
  <2>1. next \in Succs /\ next' \in Succs  BY <1>1, <1>12 DEF Succs
  <2>2. \A m \in All : next'[m] = IF m = c THEN next[y] ELSE next[m]
    BY <1>3, <1>10, <1>12
  <2>3. \A m \in Reach : next[m] = y => m = c  BY OnePredecessor
  <2> DEFINE ny == next'
  <2>4. ReachIn(ny) = ReachIn(next) \ {y}
    <3>1. ny \in Succs /\ c \in ReachIn(next) /\ \A m \in ReachIn(next) : next[m] = y => m = c
      BY <2>1, <2>3, ReachLemma
    <3>2. \A m \in All : ny[m] = IF m = c THEN next[y] ELSE next[m]  BY <2>2
    <3>3. y \in Nodes /\ y # c /\ next[y] # y /\ next[c] = y  BY <1>3, <1>9, <1>10
    <3> HIDE DEF ny
    <3> QED  BY <2>1, <3>1, <3>2, <3>3, CutReach
  <2> QED  BY <2>4, ReachLemma, ReachNext
<1>15. SortInv'
  <2>1. ASSUME NEW m \in Inner'  PROVE next'[m] \in Outer' /\ Aft(m, next'[m])
    <3>1. CASE m = c
      <4>1. c = Root \/ z = Tail \/ key[c] < key[z]  BY <1>6, <1>7, <1>8
      <4> QED  BY <1>4, <1>12, <1>13, <3>1, <4>1
    <3>2. CASE m # c
      <4>1. m \in Inner /\ m \in All /\ next'[m] = next[m]  BY <1>2, <1>12, <1>13, <3>2
      <4>2. next[m] \in Outer /\ Before(m, next[m])  BY <4>1 DEF SortInv
      <4> QED  BY <1>13, <4>1, <4>2 DEF Before
    <3> QED  BY <3>1, <3>2
  <2>2. ASSUME NEW m \in Nodes \ Used'  PROVE next'[m] = Tail
    <3>1. m \in Nodes \ Used /\ m # c  BY <1>2, <1>3, <1>13 DEF Inner
    <3> QED  BY <1>2, <1>12, <3>1 DEF SortInv
  <2>3. \A m \in Used' : value'[m] \in Values  BY <1>13 DEF SortInv
  <2> QED  BY <2>1, <2>2, <2>3 DEF SortInv, Before
<1>16. ReachInv'
  <2>1. Reach' \subseteq Inner'  BY <1>2, <1>13, <1>14
  <2>2. ASSUME NEW m \in Reach' \ {Root}, NEW l \in Reach' \ {Root}, key'[m] = key'[l]
        PROVE  m = l
    BY <1>14, <2>2 DEF ReachInv
  <2>3. ASSUME NEW m \in Reach', NEW l \in Reach' \ {Root}, Aft(m, l)
        PROVE  next'[m] = l \/ (next'[m] # Tail /\ Aft(next'[m], l))
    <3>1. m \in Reach /\ l \in Reach \ {Root} /\ l # y /\ l # Tail /\ Before(m, l)
      BY <1>2, <1>14, <2>3 DEF Before
    <3>2. CASE m = c
      <4>1. Before(y, l)  BY <3>1, <3>2 DEF ReachInv
      <4>2. z = l \/ (z # Tail /\ Before(z, l))  BY <1>5, <1>10, <3>1, <4>1 DEF ReachInv
      <4> QED  BY <1>12, <3>2, <4>2 DEF Before
    <3>3. CASE m # c
      <4>1. next'[m] = next[m]  BY <1>2, <1>12, <3>1, <3>3
      <4>2. next[m] = l \/ (next[m] # Tail /\ Before(next[m], l))  BY <3>1 DEF ReachInv
      <4> QED  BY <4>1, <4>2 DEF Before
    <3> QED  BY <3>2, <3>3
  <2> QED  BY <2>1, <2>2, <2>3 DEF ReachInv, Before
<1>17. RemovedInv' /\ RetiredInv'
  <2>1. RemovedInv'  BY <1>13, <1>14 DEF RemovedInv
  <2>2. RetiredInv'  BY <1>13, <1>14 DEF RetiredInv
  <2> QED  BY <2>1, <2>2
<1> QED  BY <1>5, <1>12, <1>13, <1>14, <1>15, <1>16, <1>17

\* What a remove knows when it stores.
LEMMA ShortcutFacts ==
  ASSUME IInv, NEW t \in Threads, th[t].pc = "shortcut"
  PROVE  /\ th[t].cur \in Reach /\ next[th[t].cur] = th[t].nxt /\ ~removed[th[t].cur]
         /\ op[t] \in Requests /\ op[t].kind = "remove" /\ did[t] = "nothing"
         /\ th[t].nxt \in Used /\ key[th[t].nxt] = op[t].key /\ removed[th[t].nxt]
         /\ th[t].nn = next[th[t].nxt] /\ th[t].held = 2
<1>1. Local(t) /\ Types /\ RemovedInv  BY LocalOf DEF IInv
<1>2. /\ op[t] \in Requests /\ op[t].kind = "remove" /\ did[t] = "nothing" /\ th[t].held = 2
      /\ th[t].cur \in Inner /\ th[t].nxt \in Outer
      /\ op[t].kind = IF Found(t) THEN "remove" ELSE "insert"
      /\ ~removed[th[t].cur] /\ next[th[t].cur] = th[t].nxt
      /\ th[t].nn = next[th[t].nxt] /\ removed[th[t].nxt]
  BY <1>1 DEF Local, Sure, Ahead
<1>3. th[t].cur \in Reach  BY <1>1, <1>2, ReachFacts DEF RemovedInv, Inner
<1>4. Found(t)  BY <1>2
<1>5. th[t].nxt \in Used /\ key[th[t].nxt] = op[t].key  BY <1>2, <1>4 DEF Found, Outer
<1> QED  BY <1>2, <1>3, <1>5

\* The store of remove keeps the invariant.
LEMMA ShortcutKept ==
  ASSUME IInv, NEW t \in Threads, Shortcut(t)
  PROVE  IInv'
<1> DEFINE c == th[t].cur
           y == th[t].nxt
           x == [th[t] EXCEPT !.pc = "retire"]
<1>1. /\ Types /\ SortInv /\ ReachInv /\ RemovedInv /\ RetiredInv /\ LockInv
      /\ Local(t)
  BY LocalOf DEF IInv
<1>2. /\ th[t].pc = "shortcut" /\ th' = [th EXCEPT ![t] = x]
      /\ UNCHANGED <<key, value, removed, lck, retired>> /\ Does(t, "removed", Contents')
      /\ next' = [next EXCEPT ![c] = th[t].nn]
  BY DEF Shortcut
<1>3. /\ c \in Reach /\ next[c] = y /\ op[t].kind = "remove" /\ op[t] \in Requests
      /\ y \in Used /\ removed[y] /\ th[t].nn = next[y] /\ th[t].held = 2 /\ did[t] = "nothing"
  BY <1>2, ShortcutFacts
<1>4. next' = [next EXCEPT ![c] = next[y]]  BY <1>2, <1>3
<1>5. th[t] \in Locals /\ c \in All /\ y \in All  BY <1>1, ThTypes
<1>6. /\ x \in Locals /\ x.pc = "retire" /\ x.res = th[t].res /\ x.held = th[t].held
      /\ x.cur = th[t].cur /\ x.nxt = th[t].nxt
  BY <1>5 DEF Locals, Pcs
<1>7. c = th[t].cur /\ y = th[t].nxt  OBVIOUS
<1> HIDE DEF c, y, x
<1>8. /\ next' \in [All -> All] /\ Reach' = Reach \ {y} /\ Used' = Used /\ y \in Reach
      /\ SortInv' /\ ReachInv' /\ RemovedInv' /\ RetiredInv'
      /\ \A m \in All : m # c => next'[m] = next[m]
  BY <1>1, <1>2, <1>3, <1>4, CutList
<1>9. key' = key /\ value' = value /\ removed' = removed /\ retired' = retired  BY <1>2
<1>10. Inner \subseteq All /\ Inner' = Inner /\ Outer' = Outer
  BY <1>1, <1>8, UsedFacts DEF Inner, Outer
<1>11. c # y
  <2>1. c \in Inner /\ Before(c, y) /\ y # Tail /\ y # Root
    BY <1>1, <1>2, <1>3, <1>7, UsedFacts DEF Local
  <2> QED  BY <1>1, <1>3, <2>1, UsedFacts DEF Before
<1>12. \A m \in Inner : m \notin Reach' => next'[m] = next[m]  BY <1>3, <1>8, <1>10, <1>11
<1>13. ASSUME NEW u \in Threads, u # t, NEW m \in All, Holds(u, m)  PROVE next'[m] = next[m]
  <2>1. Holds(t, c)  BY <1>3, <1>7 DEF Holds
  <2>2. m # c  BY <1>1, <1>5, <1>13, <2>1, Exclusive
  <2> QED  BY <1>8, <2>2
<1>14. retired[y] = 0
  <2>1. y \in Nodes  BY <1>1, <1>3, UsedFacts
  <2> QED  BY <1>1, <1>8, <2>1 DEF RetiredInv
<1>15. Local(t)'
  <2>1. th'[t] = x  BY <1>1, <1>2 DEF Types
  <2>2. op'[t] = op[t] /\ did'[t] = "removed"  BY <1>1, <1>2 DEF Does, Types
  <2> QED
    BY <1>1, <1>2, <1>3, <1>6, <1>7, <1>8, <1>9, <1>10, <1>14, <2>1, <2>2
       DEF Local, Below, Before, StopsAt, AnswerAt, Found, Sure, Ahead
<1>16. \A m \in Used : m \in Used' /\ key'[m] = key[m] /\ value'[m] = value[m]  BY <1>8, <1>9
<1>17. \A m \in Used : m \notin Reach => m \notin Reach'  BY <1>8
<1>18. "removed" \in Deeds  BY DEF Deeds
<1>19. key' \in [Nodes -> Keys \cup {None}] /\ value' \in [Nodes -> Values \cup {None}]
  BY <1>1, <1>9 DEF Types
<1> QED
  BY <1>2, <1>6, <1>8, <1>9, <1>12, <1>13, <1>15, <1>16, <1>17, <1>18, <1>19, UpdateKept

-----------------------------------------------------------------------------
\* A set of natural numbers that is not empty has a least one.
LEMMA LeastOf ==
  ASSUME NEW S, S \subseteq Nat, S # {}
  PROVE  \E m \in S : \A n \in S : m <= n
<1> DEFINE R == OpToRel(<, Nat)
<1>1. IsWellFoundedOn(R, Nat)  BY NatLessThanWellFounded
<1>2. PICK m \in S : \A y \in S : ~(<<y, m>> \in R)
  <2> HIDE DEF R
  <2> QED  BY <1>1, WFMin
<1>3. \A y \in Nat : y < m => <<y, m>> \in R
  <2> SUFFICES ASSUME NEW y \in Nat, y < m  PROVE <<y, m>> \in R
    OBVIOUS
  <2>1. <<y, m>> \in Nat \X Nat  OBVIOUS
  <2>2. <<y, m>>[1] < <<y, m>>[2]  OBVIOUS
  <2> QED  BY <2>1, <2>2, Zenon DEF OpToRel
<1>4. \A y \in S : ~(y < m)
  <2> HIDE DEF R
  <2> QED  BY <1>2, <1>3, Zenon
<1>5. \A y \in S : m <= y  BY <1>4
<1> QED  BY <1>5, Zenon

\* The keys that a map has.
Present(m) == {k \in Keys : m[k] # None}

\* NextKey is the least of the keys that come after n, or tail.
LEMMA NextKeyFacts ==
  ASSUME NEW m, NEW n \in Nat
  PROVE  \/ NextKey(m, n) = Tail /\ \A k \in Present(m) : ~(k > n)
         \/ /\ NextKey(m, n) \in Present(m) /\ NextKey(m, n) > n
            /\ \A k \in Present(m) : k > n => NextKey(m, n) <= k
<1> DEFINE later == {k \in Keys : m[k] # None /\ k > n}
<1>1. NextKey(m, n) = IF later = {} THEN Tail ELSE CHOOSE k \in later : \A l \in later : k <= l
  BY Zenon DEF NextKey
<1>2. \A k : k \in later <=> k \in Present(m) /\ k > n  BY DEF Present
<1>3. later \subseteq Nat  BY NodesLemma
<1> HIDE DEF later
<1>4. CASE later = {}  BY <1>1, <1>2, <1>4
<1>5. CASE later # {}
  <2>1. \E k \in later : \A l \in later : k <= l  BY <1>3, <1>5, LeastOf
  <2>2. NextKey(m, n) \in later /\ \A l \in later : NextKey(m, n) <= l
    BY <1>1, <1>5, <2>1, Zenon
  <2> QED  BY <1>2, <2>2
<1> QED  BY <1>4, <1>5

\* The list that the chains of NextKey make has every key of the map.
LEMMA AllReached ==
  ASSUME NEW m, NEW nx \in Succs,
         \A n \in Present(m) \cup {Root} : nx[n] = NextKey(m, n)
  PROVE  ReachIn(nx) = Present(m) \cup {Root}
<1> DEFINE P == Present(m)
           R == ReachIn(nx)
<1>1. P \subseteq Keys /\ P \subseteq Nat /\ P \subseteq Nodes  BY NodesLemma DEF Present
<1>2. \A n \in P \cup {Root} : n \in Nat /\ nx[n] = NextKey(m, n)  BY <1>1 DEF Root
<1>3. \A n \in P : n # Root /\ n # Tail  BY <1>1, NodesLemma
<1>4. R \subseteq P \cup {Root}
  <2>1. P \cup {Root} \in SUBSET (Nodes \cup {Root}) /\ Root \in P \cup {Root}  BY <1>1
  <2>2. \A n \in P \cup {Root} : nx[n] = Tail \/ nx[n] \in P
    <3>1. ASSUME NEW n \in P \cup {Root}  PROVE nx[n] = Tail \/ nx[n] \in P
      <4>1. n \in Nat /\ nx[n] = NextKey(m, n)  BY <1>2
      <4> QED  BY <4>1, NextKeyFacts
    <3> QED  BY <3>1
  <2>3. ClosedIn(nx, P \cup {Root})  BY <2>2 DEF ClosedIn
  <2> HIDE DEF P
  <2> QED  BY <2>1, <2>3, LeastReach
<1>5. Root \in R /\ ClosedIn(nx, R)  BY InReach
<1> HIDE DEF R
<1>6. P \subseteq R
  <2>1. SUFFICES ASSUME P \ R # {}  PROVE FALSE
    OBVIOUS
  <2> DEFINE B == P \ R
  <2>2. B \subseteq Nat /\ B # {}  BY <1>1, <2>1
  <2>3. PICK k \in B : \A l \in B : k <= l
    <3> HIDE DEF B
    <3> QED  BY <2>2, LeastOf
  <2>4. k \in P /\ k \notin R /\ k \in Nat /\ k > 0
    <3>1. k \in P /\ k \notin R /\ k \in Nat /\ k # Root  BY <1>1, <1>3
    <3> QED  BY <3>1 DEF Root
  <2>5. \A l \in P : l < k => l \in R
    <3>1. ASSUME NEW l \in P, l < k, l \notin R  PROVE FALSE
      <4>1. l \in B /\ l \in Nat  BY <1>1, <3>1
      <4>2. k <= l  BY <2>3, <4>1
      <4> QED  BY <2>4, <3>1, <4>1, <4>2
    <3> QED  BY <3>1
  <2> DEFINE D == {d \in Nat : d > 0 /\ d <= k /\ k - d \in P \cup {Root}}
  <2>6. k \in D
    <3>1. k - k = Root  BY <2>4 DEF Root
    <3> QED  BY <2>4, <3>1
  <2>7. PICK d \in D : \A e \in D : d <= e
    <3>1. D \subseteq Nat /\ D # {}  BY <2>6
    <3> HIDE DEF D
    <3> QED  BY <3>1, LeastOf
  <2> DEFINE p == k - d
  <2>8. d \in Nat /\ p \in P \cup {Root} /\ p \in Nat /\ p < k  BY <2>4, <2>7
  <2>9. p \in R  BY <1>5, <2>5, <2>8
  <2>10. nx[p] = NextKey(m, p)  BY <1>2, <2>8
  <2>11. \A l \in P : l < k => l <= p
    <3>1. ASSUME NEW l \in P, l < k  PROVE l <= p
      <4>1. l \in Nat /\ k - l \in Nat /\ k - l > 0 /\ k - l <= k /\ k - (k - l) = l
        BY <1>1, <2>4, <3>1
      <4>2. k - l \in D  BY <4>1
      <4>3. d <= k - l  BY <2>7, <4>2
      <4> QED  BY <2>4, <2>8, <4>1, <4>3
    <3> QED  BY <3>1
  <2> HIDE DEF p, D, B
  <2>12. NextKey(m, p) \in P /\ NextKey(m, p) > p /\ NextKey(m, p) <= k
    BY <2>4, <2>8, NextKeyFacts
  <2>13. NextKey(m, p) = k
    <3>1. NextKey(m, p) \in Nat  BY <1>1, <2>12
    <3> QED  BY <2>4, <2>8, <2>11, <2>12, <3>1
  <2>14. k # Tail  BY <1>3, <2>4
  <2> QED  BY <1>5, <2>4, <2>9, <2>10, <2>13, <2>14 DEF ClosedIn
<1> QED  BY <1>4, <1>5, <1>6 DEF R

\* The invariant holds at first.
LEMMA InitIInv == Init => IInv
<1> SUFFICES ASSUME Init  PROVE IInv
  OBVIOUS
<1>1. PICK m \in Initial :
        /\ key = [n \in Nodes |-> IF n \in Keys /\ m[n] # None THEN n ELSE None]
        /\ value = [n \in Nodes |-> IF n \in Keys THEN m[n] ELSE None]
        /\ next = [n \in All |-> IF n = Tail THEN Root
                                 ELSE IF n = Root \/ key[n] # None THEN NextKey(m, n)
                                 ELSE Tail]
  BY Zenon DEF Init
<1>2. /\ removed = [n \in All |-> FALSE] /\ lck = [n \in All |-> Unlocked]
      /\ retired = [n \in Nodes |-> 0] /\ th = [t \in Threads |-> Idle]
      /\ calls = [t \in Threads |-> 0] /\ op = [t \in Threads |-> NoCall]
      /\ seen = [t \in Threads |-> {}] /\ did = [t \in Threads |-> "nothing"]
      /\ ret = [t \in Threads |-> [ok |-> FALSE, val |-> None]]
  BY DEF Init, HistInit
<1> DEFINE P == Present(m)
<1>3. m \in [Keys -> Values \cup {None}]  BY InitialAssumption
<1>4. /\ Root \notin Nodes /\ Tail \notin Nodes /\ Keys \subseteq Nat /\ None \notin Keys
      /\ All = Nodes \cup {Root, Tail} /\ Keys \subseteq Nodes /\ Root # Tail
  BY NodesLemma, NodesAssumption DEF Root
<1>5. P \subseteq Keys /\ P \subseteq Nat /\ P \subseteq Nodes  BY <1>4 DEF Present
<1>6. \A n \in Nodes : n \in P <=> n \in Keys /\ m[n] # None  BY <1>4 DEF Present
<1>7. /\ key \in [Nodes -> Keys \cup {None}]
      /\ \A n \in Nodes : key[n] = IF n \in P THEN n ELSE None
  BY <1>1, <1>6
<1>8. /\ value \in [Nodes -> Values \cup {None}] /\ \A n \in P : value[n] \in Values
  <2>1. \A n \in Nodes : (IF n \in Keys THEN m[n] ELSE None) \in Values \cup {None}  BY <1>3
  <2>2. value \in [Nodes -> Values \cup {None}]  BY <1>1, <2>1
  <2>3. \A n \in P : value[n] = m[n] /\ m[n] # None  BY <1>1, <1>5, <1>6
  <2> QED  BY <1>5, <2>2, <2>3
<1>9. Used = P  BY <1>4, <1>5, <1>7 DEF Used
<1> HIDE DEF P
<1>10. /\ \A n \in P \cup {Root} : next[n] = NextKey(m, n) /\ n \in Nat /\ n \in All
       /\ \A n \in Nodes : n \notin P => next[n] = Tail
       /\ next[Tail] = Root
  <2>1. ASSUME NEW n \in P \cup {Root}  PROVE next[n] = NextKey(m, n) /\ n \in Nat /\ n \in All
    <3>1. n \in All /\ n # Tail /\ n \in Nat  BY <1>4, <1>5 DEF Root
    <3>2. n = Root \/ key[n] # None  BY <1>4, <1>5, <1>7
    <3> QED  BY <1>1, <3>1, <3>2
  <2>2. ASSUME NEW n \in Nodes, n \notin P  PROVE next[n] = Tail
    <3>1. n \in All /\ n # Root /\ n # Tail /\ key[n] = None  BY <1>4, <1>7, <2>2
    <3> QED  BY <1>1, <3>1
  <2>3. Tail \in All  BY <1>4
  <2> QED  BY <1>1, <2>1, <2>2, <2>3
<1>11. ASSUME NEW n \in P \cup {Root}
       PROVE  \/ next[n] = Tail /\ \A k \in P : ~(k > n)
              \/ /\ next[n] \in P /\ next[n] > n
                 /\ \A k \in P : k > n => next[n] <= k
  BY <1>10, NextKeyFacts DEF P
<1>12. next \in [All -> All]
  <2>1. ASSUME NEW n \in All  PROVE next[n] \in All
    <3>1. CASE n \in P \cup {Root}  BY <1>4, <1>5, <1>11, <3>1
    <3>2. CASE n \in Nodes /\ n \notin P  BY <1>4, <1>10, <3>2
    <3>3. CASE n = Tail  BY <1>4, <1>10, <3>3
    <3> QED  BY <1>4, <3>1, <3>2, <3>3
  <2>2. next = [n \in All |-> next[n]]  BY <1>1
  <2> QED  BY <2>1, <2>2
<1>13. Reach = P \cup {Root}
  <2>1. next \in Succs  BY <1>12 DEF Succs
  <2>2. \A n \in Present(m) \cup {Root} : next[n] = NextKey(m, n)  BY <1>10 DEF P
  <2> QED  BY <2>1, <2>2, AllReached, ReachLemma DEF P
<1>14. Types
  <2>1. th \in [Threads -> Locals]  BY <1>2, IdleLemma
  <2>2. lck \in [All -> LockWords]
    <3>1. Unlocked \in LockWords  BY DEF LockWords, Unlocked
    <3> QED  BY <1>2, <3>1
  <2>3. did \in [Threads -> Deeds]  BY <1>2 DEF Deeds
  <2>4. ret \in [Threads -> [ok : BOOLEAN, val : Values \cup {None}]]  BY <1>2
  <2> QED  BY <1>2, <1>7, <1>8, <1>12, <2>1, <2>2, <2>3, <2>4 DEF Types
<1>15. SortInv
  <2>1. ASSUME NEW n \in Inner  PROVE next[n] \in Outer /\ Before(n, next[n])
    <3>1. n \in P \cup {Root}  BY <1>9 DEF Inner
    <3>2. n # Root => key[n] = n  BY <1>5, <1>7, <3>1
    <3>3. \A k \in P : key[k] = k /\ k \in Nat  BY <1>5, <1>7
    <3> QED  BY <1>9, <1>10, <1>11, <3>1, <3>2, <3>3 DEF Outer, Before
  <2> QED  BY <1>8, <1>9, <1>10, <2>1 DEF SortInv
<1>16. ReachInv
  <2>1. Reach \subseteq Inner  BY <1>9, <1>13 DEF Inner
  <2>2. \A n \in P : key[n] = n /\ n \in Nat /\ n # Root /\ n # Tail  BY <1>4, <1>5, <1>7
  <2>3. ASSUME NEW n \in Reach, NEW k \in Reach \ {Root}, Before(n, k)
        PROVE  next[n] = k \/ (next[n] # Tail /\ Before(next[n], k))
    <3>1. n \in P \cup {Root} /\ k \in P /\ n \in Nat  BY <1>10, <1>13
    <3>2. k > n
      <4>1. CASE n = Root
        <5>1. k \in Nat /\ k # 0  BY <2>2, <3>1 DEF Root
        <5> QED  BY <4>1, <5>1 DEF Root
      <4>2. CASE n # Root  BY <2>2, <2>3, <3>1, <4>2 DEF Before
      <4> QED  BY <4>1, <4>2
    <3>3. next[n] \in P /\ next[n] <= k  BY <1>11, <3>1, <3>2
    <3>4. next[n] # Tail /\ key[next[n]] = next[n] /\ key[k] = k /\ next[n] \in Nat /\ k \in Nat
      BY <2>2, <3>1, <3>3
    <3>5. next[n] # k => next[n] < k  BY <3>3, <3>4
    <3>6. next[n] # k => key[next[n]] < key[k]  BY <3>4, <3>5
    <3> QED  BY <3>4, <3>6 DEF Before
  <2>4. \A n, k \in Reach \ {Root} : key[n] = key[k] => n = k  BY <1>13, <2>2
  <2> QED  BY <2>1, <2>3, <2>4 DEF ReachInv
<1>17. RemovedInv
  <2>1. \A n \in All : ~removed[n]  BY <1>2
  <2>2. Root \in All /\ Nodes \subseteq All  BY <1>4
  <2>3. Used \ Reach = {}  BY <1>9, <1>13
  <2> QED  BY <2>1, <2>2, <2>3 DEF RemovedInv
<1>18. RetiredInv  BY <1>2 DEF RetiredInv
<1>19. \A t \in Threads : th[t] = Idle /\ op[t] = NoCall /\ did[t] = "nothing"  BY <1>2
<1>20. LockInv
  <2>1. \A n \in All : lck[n].count = 0 /\ CountMod > 0
    BY <1>2, CountModAssumption DEF Unlocked
  <2>2. \A t \in Threads : \A n \in All : ~Holds(t, n)  BY <1>19, IdleLemma DEF Holds
  <2> QED  BY <2>1, <2>2 DEF LockInv
<1>21. LocalInv  BY <1>19, IdleLemma DEF LocalInv, Local, Sure, Ahead
<1>22. TrailInv  BY <1>19, IdleLemma DEF TrailInv
<1>23. SeenInv  BY <1>19 DEF SeenInv, InCall, NoCall
<1> QED
  BY <1>14, <1>15, <1>16, <1>17, <1>18, <1>20, <1>21, <1>22, <1>23 DEF IInv

-----------------------------------------------------------------------------
\* Every step of a thread keeps the invariant.
LEMMA StepKept ==
  ASSUME IInv, NEW t \in Threads, Step(t)
  PROVE  IInv'
<1>1. CASE Start(t)  BY <1>1, StartKept
<1>2. CASE Walk(t)  BY <1>2, WalkKept
<1>3. CASE Located(t)  BY <1>3, LocatedKept
<1>4. CASE ValidateNext(t)  BY <1>4, ValidateNextKept
<1>5. CASE Validated(t)  BY <1>5, ValidatedKept
<1>6. CASE LockLoad(t)  BY <1>6, LockLoadKept
<1>7. CASE LockCas(t)  BY <1>7, LockCasKept
<1>8. CASE CheckRemoved(t)  BY <1>8, CheckRemovedKept
<1>9. CASE CheckNext(t)  BY <1>9, CheckNextKept
<1>10. CASE Splice(t)  BY <1>10, SpliceKept
<1>11. CASE LoadNext(t)  BY <1>11, LoadNextKept
<1>12. CASE Mark(t)  BY <1>12, MarkKept
<1>13. CASE Shortcut(t)  BY <1>13, ShortcutKept
<1>14. CASE Retire(t)  BY <1>14, RetireKept
<1>15. CASE Unlock(t)  BY <1>15, UnlockKept
<1>16. CASE Finish(t)  BY <1>16, FinishKept
<1> QED
  BY <1>1, <1>2, <1>3, <1>4, <1>5, <1>6, <1>7, <1>8, <1>9, <1>10, <1>11, <1>12, <1>13,
     <1>14, <1>15, <1>16 DEF Step

\* The invariant holds when nothing changes.
LEMMA StutterKept ==
  ASSUME IInv, UNCHANGED vars
  PROVE  IInv'
<1>1. /\ next' = next /\ key' = key /\ value' = value /\ removed' = removed /\ lck' = lck
      /\ retired' = retired /\ th' = th /\ calls' = calls /\ op' = op /\ seen' = seen
      /\ did' = did /\ ret' = ret
  BY DEF vars, heap, hist
<1>2. Types'  BY <1>1 DEF IInv, Types
<1>3. Reach' = Reach /\ Used' = Used /\ Inner' = Inner /\ Outer' = Outer
  BY <1>1, ReachSame DEF Used, Inner, Outer
<1>4. SortInv'  BY <1>1, <1>3 DEF IInv, SortInv, Before
<1>5. ReachInv'  BY <1>1, <1>3 DEF IInv, ReachInv, Before
<1>6. RemovedInv' /\ RetiredInv'  BY <1>1, <1>3 DEF IInv, RemovedInv, RetiredInv
<1>7. LockInv'  BY <1>1 DEF IInv, LockInv, Holds
<1>8. LocalInv'
  <2>1. ASSUME NEW u \in Threads  PROVE Local(u)'
    <3>1. Types /\ Local(u)  BY LocalOf
    <3> QED  BY <1>1, <3>1, BystanderQuiet
  <2> QED  BY <2>1 DEF LocalInv
<1>9. TrailInv'
  <2>1. ASSUME NEW u \in Threads, th'[u].pc = "walk"  PROVE Trail(u)'
    <3>1. Trail(u)  BY <1>1, <2>1 DEF IInv, TrailInv
    <3> QED  BY <1>1, <3>1, TrailQuiet
  <2> QED  BY <2>1 DEF TrailInv
<1>10. SeenInv'
  <2>1. Contents' = Contents  BY <1>1, ContentsSame
  <2> QED  BY <1>1, <2>1 DEF IInv, SeenInv, InCall
<1> QED  BY <1>2, <1>4, <1>5, <1>6, <1>7, <1>8, <1>9, <1>10 DEF IInv

\* The invariant is inductive.
LEMMA NextKept == IInv /\ [Next]_vars => IInv'
<1> SUFFICES ASSUME IInv, [Next]_vars  PROVE IInv'
  OBVIOUS
<1>1. ASSUME NEW t \in Threads, Step(t)  PROVE IInv'  BY <1>1, StepKept
<1>2. ASSUME NEW t \in Threads, NEW call \in Menu[t], Call(t, call)  PROVE IInv'
  BY <1>2, CallKept
<1>3. CASE UNCHANGED vars  BY <1>3, StutterKept
<1> QED  BY <1>1, <1>2, <1>3 DEF Next

\* The invariant holds throughout.
LEMMA Invariant == Spec => []IInv
<1>1. Init => IInv  BY InitIInv
<1>2. IInv /\ [Next]_vars => IInv'  BY NextKept
<1> QED  BY <1>1, <1>2, PTL DEF Spec

-----------------------------------------------------------------------------
\* Nodes are retired safely: remove gives a node to retire once, and only after
\* its store to `next' has taken it off the list, so an operation that starts
\* after that cannot get to it; whatever other inserts and removes do next to it
\* (RetiredSafely).
THEOREM NodesRetiredSafely == Spec => []RetiredSafely
<1>1. IInv => RetiredSafely  BY DEF IInv, RetiredInv, RetiredSafely
<1> QED  BY <1>1, Invariant, PTL

\* The keys grow along the list at every moment: check() finds nothing to abort
\* for, however inserts and removes interleave (Sorted).
THEOREM ListStaysSorted == Spec => []Sorted
<1>1. IInv => Sorted
  <2> SUFFICES ASSUME IInv, NEW n \in Reach \ {Root}, next[n] # Tail
               PROVE  key[n] < key[next[n]]
    BY DEF Sorted
  <2>1. n \in Inner  BY DEF IInv, ReachInv
  <2>2. Before(n, next[n])  BY <2>1 DEF IInv, SortInv
  <2> QED  BY <2>2 DEF Before
<1> QED  BY <1>1, Invariant, PTL

-----------------------------------------------------------------------------
\* MapHit and MapMiss as one statement about a state.
LEMMA ContentsFacts ==
  Types /\ ReachInv =>
    \A k \in Keys :
      /\ \A n \in Reach \ {Root} : key[n] = k => Contents[k] = value[n]
      /\ (\A n \in Reach \ {Root} : key[n] # k) => Contents[k] = None
<1> SUFFICES ASSUME Types, ReachInv, NEW k \in Keys
             PROVE  /\ \A n \in Reach \ {Root} : key[n] = k => Contents[k] = value[n]
                    /\ (\A n \in Reach \ {Root} : key[n] # k) => Contents[k] = None
  OBVIOUS
<1>1. \A n \in Reach \ {Root} : key[n] = k => Contents[k] = value[n]  BY MapHit
<1>2. (\A n \in Reach \ {Root} : key[n] # k) => Contents[k] = None  BY MapMiss
<1> QED  BY <1>1, <1>2

\* The same in the next state.
LEMMA ContentsFactsNext ==
  (Types /\ ReachInv)' =>
    (\A k \in Keys :
       /\ \A n \in Reach \ {Root} : key[n] = k => Contents[k] = value[n]
       /\ (\A n \in Reach \ {Root} : key[n] # k) => Contents[k] = None)'
BY ContentsFacts, PTL

\* The map changes at one key.
LEMMA ContentsChange ==
  ASSUME IInv, IInv', NEW k \in Keys, NEW v,
         Contents'[k] = v,
         \A n \in Reach \ {Root} : key[n] # k =>
           n \in Reach' /\ key'[n] = key[n] /\ value'[n] = value[n],
         \A n \in Reach' \ {Root} : key'[n] # k => n \in Reach /\ key'[n] = key[n]
  PROVE  Contents' = [Contents EXCEPT ![k] = v]
<1>1. /\ Contents \in [Keys -> Values \cup {None}] /\ Contents' \in [Keys -> Values \cup {None}]
  BY ContentsTypes, ContentsTypesNext DEF IInv, Types
<1>2. ASSUME NEW l \in Keys, l # k  PROVE Contents'[l] = Contents[l]
  <2>1. /\ \A n \in Reach \ {Root} : key[n] = l => Contents[l] = value[n]
        /\ (\A n \in Reach \ {Root} : key[n] # l) => Contents[l] = None
    BY ContentsFacts DEF IInv
  <2>2. /\ \A n \in Reach' \ {Root} : key'[n] = l => Contents'[l] = value'[n]
        /\ (\A n \in Reach' \ {Root} : key'[n] # l) => Contents'[l] = None
    BY ContentsFactsNext DEF IInv
  <2>3. CASE \E n \in Reach \ {Root} : key[n] = l
    <3>1. PICK n \in Reach \ {Root} : key[n] = l  BY <2>3
    <3>2. n \in Reach' /\ key'[n] = l /\ value'[n] = value[n]  BY <1>2, <3>1
    <3> QED  BY <2>1, <2>2, <3>1, <3>2
  <2>4. CASE \A n \in Reach \ {Root} : key[n] # l
    <3>1. \A n \in Reach' \ {Root} : key'[n] # l  BY <1>2, <2>4
    <3> QED  BY <2>1, <2>2, <2>4, <3>1
  <2> QED  BY <2>3, <2>4
<1> QED  BY <1>1, <1>2

\* A store that changes the map at the key of the call is its effect.
LEMMA EffectStep ==
  ASSUME IInv, NEW t \in Threads, NEW what \in {"inserted", "removed"},
         NEW v \in Values \cup {None}, op[t] \in Requests, did[t] = "nothing",
         Does(t, what, Contents'), Abs!May(t, v, what),
         Contents' = [Contents EXCEPT ![op[t].key] = v]
  PROVE  Abs!Next
<1>1. /\ op' = op /\ ret' = ret /\ did' = [did EXCEPT ![t] = what]
      /\ seen' = [u \in Threads |->
           IF InCall(u) THEN seen[u] \cup {Contents'[op[u].key]} ELSE seen[u]]
  BY DEF Does
<1>2. InCall(t)  BY RequestFacts DEF InCall
<1>3. seen' = [u \in Threads |->
         IF Abs!InCall(u) THEN seen[u] \cup {Contents'[op[u].key]} ELSE seen[u]]
  BY <1>1 DEF Abs!InCall, InCall
<1>4. \E w \in Values \cup {None}, d \in {"inserted", "updated", "removed"} :
         /\ did' = [did EXCEPT ![t] = d]
         /\ Abs!May(t, w, d)
         /\ Contents' = [Contents EXCEPT ![op[t].key] = w]
  BY <1>1
<1>5. Abs!Effect(t)
  BY <1>1, <1>2, <1>3, <1>4 DEF Abs!Effect, Abs!InCall, InCall
<1> QED  BY <1>5 DEF Abs!Next

\* The store of insert is its effect on the map.
LEMMA SpliceStep ==
  ASSUME IInv, NEW t \in Threads, Splice(t)
  PROVE  Abs!Next
<1> DEFINE c == th[t].cur
           k == op[t].key
           v == op[t].val
<1>1. /\ Types /\ SortInv /\ ReachInv /\ RemovedInv /\ RetiredInv  BY DEF IInv
<1>2. IInv'  BY SpliceKept
<1>3. /\ th[t].pc = "splice" /\ UNCHANGED <<removed, lck, retired>>
      /\ Does(t, "inserted", Contents')
  BY DEF Splice
<1>4. /\ c \in Reach /\ next[c] = th[t].nxt /\ op[t].kind = "insert" /\ k \in Keys
      /\ v \in Values /\ Below(c, k) /\ (next[c] = Tail \/ key[next[c]] > k)
      /\ op[t] \in Requests /\ did[t] = "nothing"
  BY <1>3, SpliceFacts
<1>5. PICK n \in Nodes : /\ key[n] = None /\ key' = [key EXCEPT ![n] = k]
                         /\ value' = [value EXCEPT ![n] = v]
                         /\ next' = [next EXCEPT ![n] = next[c], ![c] = n]
  BY <1>4 DEF Splice
<1>6. n \notin Used /\ n # Root  BY <1>5, NodesLemma DEF Used
<1>7. Abs!May(t, v, "inserted") <=> Contents[k] = None
  BY <1>4 DEF Abs!May
<1>8. k = op[t].key  OBVIOUS
<1> HIDE DEF c, k, v
<1>9. /\ Reach' = Reach \cup {n} /\ key'[n] = k /\ value'[n] = v
      /\ \A m \in Used : key'[m] = key[m] /\ value'[m] = value[m]
  BY <1>1, <1>3, <1>4, <1>5, <1>6, SpliceList
<1>10. Contents[k] = None
  <2>1. \A m \in Reach \ {Root} : key[m] # k  BY <1>1, <1>4, GapMiss
  <2> QED  BY <1>1, <1>4, <2>1, MapMiss
<1>11. Contents'[k] = v
  <2>1. \A m \in Reach' \ {Root} : key'[m] = k => Contents'[k] = value'[m]
    BY <1>2, <1>4, ContentsFactsNext DEF IInv
  <2> QED  BY <1>6, <1>9, <2>1
<1>12. \A m \in Reach \ {Root} : m \in Used  BY <1>1 DEF ReachInv, Inner
<1>13. Contents' = [Contents EXCEPT ![k] = v]
  <2>1. \A m \in Reach \ {Root} : m \in Reach' /\ key'[m] = key[m] /\ value'[m] = value[m]
    BY <1>9, <1>12
  <2>2. \A m \in Reach' \ {Root} : key'[m] # k => m \in Reach /\ key'[m] = key[m]
    BY <1>9, <1>12
  <2> QED  BY <1>2, <1>4, <1>11, <2>1, <2>2, ContentsChange
<1> QED  BY <1>3, <1>4, <1>7, <1>8, <1>10, <1>13, EffectStep

\* The store of remove is its effect on the map.
LEMMA ShortcutStep ==
  ASSUME IInv, NEW t \in Threads, Shortcut(t)
  PROVE  Abs!Next
<1> DEFINE c == th[t].cur
           k == op[t].key
           y == th[t].nxt
<1>1. /\ Types /\ SortInv /\ ReachInv /\ RemovedInv /\ RetiredInv  BY DEF IInv
<1>2. IInv'  BY ShortcutKept
<1>3. /\ th[t].pc = "shortcut" /\ key' = key /\ value' = value /\ removed' = removed
      /\ retired' = retired /\ Does(t, "removed", Contents')
      /\ next' = [next EXCEPT ![c] = th[t].nn]
  BY DEF Shortcut
<1>4. /\ c \in Reach /\ next[c] = y /\ op[t].kind = "remove" /\ op[t] \in Requests
      /\ y \in Used /\ removed[y] /\ th[t].nn = next[y] /\ did[t] = "nothing"
      /\ key[y] = k
  BY <1>3, ShortcutFacts
<1>5. next' = [next EXCEPT ![c] = next[y]] /\ k \in Keys  BY <1>3, <1>4, RequestFacts
<1>6. Abs!May(t, None, "removed") <=> Contents[k] # None
  BY <1>4 DEF Abs!May
<1>7. k = op[t].key  OBVIOUS
<1> HIDE DEF c, k, y
<1>8. Reach' = Reach \ {y} /\ y \in Reach  BY <1>1, <1>3, <1>4, <1>5, CutList
<1>9. y # Root /\ value[y] \in Values  BY <1>1, <1>4, UsedFacts DEF SortInv
<1>10. Contents[k] # None
  <2>1. Contents[k] = value[y]  BY <1>1, <1>4, <1>5, <1>8, <1>9, MapHit
  <2> QED  BY <1>9, <2>1, NoneAssumption
<1>11. \A m \in Reach \ {Root} : key[m] = k => m = y  BY <1>1, <1>4, <1>8, <1>9 DEF ReachInv
<1>12. Contents'[k] = None
  <2>1. (\A m \in Reach' \ {Root} : key'[m] # k) => Contents'[k] = None
    BY <1>2, <1>5, ContentsFactsNext DEF IInv
  <2> QED  BY <1>3, <1>8, <1>11, <2>1
<1>13. Contents' = [Contents EXCEPT ![k] = None]
  <2>1. \A m \in Reach \ {Root} : key[m] # k =>
          m \in Reach' /\ key'[m] = key[m] /\ value'[m] = value[m]
    BY <1>3, <1>4, <1>8
  <2>2. \A m \in Reach' \ {Root} : key'[m] # k => m \in Reach /\ key'[m] = key[m]
    BY <1>3, <1>8
  <2> QED  BY <1>2, <1>5, <1>12, <2>1, <2>2, ContentsChange
<1> QED  BY <1>3, <1>4, <1>6, <1>7, <1>10, <1>13, EffectStep

-----------------------------------------------------------------------------
\* The call of t returns, and its answer is right.
Answered(t) ==
  \E ok \in BOOLEAN, val \in Values \cup {None} :
    /\ Return(t, ok, val) /\ InCall(t) /\ Abs!Right(t, ok)
    /\ op[t].kind = "find" /\ ok => val \in seen[t]

\* The answer of find_ and try_find is right.
LEMMA FindAnswered ==
  ASSUME IInv, NEW t \in Threads, th[t].pc \in {"walk", "validate2"}, Stops(t),
         op[t].kind = "find", FindAnswer(t)
  PROVE  Answered(t)
<1>1. /\ op[t] \in Requests /\ did[t] = "nothing"
      /\ Found(t) => value[th[t].nxt] \in Values /\ value[th[t].nxt] \in seen[t]
      /\ ~Found(t) => None \in seen[t]
  BY Answers
<1>2. InCall(t)  BY DEF InCall
<1>3. CASE Found(t)
  <2>1. Return(t, TRUE, value[th[t].nxt])  BY <1>3 DEF FindAnswer
  <2>2. Abs!Right(t, TRUE)  BY <1>1, <1>3, NoneAssumption DEF Abs!Right
  <2> QED  BY <1>1, <1>2, <1>3, <2>1, <2>2 DEF Answered
<1>4. CASE ~Found(t)
  <2>1. Return(t, FALSE, None)  BY <1>4 DEF FindAnswer
  <2>2. Abs!Right(t, FALSE)  BY <1>1, <1>4 DEF Abs!Right
  <2> QED  BY <1>2, <2>1, <2>2 DEF Answered
<1> QED  BY <1>3, <1>4

\* So is that of an insert or remove that finds nothing to do.
LEMMA NothingAnswered ==
  ASSUME IInv, NEW t \in Threads, th[t].pc = "validate2", op[t].kind # "find",
         Return(t, FALSE, None)
  PROVE  Answered(t)
<1>1. Local(t)  BY LocalOf
<1>2. Stops(t) /\ op[t].kind = IF Found(t) THEN "insert" ELSE "remove"
  BY <1>1 DEF Local, Stops, StopsAt
<1>3. /\ op[t] \in Requests /\ did[t] = "nothing"
      /\ Found(t) => value[th[t].nxt] \in Values /\ value[th[t].nxt] \in seen[t]
      /\ ~Found(t) => None \in seen[t]
  BY <1>2, Answers
<1>4. InCall(t)  BY <1>3, RequestFacts DEF InCall
<1>5. Abs!Right(t, FALSE)  BY <1>2, <1>3, NoneAssumption DEF Abs!Right
<1> QED  BY <1>4, <1>5 DEF Answered

\* So is that of one that has changed the map.
LEMMA FinishAnswered ==
  ASSUME IInv, NEW t \in Threads, th[t].pc = "unlock", th[t].res, Return(t, TRUE, None)
  PROVE  Answered(t)
<1>1. Local(t)  BY LocalOf
<1>2. /\ op[t] \in Requests /\ op[t].kind \in {"insert", "remove"}
      /\ did[t] \in {"inserted", "removed"}
  BY <1>1 DEF Local
<1>3. InCall(t) /\ op[t].kind # "find"  BY <1>2 DEF InCall
<1>4. Abs!Right(t, TRUE)  BY <1>2 DEF Abs!Right
<1> QED  BY <1>3, <1>4 DEF Answered

\* A step of a thread answers its call, changes the map, or does not touch it.
LEMMA StepCases ==
  ASSUME IInv, NEW t \in Threads, Step(t)
  PROVE  Answered(t) \/ Splice(t) \/ Shortcut(t) \/ UNCHANGED <<next, key, value, hist>>
<1>1. CASE Start(t)  BY <1>1 DEF Start, heap
<1>2. CASE Walk(t)  BY <1>2 DEF Walk, heap
<1>3. CASE Located(t)
  <2>1. CASE op[t].kind = "find" /\ FindAnswer(t)
    BY <1>3, <2>1, FindAnswered DEF Located
  <2>2. CASE \E pc : Goto(t, pc)  BY <2>2 DEF Goto, heap
  <2> QED  BY <1>3, <2>1, <2>2 DEF Located
<1>4. CASE ValidateNext(t)  BY <1>4 DEF ValidateNext, Goto, heap
<1>5. CASE Validated(t)
  <2>1. th[t].pc = "validate2"  BY <1>5 DEF Validated
  <2>2. Stops(t)  BY <2>1, LocalOf DEF Local, Stops, StopsAt
  <2>3. CASE op[t].kind = "find" /\ FindAnswer(t)  BY <2>1, <2>2, <2>3, FindAnswered
  <2>4. CASE op[t].kind # "find" /\ Return(t, FALSE, None)  BY <2>1, <2>4, NothingAnswered
  <2>5. CASE Goto(t, "start")  BY <2>5 DEF Goto, heap
  <2> QED  BY <1>5, <2>3, <2>4, <2>5 DEF Validated
<1>6. CASE LockLoad(t)  BY <1>6 DEF LockLoad, NotLocked, Goto, heap
<1>7. CASE LockCas(t)  BY <1>7 DEF LockCas, NotLocked, Goto, heap
<1>8. CASE CheckRemoved(t)  BY <1>8 DEF CheckRemoved, Goto, heap
<1>9. CASE CheckNext(t)  BY <1>9 DEF CheckNext, Goto, heap
<1>10. CASE LoadNext(t)  BY <1>10 DEF LoadNext, heap
<1>11. CASE Mark(t)  BY <1>11 DEF Mark
<1>12. CASE Retire(t)  BY <1>12 DEF Retire
<1>13. CASE Unlock(t)  BY <1>13 DEF Unlock
<1>14. CASE Finish(t)
  <2>1. CASE th[t].res /\ Return(t, TRUE, None)  BY <1>14, <2>1, FinishAnswered DEF Finish
  <2>2. CASE Goto(t, "start")  BY <2>2 DEF Goto, heap
  <2> QED  BY <1>14, <2>1, <2>2 DEF Finish
<1> QED
  BY <1>1, <1>2, <1>3, <1>4, <1>5, <1>6, <1>7, <1>8, <1>9, <1>10, <1>11, <1>12, <1>13,
     <1>14 DEF Step

\* The start of a call is Begin of the map.
LEMMA BeginStep ==
  ASSUME IInv, NEW t \in Threads, NEW call \in Menu[t], Call(t, call)
  PROVE  Abs!Next
<1>1. /\ call \in Requests /\ ~InCall(t)
      /\ op' = [op EXCEPT ![t] = call]
      /\ seen' = [seen EXCEPT ![t] = {Contents[call.key]}]
      /\ next' = next /\ key' = key /\ value' = value /\ did' = did /\ ret' = ret
  BY CallFacts
<1>2. Contents' = Contents  BY <1>1, ContentsSame
<1>3. call \in Abs!Calls  BY <1>1 DEF Requests, Abs!Calls, Abs!Kinds
<1>4. Abs!Begin(t, call)  BY <1>1, <1>2 DEF Abs!Begin, Abs!InCall, InCall
<1> QED  BY <1>3, <1>4 DEF Abs!Next

\* A return is End of the map.
LEMMA EndStep ==
  ASSUME IInv, NEW t \in Threads, Answered(t)
  PROVE  Abs!Next
<1>1. PICK ok \in BOOLEAN, val \in Values \cup {None} :
        Return(t, ok, val) /\ InCall(t) /\ Abs!Right(t, ok)
  BY DEF Answered
<1>2. /\ next' = next /\ key' = key /\ value' = value
      /\ op' = [op EXCEPT ![t] = NoCall] /\ seen' = [seen EXCEPT ![t] = {}]
      /\ did' = [did EXCEPT ![t] = "nothing"]
      /\ ret' = [ret EXCEPT ![t] = [ok |-> ok, val |-> val]]
  BY <1>1, ReturnFacts
<1>3. Contents' = Contents  BY <1>2, ContentsSame
<1> DEFINE r == [ok |-> ok, val |-> val]
<1>4. r \in Abs!Returns /\ r.ok = ok  BY DEF Abs!Returns
<1>5. ret' = [ret EXCEPT ![t] = r]  BY <1>2
<1> HIDE DEF r
<1>6. \E q \in Abs!Returns : Abs!Right(t, q.ok) /\ ret' = [ret EXCEPT ![t] = q]
  BY <1>1, <1>4, <1>5
<1>7. op' = [op EXCEPT ![t] = Abs!NoCall]  BY <1>2 DEF Abs!NoCall, NoCall
<1>8. Abs!End(t)  BY <1>1, <1>2, <1>3, <1>6, <1>7 DEF Abs!End, Abs!InCall, InCall
<1> QED  BY <1>8 DEF Abs!Next

\* A step on other things than the map.
LEMMA SilentStep ==
  ASSUME UNCHANGED <<next, key, value, hist>>
  PROVE  UNCHANGED Abs!mapVars
<1>1. Contents' = Contents  BY ContentsSame
<1> QED  BY <1>1 DEF hist, Abs!mapVars

\* The first states of the list are first states of the map.
LEMMA InitRefines == Init => Abs!Init
<1> SUFFICES ASSUME Init  PROVE Abs!Init
  OBVIOUS
<1>1. IInv  BY InitIInv
<1>2. Contents \in [Keys -> Values \cup {None}]  BY <1>1, ContentsTypes DEF IInv, Types
<1>3. op = [t \in Threads |-> Abs!NoCall]  BY DEF Init, HistInit, Abs!NoCall, NoCall
<1> QED  BY <1>2, <1>3 DEF Init, HistInit, Abs!Init

\* Calls on the list are linearizable: insert, remove and find take effect or are
\* answered as if at one moment between their start and their return, though
\* find_location takes no lock, walks over nodes that others cut out and retire,
\* and find_ does not even check the place it found (IsMap, that is ConcurrentMap
\* with the contents of the list for its map).
THEOREM CallsAreAtomic == Spec => IsMap
<1>1. Init => Abs!Init  BY InitRefines
<1>2. IInv /\ [Next]_vars => [Abs!Next]_Abs!mapVars
  <2> SUFFICES ASSUME IInv, [Next]_vars  PROVE [Abs!Next]_Abs!mapVars
    OBVIOUS
  <2>1. ASSUME NEW t \in Threads, Step(t)  PROVE [Abs!Next]_Abs!mapVars
    <3>1. CASE Answered(t)  BY <3>1, EndStep
    <3>2. CASE Splice(t)  BY <3>2, SpliceStep
    <3>3. CASE Shortcut(t)  BY <3>3, ShortcutStep
    <3>4. CASE UNCHANGED <<next, key, value, hist>>  BY <3>4, SilentStep
    <3> QED  BY <2>1, <3>1, <3>2, <3>3, <3>4, StepCases
  <2>2. ASSUME NEW t \in Threads, NEW call \in Menu[t], Call(t, call)  PROVE Abs!Next
    BY <2>2, BeginStep
  <2>3. CASE UNCHANGED vars  BY <2>3, SilentStep DEF vars, heap
  <2> QED  BY <2>1, <2>2, <2>3 DEF Next
<1> QED  BY <1>1, <1>2, Invariant, PTL DEF Spec, IsMap, Abs!Spec

\* A find that has a value to return ends.
Ended(u) == op[u].kind = "find" /\ ~Abs!InCall(u)' /\ ret'[u].ok

\* Then the value is one that its key had during the call.
LEMMA EndedAnswers ==
  ASSUME IInv, NEW t \in Threads, Step(t), NEW u \in Threads, Ended(u)
  PROVE  ret'[u].val \in seen[u]
<1>1. InCall(u) /\ ~InCall(u)'  BY DEF Ended, InCall, Abs!InCall
<1>2. op' # op  BY <1>1 DEF InCall
<1>3. Answered(t)
  <2>1. Splice(t) => op' = op  BY DEF Splice, Does
  <2>2. Shortcut(t) => op' = op  BY DEF Shortcut, Does
  <2>3. UNCHANGED <<next, key, value, hist>> => op' = op  BY DEF hist
  <2> QED  BY <1>2, <2>1, <2>2, <2>3, StepCases
<1>4. PICK ok \in BOOLEAN, val \in Values \cup {None} :
        Return(t, ok, val) /\ (op[t].kind = "find" /\ ok => val \in seen[t])
  BY <1>3 DEF Answered
<1>5. /\ op' = [op EXCEPT ![t] = NoCall]
      /\ ret' = [ret EXCEPT ![t] = [ok |-> ok, val |-> val]]
  BY <1>4, ReturnFacts
<1>6. Types  BY DEF IInv
<1>7. u = t
  <2>1. u # t => op'[u] = op[u]  BY <1>5, <1>6 DEF Types
  <2> QED  BY <1>1, <2>1 DEF InCall
<1>8. ret'[t].ok = ok /\ ret'[t].val = val  BY <1>5, <1>6 DEF Types
<1> QED  BY <1>4, <1>7, <1>8 DEF Ended

\* A find that succeeds returns a value that its key had at some moment of the
\* call, though the node it comes from may have been removed and retired by then
\* (FindsValue).
THEOREM FindsReturnSeenValues == Spec => FindsValue
<1>1. IInv /\ [Next]_vars =>
        [\A t \in Threads :
           op[t].kind = "find" /\ ~Abs!InCall(t)' /\ ret'[t].ok => ret'[t].val \in seen[t]
        ]_Abs!mapVars
  <2> SUFFICES ASSUME IInv, [Next]_vars, ~ UNCHANGED Abs!mapVars, NEW u \in Threads, Ended(u)
               PROVE  ret'[u].val \in seen[u]
    BY DEF Ended
  <2>1. ASSUME NEW t \in Threads, Step(t)  PROVE ret'[u].val \in seen[u]
    BY <2>1, EndedAnswers
  <2>2. ASSUME NEW t \in Threads, NEW call \in Menu[t], Call(t, call)  PROVE FALSE
    <3>1. call \in Requests /\ op' = [op EXCEPT ![t] = call]  BY <2>2, CallFacts
    <3>2. call.kind # "none"  BY <3>1, RequestFacts
    <3>3. op'[u] = IF u = t THEN call ELSE op[u]  BY <3>1 DEF IInv, Types
    <3> QED  BY <3>2, <3>3 DEF Ended, Abs!InCall
  <2>3. CASE UNCHANGED vars  BY <2>3, SilentStep DEF vars, heap
  <2> QED  BY <2>1, <2>2, <2>3 DEF Next
<1> QED  BY <1>1, Invariant, PTL DEF Spec, FindsValue, Abs!FindsValue
=============================================================================
