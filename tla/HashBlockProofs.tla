-------------------------- MODULE HashBlockProofs --------------------------
(***************************************************************************)
(* Proofs about one bucket of the hash table: a node is never larger than  *)
(* its pool allows, no node is lost, retired twice or reused while it is   *)
(* in sight, and every call is atomic, in both builds and for any number   *)
(* of threads, keys, pools and nodes.                                      *)
(*                                                                         *)
(* The invariant (IInv) has four parts.  NodeInv: a node in use holds      *)
(* every key once and comes from the pool for its number of entries.       *)
(* ShareInv: a node is in exactly one place, which is the bucket, the      *)
(* hands of the one thread that made it or that must retire it, or the     *)
(* list of retired nodes.  LockInv: only one thread is past the lock.      *)
(* LocalInv: what a thread knows at each point of its call, above all that *)
(* the node it made is the right copy of the node it loaded (Made).        *)
(* Installing that copy when the bucket still has the loaded node is then  *)
(* the effect of the call on the map, whichever build does it (Suits,      *)
(* Installs).                                                              *)
(***************************************************************************)
EXTENDS HashBlock, SequenceTheorems, FiniteSetTheorems, TLAPS

\* The types of the variables: entries, calls, node addresses, effects and
\* lock words, and the places and locals of a thread.
Entries == [key : Keys, val : Values]
Requests == [kind : {"insert", "upsert", "remove", "find"}, key : Keys, val : Values]
Addresses == Nodes \cup {Null}
Deeds == {"nothing", "inserted", "updated", "removed"}
LockWords == [count : Nat, proc : Nat]
Pcs == {"idle", "load", "validate", "reload", "cas", "lock", "take", "check",
        "store", "unlock", "retire", "destruct"}
Locals == [pc : Pcs, old : Addresses, new : Addresses, le : LockWords, res : BOOLEAN]

\* Type correctness.
Types ==
  /\ useCas \in BOOLEAN /\ ptr \in Addresses /\ lck \in LockWords
  /\ node \in [Nodes -> [pool : Nat, entries : Seq(Entries)]]
  /\ retired \in [Nodes -> Nat]
  /\ th \in [Threads -> Locals]
  /\ calls \in [Threads -> Nat]
  /\ op \in [Threads -> Requests \cup {NoCall}]
  /\ seen \in [Threads -> SUBSET (Values \cup {None})]
  /\ did \in [Threads -> Deeds]
  /\ ret \in [Threads -> [ok : BOOLEAN, val : Values \cup {None}]]

\* No key twice.
Distinct(e) == \A i, j \in 1 .. Len(e) : e[i].key = e[j].key => i = j

\* The pool that the destructor of the table, and retire_node, take a node of
\* m entries to be from.
PoolFor(m) == First({i \in Regular : m <= Sizes[i]})

\* A node as the functions that make one leave it.
Proper(x) == x.entries # <<>> /\ Distinct(x.entries) /\ x.pool = PoolFor(Len(x.entries))

\* Every node is free or as it was made: nodes do not change after that.
NodeInv == \A n \in Nodes : node[n] = Free \/ Proper(node[n])

\* Thread t has node n to give back: made and not installed, or replaced.
Gives(t, n) == th[t].new = n \/ (th[t].res /\ th[t].old = n)

\* Where a node may be: nobody knows a free node.
FreeInv ==
  \A n \in Nodes : node[n] = Free =>
    /\ ptr # n /\ retired[n] = 0
    /\ \A t \in Threads : th[t].old # n /\ th[t].new # n

\* Only the thread that made a node and has not installed it knows it.
NewInv ==
  \A t \in Threads : th[t].new # Null =>
    /\ ptr # th[t].new /\ retired[th[t].new] = 0
    /\ \A u \in Threads : th[u].old # th[t].new /\ (u # t => th[u].new # th[t].new)

\* A node that was replaced is out of the bucket and has one thread to retire it.
OldInv ==
  \A t \in Threads : th[t].res /\ th[t].old # Null =>
    /\ ptr # th[t].old /\ retired[th[t].old] = 0
    /\ \A u \in Threads : u # t => ~(th[u].res /\ th[u].old = th[t].old)

\* A node in use is in the bucket, retired, or in the hands of a thread.
RestInv ==
  \A n \in Nodes :
    /\ retired[n] \in {0, 1}
    /\ ptr = n => retired[n] = 0
    /\ node[n] = Free \/ ptr = n \/ retired[n] = 1 \/ \E t \in Threads : Gives(t, n)

\* Where nodes are.
ShareInv == FreeInv /\ NewInv /\ OldInv /\ RestInv

\* The places at which a thread has the lock, and the lock word then.
Holding == {"check", "store", "unlock"}
LockInv ==
  /\ lck.count < CountMod
  /\ \A t \in Threads : th[t].pc \in Holding => IsLocked(lck) /\ IsSelfLocked(lck, t)

\* The copy of the thread follows from the node it loaded and its call.
Made(t) ==
  LET o == th[t].old  n == th[t].new  k == op[t].key  i == FindIndex(o, k) IN
  CASE op[t].kind = "remove" ->
         /\ i # 0
         /\ IF Cnt(o) = 1 THEN n = Null ELSE n # Null /\ node[n] = RemoveFromNode(o, k)
    [] op[t].kind = "upsert" /\ i # 0 ->
         IF useCas THEN n # Null /\ node[n] = UpdateNode(o, k, op[t].val) ELSE n = Null
    [] OTHER ->
         /\ i = 0 /\ op[t].kind \in {"insert", "upsert"}
         /\ n # Null /\ node[n] = InsertToNode(o, k, op[t].val)

\* What is true at each point of a call.
Local(t) ==
  /\ th[t].pc = "idle" => op[t] = NoCall /\ th[t] = Idle
  /\ th[t].pc # "idle" => op[t] \in Requests
  /\ th[t].pc = "load" => th[t].new = Null
  /\ th[t].pc = "validate" =>
       /\ th[t].new = Null
       /\ op[t].kind = IF FindIndex(th[t].old, op[t].key) # 0 THEN "insert" ELSE "remove"
  /\ th[t].pc \in {"reload", "cas"} => useCas
  /\ th[t].pc \in {"lock", "take", "check", "store"} => ~useCas
  /\ th[t].pc \in {"reload", "cas", "lock", "take", "check", "store"} => Made(t)
  /\ th[t].pc = "take" => th[t].le.count % 2 = 0
  /\ th[t].pc = "store" => ptr = th[t].old
  /\ th[t].pc = "retire" => th[t].res
  /\ th[t].res => /\ th[t].pc \in {"unlock", "retire"}
                  /\ th[t].new = Null /\ did[t] = What(t)
  /\ ~th[t].res => did[t] = "nothing"

\* Every thread knows what Local says.
LocalInv == \A t \in Threads : Local(t)

\* A call has seen the value that its key has now.
SeenInv == \A t \in Threads : InCall(t) => Contents[op[t].key] \in seen[t]

\* The inductive invariant.
IInv == Types /\ NodeInv /\ ShareInv /\ LockInv /\ LocalInv /\ SeenInv

\* A set of natural numbers that is not empty has a least element.
LEMMA WellOrdered ==
  ASSUME NEW S, S \subseteq Nat, S # {}
  PROVE  \E m \in S : \A n \in S : m <= n
<1> DEFINE R == OpToRel(<, Nat)
<1>1. IsWellFoundedOn(R, Nat)  BY NatLessThanWellFounded
<1>2. PICK m \in S : \A y \in S : ~(<<y, m>> \in R)
  <2> HIDE DEF R
  <2> QED  BY <1>1, WFMin
<1>3. \A y \in Nat : y < m => <<y, m>> \in R
  <2> SUFFICES ASSUME NEW y \in Nat, y < m  PROVE <<y, m>> \in R
    OBVIOUS
  <2>1. <<y, m>> \in Nat \X Nat  OBVIOUS
  <2>2. <<y, m>>[1] < <<y, m>>[2]  OBVIOUS
  <2> QED  BY <2>1, <2>2, Zenon DEF OpToRel
<1>4. \A y \in S : ~(y < m)
  <2> HIDE DEF R
  <2> QED  BY <1>2, <1>3, Zenon
<1>5. \A y \in S : m <= y  BY <1>4
<1> QED  BY <1>5, Zenon

\* Min is the least element of a set of natural numbers.
LEMMA MinLemma ==
  ASSUME NEW S, S \subseteq Nat, S # {}
  PROVE  Min(S) \in S /\ \A y \in S : Min(S) <= y
BY WellOrdered, Zenon DEF Min

\* A set with one element.
LEMMA MinSingle ==
  ASSUME NEW i \in Nat
  PROVE  Min({i}) = i
BY MinLemma

-----------------------------------------------------------------------------
\* First is one of the pools offered, or the pool of big nodes.
LEMMA FirstLemma ==
  ASSUME NEW S, S \subseteq Regular
  PROVE  First(S) \in S \cup {Big} /\ First(S) \in Nat /\ First(S) >= 1
<1>1. Big \in Nat /\ Big >= 1 /\ Regular \subseteq Nat  BY SizesAssumption DEF Big, Regular
<1>2. S \cup {Big} \subseteq Nat  BY <1>1
<1>3. First(S) \in S \cup {Big}  BY <1>2, MinLemma, Zenon DEF First
<1>4. \A i \in Regular : i \in Nat /\ i >= 1  BY SizesAssumption DEF Regular
<1> QED  BY <1>1, <1>3, <1>4

\* A regular pool that is found for m entries has room for m entries.
LEMMA PoolLemma ==
  ASSUME NEW m \in Nat
  PROVE  /\ PoolFor(m) \in Nat /\ PoolFor(m) >= 1
         /\ PoolFor(m) # Big => m <= Sizes[PoolFor(m)]
<1> DEFINE S == {i \in Regular : m <= Sizes[i]}
<1>1. PoolFor(m) = First(S)  BY Zenon DEF PoolFor
<1>2. First(S) \in S \cup {Big} /\ First(S) \in Nat /\ First(S) >= 1
  <2>1. S \subseteq Regular  OBVIOUS
  <2> HIDE DEF S
  <2> QED  BY <2>1, FirstLemma
<1> QED  BY <1>1, <1>2, Zenon

\* The sizes of the pools grow from 1.
LEMMA SizesLemma == \A i \in Regular : Sizes[i] \in Nat
BY SizesAssumption DEF Regular

-----------------------------------------------------------------------------
\* find_in_range returns where the key is, or 0 when no entry has it.
LEMMA FindLemma ==
  ASSUME NEW e \in Seq(Entries), Distinct(e), NEW k
  PROVE  /\ FindInRange(e, k) \in 0 .. Len(e)
         /\ FindInRange(e, k) # 0 => e[FindInRange(e, k)].key = k
         /\ \A i \in 1 .. Len(e) : e[i].key = k => FindInRange(e, k) = i
<1> DEFINE hits == {i \in 1 .. Len(e) : e[i].key = k}
<1>1. FindInRange(e, k) = IF hits = {} THEN 0 ELSE Min(hits)  BY Zenon DEF FindInRange
<1>2. Len(e) \in Nat  OBVIOUS
<1>3. CASE hits = {}  BY <1>1, <1>2, <1>3
<1>4. CASE hits # {}
  <2>1. PICK i \in 1 .. Len(e) : e[i].key = k  BY <1>4
  <2>2. hits = {i}  BY <2>1 DEF Distinct
  <2>3. FindInRange(e, k) = i
    <3>1. i \in Nat  BY <1>2
    <3> QED  BY <1>1, <2>2, <3>1, MinSingle, <1>4, Zenon
  <2> QED  BY <2>1, <2>3 DEF Distinct
<1> QED  BY <1>3, <1>4

\* The value of a key in the entries of a node.
Lookup(e, k) == LET i == FindInRange(e, k) IN IF i = 0 THEN None ELSE e[i].val

\* Lookup is None exactly where find_in_range finds nothing.
LEMMA LookupLemma ==
  ASSUME NEW e \in Seq(Entries), Distinct(e), NEW k
  PROVE  /\ FindInRange(e, k) = 0 <=> Lookup(e, k) = None
         /\ Lookup(e, k) \in Values \cup {None}
         /\ \A i \in 1 .. Len(e) : e[i].key = k => Lookup(e, k) = e[i].val
         /\ (\A i \in 1 .. Len(e) : e[i].key # k) => FindInRange(e, k) = 0
<1>1. \A i \in 1 .. Len(e) : e[i] \in Entries  OBVIOUS
<1>2. \A i \in 1 .. Len(e) : e[i].val \in Values  BY <1>1 DEF Entries
<1>3. 0 \notin 1 .. Len(e) /\ Len(e) \in Nat  OBVIOUS
<1> QED  BY FindLemma, <1>2, <1>3, NoneAssumption DEF Lookup

\* Two sequences of entries that have the same entries for a key give the same
\* value for it.
LEMMA Transfer ==
  ASSUME NEW e \in Seq(Entries), Distinct(e), NEW r \in Seq(Entries), Distinct(r), NEW q,
         \A i \in 1 .. Len(e) : e[i].key = q => \E j \in 1 .. Len(r) : r[j] = e[i],
         \A j \in 1 .. Len(r) : r[j].key = q => \E i \in 1 .. Len(e) : e[i].key = q
  PROVE  Lookup(r, q) = Lookup(e, q)
<1>1. CASE \E i \in 1 .. Len(e) : e[i].key = q
  <2>1. PICK i \in 1 .. Len(e) : e[i].key = q  BY <1>1
  <2>2. PICK j \in 1 .. Len(r) : r[j] = e[i]  BY <2>1
  <2>3. Lookup(e, q) = e[i].val  BY <2>1, LookupLemma
  <2>4. Lookup(r, q) = r[j].val  BY <2>1, <2>2, LookupLemma
  <2> QED  BY <2>2, <2>3, <2>4
<1>2. CASE ~ \E i \in 1 .. Len(e) : e[i].key = q
  <2>1. FindInRange(e, q) = 0  BY <1>2, LookupLemma
  <2>2. FindInRange(r, q) = 0  BY <1>2, LookupLemma
  <2> QED  BY <2>1, <2>2, LookupLemma
<1> QED  BY <1>1, <1>2

\* What insert does to the entries: the key gets its value, nothing else changes.
LEMMA AppendLookup ==
  ASSUME NEW e \in Seq(Entries), Distinct(e), NEW k \in Keys, NEW v \in Values,
         FindInRange(e, k) = 0
  PROVE  LET r == Append(e, [key |-> k, val |-> v]) IN
         /\ r \in Seq(Entries) /\ r # <<>> /\ Distinct(r) /\ Len(r) = Len(e) + 1
         /\ \A q \in Keys : Lookup(r, q) = IF q = k THEN v ELSE Lookup(e, q)
<1> DEFINE x == [key |-> k, val |-> v]
           r == Append(e, x)
<1>1. x \in Entries /\ x.key = k /\ x.val = v  BY DEF Entries
<1> HIDE DEF x
<1>2. /\ r \in Seq(Entries) /\ r # <<>> /\ Len(r) = Len(e) + 1
      /\ \A i \in 1 .. Len(e) : r[i] = e[i]
      /\ r[Len(e) + 1] = x
  BY <1>1, AppendProperties
<1> HIDE DEF r
<1>3. \A i \in 1 .. Len(e) : e[i].key # k
  <2>1. 0 \notin 1 .. Len(e)  OBVIOUS
  <2> QED  BY <2>1, FindLemma
<1>4. Len(e) \in Nat  OBVIOUS
<1>5. Distinct(r)
  <2>1. \A i \in 1 .. Len(r) : i \in 1 .. Len(e) \/ i = Len(e) + 1  BY <1>2, <1>4
  <2> QED  BY <1>1, <1>2, <1>3, <2>1 DEF Distinct
<1>6. ASSUME NEW q \in Keys  PROVE Lookup(r, q) = IF q = k THEN v ELSE Lookup(e, q)
  <2>1. CASE q = k
    <3>1. Len(e) + 1 \in 1 .. Len(r)  BY <1>2, <1>4
    <3> QED  BY <1>1, <1>2, <1>5, <2>1, <3>1, LookupLemma
  <2>2. CASE q # k
    <3>1. \A i \in 1 .. Len(e) : e[i].key = q => \E j \in 1 .. Len(r) : r[j] = e[i]
      BY <1>2, <1>4
    <3>2. \A j \in 1 .. Len(r) : r[j].key = q => \E i \in 1 .. Len(e) : e[i].key = q
      <4>1. \A j \in 1 .. Len(r) : j \in 1 .. Len(e) \/ j = Len(e) + 1  BY <1>2, <1>4
      <4> QED  BY <1>1, <1>2, <2>2, <4>1
    <3> QED  BY <1>2, <1>5, <2>2, <3>1, <3>2, Transfer
  <2> QED  BY <2>1, <2>2
<1> QED  BY <1>2, <1>5, <1>6 DEF r, x

\* What update does to the entries: the key gets its value, nothing else changes.
LEMMA UpdateLookup ==
  ASSUME NEW e \in Seq(Entries), Distinct(e), NEW k \in Keys, NEW v \in Values,
         NEW i \in 1 .. Len(e), e[i].key = k,
         NEW x \in Entries, x.key = k, x.val = v,
         NEW r \in Seq(Entries), Len(r) = Len(e),
         \A j \in 1 .. Len(e) : r[j] = IF j = i THEN x ELSE e[j]
  PROVE  /\ r # <<>> /\ Distinct(r)
         /\ \A q \in Keys : Lookup(r, q) = IF q = k THEN v ELSE Lookup(e, q)
<1>1. r # <<>>  OBVIOUS
<1>2. Distinct(r)  BY DEF Distinct
<1>3. ASSUME NEW q \in Keys  PROVE Lookup(r, q) = IF q = k THEN v ELSE Lookup(e, q)
  <2>1. CASE q = k  BY <1>2, <2>1, LookupLemma
  <2>2. CASE q # k
    <3>1. \A j \in 1 .. Len(e) : e[j].key = q => \E m \in 1 .. Len(r) : r[m] = e[j]
      BY <2>2
    <3>2. \A j \in 1 .. Len(r) : r[j].key = q => \E m \in 1 .. Len(e) : e[m].key = q
      BY <2>2
    <3> QED  BY <1>2, <2>2, <3>1, <3>2, Transfer
  <2> QED  BY <2>1, <2>2
<1> QED  BY <1>1, <1>2, <1>3

\* What remove does to the entries: the key goes, nothing else changes.
LEMMA RemoveLookup ==
  ASSUME NEW e \in Seq(Entries), Distinct(e), NEW k \in Keys,
         NEW i, i = FindInRange(e, k), i # 0
  PROVE  LET r == RemoveAt(e, i) IN
         /\ r \in Seq(Entries) /\ Distinct(r) /\ Len(r) = Len(e) - 1
         /\ \A q \in Keys : Lookup(r, q) = IF q = k THEN None ELSE Lookup(e, q)
<1> DEFINE a == SubSeq(e, 1, i - 1)
           b == SubSeq(e, i + 1, Len(e))
           r == a \o b
<1>1. Len(e) \in Nat /\ i \in 1 .. Len(e) /\ e[i].key = k
  <2>1. Len(e) \in Nat  OBVIOUS
  <2> QED  BY <2>1, FindLemma
<1>2. \A j \in 1 .. Len(e) : e[j] \in Entries  OBVIOUS
<1>3. /\ a \in Seq(Entries) /\ Len(a) = i - 1
      /\ \A j \in 1 .. i - 1 : a[j] = e[j]
  <2>1. i - 1 \in Int /\ \A j \in 1 .. i - 1 : e[j] \in Entries  BY <1>1, <1>2
  <2>2. /\ a \in Seq(Entries) /\ Len(a) = IF 1 <= i - 1 THEN (i - 1) - 1 + 1 ELSE 0
        /\ \A j \in 1 .. (i - 1) - 1 + 1 : a[j] = e[1 + j - 1]
    BY <2>1, SubSeqProperties
  <2> HIDE DEF a
  <2> QED  BY <1>1, <2>2
<1>4. /\ b \in Seq(Entries) /\ Len(b) = Len(e) - i
      /\ \A j \in 1 .. Len(e) - i : b[j] = e[i + j]
  <2>1. i + 1 \in Int /\ \A j \in i + 1 .. Len(e) : e[j] \in Entries  BY <1>1, <1>2
  <2>2. /\ b \in Seq(Entries)
        /\ Len(b) = IF i + 1 <= Len(e) THEN Len(e) - (i + 1) + 1 ELSE 0
        /\ \A j \in 1 .. Len(e) - (i + 1) + 1 : b[j] = e[(i + 1) + j - 1]
    BY <1>1, <2>1, SubSeqProperties
  <2> HIDE DEF b
  <2> QED  BY <1>1, <2>2
<1> HIDE DEF a, b
<1>5. /\ r \in Seq(Entries) /\ Len(r) = Len(e) - 1
      /\ \A j \in 1 .. Len(e) - 1 : r[j] = IF j < i THEN e[j] ELSE e[j + 1]
  <2>1. /\ r \in Seq(Entries) /\ Len(r) = Len(a) + Len(b)
        /\ \A j \in 1 .. Len(a) + Len(b) :
             r[j] = IF j <= Len(a) THEN a[j] ELSE b[j - Len(a)]
    BY <1>3, <1>4, ConcatProperties
  <2> HIDE DEF r
  <2>2. Len(r) = Len(e) - 1  BY <1>1, <1>3, <1>4, <2>1
  <2>3. ASSUME NEW j \in 1 .. Len(e) - 1  PROVE r[j] = IF j < i THEN e[j] ELSE e[j + 1]
    <3>1. j \in 1 .. Len(a) + Len(b)  BY <1>1, <1>3, <1>4
    <3>2. r[j] = IF j <= Len(a) THEN a[j] ELSE b[j - Len(a)]  BY <2>1, <3>1
    <3>3. CASE j < i  BY <1>1, <1>3, <3>2, <3>3
    <3>4. CASE ~(j < i)
      <4>1. j - (i - 1) \in 1 .. Len(e) - i /\ i + (j - (i - 1)) = j + 1  BY <1>1, <3>4
      <4>2. r[j] = b[j - (i - 1)]  BY <1>1, <1>3, <3>2, <3>4
      <4> QED  BY <1>4, <3>4, <4>1, <4>2
    <3> QED  BY <3>3, <3>4
  <2> QED  BY <2>1, <2>2, <2>3
<1> HIDE DEF r
<1>6. \A j \in 1 .. Len(r) : r[j].key # k
  BY <1>1, <1>5 DEF Distinct
<1>7. Distinct(r)
  <2> SUFFICES ASSUME NEW x \in 1 .. Len(r), NEW y \in 1 .. Len(r), r[x].key = r[y].key
               PROVE  x = y
    BY DEF Distinct
  <2> DEFINE X == IF x < i THEN x ELSE x + 1
             Y == IF y < i THEN y ELSE y + 1
  <2>1. X \in 1 .. Len(e) /\ Y \in 1 .. Len(e) /\ (X = Y => x = y)  BY <1>1, <1>5
  <2>2. r[x] = e[X] /\ r[y] = e[Y]  BY <1>1, <1>5
  <2> HIDE DEF X, Y
  <2>3. e[X].key = e[Y].key  BY <2>2
  <2> QED  BY <2>1, <2>3 DEF Distinct
<1>8. ASSUME NEW q \in Keys  PROVE Lookup(r, q) = IF q = k THEN None ELSE Lookup(e, q)
  <2>1. CASE q = k  BY <1>5, <1>6, <1>7, <2>1, LookupLemma
  <2>2. CASE q # k
    <3>1. ASSUME NEW j \in 1 .. Len(e), e[j].key = q
          PROVE  \E m \in 1 .. Len(r) : r[m] = e[j]
      <4>1. j # i  BY <1>1, <2>2, <3>1
      <4>2. CASE j < i  BY <1>1, <1>5, <4>2
      <4>3. CASE j > i
        <5>1. j - 1 \in 1 .. Len(r) /\ ~(j - 1 < i) /\ (j - 1) + 1 = j  BY <1>1, <1>5, <4>3
        <5> QED  BY <1>5, <5>1
      <4> QED  BY <1>1, <4>1, <4>2, <4>3
    <3>2. \A j \in 1 .. Len(r) : r[j].key = q => \E m \in 1 .. Len(e) : e[m].key = q
      BY <1>1, <1>5
    <3> QED  BY <1>5, <1>7, <2>2, <3>1, <3>2, Transfer
  <2> QED  BY <2>1, <2>2
<1>9. r = RemoveAt(e, i)  BY Zenon DEF r, a, b, RemoveAt
<1> QED  BY <1>5, <1>7, <1>8, <1>9

-----------------------------------------------------------------------------
\* The entries that a thread can reach are well formed.
LEMMA EntriesLemma ==
  ASSUME Types, NodeInv, NEW n \in Addresses
  PROVE  /\ EntriesAt(n) \in Seq(Entries) /\ Distinct(EntriesAt(n))
         /\ Cnt(n) \in Nat
         /\ n # Null /\ node[n] # Free => Cnt(n) >= 1
         /\ n = Null => Cnt(n) = 0
<1>1. Distinct(<<>>) /\ <<>> \in Seq(Entries)  BY DEF Distinct
<1>2. CASE n = Null  BY <1>1, <1>2 DEF EntriesAt, Cnt
<1>3. CASE n # Null
  <2>1. n \in Nodes /\ EntriesAt(n) = node[n].entries  BY <1>3 DEF Addresses, EntriesAt
  <2>2. node[n].entries \in Seq(Entries)  BY <2>1 DEF Types
  <2>3. node[n] = Free => node[n].entries = <<>>  BY DEF Free
  <2>4. Distinct(EntriesAt(n))  BY <1>1, <2>1, <2>3 DEF NodeInv, Proper
  <2>5. node[n] # Free => node[n].entries # <<>>  BY <2>1 DEF NodeInv, Proper
  <2>6. Len(node[n].entries) \in Nat /\ (node[n].entries # <<>> => Len(node[n].entries) >= 1)
    BY <2>2
  <2> QED  BY <1>3, <2>1, <2>2, <2>4, <2>5, <2>6 DEF Cnt
<1> QED  BY <1>2, <1>3

\* find_index on a node is find_in_range on its entries.
LEMMA FindIndexLemma ==
  ASSUME Types, NodeInv, NEW n \in Addresses, NEW k
  PROVE  /\ FindIndex(n, k) \in 0 .. Cnt(n)
         /\ FindIndex(n, k) = 0 <=> Lookup(EntriesAt(n), k) = None
         /\ Lookup(EntriesAt(n), k) \in Values \cup {None}
BY EntriesLemma, FindLemma, LookupLemma DEF FindIndex, Cnt

\* The map is what lookups in the node of the bucket give.
LEMMA ContentsLemma ==
  ASSUME NEW k \in Keys
  PROVE  Contents[k] = Lookup(EntriesAt(ptr), k)
BY DEF Contents, Lookup, FindIndex

\* The nodes, as records.
NodeRecords == [pool : Nat, entries : Seq(Entries)]

\* insert_to_node makes a proper node, from the right pool: the test is before the
\* key is added (Cnt < Size), and for the first node there is a case of its own.
LEMMA InsertCopy ==
  ASSUME Types, NodeInv, NEW o \in Addresses, o # Null => node[o] # Free,
         NEW k \in Keys, NEW v \in Values, FindIndex(o, k) = 0
  PROVE  LET c == InsertToNode(o, k, v) IN
         /\ c \in NodeRecords /\ Proper(c)
         /\ \A q \in Keys : Lookup(c.entries, q) = IF q = k THEN v ELSE Lookup(EntriesAt(o), q)
<1> DEFINE e == EntriesAt(o)
           r == Append(e, [key |-> k, val |-> v])
           S == {i \in Regular : IF o = Null THEN i = 1 ELSE i > 1 /\ Cnt(o) < Sizes[i]}
<1>1. InsertToNode(o, k, v) = [pool |-> First(S), entries |-> r]  BY Zenon DEF InsertToNode
<1>2. e \in Seq(Entries) /\ Distinct(e) /\ Len(e) = Cnt(o) /\ Cnt(o) \in Nat
      /\ (o # Null => Cnt(o) >= 1) /\ (o = Null => Cnt(o) = 0)
  BY EntriesLemma DEF Cnt
<1>3. FindInRange(e, k) = 0  BY DEF FindIndex
<1> HIDE DEF e
<1>4. /\ r \in Seq(Entries) /\ r # <<>> /\ Distinct(r) /\ Len(r) = Len(e) + 1
      /\ \A q \in Keys : Lookup(r, q) = IF q = k THEN v ELSE Lookup(e, q)
  BY <1>2, <1>3, AppendLookup
<1> HIDE DEF r
<1>5. First(S) \in Nat
  <2>1. S \subseteq Regular  OBVIOUS
  <2> HIDE DEF S
  <2> QED  BY <2>1, FirstLemma
<1>6. First(S) = PoolFor(Cnt(o) + 1)
  <2> DEFINE T == {i \in Regular : Cnt(o) + 1 <= Sizes[i]}
  <2>1. PoolFor(Cnt(o) + 1) = First(T)  BY Zenon DEF PoolFor
  <2>2. \A i \in Regular : i \in Nat /\ i >= 1 /\ Sizes[i] \in Nat
    BY SizesAssumption DEF Regular
  <2>3. CASE o = Null
    <3>1. 1 \in Regular /\ Sizes[1] = 1 /\ Big >= 1 /\ Big \in Nat
      BY SizesAssumption DEF Regular, Big
    <3>2. 1 \in S /\ 1 \in T  BY <1>2, <2>3, <3>1
    <3>3. ASSUME NEW Q, Q \subseteq Regular, 1 \in Q  PROVE First(Q) = 1
      <4>1. Q \cup {Big} \subseteq Nat  BY <2>2, <3>1, <3>3
      <4>2. First(Q) \in Q \cup {Big} /\ First(Q) <= 1
        BY <3>3, <4>1, MinLemma, Zenon DEF First
      <4> QED  BY <2>2, <3>1, <3>3, <4>2
    <3>4. S \subseteq Regular /\ T \subseteq Regular  OBVIOUS
    <3> HIDE DEF S, T
    <3> QED  BY <2>1, <3>2, <3>3, <3>4
  <2>4. CASE o # Null
    <3>1. Sizes[1] = 1  BY SizesAssumption
    <3>2. S = T  BY <1>2, <2>2, <2>4, <3>1
    <3> HIDE DEF S, T
    <3> QED  BY <2>1, <3>2
  <2> QED  BY <2>3, <2>4
<1> HIDE DEF S
<1> QED  BY <1>1, <1>2, <1>4, <1>5, <1>6 DEF e, NodeRecords, Proper

\* update_node makes a proper node.
LEMMA UpdateCopy ==
  ASSUME Types, NodeInv, NEW o \in Addresses,
         NEW k \in Keys, NEW v \in Values, FindIndex(o, k) # 0
  PROVE  LET c == UpdateNode(o, k, v) IN
         /\ c \in NodeRecords /\ Proper(c)
         /\ \A q \in Keys : Lookup(c.entries, q) = IF q = k THEN v ELSE Lookup(EntriesAt(o), q)
<1> DEFINE e == EntriesAt(o)
           i == FindInRange(e, k)
           r == [e EXCEPT ![i].val = v]
<1>1. UpdateNode(o, k, v) = [pool |-> PoolFor(Cnt(o)), entries |-> r]
  BY Zenon DEF UpdateNode, PoolFor, FindIndex
<1>2. e \in Seq(Entries) /\ Distinct(e) /\ Len(e) = Cnt(o) /\ Cnt(o) \in Nat
  BY EntriesLemma DEF Cnt
<1>3. i # 0  BY DEF FindIndex
<1>4. i = FindInRange(e, k)  OBVIOUS
<1> HIDE DEF e, i
<1>5. i \in 1 .. Len(e) /\ e[i].key = k  BY <1>2, <1>3, <1>4, FindLemma
<1> DEFINE x == [e[i] EXCEPT !.val = v]
<1>7. x \in Entries /\ x.key = k /\ x.val = v
  <2>1. e[i] \in Entries  BY <1>2, <1>5
  <2> QED  BY <1>5, <2>1 DEF Entries
<1>8. r = [e EXCEPT ![i] = x]  OBVIOUS
<1> HIDE DEF x, r
<1>9. /\ r \in Seq(Entries) /\ Len(r) = Len(e)
      /\ \A j \in 1 .. Len(e) : r[j] = IF j = i THEN x ELSE e[j]
  BY <1>2, <1>5, <1>7, <1>8, ExceptSeq
<1>10. /\ r # <<>> /\ Distinct(r)
       /\ \A q \in Keys : Lookup(r, q) = IF q = k THEN v ELSE Lookup(e, q)
  BY <1>2, <1>5, <1>7, <1>9, UpdateLookup
<1>6. PoolFor(Cnt(o)) \in Nat  BY <1>2, PoolLemma
<1> QED  BY <1>1, <1>2, <1>6, <1>9, <1>10 DEF e, NodeRecords, Proper

\* remove_from_node makes a proper node unless it took the last entry, and then
\* its callers install no node.
LEMMA RemoveCopy ==
  ASSUME Types, NodeInv, NEW o \in Addresses,
         NEW k \in Keys, FindIndex(o, k) # 0
  PROVE  LET c == RemoveFromNode(o, k) IN
         /\ Cnt(o) # 1 => c \in NodeRecords /\ Proper(c)
         /\ Cnt(o) = 1 => c.entries = <<>>
         /\ \A q \in Keys :
              Lookup(c.entries, q) = IF q = k THEN None ELSE Lookup(EntriesAt(o), q)
<1> DEFINE e == EntriesAt(o)
           i == FindInRange(e, k)
           r == RemoveAt(e, i)
           S == {j \in Regular : Cnt(o) <= Sizes[j] + 1}
<1>1. RemoveFromNode(o, k) = [pool |-> First(S), entries |-> r]
  BY Zenon DEF RemoveFromNode, FindIndex
<1>2. e \in Seq(Entries) /\ Distinct(e) /\ Len(e) = Cnt(o) /\ Cnt(o) \in Nat
  BY EntriesLemma DEF Cnt
<1>3. i # 0  BY DEF FindIndex
<1>4. i = FindInRange(e, k)  OBVIOUS
<1> HIDE DEF e, i
<1>5. /\ r \in Seq(Entries) /\ Distinct(r) /\ Len(r) = Len(e) - 1
      /\ \A q \in Keys : Lookup(r, q) = IF q = k THEN None ELSE Lookup(e, q)
  BY <1>2, <1>3, <1>4, RemoveLookup
<1> HIDE DEF r
<1>6. First(S) = PoolFor(Cnt(o) - 1)
  <2>1. S = {j \in Regular : Cnt(o) - 1 <= Sizes[j]}
    <3>1. \A j \in Regular : Sizes[j] \in Nat  BY SizesLemma
    <3> QED  BY <1>2, <3>1
  <2> HIDE DEF S
  <2> QED  BY <2>1, Zenon DEF PoolFor
<1> HIDE DEF S
<1>7. Cnt(o) >= 1  BY <1>2, <1>3, <1>4, FindLemma
<1>8. Cnt(o) # 1 => r # <<>>
  <2>1. Len(<<>>) = 0  OBVIOUS
  <2> QED  BY <1>2, <1>5, <1>7, <2>1
<1>9. Cnt(o) = 1 => r = <<>>  BY <1>2, <1>5
<1>10. PoolFor(Cnt(o) - 1) \in Nat  BY <1>2, <1>7, PoolLemma
<1> QED  BY <1>1, <1>2, <1>5, <1>6, <1>8, <1>9, <1>10 DEF e, NodeRecords, Proper

-----------------------------------------------------------------------------
\* The types of the locals of a thread.
LEMMA ThTypes ==
  ASSUME Types, NEW t \in Threads
  PROVE  /\ th[t] \in Locals
         /\ th[t].pc \in Pcs /\ th[t].old \in Addresses /\ th[t].new \in Addresses
         /\ th[t].le \in LockWords /\ th[t].res \in BOOLEAN
<1>1. th[t] \in Locals  BY DEF Types
<1> QED  BY <1>1 DEF Locals

\* The type of a call in progress.
LEMMA OpTypes ==
  ASSUME Types, NEW t \in Threads, op[t] \in Requests
  PROVE  /\ op[t].kind \in {"insert", "upsert", "remove", "find"}
         /\ op[t].key \in Keys /\ op[t].val \in Values /\ InCall(t)
BY DEF Requests, InCall

\* What follows from the node that a thread loaded and from its call.
LEMMA SameMade ==
  ASSUME Types, NEW u \in Threads,
         th'[u].old = th[u].old, th'[u].new = th[u].new, op'[u] = op[u], useCas' = useCas,
         \A n \in Nodes : n \in {th[u].old, th[u].new} => node'[n] = node[n]
  PROVE  /\ Made(u) => Made(u)'
         /\ What(u)' = What(u)
         /\ FindIndex(th[u].old, op[u].key)' = FindIndex(th[u].old, op[u].key)
<1> DEFINE o == th[u].old
           n == th[u].new
           k == op[u].key
<1>1. o \in Addresses /\ n \in Addresses  BY ThTypes
<1>2. (o # Null => node'[o] = node[o]) /\ (n # Null => node'[n] = node[n])
  BY <1>1 DEF Addresses
<1>3. EntriesAt(th[u].old)' = EntriesAt(o)  BY <1>2 DEF EntriesAt
<1>4. /\ FindIndex(th[u].old, op[u].key)' = FindIndex(o, k)
      /\ Cnt(th[u].old)' = Cnt(o)
  BY <1>3 DEF FindIndex, Cnt
<1>5. /\ RemoveFromNode(th[u].old, op[u].key)' = RemoveFromNode(o, k)
      /\ UpdateNode(th[u].old, op[u].key, op[u].val)' = UpdateNode(o, k, op[u].val)
      /\ InsertToNode(th[u].old, op[u].key, op[u].val)' = InsertToNode(o, k, op[u].val)
  <2>1. RemoveFromNode(th[u].old, op[u].key)' = RemoveFromNode(o, k)
    BY <1>3, <1>4, Zenon DEF RemoveFromNode
  <2>2. UpdateNode(th[u].old, op[u].key, op[u].val)' = UpdateNode(o, k, op[u].val)
    BY <1>3, <1>4, Zenon DEF UpdateNode
  <2>3. InsertToNode(th[u].old, op[u].key, op[u].val)' = InsertToNode(o, k, op[u].val)
    BY <1>3, <1>4, Zenon DEF InsertToNode
  <2> QED  BY <2>1, <2>2, <2>3
<1>6. Made(u) => Made(u)'
  <2> HIDE DEF o, n, k
  <2> QED  BY <1>2, <1>4, <1>5 DEF Made, o, n, k
<1>7. What(u)' = What(u)  BY <1>4 DEF What
<1> QED  BY <1>4, <1>6, <1>7

\* What a thread knows does not change while it does nothing.
LEMMA Bystander ==
  ASSUME Types, NEW u \in Threads, Local(u),
         th'[u] = th[u], op'[u] = op[u], did'[u] = did[u], useCas' = useCas,
         \A n \in Nodes : n \in {th[u].old, th[u].new} => node'[n] = node[n],
         th[u].pc = "store" => ptr' = ptr
  PROVE  Local(u)'
<1>1. /\ Made(u) => Made(u)'
      /\ What(u)' = What(u)
      /\ FindIndex(th[u].old, op[u].key)' = FindIndex(th[u].old, op[u].key)
  BY SameMade
<1> QED  BY <1>1 DEF Local

\* The map is what it was when the bucket and its node are.
LEMMA SameContents ==
  ASSUME ptr' = ptr, ptr # Null => node'[ptr] = node[ptr]
  PROVE  Contents' = Contents
<1>1. EntriesAt(ptr)' = EntriesAt(ptr)  BY DEF EntriesAt
<1> QED  BY <1>1 DEF Contents, FindIndex

-----------------------------------------------------------------------------
\* A lock word that is taken with a compare-and-swap is locked by the taker.
LEMMA TakeLemma ==
  ASSUME NEW le \in LockWords, le.count < CountMod, le.count % 2 = 0, NEW t \in Threads
  PROVE  /\ TakeLock(le, t) \in LockWords /\ TakeLock(le, t).count < CountMod
         /\ IsLocked(TakeLock(le, t)) /\ IsSelfLocked(TakeLock(le, t), t)
<1> DEFINE c == le.count
<1>1. c \in Nat /\ c < CountMod /\ c % 2 = 0 /\ t \in Nat
  BY ThreadsAssumption DEF LockWords
<1>2. CountMod \in Nat /\ CountMod % 2 = 0 /\ CountMod > 0  BY CountModAssumption
<1> HIDE DEF c
<1>3. c + 1 < CountMod /\ (c + 1) % 2 = 1  BY <1>1, <1>2
<1>4. (c + 1) % CountMod = c + 1  BY <1>1, <1>2, <1>3
<1>5. TakeLock(le, t) = [count |-> c + 1, proc |-> t + 1]  BY <1>4 DEF TakeLock, c
<1> QED  BY <1>1, <1>3, <1>5 DEF LockWords, IsLocked, IsSelfLocked

\* A lock word that its holder releases is not locked, with a wrapped counter too.
LEMMA ReleaseLemma ==
  ASSUME NEW le \in LockWords, le.count < CountMod, NEW t
  PROVE  Released(le, t) \in LockWords /\ Released(le, t).count < CountMod
<1>1. le.count \in Nat /\ CountMod \in Nat /\ CountMod > 0
  BY CountModAssumption DEF LockWords
<1>2. (le.count + 1) % CountMod \in Nat /\ (le.count + 1) % CountMod < CountMod  BY <1>1
<1>3. (le.count + 1) \div CountMod \in Nat  BY <1>1
<1> QED  BY <1>2, <1>3 DEF Released, ReleaseLock, LockWords

\* A step of one thread on its locals, or on the lock.
LEMMA Quiet ==
  ASSUME IInv, NEW t \in Threads, NEW x \in Locals, th' = [th EXCEPT ![t] = x],
         UNCHANGED <<useCas, ptr, node, retired, hist>>, lck' \in LockWords,
         x.new = th[t].new, x.res = th[t].res,
         x.old = th[t].old \/ (x.old = ptr /\ ~x.res),
         LockInv', Local(t)'
  PROVE  IInv'
<1> USE DEF hist
<1>1. Types /\ LocalInv  BY DEF IInv
<1>2. th'[t] = x /\ \A u \in Threads : u # t => th'[u] = th[u]  BY <1>1 DEF Types
<1>3. Types'
  <2>1. th' \in [Threads -> Locals]  BY <1>1 DEF Types
  <2> QED  BY <1>1, <2>1 DEF Types
<1>4. NodeInv'  BY DEF IInv, NodeInv
<1>5. \A u \in Threads : /\ th'[u].new = th[u].new /\ th'[u].res = th[u].res
                         /\ th'[u].old = th[u].old \/ (th'[u].old = ptr /\ ~th[u].res)
  BY <1>2
<1>6. ShareInv'
  <2>1. FreeInv'  BY <1>5 DEF IInv, ShareInv, FreeInv
  <2>2. NewInv'  BY <1>5 DEF IInv, ShareInv, NewInv
  <2>3. OldInv'  BY <1>5 DEF IInv, ShareInv, OldInv
  <2>4. RestInv'  BY <1>5 DEF IInv, ShareInv, RestInv, Gives
  <2> QED  BY <2>1, <2>2, <2>3, <2>4 DEF ShareInv
<1>7. LocalInv'
  <2> SUFFICES ASSUME NEW u \in Threads, u # t  PROVE Local(u)'
    BY DEF LocalInv
  <2>1. Local(u)  BY <1>1 DEF LocalInv
  <2> QED  BY <1>1, <1>2, <2>1, Bystander
<1>8. SeenInv'
  <2>1. Contents' = Contents  BY SameContents
  <2> QED  BY <2>1 DEF IInv, SeenInv, InCall
<1> QED  BY <1>3, <1>4, <1>6, <1>7, <1>8 DEF IInv

\* The lock invariant, when a thread that does not hold the lock goes on.
LEMMA SameLock ==
  ASSUME IInv, NEW t \in Threads, UNCHANGED lck,
         \A u \in Threads : u # t => th'[u] = th[u],
         th'[t].pc \in Holding => th[t].pc \in Holding
  PROVE  LockInv'
BY DEF IInv, LockInv

\* A step of one thread that leaves the lock alone.
LEMMA QuietUnlocked ==
  ASSUME IInv, NEW t \in Threads, NEW x \in Locals, th' = [th EXCEPT ![t] = x],
         UNCHANGED <<bucket, node, retired, hist>>,
         x.new = th[t].new, x.res = th[t].res,
         x.old = th[t].old \/ (x.old = ptr /\ ~x.res),
         x.pc \in Holding => th[t].pc \in Holding, Local(t)'
  PROVE  IInv'
<1> USE DEF bucket
<1>1. Types  BY DEF IInv
<1>2. th'[t] = x /\ \A u \in Threads : u # t => th'[u] = th[u]  BY <1>1 DEF Types
<1>3. LockInv'  BY <1>2, SameLock
<1>4. lck' \in LockWords  BY <1>1 DEF Types
<1> QED  BY <1>3, <1>4, Quiet

\* What a step that only moves a thread to another place leaves alone.
LEMMA GotoFacts ==
  ASSUME IInv, NEW t \in Threads, NEW pc \in Pcs, Goto(t, pc)
  PROVE  /\ th'[t] = [th[t] EXCEPT !.pc = pc] /\ th'[t].pc = pc
         /\ th'[t].old = th[t].old /\ th'[t].new = th[t].new
         /\ th'[t].le = th[t].le /\ th'[t].res = th[t].res
         /\ \A u \in Threads : u # t => th'[u] = th[u]
         /\ UNCHANGED <<bucket, node, retired, hist>>
         /\ useCas' = useCas /\ ptr' = ptr /\ op' = op /\ did' = did /\ lck' = lck
         /\ Made(t) => Made(t)'
         /\ What(t)' = What(t)
         /\ FindIndex(th[t].old, op[t].key)' = FindIndex(th[t].old, op[t].key)
<1>1. Types  BY DEF IInv
<1>2. th[t] \in Locals  BY <1>1, ThTypes
<1>3. th' = [th EXCEPT ![t].pc = pc] /\ UNCHANGED <<bucket, node, retired, hist>>
  BY DEF Goto
<1>4. th'[t] = [th[t] EXCEPT !.pc = pc] /\ \A u \in Threads : u # t => th'[u] = th[u]
  BY <1>1, <1>3 DEF Types
<1>5. /\ th'[t].pc = pc
      /\ th'[t].old = th[t].old /\ th'[t].new = th[t].new
      /\ th'[t].le = th[t].le /\ th'[t].res = th[t].res
  BY <1>2, <1>4 DEF Locals
<1>6. useCas' = useCas /\ ptr' = ptr /\ op' = op /\ did' = did /\ node' = node /\ lck' = lck
  BY <1>3 DEF bucket, hist
<1> QED  BY <1>1, <1>3, <1>4, <1>5, <1>6, SameMade

\* A step that only moves a thread to another place keeps the invariant when what
\* must be true at that place is.
LEMMA GotoKept ==
  ASSUME IInv, NEW t \in Threads, NEW pc \in Pcs, Goto(t, pc),
         pc \in Holding => th[t].pc \in Holding, Local(t)'
  PROVE  IInv'
<1> DEFINE x == [th[t] EXCEPT !.pc = pc]
<1>1. Types  BY DEF IInv
<1>2. th[t] \in Locals  BY <1>1, ThTypes
<1>3. x \in Locals /\ x.pc = pc /\ x.old = th[t].old /\ x.new = th[t].new /\ x.res = th[t].res
  BY <1>2 DEF Locals
<1>4. th' = [th EXCEPT ![t] = x] /\ UNCHANGED <<bucket, node, retired, hist>>
  BY DEF Goto
<1> HIDE DEF x
<1> QED  BY <1>3, <1>4, QuietUnlocked

-----------------------------------------------------------------------------
\* The part of the invariant about one thread.
LEMMA LocalOf ==
  ASSUME IInv, NEW t \in Threads
  PROVE  Local(t) /\ Types /\ th[t].res \in BOOLEAN
BY ThTypes DEF IInv, LocalInv

\* The load before the compare-and-swap keeps the invariant.
LEMMA ReloadKept ==
  ASSUME IInv, NEW t \in Threads, Reload(t)
  PROVE  IInv'
<1> DEFINE pc == IF ptr = th[t].old THEN "cas" ELSE "destruct"
<1>1. pc \in Pcs /\ pc \notin Holding /\ pc \in {"cas", "destruct"}  BY DEF Pcs, Holding
<1>2. Goto(t, pc) /\ th[t].pc = "reload"  BY DEF Reload
<1> HIDE DEF pc
<1>3. Local(t)'
  <2>1. Local(t)  BY LocalOf
  <2> QED  BY <1>1, <1>2, <2>1, GotoFacts DEF Local
<1> QED  BY <1>1, <1>2, <1>3, GotoKept

\* A compare-and-swap that fails keeps the invariant.
LEMMA CasFailsKept ==
  ASSUME IInv, NEW t \in Threads, th[t].pc \in {"cas", "lock", "take"}, Goto(t, "destruct")
  PROVE  IInv'
<1>1. "destruct" \in Pcs /\ "destruct" \notin Holding  BY DEF Pcs, Holding
<1>2. Local(t)'
  <2>1. Local(t)  BY LocalOf
  <2> QED  BY <1>1, <2>1, GotoFacts DEF Local
<1> QED  BY <1>1, <1>2, GotoKept

\* The comparison under the lock keeps the invariant; after it the bucket has the
\* node that was loaded until the lock is released.
LEMMA CheckKept ==
  ASSUME IInv, NEW t \in Threads, Check(t)
  PROVE  IInv'
<1> DEFINE pc == IF ptr = th[t].old THEN "store" ELSE "unlock"
<1>1. pc \in Pcs /\ pc \in {"store", "unlock"} /\ (pc = "store" => ptr = th[t].old)
  BY DEF Pcs
<1>2. Goto(t, pc) /\ th[t].pc = "check" /\ th[t].pc \in Holding  BY DEF Check, Holding
<1> HIDE DEF pc
<1>3. Local(t)'
  <2>1. Local(t)  BY LocalOf
  <2> QED  BY <1>1, <1>2, <2>1, GotoFacts DEF Local
<1> QED  BY <1>1, <1>2, <1>3, GotoKept

\* A validation that fails keeps the invariant.
LEMMA ValidateAgainKept ==
  ASSUME IInv, NEW t \in Threads, th[t].pc = "validate", Goto(t, "load")
  PROVE  IInv'
<1>1. "load" \in Pcs /\ "load" \notin Holding  BY DEF Pcs, Holding
<1>2. Local(t)'
  <2>1. Local(t)  BY LocalOf
  <2> QED  BY <1>1, <2>1, GotoFacts DEF Local
<1> QED  BY <1>1, <1>2, GotoKept

\* The load of the lock word keeps the invariant.
LEMMA LockLoadKept ==
  ASSUME IInv, NEW t \in Threads, LockLoad(t)
  PROVE  IInv'
<1>1. th[t].pc = "lock"  BY DEF LockLoad
<1>2. CASE Goto(t, "destruct")  BY <1>1, <1>2, CasFailsKept
<1>3. ASSUME ~IsLocked(lck), th' = [th EXCEPT ![t].pc = "take", ![t].le = lck],
             UNCHANGED <<bucket, node, retired, hist>>
      PROVE  IInv'
  <2> DEFINE x == [th[t] EXCEPT !.pc = "take", !.le = lck]
  <2>1. Types /\ Local(t)  BY LocalOf
  <2>2. th[t] \in Locals /\ lck \in LockWords  BY <2>1, ThTypes DEF Types
  <2>3. /\ x \in Locals /\ x.pc = "take" /\ x.le = lck /\ x.old = th[t].old
        /\ x.new = th[t].new /\ x.res = th[t].res
    BY <2>2 DEF Locals, Pcs
  <2>4. th' = [th EXCEPT ![t] = x]  BY <1>3
  <2> HIDE DEF x
  <2>5. th'[t] = x  BY <2>1, <2>4 DEF Types
  <2>6. useCas' = useCas /\ ptr' = ptr /\ op' = op /\ did' = did /\ node' = node
    BY <1>3 DEF bucket, hist
  <2>7. (Made(t) => Made(t)') /\ What(t)' = What(t)
    BY <2>1, <2>3, <2>5, <2>6, SameMade
  <2>8. lck.count % 2 = 0
    <3>1. lck.count \in Nat  BY <2>2 DEF LockWords
    <3> QED  BY <1>3, <3>1 DEF IsLocked
  <2>9. Local(t)'  BY <1>1, <2>1, <2>3, <2>5, <2>6, <2>7, <2>8 DEF Local
  <2>10. "take" \notin Holding  BY DEF Holding
  <2> QED  BY <1>3, <2>3, <2>4, <2>9, <2>10, QuietUnlocked
<1> QED  BY <1>2, <1>3 DEF LockLoad

\* The compare-and-swap on the lock word keeps the invariant.
LEMMA LockTakeKept ==
  ASSUME IInv, NEW t \in Threads, LockTake(t)
  PROVE  IInv'
<1>1. th[t].pc = "take"  BY DEF LockTake
<1>2. CASE Goto(t, "destruct")  BY <1>1, <1>2, CasFailsKept
<1>3. ASSUME lck = th[t].le, lck' = TakeLock(lck, t), th' = [th EXCEPT ![t].pc = "check"],
             UNCHANGED <<useCas, ptr, node, retired, hist>>
      PROVE  IInv'
  <2> DEFINE x == [th[t] EXCEPT !.pc = "check"]
  <2>1. Types /\ Local(t)  BY LocalOf
  <2>2. th[t] \in Locals /\ lck \in LockWords  BY <2>1, ThTypes DEF Types
  <2>3. /\ x \in Locals /\ x.pc = "check" /\ x.old = th[t].old
        /\ x.new = th[t].new /\ x.res = th[t].res
    BY <2>2 DEF Locals, Pcs
  <2>4. th' = [th EXCEPT ![t] = x]  BY <1>3
  <2> HIDE DEF x
  <2>5. th'[t] = x /\ \A u \in Threads : u # t => th'[u] = th[u]  BY <2>1, <2>4 DEF Types
  <2>6. useCas' = useCas /\ ptr' = ptr /\ op' = op /\ did' = did /\ node' = node
    BY <1>3 DEF hist
  <2>7. (Made(t) => Made(t)') /\ What(t)' = What(t)
    BY <2>1, <2>3, <2>5, <2>6, SameMade
  <2>8. Local(t)'  BY <1>1, <2>1, <2>3, <2>5, <2>6, <2>7 DEF Local
  <2>9. lck.count % 2 = 0 /\ lck.count < CountMod
    BY <1>1, <1>3, <2>1 DEF Local, IInv, LockInv
  <2>10. /\ lck' \in LockWords /\ lck'.count < CountMod
         /\ IsLocked(lck') /\ IsSelfLocked(lck', t)
    BY <1>3, <2>2, <2>9, TakeLemma
  <2>11. \A u \in Threads : u # t => th'[u].pc \notin Holding
    <3>1. ~IsLocked(lck)  BY <2>9 DEF IsLocked
    <3> QED  BY <2>5, <3>1 DEF IInv, LockInv
  <2>12. LockInv'  BY <2>10, <2>11 DEF LockInv
  <2> QED  BY <1>3, <2>3, <2>4, <2>8, <2>10, <2>12, Quiet
<1> QED  BY <1>2, <1>3 DEF LockTake

\* The release of the lock keeps the invariant.
LEMMA UnlockKept ==
  ASSUME IInv, NEW t \in Threads, Unlock(t)
  PROVE  IInv'
<1> DEFINE pc == IF th[t].res THEN "retire" ELSE "destruct"
           x == [th[t] EXCEPT !.pc = pc]
<1>1. Types /\ Local(t) /\ th[t].pc = "unlock"  BY LocalOf DEF Unlock
<1>2. th[t] \in Locals /\ lck \in LockWords  BY <1>1, ThTypes DEF Types
<1>3. /\ pc \in {"retire", "destruct"} /\ pc \notin Holding
      /\ (pc = "retire") = th[t].res
  BY <1>2 DEF Holding, Locals
<1>4. /\ x \in Locals /\ x.pc = pc /\ x.old = th[t].old
      /\ x.new = th[t].new /\ x.res = th[t].res
  BY <1>2 DEF Locals, Pcs
<1>5. th' = [th EXCEPT ![t] = x] /\ lck' = Released(lck, t)
      /\ UNCHANGED <<useCas, ptr, node, retired, hist>>
  BY DEF Unlock
<1> HIDE DEF x, pc
<1>6. th'[t] = x /\ \A u \in Threads : u # t => th'[u] = th[u]  BY <1>1, <1>5 DEF Types
<1>7. useCas' = useCas /\ ptr' = ptr /\ op' = op /\ did' = did /\ node' = node
  BY <1>5 DEF hist
<1>8. What(t)' = What(t)  BY <1>1, <1>4, <1>6, <1>7, SameMade
<1>9. Local(t)'  BY <1>1, <1>3, <1>4, <1>6, <1>7, <1>8 DEF Local
<1>10. lck' \in LockWords /\ lck'.count < CountMod
  BY <1>2, <1>5, ReleaseLemma DEF IInv, LockInv
<1>11. \A u \in Threads : u # t => th[u].pc \notin Holding
  <2>1. IsSelfLocked(lck, t)  BY <1>1 DEF IInv, LockInv, Holding
  <2>2. \A u \in Threads : IsSelfLocked(lck, u) => u = t
    BY <2>1, ThreadsAssumption DEF IsSelfLocked
  <2> QED  BY <2>2 DEF IInv, LockInv
<1>12. LockInv'  BY <1>3, <1>4, <1>6, <1>10, <1>11 DEF LockInv
<1> QED  BY <1>4, <1>5, <1>9, <1>10, <1>12, Quiet

\* Going to the validation keeps the invariant.
LEMMA ValidateLaterKept ==
  ASSUME IInv, NEW t \in Threads, th[t].pc = "load",
         op[t].kind = IF Present(t) THEN "insert" ELSE "remove",
         th' = [th EXCEPT ![t].pc = "validate", ![t].old = ptr],
         UNCHANGED <<bucket, node, retired, hist>>
  PROVE  IInv'
<1> DEFINE x == [th[t] EXCEPT !.pc = "validate", !.old = ptr]
<1>1. Types /\ Local(t)  BY LocalOf
<1>2. th[t] \in Locals /\ ptr \in Addresses  BY <1>1, ThTypes DEF Types
<1>3. /\ x \in Locals /\ x.pc = "validate" /\ x.old = ptr
      /\ x.new = th[t].new /\ x.res = th[t].res
  BY <1>2 DEF Locals, Pcs
<1>4. th' = [th EXCEPT ![t] = x]  OBVIOUS
<1> HIDE DEF x
<1>5. th'[t] = x  BY <1>1, <1>4 DEF Types
<1>6. useCas' = useCas /\ ptr' = ptr /\ op' = op /\ did' = did /\ node' = node
  BY DEF bucket, hist
<1>7. FindIndex(th[t].old, op[t].key)' = FindIndex(ptr, op[t].key)
  BY <1>3, <1>5, <1>6 DEF FindIndex, EntriesAt
<1>8. ~x.res /\ th[t].new = Null
  BY <1>1, <1>2, <1>3 DEF Local, Locals
<1>9. Local(t)'  BY <1>1, <1>3, <1>5, <1>6, <1>7, <1>8 DEF Local, Present
<1>10. "validate" \notin Holding  BY DEF Holding
<1> QED  BY <1>3, <1>4, <1>8, <1>9, <1>10, QuietUnlocked

\* An update in place under the lock makes no copy when it loads the bucket.
LEMMA LoadUpdateKept ==
  ASSUME IInv, NEW t \in Threads, LoadUpdate(t)
  PROVE  IInv'
<1> DEFINE x == [th[t] EXCEPT !.pc = "lock", !.old = ptr, !.new = Null]
<1>1. Types /\ Local(t)  BY LocalOf
<1>2. th[t] \in Locals /\ ptr \in Addresses  BY <1>1, ThTypes DEF Types
<1>3. /\ th[t].pc = "load" /\ op[t].kind = "upsert" /\ ~useCas /\ FindIndex(ptr, op[t].key) # 0
      /\ th' = [th EXCEPT ![t] = x] /\ UNCHANGED <<bucket, node, retired, hist>>
  BY DEF LoadUpdate, Present
<1>4. ~th[t].res /\ th[t].new = Null  BY <1>1, <1>2, <1>3 DEF Local, Locals
<1>5. /\ x \in Locals /\ x.pc = "lock" /\ x.old = ptr /\ x.new = Null
      /\ x.new = th[t].new /\ x.res = th[t].res
  BY <1>2, <1>4 DEF Locals, Pcs, Addresses
<1> HIDE DEF x
<1>6. th'[t] = x  BY <1>1, <1>3 DEF Types
<1>7. useCas' = useCas /\ ptr' = ptr /\ op' = op /\ did' = did /\ node' = node
  BY <1>3 DEF bucket, hist
<1>8. FindIndex(th[t].old, op[t].key)' = FindIndex(ptr, op[t].key)
  BY <1>5, <1>6, <1>7 DEF FindIndex, EntriesAt
<1>9. Made(t)'  BY <1>3, <1>5, <1>6, <1>7, <1>8 DEF Made
<1>10. Local(t)'  BY <1>1, <1>3, <1>4, <1>5, <1>6, <1>7, <1>9 DEF Local
<1>11. "lock" \notin Holding  BY DEF Holding
<1> QED  BY <1>3, <1>4, <1>5, <1>10, <1>11, QuietUnlocked

-----------------------------------------------------------------------------
\* The locals of a thread that is not in a call.
LEMMA IdleLemma ==
  /\ Idle \in Locals /\ Idle.pc = "idle" /\ Idle.old = Null /\ Idle.new = Null
  /\ Idle.res = FALSE
BY DEF Idle, Locals, Pcs, Addresses, LockWords, Unlocked

\* The locals of a thread that starts a call, or starts over.
LEMMA LoadLemma ==
  LET x == [Idle EXCEPT !.pc = "load"] IN
  /\ x \in Locals /\ x.pc = "load" /\ x.old = Null /\ x.new = Null /\ x.res = FALSE
BY DEF Idle, Locals, Pcs, Addresses, LockWords, Unlocked

\* What a return changes.
LEMMA ReturnFacts ==
  ASSUME IInv, NEW t \in Threads, NEW ok \in BOOLEAN, NEW val \in Values \cup {None},
         Return(t, ok, val)
  PROVE  /\ th' = [th EXCEPT ![t] = Idle] /\ th'[t] = Idle
         /\ \A u \in Threads : u # t => th'[u] = th[u]
         /\ useCas' = useCas /\ ptr' = ptr /\ lck' = lck /\ node' = node
         /\ op' = [op EXCEPT ![t] = NoCall] /\ op'[t] = NoCall
         /\ \A u \in Threads : u # t => op'[u] = op[u]
         /\ seen' = [seen EXCEPT ![t] = {}] /\ seen'[t] = {}
         /\ \A u \in Threads : u # t => seen'[u] = seen[u]
         /\ did' = [did EXCEPT ![t] = "nothing"] /\ did'[t] = "nothing"
         /\ \A u \in Threads : u # t => did'[u] = did[u]
         /\ ret' = [ret EXCEPT ![t] = [ok |-> ok, val |-> val]]
         /\ calls' = calls
         /\ retired' \in [Nodes -> Nat] => Types'
<1>1. Types  BY DEF IInv
<1>2. /\ th' = [th EXCEPT ![t] = Idle] /\ UNCHANGED <<bucket, node>>
      /\ op' = [op EXCEPT ![t] = NoCall] /\ seen' = [seen EXCEPT ![t] = {}]
      /\ did' = [did EXCEPT ![t] = "nothing"]
      /\ ret' = [ret EXCEPT ![t] = [ok |-> ok, val |-> val]]
      /\ UNCHANGED calls
  BY DEF Return, Ends
<1>3. useCas' = useCas /\ ptr' = ptr /\ lck' = lck /\ node' = node
  BY <1>2 DEF bucket
<1>4. th'[t] = Idle /\ \A u \in Threads : u # t => th'[u] = th[u]
  BY <1>1, <1>2 DEF Types
<1>5. op'[t] = NoCall /\ \A u \in Threads : u # t => op'[u] = op[u]
  BY <1>1, <1>2 DEF Types
<1>6. seen'[t] = {} /\ \A u \in Threads : u # t => seen'[u] = seen[u]
  BY <1>1, <1>2 DEF Types
<1>7. did'[t] = "nothing" /\ \A u \in Threads : u # t => did'[u] = did[u]
  BY <1>1, <1>2 DEF Types
<1>8. ASSUME retired' \in [Nodes -> Nat]  PROVE Types'
  <2>1. th' \in [Threads -> Locals]  BY <1>1, <1>2, IdleLemma DEF Types
  <2>2. op' \in [Threads -> Requests \cup {NoCall}]  BY <1>1, <1>2 DEF Types
  <2>3. seen' \in [Threads -> SUBSET (Values \cup {None})]  BY <1>1, <1>2 DEF Types
  <2>4. did' \in [Threads -> Deeds]  BY <1>1, <1>2 DEF Types, Deeds
  <2>5. ret' \in [Threads -> [ok : BOOLEAN, val : Values \cup {None}]]
    BY <1>1, <1>2 DEF Types
  <2> QED  BY <1>1, <1>2, <1>3, <1>8, <2>1, <2>2, <2>3, <2>4, <2>5 DEF Types
<1> QED  BY <1>2, <1>3, <1>4, <1>5, <1>6, <1>7, <1>8

\* A call returns; the node it installed another one for is retired.
LEMMA ReturnKept ==
  ASSUME IInv, NEW t \in Threads, NEW ok \in BOOLEAN, NEW val \in Values \cup {None},
         Return(t, ok, val), th[t].new = Null, th[t].pc \notin Holding,
         retired' = IF th[t].res /\ th[t].old # Null
                      THEN [retired EXCEPT ![th[t].old] = @ + 1] ELSE retired
  PROVE  IInv'
<1>1. Types /\ LocalInv  BY DEF IInv
<1>2. /\ th'[t] = Idle /\ \A u \in Threads : u # t => th'[u] = th[u]
      /\ useCas' = useCas /\ ptr' = ptr /\ lck' = lck /\ node' = node
      /\ op'[t] = NoCall /\ \A u \in Threads : u # t => op'[u] = op[u]
      /\ \A u \in Threads : u # t => seen'[u] = seen[u]
      /\ did'[t] = "nothing" /\ \A u \in Threads : u # t => did'[u] = did[u]
      /\ retired' \in [Nodes -> Nat] => Types'
  BY ReturnFacts
<1> DEFINE o == th[t].old
           pays == th[t].res /\ o # Null
<1>3. o \in Addresses /\ th[t].res \in BOOLEAN  BY <1>1, ThTypes
<1>4. retired \in [Nodes -> Nat] /\ (pays => o \in Nodes)  BY <1>1, <1>3 DEF Types, Addresses
<1>5. retired' = IF pays THEN [retired EXCEPT ![o] = @ + 1] ELSE retired  OBVIOUS
<1>6. retired' \in [Nodes -> Nat]
  <2>1. CASE pays  BY <1>4, <1>5, <2>1
  <2>2. CASE ~pays  BY <1>4, <1>5, <2>2
  <2> QED  BY <2>1, <2>2
<1>7. \A n \in Nodes : retired'[n] = IF pays /\ n = o THEN retired[n] + 1 ELSE retired[n]
  BY <1>4, <1>5
<1>8. pays => ptr # o /\ retired[o] = 0 /\ node[o] # Free
              /\ \A u \in Threads : u # t => ~(th[u].res /\ th[u].old = o)
  <2>1. pays => ptr # o /\ retired[o] = 0
                /\ \A u \in Threads : u # t => ~(th[u].res /\ th[u].old = o)
    BY DEF IInv, ShareInv, OldInv
  <2>2. pays => node[o] # Free  BY <1>4 DEF IInv, ShareInv, FreeInv
  <2> QED  BY <2>1, <2>2
<1> HIDE DEF pays, o
<1>9. NodeInv'  BY <1>2 DEF IInv, NodeInv
<1>10. /\ th'[t].new = Null /\ th'[t].old = Null /\ ~th'[t].res /\ th'[t].pc = "idle"
  BY <1>2, IdleLemma
<1>11. Null \notin Nodes  BY NodesAssumption DEF Null
<1>12. ShareInv'
  <2>1. FreeInv'
    BY <1>2, <1>7, <1>8, <1>10, <1>11 DEF IInv, ShareInv, FreeInv
  <2>2. NewInv'
    <3> SUFFICES ASSUME NEW u \in Threads, th'[u].new # Null
                 PROVE  /\ ptr' # th'[u].new /\ retired'[th'[u].new] = 0
                        /\ \A w \in Threads : /\ th'[w].old # th'[u].new
                                              /\ w # u => th'[w].new # th'[u].new
      BY DEF NewInv
    <3>1. u # t /\ th'[u] = th[u]  BY <1>2, <1>10
    <3>2. th[u].new \in Nodes  BY <1>1, <3>1, ThTypes DEF Addresses
    <3>3. /\ ptr # th[u].new /\ retired[th[u].new] = 0
          /\ \A w \in Threads : /\ th[w].old # th[u].new
                                /\ w # u => th[w].new # th[u].new
      BY <3>1 DEF IInv, ShareInv, NewInv
    <3>4. o # th[u].new  BY <3>3 DEF o
    <3> QED  BY <1>2, <1>7, <1>10, <3>1, <3>2, <3>3, <3>4
  <2>3. OldInv'
    <3> SUFFICES ASSUME NEW u \in Threads, th'[u].res, th'[u].old # Null
                 PROVE  /\ ptr' # th'[u].old /\ retired'[th'[u].old] = 0
                        /\ \A w \in Threads :
                             w # u => ~(th'[w].res /\ th'[w].old = th'[u].old)
      BY DEF OldInv
    <3>1. u # t /\ th'[u] = th[u]  BY <1>2, <1>10
    <3>2. th[u].old \in Nodes  BY <1>1, <3>1, ThTypes DEF Addresses
    <3>3. /\ ptr # th[u].old /\ retired[th[u].old] = 0
          /\ \A w \in Threads : w # u => ~(th[w].res /\ th[w].old = th[u].old)
      BY <3>1 DEF IInv, ShareInv, OldInv
    <3>4. ~(pays /\ o = th[u].old)  BY <1>8, <3>1
    <3> QED  BY <1>2, <1>7, <1>10, <3>1, <3>2, <3>3, <3>4
  <2>4. RestInv'
    <3> SUFFICES ASSUME NEW n \in Nodes
                 PROVE  /\ retired'[n] \in {0, 1}
                        /\ ptr' = n => retired'[n] = 0
                        /\ \/ node'[n] = Free \/ ptr' = n \/ retired'[n] = 1
                           \/ \E u \in Threads : Gives(u, n)'
      BY DEF RestInv
    <3>1. /\ retired[n] \in {0, 1}
          /\ ptr = n => retired[n] = 0
          /\ node[n] = Free \/ ptr = n \/ retired[n] = 1 \/ \E u \in Threads : Gives(u, n)
      BY DEF IInv, ShareInv, RestInv
    <3>2. CASE pays /\ n = o  BY <1>2, <1>7, <1>8, <3>2
    <3>3. CASE ~(pays /\ n = o)
      <4>1. retired'[n] = retired[n]  BY <1>7, <3>3
      <4>2. ASSUME NEW u \in Threads, Gives(u, n)  PROVE Gives(u, n)'
        <5>1. n # Null  BY <1>11
        <5>2. u # t  BY <3>3, <4>2, <5>1 DEF Gives, pays, o
        <5> QED  BY <1>2, <4>2, <5>2 DEF Gives
      <4> QED  BY <1>2, <3>1, <4>1, <4>2
    <3> QED  BY <3>2, <3>3
  <2> QED  BY <2>1, <2>2, <2>3, <2>4 DEF ShareInv
<1>13. LockInv'
  <2>1. "idle" \notin Holding  BY DEF Holding
  <2> QED  BY <1>2, <1>10, <2>1, SameLock
<1>14. LocalInv'
  <2>1. ASSUME NEW u \in Threads, u # t  PROVE Local(u)'
    <3>1. Local(u)  BY <1>1 DEF LocalInv
    <3> QED  BY <1>1, <1>2, <2>1, <3>1, Bystander
  <2>2. Local(t)'  BY <1>2, <1>10 DEF Local
  <2> QED  BY <2>1, <2>2 DEF LocalInv
<1>15. SeenInv'
  <2>1. Contents' = Contents  BY <1>2, SameContents
  <2>2. ~InCall(t)'  BY <1>2 DEF InCall, NoCall
  <2>3. ASSUME NEW u \in Threads, u # t, InCall(u)'  PROVE (Contents[op[u].key] \in seen[u])'
    <3>1. InCall(u) /\ op'[u] = op[u] /\ seen'[u] = seen[u]  BY <1>2, <2>3 DEF InCall
    <3> QED  BY <2>1, <3>1 DEF IInv, SeenInv
  <2> QED  BY <2>2, <2>3 DEF SeenInv
<1> QED  BY <1>2, <1>6, <1>9, <1>12, <1>13, <1>14, <1>15 DEF IInv

-----------------------------------------------------------------------------
\* Node::find answers None exactly when the key is not in the map.
LEMMA FindsKey ==
  ASSUME Types, NodeInv, NEW n \in Nodes, node[n] # Free, n # Null, NEW k \in Keys
  PROVE  /\ Find(n, k) \in Values \cup {None}
         /\ Find(n, k) # None <=> FindIndex(n, k) # 0
<1> DEFINE e == EntriesAt(n)
<1>1. e \in Seq(Entries) /\ Distinct(e) /\ Len(e) \in Nat /\ Len(e) >= 1
  BY EntriesLemma DEF Cnt, Addresses
<1>2. FindIndex(n, k) = FindInRange(e, k)  BY DEF FindIndex
<1>3. \A i \in 1 .. Len(e) : e[i].val \in Values /\ e[i].val # None
  <2>1. \A i \in 1 .. Len(e) : e[i] \in Entries  BY <1>1
  <2> QED  BY <2>1, NoneAssumption DEF Entries
<1> HIDE DEF e
<1>4. CASE ~(Len(e) <= Last(Sizes))
  <2>1. Find(n, k) = LET i == FindInRange(e, k) IN IF i = 0 THEN None ELSE e[i].val
    BY <1>4, Zenon DEF Find, e
  <2>2. FindInRange(e, k) # 0 => FindInRange(e, k) \in 1 .. Len(e)
    BY <1>1, FindLemma
  <2> QED  BY <1>2, <1>3, <2>1, <2>2
<1>5. CASE Len(e) <= Last(Sizes) /\ e[1].key = k
  <2>1. Find(n, k) = e[1].val  BY <1>5, Zenon DEF Find, e
  <2>2. 1 \in 1 .. Len(e)  BY <1>1
  <2>3. FindInRange(e, k) = 1  BY <1>1, <1>5, <2>2, FindLemma
  <2> QED  BY <1>2, <1>3, <2>1, <2>2, <2>3
<1>6. CASE Len(e) <= Last(Sizes) /\ e[1].key # k
  <2> DEFINE r == Tail(e)
             i == FindInRange(r, k)
  <2>1. Find(n, k) = IF i = 0 THEN None ELSE e[i].val  BY <1>6, Zenon DEF Find, e
  <2>2. r \in Seq(Entries) /\ Len(r) = Len(e) - 1 /\ \A j \in 1 .. Len(r) : r[j] = e[j + 1]
    <3>1. e # <<>>  BY <1>1
    <3> QED  BY <1>1, <3>1, HeadTailProperties
  <2> HIDE DEF r
  <2>3. Distinct(r)  BY <1>1, <2>2 DEF Distinct
  <2>4. /\ i \in 0 .. Len(r) /\ (i # 0 => r[i].key = k)
        /\ \A j \in 1 .. Len(r) : r[j].key = k => i = j
    BY <2>2, <2>3, FindLemma
  <2> HIDE DEF i
  <2>5. CASE i = 0
    <3>1. \A j \in 1 .. Len(e) : e[j].key # k
      <4> SUFFICES ASSUME NEW j \in 1 .. Len(e), j # 1  PROVE e[j].key # k
        BY <1>6
      <4>1. j - 1 \in 1 .. Len(r) /\ (j - 1) + 1 = j  BY <1>1, <2>2
      <4>2. r[j - 1] = e[j]  BY <2>2, <4>1
      <4>3. 0 \notin 1 .. Len(r)  OBVIOUS
      <4> QED  BY <2>4, <2>5, <4>1, <4>2, <4>3
    <3> QED  BY <1>1, <1>2, <2>1, <2>5, <3>1, LookupLemma
  <2>6. CASE i # 0
    <3>1. i \in 1 .. Len(r) /\ i + 1 \in 1 .. Len(e) /\ i \in 1 .. Len(e) /\ i + 1 # 0
      BY <1>1, <2>2, <2>4, <2>6
    <3>2. e[i + 1].key = k  BY <2>2, <2>4, <2>6, <3>1
    <3>3. FindInRange(e, k) = i + 1  BY <1>1, <3>1, <3>2, FindLemma
    <3> QED  BY <1>2, <1>3, <2>1, <2>6, <3>1, <3>3
  <2> QED  BY <2>5, <2>6
<1> QED  BY <1>4, <1>5, <1>6

\* Whether the key of a call is in the bucket, by the node or by the map.
LEMMA PresentLemma ==
  ASSUME IInv, NEW k \in Keys
  PROVE  /\ ptr \in Addresses /\ (ptr # Null => ptr \in Nodes /\ node[ptr] # Free)
         /\ FindIndex(ptr, k) = 0 <=> Contents[k] = None
         /\ Contents[k] \in Values \cup {None}
<1>1. Types /\ NodeInv /\ ptr \in Addresses  BY DEF IInv, Types
<1>2. Contents[k] = Lookup(EntriesAt(ptr), k)  BY ContentsLemma
<1>3. ptr # Null => ptr \in Nodes /\ node[ptr] # Free
  BY <1>1 DEF IInv, ShareInv, FreeInv, Addresses
<1> QED  BY <1>1, <1>2, <1>3, FindIndexLemma

\* What find returns.
FindResult(t) == IF ptr = Null THEN None ELSE Find(ptr, op[t].key)

\* What a find changes.
LEMMA LoadFindFacts ==
  ASSUME IInv, NEW t \in Threads, LoadFind(t)
  PROVE  /\ th[t].pc = "load" /\ op[t].kind = "find" /\ op[t].key \in Keys
         /\ FindResult(t) \in Values \cup {None}
         /\ FindResult(t) # None <=> Contents[op[t].key] # None
         /\ Return(t, FindResult(t) # None, FindResult(t))
         /\ retired' = retired
<1>1. Types /\ Local(t) /\ NodeInv  BY LocalOf DEF IInv
<1>2. th[t].pc = "load" /\ op[t].kind = "find"  BY DEF LoadFind
<1>3. op[t].key \in Keys  BY <1>1, <1>2, OpTypes DEF Local
<1>4. /\ ptr \in Addresses /\ (ptr # Null => ptr \in Nodes /\ node[ptr] # Free)
      /\ FindIndex(ptr, op[t].key) = 0 <=> Contents[op[t].key] = None
  BY <1>3, PresentLemma
<1>5. CASE ptr = Null
  <2>1. FindResult(t) = None  BY <1>5 DEF FindResult
  <2>2. EntriesAt(ptr) = <<>> /\ Cnt(ptr) = 0  BY <1>5 DEF EntriesAt, Cnt
  <2>3. FindIndex(ptr, op[t].key) = 0  BY <1>1, <1>4, <2>2, FindIndexLemma
  <2> QED  BY <1>2, <1>3, <1>4, <2>1, <2>3 DEF LoadFind, FindResult
<1>6. CASE ptr # Null
  <2>1. FindResult(t) = Find(ptr, op[t].key)  BY <1>6 DEF FindResult
  <2>2. /\ Find(ptr, op[t].key) \in Values \cup {None}
        /\ Find(ptr, op[t].key) # None <=> FindIndex(ptr, op[t].key) # 0
    BY <1>1, <1>3, <1>4, <1>6, FindsKey
  <2> QED  BY <1>2, <1>3, <1>4, <1>6, <2>1, <2>2 DEF LoadFind
<1> QED  BY <1>5, <1>6

\* A find keeps the invariant.
LEMMA LoadFindKept ==
  ASSUME IInv, NEW t \in Threads, LoadFind(t)
  PROVE  IInv'
<1>1. Local(t)  BY LocalOf
<1>2. /\ th[t].pc = "load" /\ FindResult(t) \in Values \cup {None}
      /\ Return(t, FindResult(t) # None, FindResult(t)) /\ retired' = retired
  BY LoadFindFacts
<1>3. th[t].new = Null /\ ~th[t].res /\ th[t].pc \notin Holding
  BY <1>1, <1>2 DEF Local, Holding
<1>4. (FindResult(t) # None) \in BOOLEAN  OBVIOUS
<1> HIDE DEF FindResult
<1> QED  BY <1>2, <1>3, <1>4, ReturnKept

\* A call that changes nothing returns.
LEMMA NothingKept ==
  ASSUME IInv, NEW t \in Threads, th[t].pc \in {"load", "validate"},
         Return(t, FALSE, None), UNCHANGED retired
  PROVE  IInv'
<1>1. Local(t)  BY LocalOf
<1>2. th[t].new = Null /\ ~th[t].res /\ th[t].pc \notin Holding
  BY <1>1 DEF Local, Holding
<1>3. FALSE \in BOOLEAN /\ None \in Values \cup {None}  OBVIOUS
<1> QED  BY <1>2, <1>3, ReturnKept

\* A call that has nothing to do by the node it loaded keeps the invariant.
LEMMA LoadNothingToDoKept ==
  ASSUME IInv, NEW t \in Threads, LoadNothingToDo(t)
  PROVE  IInv'
<1>1. th[t].pc = "load" /\ op[t].kind = IF Present(t) THEN "insert" ELSE "remove"
  BY DEF LoadNothingToDo
<1>2. CASE Return(t, FALSE, None) /\ UNCHANGED retired  BY <1>1, <1>2, NothingKept
<1>3. CASE /\ th' = [th EXCEPT ![t].pc = "validate", ![t].old = ptr]
           /\ UNCHANGED <<bucket, node, retired, hist>>
  BY <1>1, <1>3, ValidateLaterKept
<1> QED  BY <1>2, <1>3 DEF LoadNothingToDo

\* The validation of a call that has nothing to do keeps the invariant.
LEMMA ValidateKept ==
  ASSUME IInv, NEW t \in Threads, Validate(t)
  PROVE  IInv'
<1>1. th[t].pc = "validate"  BY DEF Validate
<1>2. CASE Return(t, FALSE, None) /\ UNCHANGED retired  BY <1>1, <1>2, NothingKept
<1>3. CASE Goto(t, "load")  BY <1>1, <1>3, ValidateAgainKept
<1> QED  BY <1>2, <1>3 DEF Validate

\* Retiring the replaced node, the last step of a call, keeps the invariant.
LEMMA RetireKept ==
  ASSUME IInv, NEW t \in Threads, Retire(t)
  PROVE  IInv'
<1>1. Local(t)  BY LocalOf
<1>2. /\ th[t].pc = "retire" /\ Return(t, What(t) # "updated", None)
      /\ retired' = IF th[t].old = Null THEN retired
                    ELSE [retired EXCEPT ![th[t].old] = @ + 1]
  BY DEF Retire
<1>3. th[t].new = Null /\ th[t].res /\ th[t].pc \notin Holding
  BY <1>1, <1>2 DEF Local, Holding
<1>4. (What(t) # "updated") \in BOOLEAN /\ None \in Values \cup {None}  OBVIOUS
<1>5. retired' = IF th[t].res /\ th[t].old # Null
                   THEN [retired EXCEPT ![th[t].old] = @ + 1] ELSE retired
  BY <1>2, <1>3
<1> QED  BY <1>2, <1>3, <1>4, <1>5, ReturnKept

-----------------------------------------------------------------------------
\* What the start of a call changes.
LEMMA CallFacts ==
  ASSUME IInv, NEW t \in Threads, NEW call \in Menu[t], Call(t, call)
  PROVE  /\ call \in Requests /\ call.key \in Keys /\ op[t] = NoCall /\ ~InCall(t)
         /\ th[t] = Idle /\ did[t] = "nothing"
         /\ th' = [th EXCEPT ![t] = [Idle EXCEPT !.pc = "load"]]
         /\ th'[t] = [Idle EXCEPT !.pc = "load"]
         /\ \A u \in Threads : u # t => th'[u] = th[u]
         /\ op' = [op EXCEPT ![t] = call] /\ op'[t] = call
         /\ \A u \in Threads : u # t => op'[u] = op[u]
         /\ seen' = [seen EXCEPT ![t] = {Contents[call.key]}]
         /\ seen'[t] = {Contents[call.key]}
         /\ \A u \in Threads : u # t => seen'[u] = seen[u]
         /\ calls' = [calls EXCEPT ![t] = @ + 1]
         /\ useCas' = useCas /\ ptr' = ptr /\ lck' = lck /\ node' = node
         /\ retired' = retired /\ did' = did /\ ret' = ret
<1>1. Types /\ Local(t)  BY LocalOf
<1>2. call \in Requests  BY MenuAssumption DEF Requests
<1>3. call.key \in Keys  BY <1>2 DEF Requests
<1>4. /\ ~InCall(t)
      /\ calls' = [calls EXCEPT ![t] = @ + 1]
      /\ op' = [op EXCEPT ![t] = call]
      /\ seen' = [seen EXCEPT ![t] = {Contents[call.key]}]
      /\ did' = did /\ ret' = ret
      /\ th' = [th EXCEPT ![t].pc = "load"]
      /\ UNCHANGED <<bucket, node, retired>>
  BY DEF Call, Begins
<1>5. th[t].pc = "idle"  BY <1>1, <1>4, OpTypes DEF Local
<1>6. op[t] = NoCall /\ th[t] = Idle /\ did[t] = "nothing"
  BY <1>1, <1>5, IdleLemma DEF Local
<1>7. th' = [th EXCEPT ![t] = [Idle EXCEPT !.pc = "load"]]
  BY <1>4, <1>6
<1>8. /\ th'[t] = [Idle EXCEPT !.pc = "load"]
      /\ \A u \in Threads : u # t => th'[u] = th[u]
  BY <1>1, <1>7 DEF Types
<1>9. op'[t] = call /\ \A u \in Threads : u # t => op'[u] = op[u]
  BY <1>1, <1>4 DEF Types
<1>10. seen'[t] = {Contents[call.key]} /\ \A u \in Threads : u # t => seen'[u] = seen[u]
  BY <1>1, <1>4 DEF Types
<1>11. useCas' = useCas /\ ptr' = ptr /\ lck' = lck /\ node' = node /\ retired' = retired
  BY <1>4 DEF bucket
<1> QED  BY <1>2, <1>3, <1>4, <1>6, <1>7, <1>8, <1>9, <1>10, <1>11

\* The start of a call keeps the invariant.
LEMMA CallKept ==
  ASSUME IInv, NEW t \in Threads, NEW call \in Menu[t], Call(t, call)
  PROVE  IInv'
<1> DEFINE x == [Idle EXCEPT !.pc = "load"]
<1>1. Types /\ LocalInv  BY DEF IInv
<1>2. x \in Locals /\ x.pc = "load" /\ x.old = Null /\ x.new = Null /\ x.res = FALSE
  BY LoadLemma
<1> HIDE DEF x
<1>3. /\ call \in Requests /\ call.key \in Keys /\ th[t] = Idle /\ did[t] = "nothing"
      /\ th' = [th EXCEPT ![t] = x] /\ th'[t] = x
      /\ \A u \in Threads : u # t => th'[u] = th[u]
      /\ op' = [op EXCEPT ![t] = call] /\ op'[t] = call
      /\ \A u \in Threads : u # t => op'[u] = op[u]
      /\ seen' = [seen EXCEPT ![t] = {Contents[call.key]}]
      /\ seen'[t] = {Contents[call.key]}
      /\ \A u \in Threads : u # t => seen'[u] = seen[u]
      /\ calls' = [calls EXCEPT ![t] = @ + 1]
      /\ useCas' = useCas /\ ptr' = ptr /\ lck' = lck /\ node' = node
      /\ retired' = retired /\ did' = did /\ ret' = ret
  BY CallFacts DEF x
<1>4. Types'
  <2>1. th' \in [Threads -> Locals]  BY <1>1, <1>2, <1>3 DEF Types
  <2>2. op' \in [Threads -> Requests \cup {NoCall}]  BY <1>1, <1>3 DEF Types
  <2>3. Contents[call.key] \in Values \cup {None}  BY <1>3, PresentLemma
  <2>4. seen' \in [Threads -> SUBSET (Values \cup {None})]  BY <1>1, <1>3, <2>3 DEF Types
  <2>5. calls' \in [Threads -> Nat]  BY <1>1, <1>3 DEF Types
  <2> QED  BY <1>1, <1>3, <2>1, <2>2, <2>4, <2>5 DEF Types
<1>5. NodeInv'  BY <1>3 DEF IInv, NodeInv
<1>6. \A u \in Threads : /\ th'[u].new = th[u].new /\ th'[u].res = th[u].res
                         /\ th'[u].old = th[u].old
  BY <1>2, <1>3, IdleLemma
<1>7. ShareInv'
  <2>1. FreeInv'  BY <1>3, <1>6 DEF IInv, ShareInv, FreeInv
  <2>2. NewInv'  BY <1>3, <1>6 DEF IInv, ShareInv, NewInv
  <2>3. OldInv'  BY <1>3, <1>6 DEF IInv, ShareInv, OldInv
  <2>4. RestInv'  BY <1>3, <1>6 DEF IInv, ShareInv, RestInv, Gives
  <2> QED  BY <2>1, <2>2, <2>3, <2>4 DEF ShareInv
<1>8. LockInv'
  <2>1. "load" \notin Holding  BY DEF Holding
  <2> QED  BY <1>2, <1>3, <2>1, SameLock
<1>9. LocalInv'
  <2>1. ASSUME NEW u \in Threads, u # t  PROVE Local(u)'
    <3>1. Local(u)  BY <1>1 DEF LocalInv
    <3> QED  BY <1>1, <1>3, <2>1, <3>1, Bystander
  <2>2. Local(t)'  BY <1>2, <1>3 DEF Local
  <2> QED  BY <2>1, <2>2 DEF LocalInv
<1>10. SeenInv'
  <2>1. Contents' = Contents  BY <1>3, SameContents
  <2>2. ASSUME NEW u \in Threads, u # t, InCall(u)'  PROVE (Contents[op[u].key] \in seen[u])'
    <3>1. InCall(u) /\ op'[u] = op[u] /\ seen'[u] = seen[u]  BY <1>3, <2>2 DEF InCall
    <3> QED  BY <2>1, <3>1 DEF IInv, SeenInv
  <2>3. (Contents[op[t].key] \in seen[t])'  BY <1>3, <2>1
  <2> QED  BY <2>2, <2>3 DEF SeenInv
<1> QED  BY <1>4, <1>5, <1>7, <1>8, <1>9, <1>10 DEF IInv

-----------------------------------------------------------------------------
\* Giving an unused copy back keeps the invariant: nobody else knows it, so the
\* node may be handed out again at once.
LEMMA DestructKept ==
  ASSUME IInv, NEW t \in Threads, Destruct(t)
  PROVE  IInv'
<1> DEFINE x == [Idle EXCEPT !.pc = "load"]
           f == th[t].new
<1>1. Types /\ LocalInv /\ Local(t)  BY LocalOf DEF IInv
<1>2. x \in Locals /\ x.pc = "load" /\ x.old = Null /\ x.new = Null /\ x.res = FALSE
  BY LoadLemma
<1> HIDE DEF x
<1>3. /\ th[t].pc = "destruct"
      /\ node' = IF f = Null THEN node ELSE [node EXCEPT ![f] = Free]
      /\ th' = [th EXCEPT ![t] = x]
      /\ UNCHANGED <<bucket, retired, hist>>
  BY DEF Destruct, x
<1>4. useCas' = useCas /\ ptr' = ptr /\ lck' = lck /\ retired' = retired
      /\ calls' = calls /\ op' = op /\ seen' = seen /\ did' = did /\ ret' = ret
  BY <1>3 DEF bucket, hist
<1>5. th'[t] = x /\ \A u \in Threads : u # t => th'[u] = th[u]  BY <1>1, <1>3 DEF Types
<1>6. ~th[t].res  BY <1>1, <1>3, ThTypes DEF Local
<1>7. f \in Addresses /\ (f # Null => f \in Nodes)  BY <1>1, ThTypes DEF Addresses
<1>8. f # Null => /\ ptr # f /\ retired[f] = 0
                  /\ \A u \in Threads : th[u].old # f /\ (u # t => th[u].new # f)
  BY DEF IInv, ShareInv, NewInv
<1>9. Null \notin Nodes  BY NodesAssumption DEF Null
<1>10. \A n \in Nodes : node'[n] = IF n = f THEN Free ELSE node[n]
  BY <1>1, <1>3, <1>7, <1>9 DEF Types
<1> HIDE DEF f
<1>11. Types'
  <2>1. th' \in [Threads -> Locals]  BY <1>1, <1>2, <1>3 DEF Types
  <2>2. Free \in NodeRecords  BY DEF Free, NodeRecords
  <2>3. node' \in [Nodes -> NodeRecords]
    <3>1. node \in [Nodes -> NodeRecords]  BY <1>1 DEF Types, NodeRecords
    <3> QED  BY <1>3, <1>7, <2>2, <3>1
  <2> QED  BY <1>1, <1>4, <2>1, <2>3 DEF Types, NodeRecords
<1>12. NodeInv'  BY <1>10 DEF IInv, NodeInv
<1>13. ShareInv'
  <2>1. FreeInv'  BY <1>2, <1>4, <1>5, <1>8, <1>9, <1>10 DEF IInv, ShareInv, FreeInv
  <2>2. NewInv'  BY <1>2, <1>4, <1>5 DEF IInv, ShareInv, NewInv
  <2>3. OldInv'  BY <1>2, <1>4, <1>5 DEF IInv, ShareInv, OldInv
  <2>4. RestInv'
    <3> SUFFICES ASSUME NEW n \in Nodes
                 PROVE  /\ retired'[n] \in {0, 1}
                        /\ ptr' = n => retired'[n] = 0
                        /\ \/ node'[n] = Free \/ ptr' = n \/ retired'[n] = 1
                           \/ \E u \in Threads : Gives(u, n)'
      BY DEF RestInv
    <3>1. /\ retired[n] \in {0, 1}
          /\ ptr = n => retired[n] = 0
          /\ node[n] = Free \/ ptr = n \/ retired[n] = 1 \/ \E u \in Threads : Gives(u, n)
      BY DEF IInv, ShareInv, RestInv
    <3>2. CASE n = f  BY <1>4, <1>10, <3>1, <3>2
    <3>3. CASE n # f
      <4>1. ASSUME NEW u \in Threads, Gives(u, n)  PROVE Gives(u, n)'
        <5>1. u # t  BY <1>6, <3>3, <4>1 DEF Gives, f
        <5> QED  BY <1>5, <4>1, <5>1 DEF Gives
      <4> QED  BY <1>4, <1>10, <3>1, <3>3, <4>1
    <3> QED  BY <3>2, <3>3
  <2> QED  BY <2>1, <2>2, <2>3, <2>4 DEF ShareInv
<1>14. LockInv'
  <2>1. "load" \notin Holding  BY DEF Holding
  <2> QED  BY <1>2, <1>4, <1>5, <2>1, SameLock
<1>15. LocalInv'
  <2>1. ASSUME NEW u \in Threads, u # t  PROVE Local(u)'
    <3>1. Local(u)  BY <1>1 DEF LocalInv
    <3>2. \A n \in Nodes : n \in {th[u].old, th[u].new} => node'[n] = node[n]
      BY <1>8, <1>9, <1>10, <2>1
    <3> QED  BY <1>1, <1>4, <1>5, <2>1, <3>1, <3>2, Bystander
  <2>2. Local(t)'  BY <1>1, <1>2, <1>3, <1>4, <1>5, <1>6 DEF Local
  <2> QED  BY <2>1, <2>2 DEF LocalInv
<1>16. SeenInv'
  <2>1. Contents' = Contents
    <3>1. ptr # Null => node'[ptr] = node[ptr]
      <4>1. ptr \in Addresses  BY <1>1 DEF Types
      <4> QED  BY <1>8, <1>9, <1>10, <4>1 DEF Addresses
    <3> QED  BY <1>4, <3>1, SameContents
  <2> QED  BY <1>4, <2>1 DEF IInv, SeenInv, InCall
<1> QED  BY <1>11, <1>12, <1>13, <1>14, <1>15, <1>16 DEF IInv

-----------------------------------------------------------------------------
\* new_obj returns a node that nobody knows.
LEMMA FreeNodeLemma ==
  ASSUME Types, ShareInv, FreeNodes # {}
  PROVE  /\ FreeNode \in Nodes /\ node[FreeNode] = Free /\ FreeNode # Null
         /\ ptr # FreeNode /\ retired[FreeNode] = 0
         /\ \A t \in Threads : th[t].old # FreeNode /\ th[t].new # FreeNode
<1>1. FreeNodes \subseteq Nat  BY NodesAssumption DEF FreeNodes
<1>2. FreeNode \in FreeNodes  BY <1>1, MinLemma, Zenon DEF FreeNode
<1>3. FreeNode \in Nodes /\ node[FreeNode] = Free  BY <1>2 DEF FreeNodes
<1>4. FreeNode # Null  BY <1>3, NodesAssumption DEF Null
<1> QED  BY <1>3, <1>4 DEF ShareInv, FreeInv

\* A thread has made a copy, or needs none.
LEMMA LoadAndCopyKept ==
  ASSUME IInv, NEW t \in Threads, LoadAndCopy(t)
  PROVE  IInv'
<1> DEFINE empty == op[t].kind = "remove" /\ Cnt(ptr) = 1
           f == IF empty THEN Null ELSE FreeNode
           pc == IF useCas THEN "reload" ELSE "lock"
           x == [th[t] EXCEPT !.pc = pc, !.old = ptr, !.new = f]
           k == op[t].key
<1>1. Types /\ NodeInv /\ ShareInv /\ LocalInv /\ Local(t)  BY LocalOf DEF IInv
<1>2. /\ th[t].pc = "load"
      /\ \/ op[t].kind = IF Present(t) THEN "remove" ELSE "insert"
         \/ op[t].kind = "upsert" /\ (useCas \/ ~Present(t))
      /\ empty \/ FreeNodes # {}
      /\ node' = IF empty THEN node ELSE [node EXCEPT ![f] = Copy(t)]
      /\ th' = [th EXCEPT ![t] = x]
      /\ UNCHANGED <<bucket, retired, hist>>
  BY DEF LoadAndCopy
<1>3. op[t] \in Requests /\ k \in Keys /\ op[t].val \in Values
      /\ op[t].kind \in {"insert", "upsert", "remove", "find"}
  BY <1>1, <1>2, OpTypes DEF Local
<1>4. /\ ptr \in Addresses /\ (ptr # Null => ptr \in Nodes /\ node[ptr] # Free)
  BY <1>3, PresentLemma
<1>5. useCas' = useCas /\ ptr' = ptr /\ lck' = lck /\ retired' = retired
      /\ calls' = calls /\ op' = op /\ seen' = seen /\ did' = did /\ ret' = ret
  BY <1>2 DEF bucket, hist
<1>6. Null \notin Nodes  BY NodesAssumption DEF Null
<1>7. ~empty => /\ f \in Nodes /\ node[f] = Free /\ f # Null /\ ptr # f /\ retired[f] = 0
                /\ \A u \in Threads : th[u].old # f /\ th[u].new # f
  BY <1>1, <1>2, FreeNodeLemma
<1>8. f \in Addresses /\ (empty <=> f = Null)  BY <1>7 DEF Addresses
<1>9. /\ x \in Locals /\ x.pc = pc /\ x.old = ptr /\ x.new = f /\ x.res = th[t].res
      /\ pc \notin Holding /\ pc \in {"reload", "lock"} /\ (pc = "reload" <=> useCas)
  <2>1. th[t] \in Locals  BY <1>1, ThTypes
  <2>2. useCas \in BOOLEAN  BY <1>1 DEF Types
  <2>3. pc \in Pcs  BY DEF Pcs
  <2> HIDE DEF f
  <2> QED  BY <1>4, <1>8, <2>1, <2>2, <2>3 DEF Locals, Holding
<1>10. ~th[t].res /\ th[t].new = Null /\ did[t] = "nothing"
  BY <1>1, <1>2, ThTypes DEF Local
<1>11. ~empty => Copy(t) \in NodeRecords /\ Proper(Copy(t))
  <2>1. ASSUME op[t].kind = "remove", ~empty  PROVE Copy(t) \in NodeRecords /\ Proper(Copy(t))
    <3>1. Copy(t) = RemoveFromNode(ptr, k)  BY <2>1 DEF Copy
    <3>2. FindIndex(ptr, k) # 0  BY <1>2, <2>1 DEF Present
    <3>3. Cnt(ptr) # 1  BY <2>1
    <3> QED  BY <1>1, <1>3, <1>4, <3>1, <3>2, <3>3, RemoveCopy
  <2>2. ASSUME op[t].kind = "upsert", Present(t)
        PROVE  Copy(t) \in NodeRecords /\ Proper(Copy(t))
    <3>1. Copy(t) = UpdateNode(ptr, k, op[t].val)  BY <2>2 DEF Copy
    <3> QED  BY <1>1, <1>3, <1>4, <2>2, <3>1, UpdateCopy DEF Present
  <2>3. ASSUME op[t].kind # "remove", ~Present(t)
        PROVE  Copy(t) \in NodeRecords /\ Proper(Copy(t))
    <3>1. Copy(t) = InsertToNode(ptr, k, op[t].val)  BY <2>3 DEF Copy
    <3> QED  BY <1>1, <1>3, <1>4, <2>3, <3>1, InsertCopy DEF Present
  <2> QED  BY <1>2, <2>1, <2>2, <2>3
<1> HIDE DEF x, f, pc
<1>12. th'[t] = x /\ \A u \in Threads : u # t => th'[u] = th[u]  BY <1>1, <1>2 DEF Types
<1>13. \A n \in Nodes : node'[n] = IF n = f THEN Copy(t) ELSE node[n]
  BY <1>1, <1>2, <1>6, <1>7, <1>8 DEF Types
<1>14. f # Null => node'[f] = Copy(t)  BY <1>7, <1>8, <1>13
<1>15. ptr # Null => node'[ptr] = node[ptr]
  BY <1>4, <1>6, <1>7, <1>8, <1>13
<1>16. Types'
  <2>1. th' \in [Threads -> Locals]  BY <1>1, <1>2, <1>9 DEF Types
  <2>2. node' \in [Nodes -> NodeRecords]
    <3>1. node \in [Nodes -> NodeRecords]  BY <1>1 DEF Types, NodeRecords
    <3>2. CASE empty  BY <1>2, <3>1, <3>2
    <3>3. CASE ~empty  BY <1>2, <1>7, <1>11, <3>1, <3>3
    <3> QED  BY <3>2, <3>3
  <2> QED  BY <1>1, <1>5, <2>1, <2>2 DEF Types, NodeRecords
<1>17. NodeInv'  BY <1>6, <1>8, <1>11, <1>13 DEF IInv, NodeInv
<1>18. f # Null => node'[f] # Free
  <2>1. Free.entries = <<>>  BY DEF Free
  <2> QED  BY <1>8, <1>11, <1>14, <2>1 DEF Proper
<1> HIDE DEF empty
<1>19. ShareInv'
  <2>1. FreeInv'
    <3> SUFFICES ASSUME NEW n \in Nodes, node'[n] = Free
                 PROVE  /\ ptr' # n /\ retired'[n] = 0
                        /\ \A u \in Threads : th'[u].old # n /\ th'[u].new # n
      BY DEF FreeInv
    <3>1. n # f /\ node[n] = Free  BY <1>6, <1>13, <1>18
    <3>2. ptr # n /\ retired[n] = 0 /\ \A u \in Threads : th[u].old # n /\ th[u].new # n
      BY <1>1, <3>1 DEF ShareInv, FreeInv
    <3> QED  BY <1>5, <1>9, <1>12, <3>1, <3>2
  <2>2. NewInv'
    <3> SUFFICES ASSUME NEW u \in Threads, th'[u].new # Null
                 PROVE  /\ ptr' # th'[u].new /\ retired'[th'[u].new] = 0
                        /\ \A w \in Threads : /\ th'[w].old # th'[u].new
                                              /\ w # u => th'[w].new # th'[u].new
      BY DEF NewInv
    <3>1. CASE u = t
      <4>1. th'[u].new = f /\ f # Null  BY <1>9, <1>12, <3>1
      <4> QED  BY <1>5, <1>7, <1>8, <1>9, <1>12, <3>1, <4>1
    <3>2. CASE u # t
      <4>1. th'[u] = th[u]  BY <1>12, <3>2
      <4>2. /\ ptr # th[u].new /\ retired[th[u].new] = 0
            /\ \A w \in Threads : /\ th[w].old # th[u].new
                                  /\ w # u => th[w].new # th[u].new
        BY <1>1, <4>1 DEF ShareInv, NewInv
      <4>3. f # th[u].new  BY <1>7, <1>8, <4>1
      <4> QED  BY <1>5, <1>9, <1>12, <4>1, <4>2, <4>3
    <3> QED  BY <3>1, <3>2
  <2>3. OldInv'  BY <1>1, <1>5, <1>9, <1>10, <1>12 DEF ShareInv, OldInv
  <2>4. RestInv'
    <3> SUFFICES ASSUME NEW n \in Nodes
                 PROVE  /\ retired'[n] \in {0, 1}
                        /\ ptr' = n => retired'[n] = 0
                        /\ \/ node'[n] = Free \/ ptr' = n \/ retired'[n] = 1
                           \/ \E u \in Threads : Gives(u, n)'
      BY DEF RestInv
    <3>1. /\ retired[n] \in {0, 1}
          /\ ptr = n => retired[n] = 0
          /\ node[n] = Free \/ ptr = n \/ retired[n] = 1 \/ \E u \in Threads : Gives(u, n)
      BY <1>1 DEF ShareInv, RestInv
    <3>2. CASE n = f
      <4>1. Gives(t, n)'  BY <1>9, <1>12, <3>2 DEF Gives
      <4> QED  BY <1>5, <3>1, <4>1
    <3>3. CASE n # f
      <4>1. ASSUME NEW u \in Threads, Gives(u, n)  PROVE Gives(u, n)'
        <5>1. u # t  BY <1>6, <1>10, <4>1 DEF Gives
        <5> QED  BY <1>12, <4>1, <5>1 DEF Gives
      <4> QED  BY <1>5, <1>13, <3>1, <3>3, <4>1
    <3> QED  BY <3>2, <3>3
  <2> QED  BY <2>1, <2>2, <2>3, <2>4 DEF ShareInv
<1>20. LockInv'  BY <1>5, <1>9, <1>12, SameLock
<1>21. EntriesAt(th[t].old)' = EntriesAt(ptr)
  BY <1>9, <1>12, <1>15 DEF EntriesAt
<1>22. /\ FindIndex(th[t].old, op[t].key)' = FindIndex(ptr, k)
       /\ Cnt(th[t].old)' = Cnt(ptr)
  BY <1>5, <1>21 DEF FindIndex, Cnt
<1>23. Made(t)'
  <2>1. RemoveFromNode(th[t].old, op[t].key)' = RemoveFromNode(ptr, k)
    BY <1>5, <1>21, <1>22, Zenon DEF RemoveFromNode
  <2>2. UpdateNode(th[t].old, op[t].key, op[t].val)' = UpdateNode(ptr, k, op[t].val)
    BY <1>5, <1>21, <1>22, Zenon DEF UpdateNode
  <2>3. InsertToNode(th[t].old, op[t].key, op[t].val)' = InsertToNode(ptr, k, op[t].val)
    <3>1. th'[t].old = ptr  BY <1>9, <1>12
    <3> QED  BY <1>5, <1>21, <1>22, <3>1, Zenon DEF InsertToNode
  <2>4. th'[t].new = f  BY <1>9, <1>12
  <2>5. ASSUME op[t].kind = "remove"  PROVE Made(t)'
    <3>1. FindIndex(ptr, k) # 0  BY <1>2, <2>5 DEF Present
    <3>2. Copy(t) = RemoveFromNode(ptr, k)  BY <2>5 DEF Copy
    <3>3. Cnt(ptr) = 1 <=> f = Null  BY <1>8, <2>5 DEF empty
    <3> QED  BY <1>5, <1>14, <1>22, <2>1, <2>4, <2>5, <3>1, <3>2, <3>3 DEF Made
  <2>6. ASSUME op[t].kind = "upsert", Present(t)  PROVE Made(t)'
    <3>1. FindIndex(ptr, k) # 0 /\ useCas  BY <1>2, <2>6 DEF Present
    <3>2. Copy(t) = UpdateNode(ptr, k, op[t].val)  BY <2>6 DEF Copy
    <3>3. f # Null  BY <1>8, <2>6 DEF empty
    <3> QED  BY <1>5, <1>14, <1>22, <2>2, <2>4, <2>6, <3>1, <3>2, <3>3 DEF Made
  <2>7. ASSUME op[t].kind \in {"insert", "upsert"}, ~Present(t)  PROVE Made(t)'
    <3>1. FindIndex(ptr, k) = 0  BY <2>7 DEF Present
    <3>2. Copy(t) = InsertToNode(ptr, k, op[t].val)  BY <2>7 DEF Copy
    <3>3. f # Null  BY <1>8, <2>7 DEF empty
    <3> QED  BY <1>5, <1>14, <1>22, <2>3, <2>4, <2>7, <3>1, <3>2, <3>3 DEF Made
  <2> QED  BY <1>2, <2>5, <2>6, <2>7
<1>24. LocalInv'
  <2>1. ASSUME NEW u \in Threads, u # t  PROVE Local(u)'
    <3>1. Local(u)  BY <1>1 DEF LocalInv
    <3>2. \A n \in Nodes : n \in {th[u].old, th[u].new} => node'[n] = node[n]
      BY <1>6, <1>7, <1>8, <1>13
    <3> QED  BY <1>1, <1>5, <1>12, <2>1, <3>1, <3>2, Bystander
  <2>2. Local(t)'  BY <1>1, <1>3, <1>5, <1>9, <1>10, <1>12, <1>23 DEF Local
  <2> QED  BY <2>1, <2>2 DEF LocalInv
<1>25. SeenInv'
  <2>1. Contents' = Contents  BY <1>5, <1>15, SameContents
  <2> QED  BY <1>5, <2>1 DEF IInv, SeenInv, InCall
<1> QED  BY <1>16, <1>17, <1>19, <1>20, <1>24, <1>25 DEF IInv

-----------------------------------------------------------------------------
\* What a call leaves of its key.
Left(t) == IF op[t].kind = "remove" THEN None ELSE op[t].val

\* The node that a thread has made holds the map after its call.
LEMMA MadeLookup ==
  ASSUME IInv, NEW t \in Threads, op[t] \in Requests, Made(t),
         ~(op[t].kind = "upsert" /\ FindIndex(th[t].old, op[t].key) # 0 /\ ~useCas)
  PROVE  \A q \in Keys : Lookup(EntriesAt(th[t].new), q) =
           IF q = op[t].key THEN Left(t) ELSE Lookup(EntriesAt(th[t].old), q)
<1> DEFINE o == th[t].old
           n == th[t].new
           k == op[t].key
<1>1. Types /\ NodeInv /\ op[t].kind \in {"insert", "upsert", "remove", "find"}
      /\ k \in Keys /\ op[t].val \in Values
  BY LocalOf, OpTypes DEF IInv
<1>2. o \in Addresses /\ (o # Null => node[o] # Free)
  <2>1. o \in Addresses  BY <1>1, ThTypes
  <2> QED  BY <2>1 DEF IInv, ShareInv, FreeInv, Addresses
<1>3. n # Null => EntriesAt(n) = node[n].entries  BY DEF EntriesAt
<1>4. n = Null => EntriesAt(n) = <<>>  BY DEF EntriesAt
<1> HIDE DEF o, n
<1>5. CASE op[t].kind = "remove"
  <2>1. /\ FindIndex(o, k) # 0
        /\ IF Cnt(o) = 1 THEN n = Null ELSE n # Null /\ node[n] = RemoveFromNode(o, k)
    BY <1>5 DEF Made, o, n
  <2>2. EntriesAt(n) = RemoveFromNode(o, k).entries
    BY <1>1, <1>2, <1>3, <1>4, <2>1, RemoveCopy
  <2>3. \A q \in Keys : Lookup(RemoveFromNode(o, k).entries, q) =
          IF q = k THEN None ELSE Lookup(EntriesAt(o), q)
    BY <1>1, <1>2, <2>1, RemoveCopy
  <2> QED  BY <1>5, <2>2, <2>3 DEF Left, o, n
<1>6. CASE op[t].kind = "upsert" /\ FindIndex(o, k) # 0
  <2>1. useCas  BY <1>6 DEF o
  <2>2. n # Null /\ node[n] = UpdateNode(o, k, op[t].val)
    BY <1>6, <2>1 DEF Made, o, n
  <2>3. \A q \in Keys : Lookup(UpdateNode(o, k, op[t].val).entries, q) =
          IF q = k THEN op[t].val ELSE Lookup(EntriesAt(o), q)
    BY <1>1, <1>2, <1>6, UpdateCopy
  <2> QED  BY <1>3, <1>6, <2>2, <2>3 DEF Left, o, n
<1>7. CASE op[t].kind # "remove" /\ ~(op[t].kind = "upsert" /\ FindIndex(o, k) # 0)
  <2>1. FindIndex(o, k) = 0 /\ n # Null /\ node[n] = InsertToNode(o, k, op[t].val)
    BY <1>7 DEF Made, o, n
  <2>2. \A q \in Keys : Lookup(InsertToNode(o, k, op[t].val).entries, q) =
          IF q = k THEN op[t].val ELSE Lookup(EntriesAt(o), q)
    BY <1>1, <1>2, <2>1, InsertCopy
  <2> QED  BY <1>3, <1>7, <2>1, <2>2 DEF Left, o, n
<1> QED  BY <1>5, <1>6, <1>7

\* The entries of a node in a given heap.
EntriesIn(nodes, n) == IF n = Null THEN <<>> ELSE nodes[n].entries

\* What is true of the node that becomes the bucket's, whichever way.
Suits(t, n) ==
  /\ n \in Addresses /\ th[t].new \in {Null, n}
  /\ node' \in [Nodes -> NodeRecords]
  /\ \A m \in Nodes : m # n => node'[m] = node[m]
  /\ n # Null =>
       /\ n \in Nodes /\ n # ptr /\ retired[n] = 0 /\ node'[n] # Free /\ Proper(node'[n])
       /\ \A u \in Threads : th[u].old # n /\ (u # t => th[u].new # n)
  /\ \A q \in Keys : Lookup(EntriesIn(node', n), q) =
       IF q = op[t].key THEN Left(t) ELSE Lookup(EntriesAt(ptr), q)

\* An install as one of the two builds does it.
Installs(t, n, pc) ==
  /\ op[t] \in Requests /\ Made(t) /\ ptr = th[t].old
  /\ \/ th[t].pc = "cas" /\ pc = "retire"
     \/ th[t].pc = "store" /\ pc = "unlock"
  /\ Install(t, n, pc) /\ lck' = lck /\ Does(t, What(t), Contents')
  /\ Suits(t, n)

\* The copy that a thread made suits, in the builds and calls that made one.
LEMMA OwnNodeSuits ==
  ASSUME IInv, NEW t \in Threads, op[t] \in Requests, Made(t), ptr = th[t].old,
         ~(op[t].kind = "upsert" /\ FindIndex(th[t].old, op[t].key) # 0 /\ ~useCas),
         node' = node
  PROVE  Suits(t, th[t].new)
<1> DEFINE n == th[t].new
<1>1. Types /\ NodeInv  BY DEF IInv
<1>2. n \in Addresses  BY <1>1, ThTypes
<1>3. node \in [Nodes -> NodeRecords]  BY <1>1 DEF Types, NodeRecords
<1>4. n # Null =>
        /\ n \in Nodes /\ n # ptr /\ retired[n] = 0
        /\ \A u \in Threads : th[u].old # n /\ (u # t => th[u].new # n)
  BY <1>2 DEF Addresses, IInv, ShareInv, NewInv
<1>5. n # Null => node[n] # Free /\ Proper(node[n])
  <2>1. n # Null => node[n] # Free  BY <1>4 DEF IInv, ShareInv, FreeInv
  <2> QED  BY <1>1, <1>4, <2>1 DEF NodeInv
<1>6. \A q \in Keys : Lookup(EntriesAt(n), q) =
        IF q = op[t].key THEN Left(t) ELSE Lookup(EntriesAt(ptr), q)
  BY MadeLookup
<1>7. EntriesIn(node', n) = EntriesAt(n)  BY DEF EntriesAt, EntriesIn
<1> HIDE DEF n
<1> QED  BY <1>2, <1>3, <1>4, <1>5, <1>6, <1>7 DEF Suits, n

\* The node that an update under the lock makes at the last moment suits.
LEMMA InPlaceSuits ==
  ASSUME IInv, NEW t \in Threads, op[t] \in Requests, Made(t), ptr = th[t].old,
         op[t].kind = "upsert", FindIndex(th[t].old, op[t].key) # 0, ~useCas,
         FreeNodes # {},
         node' = [node EXCEPT ![FreeNode] = UpdateNode(th[t].old, op[t].key, op[t].val)]
  PROVE  Suits(t, FreeNode)
<1> DEFINE n == FreeNode
           c == UpdateNode(th[t].old, op[t].key, op[t].val)
<1>1. Types /\ NodeInv /\ ShareInv  BY DEF IInv
<1>2. op[t].key \in Keys /\ op[t].val \in Values  BY <1>1, OpTypes
<1>3. node \in [Nodes -> NodeRecords] /\ th[t].old \in Addresses
  BY <1>1, ThTypes DEF Types, NodeRecords
<1>4. /\ n \in Nodes /\ n # Null /\ ptr # n /\ retired[n] = 0
      /\ \A u \in Threads : th[u].old # n /\ th[u].new # n
  BY <1>1, FreeNodeLemma
<1>5. /\ c \in NodeRecords /\ Proper(c)
      /\ \A q \in Keys : Lookup(c.entries, q) =
           IF q = op[t].key THEN op[t].val ELSE Lookup(EntriesAt(th[t].old), q)
  BY <1>1, <1>2, <1>3, UpdateCopy
<1>6. th[t].new = Null  BY DEF Made
<1>7. Left(t) = op[t].val  BY DEF Left
<1>8. node' = [node EXCEPT ![n] = c]  OBVIOUS
<1> HIDE DEF c, n
<1>9. /\ node' \in [Nodes -> NodeRecords] /\ node'[n] = c
      /\ \A m \in Nodes : m # n => node'[m] = node[m]
  BY <1>3, <1>4, <1>5, <1>8
<1>10. c # Free
  <2>1. Free.entries = <<>>  BY DEF Free
  <2> QED  BY <1>5, <2>1 DEF Proper
<1>11. EntriesIn(node', n) = c.entries  BY <1>4, <1>9 DEF EntriesIn
<1>12. n \in Addresses  BY <1>4 DEF Addresses
<1>13. Suits(t, n)
  BY <1>4, <1>5, <1>6, <1>7, <1>9, <1>10, <1>11, <1>12 DEF Suits
<1> QED  BY <1>13 DEF n

\* The successful compare-and-swap of the UseCAS build is such an install.
LEMMA CasFacts ==
  ASSUME IInv, NEW t \in Threads, Cas(t)
  PROVE  \/ Goto(t, "destruct") /\ th[t].pc = "cas"
         \/ Installs(t, th[t].new, "retire")
<1>1. th[t].pc = "cas"  BY DEF Cas
<1>2. Local(t) /\ Types  BY LocalOf
<1>3. op[t] \in Requests /\ Made(t) /\ useCas  BY <1>1, <1>2 DEF Local
<1>4. CASE Goto(t, "destruct")  BY <1>1, <1>4
<1>5. ASSUME ptr = th[t].old, Install(t, th[t].new, "retire"), UNCHANGED <<lck, node>>,
             Does(t, What(t), Contents')
      PROVE  Installs(t, th[t].new, "retire")
  <2>1. Suits(t, th[t].new)  BY <1>3, <1>5, OwnNodeSuits
  <2>2. lck' = lck  BY <1>5
  <2> QED  BY <1>1, <1>3, <1>5, <2>1, <2>2 DEF Installs
<1> QED  BY <1>1, <1>4, <1>5 DEF Cas

\* The node that the store under the lock installs.
Target(t) == IF InPlace(t) THEN FreeNode ELSE th[t].new

\* The store of the build with locks is such an install.
LEMMA StoreFacts ==
  ASSUME IInv, NEW t \in Threads, Store(t)
  PROVE  Installs(t, Target(t), "unlock")
<1>1. th[t].pc = "store"  BY DEF Store
<1>2. Local(t) /\ Types  BY LocalOf
<1>3. op[t] \in Requests /\ Made(t) /\ ~useCas /\ ptr = th[t].old  BY <1>1, <1>2 DEF Local
<1>4. /\ InPlace(t) => FreeNodes # {}
      /\ Install(t, Target(t), "unlock")
      /\ node' = IF InPlace(t)
                   THEN [node EXCEPT ![Target(t)] = UpdateNode(th[t].old, op[t].key, op[t].val)]
                   ELSE node
      /\ lck' = lck /\ Does(t, What(t), Contents')
  BY Zenon DEF Store, Target
<1>5. InPlace(t) <=> op[t].kind = "upsert" /\ FindIndex(th[t].old, op[t].key) # 0
  BY DEF InPlace, What
<1>6. Suits(t, Target(t))
  <2>1. CASE InPlace(t)
    <3>1. Target(t) = FreeNode  BY <2>1 DEF Target
    <3>2. Suits(t, FreeNode)  BY <1>3, <1>4, <1>5, <2>1, <3>1, InPlaceSuits
    <3> QED  BY <3>1, <3>2
  <2>2. CASE ~InPlace(t)
    <3>1. Target(t) = th[t].new  BY <2>2 DEF Target
    <3>2. Suits(t, th[t].new)  BY <1>3, <1>4, <1>5, <2>2, OwnNodeSuits
    <3> QED  BY <3>1, <3>2
  <2> QED  BY <2>1, <2>2
<1> QED  BY <1>1, <1>3, <1>4, <1>6, Zenon DEF Installs

\* An install changes the map at the key of the call and nowhere else.
LEMMA InstallContents ==
  ASSUME IInv, NEW t \in Threads, NEW n, NEW pc, Installs(t, n, pc)
  PROVE  /\ \A q \in Keys : Contents'[q] = IF q = op[t].key THEN Left(t) ELSE Contents[q]
         /\ op[t].key \in Keys /\ Left(t) \in Values \cup {None}
         /\ Contents' = [Contents EXCEPT ![op[t].key] = Left(t)]
<1>1. ptr' = n  BY DEF Installs, Install
<1>2. EntriesAt(ptr)' = EntriesIn(node', n)  BY <1>1 DEF EntriesAt, EntriesIn
<1>3. op[t].key \in Keys /\ op[t].val \in Values  BY LocalOf, OpTypes DEF Installs
<1>4. \A q \in Keys : Contents[q] = Lookup(EntriesAt(ptr), q)  BY ContentsLemma
<1>5. \A q \in Keys : Contents'[q] = Lookup(EntriesAt(ptr)', q)
  BY DEF Contents, Lookup, FindIndex
<1>6. \A q \in Keys : Contents'[q] = IF q = op[t].key THEN Left(t) ELSE Contents[q]
  BY <1>2, <1>4, <1>5 DEF Installs, Suits
<1>7. DOMAIN Contents = Keys /\ DOMAIN Contents' = Keys
      /\ Contents = [q \in Keys |-> Contents[q]] /\ Contents' = [q \in Keys |-> Contents'[q]]
  BY DEF Contents
<1>8. Left(t) \in Values \cup {None}  BY <1>3 DEF Left
<1> HIDE DEF Contents, Left
<1>9. Contents' = [Contents EXCEPT ![op[t].key] = Left(t)]
  <2> DEFINE k == op[t].key
             A == Contents
             B == Contents'
  <2>1. B = [q \in Keys |-> B[q]] /\ A = [q \in Keys |-> A[q]] /\ k \in Keys
        /\ \A q \in Keys : B[q] = IF q = k THEN Left(t) ELSE A[q]
    BY <1>3, <1>6, <1>7
  <2> HIDE DEF A, B, k
  <2>2. B = [A EXCEPT ![k] = Left(t)]  BY <2>1
  <2> QED  BY <2>2 DEF A, B, k
<1> QED  BY <1>3, <1>6, <1>8, <1>9

\* Where the nodes are after an install.
LEMMA InstallFacts ==
  ASSUME IInv, NEW t \in Threads, NEW n, NEW pc, Installs(t, n, pc)
  PROVE  LET x == [th[t] EXCEPT !.pc = pc, !.new = Null, !.res = TRUE] IN
         /\ x \in Locals /\ x.pc = pc /\ x.old = th[t].old /\ x.new = Null /\ x.res = TRUE
         /\ th' = [th EXCEPT ![t] = x] /\ th'[t] = x
         /\ \A u \in Threads : u # t => th'[u] = th[u]
         /\ useCas' = useCas /\ ptr' = n /\ lck' = lck /\ retired' = retired
         /\ calls' = calls /\ op' = op /\ ret' = ret
         /\ did' = [did EXCEPT ![t] = What(t)] /\ did'[t] = What(t)
         /\ \A u \in Threads : u # t => did'[u] = did[u]
         /\ seen' = [u \in Threads |->
              IF InCall(u) THEN seen[u] \cup {Contents'[op[u].key]} ELSE seen[u]]
<1> DEFINE x == [th[t] EXCEPT !.pc = pc, !.new = Null, !.res = TRUE]
<1>1. Types /\ th[t] \in Locals  BY LocalOf, ThTypes
<1>2. /\ pc \in {"retire", "unlock"}
      /\ Install(t, n, pc) /\ lck' = lck /\ Does(t, What(t), Contents')
  BY DEF Installs
<1>3. x \in Locals /\ x.pc = pc /\ x.old = th[t].old /\ x.new = Null /\ x.res = TRUE
  <2>1. pc \in Pcs /\ Null \in Addresses  BY <1>2 DEF Pcs, Addresses
  <2> QED  BY <1>1, <2>1 DEF Locals
<1>4. /\ ptr' = n /\ useCas' = useCas /\ retired' = retired
      /\ th' = [th EXCEPT ![t] = x]
  BY <1>2 DEF Install
<1>5. /\ did' = [did EXCEPT ![t] = What(t)]
      /\ seen' = [u \in Threads |->
              IF InCall(u) THEN seen[u] \cup {Contents'[op[u].key]} ELSE seen[u]]
      /\ calls' = calls /\ op' = op /\ ret' = ret
  BY <1>2 DEF Does
<1> HIDE DEF x
<1>6. th'[t] = x /\ \A u \in Threads : u # t => th'[u] = th[u]  BY <1>1, <1>4 DEF Types
<1>7. did'[t] = What(t) /\ \A u \in Threads : u # t => did'[u] = did[u]
  BY <1>1, <1>5 DEF Types
<1>8. /\ x \in Locals /\ x.pc = pc /\ x.old = th[t].old /\ x.new = Null /\ x.res = TRUE
      /\ th' = [th EXCEPT ![t] = x] /\ th'[t] = x
      /\ \A u \in Threads : u # t => th'[u] = th[u]
      /\ useCas' = useCas /\ ptr' = n /\ lck' = lck /\ retired' = retired
      /\ calls' = calls /\ op' = op /\ ret' = ret
      /\ did' = [did EXCEPT ![t] = What(t)] /\ did'[t] = What(t)
      /\ \A u \in Threads : u # t => did'[u] = did[u]
      /\ seen' = [u \in Threads |->
           IF InCall(u) THEN seen[u] \cup {Contents'[op[u].key]} ELSE seen[u]]
  BY <1>2, <1>3, <1>4, <1>5, <1>6, <1>7
<1> QED  BY <1>8 DEF x

\* An install keeps the invariant.
LEMMA InstallKept ==
  ASSUME IInv, NEW t \in Threads, NEW n, NEW pc, Installs(t, n, pc)
  PROVE  IInv'
<1> DEFINE x == [th[t] EXCEPT !.pc = pc, !.new = Null, !.res = TRUE]
<1>1. Types /\ NodeInv /\ ShareInv /\ LocalInv /\ Local(t)  BY LocalOf DEF IInv
<1>2. /\ x \in Locals /\ x.pc = pc /\ x.old = th[t].old /\ x.new = Null /\ x.res = TRUE
      /\ th' = [th EXCEPT ![t] = x] /\ th'[t] = x
      /\ \A u \in Threads : u # t => th'[u] = th[u]
      /\ useCas' = useCas /\ ptr' = n /\ lck' = lck /\ retired' = retired
      /\ calls' = calls /\ op' = op /\ ret' = ret
      /\ did' = [did EXCEPT ![t] = What(t)] /\ did'[t] = What(t)
      /\ \A u \in Threads : u # t => did'[u] = did[u]
      /\ seen' = [u \in Threads |->
           IF InCall(u) THEN seen[u] \cup {Contents'[op[u].key]} ELSE seen[u]]
  BY InstallFacts
<1> HIDE DEF x
<1>3. /\ op[t] \in Requests /\ ptr = th[t].old
      /\ \/ th[t].pc = "cas" /\ pc = "retire"
         \/ th[t].pc = "store" /\ pc = "unlock"
  BY DEF Installs
<1>4. /\ n \in Addresses /\ th[t].new \in {Null, n}
      /\ node' \in [Nodes -> NodeRecords]
      /\ \A m \in Nodes : m # n => node'[m] = node[m]
      /\ n # Null =>
           /\ n \in Nodes /\ n # ptr /\ retired[n] = 0 /\ node'[n] # Free /\ Proper(node'[n])
           /\ \A u \in Threads : th[u].old # n /\ (u # t => th[u].new # n)
  BY DEF Installs, Suits
<1>5. Null \notin Nodes  BY NodesAssumption DEF Null
<1>6. \A u \in Threads : InCall(u) => Contents'[op[u].key] \in Values \cup {None}
  <2> SUFFICES ASSUME NEW u \in Threads, InCall(u)
               PROVE  Contents'[op[u].key] \in Values \cup {None}
    OBVIOUS
  <2>1. op[u].key \in Keys
    <3>1. op[u] # NoCall  BY DEF InCall, NoCall
    <3>2. op[u] \in Requests  BY <1>1, <3>1 DEF Types
    <3> QED  BY <3>2 DEF Requests
  <2>2. Contents[op[u].key] \in Values \cup {None}  BY <2>1, PresentLemma
  <2> QED  BY <2>1, <2>2, InstallContents
<1>7. Types'
  <2>1. th' \in [Threads -> Locals]  BY <1>1, <1>2 DEF Types
  <2>2. seen' \in [Threads -> SUBSET (Values \cup {None})]
    <3>1. seen \in [Threads -> SUBSET (Values \cup {None})]  BY <1>1 DEF Types
    <3>2. \A u \in Threads :
            (IF InCall(u) THEN seen[u] \cup {Contents'[op[u].key]} ELSE seen[u])
              \in SUBSET (Values \cup {None})
      BY <1>6, <3>1
    <3> QED  BY <1>2, <3>2
  <2>3. did' \in [Threads -> Deeds]
    <3>1. What(t) \in Deeds  BY DEF What, Deeds
    <3> QED  BY <1>1, <1>2, <3>1 DEF Types
  <2> QED  BY <1>1, <1>2, <1>4, <2>1, <2>2, <2>3 DEF Types, NodeRecords
<1>8. NodeInv'  BY <1>1, <1>4, <1>5 DEF NodeInv
<1>9. ~th[t].res  BY <1>1, <1>3, ThTypes DEF Local
<1>10. ShareInv'
  <2>1. FreeInv'
    <3> SUFFICES ASSUME NEW m \in Nodes, node'[m] = Free
                 PROVE  /\ ptr' # m /\ retired'[m] = 0
                        /\ \A u \in Threads : th'[u].old # m /\ th'[u].new # m
      BY DEF FreeInv
    <3>1. m # n /\ node[m] = Free  BY <1>4, <1>5
    <3>2. ptr # m /\ retired[m] = 0 /\ \A u \in Threads : th[u].old # m /\ th[u].new # m
      BY <1>1, <3>1 DEF ShareInv, FreeInv
    <3> QED  BY <1>2, <1>5, <3>1, <3>2
  <2>2. NewInv'
    <3> SUFFICES ASSUME NEW u \in Threads, th'[u].new # Null
                 PROVE  /\ ptr' # th'[u].new /\ retired'[th'[u].new] = 0
                        /\ \A w \in Threads : /\ th'[w].old # th'[u].new
                                              /\ w # u => th'[w].new # th'[u].new
      BY DEF NewInv
    <3>1. u # t /\ th'[u] = th[u]  BY <1>2
    <3>2. /\ retired[th[u].new] = 0
          /\ \A w \in Threads : /\ th[w].old # th[u].new
                                /\ w # u => th[w].new # th[u].new
      BY <1>1, <3>1 DEF ShareInv, NewInv
    <3>3. n # th[u].new  BY <1>4, <3>1
    <3> QED  BY <1>2, <3>1, <3>2, <3>3
  <2>3. OldInv'
    <3>1. ASSUME NEW u \in Threads, th[u].res  PROVE th[u].old = Null \/ ptr # th[u].old
      BY <1>1, <3>1 DEF ShareInv, OldInv
    <3> SUFFICES ASSUME NEW u \in Threads, th'[u].res, th'[u].old # Null
                 PROVE  /\ ptr' # th'[u].old /\ retired'[th'[u].old] = 0
                        /\ \A w \in Threads :
                             w # u => ~(th'[w].res /\ th'[w].old = th'[u].old)
      BY DEF OldInv
    <3>2. th'[u].old = th[u].old  BY <1>2
    <3>3. ptr' # th'[u].old  BY <1>2, <1>4, <3>2
    <3>4. CASE u = t
      <4>1. ptr \in Nodes /\ retired[ptr] = 0
        <5>1. ptr \in Nodes  BY <1>1, <1>3, <3>2, <3>4 DEF Types, Addresses
        <5> QED  BY <1>1, <5>1 DEF ShareInv, RestInv
      <4> QED  BY <1>2, <1>3, <3>1, <3>2, <3>3, <3>4, <4>1
    <3>5. CASE u # t
      <4>1. th'[u] = th[u]  BY <1>2, <3>5
      <4>2. /\ ptr # th[u].old /\ retired[th[u].old] = 0
            /\ \A w \in Threads : w # u => ~(th[w].res /\ th[w].old = th[u].old)
        BY <1>1, <4>1 DEF ShareInv, OldInv
      <4> QED  BY <1>2, <1>3, <3>3, <4>1, <4>2
    <3> QED  BY <3>4, <3>5
  <2>4. RestInv'
    <3> SUFFICES ASSUME NEW m \in Nodes
                 PROVE  /\ retired'[m] \in {0, 1}
                        /\ ptr' = m => retired'[m] = 0
                        /\ \/ node'[m] = Free \/ ptr' = m \/ retired'[m] = 1
                           \/ \E u \in Threads : Gives(u, m)'
      BY DEF RestInv
    <3>1. /\ retired[m] \in {0, 1}
          /\ ptr = m => retired[m] = 0
          /\ node[m] = Free \/ ptr = m \/ retired[m] = 1 \/ \E u \in Threads : Gives(u, m)
      BY <1>1 DEF ShareInv, RestInv
    <3>2. CASE m = n  BY <1>2, <1>4, <1>5, <3>1, <3>2
    <3>3. CASE m # n
      <4>1. ASSUME NEW u \in Threads, Gives(u, m)  PROVE Gives(u, m)'
        <5>1. u # t  BY <1>4, <1>5, <1>9, <3>3, <4>1 DEF Gives
        <5> QED  BY <1>2, <4>1, <5>1 DEF Gives
      <4>2. ptr = m => Gives(t, m)'  BY <1>2, <1>3 DEF Gives
      <4> QED  BY <1>2, <1>4, <3>1, <3>3, <4>1, <4>2
    <3> QED  BY <3>2, <3>3
  <2> QED  BY <2>1, <2>2, <2>3, <2>4 DEF ShareInv
<1>11. LockInv'
  <2>1. pc \in Holding => th[t].pc \in Holding  BY <1>3 DEF Holding
  <2> QED  BY <1>2, <2>1, SameLock
<1>12. What(t)' = What(t)
  <2>1. th[t].old # Null => node'[th[t].old] = node[th[t].old]
    <3>1. th[t].old \in Addresses  BY <1>1, ThTypes
    <3> QED  BY <1>3, <1>4, <1>5, <3>1 DEF Addresses
  <2>2. EntriesAt(th[t].old)' = EntriesAt(th[t].old)  BY <1>2, <2>1 DEF EntriesAt
  <2> QED  BY <1>2, <2>2 DEF What, FindIndex
<1>13. LocalInv'
  <2>1. ASSUME NEW u \in Threads, u # t  PROVE Local(u)'
    <3>1. Local(u)  BY <1>1 DEF LocalInv
    <3>2. \A m \in Nodes : m \in {th[u].old, th[u].new} => node'[m] = node[m]
      BY <1>4, <1>5, <2>1
    <3>3. th[u].pc # "store"
      <4> SUFFICES ASSUME th[u].pc = "store"  PROVE FALSE
        OBVIOUS
      <4>1. ~useCas /\ th[t].pc = "store"  BY <1>1, <1>3, <3>1 DEF Local
      <4>2. IsSelfLocked(lck, t) /\ IsSelfLocked(lck, u)
        BY <4>1 DEF IInv, LockInv, Holding
      <4> QED  BY <2>1, <4>2, ThreadsAssumption DEF IsSelfLocked
    <3> QED  BY <1>1, <1>2, <2>1, <3>1, <3>2, <3>3, Bystander
  <2>2. Local(t)'
    <3>1. pc \in {"retire", "unlock"}  BY <1>3
    <3> QED  BY <1>2, <1>3, <1>12, <3>1 DEF Local
  <2> QED  BY <2>1, <2>2 DEF LocalInv
<1>14. SeenInv'
  <2> SUFFICES ASSUME NEW u \in Threads, InCall(u)'
               PROVE  (Contents[op[u].key] \in seen[u])'
    BY DEF SeenInv
  <2>1. InCall(u)  BY <1>2 DEF InCall
  <2> QED  BY <1>2, <2>1
<1> QED  BY <1>7, <1>8, <1>10, <1>11, <1>13, <1>14 DEF IInv

-----------------------------------------------------------------------------
\* Every step of a thread keeps the invariant.
LEMMA StepKept ==
  ASSUME IInv, NEW t \in Threads, Step(t)
  PROVE  IInv'
<1>1. CASE LoadFind(t)  BY <1>1, LoadFindKept
<1>2. CASE LoadNothingToDo(t)  BY <1>2, LoadNothingToDoKept
<1>3. CASE Validate(t)  BY <1>3, ValidateKept
<1>4. CASE LoadAndCopy(t)  BY <1>4, LoadAndCopyKept
<1>5. CASE LoadUpdate(t)  BY <1>5, LoadUpdateKept
<1>6. CASE Reload(t)  BY <1>6, ReloadKept
<1>7. CASE Cas(t)
  <2>1. CASE Goto(t, "destruct") /\ th[t].pc = "cas"  BY <2>1, CasFailsKept
  <2>2. CASE Installs(t, th[t].new, "retire")  BY <2>2, InstallKept
  <2> QED  BY <1>7, <2>1, <2>2, CasFacts
<1>8. CASE LockLoad(t)  BY <1>8, LockLoadKept
<1>9. CASE LockTake(t)  BY <1>9, LockTakeKept
<1>10. CASE Check(t)  BY <1>10, CheckKept
<1>11. CASE Store(t)
  <2>1. Installs(t, Target(t), "unlock")  BY <1>11, StoreFacts
  <2> QED  BY <2>1, InstallKept
<1>12. CASE Unlock(t)  BY <1>12, UnlockKept
<1>13. CASE Retire(t)  BY <1>13, RetireKept
<1>14. CASE Destruct(t)  BY <1>14, DestructKept
<1> QED
  BY <1>1, <1>2, <1>3, <1>4, <1>5, <1>6, <1>7, <1>8, <1>9, <1>10, <1>11, <1>12, <1>13,
     <1>14 DEF Step

\* The invariant holds at first.
LEMMA InitIInv == Init => IInv
<1> SUFFICES ASSUME Init  PROVE IInv
  OBVIOUS
<1>1. PICK e \in Initial :
        /\ ptr = IF e = <<>> THEN Null ELSE Min(Nodes)
        /\ node = [n \in Nodes |->
             IF n = ptr THEN [pool |-> First({i \in Regular : Len(e) <= Sizes[i]}),
                              entries |-> e] ELSE Free]
  BY Zenon DEF Init
<1>2. /\ useCas \in BOOLEAN /\ lck = Unlocked /\ retired = [n \in Nodes |-> 0]
      /\ th = [t \in Threads |-> Idle]
      /\ calls = [t \in Threads |-> 0] /\ op = [t \in Threads |-> NoCall]
      /\ seen = [t \in Threads |-> {}] /\ did = [t \in Threads |-> "nothing"]
      /\ ret = [t \in Threads |-> [ok |-> FALSE, val |-> None]]
  BY DEF Init, HistInit
<1> DEFINE r == [pool |-> PoolFor(Len(e)), entries |-> e]
<1>3. e \in Seq(Entries) /\ Distinct(e) /\ Len(e) \in Nat
  <2>1. e \in Seq(Entries)  BY InitialAssumption DEF Entries
  <2> QED  BY <2>1, InitialAssumption DEF Distinct
<1>4. Min(Nodes) \in Nodes
  <2>1. Nodes \subseteq Nat /\ Nodes # {}  BY NodesAssumption
  <2> QED  BY <2>1, MinLemma
<1>5. Null \notin Nodes  BY NodesAssumption DEF Null
<1>6. ptr \in Addresses /\ (ptr \in Nodes => e # <<>>)
  BY <1>1, <1>4, <1>5 DEF Addresses
<1>7. node = [n \in Nodes |-> IF n = ptr THEN r ELSE Free]
  BY <1>1, Zenon DEF PoolFor
<1>8. /\ r \in NodeRecords /\ r.entries = e /\ r.pool = PoolFor(Len(e))
      /\ Free \in NodeRecords /\ Free.entries = <<>>
  <2>1. PoolFor(Len(e)) \in Nat  BY <1>3, PoolLemma
  <2> QED  BY <1>3, <2>1 DEF NodeRecords, Free
<1> HIDE DEF r
<1>9. \A n \in Nodes : node[n] = IF n = ptr THEN r ELSE Free  BY <1>7
<1>10. \A t \in Threads : th[t] = Idle /\ op[t] = NoCall /\ did[t] = "nothing"  BY <1>2
<1>11. Types
  <2>1. node \in [Nodes -> [pool : Nat, entries : Seq(Entries)]]
    BY <1>7, <1>8 DEF NodeRecords
  <2>2. th \in [Threads -> Locals]  BY <1>2, IdleLemma
  <2>3. lck \in LockWords  BY <1>2 DEF LockWords, Unlocked
  <2>4. did \in [Threads -> Deeds]  BY <1>2 DEF Deeds
  <2>5. ret \in [Threads -> [ok : BOOLEAN, val : Values \cup {None}]]  BY <1>2
  <2> QED  BY <1>2, <1>6, <2>1, <2>2, <2>3, <2>4, <2>5 DEF Types
<1>12. NodeInv  BY <1>3, <1>6, <1>8, <1>9 DEF NodeInv, Proper
<1>13. ShareInv
  <2>1. FreeInv  BY <1>2, <1>5, <1>6, <1>8, <1>9, <1>10, IdleLemma DEF FreeInv
  <2>2. NewInv  BY <1>10, IdleLemma DEF NewInv
  <2>3. OldInv  BY <1>10, IdleLemma DEF OldInv
  <2>4. RestInv  BY <1>2, <1>9 DEF RestInv
  <2> QED  BY <2>1, <2>2, <2>3, <2>4 DEF ShareInv
<1>14. LockInv
  <2>1. lck.count = 0 /\ CountMod > 0  BY <1>2, CountModAssumption DEF Unlocked
  <2> QED  BY <1>10, <2>1, IdleLemma DEF LockInv, Holding
<1>15. LocalInv  BY <1>10, IdleLemma DEF LocalInv, Local
<1>16. SeenInv  BY <1>10 DEF SeenInv, InCall, NoCall
<1> QED  BY <1>11, <1>12, <1>13, <1>14, <1>15, <1>16 DEF IInv

\* The invariant holds when nothing changes.
LEMMA StutterKept ==
  ASSUME IInv, UNCHANGED vars
  PROVE  IInv'
<1> USE DEF vars, bucket, hist
<1>1. UNCHANGED <<useCas, ptr, lck, node, retired, th, calls, op, seen, did, ret>>
  OBVIOUS
<1>2. Contents' = Contents  BY <1>1, SameContents
<1>3. Types' /\ NodeInv'  BY <1>1 DEF IInv, Types, NodeInv
<1>4. ShareInv'
  BY <1>1 DEF IInv, ShareInv, FreeInv, NewInv, OldInv, RestInv, Gives
<1>5. LockInv'  BY <1>1 DEF IInv, LockInv
<1>6. LocalInv'
  <2> SUFFICES ASSUME NEW u \in Threads  PROVE Local(u)'
    BY DEF LocalInv
  <2>1. Local(u) /\ Types  BY LocalOf
  <2> QED  BY <1>1, <2>1, Bystander
<1>7. SeenInv'  BY <1>1, <1>2 DEF IInv, SeenInv, InCall
<1> QED  BY <1>3, <1>4, <1>5, <1>6, <1>7 DEF IInv

\* The invariant is inductive.
LEMMA NextKept == IInv /\ [Next]_vars => IInv'
<1> SUFFICES ASSUME IInv, [Next]_vars  PROVE IInv'
  OBVIOUS
<1>1. ASSUME NEW t \in Threads, Step(t)  PROVE IInv'  BY <1>1, StepKept
<1>2. ASSUME NEW t \in Threads, NEW call \in Menu[t], Call(t, call)  PROVE IInv'
  BY <1>2, CallKept
<1>3. CASE UNCHANGED vars  BY <1>3, StutterKept
<1> QED  BY <1>1, <1>2, <1>3 DEF Next

\* The invariant holds throughout.
LEMMA Invariant == Spec => []IInv
<1>1. Init => IInv  BY InitIInv
<1>2. IInv /\ [Next]_vars => IInv'  BY NextKept
<1> QED  BY <1>1, <1>2, PTL DEF Spec

-----------------------------------------------------------------------------
\* A node never has more entries than the nodes of its pool have room for, and
\* retire_node, which finds the pool of a node by its count again, gives it back
\* to the pool from which insert_to_node, update_node or remove_from_node took it
\* (NodesFit).
THEOREM NodesAlwaysFit == Spec => []NodesFit
<1>1. IInv => NodesFit
  <2> SUFFICES ASSUME IInv, NEW n \in Nodes, node[n] # Free
               PROVE  /\ node[n].pool # Big => Cnt(n) <= Sizes[node[n].pool]
                      /\ node[n].pool = RetirePool(n)
    BY DEF NodesFit
  <2>1. Types /\ NodeInv  BY DEF IInv
  <2>2. n # Null  BY NodesAssumption DEF Null
  <2>3. Cnt(n) = Len(node[n].entries)  BY <2>2 DEF Cnt, EntriesAt
  <2>4. Cnt(n) \in Nat  BY <2>1, EntriesLemma DEF Addresses
  <2>5. node[n].pool = PoolFor(Cnt(n))  BY <2>1, <2>3 DEF NodeInv, Proper
  <2>6. RetirePool(n) = PoolFor(Cnt(n))  BY Zenon DEF RetirePool, PoolFor
  <2> QED  BY <2>4, <2>5, <2>6, PoolLemma
<1> QED  BY <1>1, Invariant, PTL

\* Every node is free, in the bucket, retired once, or in the hands of the one
\* thread that made it or replaced it, so the retries of try_loop, failing
\* compare-and-swaps and failing locks neither leak a node nor retire one that
\* is in use or that somebody else retires (NodesAccountedFor).
THEOREM NodesNeverLost == Spec => []NodesAccountedFor
<1>1. IInv => NodesAccountedFor
  <2> SUFFICES ASSUME IInv, NEW n \in Nodes, node[n] # Free
               PROVE  1 = retired[n] + (IF ptr = n THEN 1 ELSE 0)
                          + Cardinality({t \in Threads :
                              th[t].new = n \/ (th[t].res /\ th[t].old = n)})
    BY DEF NodesAccountedFor
  <2> DEFINE G == {t \in Threads : th[t].new = n \/ (th[t].res /\ th[t].old = n)}
  <2>1. n # Null  BY NodesAssumption DEF Null
  <2>2. /\ retired[n] \in {0, 1} /\ (ptr = n => retired[n] = 0)
        /\ ptr = n \/ retired[n] = 1 \/ G # {}
    BY DEF IInv, ShareInv, RestInv, Gives
  <2>3. ASSUME NEW t \in G
        PROVE  ptr # n /\ retired[n] = 0 /\ G = {t}
    <3>1. CASE th[t].new = n
      <4>1. /\ ptr # n /\ retired[n] = 0
            /\ \A u \in Threads : th[u].old # n /\ (u # t => th[u].new # n)
        BY <2>1, <3>1 DEF IInv, ShareInv, NewInv
      <4> QED  BY <4>1
    <3>2. CASE th[t].new # n /\ th[t].res /\ th[t].old = n
      <4>1. /\ ptr # n /\ retired[n] = 0
            /\ \A u \in Threads : u # t => ~(th[u].res /\ th[u].old = n)
        BY <2>1, <3>2 DEF IInv, ShareInv, OldInv
      <4>2. \A u \in Threads : th[u].new # n
        BY <2>1, <3>2 DEF IInv, ShareInv, NewInv
      <4> QED  BY <3>2, <4>1, <4>2
    <3> QED  BY <3>1, <3>2
  <2> HIDE DEF G
  <2>4. CASE G = {}
    <3>1. Cardinality(G) = 0  BY <2>4, FS_EmptySet
    <3> QED  BY <2>2, <2>4, <3>1 DEF G
  <2>5. CASE G # {}
    <3>1. PICK t \in G : TRUE  BY <2>5
    <3>2. ptr # n /\ retired[n] = 0 /\ G = {t}  BY <2>3
    <3>3. Cardinality(G) = 1  BY <3>2, FS_Singleton
    <3> QED  BY <3>2, <3>3 DEF G
  <2> QED  BY <2>4, <2>5
<1> QED  BY <1>1, Invariant, PTL

-----------------------------------------------------------------------------
\* The start of a call is Begin of the map.
LEMMA BeginStep ==
  ASSUME IInv, NEW t \in Threads, NEW call \in Menu[t], Call(t, call)
  PROVE  Abs!Next
<1>1. /\ call \in Requests /\ ~InCall(t)
      /\ op' = [op EXCEPT ![t] = call]
      /\ seen' = [seen EXCEPT ![t] = {Contents[call.key]}]
      /\ ptr' = ptr /\ node' = node /\ did' = did /\ ret' = ret
  BY CallFacts
<1>2. Contents' = Contents  BY <1>1, SameContents
<1>3. call \in Abs!Calls  BY <1>1 DEF Requests, Abs!Calls, Abs!Kinds
<1>4. Abs!Begin(t, call)  BY <1>1, <1>2 DEF Abs!Begin, Abs!InCall, InCall
<1> QED  BY <1>3, <1>4 DEF Abs!Next

\* A return is End of the map.
LEMMA EndStep ==
  ASSUME IInv, NEW t \in Threads, NEW ok \in BOOLEAN, NEW val \in Values \cup {None},
         Return(t, ok, val), InCall(t), Abs!Right(t, ok)
  PROVE  Abs!Next
<1>1. /\ ptr' = ptr /\ node' = node
      /\ op' = [op EXCEPT ![t] = NoCall] /\ seen' = [seen EXCEPT ![t] = {}]
      /\ did' = [did EXCEPT ![t] = "nothing"]
      /\ ret' = [ret EXCEPT ![t] = [ok |-> ok, val |-> val]]
  BY ReturnFacts
<1>2. Contents' = Contents  BY <1>1, SameContents
<1> DEFINE r == [ok |-> ok, val |-> val]
<1>3. r \in Abs!Returns /\ r.ok = ok  BY DEF Abs!Returns
<1>4. ret' = [ret EXCEPT ![t] = r]  BY <1>1
<1> HIDE DEF r
<1>5. \E q \in Abs!Returns : Abs!Right(t, q.ok) /\ ret' = [ret EXCEPT ![t] = q]
  BY <1>3, <1>4
<1>6. op' = [op EXCEPT ![t] = Abs!NoCall]  BY <1>1 DEF Abs!NoCall, NoCall
<1>7. Abs!End(t)  BY <1>1, <1>2, <1>5, <1>6 DEF Abs!End, Abs!InCall, InCall
<1> QED  BY <1>7 DEF Abs!Next

\* An install is the effect of the call on the map.
LEMMA EffectStep ==
  ASSUME IInv, NEW t \in Threads, NEW n, NEW pc, Installs(t, n, pc)
  PROVE  Abs!Next
<1> DEFINE k == op[t].key
<1>1. /\ op' = op /\ ret' = ret /\ did' = [did EXCEPT ![t] = What(t)]
      /\ seen' = [u \in Threads |->
           IF InCall(u) THEN seen[u] \cup {Contents'[op[u].key]} ELSE seen[u]]
  BY InstallFacts
<1>2. /\ k \in Keys /\ Left(t) \in Values \cup {None}
      /\ Contents' = [Contents EXCEPT ![k] = Left(t)]
  BY InstallContents
<1>3. /\ op[t] \in Requests /\ Made(t) /\ ptr = th[t].old /\ th[t].pc \in {"cas", "store"}
  BY DEF Installs
<1>4. InCall(t) /\ op[t].kind \in {"insert", "upsert", "remove", "find"}
  BY <1>3, LocalOf, OpTypes
<1>5. did[t] = "nothing"
  <2>1. Local(t) /\ th[t].res \in BOOLEAN  BY LocalOf
  <2> QED  BY <1>3, <2>1 DEF Local
<1>6. FindIndex(th[t].old, k) = 0 <=> Contents[k] = None
  BY <1>2, <1>3, PresentLemma
<1>7. What(t) \in {"inserted", "updated", "removed"}  BY DEF What
<1>8. Abs!May(t, Left(t), What(t))
  <2> DEFINE i == FindIndex(th[t].old, k)
  <2>1. /\ op[t].kind = "remove" => i # 0
        /\ op[t].kind = "insert" => i = 0
        /\ op[t].kind # "find"
    BY <1>3, <1>4 DEF Made
  <2>2. /\ op[t].kind = "remove" => What(t) = "removed"
        /\ op[t].kind # "remove" /\ i # 0 => What(t) = "updated"
        /\ op[t].kind # "remove" /\ i = 0 => What(t) = "inserted"
    BY DEF What
  <2> HIDE DEF i
  <2>3. i = 0 <=> Contents[op[t].key] = None  BY <1>6 DEF i
  <2> QED  BY <1>4, <2>1, <2>2, <2>3 DEF Abs!May, Left
<1>9. seen' = [u \in Threads |->
         IF Abs!InCall(u) THEN seen[u] \cup {Contents'[op[u].key]} ELSE seen[u]]
  BY <1>1 DEF Abs!InCall, InCall
<1>10. \E v \in Values \cup {None}, what \in {"inserted", "updated", "removed"} :
         /\ did' = [did EXCEPT ![t] = what]
         /\ Abs!May(t, v, what)
         /\ Contents' = [Contents EXCEPT ![op[t].key] = v]
  BY <1>1, <1>2, <1>7, <1>8
<1>11. Abs!Effect(t)
  BY <1>1, <1>4, <1>5, <1>9, <1>10 DEF Abs!Effect, Abs!InCall, InCall
<1> QED  BY <1>11 DEF Abs!Next

\* A step on other things than the map.
LEMMA SilentStep ==
  ASSUME Contents' = Contents, UNCHANGED hist
  PROVE  UNCHANGED Abs!mapVars
BY DEF hist, Abs!mapVars

\* A step on locals and lock is not a step of the map.
LEMMA QuietSilent ==
  ASSUME ptr' = ptr, node' = node, UNCHANGED hist
  PROVE  UNCHANGED Abs!mapVars
BY SameContents, SilentStep

\* Making a copy is not a step of the map.
LEMMA CopySilent ==
  ASSUME IInv, NEW t \in Threads, LoadAndCopy(t)
  PROVE  UNCHANGED Abs!mapVars
<1>1. Types /\ ShareInv /\ ptr \in Addresses  BY DEF IInv, Types
<1>2. UNCHANGED <<bucket, hist>>  BY DEF LoadAndCopy
<1>3. ptr' = ptr  BY <1>2 DEF bucket
<1>4. \/ node' = node
      \/ FreeNodes # {} /\ \E c : node' = [node EXCEPT ![FreeNode] = c]
  BY DEF LoadAndCopy
<1>5. ptr # Null => node'[ptr] = node[ptr]
  <2>1. CASE node' = node  BY <2>1
  <2>2. CASE FreeNodes # {} /\ \E c : node' = [node EXCEPT ![FreeNode] = c]
    <3>1. ptr # FreeNode /\ FreeNode \in Nodes  BY <1>1, <2>2, FreeNodeLemma
    <3> QED  BY <1>1, <2>2, <3>1 DEF Types, Addresses
  <2> QED  BY <1>4, <2>1, <2>2
<1>6. Contents' = Contents  BY <1>3, <1>5, SameContents
<1> QED  BY <1>2, <1>6, SilentStep

\* Giving a copy back is not a step of the map.
LEMMA DestructSilent ==
  ASSUME IInv, NEW t \in Threads, Destruct(t)
  PROVE  UNCHANGED Abs!mapVars
<1>1. Types /\ ShareInv /\ ptr \in Addresses /\ th[t].new \in Addresses
  BY ThTypes DEF IInv, Types
<1>2. /\ UNCHANGED <<bucket, hist>>
      /\ node' = IF th[t].new = Null THEN node ELSE [node EXCEPT ![th[t].new] = Free]
  BY DEF Destruct
<1>3. ptr' = ptr  BY <1>2 DEF bucket
<1>4. th[t].new # Null => ptr # th[t].new  BY <1>1 DEF ShareInv, NewInv
<1>5. ptr # Null => node'[ptr] = node[ptr]
  BY <1>1, <1>2, <1>4 DEF Types, Addresses
<1>6. Contents' = Contents  BY <1>3, <1>5, SameContents
<1> QED  BY <1>2, <1>6, SilentStep

\* Calls that find nothing to change.
LEMMA NothingStep ==
  ASSUME IInv, NEW t \in Threads, th[t].pc \in {"load", "validate"},
         op[t].kind = IF FindIndex(ptr, op[t].key) # 0 THEN "insert" ELSE "remove",
         Return(t, FALSE, None)
  PROVE  Abs!Next
<1>1. Local(t) /\ Types /\ th[t].res \in BOOLEAN  BY LocalOf
<1>2. op[t] \in Requests /\ did[t] = "nothing"  BY <1>1 DEF Local
<1>3. op[t].key \in Keys /\ InCall(t)  BY <1>1, <1>2, OpTypes
<1>4. FindIndex(ptr, op[t].key) = 0 <=> Contents[op[t].key] = None  BY <1>3, PresentLemma
<1>5. Contents[op[t].key] \in seen[t]  BY <1>3 DEF IInv, SeenInv
<1>6. Abs!Right(t, FALSE)  BY <1>2, <1>4, <1>5 DEF Abs!Right
<1>7. FALSE \in BOOLEAN /\ None \in Values \cup {None}  OBVIOUS
<1> QED  BY <1>3, <1>6, <1>7, EndStep

\* A find is answered by what the bucket holds when it loads it.
LEMMA FindStep ==
  ASSUME IInv, NEW t \in Threads, LoadFind(t)
  PROVE  Abs!Next
<1>1. Local(t) /\ Types /\ th[t].res \in BOOLEAN  BY LocalOf
<1>2. /\ th[t].pc = "load" /\ op[t].kind = "find" /\ op[t].key \in Keys
      /\ FindResult(t) \in Values \cup {None}
      /\ FindResult(t) # None <=> Contents[op[t].key] # None
      /\ Return(t, FindResult(t) # None, FindResult(t))
  BY LoadFindFacts
<1>3. InCall(t) /\ did[t] = "nothing"  BY <1>1, <1>2 DEF Local, InCall
<1>4. Contents[op[t].key] \in seen[t]  BY <1>3 DEF IInv, SeenInv
<1> DEFINE ok == FindResult(t) # None
<1>5. ok \in BOOLEAN /\ (ok <=> Contents[op[t].key] # None)  BY <1>2
<1> HIDE DEF ok
<1>6. Abs!Right(t, ok)  BY <1>2, <1>3, <1>4, <1>5 DEF Abs!Right
<1>7. Return(t, ok, FindResult(t))  BY <1>2 DEF ok
<1> QED  BY <1>2, <1>3, <1>5, <1>6, <1>7, EndStep

\* The return of a call that changed the map.
LEMMA RetireStep ==
  ASSUME IInv, NEW t \in Threads, Retire(t)
  PROVE  Abs!Next
<1>1. Local(t) /\ Types  BY LocalOf
<1>2. th[t].pc = "retire" /\ Return(t, What(t) # "updated", None)  BY DEF Retire
<1>3. did[t] = What(t) /\ op[t] \in Requests  BY <1>1, <1>2 DEF Local
<1>4. InCall(t)  BY <1>1, <1>3, OpTypes
<1>5. What(t) # "nothing"  BY DEF What
<1>6. Abs!Right(t, What(t) # "updated")  BY <1>3, <1>5 DEF Abs!Right
<1>7. (What(t) # "updated") \in BOOLEAN /\ None \in Values \cup {None}  OBVIOUS
<1> QED  BY <1>2, <1>4, <1>6, <1>7, EndStep

\* Every step of a thread is a step of the map or leaves it alone.
LEMMA StepRefines ==
  ASSUME IInv, NEW t \in Threads, Step(t)
  PROVE  [Abs!Next]_Abs!mapVars
<1>1. CASE LoadFind(t)  BY <1>1, FindStep
<1>2. CASE LoadNothingToDo(t)
  <2>1. CASE Return(t, FALSE, None)
    <3>1. /\ th[t].pc = "load"
          /\ op[t].kind = IF FindIndex(ptr, op[t].key) # 0 THEN "insert" ELSE "remove"
      BY <1>2 DEF LoadNothingToDo, Present
    <3> QED  BY <2>1, <3>1, NothingStep
  <2>2. CASE UNCHANGED <<bucket, node, retired, hist>>  BY <2>2, QuietSilent DEF bucket
  <2> QED  BY <1>2, <2>1, <2>2 DEF LoadNothingToDo
<1>3. CASE Validate(t)
  <2>1. ASSUME ptr = th[t].old, Return(t, FALSE, None)  PROVE Abs!Next
    <3>1. th[t].pc = "validate"  BY <1>3 DEF Validate
    <3>2. op[t].kind = IF FindIndex(ptr, op[t].key) # 0 THEN "insert" ELSE "remove"
      BY <2>1, <3>1, LocalOf DEF Local
    <3> QED  BY <2>1, <3>1, <3>2, NothingStep
  <2>2. CASE Goto(t, "load")  BY <2>2, QuietSilent DEF Goto, bucket
  <2> QED  BY <1>3, <2>1, <2>2 DEF Validate
<1>4. CASE LoadAndCopy(t)  BY <1>4, CopySilent
<1>5. CASE LoadUpdate(t)  BY <1>5, QuietSilent DEF LoadUpdate, bucket
<1>6. CASE Reload(t)  BY <1>6, QuietSilent DEF Reload, Goto, bucket
<1>7. CASE Cas(t)
  <2>1. CASE Goto(t, "destruct")  BY <2>1, QuietSilent DEF Goto, bucket
  <2>2. CASE Installs(t, th[t].new, "retire")  BY <2>2, EffectStep
  <2> QED  BY <1>7, <2>1, <2>2, CasFacts
<1>8. CASE LockLoad(t)  BY <1>8, QuietSilent DEF LockLoad, Goto, bucket
<1>9. CASE LockTake(t)  BY <1>9, QuietSilent DEF LockTake, Goto, bucket
<1>10. CASE Check(t)  BY <1>10, QuietSilent DEF Check, Goto, bucket
<1>11. CASE Store(t)
  <2>1. Installs(t, Target(t), "unlock")  BY <1>11, StoreFacts
  <2> QED  BY <2>1, EffectStep
<1>12. CASE Unlock(t)  BY <1>12, QuietSilent DEF Unlock
<1>13. CASE Retire(t)  BY <1>13, RetireStep
<1>14. CASE Destruct(t)  BY <1>14, DestructSilent
<1> QED
  BY <1>1, <1>2, <1>3, <1>4, <1>5, <1>6, <1>7, <1>8, <1>9, <1>10, <1>11, <1>12, <1>13,
     <1>14 DEF Step

\* The first states of the bucket are first states of the map.
LEMMA InitRefines == Init => Abs!Init
<1> SUFFICES ASSUME Init  PROVE Abs!Init
  OBVIOUS
<1>1. IInv  BY InitIInv
<1>2. \A k \in Keys : Contents[k] \in Values \cup {None}  BY <1>1, PresentLemma
<1>3. Contents = [k \in Keys |-> Contents[k]]  BY DEF Contents
<1> HIDE DEF Contents
<1>4. Contents \in [Keys -> Values \cup {None}]  BY <1>2, <1>3
<1>5. op = [t \in Threads |-> Abs!NoCall]  BY DEF Init, HistInit, Abs!NoCall, NoCall
<1> QED  BY <1>4, <1>5 DEF Init, HistInit, Abs!Init

\* Calls on a bucket are linearizable: insert, upsert, remove and find, whichever
\* way other threads copy, install, lock and retire in between, take effect at
\* one moment between their start and their return (IsMap, that is ConcurrentMap
\* with the contents of the bucket for its map).
THEOREM CallsAreAtomic == Spec => IsMap
<1>1. Init => Abs!Init  BY InitRefines
<1>2. IInv /\ [Next]_vars => [Abs!Next]_Abs!mapVars
  <2> SUFFICES ASSUME IInv, [Next]_vars  PROVE [Abs!Next]_Abs!mapVars
    OBVIOUS
  <2>1. ASSUME NEW t \in Threads, Step(t)  PROVE [Abs!Next]_Abs!mapVars
    BY <2>1, StepRefines
  <2>2. ASSUME NEW t \in Threads, NEW call \in Menu[t], Call(t, call)  PROVE Abs!Next
    BY <2>2, BeginStep
  <2>3. CASE UNCHANGED vars  BY <2>3, QuietSilent DEF vars, bucket
  <2> QED  BY <2>1, <2>2, <2>3 DEF Next
<1> QED  BY <1>1, <1>2, Invariant, PTL DEF Spec, IsMap, Abs!Spec
=============================================================================
