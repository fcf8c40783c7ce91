---------------------------- MODULE LfLockProofs ----------------------------
(***************************************************************************)
(* LfLock: the steps one by one, and the theorems.  The lemmas named ...OK *)
(* show that an action keeps the invariant InvA of LfLockInv.              *)
(***************************************************************************)
EXTENDS LfLockFrames

\* A step that changes one of the locks and nothing else of the heap.
LckOnly ==
  /\ desc' = desc /\ log' = log /\ ext' = ext /\ status' = status
  /\ freeList' = freeList /\ prog' = prog /\ callOf' = callOf

\* A step that only changes a lock.
LEMMA LckHeap ==
  ASSUME InvA, Rely({}), LckOnly, LocksOK', ChainOrdered', \A d \in Descriptors : Held(d)' => desc[d].counter > 0
  PROVE  HeapOK'
<1>1. HeapOK /\ TypeOK
  BY DEF InvA
<1>2. /\ FlatReuse' /\ PathsFit' /\ ReuseFlat' /\ PrefixSet' /\ LogsKnown' /\ InBlocks'
  BY <1>1 DEF HeapOK, LckOnly, FlatReuse, PathsFit, ReuseFlat, PrefixSet, LogsKnown, InBlocks, Size
<1>3. ValuesOK'
  BY <1>1 DEF HeapOK, LckOnly, ValuesOK, Size, OwnUpTo, Own, Base, Value, Mark
<1>4. ChildrenOK'
  <2>1. /\ \A d, i : Forks(d, i)' <=> Forks(d, i)
        /\ \A d, i : ChildAt(d, i)' = ChildAt(d, i)
        /\ \A d : Levels(d)' = Levels(d)
    BY DEF LckOnly, Levels, Size, OwnUpTo, Own, Forks, ChildAt, Off
  <2>2. \A d, i, e : ChildOK(d, i, e)' <=> ChildOK(d, i, e)
    BY DEF LckOnly, ChildOK, Size
  <2>3. ASSUME NEW d \in Descriptors, NEW i \in Levels(d)', Forks(d, i)'
        PROVE  \/ ChildAt(d, i)' = Unset
               \/ IsDone(ChildAt(d, i)')
               \/ ChildAt(d, i)'[1] = "word" /\ \A e : e = ChildAt(d, i)'[2] => ChildOK(d, i, e)'
    BY <1>1, <2>1, <2>2, <2>3 DEF HeapOK, ChildrenOK
  <2> QED
    BY <2>3 DEF ChildrenOK
<1>5. NotTwice' /\ FreshBlank' /\ UsedFull' /\ FreeOK'
  BY <1>1 DEF HeapOK, LckOnly, NotTwice, FreshBlank, UsedFull, FreeOK
<1>6. RetiredOver'
  <2>1. \A d \in Descriptors : Over(d) => Over(d)'
    BY DEF Rely, DescKept
  <2> QED
    BY <1>1, <2>1 DEF HeapOK, RetiredOver, LckOnly
<1>7. CountersOK'
  <2>1. ASSUME NEW e \in Descriptors, desc[e].done, ~prog.with
        PROVE  \A m, c : m = desc[e].lock /\ c = desc[e].counter => Moved(m, c)'
    <3>1. PICK c \in Nat : c = desc[e].counter
      BY <1>1, DescType
    <3>2. PICK m \in Locks : m = desc[e].lock
      BY <2>1, HasLock
    <3>3. Moved(m, c)
      BY <1>1, <2>1, <3>1, <3>2 DEF HeapOK, CountersOK
    <3>4. Moved(m, c)'
      BY <3>3 DEF Rely, LockKept
    <3> QED
      BY <3>1, <3>2, <3>4
  <2> QED
    BY <2>1 DEF CountersOK, LckOnly
<1>8. DoneSettled'
  BY DoneSettledKept DEF LckOnly
<1>9. LoadsOK'
  <2>1. ASSUME NEW e \in Descriptors, NEW i \in Levels(e), ~prog.with, OwnUpTo(e, i) PROVE LoadEntry(e, i)'
    <3>3. LoadEntry(e, i)
      BY <1>1, <2>1 DEF HeapOK, LoadsOK
    <3>4. PICK en : en = log[e][i + 1]
      OBVIOUS
    <3>5. PICK l : l = desc[e].path[i + 1]
      OBVIOUS
    <3>6. l \in Locks
      <4>1. desc[e].path \in Seq(Locks) /\ i + 1 \in 1 .. Len(desc[e].path)
        BY <1>1, DescType DEF Levels, Size
      <4> QED
        BY <3>5, <4>1
    <3>7. en = Unset
          \/ (en[1] = "word" /\ en[2] \in Nat \ {0} /\ AtMost(l, en[2]))
          \/ (en[1] = "word" /\ en[2] \in Descriptors /\ Known(en[2]))
      BY <3>3, <3>4, <3>5 DEF LoadEntry
    <3>8. \A c \in Nat : AtMost(l, c) => AtMost(l, c)'
      BY <3>6 DEF Rely, LockKept
    <3>9. \A y \in Descriptors : Known(y) => Known(y)'
      BY KnownKept
    <3>10. log'[e][i + 1] = en /\ desc'[e].path[i + 1] = l /\ Unset' = Unset
      BY <3>4, <3>5 DEF LckOnly, Unset
    <3> QED
      BY <3>7, <3>8, <3>9, <3>10 DEF LoadEntry
  <2>2. \A e : Levels(e)' = Levels(e) /\ \A i : OwnUpTo(e, i)' <=> OwnUpTo(e, i)
    BY DEF LckOnly, Levels, Size, OwnUpTo, Own
  <2> QED
    BY <2>1, <2>2 DEF LoadsOK, LckOnly
<1> QED
  BY <1>2, <1>3, <1>4, <1>5, <1>6, <1>7, <1>8, <1>9 DEF HeapOK

\* Taking a lock keeps what is true of the heap,
LEMMA InstallHeap ==
  ASSUME InvA, NEW l \in Locks, NEW d \in Descriptors, Install(l, d), InstallOK(l, d)
  PROVE  HeapOK'
<1>1. LckOnly
  BY DEF Install, LckOnly
<1>2. LocksOK'
  <2>1. ASSUME NEW m \in Locks
        PROVE  /\ lck'[m] \in Nat => lck'[m] > 0
               /\ lck'[m] \in Descriptors => desc[lck'[m]].lock = m /\ status[lck'[m]] = "live"
    <3>1. CASE m = l
      <4>1. lck'[m] = d
        BY <3>1, InstallSame
      <4> QED
        BY <3>1, <4>1, Consts DEF InstallOK
    <3>2. CASE m # l
      <4>1. lck'[m] = lck[m]
        BY <3>2, InstallSame
      <4> QED
        BY <4>1 DEF InvA, HeapOK, LocksOK
    <3> QED
      BY <3>1, <3>2
  <2> QED
    BY <1>1, <2>1 DEF LocksOK, LckOnly
<1>3. ASSUME NEW e \in Descriptors, Held(e)' PROVE desc[e].counter > 0
  <2>1. CASE e = d
    BY <2>1 DEF InstallOK
  <2>2. CASE e # d
    BY <1>3, <2>2, InstallSame DEF InvA, HeapOK, CountersOK
  <2> QED
    BY <2>1, <2>2
<1> QED
  BY <1>1, <1>2, <1>3, InstallRely, InstallChain, LckHeap

\* and leaves the pools alone.
LEMMA InstallPool ==
  ASSUME InvA, NEW l \in Locks, NEW d \in Descriptors, Install(l, d), InstallOK(l, d), TypeOK'
  PROVE  PoolKept
<1>1. \A a, e \in Descriptors : HasChild(a, e)' => HasChild(a, e)
  BY InstallSame
<1>2. ASSUME NEW t \in Threads, NEW k \in Depth(t), stack[t][k].pc = "commit", NEW e, e = stack[t][k].d
      PROVE  ~Held(e)' /\ ~desc'[e].acquired
  <2>1. ~Held(e) /\ ~desc[e].acquired
    BY <1>2 DEF InvA, OwnersOK, Privacy
  <2>2. e # d /\ e \in Descriptors
    <3>1. FrameDesc(t, stack[t][k], Sec(t, k))
      BY <1>2, FrameFacts DEF FrameOK
    <3> QED
      BY <1>2, <3>1 DEF InstallOK, Shared, FrameDesc, HasDesc, Early, Storing
  <2>3. Held(e)' <=> Held(e)
    BY <2>2, InstallSame
  <2> QED
    BY <2>1, <2>2, <2>3 DEF Install
<1>3. ASSUME DescsKept PROVE RootOK'
  <2>1. ASSUME NEW e \in Descriptors, Installed(e) PROVE RootIs(e, desc[e].thread, stack[desc[e].thread][1].d)'
    <3>1. PICK r : r = stack[desc[e].thread][1].d
      OBVIOUS
    <3>2. Installed(r) => Installed(r)'
      <4>1. RootIs(e, desc[e].thread, r)
        BY <2>1, <3>1 DEF InvA, OwnersOK, RootOK
      <4>2. PICK u \in Threads : u = desc[e].thread /\ stack[u] # <<>> /\ Sharing(stack[u][1]) /\ stack[u][1].d = r
        BY <4>1 DEF RootIs
      <4>3. r \in Descriptors
        <5>1. 1 \in Depth(u)
          BY <4>2, HeightType DEF Depth, InvA
        <5>2. FrameDesc(u, stack[u][1], Sec(u, 1))
          BY <5>1, FrameFacts DEF FrameOK
        <5> QED
          BY <4>2, <5>2, HasD
      <4> QED
        BY <4>3, InstallSame
    <3> QED
      BY <1>3, <2>1, <3>1, <3>2, InstallRely, RootKept
  <2>2. RootIs(d, desc[d].thread, stack[desc[d].thread][1].d)'
    <3>1. CASE \E s \in Descriptors : HasChild(s, d) /\ Installed(s)
      <4>1. PICK s \in Descriptors : HasChild(s, d) /\ Installed(s)
        BY <3>1
      <4>2. desc[d].thread = desc[s].thread /\ Size(d) < Size(s) /\ Size(d) \in Nat /\ Size(s) \in Nat
        BY <4>1, ChildLive
      <4>3. RootIs(s, desc[s].thread, stack[desc[s].thread][1].d)'
        BY <2>1, <4>1
      <4>4. PICK u : u = desc[s].thread
        OBVIOUS
      <4>5. PICK r : r = stack'[u][1].d
        OBVIOUS
      <4>6. desc' = desc
        BY DEF Install
      <4>7. RootIs(s, u, r)'
        BY <4>3, <4>4, <4>5, <4>6
      <4>8. r \in Descriptors
        <5>1. Installed(r)'
          BY <4>7 DEF RootIs
        <5>2. stack'[u] # <<>> /\ u \in Threads /\ Sharing(stack'[u][1])
          BY <4>5, <4>7 DEF RootIs
        <5>3. 1 \in Depth(u)'
          <6>1. stack'[u] \in Seq(Frames)
            BY <5>2 DEF TypeOK
          <6>2. Len(stack'[u]) \in Nat /\ Len(stack'[u]) # 0
            BY <5>2, <6>1, EmptyIs
          <6> QED
            BY <6>2 DEF Depth, Height
        <5>4. HasDesc(stack'[u][1])
          BY <5>2 DEF Sharing, HasDesc
        <5>5. 1 \in Depth(u) /\ FrameSame(u, 1)
          BY <1>3, <5>2, <5>3, <5>4 DEF DescsKept
        <5>6. stack[u][1].d = r /\ HasDesc(stack[u][1])
          BY <4>5, <5>4, <5>5, SameOwner
        <5>7. FrameDesc(u, stack[u][1], Sec(u, 1))
          BY <5>2, <5>5, FrameFacts DEF FrameOK
        <5> QED
          BY <5>6, <5>7 DEF FrameDesc
      <4>9. Size(r) \in Nat /\ Size(r)' = Size(r) /\ Size(s)' = Size(s) /\ Size(d)' = Size(d)
        BY <4>8, DescType, InstallSame DEF InvA
      <4>10. RootIs(d, u, r)'
        BY <4>2, <4>7, <4>9 DEF RootIs
      <4> QED
        BY <4>2, <4>4, <4>5, <4>6, <4>10
    <3>2. CASE \E u \in Threads : /\ u = desc[d].thread /\ stack[u] # <<>> /\ Sharing(stack[u][1]) /\ stack[u][1].d = d
      <4>1. PICK u \in Threads : /\ u = desc[d].thread /\ stack[u] # <<>> /\ Sharing(stack[u][1]) /\ stack[u][1].d = d
        BY <3>2
      <4>2. stack'[u] # <<>> /\ Sharing(stack'[u][1]) /\ stack'[u][1].d = d
        BY <1>3, <4>1, InstallRely, RootStays
      <4>3. Installed(d)' /\ desc' = desc
        BY InstallSame DEF Install
      <4>4. RootIs(d, u, d)'
        BY <4>2, <4>3 DEF RootIs, Sharing, Early, Storing
      <4> QED
        BY <4>1, <4>2, <4>3, <4>4
    <3> QED
      BY <3>1, <3>2 DEF InstallOK, Rooted
  <2>3. ASSUME NEW e \in Descriptors, Installed(e)' PROVE RootIs(e, desc[e].thread, stack[desc[e].thread][1].d)'
    <3>1. e = d \/ Installed(e)
      BY <2>3, InstallSame
    <3> QED
      BY <2>1, <2>2, <3>1
  <2> QED
    BY <2>3 DEF RootOK
<1> QED
  BY <1>1, <1>2, <1>3 DEF PoolKept, Install

\* A section takes at most one lock besides those of its own thread.
LEMMA OneFork ==
  ASSUME TypeOK, PathsFit, NEW d \in Descriptors, NEW i, NEW j, Forks(d, i), Forks(d, j)
  PROVE  i = j
<1>1. i \in Levels(d) /\ j \in Levels(d) /\ OwnUpTo(d, i) /\ OwnUpTo(d, j) /\ (prog.with => i = 0 /\ j = 0)
  BY DEF Forks
<1>2. i \in Nat /\ j \in Nat
  BY <1>1, FitsLog
<1>3. ~prog.with => i <= j /\ j <= i
  BY <1>1, <1>2, ForksTop
<1> QED
  BY <1>1, <1>2, <1>3

\* A section makes one call.
LEMMA OneChild ==
  ASSUME TypeOK, PathsFit, NEW d \in Descriptors, NEW e, HasChild(d, e)
  PROVE  /\ \A y : HasChild(d, y) => y = e
         /\ ~ChildDone(d) /\ ~Base(d)
         /\ Settled(d) => Over(e)
<1>1. PICK i \in Levels(d) : Forks(d, i) /\ ChildAt(d, i) = Word(e)
  BY DEF HasChild
<1>2. ASSUME NEW y, HasChild(d, y) PROVE y = e
  <2>1. PICK j \in Levels(d) : Forks(d, j) /\ ChildAt(d, j) = Word(y)
    BY <1>2 DEF HasChild
  <2>2. i = j
    BY <1>1, <2>1, OneFork
  <2> QED
    BY <1>1, <2>1, <2>2, EntryFacts
<1>3. ~ChildDone(d)
  <2>1. ASSUME NEW j \in Levels(d), Forks(d, j), IsDone(ChildAt(d, j)) PROVE FALSE
    <3>1. i = j
      BY <1>1, <2>1, OneFork
    <3> QED
      BY <1>1, <2>1, <3>1, EntryFacts
  <2> QED
    BY <2>1 DEF ChildDone
<1>4. ~Base(d)
  BY <1>1, BaseNoFork
<1>5. Settled(d) => Over(e)
  BY <1>2, <1>3, <1>4 DEF Settled
<1> QED
  BY <1>2, <1>3, <1>4, <1>5

\* The compare-and-swap that takes a lock succeeds only for a descriptor that
\* has not been in it.
LEMMA InstallReady ==
  ASSUME InvA, NEW t \in Threads, NEW w, NEW h, NEW f, NEW s, NEW n, Here(t, w, h, f, s, n),
         w \in {"cas", "take"}, lck[f.lock] = f.cur, NEW l, l = f.lock, NEW d, d = f.d
  PROVE  l \in Locks /\ d \in Descriptors /\ lck[l] \in Nat /\ InstallOK(l, d) /\ Sharing(f)
<1>1. /\ f.pc = w /\ f \in Frames /\ f = stack[t][h] /\ h \in Depth(t) /\ TypeOK /\ PathsFit
      /\ s = Sec(t, h) /\ stack[t] # <<>> /\ s \in Descriptors \cup {None}
      /\ FrameShape(t, f, s, n) /\ FrameCur(t, f, s) /\ FrameDesc(t, f, s) /\ FrameCount(f)
      /\ s # None => Guarded(t, h, s)
  BY DEF Here, InvA, HeapOK
<1>2. Sharing(f) /\ HasDesc(f) /\ f.pc \notin {"acquire", "recheck", "commit"}
  BY <1>1 DEF Sharing, HasDesc, Early, Storing
<1>3. l \in Locks /\ d \in Descriptors /\ desc[d].lock = l /\ Shared(d) /\ desc[d].counter \in Nat
  BY <1>1, <1>2, FrameType, HasD, SharedHere, DescType
<1>4. f.cur \in Nat /\ f.cur > 0 /\ (Held(d) => Moved(l, f.cur))
  BY <1>1 DEF FrameCount, Storing
<1>5. lck[l] = f.cur /\ lck[l] \in Nat /\ lck[l] \notin Descriptors /\ ~Moved(l, f.cur)
  BY <1>4, Consts DEF Moved
<1>6. ~Held(d)
  BY <1>4, <1>5
<1>7. f.cur <= desc[d].counter /\ (~prog.with => desc[d].counter = f.cur)
  <2>1. CASE prog.with
    <3>1. f.pc = "take"
      BY <1>1, <2>1, WithPath DEF TryOnly
    <3> QED
      BY <1>1, <1>4, <2>1, <3>1 DEF FrameCount, Storing
  <2>2. CASE ~prog.with
    <3>1. desc[d].counter = CounterOf(f)
      BY <1>1, <1>2, <2>2 DEF FrameDesc
    <3> QED
      BY <1>4, <1>5, <2>2, <3>1 DEF CounterOf, IsLocked
  <2> QED
    BY <2>1, <2>2
<1>8. ~Over(d)
  BY <1>3, <1>5, <1>6, <1>7 DEF Over, Held
<1>9. status[d] = "live"
  <2>1. InUse(d)
    BY <1>1, <1>2, UseHere
  <2>2. status[d] # "retired"
    BY <1>3, <1>8 DEF InvA, HeapOK, RetiredOver
  <2> QED
    BY <2>1, <2>2 DEF InUse
<1>10. desc[d].counter > 0 /\ lck[l] <= desc[d].counter
  BY <1>3, <1>4, <1>5, <1>7
<1>11. desc[d].thread = IdIn(t, s)
  BY <1>1, <1>2 DEF FrameDesc
<1>12. (\A e \in Descriptors : Below(d, e)) /\ Rooted(d)
  <2>1. CASE s = None
    <3>1. h = 1
      BY <1>1, <2>1, InnerSections
    <3>2. desc[d].thread = t /\ stack[t][1].d = d /\ Sharing(stack[t][1])
      BY <1>1, <1>2, <1>11, <2>1, <3>1 DEF IdIn
    <3>3. ASSUME NEW e \in Descriptors, Installed(e), desc[e].thread = t PROVE FALSE
      <4>1. RootIs(e, desc[e].thread, stack[desc[e].thread][1].d)
        BY <3>3 DEF InvA, OwnersOK, RootOK
      <4>2. Installed(d)
        BY <3>2, <3>3, <4>1 DEF RootIs
      <4> QED
        BY <1>6, <4>2 DEF Held
    <3> QED
      BY <1>1, <3>2, <3>3 DEF Below, Rooted
  <2>2. CASE s # None
    <3>1. s \in Descriptors /\ Held(s) /\ desc[s].thread = desc[d].thread
      BY <1>1, <1>11, <2>2 DEF Guarded, IdIn
    <3>2. PICK i : i = Level(f, s)
      OBVIOUS
    <3>3. ~IsDone(ChildAt(s, i))
      BY <1>1, <1>2, <1>8, <2>2, <3>2 DEF FrameDesc
    <3>4. HasChild(s, d)
      BY <1>1, <1>2, <3>1, <3>2, <3>3, ChildHere
    <3>5. Size(d) < Size(s) /\ Size(d) \in Nat /\ Size(s) \in Nat
      BY <3>1, <3>4, ChildLive
    <3>6. (\A y : HasChild(s, y) => y = d) /\ ~Settled(s)
      BY <1>1, <1>8, <3>1, <3>4, OneChild
    <3>7. Installed(s)
      BY <3>1, <3>6 DEF InvA, HeapOK, DoneSettled, Held
    <3>8. ASSUME NEW e \in Descriptors, Installed(e), e # d, desc[e].thread = desc[d].thread
          PROVE  /\ Size(d) < Size(e)
                 /\ \E y \in Descriptors : HasChild(e, y) /\ (Installed(y) \/ y = d) /\ Size(d) <= Size(y)
      <4>1. Size(e) \in Nat
        BY <1>1, DescType
      <4>2. CASE e = s
        BY <1>3, <3>4, <3>5, <4>2
      <4>3. CASE e # s
        <5>1. Chained(s, e) /\ Chained(e, s)
          BY <3>1 DEF InvA, HeapOK, ChainOrdered
        <5>2. Size(s) # Size(e)
          BY <3>1, <3>7, <3>8, <4>3, <5>1 DEF Chained
        <5>3. ~(Size(e) < Size(s))
          <6>1. Size(e) < Size(s) => \E y \in Descriptors : HasChild(s, y) /\ Installed(y)
            BY <3>1, <3>7, <3>8, <4>3, <5>1 DEF Chained
          <6> QED
            BY <1>6, <3>6, <6>1 DEF Held
        <5>4. Size(s) < Size(e)
          BY <3>5, <4>1, <5>2, <5>3
        <5>5. PICK y \in Descriptors : HasChild(e, y) /\ Installed(y) /\ Size(s) <= Size(y)
          BY <3>1, <3>7, <3>8, <4>3, <5>1, <5>4 DEF Chained
        <5>6. Size(y) \in Nat
          BY <1>1, DescType
        <5> QED
          BY <3>5, <4>1, <5>4, <5>5, <5>6
      <4> QED
        BY <4>2, <4>3
    <3>9. Rooted(d)
      BY <3>1, <3>4, <3>7 DEF Rooted
    <3> QED
      BY <3>8, <3>9 DEF Below
  <2> QED
    BY <2>1, <2>2
<1> QED
  BY <1>2, <1>3, <1>5, <1>6, <1>8, <1>9, <1>10, <1>12 DEF InstallOK

\* It keeps the types.
LEMMA InstallTypes ==
  ASSUME InvA, NEW l \in Locks, NEW d \in Descriptors, Install(l, d),
         x' = x, calls' = calls, stores' = stores, made' = made,
         stack' \in [Threads -> Seq(Frames)], lg' \in [Threads -> Log],
         id' = id, helping' = helping
  PROVE  TypeOK'
BY InstallSame DEF InvA, TypeOK, Install

\* TryCas keeps the invariant when it takes the lock.
LEMMA TryCasTakes ==
  ASSUME InvA, NEW t \in Threads, TryCas(t), lck[Top(t).lock] = Top(t).cur
  PROVE  InvA'
<1>1. PICK h, f, s, n : Here(t, "cas", h, f, s, n)
  BY HereIs DEF TryCas
<1>2. /\ f = Top(t) /\ f.pc = "cas" /\ f \in Frames /\ f = stack[t][h] /\ h \in Depth(t) /\ TypeOK
      /\ h = Height(t) /\ stack[t] # <<>> /\ s = Sec(t, h) /\ n = Pos(t, h)
      /\ FrameShape(t, f, s, n) /\ FrameCur(t, f, s) /\ FrameDesc(t, f, s) /\ FrameCount(f)
  BY <1>1 DEF Here, InvA
<1>3. PICK l : l = f.lock
  OBVIOUS
<1>4. PICK d : d = f.d
  OBVIOUS
<1>5. l \in Locks /\ d \in Descriptors /\ lck[l] \in Nat /\ InstallOK(l, d) /\ Sharing(f)
  BY <1>1, <1>2, <1>3, <1>4, InstallReady
<1>6. Install(l, d)
  BY <1>2, <1>3, <1>4, <1>5 DEF TryCas, Install, poolVars, histVars
<1>7. PICK g : g = [f EXCEPT !.pc = "check"]
  OBVIOUS
<1>8. g \in Frames /\ g.pc = "check" /\ Alike(f, g) /\ g.cur = f.cur
  BY <1>2, <1>7, PcNames DEF Frames, Alike
<1>9. Continue(t, g)
  BY <1>2, <1>7 DEF TryCas, Goto
<1>10. Conts(t, g) /\ stack' \in [Threads -> Seq(Frames)]
  BY <1>2, <1>8, <1>9, ContIs
<1>11. lg' = lg /\ id' = id /\ helping' = helping /\ x' = x /\ calls' = calls /\ stores' = stores /\ made' = made
  BY DEF TryCas, localVars, histVars
<1>12. TypeOK'
  BY <1>2, <1>5, <1>6, <1>10, <1>11, InstallTypes DEF TypeOK
<1>13. Rely({}) /\ HeapOK' /\ PoolKept /\ GivesBack(t) /\ Installed(d)'
  BY <1>5, <1>6, <1>12, InstallRely, InstallHeap, InstallPool, SameGives, InstallSame DEF Install
<1>14. FrameShape(t, f, s, n)' /\ FrameCur(t, f, s)' /\ FrameDesc(t, f, s)' /\ FrameCount(f)'
  <2>1. ChildrenOK' /\ LocksOK'
    BY <1>13 DEF HeapOK
  <2> QED
    BY <1>2, <1>11, <1>12, <1>13, <2>1, FrameKept
<1>15. Moves(f, g) /\ ~prog.with
  BY <1>2, <1>8, WithPath DEF Moves, Alike, Sharing, Early, Storing, TryOnly
<1>16. FrameCur(t, g, s)'
  BY <1>2, <1>8, <1>14 DEF FrameCur, HelpIn, Inherited, Storing
<1>17. FrameCount(g)'
  <2>1. Held(d)' /\ f.cur \in Nat
    BY <1>2, <1>13 DEF Held, FrameCount, Storing
  <2> QED
    BY <1>2, <1>4, <1>8, <1>14, <2>1 DEF FrameCount, Storing, HasDesc, Early, Alike
<1>18. NewFrame(t, g, s, n)'
  <2>1. FrameShape(t, g, s, n)'
    <3>1. prog' = prog
      BY <1>6 DEF Install
    <3> QED
      BY <1>8, <1>14, <1>15, <3>1, MoveShape DEF WithOnly
  <2>2. FrameDesc(t, g, s)'
    <3>1. prog' = prog
      BY <1>6 DEF Install
    <3>2. f.pc \notin {"acquire", "recheck"}
      BY <1>2
    <3>3. s # None /\ g.le = 0 => Safe(g.d)'
      BY <1>14, <1>15, <3>2, MoveSafe
    <3>4. g.pc # "recheck"
      BY <1>8
    <3> QED
      BY <1>14, <1>15, <3>1, <3>3, <3>4, MoveDesc
  <2> QED
    BY <1>16, <1>17, <2>1, <2>2 DEF NewFrame
<1>19. TopSame(f, g)
  BY <1>15, MoveTop
<1>20. /\ \A z : z = lg'[t] /\ z.d # None => BlockOK(z)'
       /\ lg'[t].d = s /\ lg'[t].n = n /\ ~lg'[t].new
       /\ lg'[t].d = None => lg'[t] = EmptyLog
  <2>1. f.pc \notin {"ran", "helped"} /\ f.pc # "reentered" /\ f.pc \notin Extending
    BY <1>2 DEF Extending
  <2> QED
    BY <1>2, <1>11, <1>12, <1>13, <2>1, LgSame
<1>21. f.pc \notin Inherited /\ g.pc \notin Calling /\ g.pc \notin Inherited /\ g.pc # "retire"
  BY <1>2, <1>8 DEF Inherited, Calling
<1> QED
  BY <1>1, <1>10, <1>11, <1>12, <1>13, <1>18, <1>19, <1>20, <1>21, StepCont

\* TryCas keeps the invariant when the lock has changed.
LEMMA TryCasFails ==
  ASSUME InvA, NEW t \in Threads, TryCas(t), lck[Top(t).lock] # Top(t).cur
  PROVE  InvA'
<1>1. PICK h, f, s, n : Here(t, "cas", h, f, s, n)
  BY HereIs DEF TryCas
<1>2. f = Top(t) /\ f.pc = "cas" /\ f \in Frames /\ TypeOK
  BY <1>1 DEF Here, InvA
<1>3. FrameShape(t, f, s, n) /\ FrameCur(t, f, s) /\ FrameDesc(t, f, s) /\ FrameCount(f)
  BY <1>1 DEF Here
<1>4. UNCHANGED <<heapVars, poolVars, localVars, histVars>>
  BY <1>2 DEF TryCas, localVars, heapVars
<1>5. PICK g : g = [f EXCEPT !.pc = "check"]
  OBVIOUS
<1>6. g \in Frames /\ g.pc = "check" /\ Alike(f, g) /\ g.cur = f.cur
  BY <1>2, <1>5, PcNames DEF Frames, Alike
<1>7. Continue(t, g)
  BY <1>2, <1>5 DEF TryCas, Goto
<1>8. Moves(f, g) /\ ~prog.with
  BY <1>2, <1>3, <1>6, WithPath DEF Moves, Alike, Sharing, Early, Storing, TryOnly
<1>9. FrameCur(t, g, s)
  BY <1>2, <1>3, <1>6 DEF FrameCur, HelpIn, Inherited, Storing
<1>10. f.cur \in Nat /\ Moved(f.lock, f.cur)
  <2>1. f.cur \in Nat /\ AtMost(f.lock, f.cur)
    BY <1>2, <1>3 DEF FrameCount, Storing
  <2>2. lck[f.lock] \in Nat \cup Descriptors /\ lck[f.lock] # f.cur
    BY <1>2, FrameType DEF TypeOK
  <2> QED
    BY <2>1, <2>2 DEF AtMost, Moved
<1>11. FrameCount(g)
  BY <1>2, <1>3, <1>6, <1>10 DEF FrameCount, Storing, HasDesc, Early, Alike
<1>12. /\ f.pc \notin Calling \cup Inherited \cup {"acquire", "recheck"}
       /\ g.pc \notin Calling \cup Inherited \cup {"acquire", "recheck", "retire"} \cup WithOnly
  BY <1>2, <1>6 DEF Calling, Inherited, WithOnly
<1> QED
  BY <1>1, <1>4, <1>6, <1>7, <1>8, <1>9, <1>11, <1>12, PlainGo

\* WithCas keeps the invariant when it takes the lock.
LEMMA WithCasTakes ==
  ASSUME InvA, NEW t \in Threads, WithCas(t), lck[Top(t).lock] = Top(t).cur
  PROVE  InvA'
<1>1. PICK h, f, s, n : Here(t, "take", h, f, s, n)
  BY HereIs DEF WithCas
<1>2. /\ f = Top(t) /\ f.pc = "take" /\ f \in Frames /\ f = stack[t][h] /\ h \in Depth(t) /\ TypeOK
      /\ h = Height(t) /\ stack[t] # <<>> /\ s = Sec(t, h) /\ n = Pos(t, h)
      /\ FrameShape(t, f, s, n) /\ FrameCur(t, f, s) /\ FrameDesc(t, f, s) /\ FrameCount(f)
  BY <1>1 DEF Here, InvA
<1>3. PICK l : l = f.lock
  OBVIOUS
<1>4. PICK d : d = f.d
  OBVIOUS
<1>5. l \in Locks /\ d \in Descriptors /\ lck[l] \in Nat /\ InstallOK(l, d) /\ Sharing(f)
  BY <1>1, <1>2, <1>3, <1>4, InstallReady
<1>6. Install(l, d) /\ RunUnder(t, d, [f EXCEPT !.pc = "ran"])
  BY <1>2, <1>3, <1>4, <1>5 DEF WithCas, Install, poolVars, histVars
<1>7. /\ id' = id /\ helping' = helping /\ x' = x /\ calls' = calls /\ stores' = stores /\ made' = made
      /\ desc' = desc /\ status' = status
  BY <1>6 DEF WithCas, histVars, Install
<1>8. stack' \in [Threads -> Seq(Frames)] /\ lg' \in [Threads -> Log] => TypeOK'
  BY <1>5, <1>6, <1>7, InstallTypes
<1>9. Rely({}) /\ HeapOK' /\ (TypeOK' => PoolKept) /\ GivesBack(t) /\ Installed(d)'
  BY <1>5, <1>6, <1>7, InstallRely, InstallHeap, InstallPool, SameGives, InstallSame
<1>10. Held(d)' /\ InUse(d)'
  BY <1>5, <1>7, <1>9 DEF Held, InUse, InstallOK
<1>11. Safe(d)' \/ Owner(t, h)
  <2>1. f.pc \notin {"acquire", "recheck"}
    BY <1>2
  <2>2. Safe(d) \/ Owner(t, h)
    BY <1>1, <1>4, <1>5, <2>1, UseHere
  <2> QED
    BY <1>7, <2>2 DEF Safe
<1>12. desc[d].thread = id[t] /\ desc[d].lock \in Locks
  <2>1. f.pc \notin Inherited
    BY <1>2 DEF Inherited
  <2> QED
    BY <1>1, <1>4, <1>5, <2>1, OwnId
<1>13. ASSUME NEW c, c = [[f EXCEPT !.pc = "ran"] EXCEPT !.lg = lg[t]]
       PROVE  FrameCur(t, c, s)' /\ FrameCount(c)'
  <2>1. c.pc = "ran" /\ Alike(f, c) /\ c.cur = f.cur /\ c.old = f.old
    BY <1>2, <1>13 DEF Alike, Frames
  <2>2. FrameCur(t, c, s)'
    <3>1. f.cur \in Nat
      BY <1>2 DEF FrameCount, Storing
    <3> QED
      BY <2>1, <3>1, Consts DEF FrameCur, HelpIn, Inherited, Storing
  <2>3. FrameCount(c)'
    <3>1. f.cur \in Nat /\ f.cur > 0 /\ AtMost(l, f.cur) /\ AtMost(l, desc[d].counter) /\ desc[d].counter \in Nat
      BY <1>2, <1>3, <1>4, <1>5, DescType DEF FrameCount, Storing, HasDesc, Early
    <3>2. AtMost(l, f.cur)'
      BY <1>5, <1>6, <3>1, InstallLocks
    <3>3. PICK k \in Nat : k = desc[d].counter
      BY <3>1
    <3>4. AtMost(l, k)'
      BY <1>5, <1>6, <3>1, <3>3, InstallLocks
    <3> QED
      BY <1>3, <1>4, <1>7, <1>10, <2>1, <3>1, <3>2, <3>3, <3>4 DEF FrameCount, Storing, HasDesc, Early, Alike
  <2> QED
    BY <2>2, <2>3
<1>14. f.pc \notin Calling \cup {"acquire", "recheck"} /\ helping' \in [Threads -> BOOLEAN]
  BY <1>2, <1>7 DEF Calling, TypeOK
<1> QED
  BY <1>1, <1>4, <1>5, <1>6, <1>7, <1>8, <1>9, <1>10, <1>11, <1>12, <1>13, <1>14, RunStep

\* The word of a lock becomes a counter again.
Release(l, d) ==
  /\ lck[l] = d /\ lck' = [lck EXCEPT ![l] = desc[d].counter + 1]
  /\ desc' = desc /\ log' = log /\ ext' = ext /\ status' = status
  /\ freeList' = freeList /\ prog' = prog /\ callOf' = callOf

\* What releasing a lock leaves alone.
LEMMA ReleaseSame ==
  ASSUME InvA, NEW l \in Locks, NEW d \in Descriptors, Release(l, d), desc[d].done
  PROVE  /\ lck'[l] = desc[d].counter + 1 /\ desc[d].counter \in Nat
         /\ lck' \in [Locks -> Nat \cup Descriptors]
         /\ \A m \in Locks \ {l} : lck'[m] = lck[m]
         /\ ~Installed(d)' /\ Installed(d) /\ Over(d)'
         /\ \A e \in Descriptors \ {d} : Installed(e)' <=> Installed(e)
         /\ \A e \in Descriptors : Held(e)' <=> Held(e)
         /\ \A e : Size(e)' = Size(e)
         /\ \A e, y : HasChild(e, y)' <=> HasChild(e, y)
<1>1. lck \in [Locks -> Nat \cup Descriptors] /\ lck[l] = d /\ desc' = desc /\ desc[d].counter \in Nat
  BY DescType DEF InvA, TypeOK, Release
<1>2. /\ lck'[l] = desc[d].counter + 1 /\ lck' \in [Locks -> Nat \cup Descriptors]
      /\ \A m \in Locks \ {l} : lck'[m] = lck[m]
  BY <1>1 DEF Release
<1>3. lck'[l] \in Nat /\ lck'[l] \notin Descriptors
  BY <1>1, <1>2, Consts
<1>4. \A m \in Locks : lck[m] = d => m = l
  BY <1>1 DEF InvA, HeapOK, LocksOK
<1>5. ~Installed(d)' /\ Installed(d)
  BY <1>1, <1>2, <1>3, <1>4 DEF Installed
<1>6. ASSUME NEW e \in Descriptors, e # d PROVE Installed(e)' <=> Installed(e)
  BY <1>1, <1>2, <1>3, <1>6 DEF Installed
<1>7. ASSUME NEW e \in Descriptors PROVE Held(e)' <=> Held(e)
  BY <1>1, <1>6 DEF Held
<1>8. \A e : Size(e)' = Size(e)
  BY <1>1 DEF Size
<1>9. \A e, y : HasChild(e, y)' <=> HasChild(e, y)
  BY SameChild DEF Release
<1>10. Over(d)'
  BY <1>1, <1>5 DEF Over
<1> QED
  BY <1>1, <1>2, <1>5, <1>6, <1>7, <1>8, <1>9, <1>10

\* The counters of locks when one is released.
LEMMA ReleaseLocks ==
  ASSUME InvA, NEW l \in Locks, NEW d \in Descriptors, Release(l, d), desc[d].done,
         NEW m \in Locks, NEW c \in Nat
  PROVE  (AtMost(m, c) => AtMost(m, c)') /\ (Moved(m, c) => Moved(m, c)')
<1>1. desc' = desc /\ lck[l] = d /\ desc[d].counter \in Nat
  BY DescType DEF Release, InvA
<1>2. CASE m = l
  <2>1. lck'[m] = desc[d].counter + 1 /\ lck'[m] \notin Descriptors
    BY <1>1, <1>2, ReleaseSame, Consts
  <2> QED
    BY <1>1, <1>2, <2>1 DEF AtMost, Moved
<1>3. CASE m # l
  <2>1. lck'[m] = lck[m]
    BY <1>3, ReleaseSame
  <2> QED
    BY <1>1, <2>1 DEF AtMost, Moved
<1> QED
  BY <1>2, <1>3

\* Frames may rely on it.
LEMMA ReleaseRely ==
  ASSUME InvA, NEW l \in Locks, NEW d \in Descriptors, Release(l, d), desc[d].done
  PROVE  Rely({})
<1>1. TypeOK /\ desc' = desc /\ log' = log /\ ext' = ext /\ status' = status /\ prog' = prog /\ callOf' = callOf
  BY DEF InvA, Release
<1>2. ASSUME NEW e \in Descriptors PROVE DescKept(e)
  <2>1. \A j : EntryKept(e, j)
    BY <1>1 DEF EntryKept
  <2>2. ext[e] <= ext'[e] /\ desc[e].counter <= desc'[e].counter /\ desc[e].counter \in Nat
    BY <1>1, DescType
  <2>3. PICK c \in Nat : c = desc[e].counter
    BY <2>2
  <2>4. \A m \in Locks : AtMost(m, desc[e].counter) => AtMost(m, desc[e].counter)'
    <3>1. \A m \in Locks : AtMost(m, c) => AtMost(m, c)'
      BY ReleaseLocks
    <3> QED
      BY <1>1, <2>3, <3>1 DEF AtMost
  <2>5. Held(e) => Held(e)'
    BY ReleaseSame
  <2>6. Held(e)' => Held(e) \/ Installed(e)'
    BY <1>1 DEF Held
  <2>7. Over(e) => Over(e)'
    <3>1. CASE e = d
      BY <3>1, ReleaseSame
    <3>2. CASE e # d
      <4>1. Installed(e)' <=> Installed(e)
        BY <3>2, ReleaseSame
      <4>2. PICK m : m = desc[e].lock
        OBVIOUS
      <4>3. CASE m \in Locks
        <5>1. Moved(m, c) => Moved(m, c)'
          BY <4>3, ReleaseLocks
        <5> QED
          BY <1>1, <2>3, <4>1, <4>2, <5>1 DEF Over, Moved
      <4>4. CASE m \notin Locks
        <5>1. lck'[m] = lck[m]
          BY <1>1, <4>4 DEF TypeOK, Release
        <5> QED
          BY <1>1, <4>1, <4>2, <5>1 DEF Over, Moved
      <4> QED
        BY <4>3, <4>4
    <3> QED
      BY <3>1, <3>2
  <2> QED
    BY <1>1, <2>1, <2>2, <2>4, <2>5, <2>6, <2>7 DEF DescKept
<1>3. \A e \in Descriptors : StatusKept(e)
  BY <1>1 DEF StatusKept, Safe
<1>4. \A m \in Locks : \A c \in Nat : LockKept(m, c)
  BY ReleaseLocks DEF LockKept
<1> QED
  BY <1>1, <1>2, <1>3, <1>4 DEF Rely

\* When a section is over, nothing of its thread that is smaller is still there.
LEMMA DoneLast ==
  ASSUME InvA, NEW d \in Descriptors, desc[d].done, Installed(d),
         NEW e \in Descriptors, Installed(e), e # d, desc[e].thread = desc[d].thread
  PROVE  ~(Size(e) < Size(d)) /\ Size(e) # Size(d)
<1>1. Chained(d, e)
  BY DEF InvA, HeapOK, ChainOrdered
<1>2. Size(e) # Size(d)
  BY <1>1 DEF Chained
<1>3. ASSUME Size(e) < Size(d) PROVE FALSE
  <2>1. PICK y \in Descriptors : HasChild(d, y) /\ Installed(y)
    BY <1>1, <1>3 DEF Chained
  <2>2. Settled(d)
    BY DEF InvA, HeapOK, DoneSettled
  <2>3. Over(y)
    BY <2>1, <2>2, OneChild DEF InvA, HeapOK
  <2> QED
    BY <2>1, <2>3 DEF Over
<1> QED
  BY <1>2, <1>3

\* The order of the others in locks is kept.
LEMMA ReleaseChain ==
  ASSUME InvA, NEW l \in Locks, NEW d \in Descriptors, Release(l, d), desc[d].done
  PROVE  ChainOrdered'
<1>1. ASSUME NEW a \in Descriptors, NEW b \in Descriptors PROVE Chained(a, b)'
  <2>1. CASE Installed(a)' /\ Installed(b)' /\ a # b /\ desc[a].thread = desc[b].thread
    <3>1. Installed(a) /\ Installed(b) /\ a # d /\ b # d /\ Installed(d)
      BY <2>1, ReleaseSame
    <3>2. ASSUME NEW y \in Descriptors, HasChild(a, y), Installed(y), Size(b) <= Size(y) PROVE Installed(y)'
      <4>1. y # d
        <5>1. ASSUME y = d PROVE FALSE
          <6>1. desc[d].thread = desc[b].thread
            BY <2>1, <3>2, <5>1, ChildLive
          <6>2. ~(Size(b) < Size(d)) /\ Size(b) # Size(d)
            BY <3>1, <6>1, DoneLast
          <6>3. Size(b) \in Nat /\ Size(d) \in Nat
            BY DescType DEF InvA
          <6> QED
            BY <3>2, <5>1, <6>2, <6>3
        <5> QED
          BY <5>1
      <4> QED
        BY <3>2, <4>1, ReleaseSame
    <3> QED
      BY <3>1, <3>2, ReleaseRely, ChainedKept
  <2>2. CASE ~(Installed(a)' /\ Installed(b)' /\ a # b /\ desc[a].thread = desc[b].thread)
    BY <2>2 DEF Chained, Release
  <2> QED
    BY <2>1, <2>2
<1> QED
  BY <1>1 DEF ChainOrdered

\* Releasing a lock keeps what is true of the heap,
LEMMA ReleaseHeap ==
  ASSUME InvA, NEW l \in Locks, NEW d \in Descriptors, Release(l, d), desc[d].done
  PROVE  HeapOK'
<1>1. LckOnly
  BY DEF Release, LckOnly
<1>2. LocksOK'
  <2>1. ASSUME NEW m \in Locks
        PROVE  /\ lck'[m] \in Nat => lck'[m] > 0
               /\ lck'[m] \in Descriptors => desc[lck'[m]].lock = m /\ status[lck'[m]] = "live"
    <3>1. CASE m = l
      <4>1. lck'[m] = desc[d].counter + 1 /\ desc[d].counter \in Nat
        BY <3>1, ReleaseSame
      <4> QED
        BY <4>1, Consts
    <3>2. CASE m # l
      <4>1. lck'[m] = lck[m]
        BY <3>2, ReleaseSame
      <4> QED
        BY <4>1 DEF InvA, HeapOK, LocksOK
    <3> QED
      BY <3>1, <3>2
  <2> QED
    BY <1>1, <2>1 DEF LocksOK, LckOnly
<1>3. ASSUME NEW e \in Descriptors, Held(e)' PROVE desc[e].counter > 0
  BY <1>3, ReleaseSame DEF InvA, HeapOK, CountersOK
<1> QED
  BY <1>1, <1>2, <1>3, ReleaseRely, ReleaseChain, LckHeap

\* The outermost section of a thread whose lock is taken.
LEMMA RootHere ==
  ASSUME InvA, NEW e \in Descriptors, Installed(e)
  PROVE  \E u \in Threads : \E r \in Descriptors :
           /\ u = desc[e].thread /\ stack[u] # <<>> /\ Sharing(stack[u][1]) /\ stack[u][1].d = r
           /\ r = stack[desc[e].thread][1].d
           /\ Installed(r) /\ desc[r].thread = u /\ (e = r \/ Size(e) < Size(r))
<1>1. PICK r : r = stack[desc[e].thread][1].d
  OBVIOUS
<1>2. RootIs(e, desc[e].thread, r)
  BY <1>1 DEF InvA, OwnersOK, RootOK
<1>3. PICK u \in Threads : u = desc[e].thread /\ stack[u] # <<>> /\ Sharing(stack[u][1]) /\ stack[u][1].d = r
  BY <1>2 DEF RootIs
<1>4. 1 \in Depth(u) /\ Sec(u, 1) = None
  BY <1>3, HeightType DEF Depth, InvA, StackOK, SectionsNest
<1>5. FrameDesc(u, stack[u][1], None)
  BY <1>4, FrameFacts DEF FrameOK
<1>6. r \in Descriptors /\ desc[r].thread = u
  BY <1>3, <1>5 DEF FrameDesc, HasDesc, Sharing, IdIn
<1> QED
  BY <1>1, <1>2, <1>3, <1>6 DEF RootIs

\* and leaves the pools alone.
LEMMA ReleasePool ==
  ASSUME InvA, NEW l \in Locks, NEW d \in Descriptors, Release(l, d), desc[d].done, TypeOK'
  PROVE  PoolKept
<1>1. \A a, e \in Descriptors : HasChild(a, e)' => HasChild(a, e)
  BY ReleaseSame
<1>2. ASSUME NEW t \in Threads, NEW k \in Depth(t), stack[t][k].pc = "commit", NEW e, e = stack[t][k].d
      PROVE  ~Held(e)' /\ ~desc'[e].acquired
  <2>1. ~Held(e) /\ ~desc[e].acquired
    BY <1>2 DEF InvA, OwnersOK, Privacy
  <2>2. e \in Descriptors
    <3>1. FrameDesc(t, stack[t][k], Sec(t, k))
      BY <1>2, FrameFacts DEF FrameOK
    <3> QED
      BY <1>2, <3>1 DEF FrameDesc, HasDesc, Early, Storing
  <2>3. Held(e)' <=> Held(e)
    BY <2>2, ReleaseSame
  <2> QED
    BY <2>1, <2>2, <2>3 DEF Release
<1>3. ASSUME DescsKept PROVE RootOK'
  <2>1. ASSUME NEW e \in Descriptors, Installed(e)' PROVE RootIs(e, desc[e].thread, stack[desc[e].thread][1].d)'
    <3>1. Installed(e) /\ e # d /\ Installed(d)
      BY <2>1, ReleaseSame
    <3>2. PICK u \in Threads, r \in Descriptors :
             /\ u = desc[e].thread /\ r = stack[desc[e].thread][1].d
             /\ Installed(r) /\ desc[r].thread = u /\ (e = r \/ Size(e) < Size(r))
      BY <3>1, RootHere
    <3>3. r # d
      BY <3>1, <3>2, DoneLast
    <3>4. Installed(r)'
      BY <3>2, <3>3, ReleaseSame
    <3> QED
      BY <1>3, <3>1, <3>2, <3>4, ReleaseRely, RootKept
  <2> QED
    BY <2>1 DEF RootOK
<1> QED
  BY <1>1, <1>2, <1>3 DEF PoolKept, Release

\* It keeps the types.
LEMMA ReleaseTypes ==
  ASSUME InvA, NEW l \in Locks, NEW d \in Descriptors, Release(l, d), desc[d].done,
         x' = x, calls' = calls, stores' = stores, made' = made,
         stack' \in [Threads -> Seq(Frames)], lg' = lg,
         id' \in [Threads -> Threads], helping' \in [Threads -> BOOLEAN]
  PROVE  TypeOK'
BY ReleaseSame DEF InvA, TypeOK, Release

\* A call goes on after it has cleared the lock.
LEMMA ReleaseGo ==
  ASSUME InvA, NEW t \in Threads, NEW w, NEW h, NEW f, NEW s, NEW n, Here(t, w, h, f, s, n),
         NEW l \in Locks, NEW d \in Descriptors, Release(l, d), desc[d].done,
         NEW g \in Frames, Continue(t, g),
         x' = x, calls' = calls, stores' = stores, made' = made, lg' = lg,
         id' \in [Threads -> Threads], helping' \in [Threads -> BOOLEAN],
         \A u \in Threads \ {t} : id'[u] = id[u] /\ helping'[u] = helping[u],
         f.pc \notin Extending \cup Calling \cup {"acquire", "recheck"}, Moves(f, g),
         g.pc \in {"again", "result"}, g.pc = "again" => prog.with,
         id'[t] = IdIn(t, s),
         NewFrame(t, f, s, n)' => FrameCur(t, g, s)' /\ FrameCount(g)'
  PROVE  InvA'
<1>1. /\ stack[t] # <<>> /\ h = Height(t) /\ f = stack[t][h] /\ s = Sec(t, h) /\ n = Pos(t, h) /\ h \in Depth(t)
      /\ f.pc = w /\ f \in Frames /\ TypeOK
      /\ FrameShape(t, f, s, n) /\ FrameCur(t, f, s) /\ FrameDesc(t, f, s)
  BY DEF Here, InvA
<1>2. Conts(t, g) /\ stack' \in [Threads -> Seq(Frames)]
  BY <1>1, ContIs
<1>3. TypeOK'
  BY <1>1, <1>2, ReleaseTypes
<1>4. Rely({}) /\ HeapOK' /\ PoolKept /\ GivesBack(t)
  BY <1>3, ReleaseRely, ReleaseHeap, ReleasePool, SameGives DEF Release
<1>5. /\ \A z : z = lg'[t] /\ z.d # None => BlockOK(z)'
      /\ lg'[t].d = s /\ lg'[t].n = n /\ ~lg'[t].new
      /\ lg'[t].d = None => lg'[t] = EmptyLog
  <2>1. f.pc \notin {"ran", "helped"} /\ f.pc # "reentered"
    BY DEF Calling
  <2> QED
    BY <1>1, <1>3, <1>4, <2>1, LgSame
<1>6. Alone(t)
  BY <1>5 DEF Alone
<1>7. FrameShape(t, f, s, n)' /\ FrameCur(t, f, s)' /\ FrameDesc(t, f, s)' /\ FrameCount(f)'
  <2>1. ChildrenOK' /\ LocksOK'
    BY <1>4 DEF HeapOK
  <2> QED
    BY <1>1, <1>3, <1>4, <2>1, FrameKept
<1>8. FrameCur(t, g, s)' /\ FrameCount(g)'
  BY <1>3, <1>7 DEF NewFrame
<1>9. id'[t] = TopId(t, g)'
  <2>1. TopId(t, g)' = IdIn(t, s)'
    BY <1>5 DEF TopId, Inherited
  <2>2. IdIn(t, s)' = IdIn(t, s)
    BY DEF IdIn, Release
  <2> QED
    BY <2>1, <2>2
<1>10. s # None /\ g.le = 0 =>
           /\ g.pc = "recheck" => (desc[g.d].acquired \/ IsDone(ChildAt(s, Level(g, s))))'
           /\ g.pc \notin {"acquire", "recheck"} => Safe(g.d)'
  <2>1. f.pc \notin {"acquire", "recheck"} /\ g.pc # "recheck"
    OBVIOUS
  <2> QED
    BY <1>7, <2>1, MoveSafe
<1>11. /\ s # None \/ g.pc \notin {"acquire", "recheck"}
       /\ f.pc \in {"acquire", "recheck"} \/ g.pc \notin {"acquire", "recheck"}
       /\ g.pc \notin Calling /\ g.pc # "retire"
       /\ g.pc \in WithOnly => prog.with
       /\ g.pc \in TryOnly => ~prog.with
  BY DEF Calling, WithOnly, TryOnly
<1>12. StackOK' /\ OwnersOK'
  BY <1>1, <1>2, <1>3, <1>4, <1>5, <1>6, <1>8, <1>9, <1>10, <1>11, MoveStep
<1> QED
  BY <1>3, <1>4, <1>12 DEF InvA

\* Clearing does nothing when the descriptor is no longer in the lock.
LEMMA ClearIs ==
  ASSUME InvA, NEW l \in Locks, NEW d \in Descriptors, desc[d].lock = l, desc[d].done, Clear(l, d),
         UNCHANGED <<desc, log, ext, poolVars, prog, callOf>>
  PROVE  \/ Release(l, d)
         \/ lck' = lck /\ Over(d)
<1>1. CASE lck[l] = d
  BY <1>1 DEF Clear, Release, poolVars
<1>2. CASE lck[l] # d
  <2>1. ~Installed(d)
    BY <1>2 DEF Installed, InvA, HeapOK, LocksOK
  <2> QED
    BY <1>2, <2>1 DEF Clear, Over
<1> QED
  BY <1>1, <1>2

\* TryClear keeps the invariant.
LEMMA TryClearOK ==
  ASSUME InvA, NEW t \in Threads, TryClear(t)
  PROVE  InvA'
<1>1. PICK h, f, s, n : Here(t, "clear", h, f, s, n)
  BY HereIs DEF TryClear
<1>2. /\ f = Top(t) /\ f.pc = "clear" /\ f \in Frames /\ f = stack[t][h] /\ h \in Depth(t) /\ TypeOK
      /\ h = Height(t) /\ stack[t] # <<>> /\ s = Sec(t, h) /\ n = Pos(t, h)
      /\ FrameShape(t, f, s, n) /\ FrameCur(t, f, s) /\ FrameDesc(t, f, s) /\ FrameCount(f)
  BY <1>1 DEF Here, InvA
<1>3. PICK l : l = f.lock
  OBVIOUS
<1>4. PICK d : d = f.d
  OBVIOUS
<1>5. Sharing(f) /\ f.pc \notin Inherited
  BY <1>2 DEF Sharing, Early, Storing, Inherited
<1>6. l \in Locks /\ d \in Descriptors /\ desc[d].lock = l /\ desc[d].done
  BY <1>2, <1>3, <1>4, <1>5, FrameType, HasD DEF FrameCount, Storing
<1>7. UNCHANGED <<x, desc, log, ext, poolVars, localVars, histVars>> /\ Clear(l, d)
  BY <1>2, <1>3, <1>4 DEF TryClear
<1>8. PICK g : g = [f EXCEPT !.pc = "result"]
  OBVIOUS
<1>9. g \in Frames /\ g.pc = "result" /\ Alike(f, g) /\ g.cur = f.cur
  BY <1>2, <1>8, PcNames DEF Frames, Alike
<1>10. Continue(t, g)
  BY <1>2, <1>8 DEF TryClear, Goto
<1>11. Moves(f, g)
  BY <1>2, <1>9 DEF Moves, Alike, Sharing, Early, Storing
<1>12. Release(l, d) \/ (lck' = lck /\ Over(d))
  BY <1>6, <1>7, ClearIs DEF histVars
<1>13. CASE Release(l, d)
  <2>1. Over(d)'
    BY <1>6, <1>13, ReleaseSame
  <2>2. ASSUME NewFrame(t, f, s, n)' PROVE FrameCur(t, g, s)' /\ FrameCount(g)'
    BY <1>2, <1>4, <1>9, <2>1, <2>2 DEF NewFrame, FrameCur, FrameCount, Alike, HelpIn, Inherited, Storing, HasDesc, Early
  <2>3. id[t] = IdIn(t, s)
    BY <1>2, <1>5, IdHere
  <2>4. x' = x /\ calls' = calls /\ stores' = stores /\ made' = made /\ lg' = lg /\ id' = id /\ helping' = helping
    BY <1>7 DEF localVars, histVars
  <2>5. id' \in [Threads -> Threads] /\ helping' \in [Threads -> BOOLEAN] /\ id'[t] = IdIn(t, s)
    BY <1>2, <2>3, <2>4 DEF TypeOK
  <2>6. f.pc \notin Extending \cup Calling \cup {"acquire", "recheck"}
    BY <1>2 DEF Extending, Calling
  <2> QED
    BY <1>1, <1>6, <1>9, <1>10, <1>11, <1>13, <2>2, <2>4, <2>5, <2>6, ReleaseGo
<1>14. CASE lck' = lck /\ Over(d)
  <2>1. UNCHANGED <<heapVars, poolVars, localVars, histVars>>
    BY <1>7, <1>14 DEF heapVars
  <2>2. FrameCur(t, g, s) /\ FrameCount(g)
    BY <1>2, <1>4, <1>9, <1>14 DEF FrameCur, FrameCount, Alike, HelpIn, Inherited, Storing, HasDesc, Early
  <2>3. /\ f.pc \notin Calling \cup Inherited \cup {"acquire", "recheck"}
        /\ g.pc \notin Calling \cup Inherited \cup {"acquire", "recheck", "retire"} \cup WithOnly \cup TryOnly
    BY <1>2, <1>9 DEF Calling, Inherited, WithOnly, TryOnly
  <2> QED
    BY <1>1, <1>9, <1>10, <1>11, <2>1, <2>2, <2>3, PlainGo
<1> QED
  BY <1>12, <1>13, <1>14

\* HelpClear keeps the invariant.
LEMMA HelpClearOK ==
  ASSUME InvA, NEW t \in Threads, HelpClear(t)
  PROVE  InvA'
<1>1. PICK h, f, s, n : Here(t, "help_clear", h, f, s, n)
  BY HereIs DEF HelpClear
<1>2. /\ f = Top(t) /\ f.pc = "help_clear" /\ f \in Frames /\ f = stack[t][h] /\ h \in Depth(t) /\ TypeOK
      /\ h = Height(t) /\ stack[t] # <<>> /\ s = Sec(t, h) /\ n = Pos(t, h)
      /\ FrameShape(t, f, s, n) /\ FrameCur(t, f, s) /\ FrameDesc(t, f, s) /\ FrameCount(f)
  BY <1>1 DEF Here, InvA
<1>3. f.pc \in HelpIn /\ f.pc \in Inherited /\ f.pc \notin Storing /\ f.pc \notin Calling \cup {"acquire", "recheck"} \cup Extending
  BY <1>2 DEF HelpIn, Inherited, Storing, Calling, Extending
<1>4. PICK l : l = f.lock
  OBVIOUS
<1>5. PICK d : d = f.cur
  OBVIOUS
<1>6. l \in Locks /\ d \in Descriptors /\ desc[d].done /\ f.id = IdIn(t, s) /\ f.id \in Threads
  <2>1. l \in Locks
    BY <1>2, <1>4, FrameType
  <2>2. d \in Descriptors /\ desc[d].done /\ f.id = IdIn(t, s)
    BY <1>2, <1>3, <1>5 DEF FrameCur
  <2> QED
    BY <1>1, <2>1, <2>2, IdTyped
<1>7. /\ StopHelping(t, f) /\ Clear(l, d) /\ UNCHANGED <<x, desc, log, ext, poolVars, lg, histVars>>
  BY <1>2, <1>4, <1>5 DEF HelpClear
<1>8. PICK p : p = AfterHelp
  OBVIOUS
<1>9. PICK g : g = [f EXCEPT !.res = FALSE, !.id = None, !.pc = p]
  OBVIOUS
<1>10. p \in Pcs
  BY <1>8, PcNames DEF AfterHelp
<1>11. g \in Frames /\ g.pc = p /\ Alike(f, g) /\ g.cur = f.cur
  BY <1>2, <1>9, <1>10 DEF Frames, Alike
<1>12. Continue(t, g)
  BY <1>7, <1>8, <1>9 DEF StopHelping
<1>13. /\ calls' = calls /\ x' = x /\ stores' = stores /\ made' = made /\ lg' = lg
       /\ helping' = [helping EXCEPT ![t] = FALSE] /\ id' = [id EXCEPT ![t] = f.id]
  BY <1>7 DEF StopHelping, histVars
<1>14. /\ id' \in [Threads -> Threads] /\ helping' \in [Threads -> BOOLEAN] /\ id'[t] = IdIn(t, s)
       /\ \A u \in Threads \ {t} : id'[u] = id[u] /\ helping'[u] = helping[u]
  BY <1>2, <1>6, <1>13 DEF TypeOK
<1>15. /\ FrameCur(t, g, s) /\ FrameCount(g) /\ Moves(f, g)
       /\ g.pc \in WithOnly => prog.with
       /\ g.pc \in {"again", "result"}
  BY <1>2, <1>3, <1>8, <1>11, AfterHelpOK
<1>16. CASE Release(l, d)
  <2>1. Rely({}) /\ prog' = prog
    BY <1>6, <1>16, ReleaseRely DEF Release
  <2>2. g.pc = "again" => prog.with
    BY <1>15 DEF WithOnly
  <2>3. ASSUME NewFrame(t, f, s, n)' PROVE FrameCur(t, g, s)' /\ FrameCount(g)'
    <3>1. g.pc = "result" => Over(f.d)'
      <4>1. g.pc = "result" => Over(f.d) /\ f.d \in Descriptors
        BY <1>2, <1>15, HasD DEF FrameCount, Storing, Alike, Moves
      <4> QED
        BY <2>1, <4>1 DEF Rely, DescKept
    <3>2. FrameCur(t, g, s)'
      BY <1>3, <1>11, <1>15, <2>3 DEF NewFrame, FrameCur, HelpIn, Inherited, Storing
    <3>3. f.cur \in Nat \cup Descriptors
      BY <1>5, <1>6
    <3>4. FrameCount(g)'
      <4>1. HasDesc(f) /\ FrameCount(f)'
        BY <1>2, <2>3 DEF HasDesc, Early, Storing, NewFrame
      <4> QED
        BY <1>3, <1>11, <1>15, <3>1, <3>3, <4>1 DEF FrameCount, Alike
    <3> QED
      BY <3>2, <3>4
  <2> QED
    BY <1>1, <1>3, <1>6, <1>11, <1>12, <1>13, <1>14, <1>15, <1>16, <2>2, <2>3, ReleaseGo
<1>17. CASE ~Release(l, d)
  <2>1. lck' = lck
    BY <1>7, <1>17 DEF Clear, Release, poolVars, histVars
  <2>2. Quiet(t)
    BY <1>7, <1>13, <1>14, <2>1 DEF Quiet, HeapSame, poolVars, histVars
  <2>3. g.pc \notin Calling \cup Inherited \cup {"acquire", "recheck", "retire"} \cup TryOnly
    BY <1>15 DEF Calling, Inherited, TryOnly
  <2>4. id'[t] = TopId(t, g)'
    <3>1. lg'[t].d = s
      BY <1>2, <1>3, <1>13, TopIn
    <3>2. TopId(t, g)' = IdIn(t, s)'
      BY <2>3, <3>1 DEF TopId
    <3>3. IdIn(t, s)' = IdIn(t, s)
      BY <2>2 DEF IdIn, HeapSame, Quiet
    <3> QED
      BY <1>14, <3>2, <3>3
  <2> QED
    BY <1>1, <1>3, <1>11, <1>12, <1>13, <1>15, <2>2, <2>3, <2>4, SameGo
<1> QED
  BY <1>16, <1>17

\* What the run that wins the commit of its descriptor knows.
LEMMA CommitReady ==
  ASSUME InvA, NEW t \in Threads, NEW h, NEW f, NEW s, NEW n, Here(t, "commit", h, f, s, n)
  PROVE  /\ s \in Descriptors /\ f.d \in Descriptors /\ Owner(t, h) /\ status[f.d] = "live"
         /\ f.le = 0 /\ ~Held(f.d) /\ f.cur # f.d
         /\ n = Level(f, s) + Off /\ Forks(s, Level(f, s))
<1>1. /\ f.pc = "commit" /\ f \in Frames /\ f = stack[t][h] /\ h \in Depth(t) /\ s = Sec(t, h) /\ TypeOK
      /\ FrameShape(t, f, s, n) /\ FrameCur(t, f, s) /\ FrameDesc(t, f, s) /\ s \in Descriptors \cup {None}
  BY DEF Here, InvA
<1>2. s \in Descriptors
  BY <1>1 DEF FrameShape, OutsideShape, Storing
<1>3. Owner(t, h) /\ HasDesc(f) /\ f.d \in Descriptors
  BY <1>1 DEF Owner, HasDesc, Early, Storing, FrameDesc
<1>4. status[f.d] = "live" /\ ~Held(f.d)
  BY <1>1, <1>3 DEF InvA, OwnersOK, OwnersLive, Privacy
<1>5. InsideShape(f, s, n, Level(f, s)) /\ Forks(s, Level(f, s))
  BY <1>1, <1>2, ForksHere DEF Storing
<1>6. f.le = 0 /\ n = Level(f, s) + Off
  BY <1>1, <1>5 DEF InsideShape, Sharing
<1>7. f.cur # f.d
  <2>1. ~prog.reuse
    BY <1>1, <1>2, Consts, ReuseOutside DEF Storing
  <2> QED
    BY <1>1, <1>3, <1>4, <2>1 DEF FrameCur, Storing, Known
<1> QED
  BY <1>2, <1>3, <1>4, <1>5, <1>6, <1>7

\* Committing a descriptor is a commit that the invariant allows.
LEMMA CommitFill ==
  ASSUME InvA, NEW t \in Threads, NEW h, NEW f, NEW s, NEW n, Here(t, "commit", h, f, s, n),
         NEW j \in 1 .. LogLen, j = n + 1, Fill(s, j, Word(f.d)), (j - 1) \div BlockLen <= ext[s]
  PROVE  FillOK(s, j, Word(f.d))
<1>1. /\ f.pc = "commit" /\ f \in Frames /\ f = stack[t][h] /\ h \in Depth(t) /\ s = Sec(t, h) /\ TypeOK /\ PathsFit
      /\ FrameShape(t, f, s, n) /\ FrameCur(t, f, s) /\ FrameDesc(t, f, s)
  BY DEF Here, InvA, HeapOK
<1>2. PICK i : i = Level(f, s)
  OBVIOUS
<1>3. PICK d : d = f.d
  OBVIOUS
<1>4. /\ s \in Descriptors /\ d \in Descriptors /\ status[d] = "live" /\ n = i + Off /\ Forks(s, i)
  BY <1>2, <1>3, CommitReady
<1>5. /\ InsideShape(f, s, n, i) /\ i \in Levels(s) /\ i \in Nat /\ i + 1 \in 1 .. LogLen /\ i + 2 \in 1 .. LogLen
      /\ f.lock = desc[s].path[i + 1] /\ Len(f.path) = Size(s) - i - 1 /\ OwnUpTo(s, i)
      /\ IsRest(f.path, desc[s].path) /\ status[s] # "fresh"
  <2>1. s # None /\ f.pc \notin Storing
    BY <1>1, <1>4, Consts DEF Storing
  <2> QED
    BY <1>2, <2>1, PlaceHere
<1>6. j = i + 1 + Off /\ Off \in {0, 1} /\ (prog.with => Off = 0) /\ (~prog.with => Off = 1)
  BY <1>1, <1>4, <1>5, ProgType
<1>7. Word(d) \in Entries /\ Word(d) # Unset /\ ~IsDone(Word(d)) /\ Word(d)[2] = d /\ d \notin Nat
  BY <1>4, EntryFacts, EntryTypes, Consts
<1>8. ~prog.with => log[s][i + 1] # Unset /\ ~Own(s, i + 1)
  BY <1>4 DEF Forks
<1>9. ASSUME NEW k \in 1 .. LogLen, k < j PROVE log[s][k] # Unset
  <2>1. k \in 1 .. i \/ (~prog.with /\ k = i + 1)
    BY <1>5, <1>6, <1>9
  <2> QED
    BY <1>5, <1>8, <2>1, OwnedSet
<1>10. ~(~prog.with /\ j - 1 \in Levels(s) /\ OwnUpTo(s, j - 1))
  <2>1. ASSUME ~prog.with, OwnUpTo(s, j - 1) PROVE FALSE
    <3>1. j - 1 = i + 1 /\ i + 1 \in 1 .. i + 1
      BY <1>5, <1>6, <2>1
    <3>2. Own(s, i + 1)
      BY <2>1, <3>1 DEF OwnUpTo
    <3> QED
      BY <1>8, <2>1, <3>2
  <2> QED
    BY <2>1
<1>11. ChildOK(s, i, d)
  <2>1. HasDesc(f)
    BY <1>1 DEF HasDesc, Early, Storing
  <2>2. /\ desc[d].lock = f.lock /\ Size(d) = Len(f.path) /\ IsRest(desc[d].path, desc[s].path)
        /\ desc[d].thread = desc[s].thread /\ callOf[d] = callOf[s]
        /\ ~prog.with => desc[d].counter = CounterOf(f)
    BY <1>1, <1>3, <1>4, <2>1, Consts DEF FrameDesc, PathIn, IdIn, NumberIn
  <2>3. ASSUME ~prog.with PROVE log[s][i + 1][2] = f.cur
    BY <1>1, <1>5, <2>3, EntryFacts DEF InsideShape
  <2> QED
    BY <1>4, <1>5, <2>2, <2>3 DEF ChildOK, CounterOf, IsLocked
<1>12. \A q \in Levels(s) : Forks(s, q) /\ j = q + 1 + Off => ChildOK(s, q, d)
  BY <1>1, <1>4, <1>11, OneFork
<1>13. ~Base(s)
  BY <1>1, <1>4, <1>5, BaseNoFork
<1> QED
  BY <1>3, <1>4, <1>5, <1>7, <1>9, <1>10, <1>12, <1>13 DEF FillOK

\* Afterwards the run owns a descriptor that is in the log of the section.
LEMMA CommitOwners ==
  ASSUME InvA, NEW t \in Threads, NEW h, NEW f, NEW s, NEW n, Here(t, "commit", h, f, s, n),
         NEW j \in 1 .. LogLen, Fill(s, j, Word(f.d)), Rely({}), TypeOK',
         NEW g, stack'[t][h] = g, g.d = f.d, g.le = j, Sharing(g), g.pc # "retire", Sec(t, h)' = s,
         \A u \in Threads : Depth(u)' = Depth(u),
         \A u \in Threads : \A k \in Depth(u) : u # t \/ k < h =>
              /\ stack'[u][k] = stack[u][k]
              /\ Sec(u, k)' = Sec(u, k) /\ (Owner(u, k)' <=> Owner(u, k)),
         \A k \in Depth(t) : k < h \/ k = h
  PROVE  OwnersOK'
<1>1. /\ f = stack[t][h] /\ h \in Depth(t) /\ s = Sec(t, h) /\ f.pc = "commit"
      /\ s \in Descriptors /\ f.d \in Descriptors /\ Owner(t, h) /\ f.le = 0
  <2>1. f = stack[t][h] /\ h \in Depth(t) /\ s = Sec(t, h) /\ f.pc = "commit"
    BY DEF Here
  <2> QED
    BY <2>1, CommitReady
<1>2. OwnersLive /\ OwnersUnique /\ OwnerLinks /\ Privacy /\ RetireDone /\ LiveOwned /\ RootOK
  BY DEF InvA, OwnersOK
<1>3. status' = status /\ desc' = desc /\ lck' = lck
  BY DEF Fill
<1>4. Owner(t, h)' /\ HasDesc(f) /\ HasDesc(g) /\ g.pc # "commit" /\ j # 0
  BY <1>1 DEF Owner, HasDesc, Sharing, Early, Storing
<1>5. ASSUME NEW u \in Threads, NEW k \in Depth(u)
      PROVE  /\ Sec(u, k)' = Sec(u, k) /\ (Owner(u, k)' <=> Owner(u, k))
             /\ stack'[u][k].d = stack[u][k].d
             /\ HasDesc(stack'[u][k]) <=> HasDesc(stack[u][k])
             /\ stack'[u][k] = stack[u][k] \/ (u = t /\ k = h)
  BY <1>1, <1>4, <1>5
<1>6. OwnersLive'
  BY <1>2, <1>3, <1>5 DEF OwnersLive
<1>7. OwnersUnique'
  <2>1. ASSUME NEW u \in Threads, NEW v \in Threads, NEW k \in Depth(u), NEW m \in Depth(v),
               Owner(u, k)', Owner(v, m)', stack'[u][k].d = stack'[v][m].d
        PROVE  u = v /\ k = m
    BY <1>2, <1>5, <2>1 DEF OwnersUnique
  <2> QED
    BY <2>1 DEF OwnersUnique
<1>8. OwnerLinks'
  <2>2. ASSUME NEW u \in Threads, NEW k \in Depth(u) PROVE stack'[u][k].d = stack[u][k].d
    BY <1>5
  <2>3. ASSUME NEW u \in Threads, NEW k \in Depth(u)', Owner(u, k)', NEW e \in Descriptors,
               NEW y, y = stack'[u][k].d, HasChild(e, y)'
        PROVE  stack'[u][k].le # 0 /\ e = Sec(u, k)'
    <3>1. k \in Depth(u)
      BY <2>3
    <3>2. y = stack[u][k].d
      BY <2>2, <2>3, <3>1
    <3>3. PICK z : z = stack[u][k].d
      OBVIOUS
    <3>4. HasChild(e, z)' /\ z = stack'[u][k].d
      BY <2>2, <2>3, <3>1, <3>2, <3>3
    <3>5. HasChild(e, z) \/ (e = s /\ Word(f.d) = Word(z))
      BY <1>1, <3>4, FillChild
    <3>6. Owner(u, k)
      BY <1>5, <2>3, <3>1
    <3>7. CASE HasChild(e, z)
      <4>1. stack[u][k].le # 0 /\ e = Sec(u, k)
        BY <1>2, <3>1, <3>3, <3>6, <3>7 DEF OwnerLinks
      <4>2. ~(u = t /\ k = h)
        BY <1>1, <4>1
      <4> QED
        BY <1>5, <3>1, <4>1, <4>2
    <3>8. CASE e = s /\ Word(f.d) = Word(z)
      <4>1. z = f.d
        BY <3>8, EntryFacts
      <4>2. u = t /\ k = h
        <5>1. stack[t][h].d = stack[u][k].d /\ Owner(t, h) /\ Owner(u, k) /\ h \in Depth(t) /\ k \in Depth(u)
          BY <1>1, <3>1, <3>3, <3>6, <4>1
        <5> QED
          BY <1>2, <5>1 DEF OwnersUnique
      <4> QED
        BY <1>4, <3>8, <4>2
    <3> QED
      BY <3>5, <3>7, <3>8
  <2> QED
    BY <2>3 DEF OwnerLinks
<1>9. Privacy'
  <2>1. ASSUME NEW u \in Threads, NEW k \in Depth(u), stack'[u][k].pc = "commit", NEW y, y = stack'[u][k].d
        PROVE  /\ ~Held(y)' /\ ~desc'[y].acquired
               /\ \A v \in Threads : \A m \in Depth(v) :
                    HasDesc(stack'[v][m]) /\ stack'[v][m].d = y => v = u /\ m = k
    <3>1. stack'[u][k] = stack[u][k]
      BY <1>4, <1>5, <2>1
    <3>2. stack[u][k].pc = "commit" /\ y = stack[u][k].d
      BY <2>1, <3>1
    <3>3. ~Held(y) /\ ~desc[y].acquired
      BY <1>2, <3>2 DEF Privacy
    <3>4. ~Held(y)'
      BY <1>3, <3>3 DEF Held, Installed
    <3>5. \A v \in Threads : \A m \in Depth(v) : HasDesc(stack[v][m]) /\ stack[v][m].d = y => v = u /\ m = k
      BY <1>2, <3>2 DEF Privacy
    <3> QED
      BY <1>3, <1>5, <3>3, <3>4, <3>5
  <2>2. ASSUME NEW u \in Threads, NEW k \in Depth(u)', stack'[u][k].pc = "commit", NEW y, y = stack'[u][k].d
        PROVE  /\ ~Held(y)' /\ ~desc'[y].acquired
               /\ \A v \in Threads : \A m \in Depth(v)' :
                    HasDesc(stack'[v][m]) /\ stack'[v][m].d = y => v = u /\ m = k
    BY <2>1, <2>2
  <2> QED
    BY <2>2 DEF Privacy, HasDesc, Early, Storing
<1>10. RetireDone'
  <2>1. ASSUME NEW u \in Threads, NEW k \in Depth(u), stack'[u][k].pc = "retire", NEW z, z = Sec(u, k)'
        PROVE  Owner(u, k)' /\ (z # None => ChildDone(z)')
    <3>1. stack'[u][k] = stack[u][k]
      BY <1>5, <2>1
    <3>2. Owner(u, k) /\ (Sec(u, k) # None => ChildDone(Sec(u, k)))
      BY <1>2, <2>1, <3>1 DEF RetireDone
    <3>3. z = Sec(u, k)
      BY <1>5, <2>1
    <3>4. z # None => z \in Descriptors /\ ChildDone(z)
      BY <3>2, <3>3, FrameFacts
    <3>5. z # None => ChildDone(z)'
      BY <3>4, ChildDoneKept
    <3> QED
      BY <1>5, <3>2, <3>5
  <2> QED
    BY <2>1 DEF RetireDone
<1>11. LiveOwned'
  <2>1. ASSUME NEW e \in Descriptors, status[e] = "live"
        PROVE  \E u \in Threads : \E k \in Depth(u) : Owner(u, k)' /\ stack'[u][k].d = e
    <3>1. PICK u \in Threads : \E k \in Depth(u) : Owner(u, k) /\ stack[u][k].d = e
      BY <1>2, <2>1 DEF LiveOwned
    <3>2. PICK k \in Depth(u) : Owner(u, k) /\ stack[u][k].d = e
      BY <3>1
    <3> QED
      BY <1>5, <3>2
  <2> QED
    BY <1>3, <2>1 DEF LiveOwned
<1>12. RootOK'
  <2>1. ASSUME NEW e \in Descriptors, Installed(e)' PROVE RootIs(e, desc[e].thread, stack[desc[e].thread][1].d)'
    <3>1. Installed(e)
      BY <1>3, <2>1 DEF Installed
    <3>2. PICK u \in Threads, r \in Descriptors :
             /\ u = desc[e].thread /\ stack[u] # <<>> /\ Sharing(stack[u][1]) /\ stack[u][1].d = r
             /\ Installed(r) /\ (e = r \/ Size(e) < Size(r))
      BY <3>1, RootHere
    <3>3. 1 \in Depth(u)
      BY <3>2, HeightType DEF Depth, InvA
    <3>4. ~(u = t /\ 1 = h)
      BY <1>1, <3>2 DEF Sharing
    <3>5. stack'[u][1] = stack[u][1]
      BY <1>5, <3>3, <3>4
    <3>6. stack'[u] # <<>>
      <4>1. 1 \in 1 .. Len(stack'[u])
        BY <3>3 DEF Depth, Height
      <4>2. Len(<<>>) = 0
        OBVIOUS
      <4> QED
        BY <4>1, <4>2
    <3>7. Installed(r)' /\ Size(e)' = Size(e) /\ Size(r)' = Size(r)
      BY <1>3, <3>2 DEF Installed, Size
    <3>8. RootIs(e, u, r)'
      <4>1. Sharing(stack'[u][1]) /\ stack'[u][1].d = r
        BY <3>2, <3>5
      <4> QED
        BY <3>2, <3>6, <3>7, <4>1 DEF RootIs, Sharing, Early, Storing
    <3> QED
      BY <1>3, <3>2, <3>5, <3>8
  <2> QED
    BY <2>1 DEF RootOK
<1> QED
  BY <1>6, <1>7, <1>8, <1>9, <1>10, <1>11, <1>12 DEF OwnersOK

\* The frame of the run that has won.
LEMMA CommittedFrame ==
  ASSUME InvA, NEW t \in Threads, NEW h, NEW f, NEW s, NEW n, Here(t, "commit", h, f, s, n),
         NEW j \in 1 .. LogLen, j = n + 1, Fill(s, j, Word(f.d)), TypeOK', HeapOK', Rely({}), calls' = calls,
         NEW g \in Frames, g.pc = Acquiring(f), g.lock = f.lock, g.path = f.path, g.d = f.d, g.le = j, g.cur = f.cur
  PROVE  NewFrame(t, g, s, j)' /\ Sharing(g) /\ g.pc \in {"count", "help", "cas"}
<1>1. /\ f.pc = "commit" /\ f \in Frames /\ f = stack[t][h] /\ h \in Depth(t) /\ s = Sec(t, h) /\ n = Pos(t, h) /\ TypeOK
      /\ FrameShape(t, f, s, n) /\ FrameCur(t, f, s) /\ FrameDesc(t, f, s) /\ FrameCount(f)
  BY DEF Here, InvA
<1>2. PICK i : i = Level(f, s)
  OBVIOUS
<1>3. PICK d : d = f.d
  OBVIOUS
<1>4. /\ s \in Descriptors /\ s # None /\ d \in Descriptors /\ n = i + Off /\ Forks(s, i) /\ ~Held(d) /\ f.cur # d
      /\ f.pc \notin Storing
  BY <1>1, <1>2, <1>3, CommitReady, Consts DEF Storing
<1>5. i \in Levels(s) /\ i \in Nat
  BY <1>2, <1>4, PlaceHere
<1>6. prog' = prog /\ Off' = Off /\ Level(f, s)' = i /\ Level(g, s)' = i
  BY <1>2 DEF Fill, Off, Level, Size
<1>7. f.cur \in Nat \cup Descriptors
  BY <1>1 DEF FrameCount, Storing
<1>8. /\ g.pc \in {"count", "help", "cas"} /\ (g.pc = "count" <=> prog.with)
      /\ g.pc = "help" => f.cur \in Descriptors
      /\ g.pc = "cas" => f.cur \in Nat
  BY <1>7 DEF Acquiring, IsLocked
<1>9. /\ Sharing(g) /\ HasDesc(g) /\ HasDesc(f) /\ g.pc \notin Inherited \cup Storing \cup Early
  BY <1>1, <1>8 DEF Sharing, HasDesc, Early, Storing, Inherited
<1>10. FrameShape(t, f, s, n)' /\ FrameCur(t, f, s)' /\ FrameDesc(t, f, s)' /\ FrameCount(f)'
  <2>1. ChildrenOK' /\ LocksOK'
    BY DEF HeapOK
  <2> QED
    BY <1>1, <2>1, FrameKept
<1>11. j = i + 1 + Off
  BY <1>1, <1>4, <1>5, ProgType
<1>12. ChildAt(s, i)' = Word(d)
  <2>1. log'[s][j] = Word(d)
    BY <1>1, <1>3, <1>4, FillEntries
  <2> QED
    BY <1>6, <1>11, <2>1 DEF ChildAt
<1>13. FrameShape(t, g, s, j)'
  <2>1. LockShape(t, f, s)' /\ InsideShape(f, s, n, i)'
    BY <1>1, <1>4, <1>6, <1>10 DEF FrameShape, Storing
  <2>2. LockShape(t, g, s)'
    BY <1>6, <1>8, <2>1 DEF LockShape, WithOnly, TryOnly
  <2>3. InsideShape(g, s, j, i)'
    BY <1>1, <1>3, <1>6, <1>8, <1>9, <1>11, <1>12, <2>1 DEF InsideShape
  <2> QED
    BY <1>4, <1>6, <1>9, <2>2, <2>3 DEF FrameShape
<1>14. FrameCur(t, g, s)'
  BY <1>1, <1>4, <1>8, <1>9, <1>10 DEF FrameCur, HelpIn, Storing
<1>15. FrameDesc(t, g, s)'
  <2>1. ~IsDone(ChildAt(s, i)')
    BY <1>12, EntryFacts
  <2>2. j # 0
    OBVIOUS
  <2>3. /\ HasDesc(g)
        /\ g.d \in Descriptors /\ status'[g.d] # "fresh"
        /\ desc'[g.d].lock = g.lock
        /\ Size(g.d)' = Len(g.path) /\ IsRest(desc'[g.d].path, PathIn(t, s)')
        /\ desc'[g.d].thread = IdIn(t, s)' /\ callOf'[g.d] = NumberIn(t, s)'
        /\ ~prog'.with => desc'[g.d].counter = CounterOf(g)
    BY <1>9, <1>10 DEF FrameDesc, CounterOf
  <2>4. ~IsDone(ChildAt(s, Level(g, s)))'
    <3>1. IsDone(ChildAt(s, Level(g, s)))' <=> IsDone(ChildAt(s, i)')
      BY <1>6 DEF ChildAt, IsDone
    <3> QED
      BY <2>1, <3>1
  <2> QED
    BY <2>2, <2>3, <2>4 DEF FrameDesc
<1>16. FrameCount(g)'
  <2>1. ~Held(d)'
    BY <1>4 DEF Held, Installed, Fill
  <2> QED
    BY <1>1, <1>3, <1>4, <1>8, <1>9, <1>10, <2>1 DEF FrameCount, Storing
<1> QED
  BY <1>8, <1>9, <1>13, <1>14, <1>15, <1>16 DEF NewFrame

\* TryCommit keeps the invariant when the descriptor is the first in the log.
LEMMA TryCommitWins ==
  ASSUME InvA, NEW t \in Threads, TryCommit(t), Entry(t) = Unset
  PROVE  InvA'
<1>1. PICK h, f, s, n : Here(t, "commit", h, f, s, n)
  BY HereIs DEF TryCommit
<1>2. /\ f = Top(t) /\ f.pc = "commit" /\ f \in Frames /\ f = stack[t][h] /\ h \in Depth(t) /\ TypeOK
      /\ h = Height(t) /\ stack[t] # <<>> /\ s = Sec(t, h) /\ n = Pos(t, h) /\ PathsFit
  BY <1>1 DEF Here, InvA, HeapOK
<1>3. /\ s \in Descriptors /\ s # None /\ f.d \in Descriptors /\ n = Level(f, s) + Off /\ f.pc \notin Storing
  BY <1>1, <1>2, CommitReady, Consts DEF Storing
<1>4. f.pc \notin {"ran", "helped"} /\ f.pc # "reentered" /\ f.pc \in Extending /\ f.pc \notin Inherited
  BY <1>2 DEF Extending, Inherited
<1>5. lg[t].d = s /\ lg[t].n = n
  BY <1>1, <1>4, LgHere
<1>6. PICK j : j = n + 1
  OBVIOUS
<1>7. j \in 1 .. LogLen
  <2>1. Level(f, s) + 1 + Off \in 1 .. LogLen /\ Level(f, s) \in Nat
    BY <1>1, <1>3, PlaceHere
  <2> QED
    BY <1>2, <1>3, <1>6, <2>1, ProgType
<1>8. PICK d : d = f.d
  OBVIOUS
<1>9. Commit(t, d) /\ UNCHANGED <<lck, x, desc, ext, id, helping, poolVars, histVars>>
  BY <1>2, <1>8 DEF TryCommit
<1>10. log[s][j] = Unset
  BY <1>5, <1>6 DEF Entry
<1>11. ~AtEnd(t) /\ NextLg(t) /\ log' = [log EXCEPT ![s][j] = Word(d)]
  BY <1>2, <1>3, <1>5, <1>6, <1>7, <1>9, <1>10, CommitIs
<1>12. Fill(s, j, Word(d))
  BY <1>9, <1>10, <1>11 DEF Fill, poolVars, histVars
<1>13. /\ lg' \in [Threads -> Log] /\ lg'[t].d = s /\ lg'[t].n = j /\ ~lg'[t].new
       /\ \A u \in Threads \ {t} : lg'[u] = lg[u]
       /\ \A y : y = lg'[t] => BlockOK(y)
       /\ (j - 1) \div BlockLen <= ext[s]
  BY <1>1, <1>3, <1>4, <1>6, <1>7, <1>11, LgNext
<1>14. FillOK(s, j, Word(d))
  BY <1>1, <1>6, <1>7, <1>8, <1>12, <1>13, CommitFill
<1>15. Rely({}) /\ HeapOK'
  BY <1>3, <1>7, <1>12, <1>14, FillRely, FillHeap
<1>16. PICK p : p = Acquiring(f)
  OBVIOUS
<1>17. PICK g : g = [f EXCEPT !.le = j, !.pc = p]
  OBVIOUS
<1>18. /\ g \in Frames /\ g.pc = p /\ g.lock = f.lock /\ g.path = f.path /\ g.d = f.d /\ g.le = j /\ g.cur = f.cur
  <2>1. p \in Pcs
    BY <1>16, PcNames DEF Acquiring
  <2>2. j \in 0 .. LogLen
    BY <1>7
  <2> QED
    BY <1>2, <1>17, <2>1, <2>2 DEF Frames
<1>19. Continue(t, g)
  BY <1>2, <1>5, <1>6, <1>16, <1>17 DEF TryCommit
<1>20. Conts(t, g) /\ stack' \in [Threads -> Seq(Frames)]
  BY <1>2, <1>18, <1>19, ContIs
<1>21. /\ x' = x /\ calls' = calls /\ stores' = stores /\ made' = made /\ id' = id /\ helping' = helping
       /\ prog' = prog /\ ext' = ext /\ status' = status
  BY <1>9 DEF histVars, poolVars
<1>22. TypeOK'
  <2>1. Word(d) \in Entries /\ stores' \in [Locks -> Nat]
    BY <1>2, <1>3, <1>8, <1>21, EntryTypes DEF TypeOK
  <2> QED
    BY <1>2, <1>3, <1>7, <1>12, <1>13, <1>20, <1>21, <2>1, FillTypes
<1>23. NewFrame(t, g, s, j)' /\ Sharing(g) /\ g.pc \in {"count", "help", "cas"}
  BY <1>1, <1>2, <1>6, <1>7, <1>8, <1>12, <1>15, <1>16, <1>18, <1>21, <1>22, CommittedFrame
<1>24. g.pc \notin Calling /\ g.pc \notin Inherited /\ g.pc # "retire"
  BY <1>23 DEF Calling, Inherited
<1>25. \A z : z = lg'[t] /\ z.d # None => BlockOK(z)'
  BY <1>13, <1>21 DEF BlockOK
<1>26. Alone(t) /\ GivesBack(t) /\ ChildrenOK' /\ LocksOK'
  BY <1>3, <1>13, <1>15, <1>21, SameGives DEF Alone, HeapOK
<1>27. id'[t] = TopId(t, g)'
  <2>1. IdIn(t, s)' = id[t] /\ TopId(t, g)' = id[t]
    BY <1>2, <1>4, <1>13, <1>15, <1>21, <1>24, IdStays
  <2> QED
    BY <1>21, <2>1
<1>28. StackOK'
  BY <1>2, <1>13, <1>15, <1>20, <1>22, <1>23, <1>24, <1>25, <1>26, <1>27, ContStack
<1>29. OwnersOK'
  <2>1. FrameShape(t, g, s, j)' /\ FrameCur(t, g, s)' /\ FrameDesc(t, g, s)' /\ FrameCount(g)'
    BY <1>23 DEF NewFrame
  <2>2. /\ \A u \in Threads : \A k \in Depth(u) : u # t \/ k < h =>
              /\ stack'[u][k] = stack[u][k]
              /\ Sec(u, k)' = Sec(u, k) /\ (Owner(u, k)' <=> Owner(u, k))
        /\ \A u \in Threads : Depth(u)' = Depth(u)
        /\ h \in Depth(t) /\ Sec(t, h)' = s /\ stack'[t][h] = g
    BY <1>2, <1>13, <1>15, <1>20, <1>22, <1>24, <1>26, <2>1, ContOK
  <2>3. \A k \in Depth(t) : k < h \/ k = h
    BY <1>2, TopIn
  <2> QED
    BY <1>1, <1>2, <1>7, <1>8, <1>12, <1>15, <1>18, <1>22, <1>23, <1>24, <2>2, <2>3, CommitOwners
<1> QED
  BY <1>15, <1>22, <1>28, <1>29 DEF InvA

\* The allocator hands out d, and it is constructed.
Makes(d) ==
  /\ status[d] = "fresh" \/ (status[d] = "freed" /\ prog.reuse)
  /\ \A e \in Descriptors \ {d} :
       /\ desc'[e] = desc[e] /\ log'[e] = log[e] /\ ext'[e] = ext[e]
       /\ status'[e] = status[e] /\ callOf'[e] = callOf[e]
  /\ status'[d] = "live" /\ ~desc'[d].done /\ desc'[d].acquired = desc[d].acquired
  /\ desc'[d].thread \in Threads /\ desc'[d].lock \in Locks
  /\ status[d] # "fresh" => desc'[d].thread = desc[d].thread
  /\ Len(desc'[d].path) + 2 <= LogLen /\ (prog.reuse => Len(desc'[d].path) = 0)
  /\ \A j \in 1 .. LogLen : log'[d][j] = Unset
  /\ lck' = lck /\ prog' = prog

\* What making a descriptor leaves alone.
LEMMA MakeSame ==
  ASSUME InvA, NEW d \in Descriptors, Makes(d)
  PROVE  /\ \A l \in Locks : lck[l] # d
         /\ ~Installed(d) /\ ~Installed(d)' /\ ~Held(d)'
         /\ \A e : Installed(e)' <=> Installed(e)
         /\ \A e \in Descriptors \ {d} : /\ Held(e)' <=> Held(e)
                                         /\ Size(e)' = Size(e) /\ Levels(e)' = Levels(e)
         /\ \A l \in Locks : \A c : AtMost(l, c)' <=> AtMost(l, c)
         /\ \A l \in Locks : \A c : Moved(l, c)' <=> Moved(l, c)
         /\ Off' = Off /\ Unset' = Unset /\ prog' = prog
         /\ \A e \in Descriptors : status[e] # "fresh" => status'[e] # "fresh" /\ desc'[e].thread = desc[e].thread
<1>1. status[d] # "live" /\ TypeOK /\ lck' = lck
  BY DEF Makes, InvA
<1>2. ~Installed(d)
  BY <1>1, InstalledLive
<1>3. \A l \in Locks : lck[l] # d
  BY <1>2 DEF Installed
<1>4. \A e : Installed(e)' <=> Installed(e)
  BY <1>1 DEF Installed
<1>5. ASSUME NEW e \in Descriptors, e # d
      PROVE  (Held(e)' <=> Held(e)) /\ Size(e)' = Size(e) /\ Levels(e)' = Levels(e)
  BY <1>4, <1>5 DEF Held, Size, Levels, Makes
<1>6. ASSUME NEW l \in Locks, NEW c
      PROVE  (AtMost(l, c)' <=> AtMost(l, c)) /\ (Moved(l, c)' <=> Moved(l, c))
  <2>1. lck[l] \in Descriptors => desc'[lck[l]] = desc[lck[l]]
    BY <1>3 DEF Makes
  <2> QED
    BY <1>1, <2>1 DEF AtMost, Moved
<1>7. Off' = Off /\ Unset' = Unset /\ prog' = prog
  BY DEF Off, Unset, Makes
<1>8. ~Held(d)'
  BY <1>2, <1>4 DEF Held, Makes
<1>9. \A e \in Descriptors : status[e] # "fresh" => status'[e] # "fresh" /\ desc'[e].thread = desc[e].thread
  BY DEF Makes
<1> QED
  BY <1>2, <1>3, <1>4, <1>5, <1>6, <1>7, <1>8, <1>9

\* Frames may rely on it, for all but that descriptor.
LEMMA MakeRely ==
  ASSUME InvA, TypeOK', NEW d \in Descriptors, Makes(d)
  PROVE  Rely({d})
<1>1. TypeOK
  BY DEF InvA
<1>2. ASSUME NEW e \in Descriptors \ {d} PROVE DescKept(e)
  <2>1. desc'[e] = desc[e] /\ log'[e] = log[e] /\ ext'[e] = ext[e] /\ callOf'[e] = callOf[e]
    BY DEF Makes
  <2>2. \A j : EntryKept(e, j)
    BY <2>1 DEF EntryKept
  <2>3. ext[e] <= ext'[e] /\ desc[e].counter <= desc'[e].counter
    BY <1>1, <2>1, DescType
  <2>4. \A m \in Locks : AtMost(m, desc[e].counter) => AtMost(m, desc[e].counter)'
    <3>1. PICK c : c = desc[e].counter
      OBVIOUS
    <3>2. ASSUME NEW m \in Locks, AtMost(m, c) PROVE AtMost(m, c)'
      BY <3>2, MakeSame
    <3>3. desc'[e].counter = c
      BY <2>1, <3>1
    <3>4. ASSUME NEW m \in Locks PROVE AtMost(m, desc[e].counter)' <=> AtMost(m, c)'
      BY <3>3 DEF AtMost
    <3> QED
      BY <3>1, <3>2, <3>4
  <2>5. (Held(e)' <=> Held(e)) /\ (Installed(e)' <=> Installed(e))
    BY MakeSame
  <2>6. Over(e) => Over(e)'
    <3>1. PICK m : m = desc[e].lock
      OBVIOUS
    <3>2. PICK c : c = desc[e].counter
      OBVIOUS
    <3>3. desc'[e].lock = m /\ desc'[e].counter = c /\ desc'[e].done = desc[e].done
      BY <2>1, <3>1, <3>2
    <3>4. Over(e)' <=> ~Installed(e)' /\ (desc'[e].done \/ (~prog'.with /\ Moved(m, c)'))
      BY <3>3 DEF Over, Moved
    <3>5. prog' = prog
      BY DEF Makes
    <3>6. CASE m \in Locks
      <4>1. Moved(m, c)' <=> Moved(m, c)
        BY <3>6, MakeSame
      <4> QED
        BY <2>5, <3>1, <3>2, <3>3, <3>4, <3>5, <4>1 DEF Over
    <3>7. CASE m \notin Locks
      <4>1. status[e] = "fresh" /\ desc[e] = NoDesc
        BY <3>1, <3>7, HasLock
      <4>2. m = None
        BY <3>1, <4>1 DEF NoDesc
      <4>3. lck'[m] = lck[m]
        BY DEF Makes
      <4>4. Moved(m, c) => Moved(m, c)'
        <5>1. c = 0
          BY <3>2, <4>1 DEF NoDesc
        <5>2. CASE lck[m] \in Descriptors
          <6>1. PICK y \in Descriptors : y = lck[m]
            BY <5>2
          <6>2. desc'[y].counter \in Nat
            BY DEF TypeOK
          <6> QED
            BY <4>3, <5>1, <6>1, <6>2 DEF Moved
        <5>3. CASE lck[m] \notin Descriptors
          BY <4>3, <5>3 DEF Moved
        <5> QED
          BY <5>2, <5>3
      <4> QED
        BY <2>5, <3>1, <3>2, <3>3, <3>4, <3>5, <4>3, <4>4 DEF Over, Moved, Makes
    <3> QED
      BY <3>6, <3>7
  <2> QED
    BY <2>1, <2>2, <2>3, <2>4, <2>5, <2>6 DEF DescKept
<1>3. ASSUME NEW e \in Descriptors PROVE StatusKept(e)
  BY DEF StatusKept, Safe, Makes
<1>4. \A m \in Locks : \A c \in Nat : LockKept(m, c)
  BY MakeSame DEF LockKept
<1> QED
  BY <1>2, <1>3, <1>4 DEF Rely, Makes

\* The logs of the other descriptors say the same as before.
LEMMA MakeLogs ==
  ASSUME InvA, TypeOK', NEW d \in Descriptors, Makes(d), NEW e \in Descriptors, e # d
  PROVE  /\ \A m \in 0 .. Size(e) : OwnUpTo(e, m)' <=> OwnUpTo(e, m)
         /\ \A i : Forks(e, i)' <=> Forks(e, i)
         /\ Base(e)' <=> Base(e)
         /\ \A i : ChildAt(e, i)' = ChildAt(e, i)
         /\ Value(e)' = Value(e) /\ Mark(e)' = Mark(e)
         /\ \A y : HasChild(e, y)' <=> HasChild(e, y)
<1>1. Rely({d}) /\ TypeOK /\ PathsFit
  BY MakeRely DEF InvA, HeapOK
<1>2. log'[e] = log[e] /\ Size(e)' = Size(e) /\ Levels(e)' = Levels(e) /\ Off' = Off /\ prog' = prog /\ Unset' = Unset
  BY MakeSame DEF Makes
<1>3. \A j \in 1 .. LogLen : Own(e, j)' <=> Own(e, j)
  BY <1>1, <1>2, ThreadKept
<1>4. \A m \in 0 .. Size(e) : m \in Nat /\ \A j \in 1 .. m : j \in 1 .. LogLen
  BY <1>1, FitsLog
<1>5. \A m \in 0 .. Size(e) : OwnUpTo(e, m)' <=> OwnUpTo(e, m)
  BY <1>3, <1>4 DEF OwnUpTo
<1>6. Size(e) \in Nat /\ \A i \in Levels(e) : i + 1 \in 1 .. LogLen /\ i \in 0 .. Size(e)
  BY <1>1, FitsLog, DescType DEF Levels
<1>7. \A i : Forks(e, i)' <=> Forks(e, i)
  BY <1>2, <1>3, <1>5, <1>6 DEF Forks
<1>8. Base(e)' <=> Base(e)
  <2>1. Size(e) \in 0 .. Size(e)
    BY <1>6
  <2>2. PICK m : m = Size(e)
    OBVIOUS
  <2>3. OwnUpTo(e, m)' <=> OwnUpTo(e, m)
    BY <1>5, <2>1, <2>2
  <2>4. OwnUpTo(e, Size(e))' <=> OwnUpTo(e, m)'
    BY <1>2, <2>2 DEF OwnUpTo
  <2> QED
    BY <1>2, <2>2, <2>3, <2>4 DEF Base
<1>9. \A i : ChildAt(e, i)' = ChildAt(e, i)
  BY <1>2 DEF ChildAt
<1>10. Value(e)' = Value(e) /\ Mark(e)' = Mark(e)
  BY <1>2 DEF Value, Mark
<1>11. \A y : HasChild(e, y)' <=> HasChild(e, y)
  BY <1>2, <1>7, <1>9 DEF HasChild, Word
<1> QED
  BY <1>5, <1>7, <1>8, <1>9, <1>10, <1>11

\* The log of the new one says nothing yet.
LEMMA MakeBlank ==
  ASSUME InvA, TypeOK', NEW d \in Descriptors, Makes(d)
  PROVE  /\ Size(d)' \in Nat /\ Size(d)' + 2 <= LogLen
         /\ \A i \in Levels(d)' : log'[d][i + 1] = Unset /\ ChildAt(d, i)' = Unset
         /\ Value(d)' = Unset /\ Mark(d)' = Unset
         /\ \A y : ~HasChild(d, y)'
<1>1. Size(d)' = Len(desc'[d].path) /\ Size(d)' \in Nat
  BY DEF TypeOK, Size
<1>2. Off' \in {0, 1} /\ LogLen \in Nat
  BY Consts DEF Off
<1>3. Size(d)' + 2 <= LogLen
  BY <1>1 DEF Makes
<1>4. ASSUME NEW i \in Levels(d)' PROVE log'[d][i + 1] = Unset /\ ChildAt(d, i)' = Unset
  <2>1. i + 1 \in 1 .. LogLen /\ i + 1 + Off' \in 1 .. LogLen
    <3>1. PICK z \in Nat : z = Size(d)'
      BY <1>1
    <3>2. PICK o \in {0, 1} : o = Off'
      BY <1>2
    <3>3. i \in 0 .. z - 1
      BY <1>4, <3>1 DEF Levels
    <3>4. i + 1 \in 1 .. LogLen /\ i + 1 + o \in 1 .. LogLen
      BY <1>2, <1>3, <3>1, <3>3
    <3> QED
      BY <3>2, <3>4
  <2> QED
    BY <2>1 DEF Makes, ChildAt
<1>5. Value(d)' = Unset /\ Mark(d)' = Unset
  <2>1. Size(d)' + 1 \in 1 .. LogLen /\ Size(d)' + 2 \in 1 .. LogLen
    BY <1>1, <1>2, <1>3
  <2> QED
    BY <2>1 DEF Makes, Value, Mark
<1>6. \A y : ~HasChild(d, y)'
  BY <1>4, EntryFacts DEF HasChild, Word
<1> QED
  BY <1>1, <1>3, <1>4, <1>5, <1>6

\* Making a descriptor keeps what is true of the heap.
LEMMA MakeHeap ==
  ASSUME InvA, TypeOK', NEW d \in Descriptors, Makes(d), FreeOK'
  PROVE  HeapOK'
<1> USE MakeSame
<1>1. /\ Rely({d}) /\ TypeOK /\ PathsFit /\ HeapOK /\ prog' = prog
      /\ status[d] # "live" /\ status[d] # "retired" /\ Unset' = Unset
  BY MakeRely DEF InvA, HeapOK, Makes
<1>2. ASSUME NEW e \in Descriptors, e # d
      PROVE  /\ desc'[e] = desc[e] /\ log'[e] = log[e] /\ ext'[e] = ext[e]
             /\ status'[e] = status[e] /\ callOf'[e] = callOf[e]
  BY <1>2 DEF Makes
<1>3. FlatReuse' /\ PathsFit' /\ ReuseFlat'
  <2>1. FlatReuse'
    BY <1>1 DEF HeapOK, FlatReuse
  <2>2. PathsFit'
    <3>1. ASSUME NEW e \in Descriptors PROVE (Size(e) + 2 <= LogLen)'
      <4>1. CASE e = d
        BY <4>1, MakeBlank
      <4>2. CASE e # d
        BY <1>1, <4>2 DEF PathsFit
      <4> QED
        BY <4>1, <4>2
    <3> QED
      BY <3>1 DEF PathsFit
  <2>3. ReuseFlat'
    <3>1. ASSUME NEW e \in Descriptors, prog.reuse PROVE (Size(e) = 0)'
      <4>1. CASE e = d
        BY <3>1, <4>1 DEF Makes, Size
      <4>2. CASE e # d
        BY <1>1, <3>1, <4>2 DEF HeapOK, ReuseFlat
      <4> QED
        BY <4>1, <4>2
    <3> QED
      BY <1>1, <3>1 DEF ReuseFlat
  <2> QED
    BY <2>1, <2>2, <2>3
<1>4. PrefixSet' /\ LogsKnown' /\ InBlocks'
  <2>1. ASSUME NEW e \in Descriptors, NEW j \in 1 .. LogLen, NEW k \in 1 .. LogLen, j < k, log'[e][j] = Unset
        PROVE  log'[e][k] = Unset
    <3>1. CASE e = d
      BY <3>1 DEF Makes
    <3>2. CASE e # d
      BY <1>1, <1>2, <2>1, <3>2 DEF HeapOK, PrefixSet
    <3> QED
      BY <3>1, <3>2
  <2>2. ASSUME NEW e \in Descriptors, NEW j \in 1 .. LogLen, log'[e][j][1] = "word", log'[e][j][2] \in Descriptors
        PROVE  status'[log'[e][j][2]] # "fresh"
    <3>1. CASE e = d
      BY <2>2, <3>1, EntryFacts DEF Makes
    <3>2. CASE e # d
      <4>1. status[log[e][j][2]] # "fresh"
        BY <1>1, <1>2, <2>2, <3>2 DEF HeapOK, LogsKnown
      <4>2. PICK y \in Descriptors : y = log[e][j][2]
        BY <1>2, <2>2, <3>2
      <4>3. status'[y] # "fresh"
        BY <4>1, <4>2
      <4> QED
        BY <1>2, <3>2, <4>2, <4>3
    <3> QED
      BY <3>1, <3>2
  <2>3. ASSUME NEW e \in Descriptors, NEW j \in 1 .. LogLen, log'[e][j] # Unset
        PROVE  (j - 1) \div BlockLen <= ext'[e]
    <3>1. CASE e = d
      BY <2>3, <3>1 DEF Makes
    <3>2. CASE e # d
      BY <1>1, <1>2, <2>3, <3>2 DEF HeapOK, InBlocks
    <3> QED
      BY <3>1, <3>2
  <2> QED
    BY <1>1, <2>1, <2>2, <2>3 DEF PrefixSet, LogsKnown, InBlocks
<1>5. \A y \in Descriptors : Known(y) => Known(y)'
  BY <1>1, KnownKept
<1>6. LoadsOK'
  <2>1. ASSUME NEW e \in Descriptors, NEW i \in Levels(e)', ~prog.with, OwnUpTo(e, i)' PROVE LoadEntry(e, i)'
    <3>1. CASE e = d
      BY <1>1, <2>1, <3>1, MakeBlank DEF LoadEntry
    <3>2. CASE e # d
      <4>1. i \in Levels(e) /\ i \in 0 .. Size(e)
        BY <1>1, <2>1, <3>2, DescType DEF Levels
      <4>2. LoadEntry(e, i)
        BY <1>1, <2>1, <3>2, <4>1, MakeLogs DEF HeapOK, LoadsOK
      <4>3. PICK c : c = log[e][i + 1][2]
        OBVIOUS
      <4>4. PICK l : l = desc[e].path[i + 1]
        OBVIOUS
      <4>5. l \in Locks
        <5>1. desc[e].path \in Seq(Locks) /\ i + 1 \in 1 .. Len(desc[e].path)
          BY <1>1, <4>1, DescType DEF Levels, Size
        <5> QED
          BY <4>4, <5>1
      <4>6. c \in Nat \ {0} /\ AtMost(l, c) => AtMost(l, c)'
        BY <4>5
      <4>7. c \in Descriptors /\ Known(c) => Known(c)'
        BY <1>5
      <4>8. log'[e][i + 1] = log[e][i + 1] /\ desc'[e].path[i + 1] = l
        BY <1>2, <3>2, <4>4
      <4>9. AtMost(l, c)' <=> AtMost(desc[e].path[i + 1], log[e][i + 1][2])'
        BY <4>3, <4>8 DEF AtMost
      <4>10. Known(c)' <=> Known(log[e][i + 1][2])'
        BY <4>3, <4>8
      <4> QED
        BY <1>1, <4>2, <4>3, <4>4, <4>6, <4>7, <4>8, <4>9, <4>10 DEF LoadEntry
    <3> QED
      BY <3>1, <3>2
  <2> QED
    BY <1>1, <2>1 DEF LoadsOK
<1>7. ChildrenOK'
  <2>1. ASSUME NEW e \in Descriptors, NEW i \in Levels(e)', Forks(e, i)'
        PROVE  \/ ChildAt(e, i)' = Unset
               \/ IsDone(ChildAt(e, i)')
               \/ ChildAt(e, i)'[1] = "word" /\ \A y : y = ChildAt(e, i)'[2] => ChildOK(e, i, y)'
    <3>1. CASE e = d
      BY <2>1, <3>1, MakeBlank
    <3>2. CASE e # d
      <4>1. i \in Levels(e) /\ Forks(e, i) /\ ChildAt(e, i)' = ChildAt(e, i)
        BY <2>1, <3>2, MakeLogs
      <4>2. ASSUME NEW y, ChildOK(e, i, y) PROVE ChildOK(e, i, y)'
        <5>1. y \in Descriptors /\ y # d
          BY <1>1, <4>2 DEF ChildOK
        <5>2. Size(y)' = Size(y) /\ Size(e)' = Size(e)
          BY <3>2, <5>1
        <5> QED
          BY <1>1, <1>2, <3>2, <4>2, <5>1, <5>2 DEF ChildOK
      <4> QED
        BY <1>1, <4>1, <4>2 DEF HeapOK, ChildrenOK
    <3> QED
      BY <3>1, <3>2
  <2> QED
    BY <1>1, <2>1 DEF ChildrenOK, IsDone
<1>8. ValuesOK'
  <2>1. ASSUME NEW e \in Descriptors, Base(e)'
        PROVE  /\ Value(e)' = Unset \/ (Value(e)'[1] = "word" /\ Value(e)'[2] \in Nat)
               /\ Mark(e)' = Unset \/ Mark(e)' = Word(1)
    <3>1. CASE e = d
      BY <3>1, MakeBlank
    <3>2. CASE e # d
      BY <1>1, <2>1, <3>2, MakeLogs DEF HeapOK, ValuesOK
    <3> QED
      BY <3>1, <3>2
  <2> QED
    BY <1>1, <2>1 DEF ValuesOK, Word
<1>9. NotTwice' /\ FreshBlank' /\ UsedFull'
  <2>1. NotTwice'
    BY <1>1 DEF HeapOK, NotTwice, Makes
  <2>2. FreshBlank'
    <3>1. ASSUME NEW e \in Descriptors, status'[e] = "fresh" PROVE desc'[e] = NoDesc /\ log'[e] = EmptyEntries
      <4>1. e # d
        BY <3>1 DEF Makes
      <4> QED
        BY <1>1, <1>2, <3>1, <4>1 DEF HeapOK, FreshBlank
    <3> QED
      BY <3>1 DEF FreshBlank, NoDesc, EmptyEntries, Unset
  <2>3. UsedFull'
    <3>1. ASSUME NEW e \in Descriptors, status'[e] # "fresh" PROVE desc'[e].thread \in Threads /\ desc'[e].lock \in Locks
      BY <1>1, <3>1 DEF HeapOK, UsedFull, Makes
    <3> QED
      BY <3>1 DEF UsedFull
  <2> QED
    BY <2>1, <2>2, <2>3
<1>10. LocksOK'
  BY <1>1, <1>2 DEF HeapOK, LocksOK, Makes
<1>11. CountersOK' /\ RetiredOver'
  <2>1. ASSUME NEW e \in Descriptors, Held(e)' PROVE desc'[e].counter > 0
    <3>1. e # d /\ Held(e)
      BY <2>1
    <3> QED
      BY <1>1, <1>2, <3>1 DEF HeapOK, CountersOK
  <2>2. ASSUME NEW e \in Descriptors, desc'[e].done, ~prog.with, NEW l, l = desc'[e].lock, NEW c, c = desc'[e].counter
        PROVE  Moved(l, c)'
    <3>1. e # d /\ desc'[e] = desc[e]
      BY <1>2, <2>2 DEF Makes
    <3>2. Moved(l, c)
      BY <1>1, <2>2, <3>1 DEF HeapOK, CountersOK
    <3>3. status[e] # "fresh"
      <4>1. ~NoDesc.done
        BY DEF NoDesc
      <4> QED
        BY <1>1, <2>2, <3>1, <4>1 DEF HeapOK, FreshBlank
    <3>4. l \in Locks
      BY <1>1, <2>2, <3>1, <3>3 DEF HeapOK, UsedFull
    <3> QED
      BY <3>2, <3>4
  <2>3. CountersOK'
    BY <1>1, <2>1, <2>2 DEF CountersOK
  <2>4. ASSUME NEW e \in Descriptors, status'[e] = "retired" PROVE Over(e)'
    <3>1. e # d /\ status[e] = "retired"
      BY <1>2, <2>4 DEF Makes
    <3>2. Over(e)
      BY <1>1, <3>1 DEF HeapOK, RetiredOver
    <3> QED
      BY <1>1, <3>1, <3>2 DEF Rely, DescKept
  <2> QED
    BY <2>3, <2>4 DEF RetiredOver
<1>12. DoneSettled' /\ ChainOrdered'
  <2>1. \A e \in Descriptors : desc'[e].done => desc[e].done /\ e \notin {d}
    BY DEF Makes
  <2>2. lck' = lck
    BY DEF Makes
  <2> QED
    BY <1>1, <2>1, <2>2, DoneSettledKept, ChainKept
<1> QED
  BY <1>3, <1>4, <1>6, <1>7, <1>8, <1>9, <1>10, <1>11, <1>12 DEF HeapOK

\* The caller owns the new descriptor, and nobody else knows it.
LEMMA MakeOwners ==
  ASSUME InvA, NEW t \in Threads, NEW h, NEW f, NEW s, NEW n, Here(t, "alloc", h, f, s, n),
         NEW d \in Descriptors, Makes(d), TypeOK',
         NEW g, stack'[t][h] = g, g.d = d, g.le = 0, g.pc # "retire", Sec(t, h)' = s,
         IF s = None THEN Sharing(g) ELSE g.pc = "commit",
         \A u \in Threads : Depth(u)' = Depth(u),
         \A u \in Threads : \A k \in Depth(u) : u # t \/ k < h =>
              /\ stack'[u][k] = stack[u][k]
              /\ Sec(u, k)' = Sec(u, k) /\ (Owner(u, k)' <=> Owner(u, k)),
         \A k \in Depth(t) : k < h \/ k = h
  PROVE  OwnersOK'
<1>1. /\ f = stack[t][h] /\ h \in Depth(t) /\ s = Sec(t, h) /\ f.pc = "alloc"
      /\ Rely({d}) /\ prog' = prog /\ lck' = lck
  BY MakeRely DEF Here, Makes
<1>2. OwnersLive /\ OwnersUnique /\ OwnerLinks /\ Privacy /\ RetireDone /\ LiveOwned /\ RootOK
  BY DEF InvA, OwnersOK
<1>3. Owner(t, h)' /\ HasDesc(g) /\ ~Owner(t, h) /\ ~Sharing(f) /\ ~HasDesc(f)
  BY <1>1 DEF Owner, HasDesc, Sharing, Early, Storing
<1>4. ASSUME NEW u \in Threads, NEW k \in Depth(u), ~(u = t /\ k = h)
      PROVE  /\ stack'[u][k] = stack[u][k] /\ Sec(u, k)' = Sec(u, k) /\ (Owner(u, k)' <=> Owner(u, k))
             /\ HasDesc(stack[u][k]) => stack[u][k].d \in Descriptors \ {d}
             /\ Sec(u, k) # None => Sec(u, k) \in Descriptors \ {d}
             /\ Owner(u, k) => HasDesc(stack[u][k])
  BY <1>1, <1>4, NotAllocated, OwnerHas
<1>5. ASSUME NEW e \in Descriptors, e # d PROVE status'[e] = status[e] /\ desc'[e] = desc[e]
  BY <1>5 DEF Makes
<1>6. OwnersLive'
  <2>1. ASSUME NEW u \in Threads, NEW k \in Depth(u), Owner(u, k)' PROVE status'[stack'[u][k].d] = "live"
    <3>1. CASE u = t /\ k = h
      BY <3>1 DEF Makes
    <3>2. CASE ~(u = t /\ k = h)
      BY <1>2, <1>4, <1>5, <2>1, <3>2 DEF OwnersLive
    <3> QED
      BY <3>1, <3>2
  <2> QED
    BY <2>1 DEF OwnersLive
<1>7. OwnersUnique'
  <2>1. ASSUME NEW u \in Threads, NEW v \in Threads, NEW k \in Depth(u), NEW m \in Depth(v),
               Owner(u, k)', Owner(v, m)', stack'[u][k].d = stack'[v][m].d
        PROVE  u = v /\ k = m
    <3>1. CASE ~(u = t /\ k = h) /\ ~(v = t /\ m = h)
      BY <1>2, <1>4, <2>1, <3>1 DEF OwnersUnique
    <3>2. CASE (u = t /\ k = h) /\ ~(v = t /\ m = h)
      BY <1>4, <2>1, <3>2
    <3>3. CASE ~(u = t /\ k = h) /\ (v = t /\ m = h)
      BY <1>4, <2>1, <3>3
    <3> QED
      BY <3>1, <3>2, <3>3
  <2> QED
    BY <2>1 DEF OwnersUnique
<1>8. OwnerLinks'
  <2>1. ASSUME NEW u \in Threads, NEW k \in Depth(u), Owner(u, k)', NEW e \in Descriptors,
               NEW y, y = stack'[u][k].d, HasChild(e, y)'
        PROVE  stack'[u][k].le # 0 /\ e = Sec(u, k)'
    <3>1. e # d /\ HasChild(e, y)
      BY <2>1, MakeBlank, MakeLogs
    <3>2. y # d
      BY <3>1, ChildLive DEF Makes
    <3>3. ~(u = t /\ k = h)
      BY <2>1, <3>2
    <3>4. Owner(u, k) /\ stack'[u][k] = stack[u][k] /\ Sec(u, k)' = Sec(u, k)
      BY <1>4, <2>1, <3>3
    <3> QED
      BY <1>2, <2>1, <3>1, <3>4 DEF OwnerLinks
  <2>2. ASSUME NEW u \in Threads, NEW k \in Depth(u)', Owner(u, k)', NEW e \in Descriptors,
               NEW y, y = stack'[u][k].d, HasChild(e, y)'
        PROVE  stack'[u][k].le # 0 /\ e = Sec(u, k)'
    BY <2>1, <2>2
  <2> QED
    BY <2>2 DEF OwnerLinks
<1>9. Privacy'
  <2>1. ASSUME NEW u \in Threads, NEW k \in Depth(u), stack'[u][k].pc = "commit", NEW y, y = stack'[u][k].d
        PROVE  /\ ~Held(y)' /\ ~desc'[y].acquired
               /\ \A v \in Threads : \A m \in Depth(v) :
                    HasDesc(stack'[v][m]) /\ stack'[v][m].d = y => v = u /\ m = k
    <3>1. CASE u = t /\ k = h
      <4>1. s # None /\ y = d
        BY <2>1, <3>1 DEF Sharing
      <4>2. ~prog.reuse
        BY <1>1, <4>1, ReuseOutside DEF Storing
      <4>3. status[d] = "fresh"
        BY <4>2 DEF Makes
      <4>4. desc[d] = NoDesc
        BY <4>3 DEF InvA, HeapOK, FreshBlank
      <4>5. ~NoDesc.acquired
        BY DEF NoDesc
      <4>6. ~desc'[d].acquired
        BY <4>4, <4>5 DEF Makes
      <4> QED
        BY <1>4, <3>1, <4>1, <4>6, MakeSame
    <3>2. CASE ~(u = t /\ k = h)
      <4>1. stack[u][k].pc = "commit" /\ y = stack[u][k].d
        BY <1>4, <2>1, <3>2
      <4>2. y \in Descriptors /\ y # d
        <5>1. HasDesc(stack[u][k])
          BY <4>1 DEF HasDesc, Early, Storing
        <5> QED
          BY <1>4, <3>2, <4>1, <5>1
      <4>3. ~Held(y) /\ ~desc[y].acquired
        BY <1>2, <4>1 DEF Privacy
      <4>4. \A v \in Threads : \A m \in Depth(v) : HasDesc(stack[v][m]) /\ stack[v][m].d = y => v = u /\ m = k
        BY <1>2, <4>1 DEF Privacy
      <4>5. ~Held(y)' /\ ~desc'[y].acquired
        BY <1>5, <4>2, <4>3, MakeSame
      <4> QED
        BY <1>4, <4>2, <4>4, <4>5
    <3> QED
      BY <3>1, <3>2
  <2>2. ASSUME NEW u \in Threads, NEW k \in Depth(u)', stack'[u][k].pc = "commit", NEW y, y = stack'[u][k].d
        PROVE  /\ ~Held(y)' /\ ~desc'[y].acquired
               /\ \A v \in Threads : \A m \in Depth(v)' :
                    HasDesc(stack'[v][m]) /\ stack'[v][m].d = y => v = u /\ m = k
    BY <2>1, <2>2
  <2> QED
    BY <2>2 DEF Privacy, HasDesc, Early, Storing
<1>10. RetireDone'
  <2>1. ASSUME NEW u \in Threads, NEW k \in Depth(u), stack'[u][k].pc = "retire", NEW z, z = Sec(u, k)'
        PROVE  Owner(u, k)' /\ (z # None => ChildDone(z)')
    <3>1. ~(u = t /\ k = h)
      BY <2>1
    <3>2. stack[u][k].pc = "retire" /\ z = Sec(u, k)
      BY <1>4, <2>1, <3>1
    <3>3. Owner(u, k) /\ (z # None => ChildDone(z))
      BY <1>2, <3>2 DEF RetireDone
    <3>4. z # None => z \in Descriptors \ {d}
      BY <1>4, <3>1, <3>2
    <3>5. z # None => ChildDone(z)'
      BY <1>1, <3>3, <3>4, ChildDoneKept
    <3> QED
      BY <1>4, <3>1, <3>3, <3>5
  <2> QED
    BY <2>1 DEF RetireDone
<1>11. LiveOwned'
  <2>1. ASSUME NEW e \in Descriptors, status'[e] = "live"
        PROVE  \E u \in Threads : \E k \in Depth(u) : Owner(u, k)' /\ stack'[u][k].d = e
    <3>1. CASE e = d
      BY <1>1, <1>3, <3>1
    <3>2. CASE e # d
      <4>1. PICK u \in Threads : \E k \in Depth(u) : Owner(u, k) /\ stack[u][k].d = e
        BY <1>2, <1>5, <2>1, <3>2 DEF LiveOwned
      <4>2. PICK k \in Depth(u) : Owner(u, k) /\ stack[u][k].d = e
        BY <4>1
      <4>3. ~(u = t /\ k = h)
        BY <1>3, <4>2
      <4> QED
        BY <1>4, <4>2, <4>3
    <3> QED
      BY <3>1, <3>2
  <2> QED
    BY <2>1 DEF LiveOwned
<1>12. RootOK'
  <2>1. ASSUME NEW e \in Descriptors, Installed(e)' PROVE RootIs(e, desc[e].thread, stack[desc[e].thread][1].d)'
    <3>1. Installed(e) /\ e # d
      BY <2>1, MakeSame
    <3>2. PICK u \in Threads, r \in Descriptors :
             /\ u = desc[e].thread /\ stack[u] # <<>> /\ Sharing(stack[u][1]) /\ stack[u][1].d = r
             /\ Installed(r) /\ (e = r \/ Size(e) < Size(r))
      BY <3>1, RootHere
    <3>3. 1 \in Depth(u) /\ r # d
      BY <3>2, HeightType, MakeSame DEF Depth, InvA
    <3>4. ~(u = t /\ 1 = h)
      BY <1>1, <1>3, <3>2
    <3>5. stack'[u][1] = stack[u][1]
      BY <1>4, <3>3, <3>4
    <3>6. stack'[u] # <<>>
      <4>1. 1 \in 1 .. Len(stack'[u])
        BY <3>3 DEF Depth, Height
      <4>2. Len(<<>>) = 0
        OBVIOUS
      <4> QED
        BY <4>1, <4>2
    <3>7. Installed(r)' /\ Size(e)' = Size(e) /\ Size(r)' = Size(r)
      BY <3>1, <3>2, <3>3, MakeSame
    <3>8. RootIs(e, u, r)'
      <4>1. Sharing(stack'[u][1]) /\ stack'[u][1].d = r
        BY <3>2, <3>5
      <4> QED
        BY <3>2, <3>6, <3>7, <4>1 DEF RootIs, Sharing, Early, Storing
    <3> QED
      BY <1>5, <3>1, <3>2, <3>5, <3>8
  <2> QED
    BY <2>1 DEF RootOK
<1> QED
  BY <1>6, <1>7, <1>8, <1>9, <1>10, <1>11, <1>12 DEF OwnersOK

\* The block that the allocator hands out, and the list it leaves.
LEMMA PoolTakes ==
  ASSUME InvA, NEW t \in Threads, NEW d \in Descriptors, Allocates(t, d),
         status' = [status EXCEPT ![d] = "live"], prog' = prog,
         \A e \in Descriptors \ {d} : desc'[e] = desc[e]
  PROVE  /\ status[d] = "fresh" \/ (status[d] = "freed" /\ prog.reuse /\ desc[d].thread = t)
         /\ freeList' \in [Threads -> Seq(Descriptors)] /\ FreeOK'
<1>1. TypeOK /\ FreeOK
  BY DEF InvA, HeapOK
<1>2. \A u \in Threads : freeList[u] \in Seq(Descriptors) /\ Len(freeList[u]) \in Nat
  BY <1>1 DEF TypeOK
<1>3. \A u \in Threads : \A j \in 1 .. Len(freeList[u]) :
        freeList[u][j] \in Descriptors /\ status[freeList[u][j]] = "freed"
  BY <1>1, <1>2 DEF FreeOK
<1>4. status'[d] = "live" /\ \A e \in Descriptors \ {d} : status'[e] = status[e]
  BY <1>1 DEF TypeOK
<1>5. CASE prog.reuse /\ freeList[t] # <<>>
  <2>1. d = Head(freeList[t]) /\ freeList' = [freeList EXCEPT ![t] = Tail(@)]
    BY <1>5 DEF Allocates
  <2>2. PICK m \in Nat : m = Len(freeList[t])
    BY <1>2
  <2>3. m >= 1 /\ d = freeList[t][1] /\ Tail(freeList[t]) \in Seq(Descriptors)
        /\ Len(Tail(freeList[t])) = m - 1
        /\ \A j \in 1 .. m - 1 : Tail(freeList[t])[j] = freeList[t][j + 1]
    BY <1>2, <1>5, <2>1, <2>2
  <2>4. freeList'[t] = Tail(freeList[t]) /\ \A u \in Threads \ {t} : freeList'[u] = freeList[u]
    BY <1>1, <2>1 DEF TypeOK
  <2>5. freeList' \in [Threads -> Seq(Descriptors)]
    BY <1>1, <2>1, <2>3 DEF TypeOK
  <2>6. status[d] = "freed" /\ desc[d].thread = t
    <3>1. 1 \in 1 .. Len(freeList[t])
      BY <2>2, <2>3
    <3> QED
      BY <1>1, <1>5, <2>3, <3>1 DEF FreeOK
  <2>7. \A u \in Threads : \A j \in 1 .. Len(freeList'[u]) :
          \E i \in 1 .. Len(freeList[u]) : /\ freeList'[u][j] = freeList[u][i]
                                           /\ i = IF u = t THEN j + 1 ELSE j
    <3> SUFFICES ASSUME NEW u \in Threads, NEW j \in 1 .. Len(freeList'[u])
                 PROVE \E i \in 1 .. Len(freeList[u]) : /\ freeList'[u][j] = freeList[u][i]
                                           /\ i = IF u = t THEN j + 1 ELSE j
      OBVIOUS
    <3>1. CASE u = t
      <4>1. PICK c : c = Tail(freeList[t])
        OBVIOUS
      <4>2. freeList'[u] = c /\ Len(c) = m - 1 /\ \A q \in 1 .. m - 1 : c[q] = freeList[t][q + 1]
        BY <2>3, <2>4, <3>1, <4>1
      <4>3. j \in 1 .. m - 1
        BY <4>2
      <4>4. j + 1 \in 1 .. Len(freeList[u]) /\ freeList'[u][j] = freeList[u][j + 1]
        BY <2>2, <3>1, <4>2, <4>3
      <4> QED
        BY <3>1, <4>4
    <3>2. CASE u # t
      BY <2>4, <3>2
    <3> QED
      BY <3>1, <3>2
  <2>8. \A u \in Threads : \A j \in 1 .. Len(freeList'[u]) : freeList'[u][j] # d
    <3> SUFFICES ASSUME NEW u \in Threads, NEW j \in 1 .. Len(freeList'[u]), freeList'[u][j] = d PROVE FALSE
      OBVIOUS
    <3>1. PICK i \in 1 .. Len(freeList[u]) : freeList'[u][j] = freeList[u][i] /\ i = IF u = t THEN j + 1 ELSE j
      BY <2>7
    <3>2. 1 \in 1 .. Len(freeList[t]) /\ freeList[t][1] = freeList[u][i]
      BY <2>2, <2>3, <3>1
    <3>3. t = u /\ 1 = i
      BY <1>1, <3>2 DEF FreeOK
    <3>4. j >= 1 /\ j \in Int
      <4>1. freeList'[u] \in Seq(Descriptors)
        BY <2>5
      <4>2. Len(freeList'[u]) \in Nat
        BY <4>1
      <4> QED
        BY <4>2
    <3> QED
      BY <3>1, <3>3, <3>4
  <2>9. FreeOK'
    <3> SUFFICES ASSUME NEW u \in Threads, NEW j \in 1 .. Len(freeList'[u])
                 PROVE  /\ status'[freeList'[u][j]] = "freed"
                        /\ prog'.reuse => desc'[freeList'[u][j]].thread = u
                        /\ \A v \in Threads : \A i \in 1 .. Len(freeList'[v]) :
                             freeList'[u][j] = freeList'[v][i] => u = v /\ j = i
      BY DEF FreeOK
    <3>1. PICK k \in 1 .. Len(freeList[u]) : freeList'[u][j] = freeList[u][k] /\ k = IF u = t THEN j + 1 ELSE j
      BY <2>7
    <3>2. PICK e : e = freeList[u][k]
      OBVIOUS
    <3>3. e \in Descriptors \ {d} /\ freeList'[u][j] = e
      BY <1>3, <2>8, <3>1, <3>2
    <3>4. status[e] = "freed" /\ (prog.reuse => desc[e].thread = u)
      BY <1>1, <3>2 DEF FreeOK
    <3>5. status'[e] = "freed" /\ (prog'.reuse => desc'[e].thread = u)
      BY <1>4, <3>3, <3>4
    <3>6. ASSUME NEW v \in Threads, NEW i \in 1 .. Len(freeList'[v]), freeList'[u][j] = freeList'[v][i]
          PROVE  u = v /\ j = i
      <4>1. PICK l \in 1 .. Len(freeList[v]) : freeList'[v][i] = freeList[v][l] /\ l = IF v = t THEN i + 1 ELSE i
        BY <2>7
      <4>2. u = v /\ k = l
        BY <1>1, <3>1, <3>6, <4>1 DEF FreeOK
      <4>3. j \in Int /\ i \in Int
        <5>1. freeList'[u] \in Seq(Descriptors) /\ freeList'[v] \in Seq(Descriptors)
          BY <2>5
        <5>2. Len(freeList'[u]) \in Nat /\ Len(freeList'[v]) \in Nat
          BY <5>1
        <5> QED
          BY <5>2
      <4> QED
        BY <3>1, <4>1, <4>2, <4>3
    <3> QED
      BY <3>3, <3>5, <3>6
  <2> QED
    BY <1>5, <2>5, <2>6, <2>9
<1>6. CASE ~(prog.reuse /\ freeList[t] # <<>>)
  <2>1. status[d] = "fresh" /\ freeList' = freeList
    BY <1>6 DEF Allocates
  <2>2. \A u \in Threads : \A j \in 1 .. Len(freeList[u]) : freeList[u][j] \in Descriptors \ {d}
    BY <1>3, <2>1
  <2>3. FreeOK'
    BY <1>1, <1>4, <2>1, <2>2 DEF FreeOK
  <2> QED
    BY <1>1, <2>1, <2>3 DEF TypeOK
<1> QED
  BY <1>5, <1>6

\* What the constructor writes.
LEMMA Constructed ==
  ASSUME NEW t \in Threads, NEW f, NEW d \in Descriptors, TypeOK, NewDescriptor(t, f, d)
  PROVE  /\ \A e \in Descriptors \ {d} : desc'[e] = desc[e] /\ status'[e] = status[e]
         /\ status'[d] = "live" /\ desc'[d].path = f.path /\ desc'[d].lock = f.lock /\ ~desc'[d].done
         /\ desc'[d].acquired = desc[d].acquired /\ desc'[d].thread = id[t] /\ desc'[d].counter = CounterOf(f)
         /\ status' \in [Descriptors -> {"fresh", "live", "freed", "retired", "twice"}]
         /\ f.path \in Seq(Locks) /\ f.lock \in Locks /\ CounterOf(f) \in Nat =>
              desc' \in [Descriptors ->
                [path : Seq(Locks), lock : Locks \cup {None}, done : BOOLEAN,
                 acquired : BOOLEAN, thread : Threads \cup {None}, counter : Nat]]
<1>1. PICK q : q = [NoDesc EXCEPT !.path = f.path, !.lock = f.lock, !.thread = id[t],
          !.counter = CounterOf(f), !.acquired = desc[d].acquired]
  OBVIOUS
<1>2. desc' = [desc EXCEPT ![d] = q] /\ status' = [status EXCEPT ![d] = "live"]
  BY <1>1 DEF NewDescriptor
<1>3. /\ q.path = f.path /\ q.lock = f.lock /\ q.done = FALSE /\ q.acquired = desc[d].acquired
      /\ q.thread = id[t] /\ q.counter = CounterOf(f)
  BY <1>1 DEF NoDesc
<1>4. desc'[d] = q /\ status'[d] = "live"
      /\ \A e \in Descriptors \ {d} : desc'[e] = desc[e] /\ status'[e] = status[e]
  BY <1>2 DEF TypeOK
<1>5. f.path \in Seq(Locks) /\ f.lock \in Locks /\ CounterOf(f) \in Nat =>
        q \in [path : Seq(Locks), lock : Locks \cup {None}, done : BOOLEAN,
                 acquired : BOOLEAN, thread : Threads \cup {None}, counter : Nat]
  <2>1. desc[d].acquired \in BOOLEAN /\ id[t] \in Threads
    BY DEF TypeOK
  <2> QED
    BY <1>1, <2>1 DEF NoDesc
<1> QED
  BY <1>2, <1>3, <1>4, <1>5 DEF TypeOK

\* The allocation and the constructor together make a descriptor.
LEMMA AllocIs ==
  ASSUME InvA, NEW t \in Threads, NEW d \in Descriptors, TryAlloc(t, d),
         NEW h, NEW f, NEW s, NEW n, Here(t, "alloc", h, f, s, n)
  PROVE  /\ Makes(d) /\ FreeOK' /\ (status[d] = "freed" => desc[d].thread = t)
         /\ desc'[d].path = f.path /\ desc'[d].lock = f.lock /\ desc'[d].thread = IdIn(t, s)
         /\ desc'[d].counter = CounterOf(f) /\ callOf'[d] = NumberIn(t, s)
         /\ calls' = calls /\ lg' = lg /\ id' = id /\ helping' = helping
         /\ x' = x /\ stores' = stores /\ made' = made
         /\ stack' \in [Threads -> Seq(Frames)] => TypeOK'
         /\ prog.reuse => s = None
<1>1. /\ f = Top(t) /\ f.pc = "alloc" /\ f \in Frames /\ f = stack[t][h] /\ h \in Depth(t) /\ TypeOK
      /\ h = Height(t) /\ stack[t] # <<>> /\ s = Sec(t, h) /\ n = Pos(t, h) /\ PathsFit /\ FlatReuse /\ InCall
      /\ FrameShape(t, f, s, n) /\ FrameCount(f) /\ s \in Descriptors \cup {None}
  BY DEF Here, InvA, HeapOK, StackOK
<1>2. /\ Allocates(t, d) /\ NewDescriptor(t, f, d)
      /\ log' = [log EXCEPT ![d] = EmptyEntries] /\ ext' = [ext EXCEPT ![d] = 0]
      /\ callOf' = [callOf EXCEPT ![d] = IF lg[t].d = None THEN Len(calls[t]) ELSE callOf[lg[t].d]]
      /\ UNCHANGED <<lck, x, localVars, prog, calls, stores, made>>
  BY <1>1 DEF TryAlloc
<1>3. /\ lck' = lck /\ prog' = prog /\ calls' = calls /\ lg' = lg /\ id' = id /\ helping' = helping
      /\ x' = x /\ stores' = stores /\ made' = made
  BY <1>2 DEF localVars
<1>4. f.pc \notin Storing /\ f.pc \notin {"ran", "helped"} /\ f.pc # "reentered" /\ f.pc \notin Inherited
  BY <1>1 DEF Storing, Inherited
<1>5. lg[t].d = s /\ id[t] = IdIn(t, s) /\ id[t] \in Threads
  <2>1. lg[t].d = s
    BY <1>1, <1>4, LgHere
  <2> QED
    BY <1>1, <1>4, <2>1, IdHere DEF TypeOK
<1>6. CounterOf(f) \in Nat
  BY <1>1, <1>4, Consts DEF FrameCount, CounterOf, IsLocked
<1>7. /\ \A e \in Descriptors \ {d} : desc'[e] = desc[e] /\ status'[e] = status[e]
      /\ status'[d] = "live" /\ desc'[d].path = f.path /\ desc'[d].lock = f.lock /\ ~desc'[d].done
      /\ desc'[d].acquired = desc[d].acquired /\ desc'[d].thread = id[t] /\ desc'[d].counter = CounterOf(f)
      /\ status' \in [Descriptors -> {"fresh", "live", "freed", "retired", "twice"}]
      /\ desc' \in [Descriptors ->
                [path : Seq(Locks), lock : Locks \cup {None}, done : BOOLEAN,
                 acquired : BOOLEAN, thread : Threads \cup {None}, counter : Nat]]
  <2>1. f.path \in Seq(Locks) /\ f.lock \in Locks
    BY <1>1, FrameType
  <2> QED
    BY <1>1, <1>2, <1>6, <2>1, Constructed
<1>8. /\ status[d] = "fresh" \/ (status[d] = "freed" /\ prog.reuse /\ desc[d].thread = t)
      /\ freeList' \in [Threads -> Seq(Descriptors)] /\ FreeOK'
  BY <1>2, <1>3, <1>7, PoolTakes DEF NewDescriptor
<1>9. prog.reuse => s = None
  BY <1>1, <1>4, ReuseOutside
<1>10. status[d] # "fresh" => desc[d].thread = id[t]
  BY <1>5, <1>8, <1>9 DEF IdIn
<1>11. /\ \A j \in 1 .. LogLen : log'[d][j] = Unset
       /\ \A e \in Descriptors \ {d} : log'[e] = log[e] /\ ext'[e] = ext[e] /\ callOf'[e] = callOf[e]
       /\ callOf'[d] = NumberIn(t, s)
  <2>1. log'[d] = EmptyEntries /\ \A e \in Descriptors \ {d} : log'[e] = log[e] /\ ext'[e] = ext[e] /\ callOf'[e] = callOf[e]
    BY <1>1, <1>2 DEF TypeOK
  <2>2. callOf'[d] = NumberIn(t, s)
    BY <1>1, <1>2, <1>5 DEF TypeOK, NumberIn
  <2> QED
    BY <2>1, <2>2 DEF EmptyEntries
<1>12. Len(f.path) + 2 <= LogLen /\ (prog.reuse => Len(f.path) = 0) /\ Len(f.path) \in Nat
  <2>1. Len(f.path) \in Nat
    BY <1>1, FrameType
  <2>2. CASE s = None
    <3>1. PICK m : m = Len(calls[t][1])
      OBVIOUS
    <3>2. Len(f.path) = m - 1
      BY <1>1, <1>4, <2>2, <3>1 DEF FrameShape, OutsideShape
    <3>3. calls[t] \in Seq(prog.paths[t]) /\ Len(calls[t]) > 0 /\ prog \in Programs /\ Len(calls[t]) \in Nat
      BY <1>1 DEF TypeOK, InCall
    <3>4. 1 \in 1 .. Len(calls[t])
      BY <3>3
    <3>5. calls[t][1] \in prog.paths[t]
      BY <3>3, <3>4
    <3>6. m < LogLen
      BY <3>1, <3>3, <3>5, LogLenAssumption
    <3>7. prog.reuse => m = 1
      BY <1>1, <3>1, <3>5 DEF FlatReuse
    <3>8. m \in Nat
      <4>1. calls[t][1] \in Seq(Locks)
        BY <3>4, <1>1 DEF TypeOK
      <4> QED
        BY <3>1, <4>1
    <3> QED
      BY <2>1, <3>2, <3>6, <3>7, <3>8, Consts
  <2>3. CASE s # None
    <3>1. LockShape(t, f, s) /\ s \in Descriptors
      BY <1>1, <1>4, <2>3 DEF FrameShape
    <3>2. Len(f.path) < Size(s)
      BY <2>3, <3>1 DEF LockShape, PathIn, Size
    <3>3. Size(s) \in Nat /\ Size(s) + 2 <= LogLen
      BY <1>1, <3>1, DescType DEF PathsFit
    <3> QED
      BY <1>9, <2>1, <2>3, <3>2, <3>3, Consts
  <2> QED
    BY <2>2, <2>3
<1>13. Makes(d)
  <2>1. f.lock \in Locks
    BY <1>1, FrameType
  <2> QED
    BY <1>3, <1>5, <1>7, <1>8, <1>10, <1>11, <1>12, <2>1 DEF Makes
<1>14. stack' \in [Threads -> Seq(Frames)] => TypeOK'
  <2>1. EmptyEntries \in [1 .. LogLen -> Entries]
    BY EntryTypes DEF EmptyEntries
  <2>2. log' \in [Descriptors -> [1 .. LogLen -> Entries]] /\ ext' \in [Descriptors -> 0 .. LogLen]
    BY <1>1, <1>2, <2>1, Consts DEF TypeOK
  <2>3. callOf' \in [Descriptors -> Nat]
    BY <1>1, <1>2, <1>5 DEF TypeOK
  <2> QED
    BY <1>1, <1>3, <1>7, <1>8, <2>2, <2>3 DEF TypeOK
<1> QED
  BY <1>3, <1>5, <1>7, <1>8, <1>9, <1>11, <1>13, <1>14

\* The frame that has its descriptor.
LEMMA AllocFrame ==
  ASSUME InvA, NEW t \in Threads, NEW h, NEW f, NEW s, NEW n, Here(t, "alloc", h, f, s, n),
         NEW d \in Descriptors, Makes(d), TypeOK', HeapOK', calls' = calls,
         status[d] = "freed" => desc[d].thread = t,
         desc'[d].path = f.path, desc'[d].lock = f.lock, desc'[d].thread = IdIn(t, s),
         desc'[d].counter = CounterOf(f), callOf'[d] = NumberIn(t, s),
         NEW g \in Frames, g.pc = (IF s = None THEN Acquiring(f) ELSE "commit"), g.lock = f.lock, g.path = f.path,
         g.d = d, g.le = f.le, g.cur = f.cur
  PROVE  /\ NewFrame(t, g, s, n)' /\ g.le = 0 /\ HasDesc(g)
         /\ IF s = None THEN Sharing(g) ELSE g.pc = "commit"
         /\ g.pc \in {"count", "help", "cas", "commit"}
<1>1. /\ f.pc = "alloc" /\ f \in Frames /\ f = stack[t][h] /\ h \in Depth(t) /\ s = Sec(t, h) /\ n = Pos(t, h) /\ TypeOK
      /\ FrameShape(t, f, s, n) /\ FrameCur(t, f, s) /\ FrameDesc(t, f, s) /\ FrameCount(f)
      /\ s \in Descriptors \cup {None} /\ f.pc \notin Storing /\ f.pc \notin {"load", "with"}
  BY DEF Here, InvA, Storing
<1>2. Rely({d}) /\ prog' = prog /\ ChildrenOK' /\ LocksOK'
  BY MakeRely DEF Makes, HeapOK
<1>3. FrameShape(t, f, s, n)' /\ FrameCur(t, f, s)' /\ FrameDesc(t, f, s)' /\ FrameCount(f)'
  BY <1>1, <1>2, FrameKept
<1>4. s # None => s \in Descriptors \ {d}
  BY <1>1, <1>2, NotAllocated
<1>5. PathIn(t, s)' = PathIn(t, s) /\ IdIn(t, s)' = IdIn(t, s) /\ NumberIn(t, s)' = NumberIn(t, s)
  BY <1>2, <1>4, InKept
<1>6. f.cur \in Nat \cup Descriptors
  BY <1>1 DEF FrameCount
<1>7. /\ s = None => /\ g.pc \in {"count", "help", "cas"} /\ (g.pc = "count" <=> prog.with)
                     /\ g.pc = "help" => f.cur \in Descriptors
                     /\ g.pc = "cas" => f.cur \in Nat
      /\ s # None => g.pc = "commit"
  BY <1>6 DEF Acquiring, IsLocked
<1>8. /\ IF s = None THEN Sharing(g) ELSE g.pc = "commit" /\ ~Sharing(g)
      /\ HasDesc(g) /\ g.pc \notin Inherited \cup Storing \cup Early /\ ~Sharing(f)
  BY <1>1, <1>7 DEF Sharing, HasDesc, Early, Storing, Inherited
<1>9. f.le = 0
  BY <1>1, <1>8 DEF FrameShape, OutsideShape, InsideShape
<1>10. FrameShape(t, g, s, n)'
  <2>1. LockShape(t, f, s)' /\ (s = None => OutsideShape(t, f)') /\ (s # None => InsideShape(f, s, n, Level(f, s))')
    BY <1>1, <1>3 DEF FrameShape
  <2>2. LockShape(t, g, s)'
    BY <1>2, <1>7, <2>1 DEF LockShape, WithOnly, TryOnly
  <2>3. s = None => OutsideShape(t, g)'
    BY <1>7, <1>9, <2>1 DEF OutsideShape
  <2>4. Level(g, s)' = Level(f, s)'
    BY DEF Level
  <2>5. s # None => InsideShape(g, s, n, Level(f, s))'
    <3>1. PICK i : i = Level(f, s)'
      OBVIOUS
    <3>2. SUFFICES ASSUME s # None PROVE InsideShape(g, s, n, i)'
      BY <3>1
    <3>3. InsideShape(f, s, n, i)'
      BY <2>1, <3>1, <3>2
    <3> QED
      BY <1>1, <1>7, <1>8, <1>9, <3>2, <3>3 DEF InsideShape
  <2> QED
    BY <1>8, <2>2, <2>3, <2>4, <2>5 DEF FrameShape
<1>11. FrameCur(t, g, s)'
  BY <1>1, <1>3, <1>7, <1>8 DEF FrameCur, HelpIn, Storing
<1>12. FrameDesc(t, g, s)'
  <2>1. LockShape(t, f, s)
    BY <1>1 DEF FrameShape
  <2>2. IsRest(f.path, PathIn(t, s))
    BY <2>1 DEF LockShape
  <2>3. /\ g.d \in Descriptors /\ status'[g.d] # "fresh"
        /\ desc'[g.d].lock = g.lock
        /\ Size(g.d)' = Len(g.path) /\ IsRest(desc'[g.d].path, PathIn(t, s)')
        /\ desc'[g.d].thread = IdIn(t, s)' /\ callOf'[g.d] = NumberIn(t, s)'
        /\ desc'[g.d].counter = CounterOf(g)
    BY <1>5, <2>2 DEF Makes, Size, CounterOf
  <2>4. Sharing(g) => s = None
    BY <1>8
  <2> QED
    BY <2>3, <2>4 DEF FrameDesc
<1>13. FrameCount(g)'
  <2>1. ~Held(d)'
    BY MakeSame
  <2>2. AtMost(f.lock, CounterOf(f))'
    <3>1. f.cur \in Nat => AtMost(f.lock, f.cur)'
      BY <1>1, <1>3 DEF FrameCount
    <3>2. f.cur \in Descriptors => AtMost(f.lock, 0)'
      <4>1. f.lock \in Locks
        BY <1>1, FrameType
      <4>2. lck'[f.lock] \in Nat \cup Descriptors /\ \A e \in Descriptors : desc'[e].counter \in Nat
        BY <4>1 DEF TypeOK
      <4> QED
        BY <4>2 DEF AtMost
    <3> QED
      BY <1>6, <3>1, <3>2, Consts DEF CounterOf, IsLocked
  <2>3. s = None => f.cur # d
    BY <1>1, <1>6 DEF FrameCur, Known, Makes
  <2>4. /\ g.pc \notin {"load", "with", "raise", "test", "take", "check", "ran", "clear", "result", "retire"}
        /\ g.pc = "count" => s = None
    BY <1>7
  <2>5. f.cur \in Nat => f.cur > 0 /\ AtMost(f.lock, f.cur)'
    BY <1>1, <1>3 DEF FrameCount
  <2> QED
    BY <1>6, <1>7, <2>1, <2>2, <2>3, <2>4, <2>5 DEF FrameCount
<1> QED
  BY <1>7, <1>8, <1>9, <1>10, <1>11, <1>12, <1>13 DEF NewFrame

\* TryAlloc keeps the invariant.
LEMMA TryAllocOK ==
  ASSUME InvA, NEW t \in Threads, NEW d \in Descriptors, TryAlloc(t, d)
  PROVE  InvA'
<1>1. PICK h, f, s, n : Here(t, "alloc", h, f, s, n)
  BY HereIs DEF TryAlloc
<1>2. /\ f = Top(t) /\ f.pc = "alloc" /\ f \in Frames /\ f = stack[t][h] /\ h \in Depth(t) /\ TypeOK
      /\ h = Height(t) /\ stack[t] # <<>> /\ s = Sec(t, h) /\ n = Pos(t, h) /\ s \in Descriptors \cup {None}
  BY <1>1 DEF Here, InvA
<1>3. f.pc \notin {"ran", "helped"} /\ f.pc # "reentered" /\ f.pc \notin Extending \cup Calling /\ f.pc \notin Inherited
  BY <1>2 DEF Extending, Inherited, Calling
<1>4. lg[t].d = s
  BY <1>1, <1>3, LgHere
<1>5. /\ Makes(d) /\ FreeOK' /\ (status[d] = "freed" => desc[d].thread = t)
      /\ desc'[d].path = f.path /\ desc'[d].lock = f.lock /\ desc'[d].thread = IdIn(t, s)
      /\ desc'[d].counter = CounterOf(f) /\ callOf'[d] = NumberIn(t, s)
      /\ calls' = calls /\ lg' = lg /\ id' = id /\ helping' = helping
      /\ stack' \in [Threads -> Seq(Frames)] => TypeOK'
  BY <1>1, AllocIs
<1>6. PICK p : p = IF s = None THEN Acquiring(f) ELSE "commit"
  OBVIOUS
<1>7. PICK g : g = [f EXCEPT !.d = d, !.pc = p]
  OBVIOUS
<1>8. g \in Frames /\ g.pc = p /\ g.lock = f.lock /\ g.path = f.path /\ g.d = d /\ g.le = f.le /\ g.cur = f.cur
  <2>1. p \in Pcs
    BY <1>6, PcNames DEF Acquiring
  <2> QED
    BY <1>2, <1>7, <2>1 DEF Frames
<1>9. Continue(t, g)
  BY <1>2, <1>4, <1>6, <1>7 DEF TryAlloc
<1>10. Conts(t, g) /\ stack' \in [Threads -> Seq(Frames)]
  BY <1>2, <1>8, <1>9, ContIs
<1>11. TypeOK'
  BY <1>5, <1>10
<1>12. Rely({d}) /\ HeapOK'
  BY <1>5, <1>11, MakeRely, MakeHeap
<1>13. /\ NewFrame(t, g, s, n)' /\ g.le = 0 /\ HasDesc(g)
       /\ IF s = None THEN Sharing(g) ELSE g.pc = "commit"
       /\ g.pc \in {"count", "help", "cas", "commit"}
  BY <1>1, <1>5, <1>6, <1>8, <1>11, <1>12, AllocFrame
<1>14. g.pc \notin Calling /\ g.pc \notin Inherited /\ g.pc # "retire"
  BY <1>13 DEF Calling, Inherited
<1>15. GivesBack(t)
  <2>1. \A e \in Descriptors : status[e] = "live" => status'[e] = "live"
    BY <1>5 DEF Makes
  <2> QED
    BY <2>1 DEF GivesBack
<1>16. lg'[t] = lg[t] /\ lg'[t].n = n /\ ~lg'[t].new /\ lg'[t].d = s
       /\ (lg'[t].d = None => lg'[t] = EmptyLog) /\ \A z : z = lg'[t] /\ z.d # None => BlockOK(z)'
  BY <1>2, <1>3, <1>5, <1>11, <1>12, LgSame
<1>17. Alone(t)
  BY <1>5, <1>16 DEF Alone
<1>18. id'[t] = TopId(t, g)'
  <2>1. IdIn(t, s)' = id[t] /\ TopId(t, g)' = id[t]
    BY <1>2, <1>3, <1>5, <1>12, <1>14, <1>16, IdStays
  <2> QED
    BY <1>5, <2>1
<1>19. StackOK'
  BY <1>2, <1>10, <1>11, <1>12, <1>13, <1>14, <1>15, <1>16, <1>17, <1>18, ContStack
<1>20. OwnersOK'
  <2>1. FrameShape(t, g, s, n)' /\ FrameCur(t, g, s)' /\ FrameDesc(t, g, s)' /\ FrameCount(g)'
    BY <1>13 DEF NewFrame
  <2>2. ChildrenOK' /\ LocksOK'
    BY <1>12 DEF HeapOK
  <2>3. /\ \A u \in Threads : \A k \in Depth(u) : u # t \/ k < h =>
              /\ stack'[u][k] = stack[u][k]
              /\ Sec(u, k)' = Sec(u, k) /\ (Owner(u, k)' <=> Owner(u, k))
        /\ \A u \in Threads : Depth(u)' = Depth(u)
        /\ h \in Depth(t) /\ Sec(t, h)' = s /\ stack'[t][h] = g
    BY <1>2, <1>10, <1>11, <1>12, <1>14, <1>15, <1>16, <1>17, <2>1, <2>2, ContOK
  <2>4. \A k \in Depth(t) : k < h \/ k = h
    BY <1>2, TopIn
  <2> QED
    BY <1>1, <1>5, <1>8, <1>11, <1>13, <1>14, <2>3, <2>4, MakeOwners
<1> QED
  BY <1>11, <1>12, <1>19, <1>20 DEF InvA

\* The result takes the place of a child that has been given up.
Replace(d, i, r) ==
  /\ Forks(d, i) /\ r \in BOOLEAN /\ log' = [log EXCEPT ![d][i + 1 + Off] = Done(r)]
  /\ ChildAt(d, i) # Unset /\ \A e \in Descriptors : ChildAt(d, i) = Word(e) => Over(e)
  /\ lck' = lck /\ desc' = desc /\ ext' = ext /\ status' = status
  /\ freeList' = freeList /\ prog' = prog /\ callOf' = callOf

\* What replacing a descriptor by the result leaves alone.
LEMMA ReplaceSame ==
  ASSUME InvA, NEW d \in Descriptors, NEW i, NEW r, Replace(d, i, r)
  PROVE  /\ \A e : Held(e)' <=> Held(e)
         /\ \A e : Installed(e)' <=> Installed(e)
         /\ \A e : Over(e)' <=> Over(e)
         /\ \A e : Known(e)' <=> Known(e)
         /\ \A e : Safe(e)' <=> Safe(e)
         /\ \A e : Size(e)' = Size(e)
         /\ \A e : Levels(e)' = Levels(e)
         /\ Off' = Off /\ prog' = prog /\ Unset' = Unset
         /\ \A l, c : AtMost(l, c)' <=> AtMost(l, c)
         /\ \A l, c : Moved(l, c)' <=> Moved(l, c)
BY DEF Replace, Held, Installed, Over, Known, Safe, Size, Levels, Off, AtMost, Moved, Unset

\* What it does to the log.
LEMMA ReplaceEntries ==
  ASSUME InvA, NEW d \in Descriptors, NEW i, NEW r, Replace(d, i, r), NEW j, j = i + 1 + Off
  PROVE  /\ i \in Levels(d) /\ i \in Nat /\ i < Size(d) /\ Size(d) \in Nat /\ j \in 1 .. LogLen
         /\ log'[d][j] = Done(r) /\ log[d][j] # Unset
         /\ \A e \in Descriptors : \A k \in 1 .. LogLen : e # d \/ k # j => log'[e][k] = log[e][k]
         /\ log' \in [Descriptors -> [1 .. LogLen -> Entries]]
         /\ \A k \in 1 .. i : k # j
         /\ j \in Nat /\ j > i /\ (prog.with => i = 0 /\ j = 1) /\ (~prog.with => j = i + 2)
<1>1. TypeOK /\ PathsFit
  BY DEF InvA, HeapOK
<1>2. i \in Levels(d) /\ (prog.with => i = 0)
  BY DEF Replace, Forks
<1>3. i \in Nat /\ i < Size(d) /\ Size(d) \in Nat /\ j \in 1 .. LogLen
  BY <1>1, <1>2, FitsLog
<1>4. log \in [Descriptors -> [1 .. LogLen -> Entries]] /\ Done(r) \in Entries
  BY <1>1, EntryTypes DEF TypeOK, Replace
<1>5. log' = [log EXCEPT ![d][j] = Done(r)] /\ log[d][j] # Unset
  BY DEF Replace, ChildAt
<1>6. (prog.with => j = i + 1) /\ (~prog.with => j = i + 2) /\ prog.with \in BOOLEAN
  BY <1>1, <1>3, ProgType
<1>7. j \in Nat /\ j > i /\ (prog.with => i = 0 /\ j = 1)
  BY <1>2, <1>3, <1>6
<1>8. \A k \in 1 .. i : k # j
  BY <1>3, <1>7
<1>9. /\ log'[d][j] = Done(r)
      /\ \A e \in Descriptors : \A k \in 1 .. LogLen : e # d \/ k # j => log'[e][k] = log[e][k]
      /\ log' \in [Descriptors -> [1 .. LogLen -> Entries]]
  BY <1>3, <1>4, <1>5
<1> QED
  BY <1>2, <1>3, <1>5, <1>6, <1>7, <1>8, <1>9

\* The entries of own locks after it.
LEMMA ReplaceOwn ==
  ASSUME InvA, NEW d \in Descriptors, NEW i, NEW r, Replace(d, i, r), NEW e \in Descriptors
  PROVE  /\ \A k \in 1 .. LogLen : e # d \/ k # i + 1 + Off => (Own(e, k)' <=> Own(e, k))
         /\ \A m \in 0 .. LogLen : OwnUpTo(e, m)' => OwnUpTo(e, m)
         /\ \A m \in 0 .. LogLen : e # d \/ m <= i => (OwnUpTo(e, m)' <=> OwnUpTo(e, m))
<1>1. PICK j : j = i + 1 + Off
  OBVIOUS
<1>2. /\ i \in Nat /\ j \in 1 .. LogLen /\ log'[d][j] = Done(r)
      /\ \A k \in 1 .. LogLen : e # d \/ k # j => log'[e][k] = log[e][k]
      /\ j > i /\ desc' = desc
  <2>1. desc' = desc
    BY DEF Replace
  <2> QED
    BY <1>1, <2>1, ReplaceEntries
<1>3. \A k \in 1 .. LogLen : e # d \/ k # j => (Own(e, k)' <=> Own(e, k))
  BY <1>2 DEF Own
<1>4. ~Own(d, j)'
  BY <1>2, EntryFacts DEF Own
<1>5. ASSUME NEW m \in 0 .. LogLen, OwnUpTo(e, m)' PROVE OwnUpTo(e, m)
  <2>1. \A k \in 1 .. m : k \in 1 .. LogLen /\ Own(e, k)'
    BY <1>5, Consts DEF OwnUpTo
  <2>2. \A k \in 1 .. m : Own(e, k)
    BY <1>3, <1>4, <2>1
  <2> QED
    BY <2>2 DEF OwnUpTo
<1>6. ASSUME NEW m \in 0 .. LogLen, e # d \/ m <= i, OwnUpTo(e, m) PROVE OwnUpTo(e, m)'
  <2>1. \A k \in 1 .. m : k \in 1 .. LogLen /\ Own(e, k) /\ (e # d \/ k # j)
    BY <1>2, <1>6, Consts DEF OwnUpTo
  <2>2. \A k \in 1 .. m : Own(e, k)'
    BY <1>3, <2>1
  <2> QED
    BY <2>2 DEF OwnUpTo
<1> QED
  BY <1>1, <1>3, <1>5, <1>6

\* Where a log forks does not change, and only one child does.
LEMMA ReplaceForks ==
  ASSUME InvA, NEW d \in Descriptors, NEW i, NEW r, Replace(d, i, r), NEW e \in Descriptors
  PROVE  /\ \A q : Forks(e, q)' => Forks(e, q)
         /\ \A q : Forks(e, q) /\ (e # d \/ q # i) => ChildAt(e, q)' = ChildAt(e, q)
         /\ ChildAt(d, i)' = Done(r) /\ Forks(d, i)'
         /\ \A q : Forks(e, q) /\ ~prog.with => log'[e][q + 1] = log[e][q + 1]
         /\ Base(e)' => Base(e) /\ e # d
<1>1. PICK j : j = i + 1 + Off
  OBVIOUS
<1>2. TypeOK /\ PathsFit /\ Forks(d, i) /\ Off' = Off /\ prog' = prog /\ Unset' = Unset
  BY ReplaceSame DEF InvA, HeapOK, Replace
<1>3. /\ i \in Levels(d) /\ i \in Nat /\ i < Size(d) /\ Size(d) \in Nat /\ j \in 1 .. LogLen
      /\ log'[d][j] = Done(r)
      /\ \A y \in Descriptors : \A k \in 1 .. LogLen : y # d \/ k # j => log'[y][k] = log[y][k]
      /\ j \in Nat /\ j > i /\ (prog.with => i = 0 /\ j = 1) /\ (~prog.with => j = i + 2)
  BY <1>1, ReplaceEntries
<1>4. ASSUME NEW y \in Descriptors, NEW q \in Levels(y), ~prog.with, OwnUpTo(y, q)
      PROVE  /\ log'[y][q + 1] = log[y][q + 1] /\ (Own(y, q + 1)' <=> Own(y, q + 1))
  <2>1. q \in Nat /\ q + 1 \in 1 .. LogLen
    BY <1>2, FitsLog
  <2>2. y # d \/ q + 1 # j
    <3> SUFFICES ASSUME y = d, q + 1 = j PROVE FALSE
      OBVIOUS
    <3>1. q <= i
      BY <1>2, <1>4, <2>1, ForksTop
    <3> QED
      BY <1>3, <1>4, <2>1, <3>1
  <2> QED
    BY <1>1, <1>3, <2>1, <2>2, ReplaceOwn
<1>5. ASSUME NEW q, Forks(e, q)' PROVE Forks(e, q)
  <2>1. /\ q \in Levels(e)' /\ OwnUpTo(e, q)' /\ (prog'.with => q = 0)
        /\ ~prog'.with => log'[e][q + 1] # Unset' /\ ~Own(e, q + 1)'
    BY <1>5 DEF Forks
  <2>2. q \in Levels(e)
    BY <2>1, ReplaceSame
  <2>3. q \in 0 .. LogLen
    BY <1>2, <2>2, FitsLog, Consts
  <2>4. OwnUpTo(e, q)
    BY <2>1, <2>3, ReplaceOwn
  <2>5. ~prog.with => log'[e][q + 1] = log[e][q + 1] /\ (Own(e, q + 1)' <=> Own(e, q + 1))
    BY <1>4, <2>2, <2>4
  <2> QED
    BY <1>2, <2>1, <2>2, <2>4, <2>5 DEF Forks
<1>6. ASSUME NEW q, Forks(e, q), e # d \/ q # i PROVE ChildAt(e, q)' = ChildAt(e, q)
  <2>1. q \in Levels(e)
    BY <1>6 DEF Forks
  <2>2. PICK k \in 1 .. LogLen : k = q + 1 + Off
    BY <1>2, <2>1, FitsLog
  <2>3. e # d
    BY <1>2, <1>6, OneFork
  <2> QED
    BY <1>2, <1>3, <2>2, <2>3 DEF ChildAt
<1>7. ChildAt(d, i)' = Done(r)
  BY <1>1, <1>2, <1>3 DEF ChildAt
<1>8. ASSUME NEW q, Forks(e, q), ~prog.with PROVE log'[e][q + 1] = log[e][q + 1]
  BY <1>4, <1>8 DEF Forks
<1>9. Forks(d, i)'
  <2>1. i \in 0 .. LogLen
    BY <1>2, <1>3, FitsLog, Consts
  <2>2. OwnUpTo(d, i) /\ OwnUpTo(d, i)'
    BY <1>2, <1>3, <2>1, ReplaceOwn DEF Forks
  <2>3. ~prog.with => log'[d][i + 1] = log[d][i + 1] /\ (Own(d, i + 1)' <=> Own(d, i + 1))
    BY <1>3, <1>4, <2>2
  <2>4. i \in Levels(d)'
    BY <1>3, ReplaceSame
  <2> QED
    BY <1>2, <2>2, <2>3, <2>4 DEF Forks
<1>10. Base(e)' => Base(e) /\ e # d
  <2> SUFFICES ASSUME Base(e)' PROVE Base(e) /\ e # d
    OBVIOUS
  <2>1. Size(e)' = Size(e)
    BY ReplaceSame
  <2>2. PICK m : m = Size(e)
    OBVIOUS
  <2>3. m \in 0 .. LogLen
    BY <1>2, <2>2, FitsLog, Consts
  <2>4. OwnUpTo(e, m)' /\ (prog'.with => m = 0)
    BY <2>1, <2>2 DEF Base
  <2>5. Base(e)
    BY <1>2, <2>2, <2>3, <2>4, ReplaceOwn DEF Base
  <2> QED
    BY <1>2, <1>3, <2>5, BaseNoFork
<1> QED
  BY <1>5, <1>6, <1>7, <1>8, <1>9, <1>10

\* Frames may rely on it.
LEMMA ReplaceRely ==
  ASSUME InvA, NEW d \in Descriptors, NEW i, NEW r, Replace(d, i, r)
  PROVE  Rely({})
<1>1. TypeOK
  BY DEF InvA
<1>2. PICK j : j = i + 1 + Off
  OBVIOUS
<1>3. /\ i \in Levels(d) /\ j \in 1 .. LogLen /\ log'[d][j] = Done(r)
      /\ \A e \in Descriptors : \A k \in 1 .. LogLen : e # d \/ k # j => log'[e][k] = log[e][k]
  BY <1>2, ReplaceEntries
<1>4. ASSUME NEW e \in Descriptors PROVE DescKept(e)
  <2>1. ASSUME NEW k \in 1 .. LogLen PROVE EntryKept(e, k)
    <3>1. CASE e = d /\ k = j
      <4>1. IsDone(log'[d][j])
        BY <1>3, EntryFacts
      <4>2. \E q \in Levels(d) : q + 1 + Off = j /\ Forks(d, q)
        BY <1>2, <1>3 DEF Replace
      <4>3. \A y \in Descriptors : log[d][j] = Word(y) => Over(y)'
        BY <1>2, ReplaceSame DEF Replace, ChildAt
      <4> QED
        BY <3>1, <4>1, <4>2, <4>3 DEF EntryKept
    <3>2. CASE e # d \/ k # j
      BY <1>3, <3>2 DEF EntryKept
    <3> QED
      BY <3>1, <3>2
  <2>2. ext[e] <= ext'[e] /\ desc[e].counter <= desc'[e].counter
    BY <1>1, DescType DEF Replace
  <2>3. \A l \in Locks : AtMost(l, desc[e].counter) => AtMost(l, desc[e].counter)'
    BY DEF Replace, AtMost
  <2> QED
    BY <2>1, <2>2, <2>3, ReplaceSame DEF Replace, DescKept
<1>5. \A e \in Descriptors : StatusKept(e)
  BY DEF Replace, StatusKept, Safe
<1>6. \A l, c : LockKept(l, c)
  BY DEF Replace, LockKept, AtMost, Moved
<1> QED
  BY <1>4, <1>5, <1>6 DEF Replace, Rely

\* It keeps what is true of the heap,
LEMMA ReplaceHeap ==
  ASSUME InvA, NEW d \in Descriptors, NEW i, NEW r, Replace(d, i, r)
  PROVE  HeapOK'
<1>1. HeapOK /\ TypeOK /\ PathsFit
  BY DEF InvA, HeapOK
<1>2. PICK j : j = i + 1 + Off
  OBVIOUS
<1>3. /\ i \in Levels(d) /\ i \in Nat /\ j \in 1 .. LogLen /\ log'[d][j] = Done(r) /\ log[d][j] # Unset
      /\ \A e \in Descriptors : \A k \in 1 .. LogLen : e # d \/ k # j => log'[e][k] = log[e][k]
      /\ Unset' = Unset /\ Off' = Off /\ prog' = prog
      /\ Done(r) # Unset /\ Done(r)[1] # "word" /\ IsDone(Done(r))
  BY <1>2, ReplaceEntries, ReplaceSame, EntryFacts
<1>4. FlatReuse' /\ PathsFit' /\ ReuseFlat' /\ NotTwice' /\ UsedFull' /\ FreeOK' /\ LocksOK' /\ CountersOK' /\ RetiredOver'
  <2>1. FlatReuse' /\ PathsFit' /\ ReuseFlat' /\ NotTwice' /\ UsedFull' /\ FreeOK' /\ LocksOK'
    BY <1>1 DEF HeapOK, Replace, FlatReuse, PathsFit, ReuseFlat, Size, NotTwice, UsedFull, FreeOK, LocksOK
  <2> QED
    BY <1>1, <2>1 DEF HeapOK, Replace, CountersOK, RetiredOver, Over, Held, Installed, Moved
<1>5. \A e \in Descriptors : \A k \in 1 .. LogLen : log'[e][k] = Unset <=> log[e][k] = Unset
  <2>1. ASSUME NEW e \in Descriptors, NEW k \in 1 .. LogLen PROVE log'[e][k] = Unset <=> log[e][k] = Unset
    <3>1. CASE e = d /\ k = j
      BY <1>3, <3>1
    <3>2. CASE e # d \/ k # j
      BY <1>3, <3>2
    <3> QED
      BY <3>1, <3>2
  <2> QED
    BY <2>1
<1>6. PrefixSet' /\ InBlocks'
  BY <1>1, <1>3, <1>5 DEF HeapOK, PrefixSet, InBlocks, Replace
<1>7. LogsKnown'
  <2>1. ASSUME NEW e \in Descriptors, NEW k \in 1 .. LogLen, log'[e][k][1] = "word", log'[e][k][2] \in Descriptors
        PROVE  status'[log'[e][k][2]] # "fresh"
    <3>1. e # d \/ k # j
      BY <1>3, <2>1
    <3> QED
      BY <1>1, <1>3, <2>1, <3>1 DEF HeapOK, LogsKnown, Replace
  <2> QED
    BY <2>1 DEF LogsKnown
<1>8. LoadsOK'
  <2>1. ASSUME NEW e \in Descriptors, NEW q \in Levels(e), ~prog.with, OwnUpTo(e, q)'
        PROVE  LoadEntry(e, q)'
    <3>1. q \in Nat /\ q + 1 \in 1 .. LogLen /\ q \in 0 .. LogLen
      BY <1>1, FitsLog, Consts
    <3>2. OwnUpTo(e, q)
      BY <2>1, <3>1, ReplaceOwn
    <3>3. e # d \/ q + 1 # j
      <4> SUFFICES ASSUME e = d, q + 1 = j PROVE FALSE
        OBVIOUS
      <4>1. q <= i
        BY <1>1, <1>3, <2>1, <3>1, <3>2, ForksTop DEF Replace
      <4>2. j = i + 2
        BY <1>2, <2>1, ReplaceEntries
      <4> QED
        BY <1>3, <3>1, <4>1, <4>2
    <3>4. log'[e][q + 1] = log[e][q + 1]
      BY <1>3, <3>1, <3>3
    <3>5. LoadEntry(e, q)
      BY <1>1, <2>1, <3>2 DEF HeapOK, LoadsOK
    <3> QED
      BY <1>3, <3>4, <3>5, ReplaceSame DEF LoadEntry, Replace
  <2>2. \A e \in Descriptors : Levels(e)' = Levels(e)
    BY ReplaceSame
  <2> QED
    BY <1>3, <2>1, <2>2 DEF LoadsOK
<1>9. ChildrenOK'
  <2>1. ASSUME NEW e \in Descriptors, NEW q \in Levels(e), Forks(e, q)'
        PROVE  \/ ChildAt(e, q)' = Unset
               \/ IsDone(ChildAt(e, q)')
               \/ ChildAt(e, q)'[1] = "word" /\ \A z : z = ChildAt(e, q)'[2] => ChildOK(e, q, z)'
    <3>1. Forks(e, q)
      BY <2>1, ReplaceForks
    <3>2. CASE e = d /\ q = i
      BY <1>3, <3>2, ReplaceForks
    <3>3. CASE e # d \/ q # i
      <4>1. ChildAt(e, q)' = ChildAt(e, q)
        BY <3>1, <3>3, ReplaceForks
      <4>2. ~prog.with => log'[e][q + 1] = log[e][q + 1]
        BY <3>1, ReplaceForks
      <4>3. \A z : ChildOK(e, q, z) => ChildOK(e, q, z)'
        BY <4>2 DEF Replace, ChildOK, Size
      <4> QED
        BY <1>1, <3>1, <4>1, <4>3 DEF HeapOK, ChildrenOK
    <3> QED
      BY <3>2, <3>3
  <2>2. \A e \in Descriptors : Levels(e)' = Levels(e)
    BY ReplaceSame
  <2> QED
    BY <1>3, <2>1, <2>2 DEF ChildrenOK, IsDone
<1>10. ValuesOK'
  <2>1. ASSUME NEW e \in Descriptors, Base(e)'
        PROVE  /\ Value(e)' = Unset \/ (Value(e)'[1] = "word" /\ Value(e)'[2] \in Nat)
               /\ Mark(e)' = Unset \/ Mark(e)' = Word(1)
    <3>1. Size(e)' = Size(e) /\ Size(e) + 1 \in 1 .. LogLen /\ Size(e) + 2 \in 1 .. LogLen
      BY <1>1, FitsLog, ReplaceSame
    <3>2. Base(e) /\ e # d
      BY <2>1, ReplaceForks
    <3>3. Value(e)' = Value(e) /\ Mark(e)' = Mark(e)
      BY <1>3, <3>1, <3>2 DEF Value, Mark
    <3> QED
      BY <1>1, <3>2, <3>3 DEF HeapOK, ValuesOK
  <2> QED
    BY <1>3, <2>1 DEF ValuesOK, Word
<1>11. FreshBlank'
  <2>1. status[d] # "fresh"
    <3> SUFFICES ASSUME status[d] = "fresh" PROVE FALSE
      OBVIOUS
    <3>1. log[d] = EmptyEntries
      BY <1>1 DEF HeapOK, FreshBlank
    <3> QED
      BY <1>3, <3>1 DEF EmptyEntries
  <2>2. ASSUME NEW e \in Descriptors, status'[e] = "fresh" PROVE desc'[e] = NoDesc /\ log'[e] = EmptyEntries
    <3>1. status[e] = "fresh" /\ e # d /\ desc'[e] = desc[e]
      BY <2>1, <2>2 DEF Replace
    <3>2. log'[e] = log[e]
      BY <1>1, <3>1 DEF Replace, TypeOK
    <3> QED
      BY <1>1, <3>1, <3>2 DEF HeapOK, FreshBlank
  <2>3. NoDesc' = NoDesc /\ EmptyEntries' = EmptyEntries
    BY DEF NoDesc, EmptyEntries, Unset
  <2> QED
    BY <2>2, <2>3 DEF FreshBlank
<1>12. DoneSettled' /\ ChainOrdered'
  BY ReplaceRely, DoneSettledKept, ChainKept DEF Replace
<1> QED
  BY <1>4, <1>6, <1>7, <1>8, <1>9, <1>10, <1>11, <1>12 DEF HeapOK

\* and leaves the pools alone.
LEMMA ReplacePool ==
  ASSUME InvA, NEW d \in Descriptors, NEW i, NEW r, Replace(d, i, r), TypeOK'
  PROVE  PoolKept
<1>1. ASSUME NEW e \in Descriptors, NEW y, HasChild(e, y)' PROVE HasChild(e, y)
  <2>1. PICK q \in Levels(e)' : Forks(e, q)' /\ ChildAt(e, q)' = Word(y)
    BY <1>1 DEF HasChild, Word
  <2>2. Forks(e, q) /\ q \in Levels(e)
    BY <2>1, ReplaceForks, ReplaceSame
  <2>3. ~(e = d /\ q = i)
    <3>1. ~IsDone(Word(y)) /\ IsDone(Done(r))
      BY EntryFacts
    <3> QED
      BY <2>1, <3>1, ReplaceForks
  <2>4. ChildAt(e, q)' = ChildAt(e, q)
    BY <2>2, <2>3, ReplaceForks
  <2> QED
    BY <2>1, <2>2, <2>4 DEF HasChild
<1>2. ASSUME NEW t \in Threads, NEW k \in Depth(t), stack[t][k].pc = "commit", NEW e, e = stack[t][k].d
      PROVE  ~Held(e)' /\ ~desc'[e].acquired
  <2>1. ~Held(e) /\ ~desc[e].acquired
    BY <1>2 DEF InvA, OwnersOK, Privacy
  <2>2. Held(e)' <=> Held(e)
    BY ReplaceSame
  <2> QED
    BY <2>1, <2>2 DEF Replace
<1>3. DescsKept => RootOK'
  BY ReplaceRely, RootNeutral DEF Replace
<1> QED
  BY <1>1, <1>2, <1>3 DEF PoolKept, Replace

\* The run that owns the descriptor goes on to retire it.
LEMMA ResultGo ==
  ASSUME InvA, NEW t \in Threads, NEW h, NEW f, NEW s, NEW n, Here(t, "result", h, f, s, n),
         NEW g \in Frames, g.pc = "retire", Alike(f, g), g.cur = f.cur, Continue(t, g), Rely({}), HeapOK', PoolKept,
         stack' \in [Threads -> Seq(Frames)] => TypeOK',
         calls' = calls, id' = id, helping' = helping, lg' = lg, prog' = prog,
         s = None \/ f.le # 0, s # None => ChildDone(s)'
  PROVE  InvA'
<1>1. /\ f.pc = "result" /\ f \in Frames /\ f = stack[t][h] /\ h \in Depth(t) /\ TypeOK
      /\ h = Height(t) /\ stack[t] # <<>> /\ s = Sec(t, h) /\ n = Pos(t, h)
  BY DEF Here, InvA
<1>2. f.pc \notin {"ran", "helped"} /\ f.pc # "reentered" /\ f.pc \notin Extending \cup Calling /\ f.pc \notin Inherited
  BY <1>1 DEF Extending, Inherited, Calling
<1>3. g.pc \notin Calling /\ g.pc \notin Inherited /\ Sharing(f) /\ Sharing(g) /\ g.pc \notin WithOnly \cup TryOnly
  BY <1>1 DEF Calling, Inherited, Sharing, Early, Storing, WithOnly, TryOnly
<1>4. Moves(f, g)
  BY <1>3 DEF Moves, Alike
<1>5. Conts(t, g) /\ stack' \in [Threads -> Seq(Frames)]
  BY <1>1, ContIs
<1>6. TypeOK' /\ ChildrenOK' /\ LocksOK'
  BY <1>5 DEF HeapOK
<1>7. FrameShape(t, f, s, n)' /\ FrameCur(t, f, s)' /\ FrameDesc(t, f, s)' /\ FrameCount(f)'
  BY <1>1, <1>6, FrameKept
<1>8. FrameShape(t, g, s, n)'
  BY <1>1, <1>3, <1>4, <1>7, MoveShape
<1>9. FrameDesc(t, g, s)'
  <2>1. s # None /\ g.le = 0 => Safe(g.d)'
    BY DEF Alike
  <2> QED
    BY <1>4, <1>7, <2>1, MoveDesc
<1>10. FrameCur(t, g, s)'
  BY <1>1, <1>3, <1>7 DEF FrameCur, HelpIn, Storing
<1>11. FrameCount(g)'
  BY <1>1, <1>3, <1>4, <1>7 DEF FrameCount, Moves, Storing, HasDesc, Sharing, Early
<1>12. NewFrame(t, g, s, n)'
  BY <1>8, <1>9, <1>10, <1>11 DEF NewFrame
<1>13. lg'[t] = lg[t] /\ lg'[t].n = n /\ ~lg'[t].new /\ lg'[t].d = s
       /\ (lg'[t].d = None => lg'[t] = EmptyLog) /\ \A z : z = lg'[t] /\ z.d # None => BlockOK(z)'
  BY <1>1, <1>2, <1>6, LgSame
<1>14. Owner(t, h)
  BY <1>1, <1>3 DEF Owner
<1>15. TopSame(f, g)
  BY <1>4, MoveTop
<1>16. \A u \in Threads \ {t} : lg'[u] = lg[u]
  OBVIOUS
<1> QED
  BY <1>2, <1>3, <1>5, <1>6, <1>12, <1>13, <1>14, <1>15, <1>16, StepCont

\* TryResult keeps the invariant outside of a lock,
LEMMA ResultOutside ==
  ASSUME InvA, NEW t \in Threads, TryResult(t), NEW h, NEW f, NEW n, Here(t, "result", h, f, None, n)
  PROVE  InvA'
<1>1. /\ f = Top(t) /\ f.pc = "result" /\ f \in Frames /\ f = stack[t][h] /\ h \in Depth(t) /\ TypeOK
      /\ h = Height(t) /\ stack[t] # <<>> /\ None = Sec(t, h) /\ FrameShape(t, f, None, n)
  BY DEF Here, InvA
<1>2. f.pc \notin {"ran", "helped"} /\ f.pc # "reentered" /\ f.pc \notin Storing
  BY <1>1 DEF Storing
<1>3. lg[t].d = None /\ f.le = 0
  BY <1>1, <1>2, LgHere DEF FrameShape, OutsideShape
<1>4. PICK g : g = [f EXCEPT !.pc = "retire"]
  OBVIOUS
<1>5. g \in Frames /\ g.pc = "retire" /\ Alike(f, g) /\ g.cur = f.cur
  BY <1>1, <1>4, PcNames DEF Frames, Alike
<1>6. Continue(t, g) /\ UNCHANGED <<lck, x, desc, ext, poolVars, localVars, histVars>> /\ log' = log
  BY <1>1, <1>3, <1>4 DEF TryResult, Owns, Goto
<1>7. /\ HeapSame /\ calls' = calls /\ id' = id /\ helping' = helping /\ lg' = lg /\ prog' = prog
      /\ x' = x /\ stores' = stores /\ made' = made
  BY <1>6 DEF HeapSame, poolVars, localVars, histVars
<1>8. Conts(t, g) /\ stack' \in [Threads -> Seq(Frames)]
  BY <1>1, <1>5, <1>6, ContIs
<1>9. TypeOK'
  BY <1>1, <1>7, <1>8, SameTypes DEF TypeOK
<1>10. Rely({}) /\ HeapOK' /\ PoolKept
  BY <1>7, <1>9, SameRely, SameHeap, SamePool
<1> QED
  BY <1>5, <1>6, <1>7, <1>9, <1>10, ResultGo

\* for the run that committed the descriptor,
LEMMA ResultReplaces ==
  ASSUME InvA, NEW t \in Threads, TryResult(t), NEW h, NEW f, NEW s, NEW n, Here(t, "result", h, f, s, n),
         s # None, f.le # 0
  PROVE  InvA'
<1>1. /\ f = Top(t) /\ f.pc = "result" /\ f \in Frames /\ f = stack[t][h] /\ h \in Depth(t) /\ TypeOK
      /\ h = Height(t) /\ stack[t] # <<>> /\ s = Sec(t, h) /\ FrameShape(t, f, s, n) /\ FrameCount(f)
      /\ FrameDesc(t, f, s)
  BY DEF Here, InvA
<1>2. f.pc \notin {"ran", "helped"} /\ f.pc # "reentered" /\ f.pc \notin Storing \cup {"load", "self", "reentered"}
      /\ Sharing(f)
  BY <1>1 DEF Storing, Sharing, Early
<1>3. lg[t].d = s
  BY <1>1, <1>2, LgHere
<1>4. PICK i : i = Level(f, s)
  OBVIOUS
<1>5. s \in Descriptors /\ InsideShape(f, s, n, i) /\ i \in Levels(s)
  BY <1>2, <1>4, PlaceHere
<1>6. Forks(s, i)
  BY <1>1, <1>2, <1>4, <1>5, ForksHere
<1>7. f.le = i + 1 + Off /\ (ChildAt(s, i) = Word(f.d) \/ IsDone(ChildAt(s, i)))
  BY <1>2, <1>5 DEF InsideShape
<1>8. Over(f.d) /\ f.d \in Descriptors /\ f.res \in BOOLEAN
  BY <1>1, <1>2, FrameType, HasD DEF FrameCount
<1>9. PICK g : g = [f EXCEPT !.pc = "retire"]
  OBVIOUS
<1>10. g \in Frames /\ g.pc = "retire" /\ Alike(f, g) /\ g.cur = f.cur
  BY <1>1, <1>9, PcNames DEF Frames, Alike
<1>11. /\ Continue(t, g) /\ UNCHANGED <<lck, x, desc, ext, poolVars, localVars, histVars>>
       /\ log' = [log EXCEPT ![s][f.le] = Done(f.res)]
  BY <1>1, <1>3, <1>9 DEF TryResult, Owns, Goto
<1>12. /\ lck' = lck /\ desc' = desc /\ ext' = ext /\ status' = status
       /\ freeList' = freeList /\ prog' = prog /\ callOf' = callOf
       /\ calls' = calls /\ id' = id /\ helping' = helping /\ lg' = lg
       /\ x' = x /\ stores' = stores /\ made' = made
  BY <1>11 DEF poolVars, localVars, histVars
<1>13. Replace(s, i, f.res)
  <2>1. ChildAt(s, i) # Unset /\ \A e \in Descriptors : ChildAt(s, i) = Word(e) => Over(e)
    BY <1>7, <1>8, EntryFacts
  <2> QED
    BY <1>6, <1>7, <1>8, <1>11, <1>12, <2>1 DEF Replace
<1>14. Conts(t, g) /\ stack' \in [Threads -> Seq(Frames)]
  BY <1>1, <1>10, <1>11, ContIs
<1>15. TypeOK'
  <2>1. log' \in [Descriptors -> [1 .. LogLen -> Entries]]
    BY <1>5, <1>13, ReplaceEntries
  <2> QED
    BY <1>1, <1>12, <1>14, <2>1 DEF TypeOK
<1>16. Rely({}) /\ HeapOK' /\ PoolKept
  BY <1>5, <1>13, <1>15, ReplaceRely, ReplaceHeap, ReplacePool
<1>17. ChildDone(s)'
  <2>1. ChildAt(s, i)' = Done(f.res) /\ Forks(s, i)' /\ i \in Levels(s)'
    BY <1>5, <1>13, ReplaceForks, ReplaceSame
  <2>2. IsDone(ChildAt(s, i)')
    BY <2>1, EntryFacts
  <2> QED
    BY <2>1, <2>2 DEF ChildDone, IsDone
<1> QED
  BY <1>10, <1>11, <1>12, <1>15, <1>16, <1>17, ResultGo

\* and for the others.
LEMMA ResultReturns ==
  ASSUME InvA, NEW t \in Threads, TryResult(t), NEW h, NEW f, NEW s, NEW n, Here(t, "result", h, f, s, n),
         s # None, f.le = 0
  PROVE  InvA'
<1>1. /\ f = Top(t) /\ f.pc = "result" /\ f \in Frames /\ f = stack[t][h] /\ h \in Depth(t) /\ TypeOK
      /\ h = Height(t) /\ stack[t] # <<>> /\ s = Sec(t, h) /\ FrameShape(t, f, s, n) /\ FrameCount(f)
      /\ FrameDesc(t, f, s)
  BY DEF Here, InvA
<1>2. f.pc \notin {"ran", "helped"} /\ f.pc # "reentered" /\ f.pc \notin Storing \cup {"load", "self", "reentered"}
      /\ Sharing(f) /\ f.pc \notin Inherited \cup {"ran"} /\ f.pc \notin Extending
  BY <1>1 DEF Storing, Sharing, Early, Inherited, Extending
<1>3. lg[t].d = s
  BY <1>1, <1>2, LgHere
<1>4. Return(t, f.res) /\ UNCHANGED <<heapVars, poolVars, localVars>> /\ f.res \in BOOLEAN
  BY <1>1, <1>3, FrameType DEF TryResult, Owns, heapVars
<1>5. Settled(s)
  <2>1. PICK i : i = Level(f, s)
    OBVIOUS
  <2>2. s \in Descriptors /\ i \in Levels(s)
    BY <1>2, <2>1, PlaceHere
  <2>3. Forks(s, i)
    BY <1>1, <1>2, <2>1, <2>2, ForksHere
  <2>4. CASE IsDone(ChildAt(s, i))
    BY <2>2, <2>3, <2>4 DEF Settled, ChildDone
  <2>5. CASE ~IsDone(ChildAt(s, i))
    <3>1. HasChild(s, f.d) /\ f.d \in Descriptors
      BY <1>1, <1>2, <2>1, <2>2, <2>5, ChildHere
    <3>2. Over(f.d)
      BY <1>1 DEF FrameCount, Storing
    <3> QED
      BY <3>1, <3>2 DEF Settled
  <2> QED
    BY <2>4, <2>5
<1>6. ~Owner(t, h)
  BY <1>1 DEF Owner
<1> QED
  BY <1>2, <1>4, <1>5, <1>6, StayPop

\* TryResult keeps the invariant.
LEMMA TryResultOK ==
  ASSUME InvA, NEW t \in Threads, TryResult(t)
  PROVE  InvA'
<1>1. PICK h, f, s, n : Here(t, "result", h, f, s, n)
  BY HereIs DEF TryResult
<1> QED
  BY <1>1, ResultOutside, ResultReplaces, ResultReturns

\* A thread gives a descriptor back.
Drops(t, d) ==
  /\ status[d] = "live" /\ ~Installed(d) /\ \A s \in Descriptors : ~HasChild(s, d)
  /\ \/ /\ status' = [status EXCEPT ![d] = "freed"] /\ desc' = desc /\ ~desc[d].acquired
        /\ freeList' = [freeList EXCEPT ![t] = <<d>> \o @] /\ (prog.reuse => desc[d].thread = t)
     \/ /\ status' = [status EXCEPT ![d] = "retired"] /\ freeList' = freeList
        /\ desc' = [desc EXCEPT ![d].acquired = FALSE] /\ Over(d)
  /\ lck' = lck /\ log' = log /\ ext' = ext /\ prog' = prog /\ callOf' = callOf

\* What giving a descriptor back leaves alone.
LEMMA DropSame ==
  ASSUME InvA, NEW t \in Threads, NEW d \in Descriptors, Drops(t, d)
  PROVE  /\ \A e \in Descriptors :
              /\ desc'[e].path = desc[e].path /\ desc'[e].lock = desc[e].lock /\ desc'[e].thread = desc[e].thread
              /\ desc'[e].counter = desc[e].counter /\ desc'[e].done = desc[e].done
              /\ e # d => desc'[e] = desc[e] /\ status'[e] = status[e]
              /\ desc'[e].acquired => desc[e].acquired
              /\ Size(e)' = Size(e) /\ Levels(e)' = Levels(e)
         /\ status'[d] \in {"freed", "retired"} /\ (status'[d] = "freed" => ~desc[d].acquired)
         /\ status'[d] = "retired" => Over(d)
         /\ status' \in [Descriptors -> {"fresh", "live", "freed", "retired", "twice"}]
         /\ freeList' \in [Threads -> Seq(Descriptors)]
         /\ desc' \in [Descriptors ->
              [path : Seq(Locks), lock : Locks \cup {None}, done : BOOLEAN,
               acquired : BOOLEAN, thread : Threads \cup {None}, counter : Nat]]
         /\ Off' = Off /\ prog' = prog /\ Unset' = Unset
<1>1. TypeOK
  BY DEF InvA
<1>2. Off' = Off /\ prog' = prog /\ Unset' = Unset
  BY DEF Drops, Off, Unset
<1>3. /\ status' \in [Descriptors -> {"fresh", "live", "freed", "retired", "twice"}]
      /\ \A e \in Descriptors : e # d => status'[e] = status[e]
      /\ status'[d] \in {"freed", "retired"}
  BY <1>1 DEF Drops, TypeOK
<1>4. freeList' \in [Threads -> Seq(Descriptors)]
  <2>1. <<d>> \o freeList[t] \in Seq(Descriptors)
    BY <1>1, Prepended DEF TypeOK
  <2> QED
    BY <1>1, <2>1 DEF Drops, TypeOK
<1>5. CASE desc' = desc /\ ~desc[d].acquired /\ status'[d] = "freed"
  BY <1>1, <1>2, <1>3, <1>4, <1>5 DEF TypeOK, Size, Levels
<1>6. CASE desc' = [desc EXCEPT ![d].acquired = FALSE] /\ status'[d] = "retired" /\ Over(d)
  <2>1. PICK b : b = [desc EXCEPT ![d].acquired = FALSE]
    OBVIOUS
  <2>2. /\ b \in [Descriptors ->
              [path : Seq(Locks), lock : Locks \cup {None}, done : BOOLEAN,
               acquired : BOOLEAN, thread : Threads \cup {None}, counter : Nat]]
        /\ \A e \in Descriptors \ {d} : b[e] = desc[e]
        /\ b[d].path = desc[d].path /\ b[d].lock = desc[d].lock /\ b[d].thread = desc[d].thread
        /\ b[d].counter = desc[d].counter /\ b[d].done = desc[d].done /\ b[d].acquired = FALSE
    BY <1>1, <2>1, DescSet
  <2>3. desc' = b
    BY <1>6, <2>1
  <2>4. ASSUME NEW e \in Descriptors
        PROVE  /\ desc'[e].path = desc[e].path /\ desc'[e].lock = desc[e].lock /\ desc'[e].thread = desc[e].thread
               /\ desc'[e].counter = desc[e].counter /\ desc'[e].done = desc[e].done
               /\ e # d => desc'[e] = desc[e]
               /\ desc'[e].acquired => desc[e].acquired
    <3>1. CASE e = d
      BY <2>2, <2>3, <3>1
    <3>2. CASE e # d
      BY <2>2, <2>3, <3>2
    <3> QED
      BY <3>1, <3>2
  <2>5. \A e \in Descriptors : Size(e)' = Size(e) /\ Levels(e)' = Levels(e)
    BY <2>4 DEF Size, Levels
  <2>6. desc' \in [Descriptors ->
              [path : Seq(Locks), lock : Locks \cup {None}, done : BOOLEAN,
               acquired : BOOLEAN, thread : Threads \cup {None}, counter : Nat]]
    BY <2>2, <2>3
  <2> QED
    BY <1>2, <1>3, <1>4, <1>6, <2>4, <2>5, <2>6
<1>7. \/ desc' = desc /\ ~desc[d].acquired /\ status'[d] = "freed"
      \/ desc' = [desc EXCEPT ![d].acquired = FALSE] /\ status'[d] = "retired" /\ Over(d)
  BY <1>1 DEF Drops, TypeOK
<1> QED
  BY <1>5, <1>6, <1>7

\* The logs and locks after it.
LEMMA DropLogs ==
  ASSUME InvA, NEW t \in Threads, NEW d \in Descriptors, Drops(t, d)
  PROVE  /\ \A e : Installed(e)' <=> Installed(e)
         /\ \A e \in Descriptors : (Held(e)' <=> Held(e)) /\ (Over(e)' <=> Over(e))
         /\ \A l \in Locks : \A c : (AtMost(l, c)' <=> AtMost(l, c)) /\ (Moved(l, c)' <=> Moved(l, c))
         /\ \A e \in Descriptors : \A j \in 1 .. LogLen : Own(e, j)' <=> Own(e, j)
         /\ \A e \in Descriptors : \A i \in 0 .. LogLen : OwnUpTo(e, i)' <=> OwnUpTo(e, i)
         /\ \A e \in Descriptors : \A i : Forks(e, i)' <=> Forks(e, i)
         /\ \A e \in Descriptors : \A i : ChildAt(e, i)' = ChildAt(e, i)
         /\ \A e \in Descriptors : \A y : HasChild(e, y)' <=> HasChild(e, y)
         /\ \A e \in Descriptors : Base(e)' <=> Base(e)
         /\ \A e \in Descriptors : Value(e)' = Value(e) /\ Mark(e)' = Mark(e)
<1>1. TypeOK /\ PathsFit /\ lck' = lck /\ log' = log
  BY DEF InvA, HeapOK, Drops
<1>2. \A e : Installed(e)' <=> Installed(e)
  BY <1>1 DEF Installed
<1>3. /\ \A e \in Descriptors :
              /\ desc'[e].path = desc[e].path /\ desc'[e].lock = desc[e].lock /\ desc'[e].thread = desc[e].thread
              /\ desc'[e].counter = desc[e].counter /\ desc'[e].done = desc[e].done
              /\ Size(e)' = Size(e) /\ Levels(e)' = Levels(e)
      /\ Off' = Off /\ prog' = prog /\ Unset' = Unset
  BY DropSame
<1>4. \A l \in Locks : \A c : (AtMost(l, c)' <=> AtMost(l, c)) /\ (Moved(l, c)' <=> Moved(l, c))
  BY <1>1, <1>3 DEF AtMost, Moved
<1>5. ASSUME NEW e \in Descriptors PROVE (Held(e)' <=> Held(e)) /\ (Over(e)' <=> Over(e))
  <2>1. Held(e)' <=> Held(e)
    BY <1>2, <1>3 DEF Held
  <2>2. Moved(desc[e].lock, desc[e].counter)' <=> Moved(desc[e].lock, desc[e].counter)
    BY <1>1, <1>3 DEF Moved
  <2> QED
    BY <1>2, <1>3, <2>1, <2>2 DEF Over
<1>6. \A e \in Descriptors : \A j \in 1 .. LogLen : Own(e, j)' <=> Own(e, j)
  BY <1>1, <1>3 DEF Own
<1>7. ASSUME NEW e \in Descriptors, NEW i \in 0 .. LogLen PROVE OwnUpTo(e, i)' <=> OwnUpTo(e, i)
  <2>1. \A j \in 1 .. i : j \in 1 .. LogLen
    BY Consts
  <2>2. \A j \in 1 .. i : Own(e, j)' <=> Own(e, j)
    BY <1>6, <2>1
  <2> QED
    BY <2>2 DEF OwnUpTo
<1>8. ASSUME NEW e \in Descriptors, NEW i PROVE Forks(e, i)' <=> Forks(e, i)
  <2>1. ASSUME i \in Levels(e) PROVE Forks(e, i)' <=> Forks(e, i)
    <3>1. i \in 0 .. LogLen /\ i + 1 \in 1 .. LogLen
      BY <1>1, <2>1, FitsLog, Consts
    <3>2. (OwnUpTo(e, i)' <=> OwnUpTo(e, i)) /\ (Own(e, i + 1)' <=> Own(e, i + 1))
      BY <1>6, <1>7, <3>1
    <3> QED
      BY <1>1, <1>3, <2>1, <3>2 DEF Forks
  <2>2. ASSUME i \notin Levels(e) PROVE Forks(e, i)' <=> Forks(e, i)
    BY <1>3, <2>2 DEF Forks
  <2> QED
    BY <2>1, <2>2
<1>9. \A e \in Descriptors : \A i : ChildAt(e, i)' = ChildAt(e, i)
  BY <1>1, <1>3 DEF ChildAt
<1>10. \A e \in Descriptors : \A y : HasChild(e, y)' <=> HasChild(e, y)
  BY <1>3, <1>8, <1>9 DEF HasChild, Word
<1>11. ASSUME NEW e \in Descriptors PROVE Base(e)' <=> Base(e)
  <2>1. PICK m : m = Size(e)
    OBVIOUS
  <2>2. m \in 0 .. LogLen
    BY <1>1, <2>1, FitsLog, Consts
  <2>3. OwnUpTo(e, m)' <=> OwnUpTo(e, m)
    BY <1>7, <2>2
  <2> QED
    BY <1>3, <2>1, <2>3 DEF Base
<1>12. \A e \in Descriptors : Value(e)' = Value(e) /\ Mark(e)' = Mark(e)
  BY <1>1, <1>3 DEF Value, Mark
<1> QED
  BY <1>2, <1>4, <1>5, <1>6, <1>7, <1>8, <1>9, <1>10, <1>11, <1>12

\* Frames may rely on it.
LEMMA DropRely ==
  ASSUME InvA, NEW t \in Threads, NEW d \in Descriptors, Drops(t, d)
  PROVE  Rely({})
<1>1. TypeOK
  BY DEF InvA
<1>2. ASSUME NEW e \in Descriptors PROVE DescKept(e)
  <2>1. \A k \in 1 .. LogLen : EntryKept(e, k)
    BY DEF Drops, EntryKept
  <2>2. ext[e] <= ext'[e] /\ desc[e].counter <= desc'[e].counter
    BY <1>1, DescType, DropSame DEF Drops
  <2>3. \A l \in Locks : AtMost(l, desc[e].counter) => AtMost(l, desc[e].counter)'
    BY DropSame DEF AtMost, Drops
  <2> QED
    BY <2>1, <2>2, <2>3, DropSame, DropLogs DEF DescKept, Drops
<1>3. ASSUME NEW e \in Descriptors PROVE StatusKept(e)
  <2>1. CASE e # d
    BY <2>1, DropSame DEF StatusKept, Safe
  <2>2. CASE e = d
    BY <2>2, DropSame DEF StatusKept, Safe, Drops
  <2> QED
    BY <2>1, <2>2
<1>4. \A l \in Locks : \A c \in Nat : LockKept(l, c)
  BY DropLogs DEF LockKept
<1> QED
  BY <1>2, <1>3, <1>4 DEF Drops, Rely

\* The free lists after it.
LEMMA DropFree ==
  ASSUME InvA, NEW t \in Threads, NEW d \in Descriptors, Drops(t, d)
  PROVE  FreeOK'
<1>1. TypeOK /\ FreeOK /\ status[d] = "live" /\ prog' = prog
  BY DEF InvA, HeapOK, Drops
<1>2. \A u \in Threads : freeList[u] \in Seq(Descriptors) /\ Len(freeList[u]) \in Nat
  BY <1>1 DEF TypeOK
<1>3. ASSUME NEW u \in Threads, NEW j \in 1 .. Len(freeList[u]), NEW e, e = freeList[u][j]
      PROVE  /\ e \in Descriptors /\ e # d /\ status'[e] = "freed"
             /\ prog.reuse => desc'[e].thread = u
  <2>1. e \in Descriptors /\ status[e] = "freed" /\ (prog.reuse => desc[e].thread = u)
    BY <1>1, <1>2, <1>3 DEF FreeOK
  <2>2. e # d
    BY <1>1, <2>1
  <2> QED
    BY <2>1, <2>2, DropSame
<1>4. CASE freeList' = freeList
  <2>1. \A u \in Threads : \A j \in 1 .. Len(freeList[u]) :
          status'[freeList[u][j]] = "freed" /\ (prog.reuse => desc'[freeList[u][j]].thread = u)
    BY <1>3
  <2> QED
    BY <1>1, <1>4, <2>1 DEF FreeOK
<1>5. CASE /\ status' = [status EXCEPT ![d] = "freed"] /\ desc' = desc
           /\ freeList' = [freeList EXCEPT ![t] = <<d>> \o @] /\ (prog.reuse => desc[d].thread = t)
  <2>1. PICK c : c = <<d>> \o freeList[t]
    OBVIOUS
  <2>2. PICK m \in Nat : m = Len(freeList[t])
    BY <1>2
  <2>3. /\ freeList'[t] = c /\ \A u \in Threads \ {t} : freeList'[u] = freeList[u]
    BY <1>1, <1>5, <2>1 DEF TypeOK
  <2>4. Len(c) = m + 1 /\ c[1] = d /\ \A j \in 2 .. m + 1 : c[j] = freeList[t][j - 1]
    BY <1>2, <2>1, <2>2
  <2>5. status'[d] = "freed"
    BY <1>1, <1>5 DEF TypeOK
  <2>6. ASSUME NEW u \in Threads, NEW j \in 1 .. Len(freeList'[u])
        PROVE  \/ u = t /\ j = 1 /\ freeList'[u][j] = d
               \/ \E i \in 1 .. Len(freeList[u]) : /\ freeList'[u][j] = freeList[u][i]
                                                   /\ i = IF u = t THEN j - 1 ELSE j
    <3>1. CASE u = t
      <4>1. j \in 1 .. m + 1 /\ freeList'[u][j] = c[j]
        BY <2>3, <2>4, <3>1
      <4>2. CASE j = 1
        BY <2>4, <3>1, <4>1, <4>2
      <4>3. CASE j # 1
        <5>1. j \in 2 .. m + 1 /\ j - 1 \in 1 .. m
          BY <4>1, <4>3
        <5> QED
          BY <2>2, <2>4, <3>1, <4>1, <5>1
      <4> QED
        BY <4>2, <4>3
    <3>2. CASE u # t
      BY <2>3, <3>2
    <3> QED
      BY <3>1, <3>2
  <2>7. \A u \in Threads : Len(freeList'[u]) \in Nat
    <3>1. freeList' \in [Threads -> Seq(Descriptors)]
      BY DropSame
    <3> QED
      BY <3>1
  <2>8. ASSUME NEW u \in Threads, NEW j \in 1 .. Len(freeList'[u]), NEW e, e = freeList'[u][j]
        PROVE  status'[e] = "freed" /\ (prog'.reuse => desc'[e].thread = u)
    BY <1>1, <1>3, <1>5, <2>5, <2>6, <2>8
  <2>9. ASSUME NEW u \in Threads, NEW v \in Threads,
               NEW j \in 1 .. Len(freeList'[u]), NEW i \in 1 .. Len(freeList'[v]),
               NEW e, freeList'[u][j] = e, e = freeList'[v][i]
        PROVE  u = v /\ j = i
    <3>1. j \in Int /\ i \in Int
      BY <2>7
    <3>2. \/ u = t /\ j = 1 /\ e = d
          \/ \E a \in 1 .. Len(freeList[u]) : e = freeList[u][a] /\ a = IF u = t THEN j - 1 ELSE j
      BY <2>6, <2>9
    <3>3. \/ v = t /\ i = 1 /\ e = d
          \/ \E a \in 1 .. Len(freeList[v]) : e = freeList[v][a] /\ a = IF v = t THEN i - 1 ELSE i
      BY <2>6, <2>9
    <3>4. CASE e = d
      BY <1>3, <3>2, <3>3, <3>4
    <3>5. CASE e # d
      <4>1. PICK a \in 1 .. Len(freeList[u]) : e = freeList[u][a] /\ a = IF u = t THEN j - 1 ELSE j
        BY <3>2, <3>5
      <4>2. PICK b \in 1 .. Len(freeList[v]) : e = freeList[v][b] /\ b = IF v = t THEN i - 1 ELSE i
        BY <3>3, <3>5
      <4>3. u = v /\ a = b
        BY <1>1, <4>1, <4>2 DEF FreeOK
      <4> QED
        BY <3>1, <4>1, <4>2, <4>3
    <3> QED
      BY <3>4, <3>5
  <2> QED
    BY <2>8, <2>9 DEF FreeOK
<1> QED
  BY <1>4, <1>5 DEF Drops

\* Giving a descriptor back keeps what is true of the heap.
LEMMA DropHeap ==
  ASSUME InvA, NEW t \in Threads, NEW d \in Descriptors, Drops(t, d)
  PROVE  HeapOK'
<1>1. HeapOK /\ TypeOK /\ PathsFit
  BY DEF InvA, HeapOK
<1>2. /\ \A e \in Descriptors :
              /\ desc'[e].path = desc[e].path /\ desc'[e].lock = desc[e].lock /\ desc'[e].thread = desc[e].thread
              /\ desc'[e].counter = desc[e].counter /\ desc'[e].done = desc[e].done
              /\ e # d => desc'[e] = desc[e] /\ status'[e] = status[e]
              /\ Size(e)' = Size(e) /\ Levels(e)' = Levels(e)
      /\ status'[d] \in {"freed", "retired"} /\ (status'[d] = "retired" => Over(d))
      /\ Off' = Off /\ prog' = prog /\ Unset' = Unset
  BY DropSame
<1>3. status[d] = "live" /\ ~Installed(d) /\ lck' = lck /\ log' = log /\ ext' = ext
  BY DEF Drops
<1>4. \A e \in Descriptors : (status'[e] = "fresh" <=> status[e] = "fresh") /\ status'[e] # "twice"
  <2>1. NotTwice
    BY <1>1 DEF HeapOK
  <2> QED
    BY <1>2, <1>3, <2>1 DEF NotTwice
<1>5. FlatReuse' /\ PathsFit' /\ ReuseFlat' /\ PrefixSet' /\ InBlocks' /\ NotTwice'
  BY <1>1, <1>2, <1>3, <1>4 DEF HeapOK, FlatReuse, PathsFit, ReuseFlat, PrefixSet, InBlocks, NotTwice
<1>6. LogsKnown' /\ UsedFull'
  BY <1>1, <1>2, <1>3, <1>4 DEF HeapOK, LogsKnown, UsedFull
<1>7. FreshBlank'
  <2>1. NoDesc' = NoDesc /\ EmptyEntries' = EmptyEntries
    BY DEF NoDesc, EmptyEntries, Unset
  <2>2. ASSUME NEW e \in Descriptors, status'[e] = "fresh" PROVE desc'[e] = NoDesc /\ log'[e] = EmptyEntries
    <3>1. status[e] = "fresh" /\ e # d
      BY <1>3, <1>4, <2>2
    <3> QED
      BY <1>1, <1>2, <1>3, <3>1 DEF HeapOK, FreshBlank
  <2> QED
    BY <2>1, <2>2 DEF FreshBlank
<1>8. \A e \in Descriptors : Known(e) => Known(e)'
  BY <1>2, <1>4, DropLogs DEF Known
<1>9. LoadsOK'
  <2>1. ASSUME NEW e \in Descriptors, NEW i \in Levels(e), ~prog.with, OwnUpTo(e, i)' PROVE LoadEntry(e, i)'
    <3>1. i \in 0 .. LogLen /\ i + 1 \in 1 .. LogLen /\ i + 1 <= Size(e) /\ i \in Nat
      BY <1>1, FitsLog, Consts
    <3>2. OwnUpTo(e, i)
      BY <2>1, <3>1, DropLogs
    <3>3. LoadEntry(e, i)
      BY <1>1, <2>1, <3>2 DEF HeapOK, LoadsOK
    <3>4. PICK en : en = log[e][i + 1]
      OBVIOUS
    <3>5. PICK l : l = desc[e].path[i + 1]
      OBVIOUS
    <3>6. l \in Locks
      <4>1. desc[e].path \in Seq(Locks)
        BY <1>1, DescType
      <4>2. i + 1 \in 1 .. Len(desc[e].path)
        BY <3>1 DEF Size
      <4> QED
        BY <3>5, <4>1, <4>2
    <3>7. \/ en = Unset
          \/ en[1] = "word" /\ en[2] \in Nat \ {0} /\ AtMost(l, en[2])
          \/ en[1] = "word" /\ en[2] \in Descriptors /\ Known(en[2])
      BY <3>3, <3>4, <3>5 DEF LoadEntry
    <3>8. log'[e][i + 1] = en /\ desc'[e].path[i + 1] = l
      BY <1>2, <1>3, <3>4, <3>5
    <3>9. ASSUME NEW w, w = en[2] PROVE (AtMost(l, w) => AtMost(l, w)') /\ (w \in Descriptors /\ Known(w) => Known(w)')
      BY <1>8, <3>6, DropLogs
    <3> QED
      BY <1>2, <3>7, <3>8, <3>9 DEF LoadEntry
  <2> QED
    BY <1>2, <2>1 DEF LoadsOK
<1>10. ChildrenOK'
  <2>1. ASSUME NEW e \in Descriptors, NEW i \in Levels(e), Forks(e, i)'
        PROVE  \/ ChildAt(e, i)' = Unset
               \/ IsDone(ChildAt(e, i)')
               \/ ChildAt(e, i)'[1] = "word" /\ \A z : z = ChildAt(e, i)'[2] => ChildOK(e, i, z)'
    <3>1. Forks(e, i) /\ ChildAt(e, i)' = ChildAt(e, i)
      BY <2>1, DropLogs
    <3>2. ASSUME ChildAt(e, i)[1] = "word", NEW z, z = ChildAt(e, i)[2], ChildOK(e, i, z) PROVE ChildOK(e, i, z)'
      <4>1. ChildAt(e, i) \in Entries
        <5>1. i + 1 + Off \in 1 .. LogLen
          BY <1>1, FitsLog
        <5> QED
          BY <1>1, <5>1, DescType DEF ChildAt
      <4>2. ChildAt(e, i) = Word(z)
        BY <3>2, <4>1, EntryKinds
      <4>3. HasChild(e, z)
        BY <3>1, <4>2 DEF HasChild
      <4>4. z # d /\ z \in Descriptors
        BY <3>2, <4>3 DEF Drops, ChildOK
      <4> QED
        BY <1>2, <1>3, <3>2, <4>4 DEF ChildOK, Drops
    <3> QED
      BY <1>1, <3>1, <3>2 DEF HeapOK, ChildrenOK
  <2> QED
    BY <1>2, <2>1 DEF ChildrenOK, IsDone
<1>11. ValuesOK'
  BY <1>1, DropLogs DEF HeapOK, ValuesOK, Unset, Word
<1>12. FreeOK'
  BY DropFree
<1>13. LocksOK'
  BY <1>1, <1>2, <1>3 DEF HeapOK, LocksOK, Installed
<1>14. CountersOK'
  <2>1. ASSUME NEW e \in Descriptors
        PROVE  /\ Held(e)' => desc'[e].counter > 0
               /\ desc'[e].done /\ ~prog'.with => Moved(desc[e].lock, desc[e].counter)'
    <3>1. (Held(e) => desc[e].counter > 0) /\ (desc[e].done /\ ~prog.with => Moved(desc[e].lock, desc[e].counter))
      BY <1>1 DEF HeapOK, CountersOK
    <3>2. Moved(desc[e].lock, desc[e].counter) => Moved(desc[e].lock, desc[e].counter)'
      BY <1>2, <1>3 DEF Moved
    <3>3. Held(e)' <=> Held(e)
      BY DropLogs
    <3> QED
      BY <1>2, <3>1, <3>2, <3>3
  <2> QED
    BY <2>1 DEF CountersOK
<1>15. RetiredOver'
  BY <1>1, <1>2, DropLogs DEF HeapOK, RetiredOver
<1>16. DoneSettled' /\ ChainOrdered'
  <2>1. \A e \in Descriptors : desc'[e].done => Settled(e)' \/ (desc[e].done /\ e \notin {})
    BY <1>2
  <2> QED
    BY <1>3, <2>1, DropRely, DoneSettledKept, ChainKept
<1> QED
  BY <1>5, <1>6, <1>7, <1>9, <1>10, <1>11, <1>12, <1>13, <1>14, <1>15, <1>16 DEF HeapOK

\* The call that gave it back does not own it any more.
LEMMA DropOwners ==
  ASSUME InvA, NEW t \in Threads, NEW h \in Depth(t), Owner(t, h),
         NEW d \in Descriptors, d = stack[t][h].d, Drops(t, d), TypeOK',
         \A u \in Threads : \A k \in Depth(u)' : k \in Depth(u),
         \A u \in Threads : \A k \in Depth(u) : ~(u = t /\ k = h) =>
           /\ k \in Depth(u)' /\ SameButRes(stack'[u][k], stack[u][k])
           /\ Sec(u, k)' = Sec(u, k) /\ (Owner(u, k)' <=> Owner(u, k)),
         h \in Depth(t)' =>
           /\ ~Owner(t, h)' /\ stack'[t][h].pc \notin {"commit", "retire"}
           /\ HasDesc(stack'[t][h]) => \A u \in Threads : \A k \in Depth(u) :
                stack[u][k].pc = "commit" => stack[u][k].d # stack'[t][h].d
  PROVE  OwnersOK'
<1>1. OwnersLive /\ OwnersUnique /\ OwnerLinks /\ Privacy /\ RetireDone /\ LiveOwned /\ RootOK
  BY DEF InvA, OwnersOK
<1>2. ASSUME NEW u \in Threads, NEW k \in Depth(u)', Owner(u, k)' \/ stack'[u][k].pc \in {"commit", "retire"}
      PROVE  /\ ~(u = t /\ k = h) /\ k \in Depth(u) /\ (Owner(u, k)' <=> Owner(u, k)) /\ Sec(u, k)' = Sec(u, k)
             /\ stack'[u][k].d = stack[u][k].d /\ stack'[u][k].pc = stack[u][k].pc
             /\ stack'[u][k].le = stack[u][k].le
  BY <1>2 DEF SameButRes
<1>3. OwnersLive'
  <2>1. ASSUME NEW u \in Threads, NEW k \in Depth(u)', Owner(u, k)' PROVE status'[stack'[u][k].d] = "live"
    <3>1. Owner(u, k) /\ ~(u = t /\ k = h) /\ k \in Depth(u) /\ stack'[u][k].d = stack[u][k].d
      BY <1>2, <2>1
    <3>2. stack[u][k].d # d /\ status[stack[u][k].d] = "live"
      BY <1>1, <3>1 DEF OwnersUnique, OwnersLive
    <3>3. stack[u][k].d \in Descriptors
      BY <3>1, OwnerHas, FrameFacts DEF FrameOK, FrameDesc
    <3> QED
      BY <3>1, <3>2, <3>3, DropSame
  <2> QED
    BY <2>1 DEF OwnersLive
<1>4. OwnersUnique'
  <2>1. ASSUME NEW u \in Threads, NEW v \in Threads, NEW k \in Depth(u)', NEW m \in Depth(v)',
               Owner(u, k)', Owner(v, m)', stack'[u][k].d = stack'[v][m].d
        PROVE  u = v /\ k = m
    <3>1. /\ k \in Depth(u) /\ Owner(u, k) /\ stack'[u][k].d = stack[u][k].d
          /\ m \in Depth(v) /\ Owner(v, m) /\ stack'[v][m].d = stack[v][m].d
      BY <1>2, <2>1
    <3> QED
      BY <1>1, <2>1, <3>1 DEF OwnersUnique
  <2> QED
    BY <2>1 DEF OwnersUnique
<1>5. OwnerLinks'
  <2>1. ASSUME NEW u \in Threads, NEW k \in Depth(u)', Owner(u, k)', NEW e \in Descriptors,
               NEW y, y = stack'[u][k].d, HasChild(e, y)'
        PROVE  stack'[u][k].le # 0 /\ e = Sec(u, k)'
    <3>1. /\ k \in Depth(u) /\ Owner(u, k) /\ stack'[u][k].d = stack[u][k].d
          /\ stack'[u][k].le = stack[u][k].le /\ Sec(u, k)' = Sec(u, k)
      BY <1>2, <2>1
    <3>2. HasChild(e, y)
      BY <2>1, DropLogs
    <3> QED
      BY <1>1, <2>1, <3>1, <3>2 DEF OwnerLinks
  <2> QED
    BY <2>1 DEF OwnerLinks
<1>6. Privacy'
  <2>1. ASSUME NEW u \in Threads, NEW k \in Depth(u)', stack'[u][k].pc = "commit", NEW y, y = stack'[u][k].d
        PROVE  /\ ~Held(y)' /\ ~desc'[y].acquired
               /\ \A v \in Threads : \A m \in Depth(v)' :
                    HasDesc(stack'[v][m]) /\ stack'[v][m].d = y => v = u /\ m = k
    <3>1. k \in Depth(u) /\ stack[u][k].pc = "commit" /\ y = stack[u][k].d
      BY <1>2, <2>1
    <3>2. /\ ~Held(y) /\ ~desc[y].acquired
          /\ \A v \in Threads : \A m \in Depth(v) : HasDesc(stack[v][m]) /\ stack[v][m].d = y => v = u /\ m = k
      BY <1>1, <3>1 DEF Privacy
    <3>3. y \in Descriptors
      BY <3>1, FrameFacts DEF FrameOK, FrameDesc, HasDesc, Early, Storing
    <3>4. ~Held(y)' /\ ~desc'[y].acquired
      BY <3>2, <3>3, DropLogs, DropSame
    <3>5. ASSUME NEW v \in Threads, NEW m \in Depth(v)', HasDesc(stack'[v][m]), stack'[v][m].d = y
          PROVE  v = u /\ m = k
      <4>1. CASE v = t /\ m = h
        BY <3>1, <3>5, <4>1
      <4>2. CASE ~(v = t /\ m = h)
        <5>1. m \in Depth(v) /\ SameButRes(stack'[v][m], stack[v][m])
          BY <3>5, <4>2
        <5>2. HasDesc(stack[v][m]) /\ stack[v][m].d = y
          BY <3>5, <5>1 DEF SameButRes, HasDesc
        <5> QED
          BY <3>2, <5>1, <5>2
      <4> QED
        BY <4>1, <4>2
    <3> QED
      BY <3>4, <3>5
  <2> QED
    BY <2>1 DEF Privacy
<1>7. RetireDone'
  <2>1. ASSUME NEW u \in Threads, NEW k \in Depth(u)', stack'[u][k].pc = "retire", NEW y, y = Sec(u, k)'
        PROVE  Owner(u, k)' /\ (y # None => ChildDone(y)')
    <3>1. k \in Depth(u) /\ stack[u][k].pc = "retire" /\ y = Sec(u, k) /\ (Owner(u, k)' <=> Owner(u, k))
      BY <1>2, <2>1
    <3>2. Owner(u, k) /\ (y # None => ChildDone(y))
      BY <1>1, <3>1 DEF RetireDone
    <3>3. y \in Descriptors \cup {None}
      BY <3>1, FrameFacts
    <3> QED
      BY <3>1, <3>2, <3>3, DropRely, ChildDoneKept
  <2> QED
    BY <2>1 DEF RetireDone
<1>8. LiveOwned'
  <2>1. ASSUME NEW e \in Descriptors, status'[e] = "live"
        PROVE  \E u \in Threads : \E k \in Depth(u)' : Owner(u, k)' /\ stack'[u][k].d = e
    <3>1. e # d /\ status[e] = "live"
      <4>1. status'[d] \in {"freed", "retired"}
        BY DropSame
      <4>2. e # d => status'[e] = status[e]
        BY <2>1, DropSame
      <4> QED
        BY <2>1, <4>1, <4>2
    <3>0. PICK u \in Threads : \E k \in Depth(u) : Owner(u, k) /\ stack[u][k].d = e
      BY <1>1, <3>1 DEF LiveOwned
    <3>2. PICK k \in Depth(u) : Owner(u, k) /\ stack[u][k].d = e
      BY <3>0
    <3>3. ~(u = t /\ k = h)
      BY <3>1, <3>2
    <3>4. k \in Depth(u)' /\ Owner(u, k)' /\ stack'[u][k].d = e
      BY <3>2, <3>3 DEF SameButRes
    <3> QED
      BY <3>4
  <2> QED
    BY <2>1 DEF LiveOwned
<1>9. RootOK'
  <2>1. ASSUME NEW e \in Descriptors, Installed(e)', NEW u, u = desc[e].thread, NEW r, r = stack[u][1].d
        PROVE  RootIs(e, u, r)' /\ desc'[e].thread = u /\ stack'[u][1].d = r
    <3>1. Installed(e) /\ desc'[e].thread = u
      BY <2>1, DropLogs, DropSame
    <3>2. RootIs(e, u, r)
      BY <1>1, <2>1, <3>1 DEF RootOK
    <3>3. /\ u \in Threads /\ stack[u] # <<>> /\ Sharing(stack[u][1]) /\ stack[u][1].d = r
          /\ Installed(r) /\ (e = r \/ Size(e) < Size(r))
      BY <3>2 DEF RootIs
    <3>4. 1 \in Depth(u)
      <4>1. Height(u) \in Nat /\ Height(u) >= 1
        BY <3>3, HeightType DEF InvA
      <4> QED
        BY <4>1 DEF Depth
    <3>5. ~(u = t /\ 1 = h)
      BY <2>1, <3>3 DEF Drops
    <3>6. 1 \in Depth(u)' /\ SameButRes(stack'[u][1], stack[u][1])
      BY <3>3, <3>4, <3>5
    <3>7. stack'[u] # <<>> /\ Sharing(stack'[u][1]) /\ stack'[u][1].d = r
      <4>1. stack'[u] # <<>>
        <5> SUFFICES ASSUME stack'[u] = <<>> PROVE FALSE
          OBVIOUS
        <5>1. Len(stack'[u]) = 0
          OBVIOUS
        <5> QED
          BY <3>6, <5>1 DEF Depth, Height
      <4> QED
        BY <3>3, <3>6, <4>1 DEF SameButRes, Sharing
    <3>8. Installed(r)' /\ (e = r \/ Size(e)' < Size(r)')
      <4>1. r \in Descriptors
        <5>1. FrameOK(u, 1, stack[u][1], Sec(u, 1), Pos(u, 1))
          BY <3>3, <3>4, FrameFacts
        <5> QED
          BY <3>3, <5>1, HasD DEF FrameOK
      <4> QED
        BY <3>3, <4>1, DropLogs, DropSame
    <3> QED
      BY <3>1, <3>3, <3>7, <3>8 DEF RootIs
  <2> QED
    BY <2>1 DEF RootOK
<1> QED
  BY <1>3, <1>4, <1>5, <1>6, <1>7, <1>8, <1>9 DEF OwnersOK

\* The destructor gives the descriptor back.
LEMMA DestructDrops ==
  ASSUME InvA, NEW t \in Threads, NEW d \in Descriptors, Destruct(t, d), status[d] = "live", ~Installed(d),
         ~desc[d].acquired, prog.reuse => desc[d].thread = t, \A s \in Descriptors : ~HasChild(s, d),
         desc' = desc, lck' = lck, log' = log, ext' = ext, prog' = prog, callOf' = callOf
  PROVE  Drops(t, d)
<1>1. status' = [status EXCEPT ![d] = "freed"]
  BY DEF Destruct, GiveBack, InvA, TypeOK
<1>2. freeList' = [freeList EXCEPT ![t] = <<d>> \o @]
  BY DEF Destruct
<1> QED
  BY <1>1, <1>2 DEF Drops

\* So does retire.
LEMMA RetireDrops ==
  ASSUME InvA, NEW t \in Threads, NEW d \in Descriptors, Retire(t, d), status[d] = "live", Over(d),
         prog.reuse => desc[d].thread = t, \A s \in Descriptors : ~HasChild(s, d),
         lck' = lck, log' = log, ext' = ext, prog' = prog, callOf' = callOf
  PROVE  Drops(t, d)
<1>1. ~Installed(d)
  BY DEF Over
<1>2. CASE desc[d].acquired
  <2>1. status' = [status EXCEPT ![d] = "retired"]
    BY <1>2 DEF Retire, GiveBack, InvA, TypeOK
  <2>2. desc' = [desc EXCEPT ![d].acquired = FALSE] /\ freeList' = freeList
    BY <1>2 DEF Retire
  <2> QED
    BY <1>1, <2>1, <2>2 DEF Drops
<1>3. CASE ~desc[d].acquired
  BY <1>1, <1>3, DestructDrops DEF Retire
<1> QED
  BY <1>2, <1>3

\* Giving back keeps the types.
LEMMA DropTypes ==
  ASSUME InvA, NEW t \in Threads, NEW d \in Descriptors, Drops(t, d),
         x' = x, calls' = calls, stores' \in [Locks -> Nat], made' = made,
         stack' \in [Threads -> Seq(Frames)], lg' \in [Threads -> Log], id' = id, helping' = helping
  PROVE  TypeOK'
<1>1. TypeOK /\ lck' = lck /\ log' = log /\ ext' = ext /\ prog' = prog /\ callOf' = callOf
  BY DEF InvA, Drops
<1>2. /\ status' \in [Descriptors -> {"fresh", "live", "freed", "retired", "twice"}]
      /\ freeList' \in [Threads -> Seq(Descriptors)]
      /\ desc' \in [Descriptors ->
           [path : Seq(Locks), lock : Locks \cup {None}, done : BOOLEAN,
            acquired : BOOLEAN, thread : Threads \cup {None}, counter : Nat]]
  BY DropSame
<1> QED
  BY <1>1, <1>2 DEF TypeOK

\* The innermost frame of t owns what is given back.
LEMMA DropGives ==
  ASSUME InvA, NEW t \in Threads, stack[t] # <<>>, NEW d \in Descriptors, Drops(t, d),
         NEW h, h = Height(t), Owner(t, h), stack[t][h].d = d, stack[t][h].pc \in {"commit", "retire"}
  PROVE  GivesBack(t)
BY DropSame DEF GivesBack

\* The caller goes on without the call that has given its descriptor back.
LEMMA DropPop ==
  ASSUME InvA, NEW t \in Threads, NEW w, NEW h, NEW f, NEW s, NEW n, Here(t, w, h, f, s, n),
         w \in {"commit", "retire"}, Owner(t, h), NEW d \in Descriptors, d = f.d, Drops(t, d),
         NEW r, Pops(t, r), stack' \in [Threads -> Seq(Frames)], stores' \in [Locks -> Nat],
         x' = x, calls' = calls, made' = made, id' = id, helping' = helping,
         lg' \in [Threads -> Log], \A u \in Threads \ {t} : lg'[u] = lg[u], lg'[t].d = s,
         \A z : z = lg'[t] /\ z.d # None => BlockOK(z)',
         ~lg'[t].new, lg'[t].d = None => lg'[t] = EmptyLog, s # None => ChildDone(s)
  PROVE  InvA'
<1>1. /\ f.pc = w /\ f = stack[t][h] /\ h \in Depth(t) /\ h = Height(t) /\ stack[t] # <<>> /\ s = Sec(t, h)
      /\ s \in Descriptors \cup {None} /\ f.pc \notin Inherited \cup {"ran"}
  BY DEF Here, Inherited
<1>2. TypeOK' /\ HeapOK' /\ Rely({}) /\ GivesBack(t)
  BY <1>1, DropTypes, DropHeap, DropRely, DropGives
<1>3. Alone(t)
  BY DEF Alone
<1>4. s # None => Settled(s)'
  <2>1. s # None => ChildDone(s)'
    BY <1>1, <1>2, ChildDoneKept
  <2> QED
    BY <2>1 DEF Settled
<1>5. StackOK'
  BY <1>1, <1>2, <1>3, <1>4, PopStackOK
<1>6. h = 1 => id'[t] = t
  <2>1. h = 1 => s = None
    BY <1>1 DEF InvA, StackOK, SectionsNest
  <2>2. id[t] = IdIn(t, s)
    BY <1>1, IdHere
  <2> QED
    BY <2>1, <2>2 DEF IdIn
<1>7. OwnersOK'
  <2>1. ChildrenOK' /\ LocksOK'
    BY <1>2 DEF HeapOK
  <2>2. /\ \A u \in Threads : \A k \in Depth(u) : u # t \/ k < h =>
              /\ SameButRes(stack'[u][k], stack[u][k])
              /\ Sec(u, k)' = Sec(u, k) /\ (Owner(u, k)' <=> Owner(u, k))
        /\ \A u \in Threads \ {t} : Depth(u)' = Depth(u)
        /\ h \in Depth(t) /\ Depth(t)' = Depth(t) \ {h}
    BY <1>1, <1>2, <1>3, <1>6, <2>1, PopOK
  <2>3. \A k \in Depth(t) : k < h \/ k = h
    BY <1>1, TopIn
  <2>4. \A u \in Threads : \A k \in Depth(u)' : k \in Depth(u)
    BY <2>2
  <2>5. \A u \in Threads : \A k \in Depth(u) : ~(u = t /\ k = h) =>
           /\ k \in Depth(u)' /\ SameButRes(stack'[u][k], stack[u][k])
           /\ Sec(u, k)' = Sec(u, k) /\ (Owner(u, k)' <=> Owner(u, k))
    BY <2>2, <2>3
  <2>6. h \notin Depth(t)'
    BY <2>2
  <2> QED
    BY <1>1, <1>2, <2>4, <2>5, <2>6, DropOwners
<1> QED
  BY <1>2, <1>5, <1>7 DEF InvA

\* TryRetire keeps the invariant.
LEMMA TryRetireOK ==
  ASSUME InvA, NEW t \in Threads, TryRetire(t)
  PROVE  InvA'
<1>1. PICK h, f, s, n : Here(t, "retire", h, f, s, n)
  BY HereIs DEF TryRetire
<1>2. /\ f = Top(t) /\ f.pc = "retire" /\ f \in Frames /\ f = stack[t][h] /\ h \in Depth(t) /\ TypeOK
      /\ h = Height(t) /\ stack[t] # <<>> /\ s = Sec(t, h) /\ n = Pos(t, h) /\ FrameCount(f) /\ FrameDesc(t, f, s)
      /\ s \in Descriptors \cup {None}
  BY <1>1 DEF Here, InvA
<1>3. /\ f.pc \notin {"ran", "helped"} /\ f.pc # "reentered" /\ f.pc \notin Extending /\ Sharing(f) /\ HasDesc(f)
      /\ f.pc \notin Storing
  BY <1>2 DEF Extending, Sharing, HasDesc, Early, Storing
<1>4. PICK d : d = f.d
  OBVIOUS
<1>5. Owner(t, h) /\ (s # None => ChildDone(s))
  BY <1>2 DEF InvA, OwnersOK, RetireDone
<1>6. d \in Descriptors /\ Over(d) /\ status[d] = "live"
  BY <1>2, <1>3, <1>4, <1>5, HasD DEF FrameCount, InvA, OwnersOK, OwnersLive
<1>7. \A e \in Descriptors : ~HasChild(e, d)
  <2> SUFFICES ASSUME NEW e \in Descriptors, HasChild(e, d) PROVE FALSE
    OBVIOUS
  <2>1. e = s
    BY <1>2, <1>4, <1>5 DEF InvA, OwnersOK, OwnerLinks
  <2>2. ChildDone(e)
    BY <1>5, <2>1, Consts
  <2> QED
    BY <1>2, <2>2, OneChild DEF InvA, HeapOK
<1>8. prog.reuse => desc[d].thread = t
  <2>1. prog.reuse => s = None
    BY <1>2, <1>3, ReuseOutside
  <2> QED
    BY <1>2, <1>3, <1>4, <2>1 DEF FrameDesc, IdIn
<1>9. Retire(t, d) /\ Return(t, f.res) /\ UNCHANGED <<lck, x, log, ext, localVars>> /\ f.res \in BOOLEAN
  BY <1>2, <1>4, FrameType DEF TryRetire
<1>10. /\ Pops(t, f.res) /\ stack' \in [Threads -> Seq(Frames)]
       /\ stores' \in [Locks -> Nat] /\ prog' = prog /\ calls' = calls /\ callOf' = callOf /\ made' = made
  BY <1>2, <1>9, PopIs
<1>11. Drops(t, d)
  BY <1>6, <1>7, <1>8, <1>9, <1>10, RetireDrops
<1>12. /\ lg' = lg /\ id' = id /\ helping' = helping
  BY <1>9 DEF localVars
<1>13. Rely({}) /\ TypeOK'
  BY <1>2, <1>6, <1>9, <1>10, <1>11, <1>12, DropRely, DropTypes DEF TypeOK
<1>14. ~lg'[t].new /\ lg'[t].d = s /\ lg' \in [Threads -> Log]
       /\ (lg'[t].d = None => lg'[t] = EmptyLog) /\ \A z : z = lg'[t] /\ z.d # None => BlockOK(z)'
  BY <1>2, <1>3, <1>12, <1>13, LgSame DEF TypeOK
<1> QED
  BY <1>1, <1>4, <1>5, <1>6, <1>9, <1>10, <1>11, <1>12, <1>14, DropPop

\* The entry that another run has written: the result of its call, or its descriptor.
LEMMA LostChild ==
  ASSUME InvA, NEW t \in Threads, NEW h, NEW f, NEW s, NEW n, Here(t, "commit", h, f, s, n),
         NEW j \in 1 .. LogLen, j = n + 1, log[s][j] # Unset, NEW i, i = Level(f, s)
  PROVE  /\ ChildAt(s, i) = log[s][j] /\ Forks(s, i) /\ i \in Levels(s) /\ j = i + 1 + Off
         /\ IsDone(log[s][j]) => ChildDone(s) /\ log[s][j][2] \in BOOLEAN
         /\ ~IsDone(log[s][j]) => \E e \in Descriptors :
              /\ log[s][j] = Word(e) /\ HasChild(s, e) /\ ChildOK(s, i, e) /\ e # f.d
<1>1. /\ s \in Descriptors /\ s # None /\ f.d \in Descriptors /\ n = i + Off /\ Forks(s, i) /\ Owner(t, h) /\ f.le = 0
  BY CommitReady, Consts
<1>2. f = stack[t][h] /\ h \in Depth(t) /\ f.pc = "commit"
  BY DEF Here
<1>3. i \in Levels(s) /\ i \in Nat
  BY <1>1, <1>2, PlaceHere DEF Storing
<1>4. j = i + 1 + Off
  BY <1>1, <1>3, ProgType DEF InvA
<1>5. ChildAt(s, i) = log[s][j]
  BY <1>4 DEF ChildAt
<1>6. log[s][j] \in Entries
  BY <1>1, DescType DEF InvA
<1>7. IsDone(log[s][j]) => ChildDone(s) /\ log[s][j][2] \in BOOLEAN
  BY <1>1, <1>3, <1>5, <1>6, EntryKinds, EntryFacts DEF ChildDone, IsDone
<1>8. ASSUME ~IsDone(log[s][j])
      PROVE  \E e \in Descriptors : /\ log[s][j] = Word(e) /\ HasChild(s, e) /\ ChildOK(s, i, e) /\ e # f.d
  <2>1. PICK e : e = log[s][j][2]
    OBVIOUS
  <2>2. log[s][j] = Word(e)
    BY <1>6, <1>8, <2>1, EntryKinds
  <2>3. ChildOK(s, i, e)
    <3>1. \/ ChildAt(s, i) = Unset
          \/ IsDone(ChildAt(s, i))
          \/ ChildAt(s, i)[1] = "word" /\ ChildOK(s, i, ChildAt(s, i)[2])
      BY <1>1, <1>3 DEF InvA, HeapOK, ChildrenOK
    <3> QED
      BY <1>5, <1>8, <2>1, <3>1
  <2>4. HasChild(s, e)
    BY <1>1, <1>3, <1>5, <2>2 DEF HasChild
  <2>5. ~HasChild(s, f.d)
    BY <1>1, <1>2 DEF InvA, OwnersOK, OwnerLinks
  <2> QED
    BY <2>2, <2>3, <2>4, <2>5 DEF ChildOK
<1> QED
  BY <1>1, <1>3, <1>4, <1>5, <1>7, <1>8

\* The descriptor of the run that has lost is nobody else's.
LEMMA LostDrops ==
  ASSUME InvA, NEW t \in Threads, NEW h, NEW f, NEW s, NEW n, Here(t, "commit", h, f, s, n),
         NEW d, d = f.d, Destruct(t, d),
         desc' = desc, lck' = lck, log' = log, ext' = ext, prog' = prog, callOf' = callOf
  PROVE  Drops(t, d)
<1>1. /\ d \in Descriptors /\ Owner(t, h) /\ status[d] = "live" /\ ~Held(d) /\ f.le = 0 /\ s # None
  BY CommitReady, Consts
<1>2. f = stack[t][h] /\ h \in Depth(t) /\ f.pc = "commit" /\ s = Sec(t, h)
  BY DEF Here
<1>3. ~Installed(d) /\ ~desc[d].acquired
  BY <1>1, <1>2 DEF Held, InvA, OwnersOK, Privacy
<1>4. \A e \in Descriptors : ~HasChild(e, d)
  BY <1>1, <1>2 DEF InvA, OwnersOK, OwnerLinks
<1>5. ~prog.reuse
  BY <1>1, <1>2, ReuseOutside DEF Storing
<1> QED
  BY <1>1, <1>3, <1>4, <1>5, DestructDrops

\* The frame that goes on with the descriptor of the other run.
LEMMA LostFrame ==
  ASSUME InvA, NEW t \in Threads, NEW h, NEW f, NEW s, NEW n, Here(t, "commit", h, f, s, n),
         NEW j \in 1 .. LogLen, j = n + 1, NEW i, i = Level(f, s),
         NEW e \in Descriptors, log[s][j] = Word(e), ChildOK(s, i, e), e # f.d,
         NEW d, d = f.d, Drops(t, d), TypeOK', HeapOK', Rely({}), calls' = calls,
         NEW g \in Frames, g.pc = "acquire", g.lock = f.lock, g.path = f.path, g.d = e, g.le = f.le, g.cur = f.cur
  PROVE  NewFrame(t, g, s, j)'
<1>1. /\ f.pc = "commit" /\ f \in Frames /\ f = stack[t][h] /\ h \in Depth(t) /\ s = Sec(t, h) /\ n = Pos(t, h) /\ TypeOK
      /\ FrameShape(t, f, s, n) /\ FrameCur(t, f, s) /\ FrameDesc(t, f, s) /\ FrameCount(f)
  BY DEF Here, InvA
<1>2. /\ s \in Descriptors /\ s # None /\ d \in Descriptors /\ n = i + Off /\ Forks(s, i) /\ f.le = 0
      /\ f.pc \notin Storing /\ f.pc \notin Early \cup Calling
  BY <1>1, CommitReady, Consts DEF Storing, Early, Calling
<1>3. /\ i \in Levels(s) /\ i \in Nat /\ f.lock = desc[s].path[i + 1] /\ Len(f.path) = Size(s) - i - 1
      /\ InsideShape(f, s, n, i)
  BY <1>2, PlaceHere
<1>4. /\ log' = log /\ lck' = lck /\ callOf' = callOf /\ prog' = prog /\ Off' = Off
      /\ \A y \in Descriptors :
              /\ desc'[y].path = desc[y].path /\ desc'[y].lock = desc[y].lock /\ desc'[y].thread = desc[y].thread
              /\ desc'[y].counter = desc[y].counter
              /\ y # d => desc'[y] = desc[y] /\ status'[y] = status[y]
              /\ Size(y)' = Size(y)
  BY <1>2, DropSame DEF Drops
<1>5. Level(f, s)' = i /\ Level(g, s)' = i
  BY <1>2, <1>4 DEF Level
<1>6. f.cur \in Nat \cup Descriptors
  BY <1>1, <1>2 DEF FrameCount
<1>7. /\ Sharing(g) /\ HasDesc(g) /\ HasDesc(f) /\ g.pc \notin Inherited \cup Storing \cup Early \cup HelpIn
  BY <1>1 DEF Sharing, HasDesc, Early, Storing, Inherited, HelpIn
<1>8. FrameShape(t, f, s, n)' /\ FrameCur(t, f, s)' /\ FrameDesc(t, f, s)' /\ FrameCount(f)'
  <2>1. ChildrenOK' /\ LocksOK'
    BY DEF HeapOK
  <2> QED
    BY <1>1, <2>1, FrameKept
<1>9. j = i + 1 + Off
  BY <1>1, <1>2, <1>3, ProgType
<1>10. ChildAt(s, i)' = Word(e) /\ ChildAt(s, i) = Word(e)
  BY <1>4, <1>9 DEF ChildAt
<1>11. FrameShape(t, g, s, j)'
  <2>1. LockShape(t, f, s)' /\ InsideShape(f, s, n, i)'
    BY <1>1, <1>2, <1>5, <1>8 DEF FrameShape
  <2>2. LockShape(t, g, s)'
    BY <1>4, <2>1 DEF LockShape, WithOnly, TryOnly
  <2>3. InsideShape(g, s, j, i)'
    BY <1>1, <1>2, <1>4, <1>7, <1>9, <1>10, <2>1 DEF InsideShape
  <2> QED
    BY <1>2, <1>5, <1>7, <2>2, <2>3 DEF FrameShape
<1>12. FrameCur(t, g, s)'
  BY <1>1, <1>2, <1>7, <1>8 DEF FrameCur, HelpIn, Storing
<1>13. FrameDesc(t, g, s)'
  <2>1. ~IsDone(ChildAt(s, i)')
    BY <1>10, EntryFacts
  <2>2. ~IsDone(ChildAt(s, Level(g, s)))'
    <3>1. IsDone(ChildAt(s, Level(g, s)))' <=> IsDone(ChildAt(s, i)')
      BY <1>5 DEF ChildAt, IsDone
    <3> QED
      BY <2>1, <3>1
  <2>3. /\ status[e] = "live" /\ desc[e].lock = f.lock /\ Size(e) = Len(f.path)
        /\ IsRest(desc[e].path, desc[s].path) /\ desc[e].thread = desc[s].thread /\ callOf[e] = callOf[s]
    BY <1>3 DEF ChildOK
  <2>4. ~prog.with => desc[e].counter = CounterOf(g)
    <3>1. ASSUME ~prog.with PROVE log[s][i + 1][2] = f.cur
      <4>1. log[s][i + 1] = Word(f.cur)
        BY <1>1, <1>3, <3>1 DEF InsideShape
      <4> QED
        BY <4>1, EntryFacts
    <3> QED
      BY <3>1 DEF ChildOK, CounterOf, IsLocked
  <2>5. status'[e] # "fresh" /\ desc'[e].lock = g.lock /\ Size(e)' = Len(g.path)
        /\ IsRest(desc'[e].path, desc'[s].path) /\ desc'[e].thread = desc'[s].thread /\ callOf'[e] = callOf'[s]
        /\ (~prog'.with => desc'[e].counter = CounterOf(g))
    BY <1>2, <1>4, <2>3, <2>4
  <2>6. PathIn(t, s)' = desc'[s].path /\ IdIn(t, s)' = desc'[s].thread /\ NumberIn(t, s)' = callOf'[s]
    BY <1>2 DEF PathIn, IdIn, NumberIn
  <2>7. CounterOf(g)' = CounterOf(g)
    BY DEF CounterOf, IsLocked
  <2> QED
    BY <2>2, <2>5, <2>6, <2>7 DEF FrameDesc
<1>14. FrameCount(g)'
  <2>1. AtMost(f.lock, desc[e].counter)
    <3>1. PICK u \in Threads : \E k \in Depth(u) : Owner(u, k) /\ stack[u][k].d = e
      BY DEF ChildOK, InvA, OwnersOK, LiveOwned
    <3>2. PICK k \in Depth(u) : Owner(u, k) /\ stack[u][k].d = e
      BY <3>1
    <3>3. HasDesc(stack[u][k]) /\ FrameDesc(u, stack[u][k], Sec(u, k)) /\ FrameCount(stack[u][k])
      BY <3>2, OwnerHas, FrameFacts DEF FrameOK
    <3>4. desc[e].lock = stack[u][k].lock
      BY <3>2, <3>3 DEF FrameDesc
    <3>5. AtMost(stack[u][k].lock, desc[e].counter)
      BY <3>2, <3>3 DEF FrameCount, HasDesc
    <3>6. desc[e].lock = f.lock
      BY <1>3 DEF ChildOK
    <3> QED
      BY <3>4, <3>5, <3>6
  <2>2. AtMost(f.lock, desc[e].counter)'
    <3>1. AtMost(f.lock, desc[e].counter)' <=> AtMost(f.lock, desc[e].counter)
      <4>1. f.lock \in Locks
        BY <1>1, FrameType
      <4>2. lck \in [Locks -> Nat \cup Descriptors]
        BY <1>1 DEF TypeOK
      <4> QED
        BY <1>4, <4>1, <4>2 DEF AtMost
    <3> QED
      BY <2>1, <3>1
  <2> QED
    BY <1>1, <1>2, <1>6, <1>7, <1>8, <2>2 DEF FrameCount
<1> QED
  BY <1>11, <1>12, <1>13, <1>14 DEF NewFrame

\* TryCommit keeps the invariant when another run was first, and so in both
\* cases.
LEMMA TryCommitLoses ==
  ASSUME InvA, NEW t \in Threads, TryCommit(t), Entry(t) # Unset
  PROVE  InvA'
<1>1. PICK h, f, s, n : Here(t, "commit", h, f, s, n)
  BY HereIs DEF TryCommit
<1>2. /\ f = Top(t) /\ f.pc = "commit" /\ f \in Frames /\ f = stack[t][h] /\ h \in Depth(t) /\ TypeOK
      /\ h = Height(t) /\ stack[t] # <<>> /\ s = Sec(t, h) /\ n = Pos(t, h) /\ PathsFit
  BY <1>1 DEF Here, InvA, HeapOK
<1>3. /\ s \in Descriptors /\ s # None /\ f.d \in Descriptors /\ n = Level(f, s) + Off /\ f.pc \notin Storing
      /\ Owner(t, h) /\ f.le = 0
  BY <1>1, <1>2, CommitReady, Consts DEF Storing
<1>4. f.pc \notin {"ran", "helped"} /\ f.pc # "reentered" /\ f.pc \in Extending /\ f.pc \notin Inherited
  BY <1>2 DEF Extending, Inherited
<1>5. lg[t].d = s /\ lg[t].n = n
  BY <1>1, <1>4, LgHere
<1>6. PICK j : j = n + 1
  OBVIOUS
<1>7. j \in 1 .. LogLen
  <2>1. Level(f, s) + 1 + Off \in 1 .. LogLen /\ Level(f, s) \in Nat
    BY <1>1, <1>3, PlaceHere
  <2> QED
    BY <1>2, <1>3, <1>6, <2>1, ProgType
<1>8. PICK d : d = f.d
  OBVIOUS
<1>9. PICK en : en = Committed(t, d)
  OBVIOUS
<1>10. /\ Commit(t, d) /\ Destruct(t, d) /\ UNCHANGED <<lck, x, desc, ext, id, helping>>
       /\ IF IsDone(en)
            THEN Return(t, en[2])
            ELSE /\ Continue(t, [f EXCEPT !.d = en[2], !.pc = "acquire"])
                 /\ UNCHANGED histVars
  BY <1>2, <1>8, <1>9 DEF TryCommit
<1>11. log[s][j] # Unset /\ Entry(t) = log[s][j]
  BY <1>5, <1>6 DEF Entry
<1>12. ~AtEnd(t) /\ NextLg(t) /\ log' = log /\ en = log[s][j]
  BY <1>2, <1>3, <1>5, <1>6, <1>7, <1>9, <1>10, <1>11, CommitIs
<1>13. /\ lg' \in [Threads -> Log] /\ lg'[t].d = s /\ lg'[t].n = j /\ ~lg'[t].new
       /\ \A u \in Threads \ {t} : lg'[u] = lg[u]
       /\ \A y : y = lg'[t] => BlockOK(y)
  BY <1>1, <1>3, <1>4, <1>6, <1>7, <1>12, LgNext
<1>14. PICK i : i = Level(f, s)
  OBVIOUS
<1>15. /\ ChildAt(s, i) = log[s][j] /\ Forks(s, i) /\ i \in Levels(s) /\ j = i + 1 + Off
       /\ IsDone(en) => ChildDone(s) /\ en[2] \in BOOLEAN
       /\ ~IsDone(en) => \E e \in Descriptors :
            /\ log[s][j] = Word(e) /\ HasChild(s, e) /\ ChildOK(s, i, e) /\ e # d
  BY <1>1, <1>6, <1>7, <1>8, <1>11, <1>12, <1>14, LostChild
<1>16. \A z : z = lg'[t] /\ z.d # None => BlockOK(z)'
  BY <1>10, <1>13 DEF BlockOK
<1>17. /\ ~lg'[t].new
       /\ (lg'[t].d = None => lg'[t] = EmptyLog)
  BY <1>3, <1>13
<1>18. CASE IsDone(en)
  <2>1. Return(t, en[2])
    BY <1>10, <1>18
  <2>2. en[2] \in BOOLEAN
    BY <1>15, <1>18
  <2>3. /\ Pops(t, en[2]) /\ stack' \in [Threads -> Seq(Frames)]
        /\ stores' \in [Locks -> Nat] /\ prog' = prog /\ calls' = calls /\ callOf' = callOf /\ made' = made
    BY <1>2, <2>1, <2>2, PopIs
  <2>4. Drops(t, d)
    BY <1>1, <1>8, <1>10, <1>12, <2>3, LostDrops
  <2>5. x' = x /\ id' = id /\ helping' = helping /\ ChildDone(s) /\ d \in Descriptors
    BY <1>3, <1>8, <1>10, <1>15, <1>18
  <2> QED
    BY <1>1, <1>3, <1>8, <1>13, <1>16, <1>17, <2>3, <2>4, <2>5, DropPop
<1>19. CASE ~IsDone(en)
  <2>1. PICK e \in Descriptors : log[s][j] = Word(e) /\ HasChild(s, e) /\ ChildOK(s, i, e) /\ e # d
    BY <1>15, <1>19
  <2>2. en[2] = e
    BY <1>12, <2>1, EntryFacts
  <2>3. PICK g : g = [f EXCEPT !.d = e, !.pc = "acquire"]
    OBVIOUS
  <2>4. /\ g \in Frames /\ g.pc = "acquire" /\ g.lock = f.lock /\ g.path = f.path /\ g.d = e
        /\ g.le = f.le /\ g.cur = f.cur
    BY <1>2, <2>3, PcNames DEF Frames
  <2>5. Continue(t, g) /\ UNCHANGED histVars
    BY <1>10, <1>19, <2>2, <2>3
  <2>6. Conts(t, g) /\ stack' \in [Threads -> Seq(Frames)]
    BY <1>2, <2>4, <2>5, ContIs
  <2>7. /\ x' = x /\ calls' = calls /\ stores' = stores /\ made' = made /\ id' = id /\ helping' = helping
        /\ prog' = prog /\ callOf' = callOf /\ d \in Descriptors
    BY <1>3, <1>8, <1>10, <2>5 DEF histVars
  <2>8. Drops(t, d)
    BY <1>1, <1>8, <1>10, <1>12, <2>7, LostDrops
  <2>9. TypeOK'
    <3>1. stores' \in [Locks -> Nat]
      BY <1>2, <2>7 DEF TypeOK
    <3> QED
      BY <1>13, <2>6, <2>7, <2>8, <3>1, DropTypes
  <2>10. HeapOK' /\ Rely({})
    BY <2>7, <2>8, DropHeap, DropRely
  <2>11. GivesBack(t) /\ Alone(t) /\ ChildrenOK' /\ LocksOK'
    <3>1. GivesBack(t)
      BY <1>2, <1>3, <1>8, <2>7, <2>8, DropGives
    <3> QED
      BY <1>13, <1>17, <2>7, <2>10, <3>1 DEF Alone, HeapOK
  <2>12. NewFrame(t, g, s, j)'
    BY <1>1, <1>6, <1>7, <1>8, <1>14, <2>1, <2>4, <2>7, <2>8, <2>9, <2>10, LostFrame
  <2>13. g.pc \notin Calling /\ g.pc \notin Inherited
    BY <2>4 DEF Calling, Inherited
  <2>14. id'[t] = TopId(t, g)'
    <3>1. IdIn(t, s)' = id[t] /\ TopId(t, g)' = id[t]
      BY <1>2, <1>4, <1>13, <2>7, <2>10, <2>13, IdStays
    <3> QED
      BY <2>7, <3>1
  <2>15. StackOK'
    BY <1>2, <1>13, <1>16, <2>6, <2>9, <2>10, <2>11, <2>12, <2>13, <2>14, ContStack
  <2>16. OwnersOK'
    <3>1. FrameShape(t, g, s, j)' /\ FrameCur(t, g, s)' /\ FrameDesc(t, g, s)' /\ FrameCount(g)'
      BY <2>12 DEF NewFrame
    <3>2. /\ \A u \in Threads : \A k \in Depth(u) : u # t \/ k < h =>
                /\ stack'[u][k] = stack[u][k]
                /\ Sec(u, k)' = Sec(u, k) /\ (Owner(u, k)' <=> Owner(u, k))
          /\ \A u \in Threads : Depth(u)' = Depth(u)
          /\ h \in Depth(t) /\ Sec(t, h)' = s /\ stack'[t][h] = g
      BY <1>2, <1>13, <2>6, <2>9, <2>10, <2>11, <2>13, <3>1, ContOK
    <3>3. \A k \in Depth(t) : k < h \/ k = h
      BY <1>2, TopIn
    <3>4. \A u \in Threads : \A k \in Depth(u)' : k \in Depth(u)
      BY <3>2
    <3>5. \A u \in Threads : \A k \in Depth(u) : ~(u = t /\ k = h) =>
             /\ k \in Depth(u)' /\ SameButRes(stack'[u][k], stack[u][k])
             /\ Sec(u, k)' = Sec(u, k) /\ (Owner(u, k)' <=> Owner(u, k))
      BY <3>2, <3>3 DEF SameButRes
    <3>6. ~Owner(t, h)' /\ stack'[t][h].pc \notin {"commit", "retire"}
      BY <1>3, <2>4, <3>2 DEF Owner
    <3>7. \A u \in Threads : \A k \in Depth(u) : stack[u][k].pc = "commit" => stack[u][k].d # e
      <4> SUFFICES ASSUME NEW u \in Threads, NEW k \in Depth(u), stack[u][k].pc = "commit", stack[u][k].d = e
                   PROVE  FALSE
        OBVIOUS
      <4>1. Owner(u, k)
        BY DEF Owner
      <4>2. stack[u][k].le # 0
        BY <1>3, <2>1, <4>1 DEF InvA, OwnersOK, OwnerLinks
      <4>3. FrameOK(u, k, stack[u][k], Sec(u, k), Pos(u, k))
        BY FrameFacts
      <4>4. stack[u][k].le = 0
        BY <4>3 DEF FrameOK, FrameShape, OutsideShape, InsideShape, Sharing, Storing
      <4> QED
        BY <4>2, <4>4
    <3> QED
      BY <1>2, <1>3, <1>8, <2>4, <2>7, <2>8, <2>9, <3>2, <3>4, <3>5, <3>6, <3>7, DropOwners
  <2> QED
    BY <2>9, <2>10, <2>15, <2>16 DEF InvA
<1> QED
  BY <1>18, <1>19

\* TryCommit keeps the invariant.
LEMMA TryCommitOK ==
  ASSUME InvA, NEW t \in Threads, TryCommit(t)
  PROVE  InvA'
BY TryCommitWins, TryCommitLoses

\* The steps of try_lock keep the invariant,
LEMMA TryLockOK ==
  ASSUME InvA, NEW t \in Threads, TryLock(t)
  PROVE  InvA'
BY TryAllocOK, TryLoadOK, TrySelfGoes, TrySelfEnters, TryReenteredOK, TryCommitOK, TryAcquireOK,
   TryRecheckGoes, TryRecheckReturns, TryCasTakes, TryCasFails, TryCheckFails, TryCheckRuns,
   TryRanOK, TryClearOK, TryResultOK, TryRetireOK DEF TryLock

\* those of with_lock,
LEMMA WithLockOK ==
  ASSUME InvA, NEW t \in Threads, WithLock(t)
  PROVE  InvA'
BY WithReadOK, WithCountOK, WithRaiseOK, WithTestGoes, WithTestRuns, WithCasTakes, WithCasFails,
   WithAgainOK DEF WithLock

\* and those of help_descriptor.
LEMMA HelpDescriptorOK ==
  ASSUME InvA, NEW t \in Threads, HelpDescriptor(t)
  PROVE  InvA'
BY HelpOK, HelpInheritOK, HelpAcquireOK, HelpCheckStops, HelpCheckRuns, HelpedOK, HelpClearOK
   DEF HelpDescriptor

\* All steps of a thread keep it.
LEMMA StepOK ==
  ASSUME InvA, NEW t \in Threads, Step(t)
  PROVE  InvA'
<1>1. CASE Store(t)
  BY <1>1, StoreGetOK, StoreSkipOK, StoreCasOK, StoreMarkOK DEF Store
<1>2. CASE NextEntry(t)
  BY <1>2, ExtendLoadOK, ExtendCasOK DEF NextEntry
<1> QED
  BY <1>1, <1>2, TryLockOK, WithLockOK, HelpDescriptorOK DEF Step

\* A step that changes nothing keeps it.
LEMMA StutterOK ==
  ASSUME InvA, UNCHANGED vars
  PROVE  InvA'
<1>1. /\ lck' = lck /\ desc' = desc /\ log' = log /\ ext' = ext /\ status' = status /\ x' = x
      /\ freeList' = freeList /\ prog' = prog /\ callOf' = callOf /\ lg' = lg /\ id' = id
      /\ helping' = helping /\ stack' = stack /\ calls' = calls /\ stores' = stores /\ made' = made
  BY DEF vars, heapVars, poolVars, localVars, histVars
<1>2. TypeOK'
  BY <1>1 DEF InvA, TypeOK
<1>3. HeapSame /\ HeapOK'
  BY <1>1, SameHeap DEF HeapSame
<1>4. \A t, k : /\ Depth(t)' = Depth(t) /\ Height(t)' = Height(t) /\ Sec(t, k)' = Sec(t, k)
                /\ Pos(t, k)' = Pos(t, k) /\ (Owner(t, k)' <=> Owner(t, k))
  BY <1>1 DEF Depth, Height, Sec, Pos, Owner, Sharing
<1>5. /\ \A d : (Held(d)' <=> Held(d)) /\ (Installed(d)' <=> Installed(d)) /\ (ChildDone(d)' <=> ChildDone(d))
      /\ \A d, e : HasChild(d, e)' <=> HasChild(d, e)
  BY <1>1 DEF Held, Installed, ChildDone, HasChild, Forks, ChildAt, Levels, Size, OwnUpTo, Own, Off, Word, Unset, IsDone
<1>6. OwnersOK'
  <2>1. OwnersLive' /\ OwnersUnique' /\ LiveOwned'
    BY <1>1, <1>4 DEF InvA, OwnersOK, OwnersLive, OwnersUnique, LiveOwned
  <2>2. OwnerLinks'
    BY <1>1, <1>4, <1>5 DEF InvA, OwnersOK, OwnerLinks
  <2>3. Privacy'
    BY <1>1, <1>4, <1>5 DEF InvA, OwnersOK, Privacy, HasDesc
  <2>4. RetireDone'
    BY <1>1, <1>4, <1>5 DEF InvA, OwnersOK, RetireDone
  <2>5. RootOK'
    BY <1>1, <1>5 DEF InvA, OwnersOK, RootOK, RootIs, Size, Sharing
  <2> QED
    BY <2>1, <2>2, <2>3, <2>4, <2>5 DEF OwnersOK
<1>7. StackOK'
  <2>1. CallersWait' /\ InCall'
    BY <1>1 DEF InvA, StackOK, CallersWait, InCall, Depth, Height
  <2>2. SectionsNest'
    BY <1>1 DEF InvA, StackOK, SectionsNest, NestsAt, Sec, Depth, Height, Inner
  <2>3. Ids'
    BY <1>1 DEF InvA, StackOK, Ids, TopId, IdIn, Top
  <2>4. FramesOK'
    <3> SUFFICES ASSUME NEW t \in Threads, NEW k \in Depth(t), NEW f, f = stack[t][k], NEW s, s = Sec(t, k),
                        NEW n, n = Pos(t, k)
                 PROVE  FrameOK(t, k, f, s, n)'
      BY <1>1, <1>4 DEF FramesOK
    <3>1. FrameOK(t, k, f, s, n)
      BY DEF InvA, StackOK, FramesOK
    <3>2. FrameShape(t, f, s, n)' /\ FrameCur(t, f, s)' /\ FrameDesc(t, f, s)' /\ FrameCount(f)'
      BY <1>1, <1>3, <3>1, SameParts DEF FrameOK
    <3>3. s # None => Guarded(t, k, s)'
      BY <1>1, <1>4, <1>5, <3>1 DEF FrameOK, Guarded, InUse, Safe
    <3> QED
      BY <3>2, <3>3 DEF FrameOK
  <2>5. BlocksOK'
    BY <1>1 DEF InvA, StackOK, BlocksOK, BlockOK, AtEnd, Depth, Height, Top
  <2>6. Returned'
    <3>1. \A d : (Base(d)' <=> Base(d)) /\ Mark(d)' = Mark(d)
      BY <1>1 DEF Base, Mark, Size, OwnUpTo, Own
    <3>2. \A d : Over(d)' <=> Over(d)
      BY <1>1 DEF Over, Installed, Moved
    <3>3. \A d : Settled(d) => Settled(d)'
      BY <1>5, <3>1, <3>2 DEF Settled, Unset
    <3> QED
      BY <1>1, <3>3 DEF InvA, StackOK, Returned, Top
  <2> QED
    BY <2>1, <2>2, <2>3, <2>4, <2>5, <2>6 DEF StackOK
<1> QED
  BY <1>2, <1>3, <1>6, <1>7 DEF InvA

\* So every step keeps it.
LEMMA NextOK ==
  ASSUME InvA, [Next]_vars
  PROVE  InvA'
BY StepOK, CallOK, StutterOK DEF Next, Finished

\* The proviso of the theorems. Where blocks are reused at once, no section
\* nests another: with both, a stale descriptor of lock_is_self can be the
\* caller's own one, which is the run lock_stale_self.
ReuseIsFlat ==
  \A p \in Programs : p.reuse => \A t \in Threads : \A path \in p.paths[t] : Len(path) = 1

\* Initially the invariant holds.
LEMMA InitOK ==
  ASSUME ReuseIsFlat, Init
  PROVE  InvA
<1>1. TypeOK
  <2>1. NoDesc \in [path : Seq(Locks), lock : Locks \cup {None}, done : BOOLEAN,
                    acquired : BOOLEAN, thread : Threads \cup {None}, counter : Nat]
    BY DEF NoDesc
  <2>2. EmptyEntries \in [1 .. LogLen -> Entries]
    BY DEF EmptyEntries, Entries, Unset
  <2>3. EmptyLog \in Log
    BY LogLenAssumption DEF EmptyLog, LogOf, Log
  <2>4. /\ prog \in Programs
        /\ lck \in [Locks -> Nat \cup Descriptors] /\ x \in [Locks -> Nat] /\ stores \in [Locks -> Nat]
        /\ ext \in [Descriptors -> 0 .. LogLen]
        /\ status \in [Descriptors -> {"fresh", "live", "freed", "retired", "twice"}]
        /\ id \in [Threads -> Threads] /\ helping \in [Threads -> BOOLEAN]
        /\ callOf \in [Descriptors -> Nat] /\ made \in SUBSET (Threads \X Nat)
    BY LogLenAssumption DEF Init
  <2>5. /\ freeList \in [Threads -> Seq(Descriptors)] /\ stack \in [Threads -> Seq(Frames)]
        /\ calls \in [Threads -> Seq(Seq(Locks))]
    BY DEF Init
  <2>6. ASSUME NEW t \in Threads PROVE calls[t] \in Seq(prog.paths[t]) /\ Len(calls[t]) <= prog.calls[t]
    <3>1. prog.calls[t] \in Nat
      BY ProgramsAssumption DEF Init
    <3> QED
      BY <3>1 DEF Init
  <2>7. /\ desc \in [Descriptors ->
             [path : Seq(Locks), lock : Locks \cup {None}, done : BOOLEAN,
              acquired : BOOLEAN, thread : Threads \cup {None}, counter : Nat]]
        /\ log \in [Descriptors -> [1 .. LogLen -> Entries]] /\ lg \in [Threads -> Log]
    BY <2>1, <2>2, <2>3 DEF Init
  <2> QED
    BY <2>4, <2>5, <2>6, <2>7 DEF TypeOK
<1>2. /\ \A d \in Descriptors : /\ Size(d) = 0 /\ Levels(d) = {} /\ ~Held(d) /\ ~Installed(d)
                                /\ status[d] = "fresh" /\ desc[d] = NoDesc /\ log[d] = EmptyEntries
                                /\ \A j \in 1 .. LogLen : log[d][j] = Unset /\ log[d][j] # Word(1)
      /\ \A t \in Threads : Depth(t) = {} /\ stack[t] = <<>> /\ lg[t] = EmptyLog /\ lg[t].d = None /\ ~lg[t].new
      /\ \A l \in Locks : lck[l] = 1 /\ lck[l] \notin Descriptors
      /\ LogLen >= 2 /\ LogLen \in Nat
  <2>1. \A d \in Descriptors : desc[d] = NoDesc /\ log[d] = EmptyEntries /\ status[d] = "fresh"
    BY DEF Init
  <2>2. \A d \in Descriptors : Size(d) = 0 /\ desc[d].done = FALSE
    BY <2>1 DEF Size, NoDesc
  <2>3. \A d \in Descriptors : Levels(d) = {}
    BY <2>2 DEF Levels
  <2>4. \A l \in Locks : lck[l] = 1 /\ lck[l] \notin Descriptors
    BY Consts DEF Init
  <2>5. \A d \in Descriptors : ~Installed(d) /\ ~Held(d)
    BY <2>2, <2>4 DEF Installed, Held
  <2>6. \A d \in Descriptors : \A j \in 1 .. LogLen : log[d][j] = Unset
    BY <2>1 DEF EmptyEntries
  <2>7. \A t \in Threads : stack[t] = <<>> /\ lg[t] = EmptyLog
    BY DEF Init
  <2>8. \A t \in Threads : Depth(t) = {}
    BY <2>7 DEF Depth, Height
  <2>9. EmptyLog.d = None /\ ~EmptyLog.new
    BY DEF EmptyLog, LogOf
  <2> QED
    BY <2>1, <2>2, <2>3, <2>4, <2>5, <2>6, <2>7, <2>8, <2>9, EntryFacts, LogLenAssumption
<1>3. HeapOK
  <2>1. FlatReuse
    BY DEF Init, FlatReuse, ReuseIsFlat
  <2>2. PathsFit /\ ReuseFlat
    BY <1>2 DEF PathsFit, ReuseFlat
  <2>3. PrefixSet /\ InBlocks
    BY <1>2 DEF PrefixSet, InBlocks
  <2>4. LogsKnown
    BY <1>2, EntryFacts DEF LogsKnown
  <2>5. LoadsOK /\ ChildrenOK
    BY <1>2 DEF LoadsOK, ChildrenOK
  <2>6. ValuesOK
    BY <1>2 DEF ValuesOK, Value, Mark
  <2>7. NotTwice /\ FreshBlank /\ UsedFull
    BY <1>2 DEF NotTwice, FreshBlank, UsedFull
  <2>8. FreeOK
    BY DEF Init, FreeOK
  <2>9. LocksOK
    BY <1>2 DEF LocksOK
  <2>10. \A d \in Descriptors : ~desc[d].done
    BY <1>2 DEF Held
  <2>11. CountersOK /\ RetiredOver /\ DoneSettled /\ ChainOrdered
    BY <1>2, <2>10 DEF CountersOK, RetiredOver, DoneSettled, ChainOrdered, Chained
  <2> QED
    BY <2>1, <2>2, <2>3, <2>4, <2>5, <2>6, <2>7, <2>8, <2>9, <2>11 DEF HeapOK
<1>4. OwnersOK
  <2>1. OwnersLive /\ OwnersUnique /\ OwnerLinks /\ Privacy /\ RetireDone
    BY <1>2 DEF OwnersLive, OwnersUnique, OwnerLinks, Privacy, RetireDone
  <2>2. LiveOwned /\ RootOK
    BY <1>2 DEF LiveOwned, RootOK
  <2> QED
    BY <2>1, <2>2 DEF OwnersOK
<1>5. StackOK
  <2>1. CallersWait /\ Ids /\ FramesOK /\ InCall /\ Returned
    BY <1>2 DEF CallersWait, Ids, FramesOK, InCall, Returned
  <2>2. SectionsNest
    BY <1>2 DEF Init, SectionsNest
  <2>3. BlocksOK
    BY <1>2 DEF BlocksOK
  <2> QED
    BY <2>1, <2>2, <2>3 DEF StackOK
<1> QED
  BY <1>1, <1>3, <1>4, <1>5 DEF InvA

\* InvA is an invariant: from initial states without descriptors, every step
\* of every thread of try_lock, with_lock, help_descriptor and atomic::store
\* keeps it.
THEOREM Invariance == ASSUME ReuseIsFlat PROVE Spec => []InvA
<1>1. Init => InvA
  BY InitOK
<1>2. InvA /\ [Next]_vars => InvA'
  BY NextOK
<1> QED
  BY <1>1, <1>2, PTL DEF Spec

\* The variables have their types: in particular no log position passes the
\* end of the log, and every frame of the nested calls has a descriptor or a
\* count where its step of lf_lock.h uses one.
THEOREM TypeCorrect == ASSUME ReuseIsFlat PROVE Spec => []TypeOK
<1>1. InvA => TypeOK
  BY DEF InvA
<1> QED
  BY <1>1, Invariance, PTL

\* Nobody runs a section, or uses a log, whose descriptor has been freed: a
\* helper that announces the descriptor (the acquired flag of
\* help_descriptor) in time keeps retire_acquired from giving it back, and
\* one that comes too late does not run it.
THEOREM NoRunsAfterFree == ASSUME ReuseIsFlat PROVE Spec => []NoRunAfterFree
<1>1. InvA => NoRunAfterFree
  BY RunsHeld DEF NoRunAfterFree, InUse
<1> QED
  BY <1>1, Invariance, PTL

\* No descriptor is given back twice, and when no call is in progress all
\* have been given back and all locks are free. Each run of a nested section
\* either lost the commit of its descriptor and freed it, or it is the one
\* whose result was recorded, which releases the lock and retires the
\* descriptor.
THEOREM AllGivenBack == ASSUME ReuseIsFlat PROVE Spec => []NothingLeft
<1>1. InvA => NothingLeft
  <2> SUFFICES ASSUME InvA PROVE NothingLeft
    OBVIOUS
  <2>1. \A d \in Descriptors : status[d] # "twice"
    BY DEF InvA, HeapOK, NotTwice
  <2>2. ASSUME Idle, NEW d \in Descriptors, status[d] = "live" PROVE FALSE
    <3>1. PICK u \in Threads : \E k \in Depth(u) : Owner(u, k) /\ stack[u][k].d = d
      BY <2>2 DEF InvA, OwnersOK, LiveOwned
    <3>2. stack[u] = <<>>
      BY <2>2 DEF Idle
    <3>3. Depth(u) = {}
      BY <3>2 DEF Depth, Height
    <3> QED
      BY <3>1, <3>3
  <2>3. ASSUME Idle, NEW l \in Locks PROVE ~IsLocked(lck[l])
    BY <2>2, <2>3 DEF InvA, HeapOK, LocksOK, IsLocked
  <2> QED
    BY <2>1, <2>2, <2>3 DEF NothingLeft
<1> QED
  BY <1>1, Invariance, PTL
=============================================================================
