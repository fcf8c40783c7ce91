----------------------------- MODULE LfLockEffect ---------------------------
(***************************************************************************)
(* Proofs about LfLock: every section takes effect exactly once, and only  *)
(* under its lock.                                                         *)
(*                                                                         *)
(* InvA of LfLockInv says what the logs and the locks look like.  InvB     *)
(* adds what the atomics, the results of the calls and the history say     *)
(* about each other:                                                       *)
(*   - made has the calls whose store has been made: a call is in it as    *)
(*     soon as the tag that the runs of its section have logged is         *)
(*     smaller than the tag of the atomic (EntriesB), and every result     *)
(*     that is logged, handed over or returned says whether it is there    *)
(*     (FramesB, ReturnedB);                                               *)
(*   - a section in a lock has got so far that no run of it stores again   *)
(*     if its call has stored or another section of the call has been run  *)
(*     and left its lock (InstalledB); so a compare-and-swap that succeeds *)
(*     is the first one of its call, and no other section is at the same   *)
(*     atomic;                                                             *)
(*   - the tag of an atomic is the number of calls that have returned true *)
(*     and of calls that have stored and are still running (Counted).      *)
(* When nobody runs the last number is 0, which is EffectOnce.  The own    *)
(* lock words in a log are of sections around it, or of the section itself *)
(* (OuterAt), which is why a lock that is entered again is a lock held.    *)
(***************************************************************************)
EXTENDS LfLockProofs, FiniteSetTheorems

\* The store of the section of d has been made: the tag that its runs have
\* logged is no longer the tag of the atomic.
Stored(d) == Base(d) /\ Value(d) # Unset /\ Value(d)[2] < x[Target(d)]

\* A logged tag was the tag of the atomic, and the mark comes after the store.
ValueAtMost(d) ==
  Base(d) => /\ Value(d) # Unset => Value(d)[2] <= x[Target(d)]
             /\ Mark(d) # Unset => Stored(d)

\* No run of the section of d stores any more, except through a nested section
\* that is in its lock.
Advanced(d) ==
  \/ Stored(d)
  \/ ChildDone(d)
  \/ \E e \in Descriptors : HasChild(d, e) /\ (Over(e) \/ Installed(e))

\* The first entry of the log is set.
Started(d) == log[d][1] # Unset

\* Call c has stored, or one of its sections has been run and left its lock.
Passed(c) == c \in made \/ \E e \in Descriptors : desc[e].done /\ ~Installed(e) /\ CallId(e) = c

\* The descriptor in entry j of the log of d is in its lock; it is d or takes
\* more locks than d.
Reentry(d, j) ==
  LET w == log[d][j][2] IN lck[desc[d].path[j]] = w /\ (w = d \/ Size(d) < Size(w))

\* The call that d was made for is the last one of its thread.
Current(d) ==
  LET u == desc[d].thread IN callOf[d] = Len(calls[u]) /\ Target(d) = Goal(calls[u][1])

\* Entry j of the log of d has a descriptor of the lock at place j of the path,
\* made for the same call: d, or one of a section around that of d.
OuterAt(d, j) ==
  LET w == log[d][j][2] IN
  desc[w].lock = desc[d].path[j] /\ CallId(w) = CallId(d) /\ (w = d \/ Size(d) < Size(w))

\* The entries of a log: nothing is logged before the descriptor is in its
\* lock, and a logged result says whether the call has stored.
EntriesB(d) ==
  /\ ValueAtMost(d)
  /\ Started(d) => Held(d)
  /\ Stored(d) => CallId(d) \in made
  /\ \A i \in Levels(d) : Forks(d, i) /\ IsDone(ChildAt(d, i)) =>
       ChildAt(d, i)[2] = (CallId(d) \in made)
  /\ ~prog.with => \A j \in 1 .. Size(d) : OwnUpTo(d, j) => OuterAt(d, j)

\* A descriptor in a lock.
InstalledB(d) ==
  Installed(d) =>
    /\ ~prog.with => \A j \in 1 .. Size(d) : OwnUpTo(d, j) => Reentry(d, j)
    /\ Passed(CallId(d)) => Advanced(d)
    /\ Current(d)

\* What is recorded is about calls that were made.
CallsPast ==
  /\ \A c \in made : c[2] <= Len(calls[c[1]])
  /\ \A e \in Descriptors :
       callOf[e] = 0 \/ (status[e] # "fresh" /\ callOf[e] <= Len(calls[desc[e].thread]))

\* Where a frame knows the result of its call.
Says == {"clear", "result", "retire"}

\* A frame: a call that has stored has had its lock, the result is right, and a
\* tag that is to be marked has been replaced.
FrameB(f) ==
  /\ Sharing(f) /\ CallId(f.d) \in made => Held(f.d)
  /\ f.pc \in Says => f.res = (CallId(f.d) \in made)
  /\ f.pc \notin Says \cup Calling \cup {"help_clear"} => f.res = FALSE
  /\ f.pc = "mark" => f.cur < x[f.lock]
FramesB == \A t \in Threads : \A k \in Depth(t) : FrameB(stack[t][k])

\* A result that has been handed to the frame that waits for it.
ReturnedB ==
  \A t \in Threads : stack[t] # <<>> /\ Top(t).pc \in Calling =>
    Top(t).res = (CallId(lg[t].d) \in made)

\* The outermost frame of a thread is the only one outside of all locks that
\* works for its call: any other descriptor of the call was made inside of the
\* section of that frame.
ThisCall(t) == <<t, Len(calls[t])>>
First(t, f) ==
  /\ ThisCall(t) \in made => Sharing(f)
  /\ \A e \in Descriptors : CallId(e) = ThisCall(t) => Sharing(f) /\ (e = f.d \/ Held(f.d))
RootFirst == \A t \in Threads : stack[t] # <<>> => First(t, stack[t][1])

\* The calls that have stored to l and have not returned.
Pending(l) == {t \in Threads : stack[t] # <<>> /\ Goal(calls[t][1]) = l /\ ThisCall(t) \in made}
Counted == \A l \in Locks : x[l] = stores[l] + Cardinality(Pending(l))

\* The invariant.
HeapB == (\A d \in Descriptors : EntriesB(d) /\ InstalledB(d)) /\ CallsPast
StackB == FramesB /\ ReturnedB /\ RootFirst
InvB == HeapB /\ StackB /\ Counted
-----------------------------------------------------------------------------

\* A log that has any entry has its first one.
LEMMA StartedBy ==
  ASSUME InvA, NEW d \in Descriptors
  PROVE  /\ \A j \in 1 .. LogLen : log[d][j] # Unset => Started(d)
         /\ Value(d) # Unset => Started(d)
         /\ \A i \in Levels(d) : ChildAt(d, i) # Unset => Started(d)
<1>1. \A j \in 1 .. LogLen : log[d][j] # Unset => Started(d)
  BY Consts DEF InvA, HeapOK, PrefixSet, Started
<1>2. /\ Size(d) + 1 \in 1 .. LogLen
      /\ \A i \in Levels(d) : i + 1 + Off \in 1 .. LogLen
  BY FitsLog DEF InvA, HeapOK
<1> QED
  BY <1>1, <1>2 DEF Value, ChildAt

\* At the level of the store a section is settled by its mark only, and
\* waits for no nested one.
LEMMA SettledBase ==
  ASSUME InvA, NEW d \in Descriptors, Base(d)
  PROVE  /\ Settled(d) => Mark(d) # Unset
         /\ ~ChildDone(d) /\ \A e : ~HasChild(d, e)
<1>1. \A q \in Levels(d) : ~Forks(d, q)
  BY BaseNoFork DEF InvA, HeapOK
<1>2. ~ChildDone(d) /\ \A e : ~HasChild(d, e)
  BY <1>1 DEF ChildDone, HasChild
<1> QED
  BY <1>2 DEF Settled

\* At the level of the store a section gets ahead by its store only.
LEMMA AdvancedBase ==
  ASSUME InvA, NEW d \in Descriptors, Base(d), Advanced(d)
  PROVE  Stored(d)
BY SettledBase DEF Advanced

\* The section of a thread that is at its store is the innermost one that
\* the thread has in locks, and the others wait for a nested one.
LEMMA BaseLowest ==
  ASSUME InvA, NEW s \in Descriptors, Installed(s), Base(s), NEW z \in Descriptors, Installed(z), z # s,
         desc[z].thread = desc[s].thread
  PROVE  /\ Size(s) < Size(z)
         /\ \E y \in Descriptors : HasChild(z, y) /\ Installed(y)
<1>1. Chained(s, z) /\ Chained(z, s)
  BY DEF InvA, HeapOK, ChainOrdered
<1>2. Size(s) # Size(z) /\ ~(Size(z) < Size(s))
  BY <1>1, SettledBase DEF Chained
<1>3. Size(s) \in Nat /\ Size(z) \in Nat
  BY DescType DEF InvA
<1>4. Size(s) < Size(z)
  BY <1>2, <1>3
<1> QED
  BY <1>1, <1>4 DEF Chained

\* The lock of the atomic that a section stores to is held by the same
\* thread: by the section or by the one that its log names.
LEMMA TargetHeld ==
  ASSUME InvA, HeapB, NEW s \in Descriptors, Installed(s), Base(s)
  PROVE  \E w \in Descriptors :
           /\ lck[Target(s)] = w /\ Installed(w) /\ desc[w].thread = desc[s].thread
           /\ w = IF desc[s].path = <<>> THEN s ELSE log[s][Size(s)][2]
<1>1. PICK l \in Locks : lck[l] = s
  BY DEF Installed
<1>2. desc[s].lock = l
  BY <1>1 DEF InvA, HeapOK, LocksOK
<1>3. Size(s) \in Nat /\ (desc[s].path = <<>> <=> Size(s) = 0) /\ desc[s].path \in Seq(Locks)
  BY DescType, EmptyIs DEF InvA, Size
<1>4. CASE Size(s) = 0
  BY <1>1, <1>2, <1>3, <1>4 DEF Target
<1>5. CASE Size(s) # 0
  <2>1. ~prog.with /\ OwnUpTo(s, Size(s)) /\ Size(s) \in 1 .. Size(s)
    BY <1>3, <1>5 DEF Base
  <2>2. Reentry(s, Size(s)) /\ Own(s, Size(s))
    BY <2>1 DEF HeapB, InstalledB, OwnUpTo
  <2> DEFINE w == log[s][Size(s)][2]
  <2>3. w \in Descriptors /\ desc[w].thread = desc[s].thread /\ lck[desc[s].path[Size(s)]] = w
    BY <2>2 DEF Own, Reentry
  <2>4. Target(s) = desc[s].path[Size(s)] /\ Target(s) \in Locks
    BY <1>3, <1>5 DEF Target, Goal, Size
  <2> QED
    BY <2>3, <2>4, <1>3, <1>5 DEF Installed
<1> QED
  BY <1>4, <1>5

\* Two sections in locks do not store to the same atomic.
LEMMA SameTarget ==
  ASSUME InvA, HeapB, NEW s \in Descriptors, Installed(s), Base(s),
         NEW z \in Descriptors, Installed(z), Base(z), Target(z) = Target(s)
  PROVE  z = s
<1>1. desc[z].thread = desc[s].thread
  BY TargetHeld
<1> SUFFICES ASSUME z # s PROVE FALSE
  OBVIOUS
<1> QED
  BY <1>1, BaseLowest, SettledBase

\* Frame f of t is about to replace the tag that it has loaded, which is
\* still there.
Swapping(t, h, f, s, n) == Here(t, "store", h, f, s, n) /\ x[f.lock] = f.cur

\* Who is about to succeed in the compare-and-swap works for a section in
\* a lock whose call has not stored.
LEMMA SwapSection ==
  ASSUME InvA, HeapB, NEW t \in Threads, NEW h, NEW f, NEW s, NEW n, Swapping(t, h, f, s, n)
  PROVE  /\ s \in Descriptors /\ Base(s) /\ f.lock = Target(s) /\ Value(s) = Word(f.cur) /\ f.cur \in Nat
         /\ f.lock \in Locks /\ ~Stored(s) /\ ~Settled(s) /\ ~Advanced(s) /\ Installed(s)
         /\ ~Passed(CallId(s)) /\ CallId(s) \notin made
<1>1. Here(t, "store", h, f, s, n) /\ x[f.lock] = f.cur
  BY DEF Swapping
<1>2. f.pc = "store" /\ f \in Frames /\ f.pc \in Storing
  BY <1>1 DEF Here, Storing
<1>3. s \in Descriptors /\ StoreShape(f, s, n) /\ Held(s)
  BY <1>1, <1>2, StoreSection
<1>4. Base(s) /\ f.lock = Target(s) /\ Value(s) = Word(f.cur) /\ f.cur \in Nat
  BY <1>2, <1>3 DEF StoreShape
<1>5. f.lock \in Locks
  BY <1>2, FrameType
<1>6. ~Stored(s)
  BY <1>1, <1>4, EntryFacts DEF Stored
<1>7. ~Settled(s)
  BY <1>3, <1>4, <1>6, SettledBase DEF HeapB, EntriesB, ValueAtMost
<1>8. ~Advanced(s)
  BY <1>3, <1>4, <1>6, AdvancedBase
<1>9. Installed(s)
  BY <1>3, <1>7 DEF InvA, HeapOK, DoneSettled, Held
<1>10. ~Passed(CallId(s))
  BY <1>3, <1>8, <1>9 DEF HeapB, InstalledB
<1> QED
  BY <1>3, <1>4, <1>5, <1>6, <1>7, <1>8, <1>9, <1>10 DEF Passed

\* The other sections of the call that is about to store are in locks too
\* and wait for a nested one.
LEMMA SwapOthers ==
  ASSUME InvA, HeapB, NEW t \in Threads, NEW h, NEW f, NEW s, NEW n, Swapping(t, h, f, s, n),
         NEW z \in Descriptors, Held(z), CallId(z) = CallId(s)
  PROVE  /\ Installed(z)
         /\ z # s => \E y \in Descriptors : HasChild(z, y) /\ Installed(y)
         /\ ~Settled(z)
<1>1. /\ s \in Descriptors /\ Base(s) /\ ~Settled(s) /\ Installed(s) /\ ~Passed(CallId(s))
  BY SwapSection
<1>2. Installed(z)
  BY <1>1 DEF Passed, Held
<1>3. desc[z].thread = desc[s].thread
  BY DEF CallId
<1>4. z # s => \E y \in Descriptors : HasChild(z, y) /\ Installed(y)
  BY <1>1, <1>2, <1>3, BaseLowest
<1>5. ASSUME z # s, Settled(z) PROVE FALSE
  <2>1. PICK y \in Descriptors : HasChild(z, y) /\ Installed(y)
    BY <1>4, <1>5
  <2>2. Over(y)
    BY <1>5, <2>1, OneChild DEF InvA, HeapOK
  <2> QED
    BY <2>1, <2>2 DEF Over
<1> QED
  BY <1>1, <1>2, <1>4, <1>5

\* No frame of the call that is about to store knows a result.
LEMMA SwapShared ==
  ASSUME InvA, HeapB, StackB, NEW t \in Threads, NEW h, NEW f, NEW s, NEW n, Swapping(t, h, f, s, n),
         NEW u \in Threads, NEW k \in Depth(u), NEW g, g = stack[u][k], Sharing(g), CallId(g.d) = CallId(s)
  PROVE  Held(g.d) /\ g.pc \notin Says
<1> DEFINE z == Sec(u, k)
<1>1. /\ g \in Frames /\ FrameOK(u, k, g, z, Pos(u, k)) /\ z \in Descriptors \cup {None} /\ stack[u] # <<>>
  BY FrameFacts
<1>2. /\ FrameShape(u, g, z, Pos(u, k)) /\ FrameDesc(u, g, z) /\ FrameCount(g) /\ (z # None => Guarded(u, k, z))
  BY <1>1 DEF FrameOK
<1>3. g.d \in Descriptors /\ g.pc \notin Storing \cup {"load", "self", "reentered"} /\ HasDesc(g)
  BY <1>2 DEF FrameDesc, Sharing, HasDesc, Early
<1>4. desc[g.d].thread = IdIn(u, z) /\ callOf[g.d] = NumberIn(u, z)
  BY <1>2, <1>3 DEF FrameDesc
<1>5. s \in Descriptors /\ Base(s) /\ Installed(s)
  BY SwapSection
<1>6. ASSUME z = None PROVE Held(g.d)
  <2>1. k = 1
    BY <1>6, InnerSections
  <2>2. CallId(g.d) = ThisCall(u)
    BY <1>4, <1>6 DEF CallId, ThisCall, IdIn, NumberIn
  <2>3. First(u, g)
    BY <1>1, <2>1 DEF StackB, RootFirst
  <2>4. s = g.d \/ Held(g.d)
    BY <2>2, <2>3, <1>5 DEF First
  <2> QED
    BY <2>4, <1>5 DEF Held
<1>7. ASSUME z # None PROVE Held(g.d)
  <2>1. z \in Descriptors /\ Held(z)
    BY <1>1, <1>2, <1>7 DEF Guarded
  <2>2. CallId(z) = CallId(s)
    BY <1>4, <1>7 DEF CallId, IdIn, NumberIn
  <2>3. ~Settled(z) /\ (z # s => \E y \in Descriptors : HasChild(z, y) /\ Installed(y))
    BY <2>1, <2>2, SwapOthers
  <2>4. PICK i : i = Level(g, z)
    OBVIOUS
  <2>5. i \in Levels(z) /\ Forks(z, i)
    BY <1>1, <1>2, <1>3, <2>1, <2>4, ForksHere DEF InvA
  <2>6. z # s
    BY <2>5, <1>5, BaseNoFork DEF InvA, HeapOK
  <2>7. ~IsDone(ChildAt(z, i))
    BY <2>3, <2>5 DEF Settled, ChildDone
  <2>8. HasChild(z, g.d)
    BY <1>1, <1>2, <2>1, <2>4, <2>7, ChildHere
  <2>9. PICK y \in Descriptors : HasChild(z, y) /\ Installed(y)
    BY <2>3, <2>6
  <2>10. y = g.d
    BY <2>1, <2>8, <2>9, OneChild DEF InvA, HeapOK
  <2> QED
    BY <2>9, <2>10 DEF Held
<1>8. Held(g.d)
  BY <1>1, <1>6, <1>7
<1>9. Installed(g.d) /\ ~Settled(g.d)
  BY <1>3, <1>8, SwapOthers
<1>10. ~desc[g.d].done /\ ~Over(g.d)
  BY <1>3, <1>9 DEF InvA, HeapOK, DoneSettled, Over
<1>11. g.pc \notin Storing
  BY <1>3
<1>12. g.pc \notin {"clear", "result", "retire"}
  BY <1>2, <1>10, <1>11 DEF FrameCount
<1> QED
  BY <1>8, <1>12 DEF Says

\* What the entries of the log of d say is unchanged.
SameView(d) ==
  /\ desc'[d].path = desc[d].path /\ desc'[d].thread = desc[d].thread /\ callOf'[d] = callOf[d]
  /\ Size(d)' = Size(d) /\ Levels(d)' = Levels(d) /\ Target(d)' = Target(d) /\ CallId(d)' = CallId(d)
  /\ Base(d)' <=> Base(d)
  /\ Value(d)' = Value(d) /\ Mark(d)' = Mark(d)
  /\ \A i \in Levels(d) : (Forks(d, i)' <=> Forks(d, i)) /\ ChildAt(d, i)' = ChildAt(d, i)
  /\ \A j \in 1 .. Size(d) : (OwnUpTo(d, j)' <=> OwnUpTo(d, j)) /\ log'[d][j] = log[d][j]
  /\ \A y : HasChild(d, y)' <=> HasChild(d, y)
  /\ ChildDone(d)' <=> ChildDone(d)
  /\ log'[d][1] = log[d][1]

\* Logs and the constant parts of descriptors are unchanged.
SameLogs ==
  /\ log' = log /\ prog' = prog /\ callOf' = callOf
  /\ \A d \in Descriptors : /\ desc'[d].path = desc[d].path /\ desc'[d].lock = desc[d].lock
                            /\ desc'[d].thread = desc[d].thread
                            /\ status'[d] = "fresh" <=> status[d] = "fresh"

\* Then what all logs say is unchanged.
LEMMA SameLogsView ==
  ASSUME SameLogs, NEW d \in Descriptors
  PROVE  SameView(d)
<1>1. Size(d)' = Size(d) /\ Levels(d)' = Levels(d) /\ Off' = Off /\ CallId(d)' = CallId(d)
  BY DEF SameLogs, Size, Levels, Off, CallId
<1>2. Target(d)' = Target(d)
  BY <1>1 DEF SameLogs, Target, Goal
<1>3. \A j : Own(d, j)' <=> Own(d, j)
  BY DEF SameLogs, Own
<1>4. \A m : OwnUpTo(d, m)' <=> OwnUpTo(d, m)
  BY <1>3 DEF OwnUpTo
<1>5. /\ Base(d)' <=> Base(d)
      /\ Value(d)' = Value(d) /\ Mark(d)' = Mark(d)
  BY <1>1, <1>4 DEF SameLogs, Base, Value, Mark
<1>6. \A i : (Forks(d, i)' <=> Forks(d, i)) /\ ChildAt(d, i)' = ChildAt(d, i)
  BY <1>1, <1>3, <1>4 DEF SameLogs, Forks, ChildAt, Unset
<1>7. /\ \A y : HasChild(d, y)' <=> HasChild(d, y)
      /\ ChildDone(d)' <=> ChildDone(d)
  BY <1>1, <1>6 DEF HasChild, ChildDone, Word, IsDone
<1> QED
  BY <1>1, <1>2, <1>4, <1>5, <1>6, <1>7 DEF SameLogs, SameView

\* Whether a store has been made depends on the log and the atomic.
LEMMA ViewStored ==
  ASSUME NEW d \in Descriptors, SameView(d), x' = x
  PROVE  Stored(d)' <=> Stored(d)
BY DEF SameView, Stored, Unset

\* A section does not fall back while its log is unchanged.
LEMMA ViewAdvanced ==
  ASSUME NEW A, Rely(A), NEW d \in Descriptors, SameView(d), Stored(d) => Stored(d)',
         \A e \in Descriptors : HasChild(d, e) /\ (Over(e) \/ Installed(e)) => Over(e)' \/ Installed(e)',
         Advanced(d)
  PROVE  Advanced(d)'
BY DEF SameView, Advanced

\* The descriptors that a log names do not change.
LEMMA ViewOuter ==
  ASSUME InvA, NEW A, Rely(A), NEW d \in Descriptors \ A, SameView(d), NEW j \in 1 .. Size(d),
         OwnUpTo(d, j), OuterAt(d, j)
  PROVE  OuterAt(d, j)'
<1>1. PICK w : w = log[d][j][2]
  OBVIOUS
<1>2. Size(d) \in Nat /\ j \in 1 .. LogLen /\ j \in 1 .. j
  BY FitsLog DEF InvA, HeapOK
<1>3. w \in Descriptors /\ log[d][j][1] = "word"
  BY <1>1, <1>2 DEF OwnUpTo, Own
<1>4. status[w] # "fresh"
  BY <1>1, <1>2, <1>3 DEF InvA, HeapOK, LogsKnown
<1>5. ~prog.reuse
  <2>1. Size(d) # 0
    BY <1>2
  <2> QED
    BY <2>1 DEF InvA, HeapOK, ReuseFlat
<1>6. w \in Descriptors \ A
  BY <1>3, <1>4, <1>5 DEF Rely
<1>7. Size(w)' = Size(w) /\ desc'[w].lock = desc[w].lock /\ CallId(w)' = CallId(w)
  BY <1>6, SizeKept DEF DescKept, CallId
<1>8. desc[w].lock = desc[d].path[j] /\ CallId(w) = CallId(d) /\ (w = d \/ Size(d) < Size(w))
  BY <1>1 DEF OuterAt
<1>9. log'[d][j][2] = w /\ desc'[d].path = desc[d].path /\ Size(d)' = Size(d) /\ CallId(d)' = CallId(d)
  BY <1>1 DEF SameView
<1> QED
  BY <1>7, <1>8, <1>9 DEF OuterAt

\* EntriesB is kept while the log is.
LEMMA ViewEntries ==
  ASSUME InvA, NEW A, Rely(A), NEW d \in Descriptors \ A, SameView(d), x' = x, made' = made, EntriesB(d)
  PROVE  EntriesB(d)'
<1>1. Stored(d)' <=> Stored(d)
  BY ViewStored
<1>2. Held(d) => Held(d)'
  BY DEF Rely, DescKept
<1>3. ValueAtMost(d)'
  BY <1>1 DEF SameView, EntriesB, ValueAtMost, Unset
<1>4. Started(d)' => Held(d)'
  BY <1>2 DEF SameView, EntriesB, Started, Unset
<1>5. (Stored(d) => CallId(d) \in made)'
  BY <1>1 DEF SameView, EntriesB
<1>6. (\A i \in Levels(d) : Forks(d, i) /\ IsDone(ChildAt(d, i)) =>
         ChildAt(d, i)[2] = (CallId(d) \in made))'
  BY DEF SameView, EntriesB, IsDone
<1>7. (~prog.with => \A j \in 1 .. Size(d) : OwnUpTo(d, j) => OuterAt(d, j))'
  <2> SUFFICES ASSUME ~prog.with, NEW j \in 1 .. Size(d), OwnUpTo(d, j) PROVE OuterAt(d, j)'
    BY DEF SameView, Rely
  <2>1. OuterAt(d, j)
    BY DEF EntriesB
  <2> QED
    BY <2>1, ViewOuter
<1> QED
  BY <1>3, <1>4, <1>5, <1>6, <1>7 DEF EntriesB

\* InstalledB is kept while the log is.
LEMMA ViewInstalled ==
  ASSUME NEW A, Rely(A), NEW d \in Descriptors \ A, SameView(d), x' = x, calls' = calls,
         Installed(d), InstalledB(d),
         \A j \in 1 .. Size(d) : OwnUpTo(d, j) /\ Reentry(d, j) => Reentry(d, j)',
         Passed(CallId(d))' => Passed(CallId(d)) \/ Advanced(d)',
         \A e \in Descriptors : HasChild(d, e) /\ (Over(e) \/ Installed(e)) => Over(e)' \/ Installed(e)'
  PROVE  InstalledB(d)'
<1>1. Stored(d)' <=> Stored(d)
  BY ViewStored
<1>2. Advanced(d) => Advanced(d)'
  BY <1>1, ViewAdvanced
<1>3. Passed(CallId(d))' => Advanced(d)'
  BY <1>2 DEF InstalledB
<1>4. Current(d)'
  BY DEF InstalledB, Current, SameView, Goal
<1>5. (~prog.with => \A j \in 1 .. Size(d) : OwnUpTo(d, j) => Reentry(d, j))'
  BY DEF InstalledB, SameView, Rely
<1> QED
  BY <1>3, <1>4, <1>5 DEF InstalledB

\* What the log of d says depends on its entries and on whose the logged
\* words are.
LEMMA ViewSame ==
  ASSUME InvA, NEW d \in Descriptors, log'[d] = log[d], prog' = prog, callOf'[d] = callOf[d],
         desc'[d].path = desc[d].path, desc'[d].lock = desc[d].lock, desc'[d].thread = desc[d].thread,
         \A j \in 1 .. LogLen : Own(d, j)' <=> Own(d, j)
  PROVE  SameView(d)
<1>1. Size(d)' = Size(d) /\ Levels(d)' = Levels(d) /\ Off' = Off /\ CallId(d)' = CallId(d)
  BY DEF Size, Levels, Off, CallId
<1>2. Target(d)' = Target(d)
  BY <1>1 DEF Target, Goal
<1>3. /\ \A m \in 0 .. Size(d) : \A j \in 1 .. m : j \in 1 .. LogLen
      /\ Size(d) \in Nat /\ Size(d) \in 0 .. Size(d)
      /\ \A i \in Levels(d) : i \in 0 .. Size(d) /\ i + 1 \in 1 .. LogLen
  BY FitsLog DEF InvA, HeapOK, Levels
<1>4. \A m \in 0 .. Size(d) : OwnUpTo(d, m)' <=> OwnUpTo(d, m)
  BY <1>3 DEF OwnUpTo
<1>5. /\ Base(d)' <=> Base(d)
      /\ Value(d)' = Value(d) /\ Mark(d)' = Mark(d)
  BY <1>1, <1>3, <1>4 DEF Base, Value, Mark
<1>6. \A i \in Levels(d) : (Forks(d, i)' <=> Forks(d, i)) /\ ChildAt(d, i)' = ChildAt(d, i)
  BY <1>1, <1>3, <1>4 DEF Forks, ChildAt, Unset
<1>7. /\ \A y : HasChild(d, y)' <=> HasChild(d, y)
      /\ ChildDone(d)' <=> ChildDone(d)
  BY <1>1, <1>6 DEF HasChild, ChildDone, Word, IsDone
<1>8. \A j \in 1 .. Size(d) : j \in 0 .. Size(d)
  BY <1>3
<1> QED
  BY <1>1, <1>2, <1>4, <1>5, <1>6, <1>7, <1>8 DEF SameView

\* A section never falls back.
LEMMA AdvancedKept ==
  ASSUME InvA, NEW A, Rely(A), NEW d \in Descriptors \ A,
         Stored(d) /\ Value(d)' = Value(d) => Value(d)[2] < x'[Target(d)],
         \A e \in Descriptors : HasChild(d, e) /\ (Over(e) \/ Installed(e)) => Over(e)' \/ Installed(e)',
         Advanced(d)
  PROVE  Advanced(d)'
<1>1. CASE Stored(d)
  <2>1. Base(d)' /\ Value(d)' = Value(d)
    BY <1>1, BaseKept DEF Stored
  <2>2. Target(d)' = Target(d)
    BY SizeKept
  <2>3. Stored(d)'
    BY <1>1, <2>1, <2>2 DEF Stored, Unset
  <2> QED
    BY <2>3 DEF Advanced
<1>2. CASE ChildDone(d)
  BY <1>2, ChildDoneKept DEF Advanced
<1>3. CASE \E e \in Descriptors : HasChild(d, e) /\ (Over(e) \/ Installed(e))
  <2>1. PICK e \in Descriptors : HasChild(d, e) /\ (Over(e) \/ Installed(e))
    BY <1>3
  <2>2. HasChild(d, e)' \/ ChildDone(d)'
    BY <2>1, ChildStays
  <2> QED
    BY <2>1, <2>2 DEF Advanced
<1> QED
  BY <1>1, <1>2, <1>3 DEF Advanced

\* Reentry is kept while the lock is.
LEMMA ReentryKept ==
  ASSUME NEW d \in Descriptors, SameView(d), NEW j \in 1 .. Size(d), OwnUpTo(d, j), Reentry(d, j),
         lck'[desc[d].path[j]] = lck[desc[d].path[j]],
         \A w \in Descriptors : lck[desc[d].path[j]] = w => Size(w)' = Size(w),
         Size(d) \in Nat
  PROVE  Reentry(d, j)'
<1>1. PICK w : w = log[d][j][2]
  OBVIOUS
<1>2. w \in Descriptors
  BY <1>1 DEF OwnUpTo, Own
<1>3. lck[desc[d].path[j]] = w /\ (w = d \/ Size(d) < Size(w))
  BY <1>1 DEF Reentry
<1>4. Size(w)' = Size(w) /\ Size(d)' = Size(d)
  BY <1>2, <1>3 DEF SameView
<1>5. log'[d][j][2] = w /\ desc'[d].path = desc[d].path
  BY <1>1 DEF SameView
<1> QED
  BY <1>3, <1>4, <1>5 DEF Reentry, Size

\* A call is passed by a store or by a section that leaves its lock.
LEMMA PassedSame ==
  ASSUME NEW d, made' = made, CallId(d)' = CallId(d),
         \A e \in Descriptors : desc'[e].done /\ ~Installed(e)' =>
           desc[e].done /\ ~Installed(e) /\ CallId(e)' = CallId(e)
  PROVE  Passed(CallId(d))' => Passed(CallId(d))
BY DEF Passed

\* What is recorded stays about calls that were made.
LEMMA PastKept ==
  ASSUME HeapB, made' = made, calls' = calls,
         \A e \in Descriptors : \/ /\ callOf'[e] = callOf[e] /\ (status[e] # "fresh" => status'[e] # "fresh")
                                   /\ desc'[e].thread = desc[e].thread
                                \/ status'[e] # "fresh" /\ callOf'[e] <= Len(calls[desc'[e].thread])
  PROVE  CallsPast'
BY DEF HeapB, CallsPast

\* Steps that change no log, no lock and no atomic keep HeapB.
LEMMA CalmB ==
  ASSUME InvA, HeapB, Rely({}), SameLogs, lck' = lck, x' = x, made' = made, calls' = calls,
         \A d \in Descriptors : desc'[d].done => desc[d].done \/ Installed(d)
  PROVE  HeapB'
<1>0. \A d : Installed(d)' <=> Installed(d)
  BY DEF Installed
<1>1. ASSUME NEW d \in Descriptors PROVE EntriesB(d)' /\ InstalledB(d)'
  <2>1. SameView(d) /\ d \in Descriptors \ {}
    BY SameLogsView
  <2>2. EntriesB(d) /\ InstalledB(d)
    BY DEF HeapB
  <2>3. EntriesB(d)'
    BY <2>1, <2>2, ViewEntries
  <2>4. ASSUME Installed(d) PROVE InstalledB(d)'
    <3>1. \A j \in 1 .. Size(d) : OwnUpTo(d, j) /\ Reentry(d, j) => Reentry(d, j)'
      <4>1. \A w \in Descriptors : Size(w)' = Size(w)
        BY DEF SameLogs, Size
      <4>2. Size(d) \in Nat
        BY DescType DEF InvA
      <4> QED
        BY <2>1, <4>1, <4>2, ReentryKept
    <3>2. Passed(CallId(d))' => Passed(CallId(d))
      <4>1. \A e \in Descriptors : CallId(e)' = CallId(e)
        BY DEF SameLogs, CallId
      <4>2. \A e \in Descriptors : desc'[e].done /\ ~Installed(e)' =>
              desc[e].done /\ ~Installed(e) /\ CallId(e)' = CallId(e)
        BY <1>0, <4>1
      <4> QED
        BY <4>1, <4>2, PassedSame
    <3>3. \A e \in Descriptors : HasChild(d, e) /\ (Over(e) \/ Installed(e)) => Over(e)' \/ Installed(e)'
      BY <1>0 DEF Rely, DescKept
    <3> QED
      BY <2>1, <2>2, <2>4, <3>1, <3>2, <3>3, ViewInstalled
  <2> QED
    BY <1>0, <2>3, <2>4 DEF InstalledB
<1>2. CallsPast'
  BY PastKept DEF SameLogs
<1> QED
  BY <1>1, <1>2 DEF HeapB

\* What is written into an empty entry.
FillB(d, j, v) ==
  /\ Held(d) /\ v # Unset /\ ~IsDone(v)
  /\ Base(d) /\ j = Size(d) + 1 => v[2] = x[Target(d)] /\ Target(d) \in Locks
  /\ Base(d) /\ j = Size(d) + 2 => Stored(d)
  /\ ~prog.with /\ j - 1 \in Levels(d) /\ OwnUpTo(d, j - 1) => v = Word(lck[desc[d].path[j]])

\* To fill an entry changes only one log.
LEMMA FillView ==
  ASSUME InvA, NEW d \in Descriptors, NEW j \in 1 .. LogLen, NEW v, Fill(d, j, v),
         NEW e \in Descriptors, e # d
  PROVE  SameView(e)
<1>1. log'[e] = log[e] /\ prog' = prog /\ callOf' = callOf /\ desc' = desc
  BY DEF Fill, InvA, TypeOK
<1>2. \A k \in 1 .. LogLen : Own(e, k)' <=> Own(e, k)
  BY FillOwn
<1> QED
  BY <1>1, <1>2, ViewSame

\* An own lock word that is logged is of a descriptor around the section.
LEMMA FillOuter ==
  ASSUME InvA, HeapB, NEW d \in Descriptors, NEW j \in 1 .. LogLen, NEW v, Fill(d, j, v), FillB(d, j, v),
         ~prog.with, j \in 1 .. Size(d), OwnUpTo(d, j)'
  PROVE  /\ OuterAt(d, j)' /\ Installed(d)
         /\ lck[desc[d].path[j]] = log'[d][j][2] /\ log'[d][j][2] \in Descriptors
<1>1. /\ Size(d)' = Size(d) /\ lck' = lck /\ desc' = desc /\ callOf' = callOf
      /\ \A e : Size(e)' = Size(e) /\ CallId(e)' = CallId(e)
  BY FillSame DEF Fill, CallId
<1>2. /\ log'[d][j] = v /\ log[d][j] = Unset
      /\ \A k \in 1 .. LogLen : j < k => log[d][k] = Unset
  BY FillEntries, FillAfter DEF InvA
<1>3. /\ Size(d) \in Nat /\ j \in Nat /\ j \in 0 .. LogLen /\ j - 1 \in Levels(d)
      /\ Size(d) + 2 \in 1 .. LogLen /\ j < Size(d) + 2
      /\ j - 1 \in 0 .. LogLen /\ j - 1 < j /\ \A m \in 1 .. j - 1 : m \in 1 .. j
  <2>1. LogLen \in Nat
    BY Consts
  <2> QED
    BY <2>1, FitsLog DEF InvA, HeapOK, Levels
<1>4. OwnUpTo(d, j - 1)
  <2>1. OwnUpTo(d, j - 1)'
    BY <1>3 DEF OwnUpTo
  <2> QED
    BY <2>1, <1>3, FillOwn
<1>5. \A q : ~Forks(d, q)
  <2> SUFFICES ASSUME NEW q, Forks(d, q) PROVE FALSE
    OBVIOUS
  <2>1. q \in Levels(d) /\ log[d][q + 1] # Unset /\ ~Own(d, q + 1)
    BY DEF Forks
  <2>2. q + 1 \in 1 .. LogLen /\ q \in Nat
    BY <2>1, FitsLog DEF InvA, HeapOK
  <2>3. q + 1 < j
    BY <2>1, <2>2, <1>2, <1>3
  <2>4. q + 1 \in 1 .. j - 1
    BY <2>2, <2>3, <1>3
  <2> QED
    BY <2>1, <2>4, <1>4 DEF OwnUpTo
<1>6. Installed(d)
  <2>1. Mark(d) = Unset
    BY <1>2, <1>3 DEF Mark
  <2>2. ~Settled(d)
    BY <1>5, <2>1 DEF Settled, ChildDone, HasChild
  <2> QED
    BY <2>2 DEF FillB, Held, InvA, HeapOK, DoneSettled
<1>7. PICK w : w = lck[desc[d].path[j]]
  OBVIOUS
<1>8. v = Word(w)
  BY <1>3, <1>4, <1>7 DEF FillB
<1>9. log'[d][j][2] = w
  BY <1>2, <1>8, EntryFacts
<1>10. w \in Descriptors /\ desc[w].thread = desc[d].thread
  <2>1. Own(d, j)'
    BY <1>3 DEF OwnUpTo
  <2> QED
    BY <2>1, <1>1, <1>9 DEF Own
<1>11. desc[d].path[j] \in Locks
  BY DescType DEF InvA, Size
<1>12. Installed(w) /\ desc[w].lock = desc[d].path[j]
  BY <1>7, <1>10, <1>11 DEF Installed, InvA, HeapOK, LocksOK
<1>13. CallId(w) = CallId(d)
  <2>1. Current(w) /\ Current(d)
    BY <1>6, <1>10, <1>12 DEF HeapB, InstalledB
  <2>2. callOf[w] = callOf[d]
    BY <2>1, <1>10 DEF Current
  <2> QED
    BY <2>2, <1>10 DEF CallId
<1>14. w = d \/ Size(d) < Size(w)
  <2> SUFFICES ASSUME w # d PROVE Size(d) < Size(w)
    OBVIOUS
  <2>1. Chained(d, w)
    BY <1>10 DEF InvA, HeapOK, ChainOrdered
  <2>2. \A y : ~HasChild(d, y)
    BY <1>5 DEF HasChild
  <2>3. Size(w) \in Nat
    BY <1>10, DescType DEF InvA
  <2> QED
    BY <2>1, <2>2, <2>3, <1>3, <1>6, <1>10, <1>12 DEF Chained
<1>15. OuterAt(d, j)'
  BY <1>1, <1>9, <1>12, <1>13, <1>14 DEF OuterAt
<1> QED
  BY <1>6, <1>7, <1>9, <1>10, <1>15

\* EntriesB of the log that is filled.
LEMMA FillEntriesB ==
  ASSUME InvA, HeapB, NEW d \in Descriptors, NEW j \in 1 .. LogLen, NEW v, Fill(d, j, v), FillB(d, j, v),
         x' = x, made' = made
  PROVE  EntriesB(d)'
<1>1. /\ Size(d)' = Size(d) /\ Levels(d)' = Levels(d) /\ Off' = Off /\ Held(d)' /\ Unset' = Unset /\ prog' = prog
  BY FillSame DEF FillB
<1>2. Target(d)' = Target(d) /\ CallId(d)' = CallId(d)
  BY DEF Fill, Target, Goal, Size, CallId
<1>3. /\ log'[d][j] = v /\ log[d][j] = Unset
      /\ \A k \in 1 .. LogLen : k # j => log'[d][k] = log[d][k]
      /\ \A k \in 1 .. LogLen : j < k => log[d][k] = Unset /\ log'[d][k] = Unset
  BY FillEntries, FillAfter DEF InvA
<1>4. Size(d) \in Nat /\ Size(d) + 1 \in 1 .. LogLen /\ Size(d) + 2 \in 1 .. LogLen /\ j \in Nat
  BY FitsLog DEF InvA, HeapOK
<1>5. EntriesB(d)
  BY DEF HeapB
<1>6. (ValueAtMost(d) /\ (Stored(d) => CallId(d) \in made))'
  <2>1. CASE ~Base(d)'
    BY <2>1 DEF ValueAtMost, Stored
  <2>2. CASE Base(d)' /\ j <= Size(d)
    <3>1. Value(d)' = Unset /\ Mark(d)' = Unset
      BY <1>1, <1>3, <1>4, <2>2 DEF Value, Mark
    <3> QED
      BY <1>1, <3>1 DEF ValueAtMost, Stored
  <2>3. CASE Base(d)' /\ j > Size(d)
    <3>1. Base(d)
      BY <2>3, <1>4, FillBase
    <3>2. CASE j = Size(d) + 1
      <4>1. Value(d)' = v /\ v[2] = x[Target(d)]
        BY <1>1, <1>3, <3>1, <3>2 DEF Value, FillB
      <4>2. Mark(d)' = Unset
        BY <1>1, <1>3, <1>4, <3>2 DEF Mark
      <4>4. v[2] <= x[Target(d)] /\ ~(v[2] < x[Target(d)])
        <5>1. v[2] \in Nat
          BY <3>1, <3>2 DEF FillB, InvA, TypeOK
        <5> QED
          BY <4>1, <5>1
      <4> QED
        BY <1>1, <1>2, <4>1, <4>2, <4>4 DEF ValueAtMost, Stored
    <3>3. CASE j # Size(d) + 1
      <4>1. Value(d)' = Value(d)
        BY <1>1, <1>3, <1>4, <3>3 DEF Value
      <4>2. Stored(d)' <=> Stored(d)
        BY <1>1, <1>2, <4>1, <3>1, <2>3 DEF Stored
      <4>3. Mark(d)' # Unset => Stored(d)
        <5>1. CASE j = Size(d) + 2
          BY <5>1, <3>1 DEF FillB
        <5>2. CASE j # Size(d) + 2
          <6>1. Mark(d)' = Mark(d)
            BY <1>1, <1>3, <1>4, <5>2 DEF Mark
          <6> QED
            BY <6>1, <3>1, <1>5 DEF EntriesB, ValueAtMost
        <5> QED
          BY <5>1, <5>2
      <4> QED
        BY <1>1, <1>2, <1>5, <4>1, <4>2, <4>3, <3>1 DEF ValueAtMost, EntriesB
    <3> QED
      BY <3>2, <3>3
  <2> QED
    BY <2>1, <2>2, <2>3, <1>4
<1>7. (\A i \in Levels(d) : Forks(d, i) /\ IsDone(ChildAt(d, i)) => ChildAt(d, i)[2] = (CallId(d) \in made))'
  <2> SUFFICES ASSUME NEW i \in Levels(d), Forks(d, i)', IsDone(ChildAt(d, i)')
               PROVE  (ChildAt(d, i)[2] = (CallId(d) \in made))'
    BY <1>1 DEF IsDone
  <2>1. i \in Nat /\ i + 1 + Off \in 1 .. LogLen /\ i + 1 \in 1 .. LogLen
    BY FitsLog DEF InvA, HeapOK
  <2>2. ChildAt(d, i)' = log'[d][i + 1 + Off] /\ ChildAt(d, i) = log[d][i + 1 + Off]
    BY <1>1 DEF ChildAt
  <2>3. i + 1 + Off # j
    BY <1>3, <2>2 DEF FillB
  <2>4. ChildAt(d, i)' = ChildAt(d, i) /\ ChildAt(d, i) # Unset
    BY <2>1, <2>2, <2>3, <1>3, EntryFacts
  <2>5. Forks(d, i)
    <3>1. CASE i + 1 = j /\ ~prog.with
      <4>1. Off = 1
        BY <3>1, ProgType DEF InvA
      <4> QED
        BY <3>1, <4>1, <2>1, <2>2, <2>4, <1>3
    <3> QED
      BY <3>1, FillForks
  <2> QED
    BY <1>2, <1>5, <2>4, <2>5 DEF EntriesB
<1>8. ASSUME ~prog.with, NEW k \in 1 .. Size(d), OwnUpTo(d, k)' PROVE OuterAt(d, k)'
  <2>1. Own(d, k)' /\ k \in Nat /\ k >= 1 /\ k \in 1 .. LogLen /\ k \in 0 .. LogLen
    <3>1. k \in 1 .. LogLen /\ k \in 0 .. LogLen /\ k \in 1 .. k
      BY <1>8, FitsLog DEF InvA, HeapOK
    <3> QED
      BY <3>1, <1>8 DEF OwnUpTo
  <2>2. ~(j < k)
    <3>1. log'[d][k][1] = "word"
      BY <2>1 DEF Own
    <3> QED
      BY <1>3, <2>1, <3>1, EntryFacts
  <2>3. CASE k < j
    <3>1. OwnUpTo(d, k)
      BY <2>1, <2>3, <1>4, <1>8, FillOwn
    <3>2. OuterAt(d, k)
      BY <3>1, <1>5, <1>8 DEF EntriesB
    <3>3. log'[d][k] = log[d][k]
      BY <1>3, <2>1, <2>3
    <3>4. desc' = desc /\ \A e : Size(e)' = Size(e) /\ CallId(e)' = CallId(e)
      BY FillSame DEF Fill, CallId
    <3> QED
      BY <3>2, <3>3, <3>4 DEF OuterAt
  <2>4. CASE k = j
    BY <2>4, <1>8, FillOuter
  <2> QED
    BY <2>1, <2>2, <2>3, <2>4, <1>4
<1> QED
  BY <1>1, <1>6, <1>7, <1>8 DEF EntriesB

\* InstalledB of the descriptor whose log is filled.
LEMMA FillInstalledB ==
  ASSUME InvA, HeapB, NEW d \in Descriptors, NEW j \in 1 .. LogLen, NEW v, Fill(d, j, v), FillB(d, j, v),
         x' = x, made' = made, calls' = calls, Installed(d)
  PROVE  InstalledB(d)'
<1>1. /\ Size(d)' = Size(d) /\ prog' = prog /\ lck' = lck /\ desc' = desc /\ callOf' = callOf
      /\ \A e : Installed(e)' <=> Installed(e)
      /\ \A e : Over(e)' <=> Over(e)
  BY FillSame DEF Fill
<1>2. Target(d)' = Target(d) /\ CallId(d)' = CallId(d)
  BY <1>1 DEF Target, Goal, Size, CallId
<1>3. /\ log'[d][j] = v /\ log[d][j] = Unset
      /\ \A k \in 1 .. LogLen : k # j => log'[d][k] = log[d][k]
      /\ \A k \in 1 .. LogLen : j < k => log[d][k] = Unset /\ log'[d][k] = Unset
  BY FillEntries, FillAfter DEF InvA
<1>4. Size(d) \in Nat /\ j \in Nat /\ \A k \in 1 .. Size(d) : k \in 1 .. LogLen /\ k \in 0 .. LogLen /\ k - 1 \in Levels(d)
  BY FitsLog DEF InvA, HeapOK
<1>5. InstalledB(d) /\ Rely({}) /\ d \in Descriptors \ {}
  BY FillRely DEF HeapB
<1>6. Passed(CallId(d))' => Advanced(d)'
  <2>1. Passed(CallId(d))' => Passed(CallId(d))
    BY <1>1, <1>2 DEF Passed, CallId
  <2>2. Advanced(d) => Advanced(d)'
    BY <1>1, <1>5, AdvancedKept DEF Stored
  <2> QED
    BY <2>1, <2>2, <1>5 DEF InstalledB
<1>7. Current(d)'
  BY <1>1, <1>2, <1>5 DEF InstalledB, Current, Goal
<1>8. ASSUME ~prog.with, NEW k \in 1 .. Size(d), OwnUpTo(d, k)' PROVE Reentry(d, k)'
  <2>1. Own(d, k)' /\ k \in Nat /\ k >= 1 /\ k \in 1 .. LogLen
    BY <1>4, <1>8 DEF OwnUpTo
  <2>2. log'[d][k][1] = "word"
    BY <2>1 DEF Own
  <2>3. ~(j < k)
    BY <1>3, <2>1, <2>2, EntryFacts
  <2>4. CASE k < j
    <3>1. OwnUpTo(d, k)
      BY <2>1, <2>4, <1>4, <1>8, FillOwn
    <3>2. Reentry(d, k)
      BY <3>1, <1>5, <1>8 DEF InstalledB
    <3>3. log'[d][k] = log[d][k]
      BY <1>3, <2>1, <2>4
    <3> QED
      BY <3>2, <3>3, <1>1 DEF Reentry, Size
  <2>5. CASE k = j
    <3>1. OuterAt(d, j)' /\ lck[desc[d].path[j]] = log'[d][j][2]
      BY <2>5, <1>8, FillOuter
    <3> QED
      BY <3>1, <2>5, <1>1 DEF Reentry, OuterAt, Size
  <2> QED
    BY <2>1, <2>3, <2>4, <2>5, <1>4
<1> QED
  BY <1>1, <1>6, <1>7, <1>8 DEF InstalledB

\* To fill an entry keeps HeapB.
LEMMA FillHeapB ==
  ASSUME InvA, HeapB, NEW d \in Descriptors, NEW j \in 1 .. LogLen, NEW v, Fill(d, j, v), FillB(d, j, v),
         x' = x, made' = made, calls' = calls
  PROVE  HeapB'
<1>1. Rely({}) /\ lck' = lck /\ desc' = desc /\ callOf' = callOf /\ status' = status
  BY FillRely DEF Fill
<1>2. /\ \A e : Installed(e)' <=> Installed(e)
      /\ \A e : Over(e)' <=> Over(e)
      /\ \A e : Size(e)' = Size(e)
  BY FillSame
<1>3. ASSUME NEW e \in Descriptors PROVE EntriesB(e)'
  <2>1. CASE e = d
    BY <2>1, FillEntriesB
  <2>2. CASE e # d
    BY <2>2, <1>1, FillView, ViewEntries DEF HeapB
  <2> QED
    BY <2>1, <2>2
<1>4. ASSUME NEW e \in Descriptors PROVE InstalledB(e)'
  <2>1. CASE e = d
    BY <2>1, <1>2, FillInstalledB DEF InstalledB
  <2>2. CASE e # d /\ Installed(e)
    <3>1. SameView(e) /\ e \in Descriptors \ {} /\ InstalledB(e)
      BY <2>2, FillView DEF HeapB
    <3>2. \A k \in 1 .. Size(e) : OwnUpTo(e, k) /\ Reentry(e, k) => Reentry(e, k)'
      BY <1>1, <1>2, <3>1, DescType, ReentryKept DEF InvA
    <3>3. Passed(CallId(e))' => Passed(CallId(e))
      BY <1>1, <1>2 DEF Passed, CallId
    <3> QED
      BY <1>1, <1>2, <2>2, <3>1, <3>2, <3>3, ViewInstalled
  <2>3. CASE ~Installed(e)
    BY <2>3, <1>2 DEF InstalledB
  <2> QED
    BY <2>1, <2>2, <2>3
<1>5. CallsPast'
  BY <1>1, PastKept
<1> QED
  BY <1>3, <1>4, <1>5 DEF HeapB

\* To replace a logged descriptor by the result of its call keeps HeapB.
LEMMA ReplaceHeapB ==
  ASSUME InvA, HeapB, NEW d \in Descriptors, NEW i, NEW r, Replace(d, i, r), r = (CallId(d) \in made),
         x' = x, made' = made, calls' = calls
  PROVE  HeapB'
<1>1. Rely({}) /\ lck' = lck /\ desc' = desc /\ callOf' = callOf /\ status' = status /\ prog' = prog
  BY ReplaceRely DEF Replace
<1>2. /\ \A e : Installed(e)' <=> Installed(e)
      /\ \A e : Over(e)' <=> Over(e)
      /\ \A e : Held(e)' <=> Held(e)
      /\ \A e : Size(e)' = Size(e)
      /\ \A e : Levels(e)' = Levels(e)
      /\ Off' = Off /\ Unset' = Unset
  BY ReplaceSame
<1>3. PICK j : j = i + 1 + Off
  OBVIOUS
<1>4. /\ i \in Levels(d) /\ i \in Nat /\ Size(d) \in Nat /\ j \in 1 .. LogLen
      /\ \A e \in Descriptors : \A k \in 1 .. LogLen : e # d \/ k # j => log'[e][k] = log[e][k]
      /\ \A k \in 1 .. i : k # j
      /\ log[d][j] # Unset
  BY <1>3, ReplaceEntries
<1>5. Forks(d, i) /\ ChildAt(d, i) # Unset /\ ChildAt(d, i)' = Done(r) /\ ~Base(d)'
  <2>1. ChildAt(d, i)' = Done(r) /\ (Base(d)' => Base(d) /\ d # d)
    BY ReplaceForks
  <2>2. Forks(d, i) /\ ChildAt(d, i) # Unset
    BY DEF Replace
  <2> QED
    BY <2>1, <2>2
<1>6. \A e \in Descriptors : e # d => SameView(e)
  <2> SUFFICES ASSUME NEW e \in Descriptors, e # d PROVE SameView(e)
    OBVIOUS
  <2>1. log'[e] = log[e]
    BY DEF Replace, InvA, TypeOK
  <2>2. \A k \in 1 .. LogLen : Own(e, k)' <=> Own(e, k)
    BY ReplaceOwn
  <2> QED
    BY <2>1, <2>2, <1>1, ViewSame
<1>7. CallId(d)' = CallId(d) /\ EntriesB(d) /\ InstalledB(d) /\ d \in Descriptors \ {}
  BY <1>1 DEF CallId, HeapB
<1>8. EntriesB(d)'
  <2>1. Started(d)
    BY <1>4, <1>5, StartedBy
  <2>2. Held(d)'
    BY <2>1, <1>2, <1>7 DEF EntriesB
  <2>3. ASSUME NEW q \in Levels(d), Forks(d, q)', IsDone(ChildAt(d, q)')
        PROVE  ChildAt(d, q)'[2] = (CallId(d) \in made)
    <3>1. Forks(d, q)
      BY <2>3, ReplaceForks
    <3>2. q = i
      BY <3>1, <1>5, OneFork DEF InvA, HeapOK
    <3> QED
      BY <3>2, <1>5, EntryFacts
  <2>4. (\A q \in Levels(d) : Forks(d, q) /\ IsDone(ChildAt(d, q)) => ChildAt(d, q)[2] = (CallId(d) \in made))'
    BY <2>3, <1>2, <1>7 DEF IsDone
  <2>5. ASSUME ~prog.with, NEW k \in 1 .. Size(d), OwnUpTo(d, k)' PROVE OuterAt(d, k)'
    <3>1. k \in 0 .. LogLen /\ k \in 0 .. Size(d) /\ k \in 1 .. LogLen /\ k \in Nat
      BY <1>4, FitsLog DEF InvA, HeapOK
    <3>2. OwnUpTo(d, k)
      BY <2>5, <3>1, ReplaceOwn
    <3>3. k <= i
      BY <3>1, <3>2, <2>5, <1>5, ForksTop DEF InvA
    <3>4. log'[d][k] = log[d][k]
      BY <3>1, <3>3, <1>4
    <3>5. OuterAt(d, k)
      BY <3>2, <2>5, <1>7 DEF EntriesB
    <3>6. \A e : CallId(e)' = CallId(e)
      BY <1>1 DEF CallId
    <3> QED
      BY <3>4, <3>5, <3>6, <1>1, <1>2 DEF OuterAt
  <2> QED
    BY <2>2, <2>4, <2>5, <1>1, <1>2, <1>5 DEF EntriesB, ValueAtMost, Stored
<1>9. ASSUME NEW e \in Descriptors PROVE EntriesB(e)'
  <2>1. CASE e # d
    BY <2>1, <1>1, <1>6, ViewEntries DEF HeapB
  <2> QED
    BY <2>1, <1>8
<1>10. ASSUME NEW e \in Descriptors PROVE Passed(CallId(e))' => Passed(CallId(e))
  BY <1>1, <1>2 DEF Passed, CallId
<1>11. ASSUME Installed(d) PROVE InstalledB(d)'
  <2>1. Passed(CallId(d))' => Advanced(d)'
    <3>1. Advanced(d) => Advanced(d)'
      BY <1>1, <1>2, <1>7, AdvancedKept DEF Stored
    <3> QED
      BY <3>1, <1>7, <1>10, <1>11 DEF InstalledB
  <2>2. Target(d)' = Target(d)
    BY <1>1 DEF Target, Goal, Size
  <2>3. Current(d)'
    BY <1>1, <2>2, <1>7, <1>11 DEF InstalledB, Current, Goal
  <2>4. ASSUME ~prog.with, NEW k \in 1 .. Size(d), OwnUpTo(d, k)' PROVE Reentry(d, k)'
    <3>1. k \in 0 .. LogLen /\ k \in 0 .. Size(d) /\ k \in 1 .. LogLen /\ k \in Nat
      BY <1>4, FitsLog DEF InvA, HeapOK
    <3>2. OwnUpTo(d, k)
      BY <2>4, <3>1, ReplaceOwn
    <3>3. k <= i
      BY <3>1, <3>2, <2>4, <1>5, ForksTop DEF InvA
    <3>4. log'[d][k] = log[d][k]
      BY <3>1, <3>3, <1>4
    <3>5. Reentry(d, k)
      BY <3>2, <2>4, <1>7, <1>11 DEF InstalledB
    <3> QED
      BY <3>4, <3>5, <1>1 DEF Reentry, Size
  <2> QED
    BY <2>1, <2>3, <2>4, <1>1, <1>2 DEF InstalledB
<1>12. ASSUME NEW e \in Descriptors PROVE InstalledB(e)'
  <2>1. CASE e = d
    BY <2>1, <1>2, <1>11 DEF InstalledB
  <2>2. CASE e # d /\ Installed(e)
    <3>1. SameView(e) /\ e \in Descriptors \ {} /\ InstalledB(e)
      BY <2>2, <1>6 DEF HeapB
    <3>2. \A k \in 1 .. Size(e) : OwnUpTo(e, k) /\ Reentry(e, k) => Reentry(e, k)'
      BY <1>1, <1>2, <3>1, DescType, ReentryKept DEF InvA
    <3> QED
      BY <1>1, <1>2, <2>2, <3>1, <3>2, <1>10, ViewInstalled
  <2>3. CASE ~Installed(e)
    BY <2>3, <1>2 DEF InstalledB
  <2> QED
    BY <2>1, <2>2, <2>3
<1>13. CallsPast'
  BY <1>1, PastKept
<1> QED
  BY <1>9, <1>12, <1>13 DEF HeapB

\* To make a descriptor keeps HeapB.
LEMMA MakeHeapB ==
  ASSUME InvA, TypeOK', HeapB, NEW d \in Descriptors, Makes(d), callOf'[d] <= Len(calls[desc'[d].thread]),
         x' = x, made' = made, calls' = calls
  PROVE  HeapB'
<1>1. Rely({d}) /\ lck' = lck /\ prog' = prog
  BY MakeRely DEF Makes
<1>2. /\ \A l \in Locks : lck[l] # d
      /\ ~Installed(d) /\ ~Installed(d)' /\ ~Held(d)'
      /\ \A e : Installed(e)' <=> Installed(e)
      /\ \A e \in Descriptors \ {d} : Size(e)' = Size(e)
      /\ Off' = Off /\ Unset' = Unset
  BY MakeSame
<1>3. \A e \in Descriptors : e # d => SameView(e)
  <2> SUFFICES ASSUME NEW e \in Descriptors, e # d PROVE SameView(e)
    OBVIOUS
  <2>1. log'[e] = log[e] /\ desc'[e] = desc[e] /\ callOf'[e] = callOf[e]
    BY DEF Makes
  <2>2. ASSUME NEW k \in 1 .. LogLen PROVE Own(e, k)' <=> Own(e, k)
    <3>1. PICK w : w = log[e][k][2]
      OBVIOUS
    <3>2. log[e][k][1] = "word" /\ w \in Descriptors => desc'[w].thread = desc[w].thread
      BY <3>1, MakeSame DEF InvA, HeapOK, LogsKnown
    <3>3. Own(e, k) <=> log[e][k][1] = "word" /\ w \in Descriptors /\ desc[w].thread = desc[e].thread
      BY <3>1 DEF Own
    <3>4. Own(e, k)' <=> log[e][k][1] = "word" /\ w \in Descriptors /\ desc'[w].thread = desc[e].thread
      BY <3>1, <2>1 DEF Own
    <3> QED
      BY <3>2, <3>3, <3>4
  <2> QED
    BY <2>1, <2>2, <1>1, ViewSame
<1>4. EntriesB(d)'
  <2>1. \A j \in 1 .. LogLen : log'[d][j] = Unset
    BY DEF Makes
  <2>2. ~Started(d)'
    BY <2>1, <1>2, Consts DEF Started
  <2>3. Value(d)' = Unset /\ Mark(d)' = Unset /\ \A i \in Levels(d)' : ChildAt(d, i)' = Unset
    BY MakeBlank
  <2>4. (ValueAtMost(d) /\ ~Stored(d))'
    BY <2>3, <1>2 DEF ValueAtMost, Stored
  <2>5. (\A i \in Levels(d) : Forks(d, i) /\ IsDone(ChildAt(d, i)) => ChildAt(d, i)[2] = (CallId(d) \in made))'
    BY <2>3, EntryFacts DEF IsDone
  <2>6. ASSUME NEW k \in 1 .. Size(d)' PROVE ~OwnUpTo(d, k)'
    <3>1. 1 \in 1 .. k
      BY MakeBlank
    <3>2. log'[d][1] = Unset
      BY <2>1, Consts
    <3> QED
      BY <3>1, <3>2, EntryFacts DEF OwnUpTo, Own
  <2> QED
    BY <2>2, <2>4, <2>5, <2>6 DEF EntriesB
<1>5. ASSUME NEW e \in Descriptors PROVE EntriesB(e)'
  <2>1. CASE e # d
    <3>1. SameView(e) /\ EntriesB(e) /\ e \in Descriptors \ {d}
      BY <2>1, <1>3 DEF HeapB
    <3> QED
      BY <3>1, <1>1, ViewEntries
  <2> QED
    BY <2>1, <1>4
<1>6. ASSUME NEW e \in Descriptors PROVE InstalledB(e)'
  <2>1. CASE e # d /\ Installed(e)
    <3>1. SameView(e) /\ e \in Descriptors \ {d} /\ InstalledB(e)
      BY <2>1, <1>3 DEF HeapB
    <3>2. \A k \in 1 .. Size(e) : OwnUpTo(e, k) /\ Reentry(e, k) => Reentry(e, k)'
      <4>1. ASSUME NEW k \in 1 .. Size(e) PROVE \A w \in Descriptors : lck[desc[e].path[k]] = w => Size(w)' = Size(w)
        <5>1. desc[e].path[k] \in Locks
          BY DescType DEF InvA, Size
        <5> QED
          BY <5>1, <1>2
      <4> QED
        BY <4>1, <1>1, <3>1, DescType, ReentryKept DEF InvA
    <3>3. Passed(CallId(e))' => Passed(CallId(e))
      <4>1. CallId(e)' = CallId(e)
        BY <3>1 DEF SameView
      <4>2. \A y \in Descriptors : desc'[y].done /\ ~Installed(y)' =>
              desc[y].done /\ ~Installed(y) /\ CallId(y)' = CallId(y)
        BY <1>2 DEF Makes, CallId
      <4> QED
        BY <4>1, <4>2, PassedSame
    <3>4. \A y \in Descriptors : HasChild(e, y) /\ (Over(y) \/ Installed(y)) => Over(y)' \/ Installed(y)'
      <4> SUFFICES ASSUME NEW y \in Descriptors, HasChild(e, y), Over(y) \/ Installed(y)
                   PROVE Over(y)' \/ Installed(y)'
        OBVIOUS
      <4>1. status[y] = "live"
        BY ChildLive
      <4>2. y \in Descriptors \ {d}
        BY <4>1 DEF Makes
      <4> QED
        BY <4>2, <1>1, <1>2 DEF Rely, DescKept
    <3> QED
      BY <1>1, <2>1, <3>1, <3>2, <3>3, <3>4, ViewInstalled
  <2>2. CASE ~Installed(e)
    BY <2>2, <1>2 DEF InstalledB
  <2> QED
    BY <2>1, <2>2, <1>2
<1>7. CallsPast'
  BY PastKept DEF Makes
<1> QED
  BY <1>5, <1>6, <1>7 DEF HeapB

\* To put the first descriptor of a call into its lock keeps HeapB.
LEMMA InstallHeapB ==
  ASSUME InvA, HeapB, NEW l \in Locks, NEW d \in Descriptors, Install(l, d), InstallOK(l, d),
         ~Passed(CallId(d)), Current(d), x' = x, made' = made, calls' = calls
  PROVE  HeapB'
<1>1. Rely({}) /\ SameLogs /\ desc' = desc /\ callOf' = callOf /\ status' = status /\ prog' = prog
  BY InstallRely DEF Install, SameLogs
<1>2. /\ \A m \in Locks \ {l} : lck'[m] = lck[m]
      /\ \A e \in Descriptors \ {d} : (Installed(e)' <=> Installed(e)) /\ (Held(e)' <=> Held(e))
      /\ \A e \in Descriptors : Installed(e) => Installed(e)'
      /\ \A e : Size(e)' = Size(e)
  BY InstallSame
<1>3. \A e \in Descriptors : SameView(e) /\ EntriesB(e) /\ InstalledB(e)
  BY <1>1, SameLogsView DEF HeapB
<1>4. \A e \in Descriptors : EntriesB(e)'
  BY <1>1, <1>3, ViewEntries
<1>5. ASSUME NEW e \in Descriptors PROVE Passed(CallId(e))' => Passed(CallId(e))
  BY <1>1, <1>2 DEF Passed, CallId
<1>6. InstalledB(d)'
  <2>1. ~Passed(CallId(d))'
    BY <1>5
  <2>2. Current(d)'
    BY <1>1, <1>3 DEF Current, SameView, Goal
  <2>3. ~Held(d)
    BY DEF InstallOK
  <2>4. log[d][1] = Unset
    BY <1>3, <2>3 DEF EntriesB, Started
  <2>5. ASSUME NEW k \in 1 .. Size(d) PROVE ~OwnUpTo(d, k)
    <3>1. 1 \in 1 .. k
      BY DescType DEF InvA
    <3>2. ~Own(d, 1)
      BY <2>4, OwnSet
    <3> QED
      BY <3>1, <3>2 DEF OwnUpTo
  <2>6. (\A k \in 1 .. Size(d) : ~OwnUpTo(d, k))'
    BY <2>5, <1>3 DEF SameView
  <2> QED
    BY <2>1, <2>2, <2>6 DEF InstalledB
<1>7. ASSUME NEW e \in Descriptors PROVE InstalledB(e)'
  <2>1. CASE e # d /\ Installed(e)
    <3>1. \A k \in 1 .. Size(e) : OwnUpTo(e, k) /\ Reentry(e, k) => Reentry(e, k)'
      <4> SUFFICES ASSUME NEW k \in 1 .. Size(e), OwnUpTo(e, k), Reentry(e, k) PROVE Reentry(e, k)'
        OBVIOUS
      <4>1. PICK m : m = desc[e].path[k]
        OBVIOUS
      <4>2. m \in Locks
        BY <4>1, DescType DEF InvA, Size
      <4>3. lck[m] \in Descriptors
        BY <4>1 DEF Reentry, OwnUpTo, Own
      <4>4. m # l
        BY <4>3, Consts DEF Install
      <4>5. lck'[m] = lck[m]
        BY <4>2, <4>4, <1>2
      <4>6. SameView(e) /\ Size(e) \in Nat
        BY <1>3, DescType DEF InvA
      <4>7. \A w \in Descriptors : lck[m] = w => Size(w)' = Size(w)
        BY <1>2
      <4> QED
        BY <4>1, <4>5, <4>6, <4>7, ReentryKept
    <3>2. \A y \in Descriptors : HasChild(e, y) /\ (Over(y) \/ Installed(y)) => Over(y)' \/ Installed(y)'
      BY <1>1, <1>2 DEF Rely, DescKept
    <3> QED
      BY <1>1, <1>3, <1>5, <2>1, <3>1, <3>2, ViewInstalled
  <2>2. CASE e # d /\ ~Installed(e)
    BY <2>2, <1>2 DEF InstalledB
  <2> QED
    BY <2>1, <2>2, <1>6
<1>8. CallsPast'
  BY <1>1, PastKept
<1> QED
  BY <1>4, <1>7, <1>8 DEF HeapB

\* To take a descriptor that is done out of its lock keeps HeapB.
LEMMA ReleaseHeapB ==
  ASSUME InvA, HeapB, NEW l \in Locks, NEW d \in Descriptors, Release(l, d), desc[d].done,
         x' = x, made' = made, calls' = calls
  PROVE  HeapB'
<1>1. Rely({}) /\ SameLogs /\ desc' = desc /\ callOf' = callOf /\ status' = status /\ prog' = prog
  BY ReleaseRely DEF Release, SameLogs
<1>2. /\ \A m \in Locks \ {l} : lck'[m] = lck[m]
      /\ ~Installed(d)' /\ Installed(d) /\ Over(d)'
      /\ \A e \in Descriptors \ {d} : Installed(e)' <=> Installed(e)
      /\ \A e : Size(e)' = Size(e)
  BY ReleaseSame
<1>3. \A e \in Descriptors : SameView(e) /\ EntriesB(e) /\ InstalledB(e)
  BY <1>1, SameLogsView DEF HeapB
<1>4. \A e \in Descriptors : EntriesB(e)'
  BY <1>1, <1>3, ViewEntries
<1>5. ASSUME NEW e \in Descriptors, e # d, Installed(e), desc[e].thread = desc[d].thread
      PROVE  /\ ~(Size(e) < Size(d))
             /\ Advanced(e)'
  <2>1. ~(Size(e) < Size(d)) /\ Size(e) # Size(d)
    BY <1>2, <1>5, DoneLast
  <2>2. Size(e) \in Nat /\ Size(d) \in Nat
    BY DescType DEF InvA
  <2>3. Size(d) < Size(e)
    BY <2>1, <2>2
  <2>4. Chained(e, d)
    BY DEF InvA, HeapOK, ChainOrdered
  <2>5. PICK y \in Descriptors : HasChild(e, y) /\ Installed(y)
    BY <2>3, <2>4, <1>2, <1>5 DEF Chained
  <2>6. Over(y)' \/ Installed(y)'
    BY <1>2, <2>5
  <2>7. HasChild(e, y)'
    BY <1>3, <2>5 DEF SameView
  <2> QED
    BY <2>1, <2>6, <2>7 DEF Advanced
<1>6. ASSUME NEW e \in Descriptors PROVE InstalledB(e)'
  <2>1. CASE e # d /\ Installed(e)
    <3>1. \A k \in 1 .. Size(e) : OwnUpTo(e, k) /\ Reentry(e, k) => Reentry(e, k)'
      <4> SUFFICES ASSUME NEW k \in 1 .. Size(e), OwnUpTo(e, k), Reentry(e, k) PROVE Reentry(e, k)'
        OBVIOUS
      <4>1. PICK m : m = desc[e].path[k]
        OBVIOUS
      <4>2. m \in Locks
        BY <4>1, DescType DEF InvA, Size
      <4>3. PICK w : w = log[e][k][2]
        OBVIOUS
      <4>4. w \in Descriptors /\ desc[w].thread = desc[e].thread
        BY <4>3 DEF OwnUpTo, Own
      <4>5. lck[m] = w /\ (w = e \/ Size(e) < Size(w))
        BY <4>1, <4>3 DEF Reentry
      <4>6. m # l
        <5> SUFFICES ASSUME m = l PROVE FALSE
          OBVIOUS
        <5>1. w = d
          BY <4>5 DEF Release
        <5> QED
          BY <5>1, <4>4, <4>5, <2>1, <1>5
      <4>7. lck'[m] = lck[m]
        BY <4>2, <4>6, <1>2
      <4>8. SameView(e) /\ Size(e) \in Nat
        BY <1>3, DescType DEF InvA
      <4>9. \A q \in Descriptors : lck[m] = q => Size(q)' = Size(q)
        BY <1>2
      <4> QED
        BY <4>1, <4>7, <4>8, <4>9, ReentryKept
    <3>2. \A y \in Descriptors : HasChild(e, y) /\ (Over(y) \/ Installed(y)) => Over(y)' \/ Installed(y)'
      BY <1>1, <1>2 DEF Rely, DescKept
    <3>3. Passed(CallId(e))' => Passed(CallId(e)) \/ Advanced(e)'
      <4>1. CASE CallId(d) = CallId(e)
        <5>1. desc[e].thread = desc[d].thread
          BY <4>1 DEF CallId
        <5> QED
          BY <5>1, <2>1, <1>5
      <4>2. CASE CallId(d) # CallId(e)
        <5>1. \A y \in Descriptors : y # d => (Installed(y)' <=> Installed(y))
          BY <1>2
        <5>2. CallId(e)' = CallId(e) /\ \A y \in Descriptors : CallId(y)' = CallId(y)
          BY <1>1 DEF CallId
        <5> QED
          BY <5>1, <5>2, <4>2, <1>1 DEF Passed
      <4> QED
        BY <4>1, <4>2
    <3> QED
      BY <1>1, <1>3, <2>1, <3>1, <3>2, <3>3, ViewInstalled
  <2>2. CASE e = d \/ ~Installed(e)
    BY <2>2, <1>2 DEF InstalledB
  <2> QED
    BY <2>1, <2>2
<1>7. CallsPast'
  BY <1>1, PastKept
<1> QED
  BY <1>4, <1>6, <1>7 DEF HeapB

\* The store keeps HeapB: no other section had this tag logged.
LEMMA SwapHeapB ==
  ASSUME InvA, HeapB, NEW t \in Threads, NEW h, NEW f, NEW s, NEW n, Swapping(t, h, f, s, n),
         HeapSame, calls' = calls, x' = [x EXCEPT ![f.lock] = f.cur + 1], made' = made \cup {CallId(s)}
  PROVE  HeapB'
<1>1. Rely({}) /\ SameLogs /\ desc' = desc /\ callOf' = callOf /\ status' = status /\ prog' = prog /\ lck' = lck
  BY SameRely DEF HeapSame, SameLogs
<1>2. /\ s \in Descriptors /\ Base(s) /\ f.lock = Target(s) /\ Value(s) = Word(f.cur) /\ f.cur \in Nat
      /\ f.lock \in Locks /\ Installed(s) /\ CallId(s) \notin made
  BY SwapSection
<1>3. \A e : (Installed(e)' <=> Installed(e)) /\ (Size(e)' = Size(e)) /\ (CallId(e)' = CallId(e))
  BY <1>1 DEF Installed, Size, CallId
<1>4. \A e \in Descriptors : SameView(e) /\ EntriesB(e) /\ InstalledB(e)
  BY <1>1, SameLogsView DEF HeapB
<1>5. x[f.lock] = f.cur /\ x \in [Locks -> Nat]
  BY DEF Swapping, InvA, TypeOK
<1>6. x'[f.lock] = f.cur + 1 /\ \A l : l # f.lock => x'[l] = x[l]
  BY <1>2, <1>5
<1>7. ASSUME NEW d \in Descriptors, Base(d), Value(d) # Unset PROVE Value(d)[2] \in Nat
  BY <1>7 DEF InvA, HeapOK, ValuesOK
<1>8. ASSUME NEW d \in Descriptors, Stored(d) PROVE Stored(d)' /\ Value(d)[2] < x'[Target(d)]
  <2>1. Value(d)[2] < x[Target(d)] /\ Value(d)[2] \in Nat
    BY <1>7, <1>8 DEF Stored
  <2>2. Value(d)[2] < x'[Target(d)]
    BY <2>1, <1>2, <1>5, <1>6
  <2> QED
    BY <2>2, <1>4, <1>8 DEF Stored, SameView, Unset
<1>9. ASSUME NEW d \in Descriptors, Stored(d)', ~Stored(d) PROVE d = s
  <2>1. Base(d) /\ Value(d) # Unset /\ Value(d)[2] < x'[Target(d)] /\ ~(Value(d)[2] < x[Target(d)])
    BY <1>4, <1>9 DEF Stored, SameView, Unset
  <2>2. Target(d) = Target(s)
    BY <2>1, <1>2, <1>6
  <2>3. Held(d)
    BY <2>1, <1>4, StartedBy DEF EntriesB
  <2>4. ~desc[d].done
    <3> SUFFICES ASSUME desc[d].done PROVE FALSE
      OBVIOUS
    <3>1. Mark(d) # Unset
      BY <2>1, SettledBase DEF InvA, HeapOK, DoneSettled
    <3> QED
      BY <3>1, <2>1, <1>4, <1>9 DEF EntriesB, ValueAtMost
  <2>5. Installed(d)
    BY <2>3, <2>4 DEF Held
  <2> QED
    BY <2>1, <2>2, <2>5, <1>2, SameTarget
<1>10. ASSUME NEW d \in Descriptors PROVE EntriesB(d)'
  <2>1. ValueAtMost(d)'
    <3> SUFFICES ASSUME Base(d)
                 PROVE  /\ Value(d) # Unset => Value(d)[2] <= x'[Target(d)]
                        /\ Mark(d) # Unset => Stored(d)'
      BY <1>4 DEF ValueAtMost, SameView, Unset
    <3>1. ASSUME Value(d) # Unset PROVE Value(d)[2] <= x'[Target(d)]
      <4>1. Value(d)[2] \in Nat /\ Value(d)[2] <= x[Target(d)]
        BY <3>1, <1>4, <1>7 DEF EntriesB, ValueAtMost
      <4> QED
        BY <4>1, <1>2, <1>5, <1>6
    <3>2. Mark(d) # Unset => Stored(d)
      BY <1>4 DEF EntriesB, ValueAtMost
    <3> QED
      BY <3>1, <3>2, <1>8
  <2>2. (Started(d) => Held(d))'
    BY <1>1, <1>3, <1>4 DEF EntriesB, SameView, Started, Held, Unset
  <2>3. (Stored(d) => CallId(d) \in made)'
    BY <1>3, <1>4, <1>9 DEF EntriesB
  <2>4. ASSUME NEW i \in Levels(d), Forks(d, i), IsDone(ChildAt(d, i)) PROVE CallId(d) # CallId(s)
    <3>1. Held(d)
      BY <2>4, <1>4, StartedBy, EntryFacts DEF EntriesB
    <3>2. Settled(d)
      BY <2>4 DEF Settled, ChildDone
    <3> QED
      BY <3>1, <3>2, SwapOthers
  <2>5. (\A i \in Levels(d) : Forks(d, i) /\ IsDone(ChildAt(d, i)) => ChildAt(d, i)[2] = (CallId(d) \in made))'
    <3> SUFFICES ASSUME NEW i \in Levels(d), Forks(d, i), IsDone(ChildAt(d, i))
                 PROVE  ChildAt(d, i)[2] = (CallId(d) \in made')
      BY <1>3, <1>4 DEF SameView, IsDone
    <3>1. ChildAt(d, i)[2] = (CallId(d) \in made)
      BY <1>4 DEF EntriesB
    <3>2. CallId(d) \in made' <=> CallId(d) \in made
      BY <2>4
    <3> QED
      BY <3>1, <3>2
  <2>6. ASSUME ~prog.with, NEW k \in 1 .. Size(d), OwnUpTo(d, k) PROVE OuterAt(d, k)'
    <3>1. OuterAt(d, k)
      BY <2>6, <1>4 DEF EntriesB
    <3> QED
      BY <3>1, <2>6, <1>1, <1>4, ViewOuter
  <2>7. (~prog.with => \A k \in 1 .. Size(d) : OwnUpTo(d, k) => OuterAt(d, k))'
    BY <2>6, <1>1, <1>4 DEF SameView
  <2> QED
    BY <2>1, <2>2, <2>3, <2>5, <2>7 DEF EntriesB
<1>11. ASSUME NEW d \in Descriptors PROVE InstalledB(d)'
  <2> SUFFICES ASSUME Installed(d) PROVE InstalledB(d)'
    BY <1>3 DEF InstalledB
  <2>1. \A k \in 1 .. Size(d) : OwnUpTo(d, k) /\ Reentry(d, k) => Reentry(d, k)'
    BY <1>1, <1>3, <1>4, DescType, ReentryKept DEF InvA
  <2>2. (~prog.with => \A k \in 1 .. Size(d) : OwnUpTo(d, k) => Reentry(d, k))'
    BY <2>1, <1>1, <1>4 DEF InstalledB, SameView
  <2>3. Current(d)'
    BY <1>4 DEF InstalledB, SameView, Current, Goal
  <2>4. \A y : Over(y)' <=> Over(y)
    BY <1>1 DEF Over, Installed, Moved
  <2>5. Advanced(d) => Advanced(d)'
    BY <1>1, <1>3, <1>8, <2>4, AdvancedKept
  <2>6. CASE Passed(CallId(d))
    BY <2>2, <2>3, <2>5, <2>6, <1>4 DEF InstalledB
  <2>7. CASE CallId(d) = CallId(s)
    <3>1. CASE d = s
      <4>1. Stored(s)'
        <5>1. Base(s)' /\ Value(s)' = Word(f.cur) /\ Target(s)' = f.lock
          BY <1>2, <1>4 DEF SameView
        <5> QED
          BY <5>1, <1>2, <1>6, EntryFacts DEF Stored, Unset
      <4> QED
        BY <4>1, <3>1, <2>2, <2>3 DEF InstalledB, Advanced
    <3>2. CASE d # s
      <4>1. PICK y \in Descriptors : HasChild(d, y) /\ Installed(y)
        BY <2>7, <3>2, SwapOthers DEF Held
      <4>2. HasChild(d, y)' /\ Installed(y)'
        BY <4>1, <1>3, <1>4 DEF SameView
      <4> QED
        BY <4>2, <2>2, <2>3 DEF InstalledB, Advanced
    <3> QED
      BY <3>1, <3>2
  <2>8. CASE ~Passed(CallId(d)) /\ CallId(d) # CallId(s)
    <3>1. ~Passed(CallId(d))'
      BY <2>8, <1>1, <1>3 DEF Passed
    <3> QED
      BY <3>1, <2>2, <2>3 DEF InstalledB
  <2> QED
    BY <2>6, <2>7, <2>8
<1>12. CallsPast'
  <2>1. CallId(s)[1] = desc[s].thread /\ CallId(s)[2] = callOf[s]
    BY DEF CallId
  <2>2. callOf[s] = Len(calls[desc[s].thread]) /\ callOf[s] \in Nat
    BY <1>2, <1>4, DescType DEF InstalledB, Current, InvA
  <2>3. \A c \in made' : c[2] <= Len(calls[c[1]])
    BY <2>1, <2>2 DEF HeapB, CallsPast
  <2> QED
    BY <2>3, <1>1 DEF HeapB, CallsPast
<1> QED
  BY <1>10, <1>11, <1>12 DEF HeapB

\* To begin a call keeps HeapB.
LEMMA CallHeapB ==
  ASSUME InvA, HeapB, NEW t \in Threads, NEW path, Call(t, path)
  PROVE  HeapB'
<1>1. HeapSame /\ x' = x /\ made' = made /\ stack[t] = <<>> /\ calls' = [calls EXCEPT ![t] = <<path>> \o @]
      /\ path \in prog.paths[t]
  BY DEF Call, HeapSame, heapVars, poolVars
<1>2. Rely({}) /\ SameLogs /\ desc' = desc /\ callOf' = callOf /\ status' = status /\ lck' = lck
  BY <1>1, SameRely DEF HeapSame, SameLogs
<1>3. \A e \in Descriptors : SameView(e) /\ EntriesB(e) /\ InstalledB(e)
  BY <1>2, SameLogsView DEF HeapB
<1>4. \A e \in Descriptors : EntriesB(e)'
  BY <1>1, <1>2, <1>3, ViewEntries
<1>5. \A e : (Installed(e)' <=> Installed(e)) /\ (Size(e)' = Size(e)) /\ (CallId(e)' = CallId(e))
  BY <1>2 DEF Installed, Size, CallId
<1>6. \A u \in Threads \ {t} : calls'[u] = calls[u]
  BY <1>1 DEF InvA, TypeOK
<1>7. Len(calls'[t]) >= Len(calls[t]) /\ \A u \in Threads : Len(calls[u]) \in Nat
  <2>1. calls[t] \in Seq(prog.paths[t]) /\ calls \in [Threads -> Seq(Seq(Locks))]
    BY DEF InvA, TypeOK
  <2>2. Len(<<path>> \o calls[t]) = 1 + Len(calls[t]) /\ Len(calls[t]) \in Nat
    BY <1>1, <2>1, Prepended
  <2>3. calls'[t] = <<path>> \o calls[t]
    BY <1>1, <2>1
  <2>4. \A u \in Threads : Len(calls[u]) \in Nat
    BY <2>1
  <2> QED
    BY <2>2, <2>3, <2>4
<1>8. ASSUME NEW e \in Descriptors PROVE InstalledB(e)'
  <2> SUFFICES ASSUME Installed(e) PROVE InstalledB(e)'
    BY <1>5 DEF InstalledB
  <2>1. desc[e].thread # t /\ desc[e].thread \in Threads
    BY <1>1, RootHere DEF InvA, OwnersOK, RootOK, RootIs
  <2>2. Current(e)'
    BY <2>1, <1>3, <1>6 DEF InstalledB, SameView, Current, Goal
  <2>3. \A k \in 1 .. Size(e) : OwnUpTo(e, k) /\ Reentry(e, k) => Reentry(e, k)'
    BY <1>2, <1>3, <1>5, DescType, ReentryKept DEF InvA
  <2>4. (~prog.with => \A k \in 1 .. Size(e) : OwnUpTo(e, k) => Reentry(e, k))'
    BY <2>3, <1>1, <1>3 DEF InstalledB, SameView, HeapSame
  <2>5. \A y : Over(y)' <=> Over(y)
    BY <1>1 DEF HeapSame, Over, Installed, Moved
  <2>6. Advanced(e) => Advanced(e)'
    BY <1>1, <1>2, <1>5, <2>5, AdvancedKept DEF Stored
  <2>7. Passed(CallId(e))' => Passed(CallId(e))
    BY <1>1, <1>2, <1>5 DEF Passed
  <2> QED
    BY <2>2, <2>4, <2>6, <2>7, <1>3 DEF InstalledB
<1>9. CallsPast'
  <2>1. \A u \in Threads : Len(calls[u]) <= Len(calls'[u]) /\ Len(calls[u]) \in Nat /\ Len(calls'[u]) \in Nat
    <3>1. Len(calls'[t]) \in Nat
      BY <1>7, <1>1, Prepended DEF InvA, TypeOK
    <3> QED
      BY <3>1, <1>6, <1>7
  <2>2. ASSUME NEW c \in made' PROVE c[2] <= Len(calls'[c[1]])
    <3>1. c \in made /\ c[1] \in Threads /\ c[2] \in Nat
      BY <1>1 DEF InvA, TypeOK
    <3>2. c[2] <= Len(calls[c[1]])
      BY <3>1 DEF HeapB, CallsPast
    <3> QED
      BY <3>1, <3>2, <2>1
  <2>3. ASSUME NEW e \in Descriptors
        PROVE  callOf[e] = 0 \/ (status[e] # "fresh" /\ callOf[e] <= Len(calls'[desc[e].thread]))
    <3> SUFFICES ASSUME callOf[e] # 0 PROVE status[e] # "fresh" /\ callOf[e] <= Len(calls'[desc[e].thread])
      OBVIOUS
    <3>1. status[e] # "fresh" /\ callOf[e] <= Len(calls[desc[e].thread]) /\ callOf[e] \in Nat
      BY DescType DEF HeapB, CallsPast, InvA
    <3>2. desc[e].thread \in Threads
      BY <3>1 DEF InvA, HeapOK, UsedFull
    <3> QED
      BY <3>1, <3>2, <2>1
  <2> QED
    BY <2>2, <2>3, <1>2 DEF CallsPast
<1> QED
  BY <1>4, <1>8, <1>9 DEF HeapB

\* The call that a descriptor was made for is constant.
LEMMA IdKept ==
  ASSUME NEW A, Rely(A), NEW d \in Descriptors \ A
  PROVE  CallId(d)' = CallId(d) /\ (Held(d) => Held(d)')
BY DEF Rely, DescKept, CallId

\* A frame that shares its descriptor has one, which is not made anew.
LEMMA SharingHas ==
  ASSUME InvA, NEW u \in Threads, NEW k \in Depth(u), NEW f, f = stack[u][k]
  PROVE  /\ f.pc \in Says => Sharing(f)
         /\ Sharing(f) => HasDesc(f) /\ f.d \in Descriptors
         /\ f \in Frames /\ FrameDesc(u, f, Sec(u, k))
         /\ \A A : Rely(A) /\ Sharing(f) => f.d \in Descriptors \ A
<1>1. f \in Frames /\ FrameDesc(u, f, Sec(u, k))
  BY FrameFacts DEF FrameOK
<1>2. Sharing(f) => HasDesc(f) /\ f.d \in Descriptors
  BY <1>1 DEF Sharing, HasDesc, FrameDesc, Early
<1>3. f.pc \in Says => Sharing(f)
  BY DEF Says, Sharing, Early, Storing
<1>4. \A A : Rely(A) /\ Sharing(f) => f.d \in Descriptors \ A
  BY <1>2, NotAllocated
<1> QED
  BY <1>1, <1>2, <1>3, <1>4

\* A frame that stays keeps FrameB while nothing is stored.
LEMMA FrameBKept ==
  ASSUME InvA, NEW A, Rely(A), x' = x, made' = made, NEW u \in Threads, NEW k \in Depth(u),
         NEW f, f = stack[u][k], FrameB(f), NEW g, g = f \/ (g.pc = f.pc /\ g.d = f.d /\ f.pc \in Calling)
  PROVE  FrameB(g)'
<1>1. /\ g.pc = f.pc /\ g.d = f.d /\ (f.pc \notin Calling => g = f)
      /\ Sharing(f) => f.d \in Descriptors \ A
      /\ f.pc \in Says => Sharing(f)
  BY SharingHas
<1>2. Sharing(f) => CallId(f.d)' = CallId(f.d) /\ (Held(f.d) => Held(f.d)')
  BY <1>1, IdKept
<1>3. (Sharing(g) /\ CallId(g.d) \in made => Held(g.d))'
  BY <1>1, <1>2 DEF FrameB, Sharing, Early, Storing
<1>4. (g.pc \in Says => g.res = (CallId(g.d) \in made))'
  BY <1>1, <1>2 DEF FrameB, Says, Calling
<1>5. (g.pc \notin Says \cup Calling \cup {"help_clear"} => g.res = FALSE)'
  BY <1>1 DEF FrameB, Says, Calling
<1>6. (g.pc = "mark" => g.cur < x[g.lock])'
  BY <1>1 DEF FrameB, Calling
<1> QED
  BY <1>3, <1>4, <1>5, <1>6 DEF FrameB

\* FramesB when the innermost frame continues.
LEMMA ContFramesB ==
  ASSUME InvA, FramesB, NEW A, Rely(A), x' = x, made' = made, NEW t \in Threads, stack[t] # <<>>,
         NEW g, Conts(t, g), FrameB(g)'
  PROVE  FramesB'
<1> SUFFICES ASSUME NEW u \in Threads, NEW k \in Depth(u)' PROVE \A e : e = stack'[u][k] => FrameB(e)'
  BY DEF FramesB
<1>1. CASE u # t \/ k # Height(t)
  <2>1. k \in Depth(u) /\ stack'[u][k] = stack[u][k]
    BY <1>1, HeightType DEF Conts, Kept, Depth, Height, InvA
  <2>2. FrameB(stack[u][k])
    BY <2>1 DEF FramesB
  <2> QED
    BY <2>1, <2>2, FrameBKept
<1>2. CASE u = t /\ k = Height(t)
  BY <1>2 DEF Conts
<1> QED
  BY <1>1, <1>2

\* FramesB when a frame is pushed.
LEMMA PushFramesB ==
  ASSUME InvA, FramesB, NEW A, Rely(A), x' = x, made' = made, NEW t \in Threads, stack[t] # <<>>,
         NEW c, NEW g, Pushes(t, c, g), FrameB(c)', FrameB(g)'
  PROVE  FramesB'
<1> SUFFICES ASSUME NEW u \in Threads, NEW k \in Depth(u)' PROVE \A e : e = stack'[u][k] => FrameB(e)'
  BY DEF FramesB
<1>0. Height(t) \in Nat
  BY HeightType DEF InvA
<1>1. CASE u # t \/ (k # Height(t) /\ k # Height(t) + 1)
  <2>1. k \in Depth(u) /\ stack'[u][k] = stack[u][k]
    <3>1. CASE u # t
      BY <3>1 DEF Pushes, Kept, Depth, Height
    <3>2. CASE u = t
      <4>1. k \in 1 .. Height(t) + 1
        BY <3>2 DEF Pushes, Depth
      <4>2. k \in 1 .. Height(t) - 1
        BY <4>1, <3>2, <1>1, <1>0
      <4> QED
        BY <4>2, <3>2, <1>0 DEF Pushes, Kept, Depth
    <3> QED
      BY <3>1, <3>2
  <2>2. FrameB(stack[u][k])
    BY <2>1 DEF FramesB
  <2> QED
    BY <2>1, <2>2, FrameBKept
<1>2. CASE u = t /\ k = Height(t)
  BY <1>2 DEF Pushes
<1>3. CASE u = t /\ k = Height(t) + 1
  BY <1>3 DEF Pushes
<1> QED
  BY <1>1, <1>2, <1>3

\* FramesB when a frame returns.
LEMMA PopFramesB ==
  ASSUME InvA, FramesB, NEW A, Rely(A), x' = x, made' = made, NEW t \in Threads, stack[t] # <<>>,
         NEW r, Pops(t, r)
  PROVE  FramesB'
<1> SUFFICES ASSUME NEW u \in Threads, NEW k \in Depth(u)' PROVE \A e : e = stack'[u][k] => FrameB(e)'
  BY DEF FramesB
<1>0. Height(t) \in Nat /\ Height(t) >= 1
  BY HeightType DEF InvA
<1>1. k \in Depth(u) /\ (u = t => k \in 1 .. Height(t) - 1)
  <2>1. CASE u # t
    BY <2>1 DEF Pops, Kept, Depth, Height
  <2>2. CASE u = t
    BY <2>2, <1>0 DEF Pops, Depth
  <2> QED
    BY <2>1, <2>2
<1>2. FrameB(stack[u][k]) /\ stack[u][k] \in Frames
  BY <1>1, FrameFacts DEF FramesB
<1>3. CASE u # t \/ k # Height(t) - 1
  <2>1. stack'[u][k] = stack[u][k]
    <3>1. CASE u # t
      BY <3>1 DEF Pops, Kept
    <3>2. CASE u = t
      <4>1. k \in 1 .. Height(t) - 2
        BY <3>2, <1>0, <1>1, <1>3
      <4> QED
        BY <4>1, <3>2 DEF Pops, Kept
    <3> QED
      BY <3>1, <3>2
  <2> QED
    BY <1>1, <1>2, <2>1, FrameBKept
<1>4. CASE u = t /\ k = Height(t) - 1
  <2>1. Height(t) > 1 /\ k < Height(t)
    BY <1>0, <1>1, <1>4
  <2>2. PICK f : f = stack[t][k]
    OBVIOUS
  <2>3. f.pc \in Calling /\ f \in Frames
    BY <1>1, <1>2, <1>4, <2>1, <2>2, FrameFacts
  <2>4. PICK e : e = [f EXCEPT !.res = r]
    OBVIOUS
  <2>5. e.pc = f.pc /\ e.d = f.d
    BY <2>3, <2>4 DEF Frames
  <2>6. stack'[t][k] = e
    BY <1>4, <2>1, <2>2, <2>4 DEF Pops
  <2>7. FrameB(e)'
    BY <1>1, <1>2, <1>4, <2>2, <2>3, <2>5, FrameBKept
  <2> QED
    BY <1>4, <2>6, <2>7
<1> QED
  BY <1>3, <1>4

\* A frame that waits for a section waits for one that has been in a lock.
LEMMA CallingIn ==
  ASSUME InvA, NEW u \in Threads, stack[u] # <<>>, Top(u).pc \in Calling
  PROVE  lg[u].d \in Descriptors /\ Held(lg[u].d) /\ InUse(lg[u].d)
<1>1. PICK h, f : h = Height(u) /\ f = stack[u][h]
  OBVIOUS
<1>2. h \in Depth(u) /\ f = Top(u) /\ FrameOK(u, h, f, Sec(u, h), Pos(u, h)) /\ Inner(f) = lg[u].d /\ Sec(u, h) = f.lg.d
  BY <1>1, TopIn
<1>3. lg[u].d # None
  <2>1. CASE f.pc = "ran"
    BY <2>1, <1>2, Consts DEF Inner, FrameOK, FrameDesc, HasDesc, Early, Storing
  <2>2. CASE f.pc = "helped"
    BY <2>2, <1>2, Consts DEF Inner, FrameOK, FrameCur, HelpIn
  <2>3. CASE f.pc = "reentered"
    <3>1. Sec(u, h) = lg[u].d
      BY <2>3, <1>2 DEF Inner
    <3>2. Sec(u, h) # None
      BY <2>3, <1>2 DEF FrameOK, FrameShape, OutsideShape, Storing
    <3> QED
      BY <3>1, <3>2
  <2> QED
    BY <2>1, <2>2, <2>3, <1>2 DEF Calling
<1> QED
  BY <1>3, RunsHeld

\* Results handed over in the other threads stay right.
LEMMA OtherReturnedB ==
  ASSUME InvA, ReturnedB, NEW A, Rely(A), made' = made, NEW u \in Threads, stack'[u] = stack[u], lg'[u] = lg[u]
  PROVE  (stack[u] # <<>> /\ Top(u).pc \in Calling => Top(u).res = (CallId(lg[u].d) \in made))'
<1>1. Top(u)' = Top(u)
  BY DEF Top
<1> SUFFICES ASSUME stack[u] # <<>>, Top(u).pc \in Calling
             PROVE  \A z : z = lg'[u].d => Top(u).res = (CallId(z)' \in made)
  BY <1>1 DEF Calling, CallId
<1>2. PICK z : z = lg[u].d
  OBVIOUS
<1>3. z \in Descriptors \ A
  BY <1>2, CallingIn, InUseKept
<1>4. CallId(z)' = CallId(z)
  BY <1>3, IdKept
<1> QED
  BY <1>2, <1>4 DEF ReturnedB

\* What First says of a thread is kept while the descriptors of its call
\* are.
LEMMA FirstKept ==
  ASSUME InvA, NEW A, Rely(A), made' = made, NEW u \in Threads, calls'[u] = calls[u], stack[u] # <<>>,
         NEW f, f = stack[u][1], First(u, f), NEW g, Sharing(f) => Sharing(g) /\ g.d = f.d,
         \A a \in Descriptors : a \in A /\ CallId(a)' = ThisCall(u) =>
           \E s \in Descriptors : Held(s) /\ CallId(s) = ThisCall(u)
  PROVE  First(u, g)'
<1>1. 1 \in Depth(u)
  BY HeightType DEF InvA, Depth
<1>2. Sharing(f) => f.d \in Descriptors \ A
  BY <1>1, SharingHas
<1>3. Sharing(f) => (Held(f.d) => Held(f.d)')
  BY <1>2, IdKept
<1>4. ThisCall(u)' = ThisCall(u) /\ (Sharing(g)' <=> Sharing(g))
  BY DEF ThisCall, Sharing, Early, Storing
<1>5. ASSUME NEW e \in Descriptors, CallId(e)' = ThisCall(u)
      PROVE  Sharing(f) /\ (e = f.d \/ Held(f.d))
  <2>1. CASE e \in A
    <3>1. PICK s \in Descriptors : Held(s) /\ CallId(s) = ThisCall(u)
      BY <1>5, <2>1
    <3> QED
      BY <3>1 DEF First
  <2>2. CASE e \notin A
    <3>1. CallId(e) = ThisCall(u)
      BY <1>5, <2>2, IdKept
    <3> QED
      BY <3>1 DEF First
  <2> QED
    BY <2>1, <2>2
<1>6. \A e \in Descriptors : CallId(e)' = ThisCall(u) => Sharing(g) /\ (e = g.d \/ Held(g.d)')
  BY <1>3, <1>5
<1> QED
  BY <1>4, <1>6 DEF First

\* Calls stay pending while nobody stores, calls or returns.
LEMMA PendingSame ==
  ASSUME calls' = calls, made' = made, \A u \in Threads : stack'[u] = <<>> <=> stack[u] = <<>>
  PROVE  \A l : Pending(l)' = Pending(l)
BY DEF Pending, Goal, ThisCall

\* Then the numbers stay.
LEMMA CountedSame ==
  ASSUME Counted, x' = x, stores' = stores, calls' = calls, made' = made,
         \A u \in Threads : stack'[u] = <<>> <=> stack[u] = <<>>
  PROVE  Counted'
BY PendingSame DEF Counted

\* FrameB of a new frame holds in the next state too.
LEMMA NewFrameB ==
  ASSUME InvA, Rely({}), x' = x, made' = made, NEW g, Sharing(g) => g.d \in Descriptors, FrameB(g)
  PROVE  FrameB(g)'
<1>1. Sharing(g) => CallId(g.d)' = CallId(g.d) /\ (Held(g.d) => Held(g.d)')
  BY IdKept
<1>2. g.pc \in Says => Sharing(g)
  BY DEF Says, Sharing, Early, Storing
<1>3. (Sharing(g) /\ CallId(g.d) \in made => Held(g.d))'
  BY <1>1 DEF FrameB, Sharing, Early, Storing
<1>4. (g.pc \in Says => g.res = (CallId(g.d) \in made))'
  BY <1>1, <1>2 DEF FrameB, Says, Calling
<1>5. (g.pc \notin Says \cup Calling \cup {"help_clear"} => g.res = FALSE)'
  BY DEF FrameB, Says, Calling
<1>6. (g.pc = "mark" => g.cur < x[g.lock])'
  BY DEF FrameB
<1> QED
  BY <1>3, <1>4, <1>5, <1>6 DEF FrameB

\* RootFirst while no descriptor is made and the outermost frame goes on.
LEMMA RootFirstKept ==
  ASSUME InvA, RootFirst, Rely({}), made' = made, calls' = calls, NEW t \in Threads, stack[t] # <<>>,
         \A u \in Threads \ {t} : stack'[u] = stack[u],
         stack'[t] # <<>> /\ Sharing(stack[t][1]) => Sharing(stack'[t][1]) /\ stack'[t][1].d = stack[t][1].d
  PROVE  RootFirst'
<1> SUFFICES ASSUME NEW u \in Threads, stack'[u] # <<>>, NEW g, g = stack'[u][1] PROVE First(u, g)'
  BY DEF RootFirst
<1>1. stack[u] # <<>>
  OBVIOUS
<1>2. PICK f : f = stack[u][1]
  OBVIOUS
<1>3. First(u, f)
  BY <1>1, <1>2 DEF RootFirst
<1>4. Sharing(f) => Sharing(g) /\ g.d = f.d
  BY <1>2
<1> QED
  BY <1>1, <1>2, <1>3, <1>4, FirstKept

\* InvB when the innermost frame continues.
LEMMA ContB ==
  ASSUME InvA, InvB, Rely({}), HeapB', x' = x, made' = made, calls' = calls, stores' = stores,
         NEW t \in Threads, stack[t] # <<>>, NEW f, f = Top(t), NEW g, Conts(t, g),
         \A u \in Threads \ {t} : lg'[u] = lg[u], g.pc \notin Calling,
         FrameB(g), Sharing(g) => g.d \in Descriptors, Sharing(f) => Sharing(g) /\ g.d = f.d
  PROVE  InvB'
<1>1. FramesB /\ ReturnedB /\ RootFirst /\ Counted
  BY DEF InvB, StackB
<1>2. FrameB(g)'
  BY NewFrameB
<1>3. FramesB'
  BY <1>1, <1>2, ContFramesB
<1>4. Height(t) \in Nat /\ Height(t) >= 1 /\ f = stack[t][Height(t)]
  BY HeightType DEF InvA
<1>5. /\ \A u \in Threads \ {t} : stack'[u] = stack[u]
      /\ stack'[t] # <<>> /\ Len(stack'[t]) = Height(t) /\ stack'[t][Height(t)] = g
  BY <1>4, EmptyIs DEF Conts, Kept, Height
<1>6. Sharing(stack[t][1]) => Sharing(stack'[t][1]) /\ stack'[t][1].d = stack[t][1].d
  <2>1. CASE Height(t) = 1
    BY <2>1, <1>4, <1>5
  <2>2. CASE Height(t) # 1
    <3>1. 1 \in 1 .. Height(t) - 1
      BY <2>2, <1>4
    <3>2. stack'[t][1] = stack[t][1]
      BY <3>1 DEF Conts, Kept
    <3> QED
      BY <3>2
  <2> QED
    BY <2>1, <2>2
<1>7. RootFirst'
  BY <1>1, <1>5, <1>6, RootFirstKept
<1>8. ReturnedB'
  <2> SUFFICES ASSUME NEW u \in Threads
               PROVE  (stack[u] # <<>> /\ Top(u).pc \in Calling => Top(u).res = (CallId(lg[u].d) \in made))'
    BY DEF ReturnedB
  <2>1. CASE u = t
    BY <2>1, <1>5 DEF Top, Calling
  <2>2. CASE u # t
    BY <2>2, <1>1, <1>5, OtherReturnedB
  <2> QED
    BY <2>1, <2>2
<1>9. Counted'
  BY <1>1, <1>5, CountedSame
<1> QED
  BY <1>3, <1>7, <1>8, <1>9 DEF InvB, StackB

\* InvB when a frame is pushed.
LEMMA PushB ==
  ASSUME InvA, InvB, Rely({}), HeapB', x' = x, made' = made, calls' = calls, stores' = stores,
         NEW t \in Threads, stack[t] # <<>>, NEW f, f = Top(t), NEW c, NEW g, Pushes(t, c, g),
         \A u \in Threads \ {t} : lg'[u] = lg[u], g.pc \notin Calling,
         FrameB(c), Sharing(c) => c.d \in Descriptors, Sharing(f) => Sharing(c) /\ c.d = f.d,
         FrameB(g), ~Sharing(g)
  PROVE  InvB'
<1>1. FramesB /\ ReturnedB /\ RootFirst /\ Counted
  BY DEF InvB, StackB
<1>2. FrameB(g)' /\ FrameB(c)'
  BY NewFrameB
<1>3. FramesB'
  BY <1>1, <1>2, PushFramesB
<1>4. Height(t) \in Nat /\ Height(t) >= 1 /\ f = stack[t][Height(t)]
  BY HeightType DEF InvA
<1>5. /\ \A u \in Threads \ {t} : stack'[u] = stack[u]
      /\ stack'[t] # <<>> /\ Len(stack'[t]) = Height(t) + 1 /\ stack'[t][Height(t) + 1] = g
      /\ stack'[t][Height(t)] = c
  BY <1>4, EmptyIs DEF Pushes, Kept, Height
<1>6. Sharing(stack[t][1]) => Sharing(stack'[t][1]) /\ stack'[t][1].d = stack[t][1].d
  <2>1. CASE Height(t) = 1
    BY <2>1, <1>4, <1>5
  <2>2. CASE Height(t) # 1
    <3>1. 1 \in 1 .. Height(t) - 1
      BY <2>2, <1>4
    <3>2. stack'[t][1] = stack[t][1]
      BY <3>1 DEF Pushes, Kept
    <3> QED
      BY <3>2
  <2> QED
    BY <2>1, <2>2
<1>7. RootFirst'
  BY <1>1, <1>5, <1>6, RootFirstKept
<1>8. ReturnedB'
  <2> SUFFICES ASSUME NEW u \in Threads
               PROVE  (stack[u] # <<>> /\ Top(u).pc \in Calling => Top(u).res = (CallId(lg[u].d) \in made))'
    BY DEF ReturnedB
  <2>1. CASE u = t
    BY <2>1, <1>5 DEF Top, Calling
  <2>2. CASE u # t
    BY <2>2, <1>1, <1>5, OtherReturnedB
  <2> QED
    BY <2>1, <2>2
<1>9. Counted'
  BY <1>1, <1>5, CountedSame
<1> QED
  BY <1>3, <1>7, <1>8, <1>9 DEF InvB, StackB

\* InvB when a frame inside of a section returns its result.
LEMMA PopB ==
  ASSUME InvA, InvB, Rely({}), HeapB', x' = x, made' = made, calls' = calls,
         NEW t \in Threads, NEW w, NEW h, NEW f, NEW s, NEW n, Here(t, w, h, f, s, n), s # None,
         NEW r, Pops(t, r), Return(t, r), \A u \in Threads \ {t} : lg'[u] = lg[u], lg'[t].d = s,
         r = (CallId(s) \in made)
  PROVE  InvB'
<1>0. stack[t] # <<>> /\ h = Height(t) /\ s = Sec(t, h) /\ s \in Descriptors \cup {None}
  BY DEF Here
<1>1. FramesB /\ ReturnedB /\ RootFirst /\ Counted
  BY DEF InvB, StackB
<1>3. FramesB'
  BY <1>0, <1>1, PopFramesB
<1>4. Height(t) \in Nat /\ Height(t) > 1
  <2>1. Height(t) \in Nat /\ Height(t) >= 1
    BY <1>0, HeightType DEF InvA
  <2>2. Sec(t, 1) = None
    BY <1>0 DEF InvA, StackOK, SectionsNest
  <2> QED
    BY <2>1, <2>2, <1>0
<1>5. PICK c : c = [stack[t][Height(t) - 1] EXCEPT !.res = r]
  OBVIOUS
<1>6. /\ \A u \in Threads \ {t} : stack'[u] = stack[u]
      /\ stack'[t] # <<>> /\ Len(stack'[t]) = Height(t) - 1 /\ stack'[t][Height(t) - 1] = c
  BY <1>4, <1>5, EmptyIs DEF Pops, Kept, Height
<1>7. Height(t) - 1 \in Depth(t) /\ Height(t) - 1 < Height(t)
  BY <1>4 DEF Depth
<1>8. stack[t][Height(t) - 1] \in Frames
  BY <1>7, FrameFacts
<1>9. c.res = r /\ c.pc = stack[t][Height(t) - 1].pc /\ c.d = stack[t][Height(t) - 1].d
  BY <1>5, <1>8 DEF Frames
<1>10. Sharing(stack[t][1]) => Sharing(stack'[t][1]) /\ stack'[t][1].d = stack[t][1].d
  <2>1. CASE Height(t) = 2
    BY <2>1, <1>6, <1>9 DEF Sharing
  <2>2. CASE Height(t) # 2
    <3>1. 1 \in 1 .. Height(t) - 2
      BY <2>2, <1>4
    <3>2. stack'[t][1] = stack[t][1]
      BY <3>1 DEF Pops, Kept
    <3> QED
      BY <3>2
  <2> QED
    BY <2>1, <2>2
<1>11. RootFirst'
  BY <1>0, <1>1, <1>6, <1>10, RootFirstKept
<1>12. ReturnedB'
  <2> SUFFICES ASSUME NEW u \in Threads
               PROVE  (stack[u] # <<>> /\ Top(u).pc \in Calling => Top(u).res = (CallId(lg[u].d) \in made))'
    BY DEF ReturnedB
  <2>1. CASE u = t
    <3>1. s \in Descriptors
      BY <1>0
    <3>2. CallId(s)' = CallId(s)
      BY <3>1, IdKept
    <3>3. CallId(lg[t].d)' = CallId(s)'
      BY DEF CallId
    <3> QED
      BY <2>1, <3>2, <3>3, <1>6, <1>9 DEF Top
  <2>2. CASE u # t
    BY <2>2, <1>1, <1>6, OtherReturnedB
  <2> QED
    BY <2>1, <2>2
<1>13. stores' = stores
  <2>1. Callers(t) # <<>>
    <3>1. Len(Callers(t)) = Height(t) - 1 /\ Callers(t) \in Seq(Frames)
      BY <1>0, CallersFacts DEF Height, InvA
    <3> QED
      BY <3>1, <1>4, EmptyIs
  <2> QED
    BY <2>1 DEF Return
<1>14. Counted'
  BY <1>0, <1>1, <1>6, <1>13, CountedSame
<1> QED
  BY <1>3, <1>11, <1>12, <1>14 DEF InvB, StackB

\* Steps that change nothing shared keep HeapB.
LEMMA QuietHeapB ==
  ASSUME InvA, HeapB, HeapSame, x' = x, made' = made, calls' = calls
  PROVE  HeapB' /\ Rely({})
<1>1. Rely({})
  BY SameRely
<1>2. SameLogs /\ lck' = lck
  BY DEF SameLogs, HeapSame
<1>3. \A d \in Descriptors : desc'[d].done => desc[d].done \/ Installed(d)
  BY DEF HeapSame
<1> QED
  BY <1>1, <1>2, <1>3, CalmB

\* FrameB of the innermost frame.
LEMMA HereFrameB ==
  ASSUME InvA, InvB, NEW t \in Threads, NEW w, NEW h, NEW f, NEW s, NEW n, Here(t, w, h, f, s, n)
  PROVE  FrameB(f) /\ (Sharing(f) => f.d \in Descriptors)
<1>1. h \in Depth(t) /\ f = stack[t][h]
  BY DEF Here
<1> QED
  BY <1>1, SharingHas DEF InvB, StackB, FramesB

\* InvB when the innermost frame goes to g.
LEMMA GoB ==
  ASSUME InvA, InvB, Rely({}), HeapB', x' = x, made' = made, calls' = calls, stores' = stores,
         NEW t \in Threads, NEW w, NEW h, NEW f, NEW s, NEW n, Here(t, w, h, f, s, n),
         NEW g \in Frames, Continue(t, g), \A u \in Threads \ {t} : lg'[u] = lg[u], g.pc \notin Calling,
         FrameB(g), Sharing(g) => g.d \in Descriptors, Sharing(f) => Sharing(g) /\ g.d = f.d
  PROVE  InvB'
<1>1. stack[t] # <<>> /\ f = Top(t) /\ TypeOK
  BY DEF Here, InvA
<1>2. Conts(t, g)
  BY <1>1, ContIs
<1> QED
  BY <1>1, <1>2, ContB

\* FrameB of a frame that moves before its result is known.
LEMMA KeepsB ==
  ASSUME InvA, InvB, NEW t \in Threads, NEW w, NEW h, NEW f, NEW s, NEW n, Here(t, w, h, f, s, n),
         NEW g, g.d = f.d, g.res = f.res, f.pc \notin Says \cup Calling \cup {"help_clear"},
         g.pc \notin Says \cup {"mark"}, Sharing(g) => Sharing(f)
  PROVE  FrameB(g) /\ g.res = FALSE /\ (Sharing(g) => g.d \in Descriptors)
<1>1. FrameB(f) /\ (Sharing(f) => f.d \in Descriptors)
  BY HereFrameB
<1> QED
  BY <1>1 DEF FrameB

\* InvB when the innermost frame moves before its result is known.
LEMMA MovesB ==
  ASSUME InvA, InvB, Rely({}), HeapB', x' = x, made' = made, calls' = calls, stores' = stores,
         NEW t \in Threads, NEW w, NEW h, NEW f, NEW s, NEW n, Here(t, w, h, f, s, n),
         NEW g \in Frames, Continue(t, g), \A u \in Threads \ {t} : lg'[u] = lg[u],
         g.d = f.d, g.res = f.res, f.pc \notin Says \cup Calling \cup {"help_clear"},
         g.pc \notin Says \cup {"mark"} \cup Calling, Sharing(g) <=> Sharing(f)
  PROVE  InvB'
<1>1. FrameB(g) /\ (Sharing(g) => g.d \in Descriptors)
  BY KeepsB
<1> QED
  BY <1>1, GoB

\* What a step keeps that changes only stacks.
LEMMA PlainSame ==
  ASSUME InvA, InvB, UNCHANGED <<heapVars, poolVars, lg, histVars>>
  PROVE  /\ Rely({}) /\ HeapB' /\ x' = x /\ made' = made /\ calls' = calls /\ stores' = stores
         /\ \A t \in Threads, u \in Threads : lg'[u] = lg[u]
<1>1. HeapSame /\ x' = x /\ made' = made /\ calls' = calls /\ stores' = stores /\ lg' = lg
  BY DEF HeapSame, heapVars, poolVars, histVars
<1> QED
  BY <1>1, QuietHeapB DEF InvB

\* InvB when the innermost frame only moves.
LEMMA PlainMovesB ==
  ASSUME InvA, InvB, UNCHANGED <<heapVars, poolVars, lg, histVars>>,
         NEW t \in Threads, NEW w, NEW h, NEW f, NEW s, NEW n, Here(t, w, h, f, s, n),
         NEW g \in Frames, Continue(t, g),
         g.d = f.d, g.res = f.res, f.pc \notin Says \cup Calling \cup {"help_clear"},
         g.pc \notin Says \cup {"mark"} \cup Calling, Sharing(g) <=> Sharing(f)
  PROVE  InvB'
BY PlainSame, MovesB

\* with_lock starts over.
LEMMA WithAgainB ==
  ASSUME InvA, InvB, NEW t \in Threads, WithAgain(t)
  PROVE  InvB'
<1>1. PICK h, f, s, n : Here(t, "again", h, f, s, n)
  BY HereIs DEF WithAgain
<1>2. f = Top(t) /\ f.pc = "again" /\ f \in Frames
  BY <1>1 DEF Here
<1>3. PICK c : c = lck[f.lock]
  OBVIOUS
<1>4. PICK g : g = [f EXCEPT !.cur = c, !.pc = "count"]
  OBVIOUS
<1>5. c \in Nat \cup Descriptors
  BY <1>2, <1>3, FrameType, LockWordOK
<1>6. g \in Frames /\ g.pc = "count" /\ g.d = f.d /\ g.res = f.res
  BY <1>2, <1>4, <1>5, PcNames DEF Frames
<1>7. Continue(t, g) /\ UNCHANGED <<heapVars, poolVars, lg, histVars>>
  BY <1>2, <1>3, <1>4 DEF WithAgain, localVars
<1>8. /\ f.pc \notin Says \cup Calling \cup {"help_clear"}
      /\ g.pc \notin Says \cup {"mark"} \cup Calling
      /\ Sharing(g) <=> Sharing(f)
  BY <1>2, <1>6 DEF Says, Calling, Sharing, Early, Storing
<1> QED
  BY <1>1, <1>6, <1>7, <1>8, PlainMovesB

\* with_lock loads the lock word.
LEMMA WithReadB ==
  ASSUME InvA, InvB, NEW t \in Threads, WithRead(t)
  PROVE  InvB'
<1>1. PICK h, f, s, n : Here(t, "with", h, f, s, n)
  BY HereIs DEF WithRead
<1>2. f = Top(t) /\ f.pc = "with" /\ f \in Frames
  BY <1>1 DEF Here
<1>3. PICK c : c = lck[f.lock]
  OBVIOUS
<1>4. PICK g : g = [f EXCEPT !.cur = c, !.pc = "alloc"]
  OBVIOUS
<1>5. c \in Nat \cup Descriptors
  BY <1>2, <1>3, FrameType, LockWordOK
<1>6. g \in Frames /\ g.pc = "alloc" /\ g.d = f.d /\ g.res = f.res
  BY <1>2, <1>4, <1>5, PcNames DEF Frames
<1>7. Continue(t, g) /\ UNCHANGED <<heapVars, poolVars, lg, histVars>>
  BY <1>2, <1>3, <1>4 DEF WithRead, localVars
<1>8. /\ f.pc \notin Says \cup Calling \cup {"help_clear"}
      /\ g.pc \notin Says \cup {"mark"} \cup Calling
      /\ Sharing(g) <=> Sharing(f)
  BY <1>2, <1>6 DEF Says, Calling, Sharing, Early, Storing
<1> QED
  BY <1>1, <1>6, <1>7, <1>8, PlainMovesB

\* with_lock raises its counter.
LEMMA WithCountB ==
  ASSUME InvA, InvB, NEW t \in Threads, WithCount(t)
  PROVE  InvB'
<1>1. PICK h, f, s, n : Here(t, "count", h, f, s, n)
  BY HereIs DEF WithCount
<1>2. f = Top(t) /\ f.pc = "count" /\ f \in Frames
  BY <1>1 DEF Here
<1>3. f.d \in Descriptors
  BY <1>1, <1>2, HereFrameB DEF Sharing, Early, Storing
<1>4. PICK old : old = desc[f.d].counter
  OBVIOUS
<1>5. old \in Nat
  BY <1>3, <1>4, DescType DEF InvA
<1>6. PICK g : /\ \/ g = [f EXCEPT !.old = old, !.pc = "raise"]
                  \/ g = [f EXCEPT !.pc = "test"]
               /\ Continue(t, g)
  BY <1>2, <1>4 DEF WithCount
<1>7. g \in Frames /\ g.pc \in {"raise", "test"} /\ g.d = f.d /\ g.res = f.res
  BY <1>2, <1>5, <1>6, PcNames DEF Frames
<1>8. UNCHANGED <<heapVars, poolVars, lg, histVars>>
  BY DEF WithCount, localVars
<1>9. /\ f.pc \notin Says \cup Calling \cup {"help_clear"}
      /\ g.pc \notin Says \cup {"mark"} \cup Calling
      /\ Sharing(g) <=> Sharing(f)
  BY <1>2, <1>7 DEF Says, Calling, Sharing, Early, Storing
<1> QED
  BY <1>1, <1>6, <1>7, <1>8, <1>9, PlainMovesB

\* try_lock finds a lock that is not its own.
LEMMA TrySelfGoesB ==
  ASSUME InvA, InvB, NEW t \in Threads, TrySelf(t), ~OwnLock(t, Top(t).cur)
  PROVE  InvB'
<1>1. PICK h, f, s, n : Here(t, "self", h, f, s, n)
  BY HereIs DEF TrySelf
<1>2. f = Top(t) /\ f.pc = "self" /\ f \in Frames
  BY <1>1 DEF Here
<1>3. PICK g : g = [f EXCEPT !.pc = "alloc"]
  OBVIOUS
<1>4. g \in Frames /\ g.pc = "alloc" /\ g.d = f.d /\ g.res = f.res
  BY <1>2, <1>3, PcNames DEF Frames
<1>5. Continue(t, g) /\ UNCHANGED <<heapVars, poolVars, lg, histVars>>
  BY <1>2, <1>3 DEF TrySelf, Goto, localVars
<1>6. /\ f.pc \notin Says \cup Calling \cup {"help_clear"}
      /\ g.pc \notin Says \cup {"mark"} \cup Calling
      /\ Sharing(g) <=> Sharing(f)
  BY <1>2, <1>4 DEF Says, Calling, Sharing, Early, Storing
<1> QED
  BY <1>1, <1>4, <1>5, <1>6, PlainMovesB

\* try_lock finds the logged descriptor without a result.
LEMMA TryRecheckGoesB ==
  ASSUME InvA, InvB, NEW t \in Threads, TryRecheck(t), ~IsDone(log[lg[t].d][lg[t].n])
  PROVE  InvB'
<1>1. PICK h, f, s, n : Here(t, "recheck", h, f, s, n)
  BY HereIs DEF TryRecheck
<1>2. f = Top(t) /\ f.pc = "recheck" /\ f \in Frames
  BY <1>1 DEF Here
<1>3. PICK p : p = Acquiring(f)
  OBVIOUS
<1>4. PICK g : g = [f EXCEPT !.pc = p]
  OBVIOUS
<1>5. p \in {"count", "help", "cas"} /\ p \in Pcs
  BY <1>3, PcNames DEF Acquiring
<1>6. g \in Frames /\ g.pc \in {"count", "help", "cas"} /\ g.d = f.d /\ g.res = f.res
  BY <1>2, <1>4, <1>5 DEF Frames
<1>7. Continue(t, g) /\ UNCHANGED <<heapVars, poolVars, lg, histVars>>
  BY <1>2, <1>3, <1>4 DEF TryRecheck, Goto, localVars
<1>8. /\ f.pc \notin Says \cup Calling \cup {"help_clear"}
      /\ g.pc \notin Says \cup {"mark"} \cup Calling
      /\ Sharing(g) <=> Sharing(f)
  BY <1>2, <1>6 DEF Says, Calling, Sharing, Early, Storing
<1> QED
  BY <1>1, <1>6, <1>7, <1>8, PlainMovesB

\* with_lock goes on to its compare-and-swap.
LEMMA WithTestGoesB ==
  ASSUME InvA, InvB, NEW t \in Threads, WithTest(t), ~(desc[Top(t).d].done \/ Top(t).cur = Top(t).d)
  PROVE  InvB'
<1>1. PICK h, f, s, n : Here(t, "test", h, f, s, n)
  BY HereIs DEF WithTest
<1>2. f = Top(t) /\ f.pc = "test" /\ f \in Frames
  BY <1>1 DEF Here
<1>3. PICK p : p = IF IsLocked(f.cur) THEN "help" ELSE "take"
  OBVIOUS
<1>4. PICK g : g = [f EXCEPT !.pc = p]
  OBVIOUS
<1>5. p \in {"help", "take"} /\ p \in Pcs
  BY <1>3, PcNames
<1>6. g \in Frames /\ g.pc \in {"help", "take"} /\ g.d = f.d /\ g.res = f.res
  BY <1>2, <1>4, <1>5 DEF Frames
<1>7. Continue(t, g) /\ UNCHANGED <<heapVars, poolVars, lg, histVars>>
  BY <1>2, <1>3, <1>4 DEF WithTest, Goto, localVars
<1>8. /\ f.pc \notin Says \cup Calling \cup {"help_clear"}
      /\ g.pc \notin Says \cup {"mark"} \cup Calling
      /\ Sharing(g) <=> Sharing(f)
  BY <1>2, <1>6 DEF Says, Calling, Sharing, Early, Storing
<1> QED
  BY <1>1, <1>6, <1>7, <1>8, PlainMovesB

\* The compare-and-swap of with_lock fails.
LEMMA WithCasFailsB ==
  ASSUME InvA, InvB, NEW t \in Threads, WithCas(t), lck[Top(t).lock] # Top(t).cur
  PROVE  InvB'
<1>1. PICK h, f, s, n : Here(t, "take", h, f, s, n)
  BY HereIs DEF WithCas
<1>2. f = Top(t) /\ f.pc = "take" /\ f \in Frames
  BY <1>1 DEF Here
<1>3. PICK g : g = [f EXCEPT !.pc = "again"]
  OBVIOUS
<1>4. g \in Frames /\ g.pc = "again" /\ g.d = f.d /\ g.res = f.res
  BY <1>2, <1>3, PcNames DEF Frames
<1>5. Continue(t, g) /\ UNCHANGED <<heapVars, poolVars, lg, histVars>>
  BY <1>2, <1>3 DEF WithCas, Goto, heapVars
<1>6. /\ f.pc \notin Says \cup Calling \cup {"help_clear"}
      /\ g.pc \notin Says \cup {"mark"} \cup Calling
      /\ Sharing(g) <=> Sharing(f)
  BY <1>2, <1>4 DEF Says, Calling, Sharing, Early, Storing
<1> QED
  BY <1>1, <1>4, <1>5, <1>6, PlainMovesB

\* The compare-and-swap of try_lock fails.
LEMMA TryCasFailsB ==
  ASSUME InvA, InvB, NEW t \in Threads, TryCas(t), lck[Top(t).lock] # Top(t).cur
  PROVE  InvB'
<1>1. PICK h, f, s, n : Here(t, "cas", h, f, s, n)
  BY HereIs DEF TryCas
<1>2. f = Top(t) /\ f.pc = "cas" /\ f \in Frames
  BY <1>1 DEF Here
<1>3. PICK g : g = [f EXCEPT !.pc = "check"]
  OBVIOUS
<1>4. g \in Frames /\ g.pc = "check" /\ g.d = f.d /\ g.res = f.res
  BY <1>2, <1>3, PcNames DEF Frames
<1>5. Continue(t, g) /\ UNCHANGED <<heapVars, poolVars, lg, histVars>>
  BY <1>2, <1>3 DEF TryCas, Goto, heapVars, localVars
<1>6. /\ f.pc \notin Says \cup Calling \cup {"help_clear"}
      /\ g.pc \notin Says \cup {"mark"} \cup Calling
      /\ Sharing(g) <=> Sharing(f)
  BY <1>2, <1>4 DEF Says, Calling, Sharing, Early, Storing
<1> QED
  BY <1>1, <1>4, <1>5, <1>6, PlainMovesB

\* A thread that helps another one in try_lock has not stored in its own
\* call.
LEMMA NotYetMade ==
  ASSUME InvA, InvB, NEW t \in Threads, NEW w, NEW h, NEW f, NEW s, NEW n, Here(t, w, h, f, s, n),
         f.pc \in HelpIn, ~prog.with
  PROVE  CallId(f.d) \notin made
<1>1. f \in Frames /\ FrameDesc(t, f, s) /\ FrameCur(t, f, s) /\ FrameCount(f)
  BY DEF Here
<1>2. Sharing(f) /\ HasDesc(f)
  BY DEF HelpIn, Sharing, HasDesc, Early, Storing
<1>3. f.d \in Descriptors /\ desc[f.d].counter = CounterOf(f)
  BY <1>1, <1>2 DEF FrameDesc
<1>4. f.cur \in Descriptors
  BY <1>1 DEF FrameCur
<1>5. desc[f.d].counter = 0
  BY <1>3, <1>4 DEF CounterOf, IsLocked
<1>6. ~Held(f.d)
  BY <1>3, <1>5 DEF InvA, HeapOK, CountersOK
<1> QED
  BY <1>2, <1>6, HereFrameB DEF FrameB

\* FrameB of a frame that has helped.
LEMMA AfterHelpB ==
  ASSUME InvA, InvB, NEW t \in Threads, NEW w, NEW h, NEW f, NEW s, NEW n, Here(t, w, h, f, s, n),
         f.pc \in HelpIn, NEW g, g.pc = AfterHelp, g.d = f.d, g.res = FALSE
  PROVE  FrameB(g) /\ Sharing(f) /\ Sharing(g) /\ g.d \in Descriptors /\ g.pc \notin Calling
<1>1. Sharing(f) /\ f.pc # "mark"
  BY DEF HelpIn, Sharing, Early, Storing
<1>2. FrameB(f) /\ f.d \in Descriptors
  BY <1>1, HereFrameB
<1>3. g.pc = "again" \/ (g.pc = "result" /\ ~prog.with)
  BY DEF AfterHelp
<1>4. Sharing(g) /\ g.pc \notin Calling
  BY <1>3 DEF Sharing, Early, Storing, Calling
<1>5. Sharing(g) /\ CallId(g.d) \in made => Held(g.d)
  BY <1>1, <1>2 DEF FrameB
<1>6. g.pc \in Says => g.res = (CallId(g.d) \in made)
  <2> SUFFICES ASSUME g.pc \in Says PROVE g.res = (CallId(g.d) \in made)
    OBVIOUS
  <2>1. ~prog.with
    BY <1>3 DEF Says
  <2>2. CallId(f.d) \notin made
    BY <2>1, NotYetMade
  <2>3. (CallId(g.d) \in made) = FALSE
    BY <2>2
  <2> QED
    BY <2>3
<1>7. FrameB(g)
  BY <1>3, <1>5, <1>6 DEF FrameB
<1> QED
  BY <1>1, <1>2, <1>4, <1>7

\* help_descriptor begins.
LEMMA HelpB ==
  ASSUME InvA, InvB, NEW t \in Threads, Help(t)
  PROVE  InvB'
<1>1. PICK h, f, s, n : Here(t, "help", h, f, s, n)
  BY HereIs DEF Help
<1>2. f = Top(t) /\ f.pc = "help" /\ f \in Frames
  BY <1>1 DEF Here
<1>3. UNCHANGED <<heapVars, poolVars, lg, histVars>>
  BY DEF Help, localVars
<1>4. PICK p : p = AfterHelp
  OBVIOUS
<1>5. PICK g : g.pc \in {p, "help_id"} /\ g = [f EXCEPT !.pc = g.pc] /\ Continue(t, g)
  <2>1. PICK q : q \in {p, "help_id"} /\ Goto(t, q)
    BY <1>2, <1>4 DEF Help
  <2>2. PICK g : g = [f EXCEPT !.pc = q]
    OBVIOUS
  <2>3. g.pc = q
    BY <1>2, <2>2 DEF Frames
  <2> QED
    BY <1>2, <2>1, <2>2, <2>3 DEF Goto
<1>6. p \in Pcs /\ "help_id" \in Pcs
  BY <1>4, PcNames DEF AfterHelp
<1>7. g \in Frames /\ g.d = f.d /\ g.res = f.res
  BY <1>2, <1>5, <1>6 DEF Frames
<1>8. f.pc \notin Says \cup Calling \cup {"help_clear"} /\ f.pc \in HelpIn
  BY <1>2 DEF Says, Calling, HelpIn
<1>9. CASE g.pc = "help_id"
  <2>1. /\ g.pc \notin Says \cup {"mark"} \cup Calling
        /\ Sharing(g) <=> Sharing(f)
    BY <1>2, <1>9 DEF Says, Calling, Sharing, Early, Storing
  <2> QED
    BY <1>1, <1>3, <1>5, <1>7, <1>8, <2>1, PlainMovesB
<1>10. CASE g.pc = AfterHelp
  <2>1. f.res = FALSE
    BY <1>1, <1>8, HereFrameB DEF FrameB
  <2>2. FrameB(g) /\ Sharing(f) /\ Sharing(g) /\ g.d \in Descriptors /\ g.pc \notin Calling
    BY <1>1, <1>7, <1>8, <1>10, <2>1, AfterHelpB
  <2> QED
    BY <1>1, <1>3, <1>5, <1>7, <2>2, PlainSame, GoB
<1> QED
  BY <1>4, <1>5, <1>9, <1>10

\* A helper takes the identity of the descriptor.
LEMMA HelpInheritB ==
  ASSUME InvA, InvB, NEW t \in Threads, HelpInherit(t)
  PROVE  InvB'
<1>1. PICK h, f, s, n : Here(t, "help_id", h, f, s, n)
  BY HereIs DEF HelpInherit
<1>2. f = Top(t) /\ f.pc = "help_id" /\ f \in Frames
  BY <1>1 DEF Here
<1>3. PICK i : i = id[t]
  OBVIOUS
<1>4. PICK g : g = [f EXCEPT !.id = i, !.pc = "help_acquire"]
  OBVIOUS
<1>5. i \in Threads
  BY <1>3 DEF InvA, TypeOK
<1>6. g \in Frames /\ g.pc = "help_acquire" /\ g.d = f.d /\ g.res = f.res
  BY <1>2, <1>4, <1>5, PcNames DEF Frames
<1>7. Continue(t, g) /\ UNCHANGED <<heapVars, poolVars, lg, histVars>>
  BY <1>2, <1>3, <1>4 DEF HelpInherit
<1>8. /\ f.pc \notin Says \cup Calling \cup {"help_clear"}
      /\ g.pc \notin Says \cup {"mark"} \cup Calling
      /\ Sharing(g) <=> Sharing(f)
  BY <1>2, <1>6 DEF Says, Calling, Sharing, Early, Storing
<1> QED
  BY <1>1, <1>6, <1>7, <1>8, PlainMovesB

\* InvB when a frame stops helping.
LEMMA StopHelpingB ==
  ASSUME InvA, InvB, Rely({}), HeapB', x' = x, made' = made, calls' = calls, stores' = stores, lg' = lg,
         NEW t \in Threads, NEW w, NEW h, NEW f, NEW s, NEW n, Here(t, w, h, f, s, n),
         f.pc \in HelpIn, StopHelping(t, f)
  PROVE  InvB'
<1>1. f \in Frames
  BY DEF Here
<1>2. PICK p : p = AfterHelp
  OBVIOUS
<1>3. PICK g : g = [f EXCEPT !.res = FALSE, !.id = None, !.pc = p]
  OBVIOUS
<1>4. p \in Pcs
  BY <1>2, PcNames DEF AfterHelp
<1>5. g \in Frames /\ g.pc = p /\ g.d = f.d /\ g.res = FALSE
  BY <1>1, <1>3, <1>4 DEF Frames
<1>6. Continue(t, g)
  BY <1>2, <1>3 DEF StopHelping
<1>7. FrameB(g) /\ Sharing(f) /\ Sharing(g) /\ g.d \in Descriptors /\ g.pc \notin Calling
  BY <1>2, <1>5, AfterHelpB
<1> QED
  BY <1>5, <1>6, <1>7, GoB

\* A helper finds that the lock has moved on.
LEMMA HelpCheckStopsB ==
  ASSUME InvA, InvB, NEW t \in Threads, HelpCheck(t), lck[Top(t).lock] # Top(t).cur
  PROVE  InvB'
<1>1. PICK h, f, s, n : Here(t, "help_check", h, f, s, n)
  BY HereIs DEF HelpCheck
<1>2. f = Top(t) /\ f.pc \in HelpIn
  BY <1>1 DEF Here, HelpIn
<1>3. StopHelping(t, f) /\ UNCHANGED <<heapVars, poolVars, lg, histVars>>
  BY <1>2 DEF HelpCheck
<1>4. lg' = lg
  BY <1>3
<1> QED
  BY <1>1, <1>2, <1>3, <1>4, PlainSame, StopHelpingB

\* try_lock has lost the lock.
LEMMA TryCheckFailsB ==
  ASSUME InvA, InvB, NEW t \in Threads, TryCheck(t), ~TookLock(Top(t))
  PROVE  InvB'
<1>1. PICK h, f, s, n : Here(t, "check", h, f, s, n)
  BY HereIs DEF TryCheck
<1>2. f = Top(t) /\ f.pc = "check" /\ f \in Frames /\ FrameDesc(t, f, s)
  BY <1>1 DEF Here
<1>3. PICK g : g = [f EXCEPT !.pc = "result"]
  OBVIOUS
<1>4. g \in Frames /\ g.pc = "result" /\ g.d = f.d /\ g.res = f.res
  BY <1>2, <1>3, PcNames DEF Frames
<1>5. Continue(t, g) /\ UNCHANGED <<heapVars, poolVars, lg, histVars>>
  BY <1>2, <1>3 DEF TryCheck, Goto, localVars
<1>6. /\ Sharing(f) /\ Sharing(g) /\ HasDesc(f) /\ g.pc \notin Calling
      /\ f.pc \notin Says \cup Calling \cup {"help_clear"}
  BY <1>2, <1>4 DEF Says, Calling, Sharing, Early, Storing, HasDesc
<1>7. f.d \in Descriptors /\ desc[f.d].lock = f.lock
  BY <1>2, <1>6 DEF FrameDesc
<1>8. ~Held(f.d)
  <2>1. ~desc[f.d].done /\ lck[f.lock] # f.d
    BY <1>2 DEF TookLock
  <2>2. ASSUME NEW l \in Locks, lck[l] = f.d PROVE FALSE
    BY <1>7, <2>1, <2>2 DEF InvA, HeapOK, LocksOK
  <2> QED
    BY <2>1, <2>2 DEF Held, Installed
<1>9. FrameB(f)
  BY <1>1, HereFrameB
<1>10. FrameB(g)
  <2>1. CallId(f.d) \notin made /\ f.res = FALSE
    BY <1>6, <1>8, <1>9 DEF FrameB
  <2>2. CallId(g.d) \notin made /\ g.res = FALSE
    BY <1>4, <2>1
  <2>3. g.res = (CallId(g.d) \in made)
    <3>1. (CallId(g.d) \in made) = FALSE
      BY <2>2
    <3> QED
      BY <2>2, <3>1
  <2> QED
    BY <1>4, <2>2, <2>3 DEF FrameB, Says, Calling
<1> QED
  BY <1>1, <1>4, <1>5, <1>6, <1>7, <1>10, PlainSame, GoB

\* To set a flag of a descriptor keeps HeapB.
LEMMA TouchHeapB ==
  ASSUME InvA, HeapB, NEW d \in Descriptors, Touch(d), x' = x, made' = made, calls' = calls
  PROVE  HeapB' /\ Rely({})
<1>1. Rely({})
  BY TouchRely
<1>2. SameLogs /\ lck' = lck
  BY DEF SameLogs, Touch
<1>3. \A e \in Descriptors : desc'[e].done => desc[e].done \/ Installed(e)
  BY DEF Touch, Held
<1> QED
  BY <1>1, <1>2, <1>3, CalmB

\* try_lock acquires the descriptor that it has found.
LEMMA TryAcquireB ==
  ASSUME InvA, InvB, NEW t \in Threads, TryAcquire(t)
  PROVE  InvB'
<1>1. PICK h, f, s, n : Here(t, "acquire", h, f, s, n)
  BY HereIs DEF TryAcquire
<1>2. /\ f = Top(t) /\ f.pc = "acquire" /\ f \in Frames /\ f = stack[t][h] /\ h \in Depth(t)
      /\ FrameDesc(t, f, s)
  BY <1>1 DEF Here
<1>3. UNCHANGED <<lck, x, log, ext, poolVars, localVars, histVars>>
  BY DEF TryAcquire
<1>4. PICK g : g = [f EXCEPT !.pc = "recheck"]
  OBVIOUS
<1>5. g \in Frames /\ g.pc = "recheck" /\ g.d = f.d /\ g.res = f.res
  BY <1>2, <1>4, PcNames DEF Frames
<1>6. Continue(t, g)
  BY <1>2, <1>4 DEF TryAcquire, Goto
<1>7. HasDesc(f)
  BY <1>2 DEF HasDesc, Early, Storing
<1>8. f.d \in Descriptors /\ status[f.d] # "fresh" /\ Shared(f.d)
  BY <1>2, <1>7, SharedHere DEF FrameDesc
<1>9. Touch(f.d)
  BY <1>2, <1>3, <1>8, AcquireTouch DEF TryAcquire, histVars
<1>10. x' = x /\ made' = made /\ calls' = calls /\ stores' = stores /\ lg' = lg
  BY <1>3 DEF localVars, histVars
<1>11. HeapB' /\ Rely({})
  BY <1>8, <1>9, <1>10, TouchHeapB DEF InvB
<1>12. /\ f.pc \notin Says \cup Calling \cup {"help_clear"}
       /\ g.pc \notin Says \cup {"mark"} \cup Calling
       /\ Sharing(g) <=> Sharing(f)
  BY <1>2, <1>5 DEF Says, Calling, Sharing, Early, Storing
<1>13. \A u \in Threads \ {t} : lg'[u] = lg[u]
  BY <1>10
<1> QED
  BY <1>1, <1>5, <1>6, <1>10, <1>11, <1>12, <1>13, MovesB

\* A helper acquires the descriptor.
LEMMA HelpAcquireB ==
  ASSUME InvA, InvB, NEW t \in Threads, HelpAcquire(t)
  PROVE  InvB'
<1>1. PICK h, f, s, n : Here(t, "help_acquire", h, f, s, n)
  BY HereIs DEF HelpAcquire
<1>2. f = Top(t) /\ f.pc = "help_acquire" /\ f \in Frames /\ FrameCur(t, f, s)
  BY <1>1 DEF Here
<1>3. UNCHANGED <<lck, x, log, ext, poolVars, localVars, histVars>>
  BY DEF HelpAcquire
<1>4. PICK g : g = [f EXCEPT !.pc = "help_check"]
  OBVIOUS
<1>5. g \in Frames /\ g.pc = "help_check" /\ g.d = f.d /\ g.res = f.res
  BY <1>2, <1>4, PcNames DEF Frames
<1>6. Continue(t, g)
  BY <1>2, <1>4 DEF HelpAcquire, Goto
<1>7. PICK d : d = f.cur
  OBVIOUS
<1>8. d \in Descriptors /\ Known(d)
  BY <1>2, <1>7 DEF FrameCur, HelpIn, Storing
<1>9. status[d] # "fresh" /\ Shared(d)
  BY <1>8, SharedHeld DEF Known
<1>10. Touch(d)
  BY <1>2, <1>3, <1>7, <1>8, <1>9, AcquireTouch DEF HelpAcquire, histVars
<1>11. x' = x /\ made' = made /\ calls' = calls /\ stores' = stores /\ lg' = lg
  BY <1>3 DEF localVars, histVars
<1>12. HeapB' /\ Rely({})
  BY <1>8, <1>10, <1>11, TouchHeapB DEF InvB
<1>13. /\ f.pc \notin Says \cup Calling \cup {"help_clear"}
       /\ g.pc \notin Says \cup {"mark"} \cup Calling
       /\ Sharing(g) <=> Sharing(f)
  BY <1>2, <1>5 DEF Says, Calling, Sharing, Early, Storing
<1>14. \A u \in Threads \ {t} : lg'[u] = lg[u]
  BY <1>11
<1> QED
  BY <1>1, <1>5, <1>6, <1>11, <1>12, <1>13, <1>14, MovesB

\* The section that the innermost frame waited for is settled when it goes
\* on.
LEMMA SettledTop ==
  ASSUME InvA, NEW t \in Threads, NEW w, NEW h, NEW f, NEW s, NEW n, Here(t, w, h, f, s, n), f.pc \in Calling
  PROVE  lg[t].d = Inner(f) /\ Settled(Inner(f))
<1>1. stack[t] # <<>> /\ f = Top(t) /\ h = Height(t) /\ f = stack[t][h]
  BY DEF Here
<1>2. lg[t].d = Inner(f)
  BY <1>1, TopIn
<1> QED
  BY <1>1, <1>2 DEF InvA, StackOK, Returned

\* try_lock sets the done flag after its own run and has its result.
LEMMA TryRanB ==
  ASSUME InvA, InvB, NEW t \in Threads, TryRan(t)
  PROVE  InvB'
<1>1. PICK h, f, s, n : Here(t, "ran", h, f, s, n)
  BY HereIs DEF TryRan
<1>2. /\ f = Top(t) /\ f.pc = "ran" /\ f \in Frames /\ TypeOK /\ stack[t] # <<>>
      /\ FrameDesc(t, f, s) /\ FrameCount(f)
  BY <1>1 DEF Here, InvA
<1>3. UNCHANGED <<lck, x, log, ext, poolVars, id, helping, histVars>> /\ lg' = [lg EXCEPT ![t] = f.lg]
  BY <1>2 DEF TryRan
<1>4. PICK g : g = [f EXCEPT !.pc = "clear"]
  OBVIOUS
<1>5. g \in Frames /\ g.pc = "clear" /\ g.d = f.d /\ g.res = f.res
  BY <1>2, <1>4, PcNames DEF Frames
<1>6. Continue(t, g)
  BY <1>2, <1>4 DEF TryRan, Goto
<1>7. Sharing(f) /\ Sharing(g) /\ g.pc \notin Calling /\ f.pc \in Calling
  BY <1>2, <1>5 DEF Calling, Sharing, Early, Storing
<1>8. PICK d : d = f.d
  OBVIOUS
<1>9. d \in Descriptors /\ status[d] # "fresh" /\ Held(d)
  BY <1>2, <1>7, <1>8, HasD DEF FrameCount, Storing
<1>10. lg[t].d = d /\ Settled(d)
  BY <1>1, <1>2, <1>7, <1>8, SettledTop DEF Inner
<1>11. Touch(d)
  BY <1>2, <1>3, <1>8, <1>9, <1>10, DoneTouch DEF TryRan, histVars
<1>12. x' = x /\ made' = made /\ calls' = calls /\ stores' = stores
  BY <1>3 DEF histVars
<1>13. HeapB' /\ Rely({})
  BY <1>9, <1>11, <1>12, TouchHeapB DEF InvB
<1>14. FrameB(g)
  <2>1. FrameB(f)
    BY <1>1, HereFrameB
  <2>2. f.res = (CallId(d) \in made)
    BY <1>2, <1>7, <1>10 DEF InvB, StackB, ReturnedB
  <2>3. Sharing(g) /\ CallId(g.d) \in made => Held(g.d)
    BY <1>5, <1>8, <1>9
  <2>4. g.res = (CallId(g.d) \in made)
    BY <1>5, <1>8, <2>2
  <2> QED
    BY <1>5, <2>3, <2>4 DEF FrameB, Says
<1>15. \A u \in Threads \ {t} : lg'[u] = lg[u]
  BY <1>2, <1>3, FrameType, LgSet
<1>16. g.d \in Descriptors
  BY <1>5, <1>8, <1>9
<1> QED
  BY <1>1, <1>5, <1>6, <1>7, <1>12, <1>13, <1>14, <1>15, <1>16, GoB

\* A helper sets the done flag after its run.
LEMMA HelpedB ==
  ASSUME InvA, InvB, NEW t \in Threads, Helped(t)
  PROVE  InvB'
<1>1. PICK h, f, s, n : Here(t, "helped", h, f, s, n)
  BY HereIs DEF Helped
<1>2. /\ f = Top(t) /\ f.pc = "helped" /\ f \in Frames /\ TypeOK /\ stack[t] # <<>>
      /\ FrameCur(t, f, s)
  BY <1>1 DEF Here, InvA
<1>3. UNCHANGED <<lck, x, log, ext, poolVars, id, helping, histVars>> /\ lg' = [lg EXCEPT ![t] = f.lg]
  BY <1>2 DEF Helped
<1>4. PICK g : g = [f EXCEPT !.lg = EmptyLog, !.pc = "help_clear"]
  OBVIOUS
<1>5. g \in Frames /\ g.pc = "help_clear" /\ g.d = f.d
  BY <1>2, <1>4, PcNames, LogKnown DEF Frames
<1>6. Continue(t, g)
  BY <1>2, <1>4 DEF Helped
<1>7. Sharing(f) /\ Sharing(g) /\ g.pc \notin Calling /\ f.pc \in Calling
  BY <1>2, <1>5 DEF Calling, Sharing, Early, Storing
<1>8. PICK d : d = f.cur
  OBVIOUS
<1>9. d \in Descriptors /\ status[d] # "fresh" /\ Held(d)
  BY <1>2, <1>8 DEF FrameCur, HelpIn, Storing, Safe
<1>10. Settled(d)
  BY <1>1, <1>2, <1>7, <1>8, SettledTop DEF Inner
<1>11. Touch(d)
  BY <1>2, <1>3, <1>8, <1>9, <1>10, DoneTouch DEF Helped, histVars
<1>12. x' = x /\ made' = made /\ calls' = calls /\ stores' = stores
  BY <1>3 DEF histVars
<1>13. HeapB' /\ Rely({})
  BY <1>9, <1>11, <1>12, TouchHeapB DEF InvB
<1>14. FrameB(g) /\ g.d \in Descriptors
  <2>1. FrameB(f) /\ f.d \in Descriptors
    BY <1>1, <1>7, HereFrameB
  <2>2. Sharing(g) /\ CallId(g.d) \in made => Held(g.d)
    BY <1>5, <1>7, <2>1 DEF FrameB
  <2> QED
    BY <1>5, <2>1, <2>2 DEF FrameB, Says
<1>15. \A u \in Threads \ {t} : lg'[u] = lg[u]
  BY <1>2, <1>3, FrameType, LgSet
<1> QED
  BY <1>1, <1>5, <1>6, <1>7, <1>12, <1>13, <1>14, <1>15, GoB

\* A log that is full loads its next block.
LEMMA ExtendLoadB ==
  ASSUME InvA, InvB, NEW t \in Threads, ExtendLoad(t)
  PROVE  InvB'
<1>1. /\ stack[t] # <<>> /\ stack' = stack /\ HeapSame
      /\ x' = x /\ made' = made /\ calls' = calls /\ stores' = stores
  BY DEF ExtendLoad, HeapSame, heapVars, poolVars, histVars
<1>2. HeapB' /\ Rely({})
  BY <1>1, QuietHeapB DEF InvB
<1>3. \A u \in Threads \ {t} : lg'[u] = lg[u]
  BY DEF ExtendLoad, InvA, TypeOK
<1>4. PICK f : f = Top(t)
  OBVIOUS
<1>5. f.pc \notin Calling
  BY <1>4 DEF ExtendLoad, Calling
<1>6. Conts(t, f)
  BY <1>1, <1>4, StackStays DEF InvA
<1>7. FrameB(f) /\ (Sharing(f) => f.d \in Descriptors)
  BY <1>1, <1>4, TopIn, SharingHas DEF InvB, StackB, FramesB
<1> QED
  BY <1>1, <1>2, <1>3, <1>4, <1>5, <1>6, <1>7, ContB

\* with_lock stores its raised counter.
LEMMA WithRaiseB ==
  ASSUME InvA, InvB, NEW t \in Threads, WithRaise(t)
  PROVE  InvB'
<1>1. PICK h, f, s, n : Here(t, "raise", h, f, s, n)
  BY HereIs DEF WithRaise
<1>2. /\ f = Top(t) /\ f.pc = "raise" /\ f \in Frames /\ f = stack[t][h] /\ h \in Depth(t) /\ TypeOK
      /\ FrameShape(t, f, s, n) /\ FrameCur(t, f, s) /\ FrameDesc(t, f, s) /\ FrameCount(f)
  BY <1>1 DEF Here, InvA
<1>3. UNCHANGED <<lck, x, log, ext, poolVars, localVars, histVars>>
  BY DEF WithRaise
<1>4. Sharing(f) /\ HasDesc(f) /\ prog.with
  BY <1>2, WithPath DEF Sharing, HasDesc, Early, Storing, WithOnly
<1>5. PICK d : d = f.d
  OBVIOUS
<1>6. d \in Descriptors /\ status[d] # "fresh" /\ desc[d].lock = f.lock /\ Shared(d)
  BY <1>2, <1>4, <1>5, SharedHere, HasD
<1>7. PICK now \in Nat : now = desc[d].counter
  BY <1>2, <1>6, DescType
<1>8. /\ f.cur \in Nat /\ f.cur > 0 /\ AtMost(f.lock, f.cur) /\ AtMost(f.lock, now)
      /\ f.old \in Nat /\ f.old < f.cur /\ f.old <= now
  BY <1>2, <1>4, <1>5, <1>7, FrameType DEF FrameCount, Storing
<1>9. PICK c \in Nat : c = IF now = f.old THEN f.cur ELSE now
  BY <1>7, <1>8
<1>10. PICK g : g = [f EXCEPT !.cur = c, !.pc = "test"]
  OBVIOUS
<1>11. g \in Frames /\ g.pc = "test" /\ Alike(f, g) /\ g.cur = c
  BY <1>2, <1>10, PcNames DEF Frames, Alike
<1>12. Continue(t, g)
  <2>1. CASE now = f.old
    <3>1. Continue(t, [f EXCEPT !.pc = "test"])
      BY <1>2, <1>5, <1>7, <2>1 DEF WithRaise, Goto
    <3>2. g = [f EXCEPT !.pc = "test"]
      <4>1. c = f.cur
        BY <1>9, <2>1
      <4> QED
        BY <1>2, <1>10, <4>1 DEF Frames
    <3> QED
      BY <3>1, <3>2
  <2>2. CASE now # f.old
    BY <1>2, <1>5, <1>7, <1>9, <1>10, <2>2 DEF WithRaise
  <2> QED
    BY <2>1, <2>2
<1>13. Moves(f, g)
  BY <1>2, <1>4, <1>11 DEF Moves, Alike, Sharing, Early, Storing
<1>14. c > 0 /\ AtMost(f.lock, c) /\ now <= c
  BY <1>7, <1>8, <1>9
<1>15. Touch(d) /\ desc'[d].counter = c
  <2>1. CASE now = f.old
    <3>1. desc' = [desc EXCEPT ![d].counter = f.cur] /\ c = f.cur
      BY <1>2, <1>5, <1>7, <1>9, <2>1 DEF WithRaise
    <3>2. PICK b : b = [desc EXCEPT ![d].counter = f.cur]
      OBVIOUS
    <3>3. /\ b \in [Descriptors ->
                [path : Seq(Locks), lock : Locks \cup {None}, done : BOOLEAN,
                 acquired : BOOLEAN, thread : Threads \cup {None}, counter : Nat]]
          /\ \A e \in Descriptors \ {d} : b[e] = desc[e]
          /\ b[d].path = desc[d].path /\ b[d].lock = desc[d].lock /\ b[d].thread = desc[d].thread
          /\ b[d].acquired = desc[d].acquired /\ b[d].done = desc[d].done /\ b[d].counter = f.cur
      BY <1>2, <1>6, <1>8, <3>2, DescSet
    <3>4. desc' = b
      BY <3>1, <3>2
    <3> QED
      BY <1>3, <1>4, <1>6, <1>7, <1>14, <3>1, <3>3, <3>4 DEF Touch, poolVars, histVars
  <2>2. CASE now # f.old
    <3>1. desc' = desc /\ c = now
      BY <1>2, <1>5, <1>7, <1>9, <2>2 DEF WithRaise
    <3> QED
      BY <1>2, <1>3, <1>6, <1>7, <3>1 DEF Touch, poolVars, histVars, TypeOK
  <2> QED
    BY <2>1, <2>2
<1>16. x' = x /\ made' = made /\ calls' = calls /\ stores' = stores /\ lg' = lg
  BY <1>3 DEF localVars, histVars
<1>17. HeapB' /\ Rely({})
  BY <1>6, <1>15, <1>16, TouchHeapB DEF InvB
<1>18. g.d = f.d /\ g.res = f.res
  BY <1>2, <1>10 DEF Frames
<1>19. /\ f.pc \notin Says \cup Calling \cup {"help_clear"}
       /\ g.pc \notin Says \cup {"mark"} \cup Calling
       /\ Sharing(g) <=> Sharing(f)
  BY <1>2, <1>11 DEF Says, Calling, Sharing, Early, Storing
<1>20. \A u \in Threads \ {t} : lg'[u] = lg[u]
  BY <1>16
<1> QED
  BY <1>1, <1>11, <1>12, <1>16, <1>17, <1>18, <1>19, <1>20, MovesB

\* A log that is full links its next block.
LEMMA ExtendCasB ==
  ASSUME InvA, InvB, NEW t \in Threads, ExtendCas(t)
  PROVE  InvB'
<1>1. AtEnd(t) /\ stack[t] # <<>> /\ Top(t).pc \in Extending
  BY DEF ExtendCas, InvA, StackOK, BlocksOK
<1>2. PICK w : w = Top(t).pc
  OBVIOUS
<1>3. PICK h, f, s, n : Here(t, w, h, f, s, n)
  <2>1. At(t, w)
    BY <1>1, <1>2 DEF At
  <2> QED
    BY <2>1, HereIs
<1>4. /\ f = Top(t) /\ f.pc = w /\ f \in Frames /\ stack[t] # <<>> /\ f = stack[t][h] /\ TypeOK
      /\ s = Sec(t, h) /\ n = Pos(t, h) /\ h \in Depth(t) /\ f.pc \in Extending
  BY <1>1, <1>3 DEF Here, InvA
<1>5. f.pc \notin Calling \cup Inherited \cup {"retire", "ran", "helped", "reentered"}
  BY <1>4 DEF Calling, Inherited, Extending
<1>6. PICK k : k = lg[t]
  OBVIOUS
<1>7. /\ k.d = s /\ k.n = n /\ k \in Log /\ (k.d # None => BlockOK(k))
  BY <1>3, <1>5, <1>6, LgHere
<1>8. k.d # None /\ k.n \div BlockLen > k.block
  BY <1>1, <1>6 DEF AtEnd
<1>9. s \in Descriptors /\ k.n \in Nat /\ k.n \in 0 .. LogLen /\ k.block \in Nat /\ ext[s] \in 0 .. LogLen /\ s # None
  BY <1>4, <1>7, <1>8, LogType, DescType
<1>10. PICK next \in Nat : next = k.block + 1
  BY <1>9
<1>11. k.n \div BlockLen \in Nat /\ k.n \div BlockLen <= k.n /\ (k.n > 0 => (k.n - 1) \div BlockLen <= k.block) /\ k.block <= ext[s]
  BY <1>7, <1>8, <1>9, Blocks DEF BlockOK
<1>12. next <= k.n \div BlockLen /\ next \in 0 .. LogLen
  BY <1>8, <1>9, <1>10, <1>11, Consts
<1>13. PICK z : z = [k EXCEPT !.new = FALSE, !.block = next]
  OBVIOUS
<1>14. z \in Log /\ z.d = s /\ z.n = n /\ z.block = next /\ ~z.new
  BY <1>7, <1>12, <1>13 DEF Log
<1>15. lg' = [lg EXCEPT ![t] = z]
  BY <1>4, <1>6, <1>10, <1>13 DEF ExtendCas, TypeOK
<1>16. lg' \in [Threads -> Log] /\ lg'[t] = z /\ \A u \in Threads \ {t} : lg'[u] = lg[u]
  BY <1>4, <1>14, <1>15, LgSet
<1>17. Longer /\ next <= ext'[s]
  <2>1. CASE Links(t)
    <3>1. ext[s] = k.block /\ ext' = [ext EXCEPT ![s] = next]
      BY <1>6, <1>7, <1>10, <2>1 DEF ExtendCas, Links
    <3>2. log' = [log EXCEPT ![s] = [j \in 1 .. LogLen |->
                         IF (j - 1) \div BlockLen >= next THEN Unset ELSE @[j]]]
      BY <1>6, <1>7, <1>10, <2>1 DEF ExtendCas
    <3>3. ext[s] < next
      BY <1>9, <1>10, <3>1
    <3>4. log' = log
      BY <1>9, <3>2, <3>3, BlockEmpty
    <3>5. ext \in [Descriptors -> 0 .. LogLen]
      BY <1>4 DEF TypeOK
    <3>6. ext' \in [Descriptors -> 0 .. LogLen] /\ ext'[s] = next /\ \A e \in Descriptors : ext[e] <= ext'[e]
      BY <1>9, <1>12, <3>1, <3>3, <3>5, Consts
    <3> QED
      BY <1>10, <3>4, <3>6 DEF ExtendCas, Longer, poolVars, histVars
  <2>2. CASE ~Links(t)
    <3>1. ext' = ext /\ log' = log /\ ext[s] # k.block
      BY <1>6, <1>7, <2>2 DEF ExtendCas, Links
    <3>2. ext \in [Descriptors -> 0 .. LogLen] /\ \A e \in Descriptors : ext[e] <= ext[e]
      BY <1>4, Consts DEF TypeOK
    <3>3. next <= ext[s]
      BY <1>9, <1>10, <1>11, <3>1
    <3> QED
      BY <3>1, <3>2, <3>3 DEF ExtendCas, Longer, poolVars, histVars
  <2> QED
    BY <2>1, <2>2
<1>18. /\ calls' = calls /\ id' = id /\ helping' = helping /\ x' = x /\ stores' = stores /\ made' = made
       /\ stack' = stack
  BY DEF ExtendCas, histVars
<1>19. Conts(t, f)
  BY <1>4, <1>18, StackStays
<1>20. HeapB' /\ Rely({})
  <2>1. Rely({})
    BY <1>17, LongerRely
  <2>2. SameLogs /\ lck' = lck
    BY <1>17 DEF SameLogs, Longer
  <2>3. \A d \in Descriptors : desc'[d].done => desc[d].done \/ Installed(d)
    BY <1>17 DEF Longer
  <2> QED
    BY <1>18, <2>1, <2>2, <2>3, CalmB DEF InvB
<1>21. FrameB(f) /\ (Sharing(f) => f.d \in Descriptors)
  BY <1>3, HereFrameB
<1> QED
  BY <1>4, <1>5, <1>16, <1>18, <1>19, <1>20, <1>21, ContB

\* The frame that a run begins with.
LEMMA BodyB ==
  ASSUME NEW l, NEW path, NEW g, g = Body(l, path)
  PROVE  FrameB(g) /\ ~Sharing(g) /\ g.pc \notin Calling
<1>1. g.pc \in {"get", "load", "with"} /\ g.res = FALSE
  BY DEF Body, Frame
<1> QED
  BY <1>1 DEF FrameB, Says, Calling, Sharing, Early, Storing

\* InvB when a run of a section begins.
LEMMA RunB ==
  ASSUME InvA, InvB, Rely({}), HeapB', x' = x, made' = made, calls' = calls, stores' = stores,
         NEW t \in Threads, NEW w, NEW h, NEW f, NEW s, NEW n, Here(t, w, h, f, s, n),
         Sharing(f), f.pc \notin Calling,
         NEW p, p \in {"ran", "helped"}, NEW e \in Descriptors, desc[e].lock \in Locks,
         RunUnder(t, e, [f EXCEPT !.pc = p])
  PROVE  InvB'
<1>1. f = Top(t) /\ f \in Frames /\ stack[t] # <<>> /\ TypeOK
  BY DEF Here, InvA
<1>2. PICK k : k = lg[t]
  OBVIOUS
<1>3. k \in Log
  BY <1>1, <1>2 DEF TypeOK
<1>4. PICK b : b = [f EXCEPT !.pc = p]
  OBVIOUS
<1>5. PICK c : c = [b EXCEPT !.lg = k]
  OBVIOUS
<1>6. b \in Frames /\ b.pc = p /\ b.d = f.d /\ b.res = f.res
  BY <1>1, <1>4, PcNames DEF Frames
<1>7. c.pc = p /\ c.d = f.d /\ c.res = f.res
  BY <1>5, <1>6 DEF Frames
<1>8. PICK g : g = Body(desc[e].lock, desc[e].path)
  OBVIOUS
<1>9. g \in Frames
  BY <1>1, <1>8, BodyType, DescType
<1>10. Pushes(t, c, g)
  <2>1. CallThen(t, g, b)
    BY <1>4, <1>8 DEF RunUnder
  <2> QED
    BY <1>1, <1>2, <1>5, <1>6, <1>9, <2>1, PushIs
<1>11. \A u \in Threads \ {t} : lg'[u] = lg[u]
  <2>1. lg' = [lg EXCEPT ![t] = LogOf(e)]
    BY DEF RunUnder
  <2> QED
    BY <1>1, <2>1, LogKnown, LgSet
<1>12. FrameB(f) /\ f.d \in Descriptors
  BY HereFrameB
<1>13. Sharing(c) /\ c.pc \notin Says \cup {"mark"} /\ c.pc \in Calling
  BY <1>7 DEF Sharing, Early, Storing, Says, Calling
<1>14. FrameB(c)
  <2>1. CallId(c.d) \in made => Held(c.d)
    BY <1>7, <1>12 DEF FrameB
  <2> QED
    BY <1>13, <2>1 DEF FrameB
<1>15. FrameB(g) /\ ~Sharing(g) /\ g.pc \notin Calling
  BY <1>8, BodyB
<1> QED
  BY <1>1, <1>7, <1>10, <1>11, <1>12, <1>13, <1>14, <1>15, PushB

\* InvB when a run begins and nothing shared changes.
LEMMA SameRunB ==
  ASSUME InvA, InvB, UNCHANGED <<heapVars, poolVars, histVars>>,
         NEW t \in Threads, NEW w, NEW h, NEW f, NEW s, NEW n, Here(t, w, h, f, s, n),
         Sharing(f), f.pc \notin Calling,
         NEW p, p \in {"ran", "helped"}, NEW e \in Descriptors, desc[e].lock \in Locks,
         RunUnder(t, e, [f EXCEPT !.pc = p])
  PROVE  InvB'
<1>1. HeapSame /\ x' = x /\ made' = made /\ calls' = calls /\ stores' = stores
  BY DEF HeapSame, heapVars, poolVars, histVars
<1>2. HeapB' /\ Rely({})
  BY <1>1, QuietHeapB DEF InvB
<1> QED
  BY <1>1, <1>2, RunB

\* try_lock runs its section.
LEMMA TryCheckRunsB ==
  ASSUME InvA, InvB, NEW t \in Threads, TryCheck(t), TookLock(Top(t))
  PROVE  InvB'
<1>1. PICK h, f, s, n : Here(t, "check", h, f, s, n)
  BY HereIs DEF TryCheck
<1>2. f = Top(t) /\ f.pc = "check"
  BY <1>1 DEF Here
<1>3. RunUnder(t, f.d, [f EXCEPT !.pc = "ran"]) /\ UNCHANGED <<heapVars, poolVars, histVars>>
  BY <1>2 DEF TryCheck
<1>4. Sharing(f) /\ f.pc \notin Calling /\ f.pc \notin Inherited
  BY <1>2 DEF Sharing, Early, Storing, Calling, Inherited
<1>5. PICK e : e = f.d
  OBVIOUS
<1>6. e \in Descriptors /\ desc[e].lock \in Locks
  BY <1>1, <1>4, <1>5, OwnId
<1> QED
  BY <1>1, <1>3, <1>4, <1>5, <1>6, SameRunB

\* with_lock runs its section.
LEMMA WithTestRunsB ==
  ASSUME InvA, InvB, NEW t \in Threads, WithTest(t), desc[Top(t).d].done \/ Top(t).cur = Top(t).d
  PROVE  InvB'
<1>1. PICK h, f, s, n : Here(t, "test", h, f, s, n)
  BY HereIs DEF WithTest
<1>2. f = Top(t) /\ f.pc = "test"
  BY <1>1 DEF Here
<1>3. RunUnder(t, f.d, [f EXCEPT !.pc = "ran"]) /\ UNCHANGED <<heapVars, poolVars, histVars>>
  BY <1>2 DEF WithTest
<1>4. Sharing(f) /\ f.pc \notin Calling /\ f.pc \notin Inherited
  BY <1>2 DEF Sharing, Early, Storing, Calling, Inherited
<1>5. PICK e : e = f.d
  OBVIOUS
<1>6. e \in Descriptors /\ desc[e].lock \in Locks
  BY <1>1, <1>4, <1>5, OwnId
<1> QED
  BY <1>1, <1>3, <1>4, <1>5, <1>6, SameRunB

\* A helper runs the section.
LEMMA HelpCheckRunsB ==
  ASSUME InvA, InvB, NEW t \in Threads, HelpCheck(t), lck[Top(t).lock] = Top(t).cur
  PROVE  InvB'
<1>1. PICK h, f, s, n : Here(t, "help_check", h, f, s, n)
  BY HereIs DEF HelpCheck
<1>2. f = Top(t) /\ f.pc = "help_check" /\ f \in Frames /\ FrameCur(t, f, s)
  BY <1>1 DEF Here
<1>3. PICK e : e = f.cur
  OBVIOUS
<1>4. e \in Descriptors /\ f.lock \in Locks
  BY <1>2, <1>3, FrameType DEF FrameCur, HelpIn
<1>5. desc[e].lock = f.lock
  BY <1>2, <1>3, <1>4, LockWordOK
<1>6. RunUnder(t, e, [f EXCEPT !.pc = "helped"]) /\ UNCHANGED <<heapVars, poolVars, histVars>>
  BY <1>2, <1>3 DEF HelpCheck
<1>7. Sharing(f) /\ f.pc \notin Calling
  BY <1>2 DEF Sharing, Early, Storing, Calling
<1>8. desc[e].lock \in Locks
  BY <1>4, <1>5
<1> QED
  BY <1>1, <1>4, <1>6, <1>7, <1>8, SameRunB

\* try_lock enters a lock of its own again.
LEMMA TrySelfEntersB ==
  ASSUME InvA, InvB, NEW t \in Threads, TrySelf(t), OwnLock(t, Top(t).cur)
  PROVE  InvB'
<1>1. PICK h, f, s, n : Here(t, "self", h, f, s, n)
  BY HereIs DEF TrySelf
<1>2. f = Top(t) /\ f.pc = "self" /\ f \in Frames /\ stack[t] # <<>> /\ TypeOK
  BY <1>1 DEF Here, InvA
<1>3. PICK k : k = lg[t]
  OBVIOUS
<1>4. PICK b : b = [f EXCEPT !.pc = "reentered"]
  OBVIOUS
<1>5. PICK c : c = [b EXCEPT !.lg = k]
  OBVIOUS
<1>6. b \in Frames /\ b.pc = "reentered"
  BY <1>2, <1>4, PcNames DEF Frames
<1>7. c.pc = "reentered"
  BY <1>5, <1>6 DEF Frames
<1>8. PICK g : g = Body(f.lock, f.path)
  OBVIOUS
<1>9. g \in Frames
  BY <1>2, <1>8, BodyType, FrameType
<1>10. Pushes(t, c, g)
  <2>1. CallThen(t, g, b)
    BY <1>2, <1>4, <1>8 DEF TrySelf
  <2> QED
    BY <1>2, <1>3, <1>5, <1>6, <1>9, <2>1, PushIs
<1>11. ~Sharing(f) /\ ~Sharing(c)
  BY <1>2, <1>7 DEF Sharing, Early
<1>12. FrameB(c)
  BY <1>7, <1>11 DEF FrameB, Says, Calling
<1>13. FrameB(g) /\ ~Sharing(g) /\ g.pc \notin Calling
  BY <1>8, BodyB
<1>14. UNCHANGED <<heapVars, poolVars, lg, histVars>>
  BY DEF TrySelf, localVars
<1>15. Rely({}) /\ HeapB' /\ x' = x /\ made' = made /\ calls' = calls /\ stores' = stores
  BY <1>14, PlainSame
<1>16. \A u \in Threads \ {t} : lg'[u] = lg[u]
  BY <1>14
<1> QED
  BY <1>2, <1>10, <1>11, <1>12, <1>13, <1>15, <1>16, PushB

\* The end of a path has the same last lock.
LEMMA RestTarget ==
  ASSUME NEW p \in Seq(Locks), NEW q \in Seq(Locks), IsRest(q, p), Len(q) < Len(p),
         NEW l, l = p[Len(p) - Len(q)]
  PROVE  (IF Len(q) = 0 THEN l ELSE Goal(q)) = Goal(p)
<1>1. PICK m \in Nat : m = Len(p)
  OBVIOUS
<1>2. PICK k \in Nat : k = Len(q)
  OBVIOUS
<1>3. CASE k = 0
  BY <1>1, <1>2, <1>3 DEF Goal
<1>4. CASE k # 0
  <2>1. k \in 1 .. Len(q) /\ k + m - k = m
    BY <1>1, <1>2, <1>4
  <2>2. q[k] = p[m]
    BY <1>1, <1>2, <2>1 DEF IsRest
  <2> QED
    BY <1>1, <1>2, <1>4, <2>2 DEF Goal
<1> QED
  BY <1>3, <1>4

\* A nested section stores to the same atomic for the same call.
LEMMA ChildSame ==
  ASSUME InvA, NEW s \in Descriptors, NEW i \in Levels(s), NEW e, ChildOK(s, i, e)
  PROVE  Target(e) = Target(s) /\ CallId(e) = CallId(s)
<1>1. e \in Descriptors /\ CallId(e) = CallId(s)
  BY DEF ChildOK, CallId
<1>2. desc[s].path \in Seq(Locks) /\ desc[e].path \in Seq(Locks) /\ Size(s) \in Nat /\ Size(e) \in Nat
      /\ Size(s) = Len(desc[s].path) /\ Size(e) = Len(desc[e].path)
  BY <1>1, DescType DEF Size, InvA
<1>3. i \in Nat /\ i < Size(s) /\ Size(e) = Size(s) - i - 1
  BY <1>2 DEF Levels, ChildOK
<1>4. Size(e) < Size(s) /\ Size(s) - Size(e) = i + 1 /\ Size(s) # 0
  <2>1. PICK a, b \in Nat : a = Size(s) /\ b = Size(e)
    BY <1>2
  <2>2. i < a /\ b = a - i - 1 /\ i \in Nat
    BY <1>3, <2>1
  <2>3. b < a /\ a - b = i + 1 /\ a # 0
    BY <2>1, <2>2
  <2> QED
    BY <2>1, <2>3
<1>5. IsRest(desc[e].path, desc[s].path) /\ desc[e].lock = desc[s].path[i + 1]
  BY DEF ChildOK
<1>6. (IF Len(desc[e].path) = 0 THEN desc[e].lock ELSE Goal(desc[e].path)) = Goal(desc[s].path)
  BY <1>2, <1>4, <1>5, RestTarget
<1>7. Target(s) = Goal(desc[s].path)
  BY <1>4 DEF Target
<1>8. Target(e) = IF Len(desc[e].path) = 0 THEN desc[e].lock ELSE Goal(desc[e].path)
  BY DEF Target, Size
<1> QED
  BY <1>1, <1>6, <1>7, <1>8

\* The same, for the descriptor that the log names.
LEMMA ChildIs ==
  ASSUME InvA, NEW s \in Descriptors, NEW e, HasChild(s, e)
  PROVE  e \in Descriptors /\ Target(e) = Target(s) /\ CallId(e) = CallId(s)
<1>1. PICK i \in Levels(s) : Forks(s, i) /\ ChildAt(s, i) = Word(e)
  BY DEF HasChild
<1>2. ChildAt(s, i)[1] = "word" /\ ChildAt(s, i)[2] = e
  BY <1>1, EntryFacts
<1>3. ChildOK(s, i, e)
  BY <1>1, <1>2, EntryFacts DEF InvA, HeapOK, ChildrenOK
<1> QED
  BY <1>3, ChildSame DEF ChildOK

\* The outermost frame of a thread works for its last call.
LEMMA RootIn ==
  ASSUME InvA, NEW u \in Threads, stack[u] # <<>>, NEW f, f = stack[u][1]
  PROVE  /\ 1 \in Depth(u) /\ f \in Frames /\ Sec(u, 1) = None /\ FrameDesc(u, f, None)
         /\ Sharing(f) => /\ f.d \in Descriptors /\ CallId(f.d) = ThisCall(u) /\ desc[f.d].thread = u
                          /\ callOf[f.d] = Len(calls[u]) /\ Target(f.d) = Goal(calls[u][1])
<1>1. 1 \in Depth(u) /\ Sec(u, 1) = None
  BY HeightType DEF Depth, InvA, StackOK, SectionsNest
<1>2. f \in Frames /\ FrameDesc(u, f, None) /\ \E n : FrameShape(u, f, None, n)
  BY <1>1, FrameFacts DEF FrameOK
<1>3. ASSUME Sharing(f)
      PROVE  /\ f.d \in Descriptors /\ CallId(f.d) = ThisCall(u) /\ desc[f.d].thread = u
             /\ callOf[f.d] = Len(calls[u]) /\ Target(f.d) = Goal(calls[u][1])
  <2>1. HasDesc(f) /\ f.pc \notin Storing
    BY <1>3 DEF Sharing, HasDesc
  <2>2. PICK p : p = calls[u][1]
    OBVIOUS
  <2>3. /\ f.d \in Descriptors /\ desc[f.d].lock = f.lock /\ Size(f.d) = Len(f.path)
        /\ IsRest(desc[f.d].path, p) /\ desc[f.d].thread = u /\ callOf[f.d] = Len(calls[u])
    BY <1>2, <2>1, <2>2 DEF FrameDesc, PathIn, IdIn, NumberIn
  <2>4. Len(f.path) < Len(p) /\ f.lock = p[Len(p) - Len(f.path)]
    BY <1>2, <2>1, <2>2 DEF FrameShape, LockShape, PathIn
  <2>5. p \in Seq(Locks)
    <3>1. calls[u] \in Seq(Seq(Locks)) /\ Len(calls[u]) > 0
      BY DEF InvA, TypeOK, StackOK, InCall
    <3> QED
      BY <2>2, <3>1
  <2>6. desc[f.d].path \in Seq(Locks) /\ Size(f.d) = Len(desc[f.d].path)
    BY <2>3, DescType DEF InvA, Size
  <2>7. (IF Len(desc[f.d].path) = 0 THEN desc[f.d].lock ELSE Goal(desc[f.d].path)) = Goal(p)
    BY <2>3, <2>4, <2>5, <2>6, RestTarget
  <2>8. Target(f.d) = Goal(calls[u][1])
    BY <2>2, <2>6, <2>7 DEF Target
  <2> QED
    BY <2>3, <2>8 DEF CallId, ThisCall
<1> QED
  BY <1>1, <1>2, <1>3

\* A descriptor that takes its lock is of a call that has not passed.
LEMMA InstallFirst ==
  ASSUME InvA, InvB, NEW l, NEW d \in Descriptors, InstallOK(l, d)
  PROVE  ~Passed(CallId(d)) /\ Current(d)
<1>1. ~Held(d) /\ ~Over(d) /\ Rooted(d)
  BY DEF InstallOK
<1>2. ASSUME NEW s \in Descriptors, HasChild(s, d), Installed(s)
      PROVE  ~Passed(CallId(d)) /\ Current(d)
  <2>1. Target(d) = Target(s) /\ CallId(d) = CallId(s)
    BY <1>2, ChildIs
  <2>2. InstalledB(s)
    BY DEF InvB, HeapB
  <2>3. Current(s) /\ (Passed(CallId(s)) => Advanced(s))
    BY <1>2, <2>2 DEF InstalledB
  <2>4. ~Advanced(s)
    <3>1. TypeOK /\ PathsFit
      BY DEF InvA, HeapOK
    <3>2. ~ChildDone(s) /\ ~Base(s) /\ \A y : HasChild(s, y) => y = d
      BY <1>2, <3>1, OneChild
    <3>3. ~Installed(d)
      BY <1>1 DEF Held
    <3> QED
      BY <1>1, <3>2, <3>3 DEF Advanced, Stored
  <2>5. desc[d].thread = desc[s].thread /\ callOf[d] = callOf[s]
    BY <2>1 DEF CallId
  <2> QED
    BY <2>1, <2>3, <2>4, <2>5 DEF Current
<1>3. ASSUME NEW u \in Threads, u = desc[d].thread, stack[u] # <<>>, NEW f, f = stack[u][1], Sharing(f), f.d = d
      PROVE  ~Passed(CallId(d)) /\ Current(d)
  <2>1. /\ 1 \in Depth(u) /\ CallId(d) = ThisCall(u) /\ callOf[d] = Len(calls[u])
        /\ Target(d) = Goal(calls[u][1])
    BY <1>3, RootIn
  <2>2. FrameB(f) /\ First(u, f)
    BY <1>3, <2>1 DEF InvB, StackB, FramesB, RootFirst
  <2>3. CallId(d) \notin made
    BY <1>1, <1>3, <2>2 DEF FrameB
  <2>4. ASSUME NEW e \in Descriptors, desc[e].done, ~Installed(e), CallId(e) = CallId(d) PROVE FALSE
    <3>1. e = d \/ Held(d)
      BY <1>3, <2>1, <2>2, <2>4 DEF First
    <3> QED
      BY <1>1, <2>4, <3>1 DEF Held
  <2>5. ~Passed(CallId(d))
    BY <2>3, <2>4 DEF Passed
  <2> QED
    BY <1>3, <2>1, <2>5 DEF Current
<1> QED
  BY <1>1, <1>2, <1>3 DEF Rooted

\* The compare-and-swap of try_lock takes the lock.
LEMMA TryCasTakesB ==
  ASSUME InvA, InvB, NEW t \in Threads, TryCas(t), lck[Top(t).lock] = Top(t).cur
  PROVE  InvB'
<1>1. PICK h, f, s, n : Here(t, "cas", h, f, s, n)
  BY HereIs DEF TryCas
<1>2. f = Top(t) /\ f.pc = "cas" /\ f \in Frames
  BY <1>1 DEF Here
<1>3. PICK l : l = f.lock
  OBVIOUS
<1>4. PICK d : d = f.d
  OBVIOUS
<1>5. l \in Locks /\ d \in Descriptors /\ lck[l] \in Nat /\ InstallOK(l, d)
  BY <1>1, <1>2, <1>3, <1>4, InstallReady
<1>6. Install(l, d)
  BY <1>2, <1>3, <1>4, <1>5 DEF TryCas, Install, poolVars, histVars
<1>7. PICK g : g = [f EXCEPT !.pc = "check"]
  OBVIOUS
<1>8. g \in Frames /\ g.pc = "check" /\ g.d = f.d /\ g.res = f.res
  BY <1>2, <1>7, PcNames DEF Frames
<1>9. Continue(t, g)
  BY <1>2, <1>7 DEF TryCas, Goto
<1>10. x' = x /\ calls' = calls /\ stores' = stores /\ made' = made /\ lg' = lg
  BY DEF TryCas, localVars, histVars
<1>11. ~Passed(CallId(d)) /\ Current(d)
  BY <1>5, InstallFirst
<1>12. HeapB'
  BY <1>5, <1>6, <1>10, <1>11, InstallHeapB DEF InvB
<1>13. Rely({})
  BY <1>5, <1>6, InstallRely
<1>14. /\ f.pc \notin Says \cup Calling \cup {"help_clear"}
       /\ g.pc \notin Says \cup {"mark"} \cup Calling
       /\ Sharing(g) <=> Sharing(f)
  BY <1>2, <1>8 DEF Says, Calling, Sharing, Early, Storing
<1>15. \A u \in Threads \ {t} : lg'[u] = lg[u]
  BY <1>10
<1> QED
  BY <1>1, <1>8, <1>9, <1>10, <1>12, <1>13, <1>14, <1>15, MovesB

\* The compare-and-swap of with_lock takes the lock.
LEMMA WithCasTakesB ==
  ASSUME InvA, InvB, NEW t \in Threads, WithCas(t), lck[Top(t).lock] = Top(t).cur
  PROVE  InvB'
<1>1. PICK h, f, s, n : Here(t, "take", h, f, s, n)
  BY HereIs DEF WithCas
<1>2. f = Top(t) /\ f.pc = "take" /\ f \in Frames
  BY <1>1 DEF Here
<1>3. PICK l : l = f.lock
  OBVIOUS
<1>4. PICK d : d = f.d
  OBVIOUS
<1>5. l \in Locks /\ d \in Descriptors /\ lck[l] \in Nat /\ InstallOK(l, d) /\ Sharing(f)
  BY <1>1, <1>2, <1>3, <1>4, InstallReady
<1>6. Install(l, d) /\ RunUnder(t, d, [f EXCEPT !.pc = "ran"])
  BY <1>2, <1>3, <1>4, <1>5 DEF WithCas, Install, poolVars, histVars
<1>7. x' = x /\ calls' = calls /\ stores' = stores /\ made' = made
  BY <1>6 DEF WithCas, histVars
<1>8. ~Passed(CallId(d)) /\ Current(d)
  BY <1>5, InstallFirst
<1>9. HeapB'
  BY <1>5, <1>6, <1>7, <1>8, InstallHeapB DEF InvB
<1>10. Rely({})
  BY <1>5, <1>6, InstallRely
<1>11. f.pc \notin Calling /\ desc[d].lock \in Locks
  BY <1>2, <1>5 DEF Calling, InstallOK
<1> QED
  BY <1>1, <1>5, <1>6, <1>7, <1>9, <1>10, <1>11, RunB

\* To clear the lock of a descriptor that is done keeps HeapB.
LEMMA ClearB ==
  ASSUME InvA, InvB, NEW l \in Locks, NEW d \in Descriptors, desc[d].done, Clear(l, d),
         UNCHANGED <<x, desc, log, ext, poolVars, histVars>>
  PROVE  HeapB' /\ Rely({}) /\ x' = x /\ calls' = calls /\ stores' = stores /\ made' = made
<1>1. x' = x /\ calls' = calls /\ stores' = stores /\ made' = made
  BY DEF histVars
<1>2. CASE lck[l] = d
  <2>1. Release(l, d)
    BY <1>2 DEF Clear, Release, poolVars, histVars
  <2> QED
    BY <1>1, <2>1, ReleaseHeapB, ReleaseRely DEF InvB
<1>3. CASE lck[l] # d
  <2>1. HeapSame
    BY <1>3 DEF Clear, HeapSame, poolVars, histVars
  <2> QED
    BY <1>1, <2>1, QuietHeapB DEF InvB
<1> QED
  BY <1>2, <1>3

\* try_lock releases its lock.
LEMMA TryClearB ==
  ASSUME InvA, InvB, NEW t \in Threads, TryClear(t)
  PROVE  InvB'
<1>1. PICK h, f, s, n : Here(t, "clear", h, f, s, n)
  BY HereIs DEF TryClear
<1>2. f = Top(t) /\ f.pc = "clear" /\ f \in Frames /\ FrameDesc(t, f, s) /\ FrameCount(f)
  BY <1>1 DEF Here
<1>3. PICK l : l = f.lock
  OBVIOUS
<1>4. PICK d : d = f.d
  OBVIOUS
<1>5. l \in Locks /\ d \in Descriptors /\ desc[d].done /\ Sharing(f)
  BY <1>2, <1>3, <1>4, FrameType, HasD DEF FrameCount, Storing, Sharing, Early
<1>6. UNCHANGED <<x, desc, log, ext, poolVars, localVars, histVars>> /\ Clear(l, d)
  BY <1>2, <1>3, <1>4 DEF TryClear
<1>7. PICK g : g = [f EXCEPT !.pc = "result"]
  OBVIOUS
<1>8. g \in Frames /\ g.pc = "result" /\ g.d = f.d /\ g.res = f.res
  BY <1>2, <1>7, PcNames DEF Frames
<1>9. Continue(t, g)
  BY <1>2, <1>7 DEF TryClear, Goto
<1>10. HeapB' /\ Rely({}) /\ x' = x /\ calls' = calls /\ stores' = stores /\ made' = made
  BY <1>5, <1>6, ClearB
<1>11. \A u \in Threads \ {t} : lg'[u] = lg[u]
  BY <1>6 DEF localVars
<1>12. FrameB(g) /\ Sharing(g) /\ g.pc \notin Calling
  <2>1. FrameB(f)
    BY <1>1, HereFrameB
  <2>2. f.pc \in Says /\ g.pc \in Says /\ g.pc # "mark" /\ Sharing(g) /\ g.pc \notin Calling
    BY <1>2, <1>8 DEF Says, Sharing, Early, Storing, Calling
  <2>3. f.res = (CallId(f.d) \in made) /\ (CallId(f.d) \in made => Held(f.d))
    BY <1>5, <2>1, <2>2 DEF FrameB
  <2>4. g.res = (CallId(g.d) \in made) /\ (CallId(g.d) \in made => Held(g.d))
    BY <1>8, <2>3
  <2> QED
    BY <2>2, <2>4 DEF FrameB
<1> QED
  BY <1>1, <1>4, <1>5, <1>8, <1>9, <1>10, <1>11, <1>12, GoB

\* A helper releases the lock.
LEMMA HelpClearB ==
  ASSUME InvA, InvB, NEW t \in Threads, HelpClear(t)
  PROVE  InvB'
<1>1. PICK h, f, s, n : Here(t, "help_clear", h, f, s, n)
  BY HereIs DEF HelpClear
<1>2. f = Top(t) /\ f.pc = "help_clear" /\ f \in Frames /\ FrameCur(t, f, s) /\ f.pc \in HelpIn
  BY <1>1 DEF Here, HelpIn
<1>3. PICK l : l = f.lock
  OBVIOUS
<1>4. PICK d : d = f.cur
  OBVIOUS
<1>5. l \in Locks /\ d \in Descriptors /\ desc[d].done
  BY <1>2, <1>3, <1>4, FrameType DEF FrameCur
<1>6. StopHelping(t, f) /\ Clear(l, d) /\ UNCHANGED <<x, desc, log, ext, poolVars, lg, histVars>>
  BY <1>2, <1>3, <1>4 DEF HelpClear
<1>7. HeapB' /\ Rely({}) /\ x' = x /\ calls' = calls /\ stores' = stores /\ made' = made
  BY <1>5, <1>6, ClearB
<1>8. lg' = lg
  BY <1>6
<1> QED
  BY <1>1, <1>2, <1>6, <1>7, <1>8, StopHelpingB

\* To commit a value to the log keeps HeapB.
LEMMA LogsB ==
  ASSUME InvA, HeapB, NEW s \in Descriptors, NEW j \in 1 .. LogLen, NEW v,
         UNCHANGED <<lck, x, desc, ext, poolVars, prog, calls, callOf, made>>,
         \/ log[s][j] = Unset /\ log' = [log EXCEPT ![s][j] = v] /\ FillB(s, j, v)
         \/ log' = log
  PROVE  HeapB' /\ Rely({})
<1>1. x' = x /\ made' = made /\ calls' = calls
  OBVIOUS
<1>2. CASE log' = log
  <2>1. HeapSame
    BY <1>2 DEF HeapSame, poolVars
  <2> QED
    BY <1>1, <2>1, QuietHeapB
<1>3. CASE log[s][j] = Unset /\ log' = [log EXCEPT ![s][j] = v] /\ FillB(s, j, v)
  <2>1. Fill(s, j, v)
    BY <1>3 DEF Fill, poolVars
  <2>2. HeapB'
    BY <1>1, <1>3, <2>1, FillHeapB
  <2> QED
    BY <2>1, <2>2, FillRely
<1> QED
  BY <1>2, <1>3

\* try_lock loads the lock outside of any section.
LEMMA TryLoadOutsideB ==
  ASSUME InvA, InvB, NEW t \in Threads, TryLoad(t), NEW h, NEW f, NEW n, Here(t, "load", h, f, None, n)
  PROVE  InvB'
<1>1. /\ f = Top(t) /\ f.pc = "load" /\ f \in Frames /\ stack[t] # <<>> /\ TypeOK /\ f.lock \in Locks
  BY FrameType DEF Here, InvA
<1>2. PICK s : s = None
  OBVIOUS
<1>3. Here(t, "load", h, f, s, n)
  BY <1>2
<1>4. lg[t].d = None
  BY <1>1, LgHere
<1>5. PICK c : c = lck[f.lock]
  OBVIOUS
<1>6. c \in Nat \cup Descriptors
  BY <1>1, <1>5, LockWordOK
<1>7. log' = log /\ lg' = lg /\ Committed(t, c) = Word(c) /\ Committed(t, c)[2] = c
  BY <1>1, <1>4, <1>5, CommitNone, EntryFacts DEF TryLoad
<1>8. PICK g : g = [f EXCEPT !.cur = c, !.pc = "self"]
  OBVIOUS
<1>9. g \in Frames /\ g.pc = "self" /\ g.d = f.d /\ g.res = f.res
  BY <1>1, <1>6, <1>8, PcNames DEF Frames
<1>10. Continue(t, g)
  BY <1>1, <1>5, <1>7, <1>8 DEF TryLoad
<1>11. HeapSame /\ x' = x /\ made' = made /\ calls' = calls /\ stores' = stores
  BY <1>7 DEF TryLoad, HeapSame, poolVars, histVars
<1>12. HeapB' /\ Rely({})
  BY <1>11, QuietHeapB DEF InvB
<1>13. f.pc \notin Says \cup Calling \cup {"help_clear"} /\ g.pc \notin Says \cup {"mark"} \cup Calling
       /\ (Sharing(g) <=> Sharing(f))
  BY <1>1, <1>9 DEF Says, Calling, Sharing, Early
<1>14. \A u \in Threads \ {t} : lg'[u] = lg[u]
  BY <1>7
<1> QED
  BY <1>3, <1>9, <1>10, <1>11, <1>12, <1>13, <1>14, MovesB

\* try_lock loads the lock inside of a section and commits the value.
LEMMA TryLoadInsideB ==
  ASSUME InvA, InvB, NEW t \in Threads, TryLoad(t), NEW h, NEW f, NEW s, NEW n, Here(t, "load", h, f, s, n), s # None
  PROVE  InvB'
<1>1. /\ f = Top(t) /\ f.pc = "load" /\ f \in Frames /\ FrameShape(t, f, s, n)
      /\ stack[t] # <<>> /\ TypeOK /\ f.pc \notin Storing /\ f.lock \in Locks
  BY FrameType DEF Here, InvA, Storing
<1>2. PICK i : i = Level(f, s)
  OBVIOUS
<1>3. /\ s \in Descriptors /\ LockShape(t, f, s) /\ InsideShape(f, s, n, i) /\ i \in Levels(s) /\ i \in Nat
      /\ i + 1 \in 1 .. LogLen /\ OwnUpTo(s, i) /\ f.lock = desc[s].path[i + 1] /\ Held(s)
      /\ i < Size(s) /\ Size(s) \in Nat
  BY <1>1, <1>2, PlaceHere
<1>4. n = i /\ ~prog.with
  BY <1>1, <1>3 DEF InsideShape, LockShape, TryOnly
<1>5. PICK j \in 1 .. LogLen : j = i + 1
  BY <1>3
<1>6. lg[t].d = s /\ lg[t].n = n
  BY <1>1, LgHere
<1>7. PICK c : c = lck[f.lock]
  OBVIOUS
<1>8. c \in Nat \cup Descriptors
  BY <1>1, <1>7, LockWordOK
<1>9. /\ ~AtEnd(t) /\ NextLg(t)
      /\ \/ log[s][j] = Unset /\ log' = [log EXCEPT ![s][j] = Word(c)] /\ Committed(t, c) = Word(c)
         \/ log[s][j] # Unset /\ log' = log /\ Committed(t, c) = log[s][j]
  <2>1. Commit(t, c)
    BY <1>1, <1>7 DEF TryLoad
  <2> QED
    BY <1>1, <1>3, <1>4, <1>5, <1>6, <2>1, CommitIs
<1>10. \A u \in Threads \ {t} : lg'[u] = lg[u]
  <2>1. j = n + 1 /\ f.pc \in Extending /\ ~AtEnd(t) /\ NextLg(t)
    BY <1>1, <1>4, <1>5, <1>9 DEF Extending
  <2> QED
    BY <1>5, <2>1, LgNext
<1>11. PICK v : v = Committed(t, c)[2]
  OBVIOUS
<1>12. v \in Nat \cup Descriptors
  <2>1. LoadEntry(s, i)
    BY <1>3, <1>4 DEF InvA, HeapOK, LoadsOK
  <2>2. log[s][j] # Unset => log[s][j][1] = "word"
    BY <1>5, <2>1 DEF LoadEntry
  <2>3. log[s][j] \in Entries
    BY <1>1, <1>3, DescType
  <2>4. log[s][j] # Unset => v = log[s][j][2]
    BY <1>9, <1>11
  <2>5. log[s][j] = Unset => v = c
    BY <1>9, <1>11, EntryFacts
  <2> QED
    BY <1>8, <2>2, <2>3, <2>4, <2>5, EntryKinds
<1>13. PICK g : g = [f EXCEPT !.cur = v, !.pc = "self"]
  OBVIOUS
<1>14. g \in Frames /\ g.pc = "self" /\ g.d = f.d /\ g.res = f.res
  BY <1>1, <1>12, <1>13, PcNames DEF Frames
<1>15. Continue(t, g)
  BY <1>1, <1>7, <1>11, <1>13 DEF TryLoad
<1>16. UNCHANGED <<lck, x, desc, ext, poolVars, prog, calls, callOf, made>> /\ x' = x /\ made' = made
       /\ calls' = calls /\ stores' = stores
  BY DEF TryLoad, histVars
<1>17. FillB(s, j, Word(c))
  <2>1. PICK w : w = Word(c)
    OBVIOUS
  <2>2. w # Unset /\ ~IsDone(w)
    BY <2>1, EntryFacts
  <2>3. j # Size(s) + 1 /\ j # Size(s) + 2
    BY <1>3, <1>5
  <2>4. f.lock = desc[s].path[j]
    BY <1>3, <1>5
  <2>5. w = Word(lck[desc[s].path[j]])
    BY <1>7, <2>1, <2>4
  <2>6. FillB(s, j, w)
    BY <1>3, <2>2, <2>3, <2>5 DEF FillB
  <2> QED
    BY <2>1, <2>6
<1>18. HeapB' /\ Rely({})
  <2>1. \/ log[s][j] = Unset /\ log' = [log EXCEPT ![s][j] = Word(c)] /\ FillB(s, j, Word(c))
        \/ log' = log
    BY <1>9, <1>17
  <2> QED
    BY <1>3, <1>16, <2>1, LogsB DEF InvB
<1>19. f.pc \notin Says \cup Calling \cup {"help_clear"} /\ g.pc \notin Says \cup {"mark"} \cup Calling
       /\ (Sharing(g) <=> Sharing(f))
  BY <1>1, <1>14 DEF Says, Calling, Sharing, Early
<1> QED
  BY <1>10, <1>14, <1>15, <1>16, <1>18, <1>19, MovesB

\* try_lock loads the lock.
LEMMA TryLoadB ==
  ASSUME InvA, InvB, NEW t \in Threads, TryLoad(t)
  PROVE  InvB'
<1>1. PICK h, f, s, n : Here(t, "load", h, f, s, n)
  BY HereIs DEF TryLoad
<1> QED
  BY <1>1, TryLoadOutsideB, TryLoadInsideB

\* A store loads the tag and commits it.
LEMMA StoreGetB ==
  ASSUME InvA, InvB, NEW t \in Threads, StoreGet(t)
  PROVE  InvB'
<1>0. PICK h, f, s, n : Here(t, "get", h, f, s, n)
  BY HereIs DEF StoreGet
<1>1. /\ f = Top(t) /\ f.pc = "get" /\ f \in Frames /\ FrameShape(t, f, s, n)
      /\ stack[t] # <<>> /\ TypeOK /\ f.pc \in Storing /\ f.lock \in Locks
  BY <1>0, FrameType DEF Here, InvA, Storing
<1>2. s \in Descriptors /\ s # None /\ StoreShape(f, s, n) /\ Size(s) \in Nat /\ Size(s) + 1 \in 1 .. LogLen /\ Held(s)
  BY <1>0, <1>1, StoreSection
<1>4. n = Size(s) /\ Base(s) /\ f.lock = Target(s)
  BY <1>1, <1>2 DEF StoreShape
<1>5. PICK j \in 1 .. LogLen : j = Size(s) + 1
  BY <1>2
<1>6. lg[t].d = s /\ lg[t].n = n
  BY <1>0, <1>1, LgHere
<1>7. PICK c \in Nat : c = x[f.lock]
  BY <1>1 DEF TypeOK
<1>9. /\ ~AtEnd(t) /\ NextLg(t)
      /\ \/ log[s][j] = Unset /\ log' = [log EXCEPT ![s][j] = Word(c)] /\ Committed(t, c) = Word(c)
         \/ log[s][j] # Unset /\ log' = log /\ Committed(t, c) = log[s][j]
  <2>1. Commit(t, c)
    BY <1>1, <1>7 DEF StoreGet
  <2> QED
    BY <1>1, <1>2, <1>4, <1>5, <1>6, <2>1, CommitIs
<1>10. \A u \in Threads \ {t} : lg'[u] = lg[u]
  <2>1. j = n + 1 /\ f.pc \in Extending /\ ~AtEnd(t) /\ NextLg(t)
    BY <1>1, <1>4, <1>5, <1>9 DEF Extending
  <2> QED
    BY <1>0, <1>2, <1>5, <2>1, LgNext
<1>11. PICK v : v = Committed(t, c)[2]
  OBVIOUS
<1>12. v \in Nat
  <2>1. Value(s) = Unset \/ Value(s)[2] \in Nat
    BY <1>2, <1>4 DEF InvA, HeapOK, ValuesOK
  <2>2. log[s][j] # Unset => log[s][j][2] \in Nat
    BY <1>5, <2>1 DEF Value
  <2>3. log[s][j] # Unset => v = log[s][j][2]
    BY <1>9, <1>11
  <2>4. log[s][j] = Unset => v = c
    BY <1>9, <1>11, EntryFacts
  <2> QED
    BY <1>7, <2>2, <2>3, <2>4
<1>13. PICK g : g = [f EXCEPT !.cur = v, !.pc = "skip"]
  OBVIOUS
<1>14. g \in Frames /\ g.pc = "skip" /\ g.d = f.d /\ g.res = f.res
  BY <1>1, <1>12, <1>13, PcNames DEF Frames
<1>15. Continue(t, g)
  BY <1>1, <1>7, <1>11, <1>13 DEF StoreGet
<1>16. UNCHANGED <<lck, x, desc, ext, poolVars, prog, calls, callOf, made>> /\ x' = x /\ made' = made
       /\ calls' = calls /\ stores' = stores
  BY DEF StoreGet, histVars
<1>17. FillB(s, j, Word(c))
  <2>1. PICK w : w = Word(c)
    OBVIOUS
  <2>2. w # Unset /\ ~IsDone(w) /\ w[2] = c
    BY <2>1, EntryFacts
  <2>3. j # Size(s) + 2 /\ j - 1 \notin Levels(s)
    BY <1>2, <1>5 DEF Levels
  <2>5. w[2] = x[Target(s)] /\ Target(s) \in Locks
    BY <1>1, <1>4, <1>7, <2>2
  <2>6. FillB(s, j, w)
    BY <1>2, <2>2, <2>3, <2>5 DEF FillB
  <2> QED
    BY <2>1, <2>6
<1>18. HeapB' /\ Rely({})
  <2>1. \/ log[s][j] = Unset /\ log' = [log EXCEPT ![s][j] = Word(c)] /\ FillB(s, j, Word(c))
        \/ log' = log
    BY <1>9, <1>17
  <2> QED
    BY <1>2, <1>16, <2>1, LogsB DEF InvB
<1>19. f.pc \notin Says \cup Calling \cup {"help_clear"} /\ g.pc \notin Says \cup {"mark"} \cup Calling
       /\ (Sharing(g) <=> Sharing(f))
  BY <1>1, <1>14 DEF Says, Calling, Sharing, Storing
<1> QED
  BY <1>0, <1>10, <1>14, <1>15, <1>16, <1>18, <1>19, MovesB

\* Once the mark is set the store has been made.
LEMMA MarkedStored ==
  ASSUME InvA, HeapB, NEW s \in Descriptors, Base(s), Mark(s) # Unset
  PROVE  Stored(s) /\ CallId(s) \in made
  BY DEF HeapB, EntriesB, ValueAtMost

\* A store commits its mark.
LEMMA StoreMarkB ==
  ASSUME InvA, InvB, NEW t \in Threads, StoreMark(t)
  PROVE  InvB'
<1>0. PICK h, f, s, n : Here(t, "mark", h, f, s, n)
  BY HereIs DEF StoreMark
<1>1. /\ f = Top(t) /\ f.pc = "mark" /\ f \in Frames /\ FrameShape(t, f, s, n)
      /\ stack[t] # <<>> /\ TypeOK /\ f.pc \in Storing /\ f.lock \in Locks
  BY <1>0, FrameType DEF Here, InvA, Storing
<1>2. s \in Descriptors /\ s # None /\ StoreShape(f, s, n) /\ Size(s) \in Nat /\ Size(s) + 2 \in 1 .. LogLen /\ Held(s)
  BY <1>0, <1>1, StoreSection
<1>4. n = Size(s) + 2 /\ Base(s) /\ Value(s) = Word(f.cur) /\ f.lock = Target(s)
  BY <1>1, <1>2 DEF StoreShape
<1>5. PICK j \in 1 .. LogLen : j = Size(s) + 2
  BY <1>2
<1>6. lg[t].d = s /\ lg[t].n = n
  BY <1>0, <1>1, LgHere
<1>7. PICK w : w = Word(1)
  OBVIOUS
<1>8. w # Unset /\ ~IsDone(w) /\ Value(s) # Unset /\ Value(s)[2] = f.cur
  BY <1>4, <1>7, EntryFacts
<1>9. log' = [log EXCEPT ![s][j] = w]
  BY <1>4, <1>5, <1>6, <1>7 DEF StoreMark
<1>10. Stored(s) /\ CallId(s) \in made
  <2>1. FrameB(f)
    BY <1>0, HereFrameB
  <2>2. f.cur < x[f.lock]
    BY <1>1, <2>1 DEF FrameB
  <2>3. Stored(s)
    BY <1>4, <1>8, <2>2 DEF Stored
  <2> QED
    BY <1>2, <2>3 DEF InvB, HeapB, EntriesB
<1>11. FillB(s, j, w)
  <2>1. j # Size(s) + 1 /\ j - 1 \notin Levels(s)
    BY <1>2, <1>5 DEF Levels
  <2> QED
    BY <1>2, <1>8, <1>10, <2>1 DEF FillB
<1>12. UNCHANGED <<lck, x, desc, ext, poolVars, prog, calls, callOf, made>> /\ x' = x /\ made' = made
       /\ calls' = calls /\ lg' = lg
  BY DEF StoreMark, Return, localVars
<1>13. HeapB' /\ Rely({})
  <2>1. log[s][j] # Unset => log' = log
    <3>1. log[s][j] # Unset => log[s][j] = w
      BY <1>2, <1>4, <1>5, <1>7 DEF InvA, HeapOK, ValuesOK, Mark
    <3> QED
      BY <1>1, <1>2, <1>9, <3>1 DEF TypeOK
  <2> QED
    BY <1>2, <1>9, <1>11, <1>12, <2>1, LogsB DEF InvB
<1>14. Return(t, TRUE) /\ Pops(t, TRUE)
  BY <1>1, PopIs DEF StoreMark
<1>15. PICK r : r = TRUE
  OBVIOUS
<1>16. Return(t, r) /\ Pops(t, r) /\ r = (CallId(s) \in made)
  BY <1>10, <1>14, <1>15
<1>17. \A u \in Threads \ {t} : lg'[u] = lg[u]
  BY <1>12
<1>18. lg'[t].d = s
  BY <1>6, <1>12
<1> QED
  BY <1>0, <1>2, <1>12, <1>13, <1>16, <1>17, <1>18, PopB

\* A store that has been marked is not made again.
LEMMA StoreSkipB ==
  ASSUME InvA, InvB, NEW t \in Threads, StoreSkip(t)
  PROVE  InvB'
<1>0. PICK h, f, s, n : Here(t, "skip", h, f, s, n)
  BY HereIs DEF StoreSkip
<1>1. /\ f = Top(t) /\ f.pc = "skip" /\ f \in Frames /\ FrameShape(t, f, s, n)
      /\ stack[t] # <<>> /\ TypeOK /\ f.pc \in Storing /\ f.lock \in Locks
  BY <1>0, FrameType DEF Here, InvA, Storing
<1>2. s \in Descriptors /\ s # None /\ StoreShape(f, s, n) /\ Size(s) \in Nat /\ Size(s) + 2 \in 1 .. LogLen
  BY <1>0, <1>1, StoreSection
<1>3. n = Size(s) + 1 /\ Base(s)
  BY <1>1, <1>2 DEF StoreShape
<1>4. lg[t].d = s /\ lg[t].n = n
  BY <1>0, <1>1, LgHere
<1>5. /\ lg'[t].d = s /\ \A u \in Threads \ {t} : lg'[u] = lg[u]
  <2>1. PICK j \in 1 .. LogLen : j = n + 1
    BY <1>2, <1>3
  <2>2. NextLg(t) /\ ~AtEnd(t) /\ f.pc \in Extending
    BY <1>1 DEF StoreSkip, NextLg, Extending
  <2> QED
    BY <1>0, <1>2, <2>1, <2>2, LgNext
<1>6. CASE Entry(t) = Unset
  <2>1. PICK g : g = [f EXCEPT !.pc = "store"]
    OBVIOUS
  <2>2. g \in Frames /\ g.pc = "store" /\ g.d = f.d /\ g.res = f.res
    BY <1>1, <2>1, PcNames DEF Frames
  <2>3. Continue(t, g)
    BY <1>1, <1>6, <2>1 DEF StoreSkip, Goto
  <2>4. HeapSame /\ x' = x /\ made' = made /\ calls' = calls /\ stores' = stores
    BY <1>6 DEF StoreSkip, HeapSame, poolVars, heapVars, histVars
  <2>5. HeapB' /\ Rely({})
    BY <2>4, QuietHeapB DEF InvB
  <2>6. f.pc \notin Says \cup Calling \cup {"help_clear"} /\ g.pc \notin Says \cup {"mark"} \cup Calling
        /\ (Sharing(g) <=> Sharing(f))
    BY <1>1, <2>2 DEF Says, Calling, Sharing, Storing
  <2> QED
    BY <1>0, <1>5, <2>2, <2>3, <2>4, <2>5, <2>6, MovesB
<1>7. CASE Entry(t) # Unset
  <2>1. PICK r : r = TRUE
    OBVIOUS
  <2>2. Return(t, r) /\ Pops(t, r)
    BY <1>1, <1>7, <2>1, PopIs DEF StoreSkip
  <2>3. HeapSame /\ x' = x /\ made' = made /\ calls' = calls
    BY <1>7 DEF StoreSkip, Return, HeapSame, poolVars, heapVars
  <2>4. HeapB' /\ Rely({})
    BY <2>3, QuietHeapB DEF InvB
  <2>5. Entry(t) = log[s][Size(s) + 2]
    BY <1>2, <1>3, <1>4 DEF Entry
  <2>6. Mark(s) # Unset
    BY <1>7, <2>5 DEF Mark
  <2>7. r = (CallId(s) \in made)
    BY <1>2, <1>3, <2>1, <2>6, MarkedStored DEF InvB
  <2> QED
    BY <1>0, <1>2, <1>5, <2>2, <2>3, <2>4, <2>7, PopB
<1> QED
  BY <1>6, <1>7

\* A call has not stored while the section that waits for a nested one has
\* no descriptor for it.
LEMMA ForkOpen ==
  ASSUME InvA, HeapB, NEW s \in Descriptors, Held(s), NEW i, Forks(s, i), ChildAt(s, i) = Unset
  PROVE  CallId(s) \notin made
<1>1. TypeOK /\ PathsFit /\ i \in Levels(s)
  BY DEF InvA, HeapOK, Forks
<1>2. ~Base(s)
  BY <1>1, BaseNoFork
<1>3. \A q \in Levels(s) : Forks(s, q) => q = i
  BY <1>1, OneFork
<1>4. ~ChildDone(s)
  BY <1>3, EntryFacts DEF ChildDone
<1>5. \A e : ~HasChild(s, e)
  BY <1>3, EntryFacts DEF HasChild
<1>6. ~Settled(s) /\ ~Advanced(s)
  BY <1>2, <1>4, <1>5 DEF Settled, Advanced, Stored
<1>7. ~desc[s].done
  BY <1>6 DEF InvA, HeapOK, DoneSettled
<1>8. Installed(s)
  BY <1>7 DEF Held
<1>9. ~Passed(CallId(s))
  BY <1>6, <1>8 DEF HeapB, InstalledB
<1> QED
  BY <1>9 DEF Passed

\* A frame works for the call of the section that it runs under.
LEMMA CallIdHere ==
  ASSUME InvA, NEW t \in Threads, NEW w, NEW h, NEW f, NEW s, NEW n, Here(t, w, h, f, s, n),
         s # None, HasDesc(f)
  PROVE  f.d \in Descriptors /\ CallId(f.d) = CallId(s)
  BY DEF Here, FrameDesc, CallId, IdIn, NumberIn

\* The descriptor of this run is the one that is logged.
LEMMA TryCommitWinsB ==
  ASSUME InvA, InvB, NEW t \in Threads, TryCommit(t), Entry(t) = Unset
  PROVE  InvB'
<1>1. PICK h, f, s, n : Here(t, "commit", h, f, s, n)
  BY HereIs DEF TryCommit
<1>2. f = Top(t) /\ f.pc = "commit" /\ f \in Frames /\ TypeOK /\ stack[t] # <<>> /\ PathsFit /\ HeapB
  BY <1>1 DEF Here, InvA, HeapOK, InvB
<1>3. PICK i : i = Level(f, s)
  OBVIOUS
<1>4. /\ s \in Descriptors /\ s # None /\ f.d \in Descriptors /\ n = i + Off /\ f.pc \notin Storing
      /\ Forks(s, i) /\ ~Held(f.d)
  BY <1>1, <1>2, <1>3, CommitReady, Consts DEF Storing
<1>5. i \in Levels(s) /\ i \in Nat /\ i < Size(s) /\ Size(s) \in Nat /\ i + 1 + Off \in 1 .. LogLen /\ Held(s)
  BY <1>1, <1>3, <1>4, PlaceHere
<1>6. lg[t].d = s /\ lg[t].n = n
  BY <1>1, <1>2, LgHere
<1>7. PICK j \in 1 .. LogLen : j = i + 1 + Off
  BY <1>5
<1>8. j = n + 1
  BY <1>2, <1>4, <1>5, <1>7, ProgType
<1>9. PICK d : d = f.d
  OBVIOUS
<1>10. Commit(t, d) /\ UNCHANGED <<lck, x, desc, ext, poolVars, prog, calls, callOf, made>>
       /\ x' = x /\ made' = made /\ calls' = calls /\ stores' = stores
  BY <1>2, <1>9 DEF TryCommit, histVars
<1>11. log[s][j] = Unset
  BY <1>6, <1>8 DEF Entry
<1>12. ~AtEnd(t) /\ NextLg(t) /\ log' = [log EXCEPT ![s][j] = Word(d)]
  BY <1>2, <1>4, <1>6, <1>8, <1>10, <1>11, CommitIs
<1>13. \A u \in Threads \ {t} : lg'[u] = lg[u]
  <2>1. f.pc \in Extending
    BY <1>2 DEF Extending
  <2> QED
    BY <1>1, <1>4, <1>8, <1>12, <2>1, LgNext
<1>14. FillB(s, j, Word(d))
  <2>1. ~Base(s)
    BY <1>2, <1>4, <1>5, BaseNoFork
  <2>2. ~(~prog.with /\ j - 1 \in Levels(s) /\ OwnUpTo(s, j - 1))
    <3>1. SUFFICES ASSUME ~prog.with, OwnUpTo(s, j - 1) PROVE FALSE
      OBVIOUS
    <3>2. Off = 1
      BY <1>2, <3>1, ProgType
    <3>3. PICK m : m = j - 1
      OBVIOUS
    <3>4. m = i + 1
      BY <1>5, <1>7, <3>2, <3>3
    <3>5. i + 1 \in 1 .. m
      BY <1>5, <3>4
    <3>6. Own(s, i + 1)
      BY <3>1, <3>3, <3>5 DEF OwnUpTo
    <3> QED
      BY <1>4, <3>1, <3>6 DEF Forks
  <2>3. PICK w : w = Word(d)
    OBVIOUS
  <2>4. w # Unset /\ ~IsDone(w)
    BY <2>3, EntryFacts
  <2>5. FillB(s, j, w)
    BY <1>5, <2>1, <2>2, <2>4 DEF FillB
  <2> QED
    BY <2>3, <2>5
<1>15. HeapB' /\ Rely({})
  BY <1>2, <1>4, <1>10, <1>11, <1>12, <1>14, LogsB
<1>16. PICK p : p = Acquiring(f)
  OBVIOUS
<1>17. PICK g : g = [f EXCEPT !.le = j, !.pc = p]
  OBVIOUS
<1>18. p \in {"count", "help", "cas"}
  BY <1>16 DEF Acquiring
<1>19. g \in Frames /\ g.pc = p /\ g.d = f.d /\ g.res = f.res
  <2>1. p \in Pcs /\ j \in 0 .. LogLen
    BY <1>7, <1>18, PcNames
  <2> QED
    BY <1>2, <1>17, <2>1 DEF Frames
<1>20. Continue(t, g)
  BY <1>2, <1>6, <1>8, <1>16, <1>17 DEF TryCommit
<1>21. FrameB(g)
  <2>1. CallId(g.d) \notin made
    <3>1. ChildAt(s, i) = Unset
      BY <1>7, <1>11 DEF ChildAt
    <3>2. CallId(s) \notin made
      BY <1>2, <1>4, <1>5, <3>1, ForkOpen
    <3>3. HasDesc(f)
      BY <1>2 DEF HasDesc, Early, Storing
    <3> QED
      BY <1>1, <1>4, <1>19, <3>2, <3>3, CallIdHere
  <2>2. f.res = FALSE
    <3>1. FrameB(f)
      BY <1>1, HereFrameB
    <3> QED
      BY <1>2, <3>1 DEF FrameB, Says, Calling
  <2>3. g.pc \notin Says /\ g.pc # "mark"
    BY <1>18, <1>19 DEF Says
  <2> QED
    BY <1>19, <2>1, <2>2, <2>3 DEF FrameB
<1>22. g.pc \notin Calling /\ ~Sharing(f) /\ g.d \in Descriptors
  BY <1>2, <1>4, <1>18, <1>19 DEF Calling, Sharing
<1> QED
  BY <1>1, <1>10, <1>13, <1>15, <1>19, <1>20, <1>21, <1>22, GoB

\* To free a descriptor that no one knows keeps HeapB.
LEMMA DropHeapB ==
  ASSUME InvA, HeapB, NEW t \in Threads, NEW d \in Descriptors, Drops(t, d), x' = x, made' = made, calls' = calls
  PROVE  HeapB' /\ Rely({})
<1>1. Rely({}) /\ lck' = lck
  BY DropRely DEF Drops
<1>2. /\ \A e \in Descriptors :
           /\ desc'[e].path = desc[e].path /\ desc'[e].lock = desc[e].lock /\ desc'[e].thread = desc[e].thread
           /\ desc'[e].done = desc[e].done
           /\ e # d => status'[e] = status[e]
      /\ status'[d] \in {"freed", "retired"}
  BY DropSame
<1>3. SameLogs
  BY <1>2 DEF SameLogs, Drops
<1> QED
  BY <1>1, <1>2, <1>3, CalmB

\* A logged result is the right one.
LEMMA SaidChild ==
  ASSUME HeapB, NEW s \in Descriptors, NEW i \in Levels(s), Forks(s, i), IsDone(ChildAt(s, i)), NEW r, r = ChildAt(s, i)[2]
  PROVE  r = (CallId(s) \in made) /\ r \in BOOLEAN
<1>1. r = (CallId(s) \in made)
  BY DEF HeapB, EntriesB
<1>2. (CallId(s) \in made) \in BOOLEAN
  OBVIOUS
<1> QED
  BY <1>1, <1>2

\* A run that finds the result in the log returns it.
LEMMA TryRecheckReturnsB ==
  ASSUME InvA, InvB, NEW t \in Threads, TryRecheck(t), IsDone(log[lg[t].d][lg[t].n])
  PROVE  InvB'
<1>1. PICK h, f, s, n : Here(t, "recheck", h, f, s, n)
  BY HereIs DEF TryRecheck
<1>2. f = Top(t) /\ f.pc = "recheck" /\ f \in Frames /\ FrameShape(t, f, s, n) /\ stack[t] # <<>> /\ TypeOK
  BY <1>1 DEF Here, InvA
<1>3. PICK r : r = log[lg[t].d][lg[t].n][2]
  OBVIOUS
<1>4. Return(t, r) /\ UNCHANGED <<heapVars, poolVars, localVars>>
  BY <1>2, <1>3 DEF TryRecheck
<1>5. lg[t].d = s /\ lg[t].n = n
  BY <1>1, <1>2, LgHere
<1>6. s # None /\ s \in Descriptors
  BY <1>1, <1>2 DEF FrameShape, OutsideShape, Storing, Here
<1>7. PICK i : i = Level(f, s)
  OBVIOUS
<1>8. InsideShape(f, s, n, i) /\ i \in Levels(s) /\ Forks(s, i)
  <2>1. f.pc \notin Storing \cup {"load", "self", "reentered"}
    BY <1>2 DEF Storing
  <2> QED
    BY <1>2, <1>6, <1>7, <2>1, ForksHere
<1>9. n = i + 1 + Off
  BY <1>2, <1>8 DEF InsideShape, Sharing, Early, Storing
<1>10. ChildAt(s, i) = log[s][n]
  BY <1>9 DEF ChildAt
<1>11. IsDone(ChildAt(s, i)) /\ r = ChildAt(s, i)[2]
  BY <1>3, <1>5, <1>10
<1>12. r = (CallId(s) \in made) /\ r \in BOOLEAN
  BY <1>6, <1>8, <1>11, SaidChild DEF InvB
<1>13. Pops(t, r)
  BY <1>2, <1>4, <1>12, PopIs
<1>14. HeapSame /\ x' = x /\ made' = made /\ calls' = calls
  BY <1>4 DEF HeapSame, heapVars, poolVars, Return
<1>15. HeapB' /\ Rely({})
  BY <1>14, QuietHeapB DEF InvB
<1>16. lg'[t].d = s /\ \A u \in Threads \ {t} : lg'[u] = lg[u]
  BY <1>4, <1>5 DEF localVars
<1> QED
  BY <1>1, <1>4, <1>6, <1>12, <1>13, <1>14, <1>15, <1>16, PopB

\* A nested section of a call that has stored has had its lock.
LEMMA ChildHeld ==
  ASSUME InvA, InvB, NEW s \in Descriptors, NEW e \in Descriptors, HasChild(s, e), CallId(e) \in made
  PROVE  Held(e)
<1>1. status[e] = "live"
  BY ChildLive
<1>2. PICK u \in Threads : \E k \in Depth(u) : Owner(u, k) /\ stack[u][k].d = e
  BY <1>1 DEF InvA, OwnersOK, LiveOwned
<1>3. PICK k \in Depth(u) : Owner(u, k) /\ stack[u][k].d = e
  BY <1>2
<1>4. PICK f : f = stack[u][k]
  OBVIOUS
<1>5. f.le # 0 /\ Sec(u, k) = s
  BY <1>3, <1>4 DEF InvA, OwnersOK, OwnerLinks
<1>6. FrameShape(u, f, s, Pos(u, k)) /\ s # None
  BY <1>4, <1>5, FrameFacts, Consts DEF FrameOK
<1>7. f.pc = "commit" => Sharing(f)
  BY <1>5, <1>6 DEF FrameShape, InsideShape, Storing
<1>8. Sharing(f)
  BY <1>3, <1>4, <1>7 DEF Owner
<1>9. FrameB(f)
  BY <1>4 DEF InvB, StackB, FramesB
<1> QED
  BY <1>3, <1>4, <1>8, <1>9 DEF FrameB

\* Another run has logged its descriptor or the result.
LEMMA TryCommitLosesB ==
  ASSUME InvA, InvB, NEW t \in Threads, TryCommit(t), Entry(t) # Unset
  PROVE  InvB'
<1>1. PICK h, f, s, n : Here(t, "commit", h, f, s, n)
  BY HereIs DEF TryCommit
<1>2. f = Top(t) /\ f.pc = "commit" /\ f \in Frames /\ TypeOK /\ stack[t] # <<>> /\ HeapB
  BY <1>1 DEF Here, InvA, InvB
<1>3. PICK i : i = Level(f, s)
  OBVIOUS
<1>4. s \in Descriptors /\ s # None /\ f.d \in Descriptors /\ n = i + Off /\ f.pc \notin Storing
  BY <1>1, <1>2, <1>3, CommitReady, Consts DEF Storing
<1>5. i \in Nat /\ i + 1 + Off \in 1 .. LogLen
  BY <1>1, <1>3, <1>4, PlaceHere
<1>6. lg[t].d = s /\ lg[t].n = n
  BY <1>1, <1>2, LgHere
<1>7. PICK j \in 1 .. LogLen : j = i + 1 + Off
  BY <1>5
<1>8. j = n + 1
  BY <1>2, <1>4, <1>5, <1>7, ProgType
<1>9. PICK d : d = f.d
  OBVIOUS
<1>10. PICK en : en = Committed(t, d)
  OBVIOUS
<1>11. /\ Commit(t, d) /\ Destruct(t, d) /\ UNCHANGED <<lck, x, desc, ext, id, helping>>
       /\ IF IsDone(en)
            THEN Return(t, en[2])
            ELSE /\ Continue(t, [f EXCEPT !.d = en[2], !.pc = "acquire"])
                 /\ UNCHANGED histVars
  BY <1>2, <1>9, <1>10 DEF TryCommit
<1>12. log[s][j] # Unset
  BY <1>6, <1>8 DEF Entry
<1>13. ~AtEnd(t) /\ NextLg(t) /\ log' = log /\ en = log[s][j]
  BY <1>2, <1>4, <1>6, <1>8, <1>10, <1>11, <1>12, CommitIs
<1>14. lg'[t].d = s /\ \A u \in Threads \ {t} : lg'[u] = lg[u]
  <2>1. f.pc \in Extending
    BY <1>2 DEF Extending
  <2> QED
    BY <1>1, <1>4, <1>8, <1>13, <2>1, LgNext
<1>15. /\ ChildAt(s, i) = log[s][j] /\ Forks(s, i) /\ i \in Levels(s)
       /\ ~IsDone(log[s][j]) => \E e \in Descriptors :
            /\ log[s][j] = Word(e) /\ HasChild(s, e) /\ ChildOK(s, i, e) /\ e # f.d
  BY <1>1, <1>3, <1>8, <1>12, LostChild
<1>16. prog' = prog /\ calls' = calls /\ callOf' = callOf /\ made' = made /\ x' = x
  BY <1>11 DEF Return, histVars
<1>17. Drops(t, d)
  BY <1>1, <1>9, <1>11, <1>13, <1>16, LostDrops
<1>18. HeapB' /\ Rely({})
  BY <1>2, <1>4, <1>9, <1>16, <1>17, DropHeapB
<1>19. CASE IsDone(en)
  <2>1. PICK r : r = en[2]
    OBVIOUS
  <2>2. Return(t, r)
    BY <1>11, <1>19, <2>1
  <2>3. r = (CallId(s) \in made) /\ r \in BOOLEAN
    BY <1>2, <1>4, <1>13, <1>15, <1>19, <2>1, SaidChild
  <2>4. Pops(t, r)
    BY <1>2, <2>2, <2>3, PopIs
  <2> QED
    BY <1>1, <1>4, <1>14, <1>16, <1>18, <2>2, <2>3, <2>4, PopB
<1>20. CASE ~IsDone(en)
  <2>1. PICK e \in Descriptors : log[s][j] = Word(e) /\ HasChild(s, e)
    BY <1>13, <1>15, <1>20
  <2>2. en[2] = e
    BY <1>13, <2>1, EntryFacts
  <2>3. PICK g : g = [f EXCEPT !.d = e, !.pc = "acquire"]
    OBVIOUS
  <2>4. g \in Frames /\ g.pc = "acquire" /\ g.d = e /\ g.res = f.res
    BY <1>2, <2>3, PcNames DEF Frames
  <2>5. Continue(t, g) /\ stores' = stores
    BY <1>11, <1>20, <2>2, <2>3 DEF histVars
  <2>6. f.res = FALSE
    <3>1. FrameB(f)
      BY <1>1, HereFrameB
    <3> QED
      BY <1>2, <3>1 DEF FrameB, Says, Calling
  <2>7. CallId(e) \in made => Held(e)
    BY <1>4, <2>1, ChildHeld
  <2>8. FrameB(g)
    BY <2>4, <2>6, <2>7 DEF FrameB, Says
  <2>9. g.pc \notin Calling /\ ~Sharing(f) /\ g.d \in Descriptors
    BY <1>2, <2>1, <2>4 DEF Calling, Sharing
  <2> QED
    BY <1>1, <1>14, <1>16, <1>18, <2>4, <2>5, <2>8, <2>9, GoB
<1> QED
  BY <1>19, <1>20

\* A section that was entered again returns.
LEMMA TryReenteredB ==
  ASSUME InvA, InvB, NEW t \in Threads, TryReentered(t)
  PROVE  InvB'
<1>1. PICK h, f, s, n : Here(t, "reentered", h, f, s, n)
  BY HereIs DEF TryReentered
<1>2. f = Top(t) /\ f.pc = "reentered" /\ f \in Frames /\ FrameShape(t, f, s, n) /\ stack[t] # <<>> /\ TypeOK
      /\ s \in Descriptors \cup {None}
  BY <1>1 DEF Here, InvA
<1>3. PICK r : r = f.res
  OBVIOUS
<1>4. Return(t, r) /\ UNCHANGED <<heapVars, poolVars, localVars>> /\ r \in BOOLEAN
  BY <1>2, <1>3, FrameType DEF TryReentered
<1>5. lg[t].d = s
  BY <1>1, <1>2, LgHere
<1>6. s # None /\ s \in Descriptors
  BY <1>2 DEF FrameShape, OutsideShape, Storing
<1>7. f.pc \in Calling
  BY <1>2 DEF Calling
<1>8. f.res = (CallId(lg[t].d) \in made)
  BY <1>2, <1>7 DEF InvB, StackB, ReturnedB
<1>9. r = (CallId(s) \in made)
  BY <1>3, <1>5, <1>8
<1>10. Pops(t, r)
  BY <1>2, <1>4, PopIs
<1>11. HeapSame /\ x' = x /\ made' = made /\ calls' = calls
  BY <1>4 DEF HeapSame, heapVars, poolVars, Return
<1>12. HeapB' /\ Rely({})
  BY <1>11, QuietHeapB DEF InvB
<1>13. lg'[t].d = s /\ \A u \in Threads \ {t} : lg'[u] = lg[u]
  BY <1>4, <1>5 DEF localVars
<1> QED
  BY <1>1, <1>4, <1>6, <1>9, <1>10, <1>11, <1>12, <1>13, PopB

\* The result that the innermost frame knows is the right one.
LEMMA SaidHere ==
  ASSUME InvA, InvB, NEW t \in Threads, NEW w, NEW h, NEW f, NEW s, NEW n, Here(t, w, h, f, s, n), f.pc \in Says
  PROVE  /\ f.res = (CallId(f.d) \in made) /\ f.res \in BOOLEAN /\ f.d \in Descriptors
         /\ Sharing(f) /\ HasDesc(f) /\ f.pc \notin Storing
         /\ s # None => f.res = (CallId(s) \in made)
<1>1. f \in Frames /\ FrameB(f)
  BY HereFrameB DEF Here
<1>2. f.res = (CallId(f.d) \in made) /\ f.res \in BOOLEAN
  BY <1>1, FrameType DEF FrameB
<1>3. Sharing(f) /\ HasDesc(f) /\ f.pc \notin Storing
  BY DEF Says, Sharing, HasDesc, Early, Storing
<1>4. f.d \in Descriptors
  BY <1>3, HereFrameB
<1>5. s # None => CallId(f.d) = CallId(s)
  BY <1>3, CallIdHere
<1> QED
  BY <1>2, <1>3, <1>4, <1>5

\* InvB when the frame keeps its result.
LEMMA ResultGoB ==
  ASSUME InvA, InvB, NEW t \in Threads, NEW h, NEW f, NEW s, NEW n, Here(t, "result", h, f, s, n),
         NEW g, g = [f EXCEPT !.pc = "retire"], Continue(t, g), Rely({}), HeapB',
         x' = x, made' = made, calls' = calls, stores' = stores, lg' = lg
  PROVE  InvB'
<1>1. f.pc = "result" /\ f \in Frames
  BY DEF Here
<1>2. g \in Frames /\ g.pc = "retire" /\ g.d = f.d /\ g.res = f.res
  BY <1>1, PcNames DEF Frames
<1>3. f.res = (CallId(f.d) \in made) /\ f.d \in Descriptors /\ Sharing(f)
  BY <1>1, SaidHere DEF Says
<1>4. FrameB(f)
  BY HereFrameB
<1>5. Sharing(g) /\ g.pc \in Says /\ g.pc # "mark" /\ g.pc \notin Calling
  BY <1>2 DEF Sharing, Says, Calling, Early, Storing
<1>6. FrameB(g)
  BY <1>2, <1>3, <1>4, <1>5 DEF FrameB
<1> QED
  BY <1>2, <1>3, <1>5, <1>6, GoB

\* Outside of any section there is no log for the result.
LEMMA ResultOutsideB ==
  ASSUME InvA, InvB, NEW t \in Threads, TryResult(t), NEW h, NEW f, NEW n, Here(t, "result", h, f, None, n)
  PROVE  InvB'
<1>1. f = Top(t) /\ f.pc = "result" /\ f \in Frames /\ FrameShape(t, f, None, n)
  BY DEF Here
<1>2. f.pc \notin {"ran", "helped"} /\ f.pc # "reentered" /\ f.pc \notin Storing
  BY <1>1 DEF Storing
<1>3. lg[t].d = None /\ f.le = 0
  BY <1>1, <1>2, LgHere DEF FrameShape, OutsideShape
<1>4. PICK g : g = [f EXCEPT !.pc = "retire"]
  OBVIOUS
<1>5. Continue(t, g) /\ UNCHANGED <<lck, x, desc, ext, poolVars, localVars, histVars>> /\ log' = log
  BY <1>1, <1>3, <1>4 DEF TryResult, Owns, Goto
<1>6. HeapSame /\ x' = x /\ made' = made /\ calls' = calls /\ stores' = stores /\ lg' = lg
  BY <1>5 DEF HeapSame, poolVars, localVars, histVars
<1>7. HeapB' /\ Rely({})
  BY <1>6, QuietHeapB DEF InvB
<1> QED
  BY <1>4, <1>5, <1>6, <1>7, ResultGoB

\* The owner of the descriptor logs the result.
LEMMA ResultReplacesB ==
  ASSUME InvA, InvB, NEW t \in Threads, TryResult(t), NEW h, NEW f, NEW s, NEW n, Here(t, "result", h, f, s, n),
         s # None, f.le # 0
  PROVE  InvB'
<1>1. /\ f = Top(t) /\ f.pc = "result" /\ f \in Frames /\ TypeOK /\ FrameShape(t, f, s, n) /\ FrameCount(f)
  BY DEF Here, InvA
<1>2. f.pc \notin {"ran", "helped"} /\ f.pc # "reentered" /\ f.pc \notin Storing \cup {"load", "self", "reentered"}
      /\ Sharing(f)
  BY <1>1 DEF Storing, Sharing, Early
<1>3. lg[t].d = s
  BY <1>1, <1>2, LgHere
<1>4. PICK i : i = Level(f, s)
  OBVIOUS
<1>5. s \in Descriptors /\ InsideShape(f, s, n, i) /\ i \in Levels(s)
  BY <1>2, <1>4, PlaceHere
<1>6. Forks(s, i)
  BY <1>1, <1>2, <1>4, <1>5, ForksHere
<1>7. f.le = i + 1 + Off /\ (ChildAt(s, i) = Word(f.d) \/ IsDone(ChildAt(s, i)))
  BY <1>2, <1>5 DEF InsideShape
<1>8. f.d \in Descriptors /\ f.res \in BOOLEAN /\ f.res = (CallId(s) \in made)
  BY <1>1, SaidHere DEF Says
<1>9. Over(f.d)
  BY <1>1, <1>2 DEF FrameCount
<1>10. PICK g : g = [f EXCEPT !.pc = "retire"]
  OBVIOUS
<1>11. /\ Continue(t, g) /\ UNCHANGED <<lck, x, desc, ext, poolVars, localVars, histVars>>
       /\ log' = [log EXCEPT ![s][f.le] = Done(f.res)]
  BY <1>1, <1>3, <1>10 DEF TryResult, Owns, Goto
<1>12. /\ lck' = lck /\ desc' = desc /\ ext' = ext /\ status' = status
       /\ freeList' = freeList /\ prog' = prog /\ callOf' = callOf
       /\ calls' = calls /\ lg' = lg /\ x' = x /\ stores' = stores /\ made' = made
  BY <1>11 DEF poolVars, localVars, histVars
<1>13. PICK r : r = f.res
  OBVIOUS
<1>14. Replace(s, i, r)
  <2>1. ChildAt(s, i) # Unset /\ \A e \in Descriptors : ChildAt(s, i) = Word(e) => Over(e)
    BY <1>7, <1>9, EntryFacts
  <2> QED
    BY <1>6, <1>7, <1>8, <1>11, <1>12, <1>13, <2>1 DEF Replace
<1>15. r = (CallId(s) \in made)
  BY <1>8, <1>13
<1>16. HeapB'
  BY <1>5, <1>12, <1>14, <1>15, ReplaceHeapB DEF InvB
<1>17. Rely({})
  BY <1>5, <1>14, ReplaceRely
<1> QED
  BY <1>10, <1>11, <1>12, <1>16, <1>17, ResultGoB

\* A run that does not own the descriptor returns its result.
LEMMA ResultReturnsB ==
  ASSUME InvA, InvB, NEW t \in Threads, TryResult(t), NEW h, NEW f, NEW s, NEW n, Here(t, "result", h, f, s, n),
         s # None, f.le = 0
  PROVE  InvB'
<1>1. f = Top(t) /\ f.pc = "result" /\ f \in Frames /\ TypeOK /\ stack[t] # <<>>
  BY DEF Here, InvA
<1>2. f.pc \notin {"ran", "helped"} /\ f.pc # "reentered" /\ f.pc \in Says
  BY <1>1 DEF Says
<1>3. lg[t].d = s
  BY <1>1, <1>2, LgHere
<1>4. PICK r : r = f.res
  OBVIOUS
<1>5. r = (CallId(s) \in made) /\ r \in BOOLEAN
  BY <1>2, <1>4, SaidHere
<1>6. Return(t, r) /\ UNCHANGED <<lck, x, desc, ext, poolVars, localVars>> /\ log' = log
  BY <1>1, <1>3, <1>4 DEF TryResult, Owns
<1>7. Pops(t, r)
  BY <1>1, <1>5, <1>6, PopIs
<1>8. HeapSame /\ x' = x /\ made' = made /\ calls' = calls
  BY <1>6 DEF HeapSame, poolVars, Return
<1>9. HeapB' /\ Rely({})
  BY <1>8, QuietHeapB DEF InvB
<1>10. lg'[t].d = s /\ \A u \in Threads \ {t} : lg'[u] = lg[u]
  BY <1>3, <1>6 DEF localVars
<1> QED
  BY <1>5, <1>6, <1>7, <1>8, <1>9, <1>10, PopB

\* try_lock has its result.
LEMMA TryResultB ==
  ASSUME InvA, InvB, NEW t \in Threads, TryResult(t)
  PROVE  InvB'
<1>1. PICK h, f, s, n : Here(t, "result", h, f, s, n)
  BY HereIs DEF TryResult
<1> QED
  BY <1>1, ResultOutsideB, ResultReplacesB, ResultReturnsB

\* The pending calls can be counted.
LEMMA PendingFinite ==
  ASSUME NEW l
  PROVE  IsFiniteSet(Pending(l)) /\ Cardinality(Pending(l)) \in Nat
<1>1. Pending(l) \subseteq Threads
  BY DEF Pending
<1>2. IsFiniteSet(Pending(l))
  BY <1>1, ThreadsAssumption, FS_Subset
<1> QED
  BY <1>2, FS_CardinalityType

\* The call of t returns: it was pending if the result is true.
LEMMA CountedReturns ==
  ASSUME TypeOK, Counted, NEW t \in Threads, stack[t] # <<>>, stack'[t] = <<>>,
         \A u \in Threads \ {t} : stack'[u] = stack[u],
         x' = x, made' = made, calls' = calls,
         NEW g, g = Goal(calls[t][1]), NEW r, r = (ThisCall(t) \in made),
         stores' = IF r THEN [stores EXCEPT ![g] = @ + 1] ELSE stores
  PROVE  Counted'
<1> SUFFICES ASSUME NEW l \in Locks PROVE (x[l] = stores[l] + Cardinality(Pending(l)))'
  BY DEF Counted
<1>1. Pending(l)' = Pending(l) \ {t}
  BY DEF Pending, ThisCall
<1>2. t \in Pending(l) <=> g = l /\ r
  BY DEF Pending
<1>3. x[l] = stores[l] + Cardinality(Pending(l)) /\ stores[l] \in Nat
  BY DEF Counted, TypeOK
<1>4. PICK P, c : P = Pending(l) /\ c = Cardinality(P) /\ c \in Nat /\ IsFiniteSet(P)
  BY PendingFinite
<1>5. CASE t \in P
  <2>1. Cardinality(P \ {t}) = c - 1
    BY <1>4, <1>5, FS_RemoveElement
  <2>2. stores'[l] = stores[l] + 1
    BY <1>2, <1>4, <1>5 DEF TypeOK
  <2>3. Cardinality(Pending(l))' = c - 1
    BY <1>1, <1>4, <2>1
  <2> QED
    BY <1>3, <1>4, <2>2, <2>3
<1>6. CASE t \notin P
  <2>1. P \ {t} = P
    BY <1>6
  <2>2. stores'[l] = stores[l]
    BY <1>2, <1>4, <1>6 DEF TypeOK
  <2>3. Cardinality(Pending(l))' = c
    BY <1>1, <1>4, <2>1
  <2> QED
    BY <1>3, <1>4, <2>2, <2>3
<1> QED
  BY <1>5, <1>6

\* InvB when the call of a thread returns.
LEMMA RootPopB ==
  ASSUME InvA, InvB, Rely({}), HeapB', x' = x, made' = made, calls' = calls,
         NEW t \in Threads, NEW w, NEW h, NEW f, NEW n, Here(t, w, h, f, None, n),
         NEW r, Pops(t, r), Return(t, r), \A u \in Threads \ {t} : lg'[u] = lg[u],
         r = (ThisCall(t) \in made)
  PROVE  InvB'
<1>1. stack[t] # <<>> /\ h = Height(t) /\ None = Sec(t, h) /\ h \in Depth(t) /\ TypeOK
  BY DEF Here, InvA
<1>2. FramesB /\ ReturnedB /\ RootFirst /\ Counted
  BY DEF InvB, StackB
<1>3. h = 1
  BY <1>1, InnerSections
<1>4. FramesB'
  BY <1>1, <1>2, PopFramesB
<1>5. stack'[t] = <<>> /\ \A u \in Threads \ {t} : stack'[u] = stack[u]
  <2>1. Len(stack'[t]) = 0 /\ stack' \in [Threads -> Seq(Frames)]
    BY <1>1, <1>3 DEF Pops, Kept, Height
  <2>2. stack'[t] \in Seq(Frames)
    BY <2>1
  <2> QED
    BY <2>1, <2>2, EmptyIs DEF Pops, Kept
<1>6. RootFirst'
  BY <1>1, <1>2, <1>5, RootFirstKept
<1>7. ReturnedB'
  <2> SUFFICES ASSUME NEW u \in Threads
               PROVE  (stack[u] # <<>> /\ Top(u).pc \in Calling => Top(u).res = (CallId(lg[u].d) \in made))'
    BY DEF ReturnedB
  <2>1. CASE u = t
    BY <2>1, <1>5
  <2>2. CASE u # t
    BY <2>2, <1>2, <1>5, OtherReturnedB
  <2> QED
    BY <2>1, <2>2
<1>8. Callers(t) = <<>>
  <2>1. Len(Callers(t)) = Height(t) - 1 /\ Callers(t) \in Seq(Frames)
    BY <1>1, CallersFacts DEF Height
  <2>3. Height(t) = 1
    BY <1>1, <1>3
  <2>4. \A m : m = Height(t) - 1 => m = 0
    BY <2>3
  <2>2. Len(Callers(t)) = 0
    BY <2>1, <2>4
  <2> QED
    BY <2>1, <2>2, EmptyIs
<1>9. PICK g : g = Goal(calls[t][1])
  OBVIOUS
<1>10. stores' = IF r THEN [stores EXCEPT ![g] = @ + 1] ELSE stores
  BY <1>8, <1>9 DEF Return, Goal
<1>11. Counted'
  BY <1>1, <1>2, <1>5, <1>9, <1>10, CountedReturns
<1> QED
  BY <1>4, <1>6, <1>7, <1>11 DEF InvB, StackB

\* try_lock retires its descriptor and returns.
LEMMA TryRetireB ==
  ASSUME InvA, InvB, NEW t \in Threads, TryRetire(t)
  PROVE  InvB'
<1>1. PICK h, f, s, n : Here(t, "retire", h, f, s, n)
  BY HereIs DEF TryRetire
<1>2. /\ f = Top(t) /\ f.pc = "retire" /\ f \in Frames /\ f = stack[t][h] /\ h \in Depth(t) /\ TypeOK
      /\ h = Height(t) /\ stack[t] # <<>> /\ s = Sec(t, h) /\ FrameCount(f) /\ FrameDesc(t, f, s)
      /\ s \in Descriptors \cup {None}
  BY <1>1 DEF Here, InvA
<1>3. /\ f.pc \notin {"ran", "helped"} /\ f.pc # "reentered" /\ Sharing(f) /\ HasDesc(f)
      /\ f.pc \notin Storing /\ f.pc \in Says
  BY <1>2 DEF Sharing, HasDesc, Early, Storing, Says
<1>4. PICK d : d = f.d
  OBVIOUS
<1>5. Owner(t, h) /\ (s # None => ChildDone(s))
  BY <1>2 DEF InvA, OwnersOK, RetireDone
<1>6. d \in Descriptors /\ Over(d) /\ status[d] = "live"
  BY <1>2, <1>3, <1>4, <1>5, HasD DEF FrameCount, InvA, OwnersOK, OwnersLive
<1>7. \A e \in Descriptors : ~HasChild(e, d)
  <2> SUFFICES ASSUME NEW e \in Descriptors, HasChild(e, d) PROVE FALSE
    OBVIOUS
  <2>1. e = s
    BY <1>2, <1>4, <1>5 DEF InvA, OwnersOK, OwnerLinks
  <2>2. ChildDone(e)
    BY <1>5, <2>1, Consts
  <2> QED
    BY <1>2, <2>2, OneChild DEF InvA, HeapOK
<1>8. prog.reuse => desc[d].thread = t
  <2>1. prog.reuse => s = None
    BY <1>2, <1>3, ReuseOutside
  <2> QED
    BY <1>2, <1>3, <1>4, <2>1 DEF FrameDesc, IdIn
<1>9. PICK r : r = f.res
  OBVIOUS
<1>10. Retire(t, d) /\ Return(t, r) /\ UNCHANGED <<lck, x, log, ext, localVars>>
  BY <1>2, <1>4, <1>9 DEF TryRetire
<1>11. r = (CallId(f.d) \in made) /\ r \in BOOLEAN /\ (s # None => r = (CallId(s) \in made))
  BY <1>1, <1>3, <1>9, SaidHere
<1>12. /\ Pops(t, r) /\ prog' = prog /\ calls' = calls /\ callOf' = callOf /\ made' = made
  BY <1>2, <1>10, <1>11, PopIs
<1>13. x' = x /\ lg' = lg /\ lck' = lck /\ log' = log /\ ext' = ext
  BY <1>10 DEF localVars
<1>14. Drops(t, d)
  BY <1>6, <1>7, <1>8, <1>10, <1>12, <1>13, RetireDrops
<1>15. HeapB' /\ Rely({})
  BY <1>6, <1>12, <1>13, <1>14, DropHeapB DEF InvB
<1>16. CASE s # None
  <2>1. lg[t].d = s
    BY <1>1, <1>3, LgHere
  <2>2. lg'[t].d = s /\ \A u \in Threads \ {t} : lg'[u] = lg[u]
    BY <1>13, <2>1
  <2>3. r = (CallId(s) \in made)
    BY <1>11, <1>16
  <2> QED
    BY <1>1, <1>10, <1>12, <1>13, <1>15, <1>16, <2>2, <2>3, PopB
<1>17. CASE s = None
  <2>1. h = 1
    BY <1>2, <1>17, InnerSections
  <2>2. CallId(f.d) = ThisCall(t)
    BY <1>2, <1>3, <2>1, RootIn
  <2>3. r = (ThisCall(t) \in made)
    BY <1>11, <2>2
  <2>4. \A u \in Threads \ {t} : lg'[u] = lg[u]
    BY <1>13
  <2> QED
    BY <1>1, <1>10, <1>12, <1>13, <1>15, <1>17, <2>3, <2>4, RootPopB
<1> QED
  BY <1>16, <1>17

\* A store makes one more call pending.
LEMMA SwapCounted ==
  ASSUME InvA, InvB, NEW t \in Threads, NEW h, NEW f, NEW s, NEW n, Swapping(t, h, f, s, n),
         calls' = calls, stores' = stores, x' = [x EXCEPT ![f.lock] = f.cur + 1], made' = made \cup {CallId(s)},
         \A u \in Threads : stack'[u] = <<>> <=> stack[u] = <<>>
  PROVE  Counted'
<1>1. /\ s \in Descriptors /\ f.lock = Target(s) /\ f.cur \in Nat /\ f.lock \in Locks
      /\ Installed(s) /\ CallId(s) \notin made
  BY SwapSection DEF InvB
<1>2. Current(s)
  BY <1>1 DEF InvB, HeapB, InstalledB
<1>3. PICK v \in Threads : v = desc[s].thread /\ stack[v] # <<>>
  BY <1>1, RootHere
<1>4. ThisCall(v) = CallId(s) /\ Goal(calls[v][1]) = f.lock
  BY <1>1, <1>2, <1>3 DEF Current, ThisCall, CallId
<1>5. \A u \in Threads : ThisCall(u) = CallId(s) <=> u = v
  BY <1>3, <1>4 DEF ThisCall, CallId
<1>6. x[f.lock] = f.cur /\ x \in [Locks -> Nat]
  BY DEF Swapping, InvA, TypeOK
<1> SUFFICES ASSUME NEW l \in Locks PROVE (x[l] = stores[l] + Cardinality(Pending(l)))'
  BY DEF Counted
<1>7. x[l] = stores[l] + Cardinality(Pending(l)) /\ stores[l] \in Nat /\ x[l] \in Nat
  BY DEF Counted, InvA, InvB, TypeOK
<1>8. PICK P, c : P = Pending(l) /\ c = Cardinality(P) /\ c \in Nat /\ IsFiniteSet(P)
  BY PendingFinite
<1>9. v \notin P
  BY <1>1, <1>4, <1>8 DEF Pending
<1>10. CASE l = f.lock
  <2>1. Pending(l)' = P \cup {v}
    BY <1>3, <1>4, <1>5, <1>8, <1>10 DEF Pending, ThisCall
  <2>2. Cardinality(P \cup {v}) = c + 1
    BY <1>8, <1>9, FS_AddElement
  <2>3. Cardinality(Pending(l))' = c + 1
    BY <2>1, <2>2
  <2>4. x'[l] = x[l] + 1
    BY <1>6, <1>10
  <2> QED
    BY <1>7, <1>8, <2>3, <2>4
<1>11. CASE l # f.lock
  <2>1. Pending(l)' = P
    BY <1>3, <1>4, <1>5, <1>8, <1>11 DEF Pending, ThisCall
  <2>2. Cardinality(Pending(l))' = c
    BY <1>8, <2>1
  <2>3. x'[l] = x[l]
    BY <1>6, <1>11
  <2> QED
    BY <1>7, <1>8, <2>2, <2>3
<1> QED
  BY <1>10, <1>11

\* The store keeps FrameB of all frames.
LEMMA SwapFrame ==
  ASSUME InvA, InvB, NEW t \in Threads, NEW h, NEW f, NEW s, NEW n, Swapping(t, h, f, s, n),
         HeapSame, x' = [x EXCEPT ![f.lock] = f.cur + 1], made' = made \cup {CallId(s)},
         NEW u \in Threads, NEW k \in Depth(u), NEW g, g = stack[u][k]
  PROVE  FrameB(g)'
<1>1. FrameB(g) /\ g \in Frames
  BY FrameFacts DEF InvB, StackB, FramesB
<1>2. CallId(g.d)' = CallId(g.d) /\ (Held(g.d)' <=> Held(g.d))
  BY DEF HeapSame, CallId, Held, Installed
<1>3. Sharing(g) /\ CallId(g.d) = CallId(s) => Held(g.d) /\ g.pc \notin Says
  BY SwapShared DEF InvB
<1>4. g.pc \in Says => Sharing(g)
  BY DEF Says, Sharing, Early, Storing
<1>5. (Sharing(g) /\ CallId(g.d) \in made => Held(g.d))'
  BY <1>1, <1>2, <1>3 DEF FrameB, Sharing, Early, Storing
<1>6. g.pc \in Says => g.res = (CallId(g.d) \in made')
  <2> SUFFICES ASSUME g.pc \in Says PROVE g.res = (CallId(g.d) \in made')
    OBVIOUS
  <2>1. CallId(g.d) \in made' <=> CallId(g.d) \in made
    BY <1>3, <1>4
  <2>2. g.res = (CallId(g.d) \in made)
    BY <1>1 DEF FrameB
  <2> QED
    BY <2>1, <2>2
<1>7. g.pc = "mark" => g.cur < x'[g.lock]
  <2> SUFFICES ASSUME g.pc = "mark" PROVE g.cur < x'[g.lock]
    OBVIOUS
  <2>1. g.cur < x[g.lock] /\ g.lock \in Locks
    BY <1>1, FrameType DEF FrameB
  <2>2. g.cur \in Nat
    BY FrameFacts DEF FrameOK, FrameShape, StoreShape, Storing
  <2>3. x[f.lock] = f.cur /\ x \in [Locks -> Nat] /\ f.cur \in Nat
    BY SwapSection DEF Swapping, InvA, InvB, TypeOK
  <2> QED
    BY <2>1, <2>2, <2>3
<1> QED
  BY <1>1, <1>2, <1>5, <1>6, <1>7 DEF FrameB, Says, Calling

\* The store keeps the results that were handed over.
LEMMA SwapReturned ==
  ASSUME InvA, InvB, NEW t \in Threads, NEW h, NEW f, NEW s, NEW n, Swapping(t, h, f, s, n),
         HeapSame, made' = made \cup {CallId(s)},
         NEW u \in Threads, stack'[u] = stack[u], lg'[u] = lg[u]
  PROVE  (stack[u] # <<>> /\ Top(u).pc \in Calling => Top(u).res = (CallId(lg[u].d) \in made))'
<1> SUFFICES ASSUME stack[u] # <<>>, Top(u).pc \in Calling
             PROVE  (Top(u).res = (CallId(lg[u].d) \in made))'
  BY DEF Top, Calling
<1>1. PICK e \in Descriptors : e = lg[u].d /\ Held(e)
  BY CallingIn
<1>2. Settled(e)
  BY <1>1 DEF InvA, StackOK, Returned
<1>3. CallId(e) # CallId(s)
  BY <1>1, <1>2, SwapOthers DEF InvB
<1>4. Top(u).res = (CallId(e) \in made)
  BY <1>1 DEF InvB, StackB, ReturnedB
<1>5. CallId(e) \in made' <=> CallId(e) \in made
  BY <1>3
<1>6. Top(u).res = (CallId(e) \in made')
  BY <1>4, <1>5
<1>7. CallId(lg[u].d)' = CallId(e)
  BY <1>1 DEF HeapSame, CallId
<1> QED
  BY <1>6, <1>7 DEF Top

\* The store keeps RootFirst.
LEMMA SwapFirst ==
  ASSUME InvA, InvB, NEW t \in Threads, NEW h, NEW f, NEW s, NEW n, Swapping(t, h, f, s, n),
         HeapSame, calls' = calls, made' = made \cup {CallId(s)},
         NEW u \in Threads, stack[u] # <<>>, NEW g, g = stack[u][1]
  PROVE  First(u, g)'
<1>1. First(u, g)
  BY DEF InvB, StackB, RootFirst
<1>2. s \in Descriptors
  BY SwapSection DEF InvB
<1>3. ThisCall(u)' = ThisCall(u) /\ (Sharing(g)' <=> Sharing(g))
  BY DEF ThisCall, Sharing, Early, Storing
<1>4. \A e : CallId(e)' = CallId(e) /\ (Held(g.d)' <=> Held(g.d))
  BY DEF HeapSame, CallId, Held, Installed
<1>5. ThisCall(u) = CallId(s) => Sharing(g)
  BY <1>1, <1>2 DEF First
<1>6. (ThisCall(u) \in made => Sharing(g))'
  BY <1>1, <1>3, <1>5 DEF First
<1>7. \A e \in Descriptors : CallId(e)' = ThisCall(u)' => Sharing(g)' /\ (e = g.d \/ Held(g.d)')
  <2> SUFFICES ASSUME NEW e \in Descriptors, CallId(e)' = ThisCall(u)' PROVE Sharing(g)' /\ (e = g.d \/ Held(g.d)')
    OBVIOUS
  <2>1. CallId(e) = ThisCall(u)
    BY <1>3, <1>4
  <2>2. Sharing(g) /\ (e = g.d \/ Held(g.d))
    BY <1>1, <2>1 DEF First
  <2> QED
    BY <1>3, <1>4, <2>2
<1>8. (\A e \in Descriptors : CallId(e) = ThisCall(u) => Sharing(g) /\ (e = g.d \/ Held(g.d)))'
  BY <1>7
<1>9. (ThisCall(u) \in made => Sharing(g))' /\ (\A e \in Descriptors : CallId(e) = ThisCall(u) => Sharing(g) /\ (e = g.d \/ Held(g.d)))' => First(u, g)'
  BY DEF First
<1> QED
  BY <1>6, <1>8, <1>9

\* The compare-and-swap of a store succeeds.
LEMMA StoreSwapsB ==
  ASSUME InvA, InvB, NEW t \in Threads, StoreCas(t), NEW h, NEW f, NEW s, NEW n, Swapping(t, h, f, s, n)
  PROVE  InvB'
<1>1. Here(t, "store", h, f, s, n) /\ x[f.lock] = f.cur
  BY DEF Swapping
<1>2. /\ f = Top(t) /\ f.pc = "store" /\ f \in Frames /\ stack[t] # <<>> /\ h = Height(t) /\ TypeOK
      /\ s = Sec(t, h) /\ h \in Depth(t)
  BY <1>1 DEF Here, InvA
<1>3. s \in Descriptors /\ f.cur \in Nat /\ f.lock \in Locks
  BY SwapSection DEF InvB
<1>4. lg[t].d = s
  BY <1>1, <1>2, LgHere
<1>5. PICK g : g = [f EXCEPT !.pc = "mark"]
  OBVIOUS
<1>6. g \in Frames /\ g.pc = "mark" /\ g.cur = f.cur /\ g.lock = f.lock /\ g.res = f.res
  BY <1>2, <1>5, PcNames DEF Frames
<1>7. Continue(t, g)
  BY <1>2, <1>5 DEF StoreCas, Goto
<1>8. /\ HeapSame /\ calls' = calls /\ stores' = stores /\ lg' = lg
      /\ x' = [x EXCEPT ![f.lock] = f.cur + 1] /\ made' = made \cup {CallId(s)}
  BY <1>1, <1>2, <1>4 DEF StoreCas, Swaps, HeapSame, poolVars, localVars
<1>9. HeapB'
  BY <1>8, SwapHeapB DEF InvB
<1>10. Conts(t, g) /\ stack' \in [Threads -> Seq(Frames)]
  BY <1>2, <1>6, <1>7, ContIs
<1>11. /\ \A u \in Threads : Height(u)' = Height(u)
       /\ \A u \in Threads : stack'[u] = <<>> <=> stack[u] = <<>>
       /\ \A u \in Threads \ {t} : stack'[u] = stack[u]
       /\ stack'[t][h] = g
       /\ \A k \in Depth(t) \ {h} : stack'[t][k] = stack[t][k]
  <2>1. \A u \in Threads \ {t} : stack'[u] = stack[u]
    BY <1>10 DEF Conts, Kept
  <2>2. \A u \in Threads : Height(u)' = Height(u)
    BY <1>10, <2>1 DEF Conts, Height
  <2>3. Height(t) \in Nat /\ Height(t) >= 1
    BY <1>2, HeightType
  <2>4. stack'[t] # <<>>
    BY <1>2, <1>10, <2>2, <2>3, EmptyIs DEF Height
  <2>5. \A k \in Depth(t) \ {h} : stack'[t][k] = stack[t][k]
    <3> SUFFICES ASSUME NEW k \in Depth(t) \ {h} PROVE stack'[t][k] = stack[t][k]
      OBVIOUS
    <3>1. k \in 1 .. Height(t) - 1
      BY <1>2, <2>3 DEF Depth
    <3> QED
      BY <1>10, <3>1 DEF Conts, Kept
  <2> QED
    BY <1>2, <1>10, <2>1, <2>2, <2>4, <2>5 DEF Conts
<1>12. FrameB(g)'
  <2>1. FrameB(f)
    BY <1>1, HereFrameB
  <2>2. g.res = FALSE
    BY <1>2, <1>6, <2>1 DEF FrameB, Says, Calling
  <2>3. g.cur < x'[g.lock]
    BY <1>2, <1>3, <1>6, <1>8 DEF TypeOK
  <2> QED
    BY <1>6, <2>2, <2>3 DEF FrameB, Sharing, Storing, Says
<1>13. FramesB'
  <2> SUFFICES ASSUME NEW u \in Threads, NEW k \in Depth(u) PROVE FrameB(stack[u][k])'
    BY <1>11 DEF FramesB, Depth
  <2>1. PICK e : e = stack[u][k]
    OBVIOUS
  <2>2. FrameB(e)'
    BY <1>8, <2>1, SwapFrame
  <2>3. CASE u = t /\ k = h
    <3>1. \A z : z = stack'[u][k] => z = g
      BY <1>11, <2>3
    <3>2. \A z : z = g => FrameB(z)'
      BY <1>12
    <3> QED
      BY <1>12, <1>11, <2>3 DEF FrameB, Sharing, CallId, Held, Installed
  <2>4. CASE ~(u = t /\ k = h)
    <3>1. stack'[u][k] = e
      BY <1>11, <2>1, <2>4
    <3> QED
      BY <2>2, <3>1 DEF FrameB, Sharing, CallId, Held, Installed
  <2> QED
    BY <2>3, <2>4
<1>14. ReturnedB'
  <2> SUFFICES ASSUME NEW u \in Threads
               PROVE  (stack[u] # <<>> /\ Top(u).pc \in Calling => Top(u).res = (CallId(lg[u].d) \in made))'
    BY DEF ReturnedB
  <2>1. CASE u = t
    <3>1. Top(t)' = g
      BY <1>2, <1>11 DEF Top, Height
    <3> QED
      BY <2>1, <1>6, <3>1 DEF Calling
  <2>2. CASE u # t
    BY <2>2, <1>8, <1>11, SwapReturned
  <2> QED
    BY <2>1, <2>2
<1>15. RootFirst'
  <2> SUFFICES ASSUME NEW u \in Threads, stack[u] # <<>>
               PROVE  First(u, stack[u][1])'
    BY <1>11 DEF RootFirst
  <2>1. PICK e : e = stack[u][1]
    OBVIOUS
  <2>2. First(u, e)'
    BY <1>8, <2>1, SwapFirst
  <2>3. stack'[u][1] = e
    <3>1. CASE u # t
      BY <1>11, <2>1, <3>1
    <3>2. CASE u = t
      <4>1. h # 1
        BY <1>2, <1>3, Consts DEF InvA, StackOK, SectionsNest
      <4>2. 1 \in Depth(t)
        BY <1>2, RootIn
      <4> QED
        BY <1>11, <2>1, <3>2, <4>1, <4>2
    <3> QED
      BY <3>1, <3>2
  <2> QED
    BY <2>2, <2>3 DEF First, Sharing, ThisCall, CallId, Held, Installed
<1>16. Counted'
  BY <1>8, <1>11, SwapCounted
<1> QED
  BY <1>9, <1>13, <1>14, <1>15, <1>16 DEF InvB, StackB

\* The compare-and-swap of a store comes late.
LEMMA StoreLateB ==
  ASSUME InvA, InvB, NEW t \in Threads, StoreCas(t), NEW h, NEW f, NEW s, NEW n, Here(t, "store", h, f, s, n),
         x[f.lock] # f.cur
  PROVE  InvB'
<1>2. /\ f = Top(t) /\ f.pc = "store" /\ f \in Frames /\ f.pc \in Storing /\ FrameShape(t, f, s, n)
  BY DEF Here, Storing
<1>3. s \in Descriptors /\ s # None /\ StoreShape(f, s, n)
  BY <1>2, StoreSection
<1>4. Base(s) /\ Value(s) = Word(f.cur) /\ f.cur \in Nat /\ f.lock = Target(s) /\ f.lock \in Locks
  BY <1>2, <1>3, FrameType DEF StoreShape
<1>5. PICK g : g = [f EXCEPT !.pc = "mark"]
  OBVIOUS
<1>6. g \in Frames /\ g.pc = "mark" /\ g.cur = f.cur /\ g.lock = f.lock /\ g.res = f.res /\ g.d = f.d
  BY <1>2, <1>5, PcNames DEF Frames
<1>7. Continue(t, g)
  BY <1>2, <1>5 DEF StoreCas, Goto
<1>8. HeapSame /\ calls' = calls /\ stores' = stores /\ lg' = lg /\ x' = x /\ made' = made
  BY <1>2 DEF StoreCas, Swaps, HeapSame, poolVars, localVars
<1>9. HeapB' /\ Rely({})
  BY <1>8, QuietHeapB DEF InvB
<1>10. f.cur < x[f.lock]
  <2>1. Value(s) # Unset /\ Value(s)[2] = f.cur
    BY <1>4, EntryFacts
  <2>2. f.cur <= x[f.lock]
    BY <1>3, <1>4, <2>1 DEF InvB, HeapB, EntriesB, ValueAtMost
  <2>3. x[f.lock] \in Nat
    BY <1>4 DEF InvA, TypeOK
  <2> QED
    BY <1>4, <2>2, <2>3
<1>11. FrameB(g)
  <2>1. FrameB(f)
    BY HereFrameB
  <2>2. g.res = FALSE
    BY <1>2, <1>6, <2>1 DEF FrameB, Says, Calling
  <2> QED
    BY <1>6, <1>10, <2>2 DEF FrameB, Sharing, Storing, Says
<1>12. g.pc \notin Calling /\ ~Sharing(g) /\ ~Sharing(f)
  BY <1>2, <1>6 DEF Calling, Sharing, Storing
<1> QED
  BY <1>6, <1>7, <1>8, <1>9, <1>11, <1>12, GoB

\* The compare-and-swap of a store.
LEMMA StoreCasB ==
  ASSUME InvA, InvB, NEW t \in Threads, StoreCas(t)
  PROVE  InvB'
<1>1. PICK h, f, s, n : Here(t, "store", h, f, s, n)
  BY HereIs DEF StoreCas
<1> QED
  BY <1>1, StoreSwapsB, StoreLateB DEF Swapping

\* A new descriptor is of a call that has not stored, or of one whose
\* section has had its lock.
LEMMA AllocCallId ==
  ASSUME InvA, InvB, NEW t \in Threads, NEW d \in Descriptors, TryAlloc(t, d),
         NEW h, NEW f, NEW s, NEW n, Here(t, "alloc", h, f, s, n)
  PROVE  /\ s = None => CallId(d)' = ThisCall(t) /\ ThisCall(t) \notin made /\ h = 1
                        /\ \A e \in Descriptors : CallId(e) # ThisCall(t)
         /\ s # None => s \in Descriptors /\ Held(s) /\ CallId(d)' = CallId(s)
         /\ callOf'[d] <= Len(calls[desc'[d].thread])
<1>1. /\ f.pc = "alloc" /\ f = stack[t][h] /\ h \in Depth(t) /\ h = Height(t) /\ stack[t] # <<>> /\ s = Sec(t, h)
      /\ s \in Descriptors \cup {None} /\ (s # None => Guarded(t, h, s))
  BY DEF Here
<1>2. desc'[d].thread = IdIn(t, s) /\ callOf'[d] = NumberIn(t, s)
  BY AllocIs
<1>3. CallId(d)' = <<IdIn(t, s), NumberIn(t, s)>>
  BY <1>2 DEF CallId
<1>4. Len(calls[t]) \in Nat
  BY DEF InvA, TypeOK
<1>5. CASE s = None
  <2>1. h = 1
    BY <1>1, <1>5, InnerSections
  <2>2. First(t, f)
    BY <1>1, <2>1 DEF InvB, StackB, RootFirst
  <2>3. ~Sharing(f)
    BY <1>1 DEF Sharing, Early
  <2>4. ThisCall(t) \notin made /\ \A e \in Descriptors : CallId(e) # ThisCall(t)
    BY <2>2, <2>3 DEF First
  <2>5. CallId(d)' = ThisCall(t)
    BY <1>3, <1>5 DEF ThisCall, IdIn, NumberIn
  <2>6. callOf'[d] <= Len(calls[desc'[d].thread])
    BY <1>2, <1>4, <1>5 DEF IdIn, NumberIn
  <2> QED
    BY <1>5, <2>1, <2>4, <2>5, <2>6
<1>6. CASE s # None
  <2>1. s \in Descriptors /\ Held(s) /\ InUse(s)
    BY <1>1, <1>6 DEF Guarded
  <2>2. CallId(d)' = CallId(s)
    BY <1>3, <1>6 DEF CallId, IdIn, NumberIn
  <2>3. callOf[s] <= Len(calls[desc[s].thread])
    <3>1. callOf[s] = 0 \/ callOf[s] <= Len(calls[desc[s].thread])
      BY <2>1 DEF InvB, HeapB, CallsPast
    <3>2. desc[s].thread \in Threads
      BY <2>1 DEF InUse, InvA, HeapOK, UsedFull
    <3>3. Len(calls[desc[s].thread]) \in Nat
      BY <3>2 DEF InvA, TypeOK
    <3> QED
      BY <3>1, <3>3
  <2>4. callOf'[d] <= Len(calls[desc'[d].thread])
    BY <1>2, <1>6, <2>3 DEF IdIn, NumberIn
  <2> QED
    BY <1>6, <2>1, <2>2, <2>4
<1> QED
  BY <1>5, <1>6

\* A descriptor is made.
LEMMA TryAllocB ==
  ASSUME InvA, InvB, NEW t \in Threads, NEW d \in Descriptors, TryAlloc(t, d)
  PROVE  InvB'
<1>1. PICK h, f, s, n : Here(t, "alloc", h, f, s, n)
  BY HereIs DEF TryAlloc
<1>2. /\ f = Top(t) /\ f.pc = "alloc" /\ f \in Frames /\ f = stack[t][h] /\ h \in Depth(t) /\ TypeOK
      /\ h = Height(t) /\ stack[t] # <<>> /\ s = Sec(t, h)
  BY <1>1 DEF Here, InvA
<1>3. f.pc \notin {"ran", "helped"} /\ ~Sharing(f)
  BY <1>2 DEF Sharing, Early
<1>4. lg[t].d = s
  BY <1>1, <1>3, LgHere
<1>5. /\ Makes(d) /\ calls' = calls /\ lg' = lg /\ x' = x /\ stores' = stores /\ made' = made
      /\ stack' \in [Threads -> Seq(Frames)] => TypeOK'
  BY <1>1, AllocIs
<1>6. /\ s = None => CallId(d)' = ThisCall(t) /\ ThisCall(t) \notin made /\ h = 1
                        /\ \A e \in Descriptors : CallId(e) # ThisCall(t)
      /\ s # None => s \in Descriptors /\ Held(s) /\ CallId(d)' = CallId(s)
      /\ callOf'[d] <= Len(calls[desc'[d].thread])
  BY <1>1, AllocCallId
<1>7. PICK p : p = IF s = None THEN Acquiring(f) ELSE "commit"
  OBVIOUS
<1>8. PICK g : g = [f EXCEPT !.d = d, !.pc = p]
  OBVIOUS
<1>9. p \in {"count", "help", "cas", "commit"} /\ (s # None => p = "commit") /\ (s = None => p # "commit")
  BY <1>7 DEF Acquiring
<1>10. g \in Frames /\ g.pc = p /\ g.d = d /\ g.res = f.res
  <2>1. p \in Pcs
    BY <1>9, PcNames
  <2> QED
    BY <1>2, <1>8, <2>1 DEF Frames
<1>11. Continue(t, g)
  BY <1>2, <1>4, <1>7, <1>8 DEF TryAlloc
<1>12. Conts(t, g) /\ stack' \in [Threads -> Seq(Frames)]
  BY <1>2, <1>10, <1>11, ContIs
<1>13. TypeOK'
  BY <1>5, <1>12
<1>14. Rely({d})
  BY <1>5, <1>13, MakeRely
<1>15. HeapB'
  BY <1>5, <1>6, <1>13, MakeHeapB DEF InvB
<1>16. FrameB(g)'
  <2>1. FrameB(f)
    BY <1>1, HereFrameB
  <2>2. g.res = FALSE
    BY <1>2, <1>10, <2>1 DEF FrameB, Says, Calling
  <2>3. Sharing(g)' => CallId(g.d)' \notin made'
    <3>1. Sharing(g)' => g.pc # "commit"
      BY DEF Sharing
    <3>2. Sharing(g)' => s = None
      BY <1>9, <1>10, <3>1
    <3> QED
      BY <1>5, <1>6, <1>10, <3>2
  <2>4. g.pc \notin Says /\ g.pc # "mark"
    BY <1>9, <1>10 DEF Says
  <2> QED
    BY <2>2, <2>3, <2>4 DEF FrameB, Says
<1>17. FramesB'
  BY <1>2, <1>5, <1>12, <1>14, <1>16, ContFramesB DEF InvB, StackB
<1>18. Height(t) \in Nat /\ Height(t) >= 1
  BY <1>2, HeightType
<1>19. /\ \A u \in Threads \ {t} : stack'[u] = stack[u]
       /\ stack'[t] # <<>> /\ Len(stack'[t]) = Height(t) /\ stack'[t][Height(t)] = g
       /\ \A u \in Threads : stack'[u] = <<>> <=> stack[u] = <<>>
  BY <1>2, <1>12, <1>18, EmptyIs DEF Conts, Kept, Height
<1>20. ReturnedB'
  <2> SUFFICES ASSUME NEW u \in Threads
               PROVE  (stack[u] # <<>> /\ Top(u).pc \in Calling => Top(u).res = (CallId(lg[u].d) \in made))'
    BY DEF ReturnedB
  <2>1. CASE u = t
    BY <2>1, <1>9, <1>10, <1>19 DEF Top, Calling
  <2>2. CASE u # t
    <3>1. stack'[u] = stack[u] /\ lg'[u] = lg[u]
      BY <2>2, <1>5, <1>19
    <3> QED
      BY <3>1, <1>5, <1>14, OtherReturnedB DEF InvB, StackB
  <2> QED
    BY <2>1, <2>2
<1>21. ASSUME NEW u \in Threads, stack[u] # <<>>, u # t \/ s # None PROVE First(u, stack[u][1])'
  <2>1. PICK e : e = stack[u][1]
    OBVIOUS
  <2>2. First(u, e)
    BY <1>21, <2>1 DEF InvB, StackB, RootFirst
  <2>3. \A a \in Descriptors : a \in {d} /\ CallId(a)' = ThisCall(u) =>
           \E z \in Descriptors : Held(z) /\ CallId(z) = ThisCall(u)
    <3>1. CASE s = None
      <4>1. ThisCall(u) # ThisCall(t)
        BY <1>21, <3>1 DEF ThisCall
      <4> QED
        BY <1>6, <3>1, <4>1
    <3>2. CASE s # None
      BY <1>6, <3>2
    <3> QED
      BY <3>1, <3>2
  <2>4. First(u, e)'
    <3>1. calls'[u] = calls[u]
      BY <1>5
    <3> QED
      BY <1>5, <1>14, <1>21, <2>1, <2>2, <2>3, <3>1, FirstKept
  <2>5. stack'[u][1] = e
    <3>1. CASE u # t
      BY <1>19, <2>1, <3>1
    <3>2. CASE u = t
      <4>1. h # 1
        BY <1>2, <1>21, <3>2 DEF InvA, StackOK, SectionsNest
      <4>2. 1 \in 1 .. Height(t) - 1
        BY <1>2, <1>18, <4>1
      <4> QED
        BY <1>12, <2>1, <3>2, <4>2 DEF Conts, Kept
    <3> QED
      BY <3>1, <3>2
  <2> QED
    BY <2>4, <2>5 DEF First, Sharing, ThisCall, CallId, Held, Installed
<1>22. ASSUME s = None PROVE First(t, stack[t][1])'
  <2>1. stack'[t][1] = g
    BY <1>2, <1>6, <1>19, <1>22
  <2>2. Sharing(g)'
    <3>1. g.pc \in {"count", "help", "cas"}
      BY <1>9, <1>10, <1>22
    <3> QED
      BY <3>1 DEF Sharing, Early, Storing
  <2>3. ThisCall(t)' = ThisCall(t)
    BY <1>5 DEF ThisCall
  <2>4. ASSUME NEW e \in Descriptors, CallId(e)' = ThisCall(t)' PROVE e = g.d
    <3> SUFFICES ASSUME e # d PROVE FALSE
      BY <1>10
    <3>1. CallId(e)' = CallId(e)
      BY <1>5 DEF Makes, CallId
    <3> QED
      BY <1>6, <1>22, <2>3, <2>4, <3>1
  <2>5. First(t, g)'
    BY <2>2, <2>4 DEF First
  <2> QED
    BY <2>1, <2>5 DEF First, Sharing, ThisCall, CallId, Held, Installed
<1>23. RootFirst'
  <2> SUFFICES ASSUME NEW u \in Threads, stack[u] # <<>> PROVE First(u, stack[u][1])'
    BY <1>19 DEF RootFirst
  <2> QED
    BY <1>21, <1>22
<1>24. Counted'
  BY <1>5, <1>19, CountedSame DEF InvB
<1> QED
  BY <1>15, <1>17, <1>20, <1>23, <1>24 DEF InvB, StackB

\* A call begins.
LEMMA CallB ==
  ASSUME InvA, InvB, NEW t \in Threads, NEW path, Call(t, path)
  PROVE  InvB'
<1>1. TypeOK /\ HeapOK /\ stack[t] = <<>> /\ path \in prog.paths[t]
  BY DEF InvA, Call
<1>2. path \in Seq(Locks) /\ path # <<>>
  <2>1. prog \in Programs
    BY <1>1 DEF TypeOK
  <2> QED
    BY <1>1, <2>1, ProgramsAssumption
<1>3. PICK g : g = Body(None, path)
  OBVIOUS
<1>4. g \in Frames
  BY <1>2, <1>3, FirstFrame
<1>5. stack' = [stack EXCEPT ![t] = <<g>>] /\ calls' = [calls EXCEPT ![t] = <<path>> \o @]
  BY <1>3 DEF Call
<1>6. HeapSame /\ lg' = lg /\ x' = x /\ stores' = stores /\ made' = made
  BY DEF Call, HeapSame, heapVars, poolVars, localVars
<1>7. Rely({}) /\ HeapB'
  BY <1>6, SameRely, CallHeapB DEF InvB
<1>8. stack'[t] = <<g>> /\ \A u \in Threads \ {t} : stack'[u] = stack[u]
  BY <1>1, <1>5 DEF TypeOK
<1>9. Len(stack'[t]) = 1 /\ stack'[t][1] = g /\ stack'[t] # <<>>
  BY <1>8
<1>10. FrameB(g) /\ ~Sharing(g) /\ g.pc \notin Calling
  BY <1>3, BodyB
<1>11. FrameB(g)'
  BY <1>6, <1>7, <1>10, NewFrameB
<1>12. FramesB'
  <2> SUFFICES ASSUME NEW u \in Threads, NEW k \in Depth(u)' PROVE FrameB(stack[u][k])'
    BY DEF FramesB
  <2>1. CASE u = t
    <3>1. k = 1
      BY <2>1, <1>9 DEF Depth, Height
    <3>2. stack'[u][k] = g
      BY <2>1, <3>1, <1>9
    <3> QED
      BY <1>11, <3>2 DEF FrameB, Sharing, CallId, Held, Installed
  <2>2. CASE u # t
    <3>1. stack'[u] = stack[u] /\ k \in Depth(u)
      BY <2>2, <1>8 DEF Depth, Height
    <3>2. PICK e : e = stack[u][k]
      OBVIOUS
    <3>3. FrameB(e)
      BY <3>1, <3>2 DEF InvB, StackB, FramesB
    <3>4. FrameB(e)'
      BY <1>6, <1>7, <3>1, <3>2, <3>3, FrameBKept
    <3>5. stack'[u][k] = e
      BY <3>1, <3>2
    <3> QED
      BY <3>4, <3>5 DEF FrameB, Sharing, CallId, Held, Installed
  <2> QED
    BY <2>1, <2>2
<1>13. ReturnedB'
  <2> SUFFICES ASSUME NEW u \in Threads
               PROVE  (stack[u] # <<>> /\ Top(u).pc \in Calling => Top(u).res = (CallId(lg[u].d) \in made))'
    BY DEF ReturnedB
  <2>1. CASE u = t
    BY <2>1, <1>9, <1>10 DEF Top, Calling
  <2>2. CASE u # t
    <3>1. stack'[u] = stack[u] /\ lg'[u] = lg[u]
      BY <2>2, <1>6, <1>8
    <3> QED
      BY <3>1, <1>6, <1>7, OtherReturnedB DEF InvB, StackB
  <2> QED
    BY <2>1, <2>2
<1>14. /\ \A u \in Threads \ {t} : calls'[u] = calls[u]
       /\ Len(calls'[t]) = Len(calls[t]) + 1 /\ Len(calls[t]) \in Nat
  <2>1. calls[t] \in Seq(prog.paths[t]) /\ calls \in [Threads -> Seq(Seq(Locks))]
    BY <1>1 DEF TypeOK
  <2>2. Len(<<path>> \o calls[t]) = 1 + Len(calls[t]) /\ Len(calls[t]) \in Nat
    BY <1>1, <2>1, Prepended
  <2>3. calls'[t] = <<path>> \o calls[t]
    BY <1>5, <2>1
  <2> QED
    BY <1>5, <2>1, <2>2, <2>3
<1>15. ThisCall(t)' \notin made
  <2> SUFFICES ASSUME ThisCall(t)' \in made PROVE FALSE
    OBVIOUS
  <2>1. PICK c \in made : c = <<t, Len(calls'[t])>>
    BY DEF ThisCall
  <2>2. c[2] <= Len(calls[c[1]])
    BY DEF InvB, HeapB, CallsPast
  <2> QED
    BY <1>14, <2>1, <2>2
<1>16. \A e \in Descriptors : CallId(e)' # ThisCall(t)'
  <2> SUFFICES ASSUME NEW e \in Descriptors, CallId(e)' = ThisCall(t)' PROVE FALSE
    OBVIOUS
  <2>1. desc[e].thread = t /\ callOf[e] = Len(calls'[t])
    BY <1>6 DEF CallId, ThisCall, HeapSame
  <2>2. callOf[e] = 0 \/ callOf[e] <= Len(calls[desc[e].thread])
    BY DEF InvB, HeapB, CallsPast
  <2> QED
    BY <1>14, <2>1, <2>2
<1>17. RootFirst'
  <2> SUFFICES ASSUME NEW u \in Threads, stack'[u] # <<>> PROVE First(u, stack[u][1])'
    BY DEF RootFirst
  <2>1. CASE u = t
    BY <2>1, <1>6, <1>15, <1>16 DEF First
  <2>2. CASE u # t
    <3>1. PICK e : e = stack[u][1]
      OBVIOUS
    <3>2. stack[u] # <<>> /\ stack'[u][1] = e /\ calls'[u] = calls[u]
      BY <1>8, <1>14, <2>2, <3>1
    <3>3. First(u, e)
      BY <3>1, <3>2 DEF InvB, StackB, RootFirst
    <3>4. First(u, e)'
      BY <1>6, <1>7, <3>1, <3>2, <3>3, FirstKept
    <3> QED
      BY <3>2, <3>4 DEF First, Sharing, ThisCall, CallId, Held, Installed
  <2> QED
    BY <2>1, <2>2
<1>18. Counted'
  <2>1. \A l : Pending(l)' = Pending(l)
    <3> SUFFICES ASSUME NEW l PROVE Pending(l)' = Pending(l)
      OBVIOUS
    <3>1. t \notin Pending(l) /\ t \notin Pending(l)'
      BY <1>1, <1>6, <1>15 DEF Pending
    <3>2. \A u \in Threads \ {t} : u \in Pending(l)' <=> u \in Pending(l)
      BY <1>6, <1>8, <1>14 DEF Pending, ThisCall
    <3> QED
      BY <3>1, <3>2 DEF Pending
  <2> QED
    BY <1>6, <2>1 DEF InvB, Counted
<1> QED
  BY <1>7, <1>12, <1>13, <1>17, <1>18 DEF InvB, StackB

\* The steps of try_lock.
LEMMA TryLockB ==
  ASSUME InvA, InvB, NEW t \in Threads, TryLock(t)
  PROVE  InvB'
<1>1. CASE \E d \in Descriptors : TryAlloc(t, d)
  BY <1>1, TryAllocB
<1>2. CASE TryLoad(t) \/ TryReentered(t) \/ TryAcquire(t) \/ TryRan(t) \/ TryClear(t) \/ TryResult(t) \/ TryRetire(t)
  BY <1>2, TryLoadB, TryReenteredB, TryAcquireB, TryRanB, TryClearB, TryResultB, TryRetireB
<1>3. CASE TrySelf(t)
  BY <1>3, TrySelfGoesB, TrySelfEntersB
<1>4. CASE TryCommit(t)
  BY <1>4, TryCommitWinsB, TryCommitLosesB
<1>5. CASE TryRecheck(t)
  BY <1>5, TryRecheckGoesB, TryRecheckReturnsB
<1>6. CASE TryCas(t)
  BY <1>6, TryCasFailsB, TryCasTakesB
<1>7. CASE TryCheck(t)
  BY <1>7, TryCheckFailsB, TryCheckRunsB
<1> QED
  BY <1>1, <1>2, <1>3, <1>4, <1>5, <1>6, <1>7 DEF TryLock

\* The steps of with_lock.
LEMMA WithLockB ==
  ASSUME InvA, InvB, NEW t \in Threads, WithLock(t)
  PROVE  InvB'
<1>1. CASE WithTest(t)
  BY <1>1, WithTestGoesB, WithTestRunsB
<1>2. CASE WithCas(t)
  BY <1>2, WithCasFailsB, WithCasTakesB
<1> QED
  BY <1>1, <1>2, WithReadB, WithCountB, WithRaiseB, WithAgainB DEF WithLock

\* The steps of help_descriptor.
LEMMA HelpDescriptorB ==
  ASSUME InvA, InvB, NEW t \in Threads, HelpDescriptor(t)
  PROVE  InvB'
<1>1. CASE HelpCheck(t)
  BY <1>1, HelpCheckStopsB, HelpCheckRunsB
<1> QED
  BY <1>1, HelpB, HelpInheritB, HelpAcquireB, HelpedB, HelpClearB DEF HelpDescriptor

\* The steps of a thread.
LEMMA StepB ==
  ASSUME InvA, InvB, NEW t \in Threads, Step(t)
  PROVE  InvB'
<1>1. CASE Store(t)
  BY <1>1, StoreGetB, StoreSkipB, StoreCasB, StoreMarkB DEF Store
<1>2. CASE NextEntry(t)
  BY <1>2, ExtendLoadB, ExtendCasB DEF NextEntry
<1> QED
  BY <1>1, <1>2, TryLockB, WithLockB, HelpDescriptorB DEF Step

\* Stuttering.
LEMMA StutterB ==
  ASSUME InvA, InvB, UNCHANGED vars
  PROVE  InvB'
<1>1. HeapSame /\ stack' = stack /\ lg' = lg /\ x' = x /\ made' = made /\ calls' = calls /\ stores' = stores
  BY DEF HeapSame, vars, heapVars, poolVars, localVars, histVars
<1>2. HeapB' /\ Rely({})
  BY <1>1, QuietHeapB DEF InvB
<1>3. FramesB /\ ReturnedB /\ RootFirst /\ Counted
  BY DEF InvB, StackB
<1>4. FramesB'
  <2> SUFFICES ASSUME NEW u \in Threads, NEW k \in Depth(u) PROVE FrameB(stack[u][k])'
    BY <1>1 DEF FramesB, Depth, Height
  <2>1. PICK e : e = stack[u][k]
    OBVIOUS
  <2>2. FrameB(e)
    BY <1>3, <2>1 DEF FramesB
  <2>3. FrameB(e)'
    BY <1>1, <1>2, <2>1, <2>2, FrameBKept
  <2>4. stack'[u][k] = e
    BY <1>1, <2>1
  <2> QED
    BY <2>3, <2>4 DEF FrameB, Sharing, CallId, Held, Installed
<1>5. ReturnedB'
  <2> SUFFICES ASSUME NEW u \in Threads
               PROVE  (stack[u] # <<>> /\ Top(u).pc \in Calling => Top(u).res = (CallId(lg[u].d) \in made))'
    BY DEF ReturnedB
  <2> QED
    BY <1>1, <1>2, <1>3, OtherReturnedB
<1>6. RootFirst'
  <2> SUFFICES ASSUME NEW u \in Threads, stack[u] # <<>> PROVE First(u, stack[u][1])'
    BY <1>1 DEF RootFirst
  <2>1. PICK e : e = stack[u][1]
    OBVIOUS
  <2>2. First(u, e)
    BY <1>3, <2>1 DEF RootFirst
  <2>3. First(u, e)'
    BY <1>1, <1>2, <2>1, <2>2, FirstKept
  <2>4. stack'[u][1] = e
    BY <1>1, <2>1
  <2> QED
    BY <2>3, <2>4 DEF First, Sharing, ThisCall, CallId, Held, Installed
<1>7. Counted'
  BY <1>1, <1>3, CountedSame
<1> QED
  BY <1>2, <1>4, <1>5, <1>6, <1>7 DEF InvB, StackB

\* Every step keeps InvB.
LEMMA NextB ==
  ASSUME InvA, InvB, [Next]_vars
  PROVE  InvB'
BY StepB, CallB, StutterB DEF Next, Finished

\* InvB holds in the beginning.
LEMMA InitB ==
  ASSUME Init, TypeOK
  PROVE  InvB
<1>1. /\ \A d \in Descriptors : desc[d] = NoDesc /\ log[d] = EmptyEntries /\ callOf[d] = 0
      /\ \A l \in Locks : lck[l] = 1 /\ x[l] = 0 /\ stores[l] = 0
      /\ \A t \in Threads : stack[t] = <<>>
      /\ made = {}
  BY DEF Init
<1>2. \A d \in Descriptors : Size(d) = 0 /\ desc[d].done = FALSE
  BY <1>1 DEF Size, NoDesc
<1>3. \A d \in Descriptors : \A j \in 1 .. LogLen : log[d][j] = Unset
  BY <1>1 DEF EmptyEntries
<1>4. \A d \in Descriptors : EntriesB(d) /\ InstalledB(d)
  <2> SUFFICES ASSUME NEW d \in Descriptors PROVE EntriesB(d) /\ InstalledB(d)
    OBVIOUS
  <2>1. 1 \in 1 .. LogLen /\ 2 \in 1 .. LogLen
    BY LogLenAssumption
  <2>2. Value(d) = Unset /\ Mark(d) = Unset /\ log[d][1] = Unset
    <3>1. log[d][1] = Unset /\ log[d][2] = Unset
      BY <1>3, <2>1
    <3>2. Size(d) = 0
      BY <1>2
    <3> QED
      BY <3>1, <3>2 DEF Value, Mark
  <2>3. Levels(d) = {}
    BY <1>2 DEF Levels
  <2>4. ~Installed(d)
    BY <1>1, Consts DEF Installed
  <2>5. ~Stored(d) /\ ~Started(d)
    BY <2>2 DEF Stored, Started
  <2>6. ValueAtMost(d)
    BY <2>2 DEF ValueAtMost
  <2>7. 1 .. Size(d) = {}
    BY <1>2
  <2> QED
    BY <2>3, <2>4, <2>5, <2>6, <2>7 DEF EntriesB, InstalledB
<1>5. CallsPast
  BY <1>1 DEF CallsPast
<1>6. StackB
  BY <1>1 DEF StackB, FramesB, ReturnedB, RootFirst, Depth, Height
<1>7. Counted
  <2> SUFFICES ASSUME NEW l \in Locks PROVE x[l] = stores[l] + Cardinality(Pending(l))
    BY DEF Counted
  <2>1. Pending(l) = {}
    BY <1>1 DEF Pending
  <2>2. Cardinality({}) = 0
    BY FS_EmptySet
  <2> QED
    BY <1>1, <2>1, <2>2
<1> QED
  BY <1>4, <1>5, <1>6, <1>7 DEF InvB, HeapB

\* InvB is an invariant: what the logs, the results and the atomics say
\* about stores agrees at all times.
THEOREM StoreInvariance == ASSUME ReuseIsFlat PROVE Spec => [](InvA /\ InvB)
<1>1. Init => InvA /\ InvB
  BY InitOK, InitB DEF InvA
<1>2. InvA /\ InvB /\ [Next]_vars => (InvA /\ InvB)'
  BY NextOK, NextB
<1> QED
  BY <1>1, <1>2, PTL DEF Spec

\* However many runs of a section there were, the calls that returned true
\* are the stores that were made.
THEOREM OneEffect == ASSUME ReuseIsFlat PROVE Spec => []EffectOnce
<1>1. InvA /\ InvB => EffectOnce
  <2> SUFFICES ASSUME InvA, InvB, Idle, NEW l \in Locks PROVE x[l] = stores[l]
    BY DEF EffectOnce
  <2>1. Pending(l) = {}
    BY DEF Idle, Pending
  <2>2. Cardinality(Pending(l)) = 0
    BY <2>1, FS_EmptySet
  <2>3. x[l] = stores[l] + Cardinality(Pending(l)) /\ stores[l] \in Nat
    BY DEF InvA, TypeOK, InvB, Counted
  <2> QED
    BY <2>2, <2>3
<1> QED
  BY <1>1, StoreInvariance, PTL

\* A compare-and-swap that succeeds is made for the section that holds the
\* lock of the atomic.
LEMMA StoreCasHolds ==
  ASSUME InvA, InvB, NEW t \in Threads, StoreCas(t), NEW l \in Locks, x'[l] # x[l]
  PROVE  LET s == lg[t].d IN
         /\ At(t, "store") /\ lck[l] = Holder(s) /\ IsLocked(lck[l])
         /\ CallId(lck[l]) = CallId(s)
<1>1. PICK h, f, s, n : Here(t, "store", h, f, s, n)
  BY HereIs DEF StoreCas
<1>2. f = Top(t) /\ f.pc = "store" /\ TypeOK
  BY <1>1 DEF Here, InvA
<1>3. lg[t].d = s
  BY <1>1, <1>2, LgHere
<1>4. x[f.lock] = f.cur /\ l = f.lock
  <2>1. CASE x[f.lock] # f.cur
    BY <2>1, <1>2 DEF StoreCas, Swaps
  <2>2. CASE x[f.lock] = f.cur
    <3>1. x' = [x EXCEPT ![f.lock] = f.cur + 1]
      BY <2>2, <1>2 DEF StoreCas, Swaps
    <3> QED
      BY <2>2, <3>1, <1>2 DEF TypeOK
  <2> QED
    BY <2>1, <2>2
<1>5. s \in Descriptors /\ Base(s) /\ f.lock = Target(s) /\ Installed(s)
  BY <1>1, <1>4, SwapSection DEF Swapping, InvB
<1>6. PICK w \in Descriptors :
           /\ lck[Target(s)] = w /\ Installed(w) /\ desc[w].thread = desc[s].thread
           /\ w = IF desc[s].path = <<>> THEN s ELSE log[s][Size(s)][2]
  BY <1>5, TargetHeld DEF InvB
<1>7. lck[l] = w /\ IsLocked(w)
  BY <1>4, <1>5, <1>6 DEF IsLocked
<1>8. w = Holder(s)
  <2>1. desc[s].path \in Seq(Locks)
    BY <1>5, DescType, <1>2
  <2>2. desc[s].path = <<>> <=> Len(desc[s].path) = 0
    BY <2>1, EmptyIs
  <2> QED
    BY <1>6, <2>2 DEF Holder, Size
<1>9. CallId(w) = CallId(s)
  <2>1. Current(w) /\ Current(s)
    BY <1>5, <1>6 DEF InvB, HeapB, InstalledB
  <2> QED
    BY <1>6, <2>1 DEF Current, CallId
<1> QED
  BY <1>1, <1>3, <1>7, <1>8, <1>9 DEF Here, At

\* Nothing else changes an atomic.
LEMMA OnlyStoreCas ==
  ASSUME [Next]_vars, x' # x
  PROVE  \E t \in Threads : StoreCas(t)
<1>1. Next
  BY DEF vars, heapVars
<1>2. ASSUME NEW t \in Threads, Step(t) PROVE StoreCas(t)
  <2>1. ~NextEntry(t)
    BY DEF NextEntry, ExtendLoad, ExtendCas, heapVars
  <2>2. ~HelpDescriptor(t)
    BY DEF HelpDescriptor, Help, HelpInherit, HelpAcquire, HelpCheck, Helped, HelpClear, heapVars
  <2>3. ~WithLock(t)
    BY DEF WithLock, WithRead, WithCount, WithRaise, WithTest, WithCas, WithAgain, heapVars
  <2>4. ~TryLock(t)
    BY DEF TryLock, TryAlloc, TryLoad, TrySelf, TryReentered, TryCommit, TryAcquire, TryRecheck, TryCas, TryCheck,
           TryRan, TryClear, TryResult, TryRetire, heapVars
  <2>5. ~StoreGet(t) /\ ~StoreSkip(t) /\ ~StoreMark(t)
    BY DEF StoreGet, StoreSkip, StoreMark, heapVars
  <2> QED
    BY <1>2, <2>1, <2>2, <2>3, <2>4, <2>5 DEF Step, Store
<1>3. ~Finished
  BY DEF Finished, vars, heapVars
<1>4. \A t, path : ~Call(t, path)
  BY DEF Call, heapVars
<1> QED
  BY <1>1, <1>2, <1>3, <1>4 DEF Next

\* Only a run of a section that holds the lock of an atomic changes it; a
\* late run never does.
THEOREM StoresOnlyUnderLock == ASSUME ReuseIsFlat PROVE Spec => StoresUnderLock
<1>1. ASSUME InvA, InvB, [Next]_vars, NEW l \in Locks, x'[l] # x[l]
      PROVE  \E t \in Threads : LET s == lg[t].d IN
               /\ At(t, "store") /\ lck[l] = Holder(s) /\ IsLocked(lck[l])
               /\ CallId(lck[l]) = CallId(s)
  <2>1. PICK t \in Threads : StoreCas(t)
    BY <1>1, OnlyStoreCas
  <2> QED
    BY <1>1, <2>1, StoreCasHolds
<1>2. InvA /\ InvB /\ [Next]_vars =>
        [\A l \in Locks : x'[l] # x[l] =>
           \E t \in Threads : LET s == lg[t].d IN
             /\ At(t, "store") /\ lck[l] = Holder(s) /\ IsLocked(lck[l])
             /\ CallId(lck[l]) = CallId(s)]_vars
  BY <1>1
<1> QED
  BY <1>2, StoreInvariance, PTL DEF Spec, StoresUnderLock
=============================================================================
