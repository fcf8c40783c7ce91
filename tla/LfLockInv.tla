------------------------------ MODULE LfLockInv -----------------------------
(***************************************************************************)
(* The invariant of lock-free locks: what holds in every state of LfLock   *)
(* that the proofs of LfLockFrames and LfLockProofs need.                  *)
(*                                                                         *)
(* InvA has a part for the heap (HeapOK: logs are filled in order, what an *)
(* entry holds is a value that some lock or atomic had, a section with a   *)
(* result has run to its end), a part that says who gives each descriptor  *)
(* back (OwnersOK), and a part for the frames of the stacks (StackOK).     *)
(*                                                                         *)
(* Its core is what a section has decided.  All runs of a section follow   *)
(* its log, so the log says how far it is: with the own word of its thread *)
(* at each level it stores itself (Base), otherwise there is one nested    *)
(* section that it waits for (Forks, HasChild).  A section is Settled when *)
(* its store is marked, or its nested section is done or over; then no run *)
(* can change anything.                                                    *)
(***************************************************************************)
EXTENDS LfLock

\* Where a frame waits for the section that it runs.
Calling == {"reentered", "ran", "helped"}

\* Where a frame is inside atomic::store.
Storing == {"get", "skip", "store", "mark"}

\* Where a frame is inside help_descriptor, and where it works under the
\* identity of the descriptor that it helps.
HelpIn == {"help", "help_id", "help_acquire", "help_check", "helped", "help_clear"}
Inherited == {"help_acquire", "help_check", "helped", "help_clear"}

\* Before the descriptor of the call has been made.
Early == {"load", "self", "reentered", "with", "alloc"}

\* The steps that only with_lock takes, and those that only try_lock takes.
WithOnly == {"with", "count", "raise", "test", "take", "again"}
TryOnly == {"load", "self", "reentered", "cas", "check"}

\* The steps that commit a value and may first need a block of the log.
Extending == {"load", "commit", "get", "skip"}

\* The frame has a descriptor that the other runs of its section know; it has
\* one.
Sharing(f) == f.pc \notin Early \cup Storing \cup {"commit"}
HasDesc(f) == f.pc \notin Early \cup Storing

\* The frames of a thread, the innermost is the highest.
Height(t) == Len(stack[t])
Depth(t) == 1 .. Height(t)

\* The descriptor under whose log frame k of t runs, None outside of any
\* lock, and how many entries of it the frame has used.
Sec(t, k) == IF stack[t][k].pc \in Calling THEN stack[t][k].lg.d ELSE lg[t].d
Pos(t, k) == IF stack[t][k].pc \in Calling THEN stack[t][k].lg.n ELSE lg[t].n

\* The descriptor whose log the section called by a waiting frame runs under.
Inner(f) == IF f.pc = "ran" THEN f.d ELSE IF f.pc = "helped" THEN f.cur ELSE f.lg.d

\* q is the end of the path p.
IsRest(q, p) == Len(q) <= Len(p) /\ \A j \in 1 .. Len(q) : q[j] = p[j + Len(p) - Len(q)]

\* What the runs of s share: the path, the identity and the number of the
\* call.
PathIn(t, s) == IF s = None THEN calls[t][1] ELSE desc[s].path
IdIn(t, s) == IF s = None THEN t ELSE desc[s].thread
NumberIn(t, s) == IF s = None THEN Len(calls[t]) ELSE callOf[s]

\* How many locks the section of d still takes, and the lock at the end of
\* them whose atomic the section stores to.
Size(d) == Len(desc[d].path)
Goal(p) == p[Len(p)]
Target(d) == IF Size(d) = 0 THEN desc[d].lock ELSE Goal(desc[d].path)

\* Entry i of the log of d, a logged lock word, has a descriptor of the
\* thread of d: the runs enter that lock again without taking it.
Own(d, i) == /\ log[d][i][1] = "word" /\ log[d][i][2] \in Descriptors
             /\ desc[log[d][i][2]].thread = desc[d].thread
OwnUpTo(d, i) == \A j \in 1 .. i : Own(d, j)

\* Whether a call logs the lock word before it logs the descriptor.
Off == IF prog.with THEN 0 ELSE 1

\* The runs of d come to the store without taking a further lock.
Base(d) == OwnUpTo(d, Size(d)) /\ (prog.with => Size(d) = 0)

\* The positions on the path of d; at the first one where the lock is not its
\* own, the runs of d make a descriptor.
Levels(d) == 0 .. Size(d) - 1
Forks(d, i) == /\ i \in Levels(d) /\ OwnUpTo(d, i)
               /\ prog.with => i = 0
               /\ ~prog.with => log[d][i + 1] # Unset /\ ~Own(d, i + 1)

\* The entry for the descriptor that is made there, that descriptor, and
\* whether the result of the call has replaced it.
ChildAt(d, i) == log[d][i + 1 + Off]
HasChild(d, e) == \E i \in Levels(d) : Forks(d, i) /\ ChildAt(d, i) = Word(e)
ChildDone(d) == \E i \in Levels(d) : Forks(d, i) /\ IsDone(ChildAt(d, i))

\* The entries of the store: the tag that was loaded, and the mark that the
\* store has been made.
Value(d) == log[d][Size(d) + 1]
Mark(d) == log[d][Size(d) + 2]

\* The descriptor is in a lock; it is in one or has been run to the end.
Installed(d) == \E l \in Locks : lck[l] = d
Held(d) == Installed(d) \/ desc[d].done

\* The counter of lock l is at least c, and it is larger: counters of a lock
\* only grow, a held lock counts as the counter of its descriptor.
AtMost(l, c) == IF lck[l] \in Descriptors THEN c <= desc[lck[l]].counter ELSE c <= lck[l]
Moved(l, c) == IF lck[l] \in Descriptors THEN c <= desc[lck[l]].counter ELSE c < lck[l]

\* The call that e was made for is over: e is in no lock and will not be.
Over(e) == /\ ~Installed(e)
           /\ desc[e].done \/ (~prog.with /\ Moved(desc[e].lock, desc[e].counter))

\* The section of d has been run by someone: the store is marked, or the call
\* inside it is over.
Settled(d) ==
  \/ Base(d) /\ Mark(d) # Unset
  \/ ChildDone(d)
  \/ \E e \in Descriptors : HasChild(d, e) /\ Over(e)

\* A lock word that was read a while ago: a descriptor that has been in a
\* lock, if blocks are not reused.
Known(d) == status[d] # "fresh" /\ (prog.reuse \/ Held(d))

\* The descriptor cannot be handed to the allocator: it has been acquired, or
\* went to the epoch pool.
Safe(d) == status[d] = "retired" \/ (status[d] = "live" /\ desc[d].acquired)

\* The descriptor is not free.
InUse(d) == status[d] \in {"live", "retired"}
-----------------------------------------------------------------------------

\* All frames but the innermost wait for the section they run.
CallersWait ==
  \A t \in Threads : \A k \in Depth(t) : k < Height(t) => stack[t][k].pc \in Calling

\* The section that a frame runs is the one that the next frame runs under.
NestsAt(t, k) ==
  stack[t][k].pc \in Calling =>
    Inner(stack[t][k]) = IF k < Height(t) THEN Sec(t, k + 1) ELSE lg[t].d
SectionsNest ==
  \A t \in Threads :
    /\ lg[t].d = None => lg[t] = EmptyLog
    /\ stack[t] = <<>> => lg[t].d = None /\ id[t] = t
    /\ stack[t] # <<>> => Sec(t, 1) = None
    /\ \A k \in Depth(t) : NestsAt(t, k)

\* The current_id of a thread is the identity that its innermost frame works
\* under.
TopId(t, f) == IF f.pc \in Inherited THEN desc[f.cur].thread ELSE IdIn(t, lg[t].d)
Ids == \A t \in Threads : stack[t] # <<>> => id[t] = TopId(t, Top(t))

\* A frame in a store: the entries it has used, and the tag it has loaded is
\* the one in the log.
StoreShape(f, s, n) ==
  /\ s # None /\ f.path = <<>> /\ f.lock = Target(s) /\ Base(s)
  /\ f.pc = "get" => n = Size(s)
  /\ f.pc = "skip" => n = Size(s) + 1
  /\ f.pc \in {"store", "mark"} => n = Size(s) + 2
  /\ f.pc # "get" => f.cur \in Nat /\ Value(s) = Word(f.cur)

\* A frame in try_lock or with_lock: its lock and path are the rest of the
\* path of its section.
LockShape(t, f, s) ==
  LET p == PathIn(t, s) IN
  /\ IsRest(f.path, p) /\ Len(f.path) < Len(p)
  /\ f.lock = p[Len(p) - Len(f.path)]
  /\ f.pc \in WithOnly => prog.with
  /\ f.pc \in TryOnly => ~prog.with

\* Outside of a lock nothing is logged.
OutsideShape(t, f) ==
  /\ Len(f.path) = Len(calls[t][1]) - 1 /\ f.le = 0
  /\ f.pc \notin {"reentered", "commit", "acquire", "recheck"}

\* How far the frame is on the path of its section.
Level(f, s) == Size(s) - Len(f.path) - 1

\* Inside of a section the entries used tell how far the run is, and what it
\* knows is what the log says.
InsideShape(f, s, n, i) ==
  /\ OwnUpTo(s, i) /\ (prog.with => i = 0)
  /\ f.pc \in {"load", "with"} => n = i
  /\ f.pc \in {"self", "reentered"} => n = i + 1
  /\ f.pc \in {"alloc", "commit"} => n = i + Off
  /\ Sharing(f) => n = i + 1 + Off
  /\ ~prog.with /\ f.pc # "load" =>
       log[s][i + 1] = Word(f.cur) /\ f.cur \in Nat \cup Descriptors
  /\ f.pc = "reentered" => ~prog.with /\ Own(s, i + 1)
  /\ ~prog.with /\ f.pc \notin {"load", "self", "reentered"} => ~Own(s, i + 1)
  /\ Sharing(f) => ChildAt(s, i) = Word(f.d) \/ IsDone(ChildAt(s, i))
  /\ f.le # 0 => Sharing(f) /\ f.pc \notin {"acquire", "recheck"} /\ f.le = i + 1 + Off

FrameShape(t, f, s, n) ==
  /\ f.pc \in Storing => StoreShape(f, s, n)
  /\ f.pc \notin Storing =>
       /\ LockShape(t, f, s)
       /\ s = None => OutsideShape(t, f)
       /\ s # None => InsideShape(f, s, n, Level(f, s))

\* What is known of the lock word that a frame has read, in particular of the
\* descriptor that it helps.
FrameCur(t, f, s) ==
  /\ f.pc \notin Storing /\ f.cur \in Descriptors => Known(f.cur)
  /\ f.pc \in HelpIn => f.cur \in Descriptors
  /\ f.pc = "help_check" => desc[f.cur].acquired \/ status[f.cur] = "retired"
  /\ f.pc \in {"helped", "help_clear"} => Safe(f.cur)
  /\ f.pc = "helped" => Held(f.cur)
  /\ f.pc = "help_clear" => desc[f.cur].done
  /\ f.pc \in Inherited => f.id = IdIn(t, s)
  /\ f.pc \in {"self", "alloc"} /\ s = None /\ f.cur \in Descriptors => desc[f.cur].thread # t

\* What is known of the descriptor of a frame: it was made for this call, and
\* is safe for the one who has lost the commit.
FrameDesc(t, f, s) ==
  /\ HasDesc(f) =>
       /\ f.d \in Descriptors /\ status[f.d] # "fresh"
       /\ desc[f.d].lock = f.lock
       /\ Size(f.d) = Len(f.path) /\ IsRest(desc[f.d].path, PathIn(t, s))
       /\ desc[f.d].thread = IdIn(t, s) /\ callOf[f.d] = NumberIn(t, s)
       /\ ~prog.with => desc[f.d].counter = CounterOf(f)
  /\ Sharing(f) /\ s # None /\ f.le = 0 =>
       /\ f.pc = "recheck" => desc[f.d].acquired \/ IsDone(ChildAt(s, Level(f, s)))
       /\ f.pc \notin {"acquire", "recheck"} => Safe(f.d)
  /\ Sharing(f) /\ s # None /\ IsDone(ChildAt(s, Level(f, s))) => Over(f.d)

\* What is known of counters: what a frame may still do to the lock.
FrameCount(f) ==
  f.pc \notin Storing =>
    /\ f.cur \in Nat => f.cur > 0 /\ AtMost(f.lock, f.cur)
    /\ HasDesc(f) => AtMost(f.lock, desc[f.d].counter)
    /\ f.pc \notin {"load", "with"} => f.cur \in Nat \cup Descriptors
    /\ f.pc = "raise" => f.old < f.cur /\ f.cur \in Nat /\ f.old <= desc[f.d].counter
    /\ f.pc \in {"test", "take"} /\ f.cur \in Nat => f.cur <= desc[f.d].counter
    /\ f.pc \in {"test", "count"} /\ f.cur = f.d => Held(f.d)
    /\ f.pc \in {"cas", "take"} => f.cur \in Nat /\ (Held(f.d) => Moved(f.lock, f.cur))
    /\ f.pc = "check" => f.cur \in Nat /\ (Held(f.d) \/ Moved(f.lock, f.cur))
    /\ f.pc = "ran" => Held(f.d)
    /\ f.pc = "clear" => desc[f.d].done
    /\ f.pc \in {"result", "retire"} => Over(f.d)

\* The frame is the one that will give its descriptor back.
Owner(t, k) ==
  LET f == stack[t][k] IN
  f.pc = "commit" \/ (Sharing(f) /\ (Sec(t, k) = None \/ f.le # 0))

\* A section that somebody runs is not freed: it is safe, or an outer frame
\* of the same thread will give it back.
Guarded(t, k, s) ==
  /\ s \in Descriptors /\ Held(s) /\ InUse(s)
  /\ Safe(s) \/ \E j \in 1 .. k - 1 : /\ Owner(t, j)
                                      /\ stack[t][j].pc = "ran" /\ stack[t][j].d = s

FrameOK(t, k, f, s, n) ==
  /\ FrameShape(t, f, s, n) /\ FrameCur(t, f, s)
  /\ FrameDesc(t, f, s) /\ FrameCount(f)
  /\ s # None => Guarded(t, k, s)
FramesOK == \A t \in Threads : \A k \in Depth(t) :
              FrameOK(t, k, stack[t][k], Sec(t, k), Pos(t, k))

\* The descriptor e committed in the log of d was made for the same call.
ChildOK(d, i, e) ==
  /\ e \in Descriptors /\ status[e] = "live"
  /\ desc[e].lock = desc[d].path[i + 1]
  /\ Size(e) = Size(d) - i - 1 /\ IsRest(desc[e].path, desc[d].path)
  /\ desc[e].thread = desc[d].thread /\ callOf[e] = callOf[d]
  /\ ~prog.with => LET w == log[d][i + 1][2] IN desc[e].counter = IF w \in Descriptors THEN 0 ELSE w

\* Blocks are reused only where critical sections do not nest.
FlatReuse == prog.reuse => \A t \in Threads : \A path \in prog.paths[t] : Len(path) = 1

\* Sections of these paths fit into their log.
PathsFit == \A d \in Descriptors : Size(d) + 2 <= LogLen
ReuseFlat == prog.reuse => \A d \in Descriptors : Size(d) = 0

\* The entries of a log are set in order.
PrefixSet ==
  \A d \in Descriptors : \A j, k \in 1 .. LogLen :
    j < k /\ log[d][j] = Unset => log[d][k] = Unset
LogsKnown ==
  \A d \in Descriptors : \A j \in 1 .. LogLen :
    log[d][j][1] = "word" /\ log[d][j][2] \in Descriptors => status[log[d][j][2]] # "fresh"

\* An entry that is set is in a block that has been linked.
InBlocks ==
  \A d \in Descriptors : \A j \in 1 .. LogLen : log[d][j] # Unset => (j - 1) \div BlockLen <= ext[d]

\* A logged lock word is a counter the lock has had or a descriptor that was
\* in it.
LoadEntry(d, i) ==
  LET en == log[d][i + 1] IN
  \/ en = Unset
  \/ en[1] = "word" /\ en[2] \in Nat \ {0} /\ AtMost(desc[d].path[i + 1], en[2])
  \/ en[1] = "word" /\ en[2] \in Descriptors /\ Known(en[2])
LoadsOK ==
  \A d \in Descriptors : \A i \in Levels(d) : ~prog.with /\ OwnUpTo(d, i) => LoadEntry(d, i)

\* The entry for the descriptor of an inner call has it, or the result of
\* that call.
ChildrenOK ==
  \A d \in Descriptors : \A i \in Levels(d) : Forks(d, i) =>
    \/ ChildAt(d, i) = Unset
    \/ IsDone(ChildAt(d, i))
    \/ ChildAt(d, i)[1] = "word" /\ ChildOK(d, i, ChildAt(d, i)[2])

\* The entries of a store have what a store writes.
ValuesOK ==
  \A d \in Descriptors : Base(d) =>
    /\ Value(d) = Unset \/ (Value(d)[1] = "word" /\ Value(d)[2] \in Nat)
    /\ Mark(d) = Unset \/ Mark(d) = Word(1)

\* The block that a run is in is the one of its last entry or of the next
\* one, and is there.
BlockOK(g) ==
  /\ g.block <= ext[g.d]
  /\ g.n > 0 => (g.n - 1) \div BlockLen <= g.block
  /\ g.block <= g.n \div BlockLen
BlocksOK ==
  \A t \in Threads :
    /\ lg[t].d # None => BlockOK(lg[t])
    /\ lg[t].new => AtEnd(t) /\ stack[t] # <<>> /\ Top(t).pc \in Extending
    /\ \A k \in Depth(t) : stack[t][k].pc \in {"ran", "helped"} =>
         /\ ~stack[t][k].lg.new
         /\ stack[t][k].lg.d = None => stack[t][k].lg = EmptyLog
         /\ stack[t][k].lg.d # None => BlockOK(stack[t][k].lg)

\* Who owns a descriptor is the only one, it is live, and other runs know it
\* only through the log that it was committed in.
OwnersLive == \A t \in Threads : \A k \in Depth(t) : Owner(t, k) => status[stack[t][k].d] = "live"
OwnersUnique ==
  \A t, u \in Threads : \A k \in Depth(t), j \in Depth(u) :
    Owner(t, k) /\ Owner(u, j) /\ stack[t][k].d = stack[u][j].d => t = u /\ k = j
OwnerLinks ==
  \A t \in Threads : \A k \in Depth(t) : Owner(t, k) =>
    \A d \in Descriptors : HasChild(d, stack[t][k].d) => stack[t][k].le # 0 /\ d = Sec(t, k)

\* Before the commit nobody else has seen the descriptor.
Privacy ==
  \A t \in Threads : \A k \in Depth(t) : stack[t][k].pc = "commit" =>
    /\ ~Held(stack[t][k].d) /\ ~desc[stack[t][k].d].acquired
    /\ \A u \in Threads : \A j \in Depth(u) :
         HasDesc(stack[u][j]) /\ stack[u][j].d = stack[t][k].d => u = t /\ j = k

\* A descriptor is given back after the result has replaced it in the log.
RetireDone ==
  \A t \in Threads : \A k \in Depth(t) :
    stack[t][k].pc = "retire" => Owner(t, k) /\ (Sec(t, k) # None => ChildDone(Sec(t, k)))

\* All live descriptors are owned.
LiveOwned ==
  \A d \in Descriptors : status[d] = "live" =>
    \E t \in Threads : \E k \in Depth(t) : Owner(t, k) /\ stack[t][k].d = d
NotTwice == \A d \in Descriptors : status[d] # "twice"

\* Descriptors that have never been made, and those that have.
FreshBlank == \A d \in Descriptors : status[d] = "fresh" => desc[d] = NoDesc /\ log[d] = EmptyEntries
UsedFull == \A d \in Descriptors : status[d] # "fresh" => desc[d].thread \in Threads /\ desc[d].lock \in Locks

\* A free list has blocks that were freed by its thread, each once.
FreeOK ==
  \A t \in Threads : \A j \in 1 .. Len(freeList[t]) :
    /\ status[freeList[t][j]] = "freed"
    /\ prog.reuse => desc[freeList[t][j]].thread = t
    /\ \A u \in Threads : \A i \in 1 .. Len(freeList[u]) :
         freeList[t][j] = freeList[u][i] => t = u /\ i = j

\* A lock has a counter, or a live descriptor for it.
LocksOK ==
  \A l \in Locks :
    /\ lck[l] \in Nat => lck[l] > 0
    /\ lck[l] \in Descriptors => desc[lck[l]].lock = l /\ status[lck[l]] = "live"

\* A descriptor that took its lock has the counter that the lock had.
CountersOK ==
  \A d \in Descriptors :
    /\ Held(d) => desc[d].counter > 0
    /\ desc[d].done /\ ~prog.with => Moved(desc[d].lock, desc[d].counter)
RetiredOver == \A d \in Descriptors : status[d] = "retired" => Over(d)

\* A descriptor says done only when its section has been run.
DoneSettled == \A d \in Descriptors : desc[d].done => Settled(d)

\* Of two descriptors of one thread in locks the one with more locks to take
\* is the outer one, and has a call inside that is in its lock as well.
Chained(d, e) ==
  Installed(d) /\ Installed(e) /\ d # e /\ desc[d].thread = desc[e].thread =>
    /\ Size(d) # Size(e)
    /\ Size(e) < Size(d) =>
         \E y \in Descriptors : HasChild(d, y) /\ Installed(y) /\ Size(e) <= Size(y)
ChainOrdered == \A d, e \in Descriptors : Chained(d, e)

\* When a section returns to its caller, it has been run.
Returned == \A t \in Threads : stack[t] # <<>> /\ Top(t).pc \in Calling => Settled(lg[t].d)

\* The outermost of the descriptors in locks is the one of a call outside of
\* any lock.
RootIs(d, u, r) ==
  /\ u \in Threads /\ stack[u] # <<>> /\ Sharing(stack[u][1]) /\ stack[u][1].d = r
  /\ Installed(r) /\ (d = r \/ Size(d) < Size(r))
RootOK == \A d \in Descriptors : Installed(d) => RootIs(d, desc[d].thread, stack[desc[d].thread][1].d)
InCall == \A t \in Threads : stack[t] # <<>> => Len(calls[t]) > 0

\* What is true of descriptors, logs and locks,
HeapOK ==
  /\ FlatReuse /\ PathsFit /\ ReuseFlat /\ PrefixSet /\ LogsKnown /\ InBlocks
  /\ LoadsOK /\ ChildrenOK
  /\ ValuesOK /\ NotTwice /\ FreshBlank /\ UsedFull /\ FreeOK /\ LocksOK /\ CountersOK
  /\ RetiredOver /\ DoneSettled /\ ChainOrdered

\* of who gives descriptors back,
OwnersOK == /\ OwnersLive /\ OwnersUnique /\ OwnerLinks /\ Privacy /\ RetireDone /\ LiveOwned
            /\ RootOK

\* of the calls in progress,
StackOK == CallersWait /\ SectionsNest /\ Ids /\ FramesOK /\ BlocksOK /\ InCall /\ Returned

\* and the inductive invariant.
InvA == TypeOK /\ HeapOK /\ OwnersOK /\ StackOK
=============================================================================
