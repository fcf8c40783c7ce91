------------------------------- MODULE LfLock -------------------------------
(***************************************************************************)
(* Lock-free locks: include/flock/lf_lock.h with the idempotence log of    *)
(* lf_log.h, the descriptor pool of lf_types.h and acquired_pool.h, and    *)
(* the tagged store of tagged.h.                                           *)
(*                                                                         *)
(* A thread that takes a lock installs a descriptor with its critical      *)
(* section; whoever finds the lock taken may run the same section.  All    *)
(* runs of a section share the log of its descriptor, so that they agree   *)
(* on every value they load and every descriptor they allocate.            *)
(*                                                                         *)
(* A critical section is given by a path of locks: with the empty path it  *)
(* stores to the atomic that the last lock protects, otherwise it calls    *)
(* try_lock or with_lock on the first lock of the path with the rest of    *)
(* the path as the section.  The tag of the atomic counts its stores; that *)
(* it wraps around is the subject of module Tagged.                        *)
(*                                                                         *)
(* A load and the commit of its value are one step: a value that wins the  *)
(* commit was the first, so no other run looked at the entry in between,   *)
(* and a value that loses is not used.  The test before a compare-and-swap *)
(* is made with it.  Descriptors that helpers have acquired go to the      *)
(* epoch pool and are not reused within the bounded run; the others are    *)
(* reused at once, from the list of the thread that freed them.  Helpers   *)
(* also inherit an epoch, which this module leaves out.                    *)
(*                                                                         *)
(* Operators marked MUTANT are wrong variants of the definition below them *)
(* that no specification uses.                                             *)
(***************************************************************************)
EXTENDS Integers, Sequences, FiniteSets

CONSTANTS
  Threads, Locks, Descriptors, None,
  LogLen,   \* the entries of a log that sections of these paths can use
  BlockLen, \* the entries of one log_array, Log_Len in the code
  Programs  \* what the threads may do, see below

\* A program has the paths that the calls of a thread may take (lock, lock
\* inside it, ...), a bound on the calls of each thread, whether it takes its
\* locks with with_lock or with try_lock, and whether the allocator hands out
\* freed blocks or fresh ones only.
ASSUME ProgramsAssumption ==
  \A p \in Programs : /\ \A t \in Threads : p.paths[t] \subseteq Seq(Locks) \ {<<>>}
                      /\ p.calls \in [Threads -> Nat]
                      /\ {p.with, p.reuse} \subseteq BOOLEAN
ASSUME LogLenAssumption ==
  /\ LogLen \in Nat \ {0, 1} /\ BlockLen \in Nat \ {0}
  /\ \A p \in Programs : \A t \in Threads : \A path \in p.paths[t] : Len(path) < LogLen

\* A lock word tells a descriptor from a counter.
ASSUME DescriptorsAssumption ==
  Descriptors \cap Nat = {} /\ None \notin Descriptors \cup Nat

\* A count of threads is a number.
ASSUME ThreadsAssumption == IsFiniteSet(Threads)

VARIABLES
  prog,     \* the program
  lck,      \* per lock: a counter when it is free, or the descriptor in it
  x,        \* the tag of the atomic that a lock protects
  desc,     \* the descriptors
  log,      \* their lg_array and the blocks that extend it
  ext,      \* how many blocks extend it
  status,   \* "fresh", "live", "freed", "retired" or "twice"
  freeList, \* per thread: the blocks it freed, last one first
  stack,    \* per thread: the calls in progress, innermost last
  lg,       \* per thread: the log, the number of entries used, the block
            \* they are in, and whether a new block is at hand
  id, helping, \* thread locals current_id and helping
  calls,    \* history: calls made
  stores,   \* history: calls that returned true, per atomic
  callOf,   \* history, per descriptor: the call of its thread it was made in
  made      \* history: the calls, thread and number, whose store was made

heapVars == <<lck, x, desc, log, ext>>
poolVars == <<status, freeList>>
localVars == <<lg, id, helping>>
histVars == <<prog, calls, stores, callOf, made>>
vars == <<heapVars, poolVars, stack, localVars, histVars>>

IsLocked(le) == le \in Descriptors
LogOf(d) == [d |-> d, n |-> 0, block |-> 0, new |-> FALSE]
EmptyLog == LogOf(None)
NoDesc == [path |-> <<>>, lock |-> None, done |-> FALSE, acquired |-> FALSE,
           thread |-> None, counter |-> 0]

\* A log entry is unset, or the word that a run has committed, or the result
\* that replaced a retired descriptor.
Unset == <<"unset", 0>>
Word(w) == <<"word", w>>
Done(r) == <<"done", r>>
IsDone(en) == en[1] = "done"
EmptyEntries == [k \in 1 .. LogLen |-> Unset]

(***************************************************************************)
(* Calls in progress.                                                      *)
(***************************************************************************)
Frame(fn, l, path) ==
  [pc |-> fn, lock |-> l, path |-> path, cur |-> None, d |-> None,
   old |-> 0, le |-> 0, res |-> FALSE, lg |-> EmptyLog, id |-> None]

\* What a critical section does.
Body(l, path) ==
  IF path = <<>> THEN Frame("get", l, <<>>)
                 ELSE Frame(IF prog.with THEN "with" ELSE "load", Head(path), Tail(path))

Top(t) == stack[t][Len(stack[t])]
Callers(t) == SubSeq(stack[t], 1, Len(stack[t]) - 1)
At(t, where) == stack[t] # <<>> /\ Top(t).pc = where

\* The innermost call continues as f.
Continue(t, f) == stack' = [stack EXCEPT ![t] = Append(Callers(t), f)]
Goto(t, where) == Continue(t, [Top(t) EXCEPT !.pc = where])

\* It calls g and continues as f when g has returned; f knows the log that it
\* is in.
CallThen(t, g, f) ==
  stack' = [stack EXCEPT ![t] = Append(Append(Callers(t), [f EXCEPT !.lg = lg[t]]), g)]

\* It returns r to its caller; a call without a caller is over.
ReturnTo(t, rest, r) ==
  stack' = [stack EXCEPT ![t] =
              IF rest = <<>> THEN <<>> ELSE [rest EXCEPT ![Len(rest)].res = r]]

Return(t, r) ==
  /\ ReturnTo(t, Callers(t), r)
  /\ IF Callers(t) = <<>> /\ r
       THEN LET p == calls[t][1] IN
            stores' = [stores EXCEPT ![p[Len(p)]] = @ + 1]
       ELSE UNCHANGED stores
  /\ UNCHANGED <<prog, calls, callOf, made>>

(***************************************************************************)
(* The log.  Outside of a lock the log is empty and everything commits.    *)
(***************************************************************************)
\* An entry is only there once the block it is in has been linked.
AtEnd(t) == lg[t].d # None /\ lg[t].n \div BlockLen > lg[t].block
Entry(t) == log[lg[t].d][lg[t].n + 1]

\* The entry that all runs agree on when t proposes val.
Committed(t, val) ==
  IF lg[t].d = None \/ Entry(t) = Unset THEN Word(val) ELSE Entry(t)

Commit(t, val) ==
  /\ ~AtEnd(t)
  /\ log' = IF lg[t].d = None THEN log
            ELSE [log EXCEPT ![lg[t].d][lg[t].n + 1] = Committed(t, val)]
  /\ lg' = IF lg[t].d = None THEN lg ELSE [lg EXCEPT ![t].n = @ + 1]

\* next_entry at the end of a block: go on in the next one, or make one.
ExtendLoad(t) ==
  /\ AtEnd(t) /\ ~lg[t].new /\ stack[t] # <<>>
  /\ Top(t).pc \in {"load", "commit", "get", "skip"}
  /\ lg' = IF ext[lg[t].d] > lg[t].block THEN [lg EXCEPT ![t].block = @ + 1]
                                         ELSE [lg EXCEPT ![t].new = TRUE]
  /\ UNCHANGED <<heapVars, poolVars, stack, id, helping, histVars>>

\* MUTANT: the block is linked whether or not another one is there.
LinksAnyway(t) == TRUE

Links(t) == ext[lg[t].d] = lg[t].block

ExtendCas(t) ==
  LET d == lg[t].d  next == lg[t].block + 1 IN
  /\ lg[t].new
  /\ IF Links(t)
       THEN /\ ext' = [ext EXCEPT ![d] = next]
            /\ log' = [log EXCEPT ![d] = [k \in 1 .. LogLen |->
                         IF (k - 1) \div BlockLen >= next THEN Unset ELSE @[k]]]
       ELSE UNCHANGED <<ext, log>>
  /\ lg' = [lg EXCEPT ![t].new = FALSE, ![t].block = next]
  /\ UNCHANGED <<lck, x, desc, poolVars, stack, id, helping, histVars>>

-----------------------------------------------------------------------------
Init ==
  /\ prog \in Programs
  /\ lck = [l \in Locks |-> 1]
  /\ x = [l \in Locks |-> 0]
  /\ desc = [d \in Descriptors |-> NoDesc]
  /\ log = [d \in Descriptors |-> EmptyEntries]
  /\ ext = [d \in Descriptors |-> 0]
  /\ status = [d \in Descriptors |-> "fresh"]
  /\ freeList = [t \in Threads |-> <<>>]
  /\ stack = [t \in Threads |-> <<>>]
  /\ lg = [t \in Threads |-> EmptyLog]
  /\ id = [t \in Threads |-> t]
  /\ helping = [t \in Threads |-> FALSE]
  /\ calls = [t \in Threads |-> <<>>]
  /\ stores = [l \in Locks |-> 0]
  /\ callOf = [d \in Descriptors |-> 0]
  /\ made = {}

\* A data structure calls try_lock or with_lock outside of any lock.
Call(t, path) ==
  /\ stack[t] = <<>>
  /\ path \in prog.paths[t] /\ Len(calls[t]) < prog.calls[t]
  /\ stack' = [stack EXCEPT ![t] = <<Body(None, path)>>]
  /\ calls' = [calls EXCEPT ![t] = <<path>> \o @]
  /\ UNCHANGED <<heapVars, poolVars, localVars, prog, stores, callOf, made>>

(***************************************************************************)
(* try_lock_result                                                         *)
(***************************************************************************)
TryLoad(t) ==
  LET f == Top(t) IN
  /\ At(t, "load")
  /\ Commit(t, lck[f.lock])
  /\ Continue(t, [f EXCEPT !.cur = Committed(t, lck[f.lock])[2], !.pc = "self"])
  /\ UNCHANGED <<lck, x, desc, ext, poolVars, id, helping, histVars>>

\* MUTANT: any lock that is taken counts as one's own.
AnyLock(t, le) == IsLocked(le)

OwnLock(t, le) == IsLocked(le) /\ desc[le].thread = id[t]

\* A thread that holds the lock already runs the section at once.
TrySelf(t) ==
  LET f == Top(t) IN
  /\ At(t, "self")
  /\ IF OwnLock(t, f.cur)
       THEN CallThen(t, Body(f.lock, f.path), [f EXCEPT !.pc = "reentered"])
       ELSE Goto(t, "alloc")
  /\ UNCHANGED <<heapVars, poolVars, localVars, histVars>>

TryReentered(t) ==
  /\ At(t, "reentered")
  /\ Return(t, Top(t).res)
  /\ UNCHANGED <<heapVars, poolVars, localVars>>

(***************************************************************************)
(* The pools.  acquired_pool::retire frees a descriptor that no helper has *)
(* acquired and hands the others to the epoch pool.  The destructor        *)
(* asserts that it runs once; "twice" records that it would not.           *)
(***************************************************************************)
GiveBack(d, how) ==
  status' = [status EXCEPT ![d] = IF @ = "live" THEN how ELSE "twice"]

Destruct(t, d) ==
  /\ GiveBack(d, "freed")
  /\ freeList' = [freeList EXCEPT ![t] = <<d>> \o @]

Retire(t, d) ==
  IF desc[d].acquired
    THEN /\ desc' = [desc EXCEPT ![d].acquired = FALSE]
         /\ GiveBack(d, "retired")
         /\ UNCHANGED freeList
    ELSE Destruct(t, d) /\ UNCHANGED desc

\* The block the allocator hands out: the last one the thread freed.
Allocates(t, d) ==
  IF prog.reuse /\ freeList[t] # <<>>
    THEN /\ d = Head(freeList[t])
         /\ freeList' = [freeList EXCEPT ![t] = Tail(@)]
    ELSE /\ status[d] = "fresh"
         /\ d = CHOOSE fresh \in Descriptors : status[fresh] = "fresh"
         /\ UNCHANGED freeList

\* MUTANT: the counter is the lock word, also when the lock is taken.
LockWord(f) == f.cur

CounterOf(f) == IF IsLocked(f.cur) THEN 0 ELSE f.cur

\* The constructor resets everything but `acquired'.
NewDescriptor(t, f, d) ==
  /\ status' = [status EXCEPT ![d] = "live"]
  /\ desc' = [desc EXCEPT ![d] =
       [NoDesc EXCEPT !.path = f.path, !.lock = f.lock, !.thread = id[t],
          !.counter = CounterOf(f), !.acquired = desc[d].acquired]]

\* After the allocation: try_lock takes the lock or helps the one who has it,
\* with_lock enters its loop.
Acquiring(f) == IF prog.with THEN "count" ELSE IF IsLocked(f.cur) THEN "help" ELSE "cas"

TryAlloc(t, d) ==
  LET f == Top(t) IN
  /\ At(t, "alloc")
  /\ Allocates(t, d)
  /\ NewDescriptor(t, f, d)
  /\ log' = [log EXCEPT ![d] = EmptyEntries]
  /\ ext' = [ext EXCEPT ![d] = 0]
  /\ Continue(t, [f EXCEPT !.d = d,
                    !.pc = IF lg[t].d = None THEN Acquiring(f) ELSE "commit"])
  /\ callOf' = [callOf EXCEPT ![d] =
                  IF lg[t].d = None THEN Len(calls[t]) ELSE callOf[lg[t].d]]
  /\ UNCHANGED <<lck, x, localVars, prog, calls, stores, made>>

\* The descriptor is committed; the one who loses gives his own back.
TryCommit(t) ==
  LET f == Top(t)  won == Entry(t) = Unset  en == Committed(t, f.d) IN
  /\ At(t, "commit")
  /\ Commit(t, f.d)
  /\ IF won
       THEN /\ Continue(t, [f EXCEPT !.le = lg[t].n + 1, !.pc = Acquiring(f)])
            /\ UNCHANGED <<poolVars, histVars>>
       ELSE /\ Destruct(t, f.d)
            /\ IF IsDone(en)
                 THEN Return(t, en[2])
                 ELSE /\ Continue(t, [f EXCEPT !.d = en[2], !.pc = "acquire"])
                      /\ UNCHANGED histVars
  /\ UNCHANGED <<lck, x, desc, ext, id, helping>>

\* MUTANT: the descriptor is not marked as acquired.
LeavesUnacquired(d) == UNCHANGED desc

Acquire(d) == desc' = [desc EXCEPT ![d].acquired = TRUE]

\* new_obj_acquired: acquires the descriptor of another run, and then looks
\* whether that run has retired it meanwhile.
TryAcquire(t) ==
  /\ At(t, "acquire")
  /\ Acquire(Top(t).d)
  /\ Goto(t, "recheck")
  /\ UNCHANGED <<lck, x, log, ext, poolVars, localVars, histVars>>

TryRecheck(t) ==
  LET f == Top(t)  en == log[lg[t].d][lg[t].n] IN
  /\ At(t, "recheck")
  /\ IF IsDone(en)
       THEN Return(t, en[2])
       ELSE Goto(t, Acquiring(f)) /\ UNCHANGED histVars
  /\ UNCHANGED <<heapVars, poolVars, localVars>>

TryCas(t) ==
  LET f == Top(t) IN
  /\ At(t, "cas")
  /\ lck' = IF lck[f.lock] = f.cur THEN [lck EXCEPT ![f.lock] = f.d] ELSE lck
  /\ Goto(t, "check")
  /\ UNCHANGED <<x, desc, log, ext, poolVars, localVars, histVars>>

\* Runs the section under the log of the descriptor in it, with_log.
RunUnder(t, d, f) ==
  /\ CallThen(t, Body(desc[d].lock, desc[d].path), f)
  /\ lg' = [lg EXCEPT ![t] = LogOf(d)]

\* MUTANT: a run that finds the lock released does not look at `done'.
HoldsLock(f) == lck[f.lock] = f.d

TookLock(f) == desc[f.d].done \/ lck[f.lock] = f.d

TryCheck(t) ==
  LET f == Top(t) IN
  /\ At(t, "check")
  /\ IF TookLock(f)
       THEN RunUnder(t, f.d, [f EXCEPT !.pc = "ran"])
       ELSE Goto(t, "result") /\ UNCHANGED lg
  /\ UNCHANGED <<heapVars, poolVars, id, helping, histVars>>

TryRan(t) ==
  LET f == Top(t) IN
  /\ At(t, "ran")
  /\ desc' = [desc EXCEPT ![f.d].done = TRUE]
  /\ lg' = [lg EXCEPT ![t] = f.lg]
  /\ Goto(t, "clear")
  /\ UNCHANGED <<lck, x, log, ext, poolVars, id, helping, histVars>>

Clear(l, d) ==
  lck' = IF lck[l] = d THEN [lck EXCEPT ![l] = desc[d].counter + 1] ELSE lck

TryClear(t) ==
  LET f == Top(t) IN
  /\ At(t, "clear")
  /\ Clear(f.lock, f.d)
  /\ Goto(t, "result")
  /\ UNCHANGED <<x, desc, log, ext, poolVars, localVars, histVars>>

\* MUTANT: every run retires the descriptor.
EveryoneOwns(t, f) == TRUE

Owns(t, f) == lg[t].d = None \/ f.le # 0

\* The run that committed the descriptor replaces it by the result in the
\* log before it retires the descriptor.
TryResult(t) ==
  LET f == Top(t) IN
  /\ At(t, "result")
  /\ IF Owns(t, f) THEN Goto(t, "retire") /\ UNCHANGED histVars
                   ELSE Return(t, f.res)
  /\ log' = IF f.le = 0 THEN log ELSE [log EXCEPT ![lg[t].d][f.le] = Done(f.res)]
  /\ UNCHANGED <<lck, x, desc, ext, poolVars, localVars>>

TryRetire(t) ==
  /\ At(t, "retire")
  /\ Retire(t, Top(t).d)
  /\ Return(t, Top(t).res)
  /\ UNCHANGED <<lck, x, log, ext, localVars>>

(***************************************************************************)
(* with_lock                                                               *)
(***************************************************************************)
\* Not logged: every run of an enclosing section reads the lock for itself.
WithRead(t) ==
  /\ At(t, "with")
  /\ Continue(t, [Top(t) EXCEPT !.cur = lck[Top(t).lock], !.pc = "alloc"])
  /\ UNCHANGED <<heapVars, poolVars, localVars, histVars>>

\* The counter of the descriptor is raised to the one that will be replaced.
WithCount(t) ==
  LET f == Top(t)  old == desc[f.d].counter IN
  /\ At(t, "count")
  /\ Continue(t, IF ~IsLocked(f.cur) /\ old < f.cur
                   THEN [f EXCEPT !.old = old, !.pc = "raise"]
                   ELSE [f EXCEPT !.pc = "test"])
  /\ UNCHANGED <<heapVars, poolVars, localVars, histVars>>

WithRaise(t) ==
  LET f == Top(t)  now == desc[f.d].counter IN
  /\ At(t, "raise")
  /\ IF now = f.old
       THEN desc' = [desc EXCEPT ![f.d].counter = f.cur] /\ Goto(t, "test")
       ELSE UNCHANGED desc /\ Continue(t, [f EXCEPT !.cur = now, !.pc = "test"])
  /\ UNCHANGED <<lck, x, log, ext, poolVars, localVars, histVars>>

WithTest(t) ==
  LET f == Top(t) IN
  /\ At(t, "test")
  /\ IF desc[f.d].done \/ f.cur = f.d
       THEN RunUnder(t, f.d, [f EXCEPT !.pc = "ran"])
       ELSE Goto(t, IF IsLocked(f.cur) THEN "help" ELSE "take") /\ UNCHANGED lg
  /\ UNCHANGED <<heapVars, poolVars, id, helping, histVars>>

WithCas(t) ==
  LET f == Top(t) IN
  /\ At(t, "take")
  /\ IF lck[f.lock] = f.cur
       THEN /\ lck' = [lck EXCEPT ![f.lock] = f.d]
            /\ RunUnder(t, f.d, [f EXCEPT !.pc = "ran"])
       ELSE Goto(t, "again") /\ UNCHANGED <<lck, lg>>
  /\ UNCHANGED <<x, desc, log, ext, poolVars, id, helping, histVars>>

WithAgain(t) ==
  /\ At(t, "again")
  /\ Continue(t, [Top(t) EXCEPT !.cur = lck[Top(t).lock], !.pc = "count"])
  /\ UNCHANGED <<heapVars, poolVars, localVars, histVars>>

(***************************************************************************)
(* help_descriptor, of the descriptor that the lock word held              *)
(***************************************************************************)
\* try_lock gives up after helping, with_lock tries again.
AfterHelp == IF prog.with THEN "again" ELSE "result"

Help(t) ==
  LET f == Top(t) IN
  /\ At(t, "help")
  /\ Goto(t, IF helping[t] \/ lck[f.lock] # f.cur THEN AfterHelp ELSE "help_id")
  /\ UNCHANGED <<heapVars, poolVars, localVars, histVars>>

HelpInherit(t) ==
  LET f == Top(t) IN
  /\ At(t, "help_id")
  /\ id' = [id EXCEPT ![t] = desc[f.cur].thread]
  /\ Continue(t, [f EXCEPT !.id = id[t], !.pc = "help_acquire"])
  /\ UNCHANGED <<heapVars, poolVars, lg, helping, histVars>>

HelpAcquire(t) ==
  /\ At(t, "help_acquire")
  /\ Acquire(Top(t).cur)
  /\ Goto(t, "help_check")
  /\ UNCHANGED <<lck, x, log, ext, poolVars, localVars, histVars>>

StopHelping(t, f) ==
  /\ id' = [id EXCEPT ![t] = f.id]
  /\ helping' = [helping EXCEPT ![t] = FALSE]
  /\ Continue(t, [f EXCEPT !.res = FALSE, !.id = None, !.pc = AfterHelp])

HelpCheck(t) ==
  LET f == Top(t) IN
  /\ At(t, "help_check")
  /\ IF lck[f.lock] = f.cur
       THEN /\ RunUnder(t, f.cur, [f EXCEPT !.pc = "helped"])
            /\ helping' = [helping EXCEPT ![t] = TRUE]
            /\ UNCHANGED id
       ELSE StopHelping(t, f) /\ UNCHANGED lg
  /\ UNCHANGED <<heapVars, poolVars, histVars>>

Helped(t) ==
  LET f == Top(t) IN
  /\ At(t, "helped")
  /\ desc' = [desc EXCEPT ![f.cur].done = TRUE]
  /\ lg' = [lg EXCEPT ![t] = f.lg]
  /\ Continue(t, [f EXCEPT !.lg = EmptyLog, !.pc = "help_clear"])
  /\ UNCHANGED <<lck, x, log, ext, poolVars, id, helping, histVars>>

HelpClear(t) ==
  LET f == Top(t) IN
  /\ At(t, "help_clear")
  /\ Clear(f.lock, f.cur)
  /\ StopHelping(t, f)
  /\ UNCHANGED <<x, desc, log, ext, poolVars, lg, histVars>>

(***************************************************************************)
(* atomic::store inside a lock: load the tagged word, compare-and-swap the *)
(* next tag unless another run has finished doing so, and say it is done.  *)
(***************************************************************************)
StoreGet(t) ==
  LET f == Top(t) IN
  /\ At(t, "get")
  /\ Commit(t, x[f.lock])
  /\ Continue(t, [f EXCEPT !.cur = Committed(t, x[f.lock])[2], !.pc = "skip"])
  /\ UNCHANGED <<lck, x, desc, ext, poolVars, id, helping, histVars>>

StoreSkip(t) ==
  /\ At(t, "skip") /\ ~AtEnd(t)
  /\ lg' = [lg EXCEPT ![t].n = @ + 1]
  /\ IF Entry(t) = Unset
       THEN Goto(t, "store") /\ UNCHANGED histVars
       ELSE Return(t, TRUE)
  /\ UNCHANGED <<heapVars, poolVars, id, helping>>

\* MUTANT: a plain store instead of the compare-and-swap.
Overwrites(f) == TRUE

Swaps(f) == x[f.lock] = f.cur

\* The call that a descriptor was made for.
CallId(d) == <<desc[d].thread, callOf[d]>>

StoreCas(t) ==
  LET f == Top(t) IN
  /\ At(t, "store")
  /\ IF Swaps(f)
       THEN /\ x' = [x EXCEPT ![f.lock] = f.cur + 1]
            /\ made' = made \cup {CallId(lg[t].d)}
       ELSE UNCHANGED <<x, made>>
  /\ Goto(t, "mark")
  /\ UNCHANGED <<lck, desc, log, ext, poolVars, localVars, prog, calls, stores, callOf>>

StoreMark(t) ==
  /\ At(t, "mark")
  /\ log' = [log EXCEPT ![lg[t].d][lg[t].n] = Word(1)]
  /\ Return(t, TRUE)
  /\ UNCHANGED <<lck, x, desc, ext, poolVars, localVars>>

-----------------------------------------------------------------------------
TryLock(t) ==
  \/ \E d \in Descriptors : TryAlloc(t, d)
  \/ TryLoad(t) \/ TrySelf(t) \/ TryReentered(t) \/ TryCommit(t)
  \/ TryAcquire(t) \/ TryRecheck(t) \/ TryCas(t) \/ TryCheck(t) \/ TryRan(t)
  \/ TryClear(t) \/ TryResult(t) \/ TryRetire(t)

WithLock(t) ==
  \/ WithRead(t) \/ WithCount(t) \/ WithRaise(t) \/ WithTest(t)
  \/ WithCas(t) \/ WithAgain(t)

HelpDescriptor(t) ==
  \/ Help(t) \/ HelpInherit(t) \/ HelpAcquire(t) \/ HelpCheck(t)
  \/ Helped(t) \/ HelpClear(t)

Store(t) == StoreGet(t) \/ StoreSkip(t) \/ StoreCas(t) \/ StoreMark(t)

\* All calls have been made.
Finished ==
  /\ \A t \in Threads : stack[t] = <<>> /\ Len(calls[t]) = prog.calls[t]
  /\ UNCHANGED vars

NextEntry(t) == ExtendLoad(t) \/ ExtendCas(t)

Step(t) ==
  TryLock(t) \/ WithLock(t) \/ HelpDescriptor(t) \/ NextEntry(t) \/ Store(t)

Next ==
  \/ Finished
  \/ \E t \in Threads : Step(t) \/ \E path \in prog.paths[t] : Call(t, path)

Spec == Init /\ [][Next]_vars

-----------------------------------------------------------------------------
\* A call in progress: where it is, its lock and path, and its locals.
Pcs == {"load", "self", "reentered", "alloc", "commit", "acquire", "recheck", "cas",
        "check", "ran", "clear", "result", "retire", "help", "help_id",
        "help_acquire", "help_check", "helped", "help_clear", "with", "count",
        "raise", "test", "take", "again", "get", "skip", "store", "mark"}
Log == [d : Descriptors \cup {None}, n : 0 .. LogLen, block : 0 .. LogLen, new : BOOLEAN]
Frames == [pc : Pcs, lock : Locks, path : Seq(Locks),
           cur : Nat \cup Descriptors \cup {None}, d : Descriptors \cup {None},
           old : Nat, le : 0 .. LogLen, res : BOOLEAN, lg : Log,
           id : Threads \cup {None}]
Entries == ({"unset"} \X {0}) \cup ({"word"} \X (Nat \cup Descriptors))
             \cup ({"done"} \X BOOLEAN)

\* The types of the variables; in particular the word that a released lock
\* is given is always a counter.
TypeOK ==
  /\ prog \in Programs
  /\ lck \in [Locks -> Nat \cup Descriptors]
  /\ x \in [Locks -> Nat] /\ stores \in [Locks -> Nat]
  /\ desc \in [Descriptors ->
       [path : Seq(Locks), lock : Locks \cup {None}, done : BOOLEAN,
        acquired : BOOLEAN, thread : Threads \cup {None}, counter : Nat]]
  /\ log \in [Descriptors -> [1 .. LogLen -> Entries]]
  /\ ext \in [Descriptors -> 0 .. LogLen]
  /\ status \in [Descriptors -> {"fresh", "live", "freed", "retired", "twice"}]
  /\ freeList \in [Threads -> Seq(Descriptors)]
  /\ stack \in [Threads -> Seq(Frames)]
  /\ lg \in [Threads -> Log]
  /\ id \in [Threads -> Threads] /\ helping \in [Threads -> BOOLEAN]
  /\ calls \in [Threads -> Seq(Seq(Locks))]
  /\ \A t \in Threads : calls[t] \in Seq(prog.paths[t]) /\ Len(calls[t]) <= prog.calls[t]
  /\ callOf \in [Descriptors -> Nat] /\ made \in SUBSET (Threads \X Nat)

Idle == \A t \in Threads : stack[t] = <<>>

\* However many threads ran a section, and wherever they stopped or overtook
\* each other, it stored once when its try_lock returned true, and not at all
\* when it returned false.
EffectOnce == Idle => \A l \in Locks : x[l] = stores[l]

\* The descriptor that must be in the lock of the atomic while the section of
\* s stores to it: s itself, or, when the last lock of the path was the own one
\* of its thread already, the descriptor that the runs logged there.
Holder(s) == LET n == Len(desc[s].path) IN IF n = 0 THEN s ELSE log[s][n][2]

\* Only a run of a section that holds the lock, of the same call of the same
\* thread, changes what the lock protects; a run that is late never does.
StoresUnderLock ==
  [][\A l \in Locks : x'[l] # x[l] =>
       \E t \in Threads : LET s == lg[t].d IN
         /\ At(t, "store") /\ lck[l] = Holder(s) /\ IsLocked(lck[l])
         /\ CallId(lck[l]) = CallId(s)]_vars

\* A section is never run under the log of a descriptor that has been freed.
NoRunAfterFree ==
  \A t \in Threads : lg[t].d # None => status[lg[t].d] \in {"live", "retired"}

\* No descriptor is given back twice, and when nobody is in a call, all have
\* been given back and all locks are free.
NothingLeft ==
  /\ \A d \in Descriptors : status[d] # "twice"
  /\ Idle => /\ \A l \in Locks : ~IsLocked(lck[l])
             /\ \A d \in Descriptors : status[d] # "live"

\* "check if reentrant lock (already locked by self)": a thread that runs a
\* section without taking the lock has found a descriptor of this lock there,
\* of the section that it runs or of one around it in the same call.
ReentersOwnLock ==
  \A t \in Threads : \A k \in 1 .. Len(stack[t]) :
    LET f == stack[t][k]
        s == f.lg.d
        w == f.cur
    IN f.pc = "reentered" =>
         /\ s # None /\ desc[w].lock = f.lock /\ CallId(w) = CallId(s)
         /\ w = s \/ Len(desc[s].path) < Len(desc[w].path)
=============================================================================
