# Verlib in TLA+

Verlib (`src/include/verlib`, on top of `src/include/flock`) lets a concurrent
data structure take a constant-time snapshot of its pointers while other
threads keep updating them. This directory holds a TLA+ model of the part of
it that carries this promise, the TLC configurations that check it, and TLAPS
proofs of the results that hold for every number of threads and objects.

## The system and its parts

| part | state | operations | talks to |
|---|---|---|---|
| epoch reclamation, `flock/epoch.h` | `current_epoch`, one announcement slot per worker, per worker and pool an old and a current list with the epoch of the last rotation | `announce`, `unannounce` (`with_epoch`), `update_epoch`, `new_obj`, `destruct`, `retire`, `clear` | calls the hooks of the time stamps around each increment; used by everything that frees memory |
| time stamps, `verlib/timestamps.h` | the counter or clock behind `global_stamp`; `done_stamp`, `prev_stamp`; per thread `local_stamp`, `current_stamp` | `get_stamp`, `get_read_stamp`, `get_write_stamp`, the epoch hooks, `with_snapshot` | sampled by the epoch hooks; stamps versions; fixes snapshots |
| versioned pointers, `verlib/versioned_hybrid.h` (and `versioned_indirect.h`, `versioned_recorded_once.h`) | the pointer, per object `time_stamp` and `next_version`, the link objects with their `value` | `load`, `read`, `validate`, `store`, `cas`, `init`; inside `set_stamp`, `shortcut`, `read_snapshot` | stamps from `global_stamp`, tests `done_stamp`, allocates and retires links in an epoch pool, `store` under a lock |
| idempotence logs, `flock/lf_log.h`, `lf_types.h` | a log of 8-entry blocks per descriptor; per thread a position in it | `commit_value`, `next_entry`, `skip_if_done`, logged loads, allocation, retire | written by every thread that runs a critical section |
| lock-free locks, `flock/lf_lock.h`, `acquired_pool.h` | the lock word (a counter or a descriptor), descriptors with thunk, `done`, `acquired`, log, epoch and thread id | `try_lock_result`, `with_lock`, `wait_lock`, `help_descriptor` | helpers run the owner's thunk under its log, in its epoch, with its id |
| tagged words, `flock/tagged.h` | a 16 bit tag in each atomic, one announcement per thread | `next`, `cas` | under the lock-free atomics |
| spin locks, `flock/spin_lock.h`, `lock_types.h` | a 32 bit counter per lock | `try_lock_result`, `with_lock` | the NoHelp build |
| structures, `src/structures` | nodes with versioned pointers and a lock or a `removed` flag | insert, remove, find, range | everything above |

Where it is hard: all of it is concurrent with no scheduler of its own. The
epoch scan, the hooks, the counter, the version chain and the shortcut are
each a handful of atomic accesses whose correctness rests on the order in
which other threads see them; two of the words involved (`done_stamp`,
`prev_stamp`) are not even atomic. Nothing is persisted and no message is
sent, so crashes and lost messages do not occur. PROJECT.json lists the
hazards, each at its line with the properties that would notice.

What makes each part correct: a retired object is not freed while an operation
can reach it (epochs); `done_stamp` never passes a running snapshot (hooks);
stamps respect the order of calls that do not overlap (time stamps); a
snapshot is the state at one moment, updates are neither lost nor repeated,
and links are given back exactly once (versioned pointers); every run of a
critical section has the effect of one run (logs and locks).

## Modules

**StampSource** is the abstract specification of `global_stamp`: which stamp a
read, a write or a sample may return, given what was returned before it
started. **Timestamps** models `timestamp_read`, `timestamp_write` and their
hardware variants. Each load, comparison and `fetch_add` is an action.
`IsStampSource` says that these structs implement StampSource; the refinement
maps the history variables `op`, `floor`, `ret`, `maxRead`, `maxWrite` to
themselves. The contention delays are left out, since they only change how
likely an interleaving is.

**Epoch** models `epoch.h` and the hooks. `AnnounceLoad`, `AnnounceExchange` and
`AnnounceRecheck` are the loop of `announce`; `UpdateLoad`, `Scan`, `Scan2`
(each slot is loaded twice), `BeforeHook`, `CasEpoch` and `AfterHook` are
`update_epoch`; `Retire`, `ClearOld`, `Rotate`, `Heuristic` and `Push` are
`retire` with `advance_epoch`; `Clear` is `mem_pool::clear`, which is used at
termination. Whether the heuristic calls `update_epoch` is a choice. The client
is the environment: it allocates, publishes, reads, unlinks and retires in the
order the structures do (`NewObj`, `Publish`, `Read`, `Unlink`, `Destruct`).
`Expose` is what makes versioned pointers harder for reclamation than plain
ones: a writer puts a link that it loaded into `next_version`, so a snapshot
reaches the link although it was retired in the meantime.

**VersionedPtr** models the three versioned pointers in the build with spin locks
(`NoHelp`), as four builds: the hybrid with and without shortcuts
(`versioned_hybrid.h`), one with a link for every version
(`versioned_indirect.h`) and one without links (`versioned_recorded_once.h`).
Nodes and links are the objects; `v`, `time_stamp`, `next_version` and `value` are
the fields of the code. `Load` is load, validate and read outside of a snapshot;
`StampFetch` and `StampCas` are `set_stamp`; `Shortcut` is `shortcut`; `Store`
with `StoreCam`, `StoreCheck` and `StoreRecam`, or with `StoreWrite` in the builds
without shortcuts, is `store`, which runs under the lock of its node, so that
there is one store per pointer at a time; `Cas`, `CasTry`, `CasRetry`,
`RetireOld`, `CasFail` are `cas`, which runs without a lock; `SnapshotLoad`,
`SnapshotAdvance`, `ReadSnapshot`, `Chase`, `SnapshotEnd` are `with_snapshot` with
`timestamp_read`. `AfterHook` lets `done_stamp` grow to the oldest running
snapshot, which is what EpochProofs proves of the hooks. `hist` records the
versions of each pointer in the order of their installation, and the properties
compare what threads see with it. `use`, chosen once, says which build it is and
which thread does what with which pointer.

**LfLock** models `try_lock` and `with_lock` of `lf_lock.h` with what they are
built from: the log (`Commit`, `StoreSkip`, `StoreMark`) with the extension of a
full block (`ExtendLoad`, `ExtendCas`), the idempotent allocation of descriptors
(`TryAlloc`, `TryCommit`, `TryAcquire`, `TryRecheck`), taking and releasing the lock
(`TryCas`, `TryCheck`, `TryRan`, `TryClear`; `WithRead` to `WithAgain` for the loop of
`with_lock`, which raises the counter of its descriptor), `acquired_pool`
(`Retire`) and `help_descriptor` (`Help` to `HelpClear`). A critical section is a
path of locks: it takes the first with the rest as its section, and the innermost
section stores to the atomic that its lock protects. `stack` holds a thread's calls
in progress, so a helper inside a nested section inside a helped one is simply a
longer stack, with the outermost call first. A lock word is a counter or a descriptor; the tag of an atomic
counts its stores. `prog`, chosen once, has the paths and the number of calls of
each thread, which of the two operations they use, and whether the allocator
hands out the blocks a thread has freed, last one first, as `free` and `alloc` of
`parlay/internal/block_allocator.h` do, or fresh ones only. Its shared pool, which
moves whole lists of blocks between threads, is left out. Loading a value and committing it is one step: a value
that wins the commit is the first in its entry, so nobody has looked at the entry
since the load, and one that loses is not used. Descriptors that a helper
acquired go to the epoch pool and are not handed out again within a run. The
epoch that a helper inherits is left out. `callOf` and `made` are history: the call
of its thread that a descriptor was made in, and the calls whose store was made.

**Tagged** models what LfLock leaves out of `tagged.h`: the tag of a word is a few
bits that wrap around, with the panic bit, the scan of the announcements when a
half of the range is entered (`Scan`), the search for a tag that is not announced
(`Avoid`), and the announced compare-and-swap under `skip_if_done` (`Announce` to
`Clear`). The lock is reduced to a sequence of sections, each with its log; a run of
a section may be late by any number of sections.

**SpinLock** has the lock word of `spin_lock.h` and what `try_lock_result` does with
it. The structures that use it model its loads and compare-and-swaps as steps of
their own.

**ConcurrentMap** is the abstract specification of a map: every call takes effect,
or is answered rightly, at one moment between its start and its end. **MapCalls**
has the calls and the history that it speaks of. **List** models
`list/ordered_map.h`: `Start` and `Walk` are `find_location` without locks, `Located`
where its callers go from there, `ValidateNext` and `Validated` the thunk that
`read_lock` runs without a lock, `LockLoad` to `Unlock` the sections of `try_insert`
and `try_remove` with the inner `try_lock`, `Finish` the loop of `try_loop`.
**HashBlock** models one bucket of `hash_block/unordered_map.h`, in the builds with
locks and with `UseCAS`: the load, the copy in a node of the right pool
(`InsertToNode`, `UpdateNode`, `RemoveFromNode`), the installation, and what happens to
the old or the unused node (`Retire`, `Destruct`). Both are refinements of
ConcurrentMap: `map` is what the nodes on the list, or the node in the bucket,
hold; the other variables map to themselves.

**EpochProofs**, **TimestampsProofs**, **VersionedPtrProofs**, **HashBlockProofs**,
**ListProofs**, **LfLockProofs** and **LfLockEffect** hold the theorems. LfLockEffect
builds on LfLockProofs, this on **LfLockFrames**, the lemmas about what a step does to
the logs and the stacks, and that on **LfLockInv**, which only defines the first of the
two invariants of the lock. The **MC** modules give constants their values for TLC. Operators marked MUTANT or Faulty are wrong
variants of the definition after them, used to show that each property notices
such a bug; no specification uses them.

## Runs

| run | instance | checks |
|---|---|---|
| `epoch` | 2 workers, 3 objects, epochs to 4, stamps to 2 | `TypeOK`, `NoUseAfterFree`, `DoneStampSafe`, `HooksSerialised`, `DoneStampMonotone` |
| `timestamps` | 3 threads, all four structs, calls start up to stamp 3 | `TypeOK`, `IsStampSource` |
| `versioned_ptr` | hybrid: a writer, a reader and a snapshot on one pointer, with an old or a new node; a writer and a snapshot with loads on two pointers; two writers with cas and a snapshot. The third also without shortcuts, the last two also indirect and recorded once | `TypeOK`, `SnapshotConsistent`, `SnapshotCurrent`, `VersionsOrdered`, `NothingLost`, `RetiredOnce`, `NoLinkLeaks`, `CasFailsForAReason` |
| `lock` | `try_lock`: three threads on one lock, one of which calls twice, blocks are reused; two threads on L or N with M inside, or L inside L, one calls twice; two threads on L with M and again L inside, or on M alone. `with_lock`: two threads on M inside L and on M; two on M, one calls twice, blocks are reused. A log block has one entry | `TypeOK`, `EffectOnce`, `NoRunAfterFree`, `NothingLeft`, `ReentersOwnLock`, `StoresUnderLock` |
| `tagged` | 24 sections, 4 bit tags, one late run | `StoredOnce`, `NeverReused` |
| `list` | 3 threads, 2 keys, 4 calls: removes of neighbours, a key that goes and comes back, finds | `RetiredSafely`, `Sorted`, `IsMap`, `FindsValue`, `CallsReturn` |
| `hash` | 3 threads, 3 keys, a call each, pools of size 1, 2 and big, both builds | `NodesFit`, `NodesAccountedFor`, `IsMap`, `CallsReturn` |
| `redundant_store` | a writer that may store what is there already | `LinksFreedOnce` is violated |
| `lock_stale_self` | the nested calls of `lock`, blocks are reused | `ReentersOwnLock` is violated |
| `lock_free` | `with_lock`: two threads on M inside L, one on M; only one is sure to run | `LockFree` is violated |
| `hash_find` | as `hash`, with two different values in the bucket | `FindsValue` is violated |
| `tagged_stale` | 18 sections, two late runs | `NeverReused` is violated |

Bounds. An object is freed two rotations, so up to four epochs, after it was
retired: `MaxEpoch` 4 lets an object be read in the first epoch and freed and
allocated again while readers of every later epoch run. Three objects are one
in each list and one in use. A snapshot is threatened by the sample of one
increment becoming `done_stamp` at the next, so two stamps and four epochs
suffice to take a snapshot before, between and after. Two links let
a link be replaced, shortcut and replaced again while a third thread still holds
the first, and three let a new node come between them. Three stamps give a
snapshot of two pointers versions before, at and after its own stamp. The
indirect pointer keeps one link per pointer for good and gets as many more.

A third thread on one lock can help while the owner and another helper are
anywhere in the section, and the second call takes a descriptor that the first
one freed. A section uses at most 4 log entries; with blocks of one entry, every
entry after the first is reached through an extension. Twelve descriptors are
more than these calls allocate, and TLC would stop if they ran out. With 4 tag
bits there are 8 counts in 2 halves, and 24 sections go around three times.

In the list, two keys next to each other make a remove meet an insert or another
remove at its `cur`, its `nxt` and behind it; the second call of one thread lets a
key come back in another node. The lock counter wraps at 2 (`list`) and 4
(`hash`), so every release overflows or the second one does. Two sizes of regular
nodes have all the boundaries that four have.

Some bounds are guards of the model. Epochs and stamps stop growing at `MaxEpoch` and
at the stamps a run has; a stamp never reaches `Tbd`, which stands for "not stamped
yet" (`LastStamp`). A call that needs a link or a hash node waits while all are in use
(`Prepare`, `FreeNodes`); the runs have enough that this does not happen. Which links
the indirect pointers have at the start is one fixed choice, as links are alike.

Deadlock is checked in every run but those of the structures, whose threads stop
after their last call; there `CallsReturn` says more.

Fairness. `CallsReturn` assumes that every thread in a call goes on (`WF` of its
steps): the code has no waiting but the retry of `try_loop`, and the operating
system runs every thread. The number of calls is finite, so the property says
that callers do not block each other or keep each other from finishing forever;
it does not say that one cannot starve among infinitely many others, which is not
true of `try_loop`. `LockFree` assumes only that one thread goes on, which is what
lock-freedom is about. Everything else is safety. The loop of `announce` can be
overtaken without end by epoch increments (see the hazards).

### Findings

* `versioned_ptr::store` of the value that the pointer already has can put a
  retired link back (lines 168-172), because the test for a lost first cam
  compares values. The model needs the writer, one reader whose load shortcuts
  the new link, and a `done_stamp` that has reached the link's stamp. `cas` and
  the `SlowStore` variant return early in this case, and the structures of the
  repository never make such a store; the passing run makes none either.
* `lock_is_self` reads the `thread_id` of a descriptor that it has not acquired.
  Thread b, in a section on N, loads M and finds a's descriptor; a releases M and
  frees it, helps b's section on N under b's id, and allocates the same block for
  M there, with b's id in it. b now finds its own id, takes M for a lock it holds
  already, and runs the section on M while M is free. The trace takes more than
  40 steps of two threads. In `lock` the same calls with fresh blocks are
  correct, and so is the reuse of blocks without nesting.
* `with_lock` is not lock-free inside another `with_lock`, although its comment
  says so for acyclic lock orders (`lf_lock.h:176`). A thread that helps the section
  on L comes to M inside it; if M is taken it may not help again (line 129), and
  spins until M is released by a thread that may have stopped. `wait_lock` passes
  `recursive_help` for this reason (line 160); `with_lock` does not.
* `Node::find` of the hash table returns the value of the entry before the one it
  found, unless that is the first (`unordered_map.h:92-94`). With equal values, as
  in `hash`, nothing is wrong with its answers.
* The search for an unannounced tag compares a candidate without panic bit with
  announcements that have it (`tagged.h:93`), and returns the candidate with the
  bit set. It takes a run that is late by a whole round of tags and whose old tag
  was itself chosen in panic mode, so a first late run causes the panic and a
  second one is hit; with one late run (`tagged`) tags are not reused.

Two observations without a run. In panic mode the increment of the last count
gives 0 with the panic bit, which is not the 0 that `inc_tag` avoids (line 105);
when the next word drops the bit, its tag is 0. And `timestamp_read_write`, the
fall-back when no stamp macro is set, returns a read-mode stamp from
`get_write_stamp` when another writer switches the mode between its two loads
(`timestamps.h:279`), against the comment above it (lines 253-254).

## Proofs

All theorems are about the specifications that the runs check, for every value
of the constants that meets the named assumptions. These are weak: there is a
worker and a node, ids and addresses are numbers, bounds are natural numbers,
`None` is no value and no key, a lock-free lock has finitely many threads, the menu
has calls (and no upsert for the list, which has
none), the sizes of the pools grow from 1, the
initial entries of a bucket have different keys, the lock counter has an even
modulus. TLC evaluates each of them in the runs.

**EpochProofs.** `EpochInv` is the base: an operation in progress has announced the
current epoch or the one before (`SlotInv`), and no operation at a slot that a
scan has passed is older than the epoch with which the scan started (`ScanInv`).
The second is what makes the first inductive: a slot that changes behind the scan
can only be announced with an epoch that its own recheck confirmed.
`HooksExclusive` follows because a thread in its after hook still has its own
announcement one behind the epoch, which stops every other scan.

`Reclamation` needs `ReclaimInv`: every reader of an object in the current list of
t announced at most `epoch[t] + 1`, or `epoch[t] + 2` when it got there through a
version chain, and one rotation, which moves the epoch of the list by two or
more, turns this into bounds that no running operation meets by the time the old
list is cleared. `NoUseAfterFree` alone is not inductive, since it says nothing
about lists that are cleared later.

`SnapshotsProtected` needs `StampInv`: samples are ordered like the increments
they precede, and a snapshot of the current epoch is younger than the sample of
the last increment. `DoneMonotone` uses the same invariant.

**TimestampsProofs.** `CountersAreStampSources` shows that every step of `Spec` is a
step of StampSource or leaves its variables alone, from `SourceInv`: where reads
advance the counter it is past every read stamp returned, it is at least every
write stamp returned, and a call in progress loaded its stamp after it started.
`StampTypes` is its type correctness.

**VersionedPtrProofs.** All eight invariants of the run `versioned_ptr`, for any
number of threads, pointers, nodes, links and stamps and in the four builds, from
one inductive invariant `IInv`:

* `HeapInv`, the versions. `hist` has the versions that were installed; the pointer
  has the newest one (`PtrInv`), each version leads to the one before it
  (`ChainInv`), stamps follow the order of installation (`OrderInv`), and all but
  the newest have one. What stands in a pointer or in a chain need not be the
  version itself, since `shortcut` replaces a link by the node it points to. `Shows`
  says when that is harmless: both have the same value and both are stamped at or
  below `done_stamp`, so no running snapshot can tell them apart.
* `ThreadInv`, one clause per thread: what the reference it holds shows of the
  history, at each point of a load, a store, a cas or a snapshot. A snapshot that
  goes down a chain is never past the version it looks for (`Above`).
* `LockInv`, `RetireInv`, `LeakInv`, `SeenInv`: one store per pointer, a link that was
  retired is in no pointer and has no one else to retire it, every link has
  an owner, and a running cas has seen the values there were.

Each action is shown to keep the part of the thread that takes it, and the parts
of the others with a lemma about bystanders. The theorems assume `NotRedundant`,
that no program stores the value already there; the run `redundant_store` shows
that `RetiredOnce` needs this. They also assume that a pointer is updated by stores
or by casses and not by both (`UsesAssumption`), as in all structures.

**HashBlockProofs.** `NodesAlwaysFit`, `NodesNeverLost` and the refinement
`CallsAreAtomic`: a bucket takes inserts, updates and removes, and says whether a key is
there, as a linearizable map does. `NodeInv` says that every node in
use holds each key once and comes from the pool for its number of entries;
`ShareInv` that it is in exactly one place; `LockInv` that one thread is past the
lock, whose counter may have wrapped around; `LocalInv` that the node a thread has
made is the right copy of the node it loaded (`Made`). Both builds install a copy in
the same way once that is known (`Installs`), so that the map changes at the key of
the call and nowhere else. The lemmas `AppendLookup`, `UpdateLookup` and `RemoveLookup` are
about the copying functions, for entries of any length. That a find says
whether the key is there is part of the refinement; which value it returns is not
(`FindsValue`, see the findings).

An attempt at this proof showed that the effect of a remove (`What`) had been given by
a CASE with two true arms, whose value TLA+ leaves open; it is an IF now.

**ListProofs.** `NodesRetiredSafely`, `ListStaysSorted`, `FindsReturnSeenValues` and the
refinement `CallsAreAtomic`: the sorted list is a linearizable map. The nodes on the
list (`Reach`) are the least set that has the root and is closed under `next`; with
this definition a store behind a node on the list can be shown to add or take away
exactly one node (`SpliceReach`, `CutReach`) without induction along the list. The
invariant has three ideas:

* The shape. `SortInv` says that every node, on the list or cut out, is followed by a
  larger one; `ReachInv` that the list has every key once and that no node on it is
  jumped over by the `next` of another; `RemovedInv` that what is off the list is
  marked. So a node that is not marked, and is locked, is on the list.
* The locks. Two threads never hold the same node (`Exclusive`), so what a section has
  checked of its nodes stays true until its store (`Sure`), and `Bystander` carries what
  a thread knows over the steps of the others.
* Hindsight. A walk without locks may be on nodes that were cut out long ago, and
  `find_` does not check the place it found, so its answer need not be right when it is
  given. `TrailInv` says that it was right at some moment of the call: the walk moves in
  a set of nodes that is closed under `next`, and each node of it, were the walk to stop
  there, gives an answer that the call has seen. At the start the set is the list; a
  store of another thread keeps it when the list after the store is added (`TrailKept`).

The effects on the map are the store to `next` in `Splice` and in `Shortcut`; marking a
node as removed is not one. The counter of the lock may wrap around at any even number.

The inductive invariants were also checked with TLC, on the instances of the runs.

**LfLockProofs.** `TypeOK`, `NoRunAfterFree` and `NothingLeft`, for any threads, locks,
paths of locks, descriptors, lengths of the log and of its blocks, and for both
`try_lock` and `with_lock`, from the inductive invariant `InvA`. Each of the two
safety properties needs nearly all of it, because who may give a descriptor back
depends on what the log of the section around it says. Its ideas:

* The log decides. All runs of a section are at the same place when they are at the
  same entry (`FrameShape`), so a section is known by its log: with a word of its own
  thread at each level it found all its locks reentrant and stores itself (`Base`);
  otherwise it forks at exactly one level (`Forks`, `OneFork`), and the descriptor that
  it made there is in the entry behind it (`HasChild`) until its result is.
* `Settled` sections. A section whose store is marked, or whose nested section has a
  recorded result or is over, can change nothing any more; a section that is done is
  settled (`DoneSettled`). Hence a late run of it comes to the same end as the first
  one did, which is why a helper may set `done`.
* `Held` sections. A section is run only when its descriptor is, or was, in the lock.
  A descriptor that lost the commit never was (`Privacy`), so freeing it at once is safe.
* `Owner`. Each descriptor that is live has exactly one frame that will give it back: the
  one that allocated it until its commit, and then the run that won the commit and
  whose result will win (`OwnersUnique`, `LiveOwned`).
* `Safe`. Who runs a section as a helper has set `acquired` while the descriptor was in
  the lock, so that it goes to the epoch pool; who runs it as its owner has it on the
  stack below (`Guarded`).
* `ChainOrdered`. The descriptors of one thread in the locks are a chain of nested
  sections, each made by the one before. Only the innermost may release, so that
  the counters of the locks grow (`CountersOK`) and an over section stays over.

**LfLockEffect.** `EffectOnce` and `StoresUnderLock`: however many threads run a
section, and however late, its store is made once, while its lock is held, and a call
returns true exactly when its store was made. The invariant is `InvA` with a
second one, `InvB`, which ties the logs to the atomics and to the history:

* `Stored`, for a section at its store: the tag in its log is smaller than the tag of
  the atomic. All runs log the same tag, so a compare-and-swap can only succeed in a
  section that is not `Stored`.
* `Advanced`: no run of the section stores any more but through a nested section that
  is in its lock. A section in a lock has `Advanced` if its call has stored or another
  descriptor of the call was run and has left its lock (`InstalledB`). Among the sections
  of a call in locks only the innermost can be at its store, and by `SameTarget` no two
  sections are at the same atomic; so a store that succeeds is the first of its call.
* Results. A result is in the log, in a frame that is about to return it, or handed to
  the frame that waits for it, and at each of these places it says whether the call is
  in `made` (`EntriesB`, `FramesB`, `ReturnedB`). `RootFirst` says that the thread
  itself makes no second descriptor for a call.
* `Counted`: the tag of an atomic is the number of calls that have returned true plus
  the calls that have stored and not yet returned (`Pending`). With no call in
  progress the second number is 0, and this is `EffectOnce`.
* `OuterAt`: a logged lock word that is the thread's own is a descriptor for that lock,
  made for the same call, and is the section itself or one around it. This holds for
  late runs too, since it is about the log.

The proof showed that two properties, as they were first stated, held only because the
programs of the run did not take a lock again with another one in between (L, then M,
then L): `StoresUnderLock` asked for the descriptor of the storing run in the
lock, which is then the one of the outer section, and `ReentersOwnLock` for the
descriptor on the stack of the thread, where a helper of the section on M does not have
it. They now say what is meant, and the run has such a program.

The theorems about LfLock assume `ReuseIsFlat`: a program in which freed blocks are handed out
again at once has no nested sections. With both, `lock_is_self` may read the id
of a reused descriptor, which is the finding of `lock_stale_self`. So the theorems speak
of two kinds of programs: flat ones on the allocator as it is, and nested ones on an
allocator that gives fresh blocks. The code nests sections on an allocator that
reuses blocks, and of this combination nothing is proved. The programs of the run
`lock` satisfy `ReuseIsFlat`.

`ReentersOwnLock` is not stated as a theorem. Only nested programs enter a lock again, and
under `ReuseIsFlat` those never reuse a block, so a theorem would leave out the one
case in which the property is in danger, and in which it is false. It is checked by
`lock`, for fresh blocks, and refuted by `lock_stale_self`, for reused ones.

*Only model-checked.* Tagged, and `ReentersOwnLock` of LfLock. That calls return (`CallsReturn`)
and that one thread makes progress (`LockFree`) are liveness under fairness, which
TLAPS does not prove here. `NeverReused` is false in general (run `tagged_stale`) and
holds for the bounds of the passing run.
Properties of functions defined by recursion need an induction principle that takes an
operator, which the provers cannot instantiate. Where a least element or a least
closed set is enough (`WellOrdered`, `LeastOf`, `Reach`), induction is avoided.

## Not modelled

Of the parts that have a module: `timestamp_tl2` and the lazy snapshots
(`LazyStamp`), `timestamp_read_write`; `casz`, `SlowStore` and the versioned pointers
over lock-free locks; `wait_lock`, the epoch that helpers inherit, `commit_value_safe`
and the logged allocation of user objects; `with_lock` and the variants without
release of the spin lock; the range queries of the list, its `Recorded_Once` branch
and the destructors of the structures.

Without a module: the leaf trees, the b-tree and the radix tree, the doubly linked
and the one-lock list, `hash/set.h`. The b-tree and the radix tree rebalance over
several levels, and the instances in which that happens are out of TLC's reach at
the grain of single loads.

Out of scope are `include/parlay` but for the order in which blocks are reused, `setbench` and `rqsize_benchmark` (vendored code
and the systems compared with, by far most of the repository's lines), the
benchmark drivers, and `timestamp_multiple`, `atomic_val.h`, `atomic_double` and
`atomic_aba_free`, which nothing uses. The memory model is sequential consistency:
the code uses seq_cst accesses except where a slot or an announcement is cleared
and an entry marked (release), and for the plain `done_stamp` and `prev_stamp`.

## Plan

1. *Proofs*: the tags of Tagged, for one late section.
2. *Structures*: range queries of the list inside a snapshot, over VersionedPtr; the
   leaf tree against ConcurrentMap.
3. *Snapshots*: `timestamp_tl2` and the lazy `with_snapshot` with its retry.
4. *Locks*: `wait_lock`, and the epoch that helpers inherit, as an extension of
   Epoch with three workers.
5. *Composition*: VersionedPtr over Epoch, with links that are reused.
