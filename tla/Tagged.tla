------------------------------- MODULE Tagged -------------------------------
(***************************************************************************)
(* Tagged words: include/flock/tagged.h, as atomic::store of lf_types.h    *)
(* uses them inside a lock.                                                *)
(*                                                                         *)
(* One location is written by sections that follow one another under a     *)
(* lock.  The runs of a section share its log (the old word and the mark   *)
(* of skip_if_done); a run may still be under way when its section is over *)
(* and others have come after it.  All sections store the same value, so   *)
(* that words differ in their tags only: nothing else can save a late      *)
(* compare-and-swap.  A load and the commit of its value are one step, as  *)
(* in LfLock.                                                              *)
(*                                                                         *)
(* A tag is a count above the panic bit; it has TagBits bits, 16 in the    *)
(* code.                                                                   *)
(***************************************************************************)
EXTENDS Integers

CONSTANTS
  Workers,  \* the threads are 1 .. Workers, in the order of a scan
  TagBits,
  MaxStores,\* bound: the sections
  MaxRuns,  \* bound: the runs of each thread
  None

ASSUME TaggedAssumption ==
  /\ Workers \in Nat /\ MaxStores \in Nat /\ MaxRuns \in [1 .. Workers -> Nat]
  /\ TagBits \in Nat /\ TagBits >= 3

VARIABLES
  word,   \* the tag in the location
  sec,    \* the section that has the lock
  old,    \* log, per section: the word that its runs replace
  done,   \* log, per section: whether the store has been made
  ann,    \* announcements: per thread the tag that it holds
  run,    \* per thread: the run in progress
  runs,   \* history: the runs begun
  writes  \* history: the successful compare-and-swaps of a section

vars == <<word, sec, old, done, ann, run, runs, writes>>

Threads == 1 .. Workers
Sections == 1 .. MaxStores
Tags == 0 .. 2 ^ TagBits - 1

Panic(tag) == tag % 2 = 1
WithPanic(tag) == 2 * (tag \div 2) + 1
NoPanic(tag) == 2 * (tag \div 2)
TopBit(tag) == tag \div 2 ^ (TagBits - 1)

inc_tag(tag) ==
  LET new == (tag + 2) % 2 ^ TagBits IN IF new = 0 THEN 2 ELSE new

\* MUTANT: the tag after the old one is always taken.
NeverScans(tag) == FALSE

MustScan(tag) == TopBit(tag) # TopBit(inc_tag(tag)) \/ Panic(tag)

\* An announced tag that the tags after new will come to.
Ahead(a, new) == a # None /\ TopBit(a) = TopBit(new) /\ a >= NoPanic(new)

\* The first tag from new on that has not been announced.
Unannounced(seen, new) ==
  LET from[tag \in Tags] == IF tag \in seen THEN from[inc_tag(tag)] ELSE tag
  IN  from[new]

-----------------------------------------------------------------------------
NoRun == [pc |-> "idle", k |-> 0, old |-> 0, new |-> 0, slot |-> 1, seen |-> {}]

Init ==
  /\ word = 2 /\ sec = 1   \* init: the first count
  /\ old = [k \in Sections |-> None] /\ done = [k \in Sections |-> FALSE]
  /\ ann = [t \in Threads |-> None] /\ run = [t \in Threads |-> NoRun]
  /\ runs = [t \in Threads |-> 0] /\ writes = [k \in Sections |-> 0]

At(t, where) == run[t].pc = where
Goto(t, where) == run' = [run EXCEPT ![t].pc = where]

\* A thread takes the lock, or helps the one who has it.
Begin(t) ==
  /\ At(t, "idle") /\ sec <= MaxStores /\ runs[t] < MaxRuns[t]
  /\ run' = [run EXCEPT ![t] = [NoRun EXCEPT !.pc = "get", !.k = sec]]
  /\ runs' = [runs EXCEPT ![t] = @ + 1]
  /\ UNCHANGED <<word, sec, old, done, ann, writes>>

Get(t) ==
  LET k == run[t].k  w == IF old[k] = None THEN word ELSE old[k] IN
  /\ At(t, "get")
  /\ old' = [old EXCEPT ![k] = w]
  /\ run' = [run EXCEPT ![t].old = w, ![t].new = inc_tag(w),
                        ![t].pc = IF MustScan(w) THEN "scan" ELSE "keep"]
  /\ UNCHANGED <<word, sec, done, ann, runs, writes>>

\* next: look for a tag ahead among the announcements, one after the other.
Scan(t) ==
  LET r == run[t] IN
  /\ At(t, "scan")
  /\ run' = [run EXCEPT ![t] =
       IF Ahead(ann[r.slot], r.new) THEN [r EXCEPT !.slot = 1, !.pc = "avoid"]
       ELSE IF r.slot = Workers THEN [r EXCEPT !.pc = "keep"]
       ELSE [r EXCEPT !.slot = @ + 1]]
  /\ UNCHANGED <<word, sec, old, done, ann, runs, writes>>

\* There is one: collect all announcements and take a tag that is not there.
Avoid(t) ==
  LET r == run[t]  seen == r.seen \cup {ann[r.slot]} IN
  /\ At(t, "avoid")
  /\ run' = [run EXCEPT ![t] =
       IF r.slot < Workers THEN [r EXCEPT !.seen = seen, !.slot = @ + 1]
       ELSE [r EXCEPT !.new = WithPanic(Unannounced(seen, r.new)),
                      !.seen = {}, !.pc = "announce"]]
  /\ UNCHANGED <<word, sec, old, done, ann, runs, writes>>

\* There is none: the next tag will do.
Keep(t) ==
  /\ At(t, "keep")
  /\ run' = [run EXCEPT ![t].new = NoPanic(@), ![t].pc = "announce"]
  /\ UNCHANGED <<word, sec, old, done, ann, runs, writes>>

(***************************************************************************)
(* cas_tagged_ inside a lock                                               *)
(***************************************************************************)
Announce(t) ==
  /\ At(t, "announce")
  /\ ann' = [ann EXCEPT ![t] = run[t].old]
  /\ Goto(t, "skip")
  /\ UNCHANGED <<word, sec, old, done, runs, writes>>

\* MUTANT: the compare-and-swap is made whether or not it has been made.
MustStore(k) == TRUE

StillToDo(k) == ~done[k]

SkipIfDone(t) ==
  /\ At(t, "skip")
  /\ Goto(t, IF StillToDo(run[t].k) THEN "cas" ELSE "clear")
  /\ UNCHANGED <<word, sec, old, done, ann, runs, writes>>

Cas(t) ==
  LET r == run[t] IN
  /\ At(t, "cas")
  /\ IF word = r.old
       THEN word' = r.new /\ writes' = [writes EXCEPT ![r.k] = @ + 1]
       ELSE UNCHANGED <<word, writes>>
  /\ Goto(t, "mark")
  /\ UNCHANGED <<sec, old, done, ann, runs>>

Mark(t) ==
  /\ At(t, "mark")
  /\ done' = [done EXCEPT ![run[t].k] = TRUE]
  /\ Goto(t, "clear")
  /\ UNCHANGED <<word, sec, old, ann, runs, writes>>

Clear(t) ==
  /\ At(t, "clear")
  /\ ann' = [ann EXCEPT ![t] = None]
  /\ Goto(t, "return")
  /\ UNCHANGED <<word, sec, old, done, runs, writes>>

\* The section is over; the first run to get here gives the lock to the next.
Return(t) ==
  /\ At(t, "return")
  /\ sec' = IF sec = run[t].k THEN sec + 1 ELSE sec
  /\ run' = [run EXCEPT ![t] = NoRun]
  /\ UNCHANGED <<word, old, done, ann, runs, writes>>

\* All runs have been made.
Finished ==
  /\ \A t \in Threads : At(t, "idle") /\ (sec > MaxStores \/ runs[t] = MaxRuns[t])
  /\ UNCHANGED vars

Next ==
  \/ Finished
  \/ \E t \in Threads :
       \/ Begin(t) \/ Get(t) \/ Scan(t) \/ Avoid(t) \/ Keep(t) \/ Announce(t)
       \/ SkipIfDone(t) \/ Cas(t) \/ Mark(t) \/ Clear(t) \/ Return(t)

Spec == Init /\ [][Next]_vars

-----------------------------------------------------------------------------
\* Every section stores once: a run that comes late finds another word than
\* the one it means to replace, also when the tags have wrapped around, and a
\* section is not over before its store has been made.
StoredOnce ==
  \A k \in Sections :
    /\ writes[k] <= 1
    /\ done[k] \/ k < sec => writes[k] = 1

\* "It properly handles wrap around so tags are never reused if a thread has a
\* pointer to them" (tagged.h:8): when a word is replaced, the new tag is not
\* one that a thread is about to compare with.
NeverReused ==
  [][word' # word => \A t \in Threads : At(t, "cas")' => run[t].old # word']_vars
=============================================================================
