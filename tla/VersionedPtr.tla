---------------------------- MODULE VersionedPtr ----------------------------
(***************************************************************************)
(* Versioned pointers with spin locks (NoHelp), in four builds: with       *)
(* on-demand indirection and shortcuts, include/verlib/versioned_hybrid.h, *)
(* the same without shortcuts (NoShortcut), with a link for every version, *)
(* versioned_indirect.h (FullyIndirect), and without links,                *)
(* versioned_recorded_once.h (Recorded_Once).                              *)
(*                                                                         *)
(* A pointer holds a node, a link (ver_link) to a node, or null.  Versions *)
(* carry a time stamp, which is tbd until some thread sets it, and the     *)
(* version that they replaced (next_version).  In the hybrid builds a node *)
(* that is not stamped yet is new and is installed directly; null, and a   *)
(* node that is already part of some version, are installed through a new  *)
(* link.  Once no snapshot can need the versions below a link (its stamp   *)
(* is at most done_stamp), a reader replaces the link by its value: the    *)
(* shortcut.                                                               *)
(*                                                                         *)
(* Every access to a shared word is a step of its own, with exceptions     *)
(* that change no outcome.  The test for tbd in set_stamp is made with the *)
(* load of the clock, because a stamp once set never changes; the test of  *)
(* shortcut is made with its compare-and-swap, because a stamp that is at  *)
(* most done_stamp stays so; the load before the second try of cas is made *)
(* with that try, because the try fails whenever the load would have.      *)
(* What is still private (a new link, a node nobody else has) is written   *)
(* with the next shared access.                                            *)
(*                                                                         *)
(* The clock is timestamp_read.  The epoch hooks appear through what       *)
(* EpochProofs proves of them: done_stamp may grow up to the stamp of the  *)
(* oldest running snapshot.  Links are not reused here after they have     *)
(* been retired; which of the free ones the pool hands out does not matter *)
(* and is fixed.                                                           *)
(*                                                                         *)
(* Operators marked MUTANT are wrong variants of the definition below them *)
(* and appear in no specification: they are the bugs that the properties   *)
(* are shown to catch.                                                     *)
(***************************************************************************)
EXTENDS Integers, Sequences, FiniteSets, FiniteSetsExt, Functions

CONSTANTS
  Threads,
  Ptrs,        \* the versioned pointers
  Nodes,       \* the objects of type V that pointers point to
  Links,       \* the ver_links of link_pool
  Null,
  Uses,        \* the ways a program may use the pointers, see UseTypes
  MaxStamp     \* bound on the clock

Builds == {"hybrid", "noshortcut", "indirect", "once"}

\* `stored' are the pointers updated by store, under the lock of their node,
\* `cassed' those updated by cas, without a lock.  The program has some nodes;
\* `initial' are those that init or a constructor put there.  Of the threads,
\* some write, some read outside of a snapshot, with the operations in `ops',
\* and some run with_snapshot, while the clock is below `stamps'.  A redundant store is
\* one of the value that is already there.  At most `links' links are in use.
UseTypes ==
  [build : Builds, links : 0 .. Cardinality(Links),
   stored : SUBSET Ptrs, cassed : SUBSET Ptrs,
   nodes : SUBSET Nodes, initial : SUBSET Nodes,
   writers : SUBSET Threads, readers : SUBSET Threads,
   ops : SUBSET {"load", "validate", "read"}, snapshotters : SUBSET Threads,
   redundant : BOOLEAN, stamps : 0 .. MaxStamp]

\* A pointer that is stored under a lock is not changed by a cas as well.
ASSUME UsesAssumption ==
  Uses \subseteq UseTypes /\ \A u \in Uses : u.stored \cap u.cassed = {}
ASSUME MaxStampAssumption == MaxStamp \in Nat
ASSUME RefsAssumption == Nodes \cap Links = {} /\ Null \notin Nodes \cup Links

Objects == Nodes \cup Links
Refs == Objects \cup {Null}
Values == Nodes \cup {Null}

Tbd == MaxStamp + 100   \* larger than any stamp
LastStamp == Tbd - 1    \* bound on how far late fetch_adds take the clock
ZeroStamp == 1
NoStamp == -1
Unread == "unread"

VARIABLES
  use,            \* how this program uses the pointers
  v,              \* versioned_ptr::v
  time_stamp, next_version,
  value,          \* ver_link::value
  stamp, done_stamp,
  local_stamp,    \* thread local
  pc,
  loc,            \* the locals of the operation a thread is in
  links,          \* links allocated and not destructed
  retires,        \* how often a link has been retired
  hist,           \* history: the versions installed in a pointer, in order
  seen,           \* history: the version the last completed call ended with
  window,         \* history: what a snapshot may and must contain
  snap            \* the values a snapshot has read

heapVars  == <<use, v, time_stamp, next_version, value>>
clockVars == <<stamp, done_stamp>>
linkVars  == <<links, retires>>
histVars  == <<hist, seen>>
snapVars  == <<local_stamp, window, snap>>
vars == <<heapVars, clockVars, pc, loc, linkVars, histVars, snapVars>>

Used == use.stored \cup use.cassed

IsIndirect(x) == x \in Links

\* The new value needs a link: it is null or already part of a version.
UseIndirect(x) ==
  CASE use.build = "indirect" -> TRUE
    [] use.build = "once"     -> FALSE
    [] OTHER                  -> x = Null \/ time_stamp[x] # Tbd

\* get_ptr: the node a reference stands for.
GetPtr(x) == IF IsIndirect(x) THEN value[x] ELSE x

\* The arguments of the operation (p, arg, exp), the locals old_v, new_v and t
\* of the code, the reference at hand, where to go once it is stamped, and the
\* version the operation linearizes at.
NoLocals == [op |-> "none", p |-> Null, arg |-> Null, exp |-> Null,
             old |-> Null, new |-> Null, cur |-> Null, t |-> 0,
             cont |-> "return", version |-> 0]

Goto(t, where) == pc' = [pc EXCEPT ![t] = where]

\* Calls set_stamp(x) with the locals l and continues at `where'.
CallSetStamp(t, l, x, where) ==
  /\ loc' = [loc EXCEPT ![t] = [l EXCEPT !.cur = x, !.cont = where]]
  /\ Goto(t, "stamp")

\* The new version is in v: an entry of the pointer's history.
Installed(p, x) == hist' = [hist EXCEPT ![p] = Append(@, x)]

RetireLink(x) ==
  retires' = IF IsIndirect(x) THEN [retires EXCEPT ![x] = @ + 1] ELSE retires

ActiveStamps == {local_stamp[t] : t \in Threads} \ {NoStamp}

-----------------------------------------------------------------------------
\* What init and the constructors leave in the pointers.  A program that is to
\* record its nodes once does so from the start, and never stores null.
Constructed ==
  CASE use.build = "indirect" ->
         LET distinct == {refs \in [Used -> Links] : IsInjective(refs)}
         IN {refs \in distinct : refs = CHOOSE r \in distinct : TRUE}
    [] use.build = "once"     -> {refs \in [Used -> use.initial] : IsInjective(refs)}
    [] OTHER                  -> [Used -> use.initial \cup {Null}]

Init ==
  /\ use \in Uses
  /\ \E refs \in Constructed :
       v = [p \in Ptrs |-> IF p \in Used THEN refs[p] ELSE Null]
  /\ links = Range(v) \cap Links
  /\ \E vals \in [links -> use.initial \cup {Null}] :
       value = [x \in Links |-> IF x \in links THEN vals[x] ELSE Null]
  /\ time_stamp = [x \in Objects |->
                     IF \E p \in Ptrs : v[p] = x THEN ZeroStamp ELSE Tbd]
  /\ next_version = [x \in Objects |-> Null]
  /\ stamp = 1
  /\ done_stamp = 1
  /\ local_stamp = [t \in Threads |-> NoStamp]
  /\ pc = [t \in Threads |-> "idle"]
  /\ loc = [t \in Threads |-> NoLocals]
  /\ retires = [x \in Links |-> 0]
  /\ hist = [p \in Ptrs |-> IF v[p] = Null THEN <<>> ELSE <<v[p]>>]
  /\ seen = [p \in Ptrs |-> Len(hist[p])]
  /\ window = [t \in Threads |-> [p \in Ptrs |-> <<0, 0>>]]
  /\ snap = [t \in Threads |-> [p \in Ptrs |-> Unread]]

(***************************************************************************)
(* set_stamp                                                               *)
(***************************************************************************)
StampFetch(t) ==
  LET x == loc[t].cur IN
  /\ pc[t] = "stamp"
  /\ IF x = Null \/ time_stamp[x] # Tbd
       THEN Goto(t, loc[t].cont) /\ UNCHANGED loc
       ELSE Goto(t, "stamp_cas") /\ loc' = [loc EXCEPT ![t].t = stamp]
  /\ UNCHANGED <<heapVars, clockVars, linkVars, histVars, snapVars>>

StampCas(t) ==
  LET x == loc[t].cur IN
  /\ pc[t] = "stamp_cas"
  /\ time_stamp' = IF time_stamp[x] = Tbd
                     THEN [time_stamp EXCEPT ![x] = loc[t].t]
                     ELSE time_stamp
  /\ loc' = [loc EXCEPT ![t].t = 0]
  /\ Goto(t, loc[t].cont)
  /\ UNCHANGED <<use, v, next_version, value, clockVars, linkVars, histVars,
                 snapVars>>

(***************************************************************************)
(* shortcut, of the link at hand                                           *)
(***************************************************************************)
\* MUTANT: cuts a link out although a snapshot may still need what is below.
EagerCutsOut(t) ==
  use.build = "hybrid" /\ IsIndirect(loc[t].cur) /\ v[loc[t].p] = loc[t].cur

CutsOut(t) ==
  LET x == loc[t].cur IN
  /\ use.build = "hybrid" /\ IsIndirect(x)
  /\ time_stamp[x] <= done_stamp /\ v[loc[t].p] = x

\* MUTANT: also a thread whose cas has failed retires the link.
AnyoneRetires(t) ==
  use.build = "hybrid" /\ IsIndirect(loc[t].cur) /\ time_stamp[loc[t].cur] <= done_stamp

ShortcutRetires(t) == CutsOut(t)

Shortcut(t) ==
  LET x == loc[t].cur IN
  /\ pc[t] = "shortcut"
  /\ v' = IF CutsOut(t) THEN [v EXCEPT ![loc[t].p] = value[x]] ELSE v
  /\ IF ShortcutRetires(t) THEN RetireLink(x) ELSE UNCHANGED retires
  /\ Goto(t, "return")
  /\ UNCHANGED <<use, time_stamp, next_version, value, clockVars, loc, links,
                 histVars, snapVars>>

\* The call returns; a read promises nothing about what it has seen.
Return(t) ==
  /\ pc[t] = "return"
  /\ seen' = IF loc[t].op = "read" \/ loc[t].version <= seen[loc[t].p]
               THEN seen
               ELSE [seen EXCEPT ![loc[t].p] = loc[t].version]
  /\ loc' = [loc EXCEPT ![t] = NoLocals]
  /\ Goto(t, "idle")
  /\ UNCHANGED <<heapVars, clockVars, linkVars, hist, snapVars>>

(***************************************************************************)
(* load outside of a snapshot, validate, and read, which does not stamp    *)
(***************************************************************************)
Load(t, p, op) ==
  LET l == [NoLocals EXCEPT !.op = op, !.p = p, !.version = Len(hist[p])] IN
  /\ t \in use.readers
  /\ pc[t] = "idle"
  /\ local_stamp[t] = NoStamp
  /\ \/ op = "load" /\ CallSetStamp(t, l, v[p], "shortcut")
     \/ op = "validate" /\ CallSetStamp(t, l, v[p], "return")
     \/ /\ op = "read"
        /\ loc' = [loc EXCEPT ![t] = [l EXCEPT !.cur = v[p]]]
        /\ Goto(t, "shortcut")
  /\ UNCHANGED <<heapVars, clockVars, linkVars, histVars, snapVars>>

(***************************************************************************)
(* What a writer may pass as the new value: null, a node that is part of   *)
(* some version, or a new node that nobody else has.                       *)
(***************************************************************************)
Fresh(t, x) ==
  /\ x \in Nodes
  /\ \A p \in Ptrs : x \notin {hist[p][k] : k \in DOMAIN hist[p]}
  /\ \A u \in Threads \ {t} : loc[u].arg # x

Storable(t) == {x \in use.nodes \cup {Null} : UseIndirect(x) \/ Fresh(t, x)}

\* Bound: every cas that has not allocated its link yet will find one.
LinkLeft(x) ==
  UseIndirect(x) =>
    Cardinality({u \in Threads : loc[u].op = "cas" /\ loc[u].new = Null})
      < use.links - Cardinality(links)

\* The new version of x: a new link over it, or the node itself.
NewVersion(x) == IF UseIndirect(x) THEN CHOOSE l \in Links : l \notin links ELSE x

\* It is written, with the old version below it, before it is installed.
Prepare(x, old) ==
  LET new == NewVersion(x) IN
  /\ UseIndirect(x) => links # Links
  /\ next_version' = [next_version EXCEPT ![new] = old]
  /\ IF IsIndirect(new) THEN /\ links' = links \cup {new}
                             /\ value' = [value EXCEPT ![new] = x]
                        ELSE UNCHANGED <<links, value>>

(***************************************************************************)
(* store, by the thread that holds the lock: v changes under it only by a  *)
(* shortcut of the link it loaded.                                         *)
(***************************************************************************)
Store(t, p, x) ==
  /\ t \in use.writers
  /\ pc[t] = "idle"
  /\ local_stamp[t] = NoStamp
  /\ \A u \in Threads : loc[u].op = "store" => loc[u].p # p
  /\ x \in Storable(t)
  /\ use.redundant \/ GetPtr(v[p]) # x
  /\ LinkLeft(x)
  /\ Prepare(x, v[p])
  /\ loc' = [loc EXCEPT ![t] = [NoLocals EXCEPT !.op = "store", !.p = p,
               !.arg = x, !.old = v[p], !.new = NewVersion(x),
               !.version = Len(hist[p]) + 1]]
  /\ Goto(t, "store_cam")
  /\ UNCHANGED <<use, v, time_stamp, clockVars, retires, histVars, snapVars>>

\* MUTANT: leaves the stamp of the new version to its readers.
UnstampedFinishStore(t) ==
  /\ loc' = [loc EXCEPT ![t].cur = loc[t].new]
  /\ Goto(t, IF IsIndirect(loc[t].new) THEN "shortcut" ELSE "return")

\* set_stamp of the new version, and shortcut when it is a link.
FinishStore(t) ==
  CallSetStamp(t, loc[t], loc[t].new,
               IF IsIndirect(loc[t].new) THEN "shortcut" ELSE "return")

\* v.cam(expected, new_v)
Cam(t, expected) ==
  LET p == loc[t].p IN
  IF v[p] = expected
    THEN v' = [v EXCEPT ![p] = loc[t].new] /\ Installed(p, loc[t].new)
    ELSE UNCHANGED <<v, hist>>

StoreCam(t) ==
  /\ pc[t] = "store_cam" /\ use.build = "hybrid"
  /\ Cam(t, loc[t].old)
  /\ IF IsIndirect(loc[t].old)
       THEN Goto(t, "store_check") /\ UNCHANGED loc
       ELSE FinishStore(t)
  /\ UNCHANGED <<use, time_stamp, next_version, value, clockVars, linkVars, seen,
                 snapVars>>

\* Without shortcuts nothing comes in between.  NoShortcut retires the old link
\* before the new version has a stamp, versioned_indirect afterwards.
StoreWrite(t) ==
  /\ pc[t] = "store_cam" /\ use.build # "hybrid"
  /\ IF use.build = "once"
       THEN Cam(t, loc[t].old)
       ELSE /\ v' = [v EXCEPT ![loc[t].p] = loc[t].new]
            /\ Installed(loc[t].p, loc[t].new)
  /\ IF use.build = "noshortcut" THEN RetireLink(loc[t].old) ELSE UNCHANGED retires
  /\ CallSetStamp(t, loc[t], loc[t].new,
                  IF use.build = "indirect" THEN "retire" ELSE "return")
  /\ UNCHANGED <<use, time_stamp, next_version, value, clockVars, links, seen,
                 snapVars>>

\* MUTANT: takes a cam that lost to a shortcut for a success.
NeverLost(t) == FALSE

CamLost(t) == v[loc[t].p] = value[loc[t].old]

StoreCheck(t) ==
  /\ pc[t] = "store_check"
  /\ IF CamLost(t)
       THEN Goto(t, "store_recam") /\ UNCHANGED <<loc, retires>>
       ELSE RetireLink(loc[t].old) /\ FinishStore(t)
  /\ UNCHANGED <<heapVars, clockVars, links, histVars, snapVars>>

StoreRecam(t) ==
  /\ pc[t] = "store_recam"
  /\ Cam(t, value[loc[t].old])
  /\ FinishStore(t)
  /\ UNCHANGED <<use, time_stamp, next_version, value, clockVars, linkVars, seen,
                 snapVars>>

(***************************************************************************)
(* cas.  A failed first try is repeated when the link it expected may have *)
(* been replaced by its value.                                             *)
(***************************************************************************)
Cas(t, p, exp, x) ==
  LET l == [NoLocals EXCEPT !.op = "cas", !.p = p, !.arg = x, !.exp = exp,
              !.old = v[p], !.version = Len(hist[p])]
      over == GetPtr(v[p]) # exp \/ exp = x   \* decided without a try
  IN
  /\ t \in use.writers
  /\ pc[t] = "idle"
  /\ local_stamp[t] = NoStamp
  /\ x \in Storable(t)
  /\ over \/ LinkLeft(x)
  /\ CallSetStamp(t, l, v[p], IF over THEN "return" ELSE "cas_try")
  /\ UNCHANGED <<heapVars, clockVars, linkVars, histVars, snapVars>>

CasSucceeds(t, l) ==
  /\ v' = [v EXCEPT ![l.p] = l.new]
  /\ Installed(l.p, l.new)
  /\ CallSetStamp(t, [l EXCEPT !.version = Len(hist[l.p]) + 1], l.new,
                  "retire")

\* MUTANT: gives up when the link it expected has been cut out.
NeverRetries(l) == FALSE

Retries(l) == use.build = "hybrid" /\ IsIndirect(l.old)

CasTry(t) ==
  LET l == [loc[t] EXCEPT !.new = NewVersion(loc[t].arg)] IN
  /\ pc[t] = "cas_try"
  /\ Prepare(l.arg, l.old)
  /\ IF v[l.p] = l.old
       THEN CasSucceeds(t, l)
       ELSE /\ IF Retries(l)
                 THEN /\ Goto(t, "cas_retry")
                      /\ loc' = [loc EXCEPT ![t] = [l EXCEPT !.old = value[@]]]
                 ELSE Goto(t, "cas_fail") /\ loc' = [loc EXCEPT ![t] = l]
            /\ UNCHANGED <<v, hist>>
  /\ UNCHANGED <<use, time_stamp, clockVars, retires, seen, snapVars>>

CasRetry(t) ==
  LET l == loc[t] IN
  /\ pc[t] = "cas_retry"
  /\ IF v[l.p] = l.old
       THEN CasSucceeds(t, l)
       ELSE Goto(t, "cas_fail") /\ UNCHANGED <<v, hist, loc>>
  /\ UNCHANGED <<use, time_stamp, next_version, value, clockVars, linkVars, seen,
                 snapVars>>

\* MUTANT: forgets the link that was never published.
KeepsLink(l) == links

GivesLinkBack(l) == links \ {l.new}

\* The unpublished link is destructed; what the cas lost to gets its stamp.
CasFail(t) ==
  LET l == loc[t] IN
  /\ pc[t] = "cas_fail"
  /\ links' = GivesLinkBack(l)
  /\ CallSetStamp(t, [l EXCEPT !.new = Null, !.version = Len(hist[l.p])],
                  v[l.p], "return")
  /\ UNCHANGED <<heapVars, clockVars, retires, histVars, snapVars>>

\* After the new version has its stamp.
RetireOld(t) ==
  /\ pc[t] = "retire"
  /\ RetireLink(loc[t].old)
  /\ Goto(t, IF IsIndirect(loc[t].new) THEN "shortcut" ELSE "return")
  /\ UNCHANGED <<heapVars, clockVars, loc, links, histVars, snapVars>>

(***************************************************************************)
(* with_snapshot: get_read_stamp of timestamp_read loads the clock and     *)
(* advances it when nobody else has; a late fetch_add may advance it once  *)
(* more.  window holds the first and the last version of each pointer that *)
(* the snapshot may contain.                                               *)
(***************************************************************************)
SnapshotLoad(t) ==
  /\ t \in use.snapshotters
  /\ pc[t] = "idle"
  /\ local_stamp[t] = NoStamp
  /\ stamp < use.stamps
  /\ local_stamp' = [local_stamp EXCEPT ![t] = stamp]
  /\ window' = [window EXCEPT ![t] = [p \in Ptrs |-> <<seen[p], 0>>]]
  /\ Goto(t, "advance")
  /\ UNCHANGED <<heapVars, clockVars, loc, linkVars, histVars, snap>>

\* MUTANT: takes a stamp without advancing the clock past it.
StaysBehind(t) == UNCHANGED stamp

Advances(t) ==
  \/ stamp < LastStamp /\ stamp' = stamp + 1
  \/ stamp # local_stamp[t] /\ UNCHANGED stamp

SnapshotAdvance(t) ==
  /\ pc[t] = "advance"
  /\ Advances(t)
  /\ window' = [window EXCEPT ![t] =
                  [p \in Ptrs |-> <<window[t][p][1], Len(hist[p])>>]]
  /\ Goto(t, "idle")
  /\ UNCHANGED <<heapVars, done_stamp, loc, linkVars, histVars, local_stamp,
                 snap>>

\* load inside of a snapshot: read_snapshot.
ReadSnapshot(t, p) ==
  /\ pc[t] = "idle"
  /\ local_stamp[t] # NoStamp
  /\ CallSetStamp(t, [NoLocals EXCEPT !.op = "snapshot", !.p = p], v[p], "chase")
  /\ UNCHANGED <<heapVars, clockVars, linkVars, histVars, snapVars>>

Chase(t) ==
  LET x == loc[t].cur IN
  /\ pc[t] = "chase"
  /\ IF x # Null /\ local_stamp[t] < time_stamp[x]
       THEN /\ loc' = [loc EXCEPT ![t].cur = next_version[x]]
            /\ UNCHANGED <<pc, snap>>
       ELSE /\ snap' = [snap EXCEPT ![t][loc[t].p] = GetPtr(x)]
            /\ loc' = [loc EXCEPT ![t] = NoLocals]
            /\ Goto(t, "idle")
  /\ UNCHANGED <<heapVars, clockVars, linkVars, histVars, local_stamp, window>>

SnapshotEnd(t) ==
  /\ pc[t] = "idle"
  /\ local_stamp[t] # NoStamp
  /\ local_stamp' = [local_stamp EXCEPT ![t] = NoStamp]
  /\ window' = [window EXCEPT ![t] = [p \in Ptrs |-> <<0, 0>>]]
  /\ snap' = [snap EXCEPT ![t] = [p \in Ptrs |-> Unread]]
  /\ UNCHANGED <<heapVars, clockVars, pc, loc, linkVars, histVars>>

\* The after hook of an epoch increment (module Epoch).
AfterHook ==
  /\ done_stamp' \in done_stamp + 1 .. Min(ActiveStamps \cup {stamp})
  /\ UNCHANGED <<heapVars, stamp, pc, loc, linkVars, histVars, snapVars>>

-----------------------------------------------------------------------------
SetStamp(t) == StampFetch(t) \/ StampCas(t)

ReaderStep(t) ==
  \E p \in Used, op \in use.ops : Load(t, p, op)

StoreStep(t) ==
  \/ \E p \in use.stored, x \in use.nodes \cup {Null} : Store(t, p, x)
  \/ StoreWrite(t) \/ StoreCam(t) \/ StoreCheck(t) \/ StoreRecam(t)

CasStep(t) ==
  \/ \E p \in use.cassed, exp, x \in use.nodes \cup {Null} : Cas(t, p, exp, x)
  \/ CasTry(t) \/ CasRetry(t) \/ CasFail(t)

SnapshotStep(t) ==
  \/ SnapshotLoad(t) \/ SnapshotAdvance(t) \/ Chase(t) \/ SnapshotEnd(t)
  \/ \E p \in Used : ReadSnapshot(t, p)

Next ==
  \/ AfterHook
  \/ \E t \in Threads :
       \/ SetStamp(t) \/ Shortcut(t) \/ RetireOld(t) \/ Return(t)
       \/ ReaderStep(t) \/ StoreStep(t) \/ CasStep(t) \/ SnapshotStep(t)

Spec == Init /\ [][Next]_vars

-----------------------------------------------------------------------------
TypeOK ==
  /\ v \in [Ptrs -> Refs]
  /\ time_stamp \in [Objects -> Nat]
  /\ next_version \in [Objects -> Refs]
  /\ value \in [Links -> Values]
  /\ {stamp, done_stamp} \subseteq Nat
  /\ local_stamp \in [Threads -> Nat \cup {NoStamp}]
  /\ links \subseteq Links
  /\ retires \in [Links -> 0 .. 1]
  /\ snap \in [Threads -> [Ptrs -> Values \cup {Unread}]]

\* The version of p that a snapshot with stamp ls consists of.
SnapshotVersion(p, ls) ==
  Max({0} \cup {k \in DOMAIN hist[p] : time_stamp[hist[p][k]] <= ls})

VersionValue(p, k) == IF k = 0 THEN Null ELSE GetPtr(hist[p][k])

\* Whatever a snapshot has read of any pointer, in whatever order and however
\* often links were cut out meanwhile, is the value of the last version that
\* is stamped at or before the snapshot's stamp.
SnapshotConsistent ==
  \A t \in Threads, p \in Ptrs :
    snap[t][p] # Unread =>
      snap[t][p] = VersionValue(p, SnapshotVersion(p, local_stamp[t]))

\* The moment a snapshot stands for lies within its get_read_stamp: it has
\* every version that a call which returned earlier wrote or saw, and none
\* that was installed later.
SnapshotCurrent ==
  \A t \in Threads, p \in Ptrs :
    local_stamp[t] # NoStamp /\ pc[t] # "advance" =>
      /\ window[t][p][1] <= SnapshotVersion(p, local_stamp[t])
      /\ SnapshotVersion(p, local_stamp[t]) <= window[t][p][2]

\* The versions of a pointer are stamped in the order of their installation,
\* and only the newest may still be without a stamp.
VersionsOrdered ==
  \A p \in Ptrs : \A k \in DOMAIN hist[p] : k > 1 =>
    /\ time_stamp[hist[p][k - 1]] # Tbd
    /\ time_stamp[hist[p][k - 1]] <= time_stamp[hist[p][k]]

\* Loads and updates see the newest version: shortcuts never bring an older
\* value back, and a store whose first cam lost to a shortcut is not lost.
NothingLost ==
  /\ \A p \in Ptrs : GetPtr(v[p]) = VersionValue(p, Len(hist[p]))
  /\ \A t \in Threads :
       loc[t].op = "store" /\ pc[t] \in {"stamp", "stamp_cas", "shortcut",
                                        "return"} =>
         /\ loc[t].version \in DOMAIN hist[loc[t].p]
         /\ loc[t].new = hist[loc[t].p][loc[t].version]

\* A cas reports failure only when the pointer had a value other than the
\* expected one at some moment of the call; losing to a shortcut is no reason.
CasFailsForAReason ==
  \A t \in Threads : pc[t] = "cas_fail" =>
    \E k \in loc[t].version .. Len(hist[loc[t].p]) :
      VersionValue(loc[t].p, k) # loc[t].exp

\* A link is retired at most once, and never while a pointer still holds it.
RetiredOnce ==
  \A x \in Links : /\ retires[x] <= 1
                   /\ retires[x] = 1 => \A p \in Ptrs : v[p] # x

\* The epoch pool never frees a link twice: the "double free" that clear_list
\* tests for in a debug build does not happen.
LinksFreedOnce == \A x \in Links : retires[x] <= 1

\* When no call is in progress, every link that is in no pointer has been
\* given back: none leaks.
NoLinkLeaks ==
  (\A t \in Threads : loc[t].op = "none") =>
    \A x \in links : retires[x] = 1 \/ \E p \in Ptrs : v[p] = x
=============================================================================
