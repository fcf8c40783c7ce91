------------------------------- MODULE Epoch -------------------------------
(***************************************************************************)
(* Epoch-based reclamation: include/flock/epoch.h, together with the       *)
(* epoch hooks of include/verlib/timestamps.h that compute done_stamp.     *)
(*                                                                         *)
(* Every operation of a data structure runs inside with_epoch, which       *)
(* announces the current epoch in the thread's slot before the operation   *)
(* and clears the slot after it.  An object that was removed from the      *)
(* structure is put in a list of the thread that retires it, and freed two *)
(* list rotations later.  update_epoch scans the slots one at a time, so   *)
(* the slots it has passed may change before it increments the epoch.      *)
(*                                                                         *)
(* The objects and what a client does with them are the environment: it    *)
(* allocates, publishes, reads, unlinks and retires objects in the order   *)
(* the structures do.  A reference is `direct' when the thread read it     *)
(* while the object was linked, and `indirect' when it can reach the       *)
(* object through a thread that held it directly: versioned_ptr writes the *)
(* link it loaded into next_version of the new version, so a snapshot can  *)
(* follow it there after another thread shortcut and retired the link.     *)
(***************************************************************************)
EXTENDS Integers, FiniteSets

CONSTANTS
  NumWorkers,  \* num_workers(): the number of announcement slots
  Objects,     \* the objects of a memory pool
  MaxEpoch,    \* bound on current_epoch
  MaxStamp,    \* bound on the global time stamp
  MaxRefs      \* bound on the references an operation collects

ASSUME WorkersAssumption == NumWorkers \in Nat \ {0}
ASSUME BoundsAssumption == {MaxEpoch, MaxStamp, MaxRefs} \subseteq Nat

Threads == 0 .. NumWorkers - 1

NoEpoch == -1    \* announce_slot::last of a thread outside of with_epoch
NoStamp == -1    \* local_stamp of a thread outside of with_snapshot
Nobody  == -1    \* owner of an object that is free or linked

VARIABLES
  current_epoch,  \* epoch_s::current_epoch
  last,           \* announcements[t].last
  pc,             \* what thread t does next
  e,              \* current_e, the local of announce and of update_epoch
  idx,            \* i, the slot update_epoch looks at
  st,             \* where an object is
  owner,          \* the thread that is to publish it, or retires it
  epoch,          \* pools[t].epoch
  direct,         \* objects thread t read while they were linked
  indirect,       \* objects thread t can reach through another thread
  stamp,          \* global_stamp
  done_stamp, prev_stamp,
  current_stamp,  \* thread local: the stamp the before hook sampled
  local_stamp     \* thread local: the stamp of the running snapshot

slotVars  == <<current_epoch, last>>
localVars == <<e, idx>>
objVars   == <<st, owner, epoch>>
refVars   == <<direct, indirect>>
stampVars == <<stamp, done_stamp, prev_stamp, current_stamp, local_stamp>>
vars == <<slotVars, pc, localVars, objVars, refVars, stampVars>>

(***************************************************************************)
(* "old" and "current" are the two lists of old_current; "pending" is the  *)
(* argument of a retire that has not reached the list yet.                 *)
(***************************************************************************)
ObjStates == {"free", "private", "linked", "unlinked",
              "pending", "current", "old"}

AnnouncePCs == {"idle", "retry", "exchange", "recheck"}
UpdatePCs   == {"update", "scan", "scan2", "before", "cas", "after"}
RetirePCs   == {"clear", "rotate", "heuristic", "push"}
InOpPCs     == {"op"} \cup UpdatePCs \cup RetirePCs
PCs         == AnnouncePCs \cup InOpPCs

\* Thread t has returned from announce and not yet called unannounce.
InOp(t) == pc[t] \in InOpPCs

Holds(t, o) == o \in direct[t] \cup indirect[t]

CanHoldMore(t) == Cardinality(direct[t] \cup indirect[t]) < MaxRefs

Goto(t, where) == pc' = [pc EXCEPT ![t] = where]

-----------------------------------------------------------------------------
Init ==
  /\ current_epoch = 0
  /\ last = [t \in Threads |-> NoEpoch]
  /\ pc = [t \in Threads |-> "idle"]
  /\ e = [t \in Threads |-> 0]
  /\ idx = [t \in Threads |-> 0]
  /\ st = [o \in Objects |-> "free"]
  /\ owner = [o \in Objects |-> Nobody]
  /\ epoch = [t \in Threads |-> 0]
  /\ direct = [t \in Threads |-> {}]
  /\ indirect = [t \in Threads |-> {}]
  /\ stamp = 1
  /\ done_stamp = 1
  /\ prev_stamp = 1
  /\ current_stamp = [t \in Threads |-> 0]
  /\ local_stamp = [t \in Threads |-> NoStamp]

(***************************************************************************)
(* Operators named Faulty... are plausible slips in the definition that    *)
(* follows them; no specification uses them.  Each one breaks a property   *)
(* stated at the end of the module.                                        *)
(***************************************************************************)

(***************************************************************************)
(* with_epoch: announce loads the epoch, exchanges it into the slot and    *)
(* loads the epoch again; it starts over when the epoch has moved.         *)
(***************************************************************************)
\* Announces the epoch before the current one.
FaultyAnnounceLoad(t) ==
  /\ pc[t] \in {"idle", "retry"}
  /\ e' = [e EXCEPT ![t] = current_epoch - 1]
  /\ Goto(t, "exchange")
  /\ UNCHANGED <<slotVars, idx, objVars, refVars, stampVars>>

AnnounceLoad(t) ==
  /\ pc[t] \in {"idle", "retry"}
  /\ e' = [e EXCEPT ![t] = current_epoch]
  /\ Goto(t, "exchange")
  /\ UNCHANGED <<slotVars, idx, objVars, refVars, stampVars>>

AnnounceExchange(t) ==
  /\ pc[t] = "exchange"
  /\ last' = [last EXCEPT ![t] = e[t]]
  /\ Goto(t, "recheck")
  /\ UNCHANGED <<current_epoch, localVars, objVars, refVars, stampVars>>

AnnounceRecheck(t) ==
  /\ pc[t] = "recheck"
  /\ Goto(t, IF current_epoch = e[t] THEN "op" ELSE "retry")
  /\ e' = [e EXCEPT ![t] = 0]
  /\ UNCHANGED <<slotVars, idx, objVars, refVars, stampVars>>

\* The end of with_epoch, and of with_snapshot when it runs inside it: every
\* reference of the operation is dropped.
Unannounce(t) ==
  /\ pc[t] = "op"
  /\ \A o \in Objects : owner[o] = t => st[o] \notin {"private", "unlinked"}
  /\ last' = [last EXCEPT ![t] = NoEpoch]
  /\ direct' = [direct EXCEPT ![t] = {}]
  /\ indirect' = [indirect EXCEPT ![t] = {}]
  /\ local_stamp' = [local_stamp EXCEPT ![t] = NoStamp]
  /\ Goto(t, "idle")
  /\ UNCHANGED <<current_epoch, localVars, objVars,
                 stamp, done_stamp, prev_stamp, current_stamp>>

(***************************************************************************)
(* The time stamp.  Any reader or writer may advance it at any moment;     *)
(* a snapshot fixes its local_stamp after with_epoch has announced.        *)
(***************************************************************************)
Tick ==
  /\ stamp < MaxStamp
  /\ stamp' = stamp + 1
  /\ UNCHANGED <<slotVars, pc, localVars, objVars, refVars,
                 done_stamp, prev_stamp, current_stamp, local_stamp>>

WithSnapshot(t) ==
  /\ pc[t] = "op"
  /\ local_stamp[t] = NoStamp
  /\ local_stamp' = [local_stamp EXCEPT ![t] = stamp]
  /\ UNCHANGED <<slotVars, pc, localVars, objVars, refVars,
                 stamp, done_stamp, prev_stamp, current_stamp>>

(***************************************************************************)
(* What a data structure does with the objects of a pool.                  *)
(***************************************************************************)
NewObj(t, o) ==
  /\ pc[t] = "op"
  /\ st[o] = "free"
  /\ CanHoldMore(t)
  /\ st' = [st EXCEPT ![o] = "private"]
  /\ owner' = [owner EXCEPT ![o] = t]
  /\ direct' = [direct EXCEPT ![t] = @ \cup {o}]
  /\ UNCHANGED <<slotVars, pc, localVars, epoch, indirect, stampVars>>

\* Delete of an object that was never shared: freed at once.
Destruct(t, o) ==
  /\ pc[t] = "op"
  /\ st[o] = "private"
  /\ owner[o] = t
  /\ st' = [st EXCEPT ![o] = "free"]
  /\ owner' = [owner EXCEPT ![o] = Nobody]
  /\ direct' = [direct EXCEPT ![t] = @ \ {o}]
  /\ UNCHANGED <<slotVars, pc, localVars, epoch, indirect, stampVars>>

Publish(t, o) ==
  /\ pc[t] = "op"
  /\ st[o] = "private"
  /\ owner[o] = t
  /\ st' = [st EXCEPT ![o] = "linked"]
  /\ owner' = [owner EXCEPT ![o] = Nobody]
  /\ UNCHANGED <<slotVars, pc, localVars, epoch, refVars, stampVars>>

Read(t, o) ==
  /\ pc[t] = "op"
  /\ st[o] = "linked"
  /\ o \notin direct[t]
  /\ CanHoldMore(t)
  /\ direct' = [direct EXCEPT ![t] = @ \cup {o}]
  /\ UNCHANGED <<slotVars, pc, localVars, objVars, indirect, stampVars>>

\* Thread w holds o directly and stores it where the operation that t is
\* running can find it: t can reach o from now on, even when o is retired.
Expose(w, t, o) ==
  /\ InOp(w)
  /\ o \in direct[w]
  /\ st[o] # "private"
  /\ pc[t] = "op"
  /\ ~Holds(t, o)
  /\ CanHoldMore(t)
  /\ indirect' = [indirect EXCEPT ![t] = @ \cup {o}]
  /\ UNCHANGED <<slotVars, pc, localVars, objVars, direct, stampVars>>

Unlink(t, o) ==
  /\ pc[t] = "op"
  /\ st[o] = "linked"
  /\ o \in direct[t]
  /\ st' = [st EXCEPT ![o] = "unlinked"]
  /\ owner' = [owner EXCEPT ![o] = t]
  /\ UNCHANGED <<slotVars, pc, localVars, epoch, refVars, stampVars>>

-----------------------------------------------------------------------------
(***************************************************************************)
(* mem_pool::retire: add_to_current_list first calls advance_epoch, which  *)
(* rotates the lists when the epoch is two ahead of the last rotation and  *)
(* then, as a heuristic on counts and clocks, may call update_epoch; only  *)
(* then is the object put in the current list.                             *)
(***************************************************************************)
\* Rotates one epoch too early.
FaultyRotateDue(t) == epoch[t] + 1 <= current_epoch

RotateDue(t) == epoch[t] + 1 < current_epoch

Retire(t, o) ==
  /\ pc[t] = "op"
  /\ st[o] = "unlinked"
  /\ owner[o] = t
  /\ st' = [st EXCEPT ![o] = "pending"]
  /\ Goto(t, IF RotateDue(t) THEN "clear" ELSE "heuristic")
  /\ UNCHANGED <<slotVars, localVars, owner, epoch, refVars, stampVars>>

\* clear_list: destructs and frees every object of a list.
ClearList(list) ==
  /\ st' = [o \in Objects |-> IF o \in list THEN "free" ELSE st[o]]
  /\ owner' = [o \in Objects |-> IF o \in list THEN Nobody ELSE owner[o]]

ClearOld(t) ==
  /\ pc[t] = "clear"
  /\ ClearList({o \in Objects : st[o] = "old" /\ owner[o] = t})
  /\ Goto(t, "rotate")
  /\ UNCHANGED <<slotVars, localVars, epoch, refVars, stampVars>>

\* pid.old = pid.current; pid.current = nullptr; the epoch is loaded again.
Rotate(t) ==
  /\ pc[t] = "rotate"
  /\ st' = [o \in Objects |->
              IF st[o] = "current" /\ owner[o] = t THEN "old" ELSE st[o]]
  /\ epoch' = [epoch EXCEPT ![t] = current_epoch]
  /\ Goto(t, "heuristic")
  /\ UNCHANGED <<slotVars, localVars, owner, refVars, stampVars>>

Heuristic(t) ==
  /\ pc[t] = "heuristic"
  /\ \/ Goto(t, "push")
     \/ current_epoch < MaxEpoch /\ Goto(t, "update")
  /\ UNCHANGED <<slotVars, localVars, objVars, refVars, stampVars>>

Push(t) ==
  /\ pc[t] = "push"
  /\ st' = [o \in Objects |->
              IF st[o] = "pending" /\ owner[o] = t THEN "current" ELSE st[o]]
  /\ Goto(t, "op")
  /\ UNCHANGED <<slotVars, localVars, owner, epoch, refVars, stampVars>>

(***************************************************************************)
(* update_epoch.  Each slot is loaded twice, once for each comparison.     *)
(***************************************************************************)
UpdateLoad(t) ==
  /\ pc[t] = "update"
  /\ e' = [e EXCEPT ![t] = current_epoch]
  /\ idx' = [idx EXCEPT ![t] = 0]
  /\ Goto(t, "scan")
  /\ UNCHANGED <<slotVars, objVars, refVars, stampVars>>

\* update_epoch returns to advance_epoch, and its locals go out of scope.
EndUpdate(t) ==
  /\ e' = [e EXCEPT ![t] = 0]
  /\ idx' = [idx EXCEPT ![t] = 0]
  /\ current_stamp' = [current_stamp EXCEPT ![t] = 0]
  /\ Goto(t, "push")

NextSlot(t) ==
  /\ idx' = [idx EXCEPT ![t] = @ + 1]
  /\ Goto(t, IF idx[t] + 1 = NumWorkers THEN "before" ELSE "scan")
  /\ UNCHANGED <<e, current_stamp>>

Scan(t) ==
  /\ pc[t] = "scan"
  /\ IF last[idx[t]] = NoEpoch
       THEN NextSlot(t)
       ELSE Goto(t, "scan2") /\ UNCHANGED <<idx, e, current_stamp>>
  /\ UNCHANGED <<slotVars, objVars, refVars,
                 stamp, done_stamp, prev_stamp, local_stamp>>

\* Lets an operation of the epoch before pass.
FaultyScan2(t) ==
  /\ pc[t] = "scan2"
  /\ IF last[idx[t]] < e[t] - 1
       THEN EndUpdate(t)
       ELSE NextSlot(t)
  /\ UNCHANGED <<slotVars, objVars, refVars,
                 stamp, done_stamp, prev_stamp, local_stamp>>

Scan2(t) ==
  /\ pc[t] = "scan2"
  /\ IF last[idx[t]] < e[t]
       THEN EndUpdate(t)
       ELSE NextSlot(t)
  /\ UNCHANGED <<slotVars, objVars, refVars,
                 stamp, done_stamp, prev_stamp, local_stamp>>

BeforeHook(t) ==
  /\ pc[t] = "before"
  /\ current_stamp' = [current_stamp EXCEPT ![t] = stamp]
  /\ Goto(t, "cas")
  /\ UNCHANGED <<slotVars, localVars, objVars, refVars,
                 stamp, done_stamp, prev_stamp, local_stamp>>

\* Runs the after hook also when another thread made the increment.
FaultyCasEpoch(t) ==
  /\ pc[t] = "cas"
  /\ current_epoch' = IF current_epoch = e[t] THEN e[t] + 1 ELSE current_epoch
  /\ Goto(t, "after")
  /\ UNCHANGED <<last, localVars, objVars, refVars, stampVars>>

CasEpoch(t) ==
  /\ pc[t] = "cas"
  /\ IF current_epoch = e[t]
       THEN /\ current_epoch' = e[t] + 1
            /\ Goto(t, "after")
            /\ UNCHANGED <<e, idx, current_stamp>>
       ELSE /\ UNCHANGED current_epoch
            /\ EndUpdate(t)
  /\ UNCHANGED <<last, objVars, refVars,
                 stamp, done_stamp, prev_stamp, local_stamp>>

\* Skips the delay of one epoch between the sample and done_stamp.
FaultyAfterHook(t) ==
  /\ pc[t] = "after"
  /\ done_stamp' = current_stamp[t]
  /\ prev_stamp' = current_stamp[t]
  /\ EndUpdate(t)
  /\ UNCHANGED <<slotVars, objVars, refVars, stamp, local_stamp>>

\* Two plain assignments, one step: HooksSerialised shows that no other
\* thread is in the hook meanwhile.
AfterHook(t) ==
  /\ pc[t] = "after"
  /\ done_stamp' = prev_stamp
  /\ prev_stamp' = current_stamp[t]
  /\ EndUpdate(t)
  /\ UNCHANGED <<slotVars, objVars, refVars, stamp, local_stamp>>

\* mem_pool::clear, "to be used on termination": nobody is in an operation,
\* so the scan of update_epoch succeeds and its hooks run undisturbed.
Clear ==
  /\ \A u \in Threads : pc[u] = "idle"
  /\ current_epoch < MaxEpoch
  /\ current_epoch' = current_epoch + 1
  /\ done_stamp' = prev_stamp
  /\ prev_stamp' = stamp
  /\ ClearList({o \in Objects : st[o] \in {"old", "current"}})
  /\ UNCHANGED <<last, pc, localVars, epoch, refVars,
                 stamp, current_stamp, local_stamp>>

-----------------------------------------------------------------------------
Announce(t) == AnnounceLoad(t) \/ AnnounceExchange(t) \/ AnnounceRecheck(t)

UpdateEpoch(t) ==
  \/ UpdateLoad(t) \/ Scan(t) \/ Scan2(t)
  \/ BeforeHook(t) \/ CasEpoch(t) \/ AfterHook(t)

AdvanceEpoch(t) == ClearOld(t) \/ Rotate(t) \/ Heuristic(t) \/ Push(t)

Client(t) ==
  \/ WithSnapshot(t)
  \/ \E o \in Objects :
       \/ NewObj(t, o) \/ Destruct(t, o) \/ Publish(t, o)
       \/ Read(t, o) \/ Unlink(t, o) \/ Retire(t, o)
       \/ \E w \in Threads : Expose(w, t, o)

Next ==
  \/ Tick
  \/ Clear
  \/ \E t \in Threads :
       \/ Announce(t) \/ Unannounce(t) \/ Client(t)
       \/ AdvanceEpoch(t) \/ UpdateEpoch(t)

Spec == Init /\ [][Next]_vars

-----------------------------------------------------------------------------
TypeOK ==
  /\ current_epoch \in Nat
  /\ last \in [Threads -> Nat \cup {NoEpoch}]
  /\ pc \in [Threads -> PCs]
  /\ e \in [Threads -> Nat]
  /\ idx \in [Threads -> Nat]
  /\ st \in [Objects -> ObjStates]
  /\ owner \in [Objects -> Threads \cup {Nobody}]
  /\ epoch \in [Threads -> Nat]
  /\ direct \in [Threads -> SUBSET Objects]
  /\ indirect \in [Threads -> SUBSET Objects]
  /\ stamp \in Nat
  /\ done_stamp \in Nat
  /\ prev_stamp \in Nat
  /\ current_stamp \in [Threads -> Nat]
  /\ local_stamp \in [Threads -> Nat \cup {NoStamp}]

\* An object that some running operation can still reach is not freed: the
\* two list rotations of advance_epoch outlast every reader, also one that
\* reached the object through a version chain after it was retired.
NoUseAfterFree ==
  \A t \in Threads, o \in Objects : Holds(t, o) => st[o] # "free"

\* done_stamp never passes the stamp of a running snapshot, so a link whose
\* stamp is at most done_stamp (the test of shortcut) hides nothing that a
\* snapshot still has to see.
DoneStampSafe ==
  \A t \in Threads :
    local_stamp[t] # NoStamp => done_stamp <= local_stamp[t]

\* The after hooks write done_stamp and prev_stamp with plain stores; at most
\* one thread is between its increment of the epoch and the end of its hook.
HooksSerialised ==
  \A t, u \in Threads : pc[t] = "after" /\ pc[u] = "after" => t = u

\* done_stamp and the epoch never go back.
DoneStampMonotone ==
  [][done_stamp <= done_stamp' /\ current_epoch <= current_epoch']_vars
-----------------------------------------------------------------------------
(***************************************************************************)
(* The inductive invariant behind the properties above.                    *)
(***************************************************************************)

\* An operation in progress announced the current epoch or the one before.
SlotInv ==
  \A t \in Threads :
    /\ pc[t] \in AnnouncePCs =>
         direct[t] = {} /\ indirect[t] = {} /\ local_stamp[t] = NoStamp
    /\ pc[t] \in {"exchange", "recheck"} => e[t] <= current_epoch
    /\ pc[t] = "recheck" => last[t] = e[t]
    /\ InOp(t) => /\ 0 <= last[t]
                  /\ last[t] <= current_epoch
                  /\ current_epoch <= last[t] + 1

\* No operation at a slot that a scan has passed is older than the epoch the
\* scan started with; after a successful increment the scanner itself holds
\* the epoch back.
ScanInv ==
  \A t \in Threads :
    /\ pc[t] \in {"scan", "scan2"} =>
         /\ e[t] <= current_epoch
         /\ idx[t] < NumWorkers
         /\ \A u \in Threads : u < idx[t] /\ InOp(u) => e[t] <= last[u]
    /\ pc[t] \in {"before", "cas"} =>
         /\ e[t] <= current_epoch
         /\ \A u \in Threads : InOp(u) => e[t] <= last[u]
    /\ pc[t] = "after" => current_epoch = last[t] + 1

\* Every reader of a retired object announced an epoch that is bounded by the
\* epoch of the last rotation of the list the object is in.
HeldUpTo(o, d, i) ==
  \A t \in Threads : /\ o \in direct[t] => last[t] <= d
                     /\ o \in indirect[t] => last[t] <= i

RotateInv ==
  \A t \in Threads :
    pc[t] \in {"clear", "rotate"} => epoch[t] + 2 <= current_epoch

ObjInv ==
  \A o \in Objects :
    /\ st[o] = "free" => \A t \in Threads : ~Holds(t, o)
    /\ st[o] = "private" =>
         \A t \in Threads : o \notin indirect[t]
                           /\ (o \in direct[t] => t = owner[o])
    /\ st[o] \in {"unlinked", "pending", "current", "old"} =>
         owner[o] \in Threads
    /\ st[o] = "pending" => pc[owner[o]] \in RetirePCs \cup UpdatePCs
    /\ st[o] = "pending" /\ pc[owner[o]] \notin {"clear", "rotate"} =>
         HeldUpTo(o, epoch[owner[o]] + 1, epoch[owner[o]] + 2)
    /\ st[o] = "current" =>
         HeldUpTo(o, epoch[owner[o]] + 1, epoch[owner[o]] + 2)
    /\ st[o] = "old" =>
         HeldUpTo(o, epoch[owner[o]] - 1, epoch[owner[o]])

\* The samples are taken in the order of the increments, each before its
\* increment, and every snapshot is younger than the samples of the epochs
\* before its own.
SampleInv ==
  /\ done_stamp <= prev_stamp
  /\ prev_stamp <= stamp
  /\ \A t \in Threads :
       /\ pc[t] \in {"cas", "after"} => current_stamp[t] <= stamp
       /\ pc[t] = "after" \/ (pc[t] = "cas" /\ e[t] = current_epoch) =>
            prev_stamp <= current_stamp[t]

SnapshotInv ==
  \A t \in Threads : local_stamp[t] # NoStamp =>
    /\ done_stamp <= local_stamp[t]
    /\ last[t] = current_epoch => prev_stamp <= local_stamp[t]
    /\ \A u \in Threads : pc[u] = "after" =>
         /\ prev_stamp <= local_stamp[t]
         /\ last[t] = current_epoch => current_stamp[u] <= local_stamp[t]

EpochInv == TypeOK /\ SlotInv /\ ScanInv /\ HooksSerialised
ReclaimInv == EpochInv /\ RotateInv /\ ObjInv
StampInv == EpochInv /\ SampleInv /\ SnapshotInv
=============================================================================
