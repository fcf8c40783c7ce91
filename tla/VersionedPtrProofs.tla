------------------------ MODULE VersionedPtrProofs --------------------------
(***************************************************************************)
(* The safety properties of versioned pointers, for every set of threads,  *)
(* pointers, nodes and links, every number of stamps and all four builds:  *)
(* the inductive invariant, what each step of VersionedPtr changes, that   *)
(* every step keeps the invariant, and what follows from it.               *)
(*                                                                         *)
(* The invariant (IInv) has a part for the versions (HeapInv) and a part   *)
(* for each thread (ThreadInv), and the accounts of locks, links and       *)
(* completed calls.  Its core is Shows: a reference may stand in a chain   *)
(* for a version whose link was cut out, as long as no running snapshot    *)
(* can tell the two apart.                                                 *)
(*                                                                         *)
(* First the versions: pointers hold their newest one, chains lead from    *)
(* each to the one before it, and stamps are in order.  Then the threads:  *)
(* a step of one thread is seen in two ways.  For the others it is Fine:   *)
(* it stamps, cuts, writes or installs, and takes only what is its own, so *)
(* that each of them is a Bystander and keeps its ThreadInv                *)
(* (BystanderKept).  For itself it leads from one place of the call to the *)
(* next (the lemmas named ...Own).  Together they keep all parts           *)
(* (ThreadsKept), step by step.                                            *)
(***************************************************************************)
EXTENDS VersionedPtr, WellFoundedInduction, TLAPS

\* The proviso of the theorems: no program stores the value that is already
\* there (the run redundant_store shows what happens otherwise).
NotRedundant == \A u \in Uses : ~u.redundant

\* The calls, the places in them, and the types of their locals.
Ops == {"none", "load", "validate", "read", "store", "cas", "snapshot"}
PCs == {"idle", "advance", "stamp", "stamp_cas", "shortcut", "return", "store_cam",
        "store_check", "store_recam", "cas_try", "cas_retry", "cas_fail", "retire",
        "chase"}
Locals ==
  [op : Ops, p : Ptrs \cup {Null}, arg : Values, exp : Values, old : Refs, new : Refs,
   cur : Refs, t : Nat, cont : {"return", "shortcut", "cas_try", "retire", "chase"},
   version : Nat]

-----------------------------------------------------------------------------
\* Version k of p, and a reference that a chain may have in its place: the
\* version, or one with its value when no snapshot can tell the difference.
Shows(p, k, x) ==
  IF k = 0 THEN x = Null
  ELSE /\ k \in 1 .. Len(hist[p])
       /\ \/ x = hist[p][k]
          \/ /\ time_stamp[hist[p][k]] <= done_stamp
             /\ GetPtr(x) = GetPtr(hist[p][k])
             /\ x # Null => time_stamp[x] <= done_stamp

\* x has been installed.
InHist(x) == \E p \in Ptrs : \E k \in 1 .. Len(hist[p]) : hist[p][k] = x

\* t is in set_stamp; x needs no stamp any more.
Stamping(t) == pc[t] \in {"stamp", "stamp_cas"}
Stamped(x) == x = Null \/ time_stamp[x] # Tbd

\* The call of t has not installed its new version yet: before and after it
\* has made that version.
BeforeTry(t) ==
  loc[t].op = "cas" /\ (pc[t] = "cas_try" \/ (Stamping(t) /\ loc[t].cont = "cas_try"))
StorePending(t) == loc[t].op = "store" /\ loc[t].version = Len(hist[loc[t].p]) + 1
Prepared(t) == StorePending(t) \/ pc[t] \in {"cas_retry", "cas_fail"}

\* The call of t has installed its version and has still to retire the old one.
Owes(t) ==
  \/ pc[t] = "retire"
  \/ Stamping(t) /\ loc[t].cont = "retire"
  \/ pc[t] = "store_check" /\ ~StorePending(t)

\* No thread can stamp x any more at or before ls.
After(x, ls) ==
  /\ time_stamp[x] > ls
  /\ time_stamp[x] = Tbd =>
       \A u \in Threads : pc[u] = "stamp_cas" /\ loc[u].cur = x => loc[u].t > ls

\* The versions of p above the a-th are too new for a snapshot with stamp ls.
Above(p, a, ls) == \A k \in a + 1 .. Len(hist[p]) : After(hist[p][k], ls)

-----------------------------------------------------------------------------
Types ==
  /\ use \in Uses
  /\ v \in [Ptrs -> Refs]
  /\ time_stamp \in [Objects -> Nat]
  /\ next_version \in [Objects -> Refs]
  /\ value \in [Links -> Values]
  /\ stamp \in Nat /\ done_stamp \in Nat
  /\ local_stamp \in [Threads -> Nat \cup {NoStamp}]
  /\ pc \in [Threads -> PCs]
  /\ loc \in [Threads -> Locals]
  /\ links \in SUBSET Links
  /\ retires \in [Links -> Nat]
  /\ hist \in [Ptrs -> Seq(Objects)]
  /\ seen \in [Ptrs -> Nat]
  /\ window \in [Threads -> [Ptrs -> Nat \X Nat]]
  /\ snap \in [Threads -> [Ptrs -> Values \cup {Unread}]]

\* Which call is where.
Control(t) ==
  LET o == loc[t].op  c == loc[t].cont IN
  /\ o # "none" => loc[t].p \in Used
  /\ o = "store" => loc[t].p \in use.stored
  /\ o = "cas" => loc[t].p \in use.cassed
  /\ pc[t] \in {"idle", "advance"} <=> o = "none"
  /\ o = "none" => loc[t] = NoLocals
  /\ o \in {"store", "cas"} \/ loc[t].arg = Null
  /\ o = "snapshot" => /\ pc[t] = "chase" \/ (Stamping(t) /\ c = "chase")
                       /\ local_stamp[t] # NoStamp
  /\ pc[t] = "advance" => local_stamp[t] # NoStamp
  /\ pc[t] = "chase" => o = "snapshot"
  /\ Stamping(t) => o # "read" /\ (c = "chase" <=> o = "snapshot")
  /\ pc[t] \in {"store_cam", "store_check", "store_recam"} => o = "store"
  /\ pc[t] \in {"store_check", "store_recam"} =>
       use.build = "hybrid" /\ IsIndirect(loc[t].old)
  /\ pc[t] \in {"cas_try", "cas_retry", "cas_fail"} => o = "cas"
  /\ pc[t] = "cas_retry" => use.build = "hybrid"
  /\ Stamping(t) /\ c = "cas_try" => o = "cas"
  /\ Stamping(t) /\ c = "retire" => o \in {"cas", "store"}
  /\ pc[t] = "retire" => o \in {"cas", "store"}
ControlInv == \A t \in Threads : Control(t)

\* The clock is ahead of every stamp and of every running snapshot, and
\* done_stamp is behind them.
ClockOf(t) ==
  /\ pc[t] = "stamp_cas" => loc[t].t <= stamp /\ loc[t].cur # Null
  /\ local_stamp[t] # NoStamp =>
       /\ done_stamp <= local_stamp[t] /\ local_stamp[t] <= stamp
       /\ pc[t] # "advance" => local_stamp[t] < stamp
ClockInv ==
  /\ 1 <= done_stamp /\ done_stamp <= stamp /\ stamp \in 1 .. LastStamp
  /\ \A x \in Objects : time_stamp[x] <= stamp \/ time_stamp[x] = Tbd

\* Only versions have stamps, and the links among them are allocated.
HistInv ==
  /\ \A p \in Ptrs : \A k \in 1 .. Len(hist[p]) :
       IsIndirect(hist[p][k]) => hist[p][k] \in links
  /\ \A x \in Objects : time_stamp[x] # Tbd => InHist(x)
  /\ use.build = "once" => links = {}

\* v[p] holds the newest version, or its value once it was cut out.
PtrInv ==
  \A p \in Ptrs : LET n == Len(hist[p]) IN
    IF n = 0 THEN v[p] = Null
    ELSE \/ v[p] = hist[p][n]
         \/ /\ use.build = "hybrid" /\ IsIndirect(hist[p][n])
            /\ v[p] = value[hist[p][n]]
            /\ time_stamp[hist[p][n]] <= done_stamp

\* Below a version is the one before it.
ChainInv ==
  \A p \in Ptrs : \A k \in 1 .. Len(hist[p]) :
    Shows(p, k - 1, next_version[hist[p][k]])

\* VersionsOrdered, for any two versions.
OrderInv ==
  \A p \in Ptrs : \A j \in 1 .. Len(hist[p]) : \A i \in 1 .. j - 1 :
    /\ time_stamp[hist[p][i]] # Tbd
    /\ time_stamp[hist[p][i]] <= time_stamp[hist[p][j]]

\* The node behind a link is older than the link, and no later version: a cas
\* that finds it in the pointer has found the link's value and not an ABA.
ValueInv ==
  use.build # "indirect" =>
    \A p \in Ptrs : \A k \in 1 .. Len(hist[p]) : LET x == hist[p][k] IN
      IsIndirect(x) =>
        /\ value[x] # Null => /\ time_stamp[value[x]] # Tbd
                              /\ time_stamp[value[x]] <= time_stamp[x]
        /\ \A j \in k + 1 .. Len(hist[p]) : value[x] # hist[p][j]

\* The stamp that t is about to set is not below that of any older version.
PendingOf(t) ==
  LET x == loc[t].cur IN
    pc[t] = "stamp_cas" /\ time_stamp[x] = Tbd =>
      /\ \A p \in Ptrs : \A k \in 1 .. Len(hist[p]) : hist[p][k] = x =>
           \A i \in 1 .. k - 1 : time_stamp[hist[p][i]] <= loc[t].t
      /\ use.build # "indirect" /\ IsIndirect(x) /\ value[x] # Null =>
           time_stamp[value[x]] <= loc[t].t

\* The reference that t stamps is that of the version it linearizes at, which
\* has its stamp by the time the call goes on.
CurOf(t) ==
  LET l == loc[t] IN
    /\ Stamping(t) /\ l.op # "snapshot" => Shows(l.p, l.version, l.cur)
    /\ pc[t] \in {"shortcut", "return", "retire", "cas_try"} /\ l.op # "read" =>
         /\ l.version <= Len(hist[l.p])
         /\ l.version # 0 => time_stamp[hist[l.p][l.version]] # Tbd

\* A cas before its first try and between its tries: as long as no version has
\* been installed since it looked, the pointer holds what it expects, or the
\* value of the link that it expects.
CasBefore(t) ==
  LET l == loc[t]  n == Len(hist[l.p]) IN
    /\ Shows(l.p, l.version, l.old) /\ l.cur = l.old
    /\ IsIndirect(l.old) => l.version # 0 /\ l.old = hist[l.p][l.version]
    /\ GetPtr(l.old) = l.exp /\ l.exp # l.arg
    /\ n = l.version => v[l.p] = l.old \/ (use.build = "hybrid" /\ IsIndirect(l.old))
    /\ n > l.version => VersionValue(l.p, l.version + 1) # l.exp
CasBetween(t) ==
  LET l == loc[t]  n == Len(hist[l.p])  x == next_version[l.new] IN
    /\ l.version \in 1 .. n /\ x = hist[l.p][l.version] /\ IsIndirect(x)
    /\ time_stamp[x] # Tbd
    /\ l.old = value[x] /\ l.exp = l.old /\ l.exp # l.arg
    /\ n = l.version => v[l.p] # x
    /\ n > l.version => VersionValue(l.p, l.version + 1) # l.exp
CasLost(t) ==
  LET l == loc[t] IN
    \E k \in l.version .. Len(hist[l.p]) : VersionValue(l.p, k) # l.exp
CasOf(t) ==
  /\ BeforeTry(t) => CasBefore(t)
  /\ pc[t] = "cas_try" => Stamped(loc[t].old)
  /\ pc[t] = "cas_retry" => CasBetween(t)
  /\ pc[t] = "cas_fail" => CasLost(t)

\* A store before and after it has installed its version.
StoreBefore(t) ==
  LET l == loc[t]  n == Len(hist[l.p]) IN
    /\ pc[t] \in {"store_cam", "store_check", "store_recam"}
    /\ Shows(l.p, n, l.old) /\ next_version[l.new] = l.old
    /\ n # 0 => time_stamp[hist[l.p][n]] # Tbd
    /\ \/ v[l.p] = l.old /\ pc[t] = "store_cam"
       \/ use.build = "hybrid" /\ IsIndirect(l.old) /\ v[l.p] = value[l.old]
    /\ IsIndirect(l.old) => n # 0 /\ l.old = hist[l.p][n]
StoreDone(t) ==
  LET l == loc[t]  n == Len(hist[l.p]) IN
    /\ pc[t] \notin {"store_cam", "store_recam"}
    /\ n # 0 /\ l.version = n /\ l.new = hist[l.p][n]
StoreOf(t) ==
  loc[t].op = "store" =>
    /\ GetPtr(loc[t].old) # loc[t].arg /\ GetPtr(loc[t].new) = loc[t].arg
    /\ IsIndirect(loc[t].old) => InHist(loc[t].old)
    /\ IF StorePending(t) THEN StoreBefore(t) ELSE StoreDone(t)

\* The lock: one store at a time, and none leaves an unstamped version behind.
LockInv ==
  /\ \A t, u \in Threads : loc[t].op = "store" /\ loc[u].op = "store"
                           /\ loc[t].p = loc[u].p => t = u
  /\ \A p \in use.stored : LET n == Len(hist[p]) IN
       n # 0 /\ time_stamp[hist[p][n]] = Tbd =>
         \E t \in Threads : loc[t].op = "store" /\ loc[t].p = p

\* A node that needs no link is still nobody else's when it is installed.
FreshOf(t) ==
  (BeforeTry(t) \/ Prepared(t)) /\ ~UseIndirect(loc[t].arg) => Fresh(t, loc[t].arg)

\* A version that is made and not installed is the call's own.
PreparedOf(t) ==
  Prepared(t) => LET x == loc[t].new IN
    /\ x # Null /\ GetPtr(x) = loc[t].arg
    /\ ~IsIndirect(x) => ~UseIndirect(loc[t].arg)
    /\ IsIndirect(x) =>
         /\ x \in links /\ retires[x] = 0 /\ ~InHist(x)
         /\ \A u \in Threads \ {t} : Prepared(u) => loc[u].new # x
         /\ use.build # "indirect" /\ loc[t].arg # Null => time_stamp[loc[t].arg] # Tbd

\* A link is in one pointer, or owed by one call, or retired.
RetireInv ==
  /\ \A x \in Links : retires[x] <= 1 /\ (retires[x] = 1 => x \in links)
  /\ \A p \in Ptrs : IsIndirect(v[p]) =>
       retires[v[p]] = 0 /\ \A q \in Ptrs : v[q] = v[p] => q = p
  /\ \A t \in Threads : Owes(t) /\ IsIndirect(loc[t].old) =>
       /\ retires[loc[t].old] = 0 /\ InHist(loc[t].old)
       /\ \A p \in Ptrs : v[p] # loc[t].old
       /\ \A u \in Threads \ {t} : Owes(u) => loc[u].old # loc[t].old

\* A link that is in no pointer is with a call or retired.
LeakInv ==
  \A x \in links :
    \/ retires[x] = 1
    \/ \E p \in Ptrs : v[p] = x
    \/ \E t \in Threads : \/ Prepared(t) /\ loc[t].new = x
                          \/ Owes(t) /\ loc[t].old = x

\* What a completed call has seen is stamped.
SeenInv ==
  \A p \in Ptrs : /\ seen[p] <= Len(hist[p])
                  /\ seen[p] # 0 => time_stamp[hist[p][seen[p]]] # Tbd

\* The stamps on both sides of what a snapshot may contain.
WindowOf(t) ==
  local_stamp[t] # NoStamp =>
    \A p \in Ptrs : LET w == window[t][p]  ls == local_stamp[t] IN
      /\ w[1] <= Len(hist[p]) /\ (w[1] # 0 => time_stamp[hist[p][w[1]]] <= ls)
      /\ pc[t] # "advance" => /\ w[2] <= Len(hist[p])
                              /\ Above(p, w[2], ls)

\* A snapshot that is on its way down a chain, and what it has read.
ChaseAt(t) ==
  LET l == loc[t] IN
    \E j \in 0 .. Len(hist[l.p]) :
      Shows(l.p, j, l.cur) /\ Above(l.p, j, local_stamp[t])
ChaseOf(t) ==
  loc[t].op = "snapshot" =>
    ChaseAt(t) /\ (pc[t] = "chase" => Stamped(loc[t].cur))

\* What a snapshot has read is the value of the version it should read.
SnapOf(t) ==
  \A p \in Ptrs : snap[t][p] # Unread =>
    /\ local_stamp[t] # NoStamp /\ pc[t] # "advance"
    /\ \E j \in 0 .. Len(hist[p]) :
         /\ j # 0 => time_stamp[hist[p][j]] <= local_stamp[t]
         /\ Above(p, j, local_stamp[t])
         /\ snap[t][p] = VersionValue(p, j)

\* What holds of each thread, of the versions, and altogether.
ThreadInv(t) ==
  /\ ClockOf(t) /\ PendingOf(t) /\ CurOf(t) /\ CasOf(t) /\ StoreOf(t) /\ FreshOf(t)
  /\ PreparedOf(t) /\ WindowOf(t) /\ ChaseOf(t) /\ SnapOf(t)

HeapInv == HistInv /\ PtrInv /\ ChainInv /\ OrderInv /\ ValueInv

IInv ==
  /\ Types /\ ControlInv /\ ClockInv /\ HeapInv /\ LockInv /\ RetireInv /\ LeakInv
  /\ SeenInv /\ \A t \in Threads : ThreadInv(t)

-----------------------------------------------------------------------------
\* Where the constants lie: Tbd is above every stamp, and Null, nodes and
\* links are told apart.
LEMMA Constants ==
  /\ MaxStamp \in Nat /\ Tbd \in Nat /\ LastStamp \in Nat
  /\ LastStamp < Tbd /\ 1 <= LastStamp
  /\ Null \notin Objects /\ Null \notin Nodes /\ Null \notin Links
  /\ \A x \in Nodes : x \notin Links
BY MaxStampAssumption, RefsAssumption DEF Tbd, LastStamp, Objects

\* What the assumption on Uses says of the program at hand.
LEMMA UseFacts ==
  ASSUME use \in Uses
  PROVE  /\ use.build \in Builds
         /\ use.stored \subseteq Ptrs /\ use.cassed \subseteq Ptrs
         /\ use.stored \cap use.cassed = {}
         /\ use.nodes \subseteq Nodes /\ use.initial \subseteq Nodes
         /\ Used \subseteq Ptrs
BY UsesAssumption DEF UseTypes, Used

\* The locals of a thread that is in no call.
LEMMA NoLocalsType == NoLocals \in Locals
BY DEF NoLocals, Locals, Ops, Values, Refs

\* A new version is a link that was free or the node that is stored.
LEMMA NewVersionFacts ==
  ASSUME Types, NEW x \in Values, UseIndirect(x) => links # Links,
         ~UseIndirect(x) => x # Null
  PROVE  /\ NewVersion(x) \in Objects
         /\ UseIndirect(x) => NewVersion(x) \in Links \ links
         /\ ~UseIndirect(x) => NewVersion(x) = x /\ x \in Nodes
BY DEF Types, NewVersion, Objects, Values

(***************************************************************************)
(* What each step does, field by field.                                    *)
(***************************************************************************)
Others(t) == \A u \in Threads \ {t} : pc'[u] = pc[u] /\ loc'[u] = loc[u]
Typed == pc' \in [Threads -> PCs] /\ loc' \in [Threads -> Locals]

\* What a step leaves alone of the call of t, and of the shared state.
SameCall(t) ==
  /\ loc'[t].op = loc[t].op /\ loc'[t].p = loc[t].p /\ loc'[t].arg = loc[t].arg
  /\ loc'[t].exp = loc[t].exp
SameVersions(t) ==
  loc'[t].old = loc[t].old /\ loc'[t].new = loc[t].new /\ loc'[t].version = loc[t].version

\* t calls set_stamp.
SetsStamp(t, x, where) ==
  pc'[t] = "stamp" /\ loc'[t].cur = x /\ loc'[t].cont = where

SameHeap ==
  /\ use' = use /\ v' = v /\ time_stamp' = time_stamp /\ next_version' = next_version
  /\ value' = value /\ hist' = hist
SameClock == stamp' = stamp /\ done_stamp' = done_stamp
SameLinks == links' = links /\ retires' = retires
SameSnap == local_stamp' = local_stamp /\ window' = window /\ snap' = snap

\* x becomes the newest version of p.
Installs(p, x) ==
  /\ v' = [v EXCEPT ![p] = x]
  /\ hist' = [hist EXCEPT ![p] = Append(hist[p], x)]

\* x is retired, when it is a link.
Retired(x) == retires' = IF IsIndirect(x) THEN [retires EXCEPT ![x] = @ + 1] ELSE retires

\* The types of the locals, and of what the locals are set to.
LEMMA LocalTypes ==
  ASSUME Types
  PROVE  pc \in [Threads -> PCs] /\ loc \in [Threads -> Locals] /\ stamp \in Nat
BY DEF Types

\* The types of the references that steps follow.
LEMMA RefTypes ==
  ASSUME Types
  PROVE  /\ use \in Uses
         /\ done_stamp \in Nat
         /\ \A p \in Ptrs : v[p] \in Refs /\ Len(hist[p]) \in Nat
         /\ \A x \in Links : value[x] \in Values /\ value[x] \in Refs
         /\ \A x \in Objects : next_version[x] \in Refs
         /\ Null \in Values /\ Null \in Refs /\ Values \subseteq Refs
BY DEF Types, Refs, Values, Objects

\* The types of the fields of the locals.
LEMMA LocalsFields ==
  ASSUME NEW l \in Locals
  PROVE  /\ l.op \in Ops /\ l.p \in Ptrs \cup {Null} /\ l.arg \in Values /\ l.exp \in Values
         /\ l.old \in Refs /\ l.new \in Refs /\ l.cur \in Refs /\ l.t \in Nat
         /\ l.cont \in {"return", "shortcut", "cas_try", "retire", "chase"}
         /\ l.version \in Nat
BY DEF Locals

\* The fields of the locals of a thread that is in no call.
LEMMA NoLocalsFields ==
  /\ NoLocals \in Locals
  /\ NoLocals.op = "none" /\ NoLocals.p = Null /\ NoLocals.arg = Null /\ NoLocals.exp = Null
  /\ NoLocals.old = Null /\ NoLocals.new = Null /\ NoLocals.cur = Null /\ NoLocals.t = 0
  /\ NoLocals.version = 0
BY DEF NoLocals, Locals, Ops, Values, Refs

\* A call of set_stamp changes where the thread is and what it has at hand.
LEMMA CallSetStampEffect ==
  ASSUME Types, NEW t \in Threads, NEW l \in Locals, NEW x \in Refs,
         NEW where \in {"return", "shortcut", "cas_try", "retire", "chase"},
         CallSetStamp(t, l, x, where)
  PROVE  LET m == loc'[t] IN
         /\ Others(t) /\ Typed /\ SetsStamp(t, x, where)
         /\ m.op = l.op /\ m.p = l.p /\ m.arg = l.arg /\ m.exp = l.exp /\ m.old = l.old
         /\ m.new = l.new /\ m.version = l.version
BY LocalTypes DEF CallSetStamp, Goto, SetsStamp, Others, Typed, PCs, Locals

\* What StampFetch changes: set_stamp looks at the stamp and loads the
\* clock.
LEMMA StampFetchEffect ==
  ASSUME Types, NEW t \in Threads, StampFetch(t)
  PROVE  /\ Others(t) /\ Typed /\ SameCall(t) /\ SameVersions(t)
         /\ pc[t] = "stamp" /\ loc'[t].cur = loc[t].cur /\ loc'[t].cont = loc[t].cont
         /\ \/ Stamped(loc[t].cur) /\ pc'[t] = loc[t].cont
            \/ ~Stamped(loc[t].cur) /\ pc'[t] = "stamp_cas" /\ loc'[t].t = stamp
         /\ SameHeap /\ SameClock /\ SameLinks /\ SameSnap /\ seen' = seen
<1>1. /\ Others(t) /\ Typed /\ SameCall(t) /\ SameVersions(t)
      /\ pc[t] = "stamp" /\ loc'[t].cur = loc[t].cur /\ loc'[t].cont = loc[t].cont
      /\ \/ Stamped(loc[t].cur) /\ pc'[t] = loc[t].cont
         \/ ~Stamped(loc[t].cur) /\ pc'[t] = "stamp_cas" /\ loc'[t].t = stamp
  BY LocalTypes DEF StampFetch, Goto, Stamped, Others, Typed, SameCall, SameVersions,
     PCs, Locals
<1> QED
  BY <1>1 DEF StampFetch, SameHeap, SameClock, SameLinks, SameSnap, heapVars, clockVars,
     linkVars, histVars, snapVars

\* What StampCas changes: set_stamp sets the stamp, unless somebody else
\* has.
LEMMA StampCasEffect ==
  ASSUME Types, NEW t \in Threads, StampCas(t)
  PROVE  /\ Others(t) /\ Typed /\ SameCall(t) /\ SameVersions(t)
         /\ pc[t] = "stamp_cas" /\ pc'[t] = loc[t].cont
         /\ loc'[t].cur = loc[t].cur /\ loc'[t].cont = loc[t].cont
         /\ time_stamp' = IF time_stamp[loc[t].cur] = Tbd
                            THEN [time_stamp EXCEPT ![loc[t].cur] = loc[t].t]
                            ELSE time_stamp
         /\ use' = use /\ v' = v /\ next_version' = next_version /\ value' = value
         /\ hist' = hist /\ SameClock /\ SameLinks /\ SameSnap /\ seen' = seen
<1>1. /\ Others(t) /\ Typed /\ SameCall(t) /\ SameVersions(t)
      /\ pc[t] = "stamp_cas" /\ pc'[t] = loc[t].cont
      /\ loc'[t].cur = loc[t].cur /\ loc'[t].cont = loc[t].cont
  BY LocalTypes DEF StampCas, Goto, Others, Typed, SameCall, SameVersions, PCs, Locals
<1> QED
  BY <1>1 DEF StampCas, SameClock, SameLinks, SameSnap, clockVars, linkVars, histVars,
     snapVars

\* What Shortcut changes: shortcut cuts the link at hand out and retires it,
\* or does nothing.
LEMMA ShortcutEffect ==
  ASSUME Types, NEW t \in Threads, Shortcut(t)
  PROVE  LET l == loc[t] IN
         /\ Others(t) /\ Typed /\ loc' = loc
         /\ pc[t] = "shortcut" /\ pc'[t] = "return"
         /\ \/ v' = v /\ retires' = retires
            \/ /\ use.build = "hybrid" /\ IsIndirect(l.cur) /\ v[l.p] = l.cur
               /\ time_stamp[l.cur] <= done_stamp
               /\ v' = [v EXCEPT ![l.p] = value[l.cur]]
               /\ retires' = [retires EXCEPT ![l.cur] = @ + 1]
         /\ use' = use /\ time_stamp' = time_stamp /\ next_version' = next_version
         /\ value' = value /\ hist' = hist
         /\ SameClock /\ links' = links /\ SameSnap /\ seen' = seen
<1>1. Others(t) /\ Typed /\ loc' = loc /\ pc[t] = "shortcut" /\ pc'[t] = "return"
  BY LocalTypes DEF Shortcut, Goto, Others, Typed, PCs
<1> QED
  BY <1>1 DEF Shortcut, ShortcutRetires, CutsOut, RetireLink, SameClock, SameSnap,
     clockVars, histVars, snapVars

\* What RetireOld changes: the update retires the version that it replaced.
LEMMA RetireOldEffect ==
  ASSUME Types, NEW t \in Threads, RetireOld(t)
  PROVE  /\ Others(t) /\ Typed /\ loc' = loc
         /\ pc[t] = "retire" /\ pc'[t] \in {"shortcut", "return"}
         /\ Retired(loc[t].old)
         /\ SameHeap /\ SameClock /\ links' = links /\ SameSnap /\ seen' = seen
<1>1. /\ Others(t) /\ Typed /\ loc' = loc
      /\ pc[t] = "retire" /\ pc'[t] \in {"shortcut", "return"}
  BY LocalTypes DEF RetireOld, Goto, Others, Typed, PCs
<1> QED
  BY <1>1 DEF RetireOld, RetireLink, Retired, SameHeap, SameClock, SameSnap, heapVars,
     clockVars, histVars, snapVars

\* What Return changes: the call ends.
LEMMA ReturnEffect ==
  ASSUME Types, NEW t \in Threads, Return(t)
  PROVE  /\ Others(t) /\ Typed /\ loc'[t] = NoLocals
         /\ pc[t] = "return" /\ pc'[t] = "idle"
         /\ \/ seen' = seen
            \/ /\ loc[t].op # "read"
               /\ seen' = [seen EXCEPT ![loc[t].p] = loc[t].version]
         /\ SameHeap /\ SameClock /\ SameLinks /\ SameSnap
<1>1. Others(t) /\ Typed /\ loc'[t] = NoLocals /\ pc[t] = "return" /\ pc'[t] = "idle"
  BY LocalTypes, NoLocalsFields DEF Return, Goto, Others, Typed, PCs
<1> QED
  BY <1>1 DEF Return, SameHeap, SameClock, SameLinks, SameSnap, heapVars, clockVars,
     linkVars, snapVars

\* What Load changes: load, validate or read begins.
LEMMA LoadEffect ==
  ASSUME Types, NEW t \in Threads, NEW p \in Used, NEW o \in use.ops, Load(t, p, o)
  PROVE  LET m == loc'[t] IN
         /\ Others(t) /\ Typed /\ pc[t] = "idle"
         /\ m.op = o /\ m.p = p /\ m.arg = Null /\ m.cur = v[p]
         /\ m.version = Len(hist[p])
         /\ \/ o = "load" /\ SetsStamp(t, v[p], "shortcut")
            \/ o = "validate" /\ SetsStamp(t, v[p], "return")
            \/ o = "read" /\ pc'[t] = "shortcut"
         /\ local_stamp[t] = NoStamp
         /\ SameHeap /\ SameClock /\ SameLinks /\ SameSnap /\ seen' = seen
<1> DEFINE l == [NoLocals EXCEPT !.op = o, !.p = p, !.version = Len(hist[p])]
<1>1. /\ SameHeap /\ SameClock /\ SameLinks /\ SameSnap /\ seen' = seen
      /\ o \in {"load", "validate", "read"} /\ pc[t] = "idle" /\ local_stamp[t] = NoStamp
  BY DEF Load, SameHeap, SameClock, SameLinks, SameSnap, heapVars, clockVars, linkVars,
     histVars, snapVars
<1>2. p \in Ptrs /\ v[p] \in Refs /\ Len(hist[p]) \in Nat
  BY RefTypes, UseFacts
<1>3. /\ l \in Locals /\ l.op = o /\ l.p = p /\ l.arg = Null
      /\ l.version = Len(hist[p])
  BY <1>1, <1>2, NoLocalsFields DEF Locals, Ops
<1> HIDE DEF l
<1>4. CASE o = "load"
  <2>1. CallSetStamp(t, l, v[p], "shortcut")
    BY <1>4 DEF Load, l
  <2> QED
    BY <1>1, <1>2, <1>3, <1>4, <2>1, CallSetStampEffect DEF SetsStamp
<1>5. CASE o = "validate"
  <2>1. CallSetStamp(t, l, v[p], "return")
    BY <1>5 DEF Load, l
  <2> QED
    BY <1>1, <1>2, <1>3, <1>5, <2>1, CallSetStampEffect DEF SetsStamp
<1>6. CASE o = "read"
  <2>1. loc' = [loc EXCEPT ![t] = [l EXCEPT !.cur = v[p]]] /\ pc' = [pc EXCEPT ![t] = "shortcut"]
    BY <1>6 DEF Load, Goto, l
  <2> QED
    BY <1>1, <1>2, <1>3, <1>6, <2>1, LocalTypes DEF Others, Typed, PCs, Locals
<1> QED
  BY <1>1, <1>4, <1>5, <1>6

\* A call is of a pointer that the program uses.
LEMMA CallPtr ==
  ASSUME Types, ControlInv, NEW t \in Threads, loc[t].op # "none"
  PROVE  loc[t].p \in Ptrs /\ loc[t].p \in Used
BY RefTypes, UseFacts DEF ControlInv, Control

\* new is written with the value x and the version old below it.
Prepares(new, x, old) ==
  /\ next_version' = [next_version EXCEPT ![new] = old]
  /\ IF IsIndirect(new) THEN /\ links' = links \cup {new}
                             /\ value' = [value EXCEPT ![new] = x]
                        ELSE links' = links /\ value' = value
  /\ new \in Objects
  /\ UseIndirect(x) => IsIndirect(new) /\ new \notin links
  /\ ~UseIndirect(x) => new = x /\ x \in Nodes /\ ~IsIndirect(new)

\* The new version is written where nobody else looks.
LEMMA PrepareEffect ==
  ASSUME Types, NEW x \in Values, NEW old \in Refs, Prepare(x, old),
         ~UseIndirect(x) => x # Null
  PROVE  Prepares(NewVersion(x), x, old)
<1>1. UseIndirect(x) => links # Links
  BY DEF Prepare
<1>2. /\ NewVersion(x) \in Objects
      /\ UseIndirect(x) => NewVersion(x) \in Links \ links
      /\ ~UseIndirect(x) => NewVersion(x) = x /\ x \in Nodes
  BY <1>1, NewVersionFacts
<1> QED
  BY <1>2, Constants DEF Prepare, Prepares, IsIndirect

\* What Store changes: store begins: it has the lock and makes its version.
LEMMA StoreEffect ==
  ASSUME IInv, NEW t \in Threads, NEW p \in use.stored, NEW x \in use.nodes \cup {Null},
         Store(t, p, x)
  PROVE  LET m == loc'[t] IN
         /\ Others(t) /\ Typed /\ pc[t] = "idle" /\ pc'[t] = "store_cam"
         /\ m.op = "store" /\ m.p = p /\ m.arg = x /\ m.old = v[p]
         /\ m.version = Len(hist[p]) + 1
         /\ Prepares(m.new, x, v[p])
         /\ \A u \in Threads : loc[u].op = "store" => loc[u].p # p
         /\ UseIndirect(x) \/ Fresh(t, x)
         /\ use.redundant \/ GetPtr(v[p]) # x
         /\ local_stamp[t] = NoStamp /\ p \in Ptrs /\ x \in Values
         /\ use' = use /\ v' = v /\ time_stamp' = time_stamp /\ hist' = hist
         /\ SameClock /\ retires' = retires /\ SameSnap /\ seen' = seen
<1>1. Types
  BY DEF IInv
<1>2. p \in Ptrs /\ v[p] \in Refs /\ Len(hist[p]) \in Nat /\ x \in Values
  BY <1>1, RefTypes, UseFacts DEF Values
<1>3. /\ x \in Storable(t) /\ Prepare(x, v[p])
      /\ pc[t] = "idle" /\ local_stamp[t] = NoStamp
      /\ \A u \in Threads : loc[u].op = "store" => loc[u].p # p
      /\ use.redundant \/ GetPtr(v[p]) # x
      /\ use' = use /\ v' = v /\ time_stamp' = time_stamp /\ hist' = hist
      /\ SameClock /\ retires' = retires /\ SameSnap /\ seen' = seen
  BY DEF Store, SameClock, SameSnap, clockVars, histVars, snapVars
<1>4. UseIndirect(x) \/ Fresh(t, x)
  BY <1>3 DEF Storable
<1>5. Prepares(NewVersion(x), x, v[p])
  BY <1>1, <1>2, <1>3, <1>4, PrepareEffect, Constants DEF Fresh
<1>6. NewVersion(x) \in Refs
  BY <1>5 DEF Prepares, Refs
<1> DEFINE m == [NoLocals EXCEPT !.op = "store", !.p = p, !.arg = x, !.old = v[p],
                   !.new = NewVersion(x), !.version = Len(hist[p]) + 1]
<1>7. /\ m \in Locals /\ m.op = "store" /\ m.p = p /\ m.arg = x /\ m.old = v[p]
      /\ m.version = Len(hist[p]) + 1 /\ m.new = NewVersion(x)
  <2> DEFINE new == NewVersion(x)
  <2>1. new \in Refs /\ Len(hist[p]) + 1 \in Nat
    BY <1>2, <1>6
  <2>2. /\ NoLocals \in Locals /\ "store" \in Ops /\ p \in Ptrs \cup {Null}
    BY <1>2, NoLocalsFields DEF Ops
  <2> HIDE DEF new
  <2> QED
    BY <1>2, <2>1, <2>2 DEF Locals, new
<1>8. loc' = [loc EXCEPT ![t] = m] /\ pc' = [pc EXCEPT ![t] = "store_cam"]
  BY DEF Store, Goto
<1> HIDE DEF m
<1>9. Others(t) /\ Typed /\ pc'[t] = "store_cam" /\ loc'[t] = m
  BY <1>1, <1>7, <1>8, LocalTypes DEF Others, Typed, PCs
<1> QED
  BY <1>2, <1>3, <1>4, <1>5, <1>7, <1>9

\* What StoreWrite changes: store installs its version in the builds without
\* shortcuts.
LEMMA StoreWriteEffect ==
  ASSUME IInv, NEW t \in Threads, StoreWrite(t)
  PROVE  LET l == loc[t] IN
         /\ Others(t) /\ Typed /\ SameCall(t) /\ SameVersions(t)
         /\ pc[t] = "store_cam" /\ use.build # "hybrid"
         /\ \/ Installs(l.p, l.new)
            \/ use.build = "once" /\ v[l.p] # l.old /\ v' = v /\ hist' = hist
         /\ IF use.build = "noshortcut" THEN Retired(l.old) ELSE retires' = retires
         /\ SetsStamp(t, l.new, IF use.build = "indirect" THEN "retire" ELSE "return")
         /\ use' = use /\ time_stamp' = time_stamp /\ next_version' = next_version
         /\ value' = value /\ SameClock /\ links' = links /\ SameSnap /\ seen' = seen
<1>1. Types /\ loc[t] \in Locals /\ loc[t].new \in Refs
  BY LocalTypes, LocalsFields DEF IInv
<1>2. CallSetStamp(t, loc[t], loc[t].new,
                   IF use.build = "indirect" THEN "retire" ELSE "return")
  BY DEF StoreWrite
<1>3. /\ Others(t) /\ Typed /\ SameCall(t) /\ SameVersions(t)
      /\ SetsStamp(t, loc[t].new, IF use.build = "indirect" THEN "retire" ELSE "return")
  BY <1>1, <1>2, CallSetStampEffect DEF SameCall, SameVersions
<1> QED
  BY <1>3 DEF StoreWrite, Cam, Installed, Installs, RetireLink, Retired, SameClock,
     SameSnap, clockVars, snapVars

\* A store goes on to stamp its version.
LEMMA FinishStoreEffect ==
  ASSUME IInv, NEW t \in Threads, FinishStore(t)
  PROVE  /\ Others(t) /\ Typed /\ SameCall(t) /\ SameVersions(t)
         /\ \/ SetsStamp(t, loc[t].new, "shortcut")
            \/ SetsStamp(t, loc[t].new, "return")
<1>1. Types /\ loc[t] \in Locals /\ loc[t].new \in Refs
  BY LocalTypes, LocalsFields DEF IInv
<1> QED
  BY <1>1, CallSetStampEffect DEF FinishStore, SameCall, SameVersions

\* What StoreCam changes: store installs its version unless the old link was
\* cut out.
LEMMA StoreCamEffect ==
  ASSUME IInv, NEW t \in Threads, StoreCam(t)
  PROVE  LET l == loc[t] IN
         /\ Others(t) /\ Typed /\ SameCall(t) /\ SameVersions(t)
         /\ pc[t] = "store_cam" /\ use.build = "hybrid"
         /\ IF v[l.p] = l.old THEN Installs(l.p, l.new) ELSE v' = v /\ hist' = hist
         /\ IF IsIndirect(l.old) THEN pc'[t] = "store_check"
            ELSE SetsStamp(t, l.new, "shortcut") \/ SetsStamp(t, l.new, "return")
         /\ use' = use /\ time_stamp' = time_stamp /\ next_version' = next_version
         /\ value' = value /\ SameClock /\ SameLinks /\ SameSnap /\ seen' = seen
<1>1. LET l == loc[t] IN
         /\ pc[t] = "store_cam" /\ use.build = "hybrid"
         /\ IF v[l.p] = l.old THEN Installs(l.p, l.new) ELSE v' = v /\ hist' = hist
         /\ use' = use /\ time_stamp' = time_stamp /\ next_version' = next_version
         /\ value' = value /\ SameClock /\ SameLinks /\ SameSnap /\ seen' = seen
  BY DEF StoreCam, Cam, Installed, Installs, SameClock, SameLinks, SameSnap, clockVars,
     linkVars, snapVars
<1>2. CASE IsIndirect(loc[t].old)
  <2>1. pc' = [pc EXCEPT ![t] = "store_check"] /\ loc' = loc
    BY <1>2 DEF StoreCam, Goto
  <2>2. pc \in [Threads -> PCs] /\ loc \in [Threads -> Locals]
    BY LocalTypes DEF IInv
  <2> QED
    BY <1>1, <1>2, <2>1, <2>2 DEF Others, Typed, SameCall, SameVersions, PCs
<1>3. CASE ~IsIndirect(loc[t].old)
  BY <1>1, <1>3, FinishStoreEffect DEF StoreCam
<1> QED
  BY <1>2, <1>3

\* What StoreCheck changes: store finds out whether its cam lost.
LEMMA StoreCheckEffect ==
  ASSUME IInv, NEW t \in Threads, StoreCheck(t)
  PROVE  LET l == loc[t] IN
         /\ Others(t) /\ Typed /\ SameCall(t) /\ SameVersions(t)
         /\ pc[t] = "store_check"
         /\ \/ v[l.p] = value[l.old] /\ pc'[t] = "store_recam" /\ retires' = retires
            \/ /\ v[l.p] # value[l.old] /\ Retired(l.old)
               /\ SetsStamp(t, l.new, "shortcut") \/ SetsStamp(t, l.new, "return")
         /\ SameHeap /\ SameClock /\ links' = links /\ SameSnap /\ seen' = seen
<1>1. /\ pc[t] = "store_check"
      /\ SameHeap /\ SameClock /\ links' = links /\ SameSnap /\ seen' = seen
  BY DEF StoreCheck, SameHeap, SameClock, SameSnap, heapVars, clockVars, histVars, snapVars
<1>2. CASE v[loc[t].p] = value[loc[t].old]
  <2>1. pc' = [pc EXCEPT ![t] = "store_recam"] /\ loc' = loc /\ retires' = retires
    BY <1>2 DEF StoreCheck, Goto, CamLost
  <2>2. pc \in [Threads -> PCs] /\ loc \in [Threads -> Locals]
    BY LocalTypes DEF IInv
  <2> QED
    BY <1>1, <1>2, <2>1, <2>2 DEF Others, Typed, SameCall, SameVersions, PCs
<1>3. CASE v[loc[t].p] # value[loc[t].old]
  BY <1>1, <1>3, FinishStoreEffect DEF StoreCheck, CamLost, RetireLink, Retired
<1> QED
  BY <1>2, <1>3

\* What StoreRecam changes: store installs its version over the value of the
\* old link.
LEMMA StoreRecamEffect ==
  ASSUME IInv, NEW t \in Threads, StoreRecam(t)
  PROVE  LET l == loc[t] IN
         /\ Others(t) /\ Typed /\ SameCall(t) /\ SameVersions(t)
         /\ pc[t] = "store_recam"
         /\ IF v[l.p] = value[l.old] THEN Installs(l.p, l.new) ELSE v' = v /\ hist' = hist
         /\ SetsStamp(t, l.new, "shortcut") \/ SetsStamp(t, l.new, "return")
         /\ use' = use /\ time_stamp' = time_stamp /\ next_version' = next_version
         /\ value' = value /\ SameClock /\ SameLinks /\ SameSnap /\ seen' = seen
<1>1. FinishStore(t)
  BY DEF StoreRecam
<1> QED
  BY <1>1, FinishStoreEffect DEF StoreRecam, Cam, Installed, Installs, SameClock, SameLinks,
     SameSnap, clockVars, linkVars, snapVars

\* What Cas changes: cas begins: it looks at the newest version and decides.
LEMMA CasEffect ==
  ASSUME IInv, NEW t \in Threads, NEW p \in use.cassed, NEW e \in use.nodes \cup {Null},
         NEW x \in use.nodes \cup {Null}, Cas(t, p, e, x)
  PROVE  LET m == loc'[t] IN
         /\ Others(t) /\ Typed /\ pc[t] = "idle"
         /\ m.op = "cas" /\ m.p = p /\ m.arg = x /\ m.exp = e /\ m.old = v[p]
         /\ m.version = Len(hist[p])
         /\ \/ SetsStamp(t, v[p], "return")
            \/ SetsStamp(t, v[p], "cas_try") /\ GetPtr(v[p]) = e /\ e # x
         /\ UseIndirect(x) \/ Fresh(t, x)
         /\ local_stamp[t] = NoStamp /\ p \in Ptrs
         /\ SameHeap /\ SameClock /\ SameLinks /\ SameSnap /\ seen' = seen
<1> DEFINE l == [NoLocals EXCEPT !.op = "cas", !.p = p, !.arg = x, !.exp = e,
                   !.old = v[p], !.version = Len(hist[p])]
           over == GetPtr(v[p]) # e \/ e = x
<1>1. Types
  BY DEF IInv
<1>2. /\ p \in Ptrs /\ v[p] \in Refs /\ Len(hist[p]) \in Nat /\ x \in Values
      /\ e \in Values
  BY <1>1, RefTypes, UseFacts DEF Values
<1>3. /\ l \in Locals /\ l.op = "cas" /\ l.p = p /\ l.arg = x /\ l.exp = e
      /\ l.old = v[p] /\ l.version = Len(hist[p])
  BY <1>2, NoLocalsFields DEF Locals, Ops
<1>4. CallSetStamp(t, l, v[p], IF over THEN "return" ELSE "cas_try")
  BY DEF Cas
<1>5. /\ x \in Storable(t) /\ pc[t] = "idle" /\ local_stamp[t] = NoStamp
      /\ SameHeap /\ SameClock /\ SameLinks /\ SameSnap /\ seen' = seen
  BY DEF Cas, SameHeap, SameClock, SameLinks, SameSnap, heapVars, clockVars, linkVars,
     histVars, snapVars
<1>6. UseIndirect(x) \/ Fresh(t, x)
  BY <1>5 DEF Storable
<1> HIDE DEF l
<1> QED
  BY <1>1, <1>2, <1>3, <1>4, <1>5, <1>6, CallSetStampEffect

\* What CasTry changes: cas makes its version and tries to install it.
LEMMA CasTryEffect ==
  ASSUME IInv, NEW t \in Threads, CasTry(t)
  PROVE  LET l == loc[t]  m == loc'[t] IN
         /\ Others(t) /\ Typed /\ SameCall(t) /\ pc[t] = "cas_try"
         /\ Prepares(m.new, l.arg, l.old) /\ l.p \in Ptrs
         /\ \/ /\ v[l.p] = l.old /\ Installs(l.p, m.new) /\ m.old = l.old
               /\ m.version = Len(hist[l.p]) + 1 /\ SetsStamp(t, m.new, "retire")
            \/ /\ v[l.p] # l.old /\ v' = v /\ hist' = hist /\ m.version = l.version
               /\ \/ /\ Retries(l) /\ pc'[t] = "cas_retry" /\ m.old = value[l.old]
                  \/ /\ ~Retries(l) /\ pc'[t] = "cas_fail" /\ m.old = l.old
         /\ use' = use /\ time_stamp' = time_stamp
         /\ SameClock /\ retires' = retires /\ SameSnap /\ seen' = seen
<1> DEFINE new == NewVersion(loc[t].arg)
           l == [loc[t] EXCEPT !.new = new]
<1>1. Types /\ ControlInv /\ FreshOf(t) /\ pc[t] = "cas_try" /\ loc[t].op = "cas"
  BY DEF IInv, ThreadInv, CasTry, ControlInv, Control
<1>2. loc[t] \in Locals /\ loc[t].p \in Ptrs
  BY <1>1, LocalTypes, CallPtr
<1>3. loc[t].arg \in Values /\ loc[t].old \in Refs
  BY <1>2, LocalsFields
<1>4. ~UseIndirect(loc[t].arg) => loc[t].arg # Null
  BY <1>1, Constants DEF FreshOf, Fresh, BeforeTry
<1>5. l.arg = loc[t].arg /\ l.old = loc[t].old /\ l.p = loc[t].p
  BY <1>2 DEF Locals
<1>6. Prepare(loc[t].arg, loc[t].old)
  BY <1>5 DEF CasTry
<1>7. Prepares(new, loc[t].arg, loc[t].old)
  BY <1>1, <1>3, <1>4, <1>6, PrepareEffect
<1>8. new \in Refs /\ Len(hist[loc[t].p]) \in Nat
  BY <1>1, <1>2, <1>7, RefTypes DEF Prepares, Refs
<1>9. /\ l \in Locals /\ l.new = new /\ l.op = loc[t].op /\ l.exp = loc[t].exp
      /\ l.version = loc[t].version
  BY <1>2, <1>8 DEF Locals
<1>10. /\ use' = use /\ time_stamp' = time_stamp
       /\ SameClock /\ retires' = retires /\ SameSnap /\ seen' = seen
  BY DEF CasTry, SameClock, SameSnap, clockVars, snapVars
<1>11. CASE v[l.p] = l.old
  <2> DEFINE n == [l EXCEPT !.version = Len(hist[l.p]) + 1]
  <2>1. Installs(l.p, new) /\ CallSetStamp(t, n, new, "retire")
    BY <1>9, <1>11 DEF CasTry, CasSucceeds, Installed, Installs
  <2> HIDE DEF l, new
  <2>2. /\ n \in Locals /\ n.op = l.op /\ n.p = l.p /\ n.arg = l.arg /\ n.exp = l.exp
        /\ n.old = l.old /\ n.new = l.new /\ n.version = Len(hist[l.p]) + 1
    BY <1>5, <1>8, <1>9 DEF Locals
  <2> HIDE DEF n
  <2>3. LET m == loc'[t] IN
        /\ Others(t) /\ Typed /\ SetsStamp(t, new, "retire")
        /\ m.op = n.op /\ m.p = n.p /\ m.arg = n.arg /\ m.exp = n.exp /\ m.old = n.old
        /\ m.new = n.new /\ m.version = n.version
    BY <1>1, <1>8, <2>1, <2>2, CallSetStampEffect
  <2> QED
    BY <1>1, <1>2, <1>5, <1>7, <1>9, <1>10, <1>11, <2>1, <2>2, <2>3 DEF SameCall
<1>12. CASE v[l.p] # l.old /\ Retries(l)
  <2> DEFINE n == [l EXCEPT !.old = value[@]]
  <2>1. /\ v' = v /\ hist' = hist /\ loc' = [loc EXCEPT ![t] = n]
        /\ pc' = [pc EXCEPT ![t] = "cas_retry"]
    BY <1>12 DEF CasTry, Goto
  <2>2. value[l.old] \in Refs
    BY <1>1, <1>12, RefTypes DEF Retries, IsIndirect
  <2>3. /\ n \in Locals /\ n.op = l.op /\ n.p = l.p /\ n.arg = l.arg /\ n.exp = l.exp
        /\ n.old = value[l.old] /\ n.new = l.new /\ n.version = l.version
    BY <1>5, <1>9, <2>2 DEF Locals
  <2>4. Retries(loc[t])
    BY <1>5, <1>12 DEF Retries
  <2> HIDE DEF n, l
  <2>5. Others(t) /\ Typed /\ loc'[t] = n /\ pc'[t] = "cas_retry"
    BY <1>1, <2>1, <2>3, LocalTypes DEF Others, Typed, PCs
  <2> QED
    BY <1>1, <1>2, <1>5, <1>7, <1>9, <1>10, <1>12, <2>1, <2>3, <2>4, <2>5 DEF SameCall
<1>13. CASE v[l.p] # l.old /\ ~Retries(l)
  <2>1. /\ v' = v /\ hist' = hist /\ loc' = [loc EXCEPT ![t] = l]
        /\ pc' = [pc EXCEPT ![t] = "cas_fail"]
    BY <1>13 DEF CasTry, Goto
  <2>2. ~Retries(loc[t])
    BY <1>5, <1>13 DEF Retries
  <2> HIDE DEF l
  <2>3. Others(t) /\ Typed /\ loc'[t] = l /\ pc'[t] = "cas_fail"
    BY <1>1, <1>9, <2>1, LocalTypes DEF Others, Typed, PCs
  <2> QED
    BY <1>1, <1>2, <1>5, <1>7, <1>9, <1>10, <1>13, <2>1, <2>2, <2>3 DEF SameCall
<1> QED
  BY <1>11, <1>12, <1>13

\* What CasRetry changes: cas tries again with the value of the link it
\* expected.
LEMMA CasRetryEffect ==
  ASSUME IInv, NEW t \in Threads, CasRetry(t)
  PROVE  LET l == loc[t]  m == loc'[t] IN
         /\ Others(t) /\ Typed /\ SameCall(t) /\ pc[t] = "cas_retry"
         /\ m.old = l.old /\ m.new = l.new /\ l.p \in Ptrs
         /\ \/ /\ v[l.p] = l.old /\ Installs(l.p, l.new)
               /\ m.version = Len(hist[l.p]) + 1 /\ SetsStamp(t, l.new, "retire")
            \/ /\ v[l.p] # l.old /\ v' = v /\ hist' = hist /\ m.version = l.version
               /\ pc'[t] = "cas_fail"
         /\ use' = use /\ time_stamp' = time_stamp /\ next_version' = next_version
         /\ value' = value /\ SameClock /\ SameLinks /\ SameSnap /\ seen' = seen
<1> DEFINE l == loc[t]
<1>1. Types /\ ControlInv /\ pc[t] = "cas_retry" /\ loc[t].op = "cas"
  BY DEF IInv, CasRetry, ControlInv, Control
<1>2. l \in Locals /\ l.p \in Ptrs
  BY <1>1, LocalTypes, CallPtr
<1>3. l.new \in Refs /\ Len(hist[l.p]) \in Nat
  BY <1>1, <1>2, LocalsFields, RefTypes
<1>4. /\ use' = use /\ time_stamp' = time_stamp /\ next_version' = next_version
      /\ value' = value /\ SameClock /\ SameLinks /\ SameSnap /\ seen' = seen
  BY DEF CasRetry, SameClock, SameLinks, SameSnap, clockVars, linkVars, snapVars
<1>5. CASE v[l.p] = l.old
  <2> DEFINE n == [l EXCEPT !.version = Len(hist[l.p]) + 1]
  <2>1. Installs(l.p, l.new) /\ CallSetStamp(t, n, l.new, "retire")
    BY <1>5 DEF CasRetry, CasSucceeds, Installed, Installs
  <2>2. /\ n \in Locals /\ n.op = l.op /\ n.p = l.p /\ n.arg = l.arg /\ n.exp = l.exp
        /\ n.old = l.old /\ n.new = l.new /\ n.version = Len(hist[l.p]) + 1
    BY <1>2, <1>3 DEF Locals
  <2> HIDE DEF n
  <2> QED
    BY <1>1, <1>2, <1>3, <1>4, <1>5, <2>1, <2>2, CallSetStampEffect DEF SameCall
<1>6. CASE v[l.p] # l.old
  <2>1. /\ v' = v /\ hist' = hist /\ loc' = loc /\ pc' = [pc EXCEPT ![t] = "cas_fail"]
    BY <1>6 DEF CasRetry, Goto
  <2> QED
    BY <1>1, <1>2, <1>4, <1>6, <2>1, LocalTypes DEF SameCall, Others, Typed, PCs
<1> QED
  BY <1>5, <1>6

\* What CasFail changes: cas gives its link back and stamps what it lost to.
LEMMA CasFailEffect ==
  ASSUME IInv, NEW t \in Threads, CasFail(t)
  PROVE  LET l == loc[t]  m == loc'[t] IN
         /\ Others(t) /\ Typed /\ SameCall(t) /\ pc[t] = "cas_fail"
         /\ m.version = Len(hist[l.p]) /\ SetsStamp(t, v[l.p], "return")
         /\ links' = links \ {l.new} /\ retires' = retires /\ l.p \in Ptrs
         /\ SameHeap /\ SameClock /\ SameSnap /\ seen' = seen
<1> DEFINE l == loc[t]
           n == [l EXCEPT !.new = Null, !.version = Len(hist[l.p])]
<1>1. Types /\ ControlInv /\ pc[t] = "cas_fail" /\ loc[t].op = "cas"
  BY DEF IInv, CasFail, ControlInv, Control
<1>2. l \in Locals /\ l.p \in Ptrs
  BY <1>1, LocalTypes, CallPtr
<1>3. v[l.p] \in Refs /\ Len(hist[l.p]) \in Nat /\ Null \in Refs
  BY <1>1, <1>2, RefTypes
<1>4. /\ n \in Locals /\ n.op = l.op /\ n.p = l.p /\ n.arg = l.arg /\ n.exp = l.exp
      /\ n.version = Len(hist[l.p])
  BY <1>2, <1>3 DEF Locals
<1>5. CallSetStamp(t, n, v[l.p], "return")
  BY DEF CasFail
<1>6. /\ links' = links \ {l.new} /\ retires' = retires
      /\ SameHeap /\ SameClock /\ SameSnap /\ seen' = seen
  BY DEF CasFail, GivesLinkBack, SameHeap, SameClock, SameSnap, heapVars, clockVars,
     histVars, snapVars
<1> HIDE DEF n
<1> QED
  BY <1>1, <1>2, <1>3, <1>4, <1>5, <1>6, CallSetStampEffect DEF SameCall

\* What SnapshotLoad changes: with_snapshot loads the clock.
LEMMA SnapshotLoadEffect ==
  ASSUME Types, NEW t \in Threads, SnapshotLoad(t)
  PROVE  /\ Others(t) /\ Typed /\ loc' = loc /\ pc[t] = "idle" /\ pc'[t] = "advance"
         /\ local_stamp[t] = NoStamp
         /\ local_stamp' = [local_stamp EXCEPT ![t] = stamp]
         /\ window' = [window EXCEPT ![t] = [p \in Ptrs |-> <<seen[p], 0>>]]
         /\ SameHeap /\ SameClock /\ SameLinks /\ seen' = seen /\ snap' = snap
<1>1. Others(t) /\ Typed /\ loc' = loc /\ pc[t] = "idle" /\ pc'[t] = "advance"
  BY LocalTypes DEF SnapshotLoad, Goto, Others, Typed, PCs
<1> QED
  BY <1>1 DEF SnapshotLoad, SameHeap, SameClock, SameLinks, heapVars, clockVars, linkVars,
     histVars

\* What SnapshotAdvance changes: with_snapshot makes sure that the clock is
\* past its stamp.
LEMMA SnapshotAdvanceEffect ==
  ASSUME Types, NEW t \in Threads, SnapshotAdvance(t)
  PROVE  /\ Others(t) /\ Typed /\ loc' = loc /\ pc[t] = "advance" /\ pc'[t] = "idle"
         /\ \/ stamp < LastStamp /\ stamp' = stamp + 1
            \/ stamp # local_stamp[t] /\ stamp' = stamp
         /\ window' = [window EXCEPT ![t] =
                         [p \in Ptrs |-> <<window[t][p][1], Len(hist[p])>>]]
         /\ SameHeap /\ done_stamp' = done_stamp /\ SameLinks /\ seen' = seen
         /\ local_stamp' = local_stamp /\ snap' = snap
<1>1. Others(t) /\ Typed /\ loc' = loc /\ pc[t] = "advance" /\ pc'[t] = "idle"
  BY LocalTypes DEF SnapshotAdvance, Goto, Others, Typed, PCs
<1> QED
  BY <1>1 DEF SnapshotAdvance, Advances, SameHeap, SameLinks, heapVars, linkVars, histVars

\* What ReadSnapshot changes: read_snapshot begins.
LEMMA ReadSnapshotEffect ==
  ASSUME Types, NEW t \in Threads, NEW p \in Used, ReadSnapshot(t, p)
  PROVE  /\ Others(t) /\ Typed /\ pc[t] = "idle" /\ local_stamp[t] # NoStamp
         /\ loc'[t].op = "snapshot" /\ loc'[t].p = p /\ loc'[t].arg = Null
         /\ SetsStamp(t, v[p], "chase") /\ p \in Ptrs
         /\ SameHeap /\ SameClock /\ SameLinks /\ SameSnap /\ seen' = seen
<1> DEFINE l == [NoLocals EXCEPT !.op = "snapshot", !.p = p]
<1>1. p \in Ptrs /\ v[p] \in Refs
  BY RefTypes, UseFacts
<1>2. l \in Locals /\ l.op = "snapshot" /\ l.p = p /\ l.arg = Null
  BY <1>1, NoLocalsFields DEF Locals, Ops
<1>3. CallSetStamp(t, l, v[p], "chase")
  BY DEF ReadSnapshot
<1>4. /\ pc[t] = "idle" /\ local_stamp[t] # NoStamp
      /\ SameHeap /\ SameClock /\ SameLinks /\ SameSnap /\ seen' = seen
  BY DEF ReadSnapshot, SameHeap, SameClock, SameLinks, SameSnap, heapVars, clockVars,
     linkVars, histVars, snapVars
<1> HIDE DEF l
<1> QED
  BY <1>1, <1>2, <1>3, <1>4, CallSetStampEffect

\* What Chase changes: read_snapshot goes one version down, or has found the
\* one it reads.
LEMMA ChaseEffect ==
  ASSUME Types, ControlInv, ClockInv, NEW t \in Threads, Chase(t)
  PROVE  LET l == loc[t] IN
         /\ Others(t) /\ Typed /\ pc[t] = "chase" /\ l.op = "snapshot" /\ l.p \in Ptrs
         /\ \/ /\ l.cur # Null /\ local_stamp[t] < time_stamp[l.cur]
               /\ SameCall(t) /\ loc'[t].cur = next_version[l.cur] /\ pc'[t] = "chase"
               /\ loc'[t].cont = l.cont /\ snap' = snap
            \/ /\ ~(l.cur # Null /\ local_stamp[t] < time_stamp[l.cur])
               /\ snap' = [snap EXCEPT ![t][l.p] = GetPtr(l.cur)]
               /\ loc'[t] = NoLocals /\ pc'[t] = "idle"
         /\ SameHeap /\ SameClock /\ SameLinks /\ local_stamp' = local_stamp
         /\ window' = window /\ seen' = seen
<1> DEFINE l == loc[t]
<1>1. pc[t] = "chase" /\ l.op = "snapshot" /\ l.p \in Ptrs /\ l \in Locals
  BY CallPtr, LocalTypes DEF Chase, ControlInv, Control
<1>2. l.cur \in Refs /\ (l.cur # Null => next_version[l.cur] \in Refs)
  BY <1>1, LocalsFields, RefTypes DEF Refs
<1>3. /\ SameHeap /\ SameClock /\ SameLinks /\ local_stamp' = local_stamp
      /\ window' = window /\ seen' = seen
  BY DEF Chase, SameHeap, SameClock, SameLinks, heapVars, clockVars, linkVars, histVars
<1>4. CASE l.cur # Null /\ local_stamp[t] < time_stamp[l.cur]
  <2>1. loc' = [loc EXCEPT ![t].cur = next_version[l.cur]] /\ pc' = pc /\ snap' = snap
    BY <1>4 DEF Chase
  <2>2. /\ Others(t) /\ Typed /\ SameCall(t) /\ loc'[t].cur = next_version[l.cur]
        /\ loc'[t].cont = l.cont
    BY <1>1, <1>2, <1>4, <2>1, LocalTypes DEF Others, Typed, SameCall, Locals
  <2> QED
    BY <1>1, <1>3, <1>4, <2>1, <2>2
<1>5. CASE ~(l.cur # Null /\ local_stamp[t] < time_stamp[l.cur])
  <2>1. /\ loc' = [loc EXCEPT ![t] = NoLocals] /\ pc' = [pc EXCEPT ![t] = "idle"]
        /\ snap' = [snap EXCEPT ![t][l.p] = GetPtr(l.cur)]
    BY <1>5 DEF Chase, Goto
  <2>2. Others(t) /\ Typed /\ loc'[t] = NoLocals /\ pc'[t] = "idle"
    BY <2>1, LocalTypes, NoLocalsFields DEF Others, Typed, PCs
  <2> QED
    BY <1>1, <1>3, <1>5, <2>1, <2>2
<1> QED
  BY <1>4, <1>5

\* What SnapshotEnd changes: with_snapshot ends.
LEMMA SnapshotEndEffect ==
  ASSUME Types, NEW t \in Threads, SnapshotEnd(t)
  PROVE  /\ pc' = pc /\ loc' = loc /\ pc[t] = "idle"
         /\ local_stamp' = [local_stamp EXCEPT ![t] = NoStamp]
         /\ window' = [window EXCEPT ![t] = [p \in Ptrs |-> <<0, 0>>]]
         /\ snap' = [snap EXCEPT ![t] = [p \in Ptrs |-> Unread]]
         /\ SameHeap /\ SameClock /\ SameLinks /\ seen' = seen
BY DEF SnapshotEnd, SameHeap, SameClock, SameLinks, heapVars, clockVars, linkVars, histVars

\* A nonempty set of numbers has a least element, which Min chooses.
LEMMA LeastNat ==
  ASSUME NEW S, S \subseteq Nat, S # {}
  PROVE  Min(S) \in S /\ \A y \in S : Min(S) <= y
<1>1. PICK x \in S : \A y \in S : ~ (<<y, x>> \in OpToRel(<, Nat))
  BY WFMin, NatLessThanWellFounded
<1>2. ASSUME NEW y \in S PROVE x <= y
  <2>1. <<y, x>> \in Nat \X Nat /\ <<y, x>> \notin OpToRel(<, Nat)
    BY <1>1
  <2>2. ~(y < x)
    BY <2>1 DEF OpToRel
  <2> QED
    BY <2>2
<1> QED
  BY <1>2 DEF Min

\* What AfterHook changes: done_stamp grows, at most up to the oldest
\* snapshot.
LEMMA AfterHookEffect ==
  ASSUME Types, AfterHook
  PROVE  /\ done_stamp' \in Nat /\ done_stamp < done_stamp' /\ done_stamp' <= stamp
         /\ \A u \in Threads : local_stamp[u] # NoStamp => done_stamp' <= local_stamp[u]
         /\ pc' = pc /\ loc' = loc /\ stamp' = stamp /\ seen' = seen
         /\ SameHeap /\ SameLinks /\ SameSnap
<1> DEFINE S == ActiveStamps \cup {stamp}
<1>1. /\ stamp \in Nat /\ done_stamp \in Nat
      /\ local_stamp \in [Threads -> Nat \cup {NoStamp}]
  BY DEF Types
<1>2. S \subseteq Nat /\ S # {}
  BY <1>1 DEF ActiveStamps
<1> DEFINE m == Min(S)
<1>3. m \in S /\ \A y \in S : m <= y
  BY <1>2, LeastNat
<1>4. m \in Nat
  BY <1>2, <1>3
<1>5. done_stamp' \in done_stamp + 1 .. m
  BY DEF AfterHook
<1>6. /\ pc' = pc /\ loc' = loc /\ stamp' = stamp /\ seen' = seen
      /\ SameHeap /\ SameLinks /\ SameSnap
  BY DEF AfterHook, SameHeap, SameLinks, SameSnap, heapVars, linkVars, histVars, snapVars
<1>7. \A u \in Threads : local_stamp[u] # NoStamp => local_stamp[u] \in S
  BY DEF ActiveStamps
<1> HIDE DEF m, S
<1>8. stamp \in S
  BY DEF S
<1> QED
  BY <1>1, <1>2, <1>3, <1>4, <1>5, <1>6, <1>7, <1>8

(***************************************************************************)
(* The steps by what they do to the versions: nothing, a stamp is set, a   *)
(* link is cut out, a version is written, a version is installed.          *)
(***************************************************************************)
HeapStays ==
  /\ SameHeap /\ done_stamp <= done_stamp' /\ done_stamp' \in Nat
  /\ links' \subseteq links /\ \A x \in links : InHist(x) => x \in links'

\* The stamp s is set in x.
HeapStamp(x, s) ==
  /\ time_stamp[x] = Tbd /\ InHist(x) /\ s <= stamp
  /\ \E u \in Threads : pc[u] = "stamp_cas" /\ loc[u].cur = x /\ loc[u].t = s
  /\ \A p \in Ptrs : \A k \in 1 .. Len(hist[p]) : hist[p][k] = x =>
       \A i \in 1 .. k - 1 : time_stamp[hist[p][i]] <= s
  /\ use.build # "indirect" /\ IsIndirect(x) /\ value[x] # Null =>
       time_stamp[value[x]] <= s
  /\ time_stamp' = [time_stamp EXCEPT ![x] = s]
  /\ use' = use /\ v' = v /\ next_version' = next_version /\ value' = value
  /\ hist' = hist /\ done_stamp' = done_stamp /\ links' = links

\* The link in p is cut out.
HeapCut(p) ==
  /\ use.build = "hybrid" /\ IsIndirect(v[p]) /\ time_stamp[v[p]] <= done_stamp
  /\ v' = [v EXCEPT ![p] = value[v[p]]]
  /\ use' = use /\ time_stamp' = time_stamp /\ next_version' = next_version
  /\ value' = value /\ hist' = hist /\ done_stamp' = done_stamp /\ links' = links

\* x is in no history and the only object that is written.
Writes(x) ==
  /\ ~InHist(x) /\ time_stamp[x] = Tbd
  /\ next_version' \in [Objects -> Refs] /\ value' \in [Links -> Values]
  /\ \A y \in Objects \ {x} : next_version'[y] = next_version[y]
  /\ \A y \in Links \ {x} : value'[y] = value[y]
  /\ links \subseteq links' /\ links' \subseteq Links /\ (IsIndirect(x) => x \in links')
  /\ use.build = "once" => links' = links
  /\ use' = use /\ time_stamp' = time_stamp /\ done_stamp' = done_stamp

\* x is written and not installed.
HeapNew(x) == Writes(x) /\ v' = v /\ hist' = hist

\* get_ptr after the step.
NextPtr(x) == IF IsIndirect(x) THEN value'[x] ELSE x

\* x is written, now or before, and becomes the newest version of p.
HeapInstall(p, x) ==
  LET n == Len(hist[p]) IN
  /\ Writes(x) /\ Installs(p, x)
  /\ n # 0 => time_stamp[hist[p][n]] # Tbd
  /\ Shows(p, n, next_version'[x])
  /\ use.build # "indirect" /\ IsIndirect(x) /\ value'[x] # Null =>
       time_stamp[value'[x]] # Tbd
  /\ NextPtr(x) # VersionValue(p, n)

\* Every step is one of these.
HeapStep ==
  \/ HeapStays
  \/ \E x \in Objects, s \in Nat : HeapStamp(x, s)
  \/ \E p \in Ptrs : HeapCut(p)
  \/ \E x \in Objects : HeapNew(x)
  \/ \E p \in Ptrs, x \in Objects : HeapInstall(p, x)

\* What every step has in common: versions are only added, stamps are set once
\* and to what some thread is about to set, and a version is never rewritten.
Grows ==
  /\ use' = use /\ done_stamp <= done_stamp'
  /\ \A p \in Ptrs : /\ Len(hist'[p]) \in Nat /\ Len(hist[p]) <= Len(hist'[p])
                     /\ \A k \in 1 .. Len(hist[p]) : hist'[p][k] = hist[p][k]
  /\ \A x \in Objects :
       \/ time_stamp'[x] = time_stamp[x]
       \/ /\ time_stamp[x] = Tbd /\ InHist(x)
          /\ \E u \in Threads : pc[u] = "stamp_cas" /\ loc[u].cur = x
                                /\ time_stamp'[x] = loc[u].t
  /\ \A x \in Objects : InHist(x) => next_version'[x] = next_version[x]
  /\ \A x \in Links : InHist(x) => value'[x] = value[x]

\* The heap variables have their types.
HeapTypes ==
  /\ use \in Uses /\ v \in [Ptrs -> Refs] /\ time_stamp \in [Objects -> Nat]
  /\ next_version \in [Objects -> Refs] /\ value \in [Links -> Values]
  /\ done_stamp \in Nat /\ links \in SUBSET Links /\ hist \in [Ptrs -> Seq(Objects)]

\* The types of the versions.
LEMMA HistTypes ==
  ASSUME Types
  PROVE  /\ hist \in [Ptrs -> Seq(Objects)]
         /\ \A p \in Ptrs : Len(hist[p]) \in Nat
         /\ \A p \in Ptrs : \A k \in 1 .. Len(hist[p]) : hist[p][k] \in Objects
         /\ time_stamp \in [Objects -> Nat] /\ done_stamp \in Nat
         /\ value \in [Links -> Values]
<1>1. hist \in [Ptrs -> Seq(Objects)]
  BY DEF Types
<1>2. \A p \in Ptrs : hist[p] \in Seq(Objects)
  BY <1>1
<1> QED
  BY <1>1, <1>2 DEF Types

\* What a chain has in place of a version has the version's value.
LEMMA ShowsValue ==
  ASSUME NEW p \in Ptrs, NEW k \in Nat, NEW x, Shows(p, k, x)
  PROVE  GetPtr(x) = VersionValue(p, k)
BY Constants DEF Shows, GetPtr, VersionValue, IsIndirect

\* A pointer shows its newest version, and a link in it is that version.
LEMMA CurrentShows ==
  ASSUME IInv, NEW p \in Ptrs
  PROVE  /\ Shows(p, Len(hist[p]), v[p])
         /\ IsIndirect(v[p]) => Len(hist[p]) # 0 /\ v[p] = hist[p][Len(hist[p])]
<1> DEFINE n == Len(hist[p])
<1>1. n \in Nat /\ (n # 0 => n \in 1 .. n /\ hist[p][n] \in Objects)
  BY HistTypes DEF IInv
<1>2. PtrInv /\ ValueInv /\ Types
  BY DEF IInv, HeapInv
<1>3. CASE n = 0
  BY <1>2, <1>3, Constants DEF PtrInv, Shows, IsIndirect
<1>4. CASE n # 0 /\ v[p] = hist[p][n]
  BY <1>1, <1>4 DEF Shows
<1>5. CASE n # 0 /\ v[p] # hist[p][n]
  <2> DEFINE x == hist[p][n]
  <2>1. /\ use.build = "hybrid" /\ IsIndirect(x) /\ v[p] = value[x]
        /\ time_stamp[x] <= done_stamp
    BY <1>2, <1>5 DEF PtrInv
  <2>2. value[x] \in Values
    BY <1>2, <2>1, HistTypes DEF IsIndirect
  <2>3. value[x] # Null => time_stamp[value[x]] <= time_stamp[x]
    BY <1>1, <1>2, <1>5, <2>1 DEF ValueInv
  <2>4. ~IsIndirect(value[x])
    BY <2>2, Constants DEF IsIndirect, Values
  <2>5. /\ time_stamp[x] \in Nat /\ done_stamp \in Nat
        /\ value[x] # Null => time_stamp[value[x]] \in Nat
    BY <1>1, <1>2, <1>5, <2>2, HistTypes DEF Values, Objects
  <2> QED
    BY <1>1, <1>5, <2>1, <2>3, <2>4, <2>5 DEF Shows, GetPtr
<1> QED
  BY <1>3, <1>4, <1>5

\* The value of a pointer is that of its newest version.
LEMMA CurrentValue ==
  ASSUME IInv, NEW p \in Ptrs
  PROVE  GetPtr(v[p]) = VersionValue(p, Len(hist[p]))
BY CurrentShows, ShowsValue, HistTypes DEF IInv

\* The version that a call has made and not installed is its own.
LEMMA PreparedNew ==
  ASSUME IInv, NEW t \in Threads, Prepared(t)
  PROVE  LET x == loc[t].new IN
         /\ x \in Objects /\ ~InHist(x) /\ time_stamp[x] = Tbd
         /\ GetPtr(x) = loc[t].arg
         /\ IsIndirect(x) => x \in links
         /\ ~IsIndirect(x) => x = loc[t].arg /\ Fresh(t, x)
         /\ use.build # "indirect" /\ IsIndirect(x) /\ value[x] # Null =>
              time_stamp[value[x]] # Tbd
<1> DEFINE x == loc[t].new
<1>1. Types /\ PreparedOf(t) /\ FreshOf(t) /\ HistInv
  BY DEF IInv, HeapInv, ThreadInv
<1>2. x \in Refs
  BY <1>1, LocalTypes, LocalsFields
<1>3. x \in Objects /\ GetPtr(x) = loc[t].arg
  BY <1>1, <1>2 DEF PreparedOf, Refs
<1>4. CASE IsIndirect(x)
  BY <1>1, <1>3, <1>4 DEF PreparedOf, HistInv, GetPtr
<1>5. CASE ~IsIndirect(x)
  <2>1. x = loc[t].arg /\ Fresh(t, x)
    BY <1>1, <1>3, <1>5 DEF PreparedOf, FreshOf, GetPtr
  <2>2. ~InHist(x)
    BY <1>1, <2>1, HistTypes DEF Fresh, InHist
  <2> QED
    BY <1>1, <1>3, <1>5, <2>1, <2>2 DEF HistInv
<1> QED
  BY <1>4, <1>5

\* The types of the heap, apart from those of the threads.
LEMMA HeapTypesHold ==
  ASSUME Types
  PROVE  HeapTypes
BY DEF Types, HeapTypes

\* A longer history.
LEMMA InstallsHist ==
  ASSUME NEW p \in Ptrs, NEW x \in Objects, HeapTypes, Installs(p, x)
  PROVE  /\ hist' \in [Ptrs -> Seq(Objects)]
         /\ Len(hist'[p]) = Len(hist[p]) + 1 /\ hist'[p][Len(hist[p]) + 1] = x
         /\ \A k \in 1 .. Len(hist[p]) : hist'[p][k] = hist[p][k]
         /\ \A q \in Ptrs \ {p} : hist'[q] = hist[q]
         /\ v'[p] = x /\ \A q \in Ptrs \ {p} : v'[q] = v[q]
         /\ v' \in [Ptrs -> Refs]
<1>1. hist \in [Ptrs -> Seq(Objects)] /\ v \in [Ptrs -> Refs] /\ x \in Refs
  BY DEF HeapTypes, Refs
<1>2. hist[p] \in Seq(Objects)
  BY <1>1
<1> DEFINE h == Append(hist[p], x)
<1>3. /\ h \in Seq(Objects) /\ Len(h) = Len(hist[p]) + 1 /\ h[Len(hist[p]) + 1] = x
      /\ \A k \in 1 .. Len(hist[p]) : h[k] = hist[p][k]
  BY <1>2
<1>4. hist' = [hist EXCEPT ![p] = h] /\ v' = [v EXCEPT ![p] = x]
  BY DEF Installs
<1> HIDE DEF h
<1> QED
  BY <1>1, <1>3, <1>4

\* Every step keeps the types of the heap.
LEMMA HeapStepTypes ==
  ASSUME HeapTypes, HeapStep
  PROVE  HeapTypes'
<1>1. CASE HeapStays
  BY <1>1 DEF HeapStays, SameHeap, HeapTypes
<1>2. ASSUME NEW x \in Objects, NEW s \in Nat, HeapStamp(x, s) PROVE HeapTypes'
  BY <1>2 DEF HeapStamp, HeapTypes
<1>3. ASSUME NEW p \in Ptrs, HeapCut(p) PROVE HeapTypes'
  <2>1. value[v[p]] \in Refs
    BY <1>3 DEF HeapCut, HeapTypes, IsIndirect, Values, Refs, Objects
  <2> QED
    BY <1>3, <2>1 DEF HeapCut, HeapTypes
<1>4. ASSUME NEW x \in Objects, HeapNew(x) PROVE HeapTypes'
  BY <1>4 DEF HeapNew, Writes, HeapTypes
<1>5. ASSUME NEW p \in Ptrs, NEW x \in Objects, HeapInstall(p, x) PROVE HeapTypes'
  <2>1. hist' \in [Ptrs -> Seq(Objects)] /\ v' \in [Ptrs -> Refs]
    BY <1>5, InstallsHist DEF HeapInstall
  <2> QED
    BY <1>5, <2>1 DEF HeapInstall, Writes, HeapTypes
<1> QED
  BY <1>1, <1>2, <1>3, <1>4, <1>5 DEF HeapStep

\* Writing a new version changes no installed one.
LEMMA WritesGrows ==
  ASSUME NEW x \in Objects, Writes(x), HeapTypes
  PROVE  /\ use' = use /\ done_stamp <= done_stamp'
         /\ \A y \in Objects : time_stamp'[y] = time_stamp[y]
         /\ \A y \in Objects : InHist(y) => next_version'[y] = next_version[y]
         /\ \A y \in Links : InHist(y) => value'[y] = value[y]
BY DEF Writes, HeapTypes, Objects

\* No step takes a version away, or changes one except for setting its
\* stamp.
LEMMA HeapStepGrows ==
  ASSUME HeapTypes, HeapStep
  PROVE  Grows
<1>0. /\ done_stamp \in Nat /\ done_stamp <= done_stamp
      /\ \A p \in Ptrs : Len(hist[p]) \in Nat /\ Len(hist[p]) <= Len(hist[p])
  BY DEF HeapTypes
<1>1. CASE HeapStays
  BY <1>0, <1>1 DEF HeapStays, SameHeap, Grows
<1>2. ASSUME NEW x \in Objects, NEW s \in Nat, HeapStamp(x, s) PROVE Grows
  <2>1. /\ time_stamp'[x] = s
        /\ \A y \in Objects \ {x} : time_stamp'[y] = time_stamp[y]
    BY <1>2 DEF HeapStamp, HeapTypes
  <2>2. time_stamp[x] = Tbd /\ InHist(x)
    BY <1>2 DEF HeapStamp
  <2>3. \E u \in Threads : pc[u] = "stamp_cas" /\ loc[u].cur = x /\ loc[u].t = s
    BY <1>2 DEF HeapStamp
  <2>4. /\ use' = use /\ hist' = hist /\ next_version' = next_version /\ value' = value
        /\ done_stamp' = done_stamp
    BY <1>2 DEF HeapStamp
  <2> QED
    BY <1>0, <2>1, <2>2, <2>3, <2>4 DEF Grows
<1>3. ASSUME NEW p \in Ptrs, HeapCut(p) PROVE Grows
  BY <1>0, <1>3 DEF HeapCut, Grows
<1>4. ASSUME NEW x \in Objects, HeapNew(x) PROVE Grows
  <2>1. Writes(x) /\ hist' = hist
    BY <1>4 DEF HeapNew
  <2> QED
    BY <1>0, <2>1, WritesGrows DEF Grows
<1>5. ASSUME NEW p \in Ptrs, NEW x \in Objects, HeapInstall(p, x) PROVE Grows
  <2>1. Writes(x) /\ Installs(p, x)
    BY <1>5 DEF HeapInstall
  <2>2. \A q \in Ptrs : /\ Len(hist'[q]) \in Nat /\ Len(hist[q]) <= Len(hist'[q])
                        /\ \A k \in 1 .. Len(hist[q]) : hist'[q][k] = hist[q][k]
    <3> TAKE q \in Ptrs
    <3>1. CASE q = p
      BY <1>0, <2>1, <3>1, InstallsHist
    <3>2. CASE q # p
      BY <1>0, <2>1, <3>2, InstallsHist
    <3> QED
      BY <3>1, <3>2
  <2> QED
    BY <2>1, <2>2, WritesGrows DEF Grows
<1> QED
  BY <1>1, <1>2, <1>3, <1>4, <1>5 DEF HeapStep

\* What a step leaves as it was: stamps that are set, versions, what chains
\* show and the values of versions.
LEMMA StampsStay ==
  ASSUME Grows, NEW x \in Objects, time_stamp[x] # Tbd
  PROVE  time_stamp'[x] = time_stamp[x]
BY DEF Grows

\* What has been installed stays in the history.
LEMMA InHistGrows ==
  ASSUME Grows, HeapTypes, NEW x, InHist(x)
  PROVE  InHist(x)'
<1>1. PICK p \in Ptrs : \E k \in 1 .. Len(hist[p]) : hist[p][k] = x
  BY DEF InHist
<1>2. PICK k \in 1 .. Len(hist[p]) : hist[p][k] = x
  BY <1>1
<1>3. /\ Len(hist[p]) \in Nat /\ Len(hist'[p]) \in Nat /\ Len(hist[p]) <= Len(hist'[p])
      /\ hist'[p][k] = hist[p][k]
  BY <1>2 DEF Grows, HeapTypes
<1>4. k \in 1 .. Len(hist'[p]) /\ hist'[p][k] = x
  BY <1>2, <1>3
<1> QED
  BY <1>4 DEF InHist

\* What an installed reference stands for stays the same.
LEMMA GetPtrGrows ==
  ASSUME Grows, NEW x \in Refs, InHist(x) \/ ~IsIndirect(x)
  PROVE  GetPtr(x)' = GetPtr(x) /\ IsIndirect(x)' = IsIndirect(x)
BY DEF GetPtr, IsIndirect, Grows

\* The value of a version stays the same.
LEMMA VersionValueGrows ==
  ASSUME Grows, HeapTypes, NEW p \in Ptrs, NEW k \in 0 .. Len(hist[p])
  PROVE  VersionValue(p, k)' = VersionValue(p, k)
<1>1. CASE k = 0
  BY <1>1 DEF VersionValue
<1>2. CASE k # 0
  <2>0. hist[p] \in Seq(Objects)
    BY DEF HeapTypes
  <2>1. k \in 1 .. Len(hist[p]) /\ hist[p][k] \in Objects
    BY <1>2, <2>0
  <2>2. InHist(hist[p][k]) /\ hist'[p][k] = hist[p][k] /\ hist[p][k] \in Refs
    BY <2>1 DEF InHist, Grows, Refs
  <2>3. GetPtr(hist[p][k])' = GetPtr(hist[p][k])
    BY <2>2, GetPtrGrows DEF GetPtr, IsIndirect
  <2> QED
    BY <1>2, <2>2, <2>3 DEF VersionValue
<1> QED
  BY <1>1, <1>2

\* A reference goes on to show the version that it shows.
LEMMA ShowsGrows ==
  ASSUME Grows, HeapTypes, HeapTypes', HistInv, ClockInv, NEW p \in Ptrs, NEW k \in Nat,
         NEW x \in Refs, Shows(p, k, x)
  PROVE  Shows(p, k, x)'
<1>0. hist[p] \in Seq(Objects) /\ done_stamp \in Nat /\ done_stamp' \in Nat
  BY DEF HeapTypes
<1>1. CASE k = 0
  BY <1>1 DEF Shows
<1>2. CASE k # 0
  <2> DEFINE y == hist[p][k]
  <2>1. k \in 1 .. Len(hist[p]) /\ y \in Objects
    BY <1>0, <1>2 DEF Shows
  <2>2. k \in 1 .. Len(hist'[p]) /\ hist'[p][k] = y /\ InHist(y)
    BY <2>1 DEF Grows, InHist
  <2>3. CASE x = y
    BY <1>2, <2>2, <2>3 DEF Shows
  <2>4. CASE x # y
    <3>1. /\ time_stamp[y] <= done_stamp /\ GetPtr(x) = GetPtr(y)
          /\ x # Null => time_stamp[x] <= done_stamp
      BY <1>2, <2>4 DEF Shows
    <3>2. /\ done_stamp < Tbd /\ done_stamp <= done_stamp'
          /\ time_stamp \in [Objects -> Nat]
      BY <1>0, Constants DEF ClockInv, Grows, HeapTypes
    <3>3. time_stamp[y] # Tbd /\ time_stamp'[y] = time_stamp[y]
      BY <1>0, <2>1, <3>1, <3>2, Constants, StampsStay
    <3>4. x # Null => /\ x \in Objects /\ time_stamp[x] # Tbd
                      /\ time_stamp'[x] = time_stamp[x] /\ InHist(x)
      BY <1>0, <3>1, <3>2, Constants, StampsStay DEF Refs, HistInv
    <3>5. GetPtr(x)' = GetPtr(x) /\ GetPtr(y)' = GetPtr(y)
      BY <2>1, <2>2, <3>4, GetPtrGrows, Constants DEF Refs, IsIndirect
    <3>6. GetPtr(y)' = GetPtr(x)'
      BY <3>1, <3>5
    <3>7. time_stamp'[y] <= done_stamp' /\ (x # Null => time_stamp'[x] <= done_stamp')
      BY <1>0, <2>1, <3>1, <3>2, <3>3, <3>4
    <3> QED
      BY <1>2, <2>2, <3>6, <3>7 DEF Shows, GetPtr, IsIndirect
  <2> QED
    BY <2>3, <2>4
<1> QED
  BY <1>1, <1>2

(***************************************************************************)
(* What the steps keep of the versions.                                    *)
(***************************************************************************)
\* What is stamped has been installed, and installed links are allocated.
LEMMA HistKept ==
  ASSUME HeapTypes, HistInv, HeapStep
  PROVE  HistInv'
<1>0. Grows /\ HeapTypes' /\ hist \in [Ptrs -> Seq(Objects)]
  BY HeapStepGrows, HeapStepTypes DEF HeapTypes
<1>1. ASSUME NEW x \in Objects, time_stamp'[x] # Tbd PROVE InHist(x)'
  BY <1>0, <1>1, InHistGrows DEF Grows, HistInv
<1>2. ASSUME hist' = hist, \A x \in links : InHist(x) => x \in links'
      PROVE  \A p \in Ptrs : \A k \in 1 .. Len(hist'[p]) :
               IsIndirect(hist'[p][k]) => hist'[p][k] \in links'
  BY <1>2 DEF HistInv, InHist
<1>3. /\ \A p \in Ptrs : \A k \in 1 .. Len(hist'[p]) :
           IsIndirect(hist'[p][k]) => hist'[p][k] \in links'
      /\ use'.build = "once" => links' = {}
  <2>1. CASE HeapStays
    BY <1>2, <2>1 DEF HeapStays, SameHeap, HistInv
  <2>2. ASSUME NEW x \in Objects, NEW s \in Nat, HeapStamp(x, s) PROVE <1>3!:
    BY <1>2, <2>2 DEF HeapStamp, HistInv
  <2>3. ASSUME NEW p \in Ptrs, HeapCut(p) PROVE <1>3!:
    BY <1>2, <2>3 DEF HeapCut, HistInv
  <2>4. ASSUME NEW x \in Objects, HeapNew(x) PROVE <1>3!:
    BY <1>2, <2>4 DEF HeapNew, Writes, HistInv
  <2>5. ASSUME NEW p \in Ptrs, NEW x \in Objects, HeapInstall(p, x) PROVE <1>3!:
    <3>1. /\ links \subseteq links' /\ (IsIndirect(x) => x \in links')
          /\ use.build = "once" => links' = links
          /\ use' = use /\ Installs(p, x)
      BY <2>5 DEF HeapInstall, Writes
    <3>2. ASSUME NEW q \in Ptrs, NEW k \in 1 .. Len(hist'[q]), IsIndirect(hist'[q][k])
          PROVE  hist'[q][k] \in links'
      <4>1. CASE q = p /\ k = Len(hist[p]) + 1
        BY <3>1, <3>2, <4>1, InstallsHist
      <4>2. CASE k \in 1 .. Len(hist[q])
        <5>1. hist'[q][k] = hist[q][k]
          BY <1>0, <4>2 DEF Grows
        <5> QED
          BY <3>1, <3>2, <4>2, <5>1 DEF HistInv
      <4>3. Len(hist[q]) \in Nat
        BY <1>0
      <4>4. CASE q = p
        <5>1. Len(hist'[q]) = Len(hist[q]) + 1
          BY <3>1, <4>4, InstallsHist
        <5>2. k = Len(hist[q]) + 1 \/ k \in 1 .. Len(hist[q])
          BY <4>3, <5>1
        <5> QED
          BY <4>1, <4>2, <4>4, <5>2
      <4>5. CASE q # p
        <5>1. hist'[q] = hist[q]
          BY <3>1, <4>5, InstallsHist
        <5> QED
          BY <4>2, <5>1
      <4> QED
        BY <4>4, <4>5
    <3> QED
      BY <3>1, <3>2 DEF HistInv
  <2> QED
    BY <2>1, <2>2, <2>3, <2>4, <2>5 DEF HeapStep
<1> QED
  BY <1>1, <1>3 DEF HistInv, IsIndirect

\* The versions after a version has been installed.
LEMMA InstallCases ==
  ASSUME HeapTypes, NEW p \in Ptrs, NEW x \in Objects, Installs(p, x),
         NEW q \in Ptrs, NEW k \in 1 .. Len(hist'[q])
  PROVE  \/ q = p /\ k = Len(hist[p]) + 1 /\ hist'[q][k] = x
         \/ k \in 1 .. Len(hist[q]) /\ hist'[q][k] = hist[q][k]
<1>1. Len(hist[q]) \in Nat
  BY DEF HeapTypes
<1>2. CASE q = p
  BY <1>1, <1>2, InstallsHist
<1>3. CASE q # p
  BY <1>1, <1>3, InstallsHist
<1> QED
  BY <1>2, <1>3

\* A version is an object and part of the history.
LEMMA VersionFacts ==
  ASSUME HeapTypes, NEW p \in Ptrs, NEW k \in 1 .. Len(hist[p])
  PROVE  /\ hist[p][k] \in Objects /\ hist[p][k] \in Refs /\ InHist(hist[p][k])
         /\ hist[p][k] # Null /\ time_stamp[hist[p][k]] \in Nat
<1>1. hist[p] \in Seq(Objects) /\ time_stamp \in [Objects -> Nat]
  BY DEF HeapTypes
<1> QED
  BY <1>1, Constants DEF InHist, Refs

\* Pointers hold their newest version, or its value.
LEMMA PtrKept ==
  ASSUME HeapTypes, HistInv, ClockInv, PtrInv, HeapStep
  PROVE  PtrInv'
<1>0. Grows /\ HeapTypes' /\ hist \in [Ptrs -> Seq(Objects)]
  BY HeapStepGrows, HeapStepTypes DEF HeapTypes
<1> DEFINE Ok(q) == LET n == Len(hist[q]) IN
             IF n = 0 THEN v[q] = Null
             ELSE \/ v[q] = hist[q][n]
                  \/ /\ use.build = "hybrid" /\ IsIndirect(hist[q][n])
                     /\ v[q] = value[hist[q][n]]
                     /\ time_stamp[hist[q][n]] <= done_stamp
<1>1. ASSUME NEW q \in Ptrs, v'[q] = v[q], hist'[q] = hist[q] PROVE Ok(q)'
  <2>1. Ok(q) /\ Len(hist[q]) \in Nat
    BY <1>0 DEF PtrInv
  <2>2. CASE Len(hist[q]) = 0 \/ v[q] = hist[q][Len(hist[q])]
    BY <1>1, <2>1, <2>2
  <2>3. CASE Len(hist[q]) # 0 /\ v[q] # hist[q][Len(hist[q])]
    <3> DEFINE x == hist[q][Len(hist[q])]
    <3>1. x \in Objects /\ InHist(x) /\ time_stamp[x] \in Nat
      BY <2>1, <2>3, VersionFacts
    <3>2. /\ use.build = "hybrid" /\ IsIndirect(x) /\ v[q] = value[x]
          /\ time_stamp[x] <= done_stamp
      BY <2>1, <2>3
    <3>3. done_stamp \in Nat /\ done_stamp' \in Nat /\ done_stamp <= done_stamp'
          /\ done_stamp < Tbd
      BY <1>0, Constants DEF HeapTypes, ClockInv, Grows
    <3>4. time_stamp'[x] = time_stamp[x] /\ value'[x] = value[x]
      BY <1>0, <3>1, <3>2, <3>3, Constants, StampsStay DEF Grows, IsIndirect
    <3>5. time_stamp'[x] <= done_stamp'
      BY <3>1, <3>2, <3>3, <3>4
    <3> QED
      BY <1>0, <1>1, <2>3, <3>2, <3>4, <3>5 DEF Grows, IsIndirect
  <2> QED
    BY <2>2, <2>3
<1>2. CASE v' = v /\ hist' = hist
  BY <1>1, <1>2 DEF PtrInv
<1>3. ASSUME NEW p \in Ptrs, HeapCut(p) PROVE PtrInv'
  <2>1. \A q \in Ptrs \ {p} : v'[q] = v[q] /\ hist'[q] = hist[q]
    BY <1>3 DEF HeapCut, HeapTypes
  <2>2. Ok(p)'
    <3> DEFINE n == Len(hist[p])
    <3>1. /\ v'[p] = value[v[p]] /\ hist' = hist /\ use' = use /\ value' = value
          /\ time_stamp' = time_stamp /\ done_stamp' = done_stamp
          /\ IsIndirect(v[p]) /\ use.build = "hybrid" /\ time_stamp[v[p]] <= done_stamp
      BY <1>3 DEF HeapCut, HeapTypes
    <3>2. Ok(p) /\ n \in Nat
      BY <1>0 DEF PtrInv
    <3>3. n # 0 /\ v[p] = hist[p][n]
      BY <3>1, <3>2, Constants DEF HeapTypes, IsIndirect, Values
    <3> QED
      BY <3>1, <3>3 DEF IsIndirect
  <2>3. \A q \in Ptrs : Ok(q)'
    BY <1>1, <2>1, <2>2
  <2> QED
    BY <2>3 DEF PtrInv
<1>4. ASSUME NEW p \in Ptrs, NEW x \in Objects, HeapInstall(p, x) PROVE PtrInv'
  <2>1. Installs(p, x)
    BY <1>4 DEF HeapInstall
  <2>2. Ok(p)'
    <3>1. Len(hist'[p]) = Len(hist[p]) + 1 /\ Len(hist[p]) \in Nat
      BY <1>0, <2>1, InstallsHist
    <3> QED
      BY <2>1, <3>1, InstallsHist
  <2>3. \A q \in Ptrs : Ok(q)'
    BY <1>1, <2>1, <2>2, InstallsHist
  <2> QED
    BY <2>3 DEF PtrInv
<1> QED
  BY <1>2, <1>3, <1>4 DEF HeapStep, HeapStays, SameHeap, HeapStamp, HeapNew

\* Chains go on to lead from each version to the one before it.
LEMMA ChainKept ==
  ASSUME HeapTypes, HistInv, ClockInv, ChainInv, HeapStep
  PROVE  ChainInv'
<1>0. Grows /\ HeapTypes'
  BY HeapStepGrows, HeapStepTypes
<1>1. ASSUME NEW q \in Ptrs, NEW k \in 1 .. Len(hist[q])
      PROVE  Shows(q, k - 1, next_version[hist[q][k]])'
  <2> DEFINE x == hist[q][k]
  <2>1. x \in Objects /\ InHist(x)
    BY <1>1, VersionFacts
  <2>2. hist'[q][k] = x /\ next_version'[x] = next_version[x] /\ next_version[x] \in Refs
    BY <1>0, <1>1, <2>1 DEF Grows, HeapTypes
  <2>3. Shows(q, k - 1, next_version[x])
    BY <1>1 DEF ChainInv
  <2>4. k - 1 \in Nat
    BY <1>1
  <2> DEFINE y == next_version[x]
  <2>5. \A z \in Refs : Shows(q, k - 1, z) => Shows(q, k - 1, z)'
    BY <1>0, <2>4, ShowsGrows
  <2> QED
    BY <2>2, <2>3, <2>5 DEF Shows, GetPtr, IsIndirect
<1>2. CASE hist' = hist
  BY <1>1, <1>2 DEF ChainInv
<1>3. ASSUME NEW p \in Ptrs, NEW x \in Objects, HeapInstall(p, x) PROVE ChainInv'
  <2>1. Installs(p, x) /\ Shows(p, Len(hist[p]), next_version'[x])
    BY <1>3 DEF HeapInstall
  <2>2. next_version'[x] \in Refs /\ Len(hist[p]) \in Nat
    BY <1>0 DEF HeapTypes
  <2>3. \A n \in Nat, z \in Refs : Shows(p, n, z) => Shows(p, n, z)'
    BY <1>0, ShowsGrows
  <2>4. ASSUME NEW q \in Ptrs, NEW k \in 1 .. Len(hist'[q])
        PROVE  Shows(q, k - 1, next_version[hist[q][k]])'
    <3>1. CASE q = p /\ k = Len(hist[p]) + 1 /\ hist'[q][k] = x
      <4>1. k - 1 = Len(hist[p])
        BY <2>2, <3>1
      <4> QED
        BY <2>1, <2>2, <2>3, <3>1, <4>1 DEF Shows, GetPtr, IsIndirect
    <3>2. CASE k \in 1 .. Len(hist[q])
      BY <1>1, <3>2
    <3> QED
      BY <2>1, <3>1, <3>2, InstallCases
  <2> QED
    BY <2>4 DEF ChainInv
<1> QED
  BY <1>2, <1>3 DEF HeapStep, HeapStays, SameHeap, HeapStamp, HeapNew, HeapCut

\* Stamps are set in the order of installation.
LEMMA OrderKept ==
  ASSUME HeapTypes, HistInv, ClockInv, OrderInv, HeapStep
  PROVE  OrderInv'
<1>0. Grows /\ HeapTypes'
  BY HeapStepGrows, HeapStepTypes
<1>1. \A y \in Objects : time_stamp[y] \in Nat /\ (time_stamp[y] <= stamp \/ time_stamp[y] = Tbd)
  BY DEF HeapTypes, ClockInv
<1>2. stamp \in Nat /\ stamp < Tbd /\ Tbd \in Nat
  BY Constants DEF ClockInv
<1>3. ASSUME NEW q \in Ptrs, NEW j \in 1 .. Len(hist[q]), NEW i \in 1 .. j - 1
      PROVE  /\ time_stamp'[hist[q][i]] # Tbd
             /\ time_stamp'[hist[q][i]] <= time_stamp'[hist[q][j]]
  <2> DEFINE x == hist[q][i]
             y == hist[q][j]
  <2>1. i \in 1 .. Len(hist[q]) /\ Len(hist[q]) \in Nat
    BY <1>3 DEF HeapTypes
  <2>2. x \in Objects /\ y \in Objects
    BY <1>3, <2>1, VersionFacts
  <2>3. time_stamp[x] # Tbd /\ time_stamp[x] <= time_stamp[y]
    BY <1>3 DEF OrderInv
  <2>4. time_stamp'[x] = time_stamp[x]
    BY <1>0, <2>2, <2>3, StampsStay
  <2>5. CASE time_stamp'[y] = time_stamp[y]
    BY <2>3, <2>4, <2>5
  <2>6. CASE time_stamp'[y] # time_stamp[y]
    <3>1. PICK z \in Objects, s \in Nat : HeapStamp(z, s)
      BY <2>2, <2>6
         DEF HeapStep, HeapStays, SameHeap, HeapCut, HeapNew, HeapInstall, Writes
    <3>2. y = z /\ time_stamp'[y] = s
      BY <2>2, <2>6, <3>1 DEF HeapStamp, HeapTypes
    <3>3. time_stamp[x] <= s
      BY <1>3, <3>1, <3>2 DEF HeapStamp
    <3> QED
      BY <2>3, <2>4, <3>2, <3>3
  <2> QED
    BY <2>5, <2>6
<1>4. CASE hist' = hist
  BY <1>3, <1>4 DEF OrderInv
<1>5. ASSUME NEW p \in Ptrs, NEW z \in Objects, HeapInstall(p, z) PROVE OrderInv'
  <2> DEFINE n == Len(hist[p])
  <2>1. /\ Installs(p, z) /\ time_stamp' = time_stamp /\ time_stamp[z] = Tbd
        /\ n # 0 => time_stamp[hist[p][n]] # Tbd
    BY <1>5 DEF HeapInstall, Writes
  <2>2. ASSUME NEW q \in Ptrs, NEW j \in 1 .. Len(hist'[q]), NEW i \in 1 .. j - 1
        PROVE  /\ time_stamp'[hist'[q][i]] # Tbd
               /\ time_stamp'[hist'[q][i]] <= time_stamp'[hist'[q][j]]
    <3>1. CASE j \in 1 .. Len(hist[q]) /\ hist'[q][j] = hist[q][j]
      <4>1. i \in 1 .. Len(hist[q])
        BY <3>1
      <4>2. hist'[q][i] = hist[q][i]
        BY <1>0, <4>1 DEF Grows
      <4> QED
        BY <1>3, <3>1, <4>2
    <3>2. CASE q = p /\ j = n + 1 /\ hist'[q][j] = z
      <4>1. n \in Nat /\ i \in 1 .. n
        BY <3>2 DEF HeapTypes
      <4>2. hist'[p][i] = hist[p][i] /\ hist[p][i] \in Objects /\ hist[p][n] \in Objects
        BY <1>0, <4>1, VersionFacts DEF Grows
      <4>3. time_stamp[hist[p][i]] # Tbd
        BY <2>1, <4>1 DEF OrderInv
      <4>4. time_stamp[hist[p][i]] <= Tbd
        BY <1>1, <1>2, <4>2, <4>3
      <4> QED
        BY <2>1, <3>2, <4>2, <4>3, <4>4
    <3> QED
      BY <2>1, <3>1, <3>2, InstallCases
  <2> QED
    BY <2>2 DEF OrderInv
<1> QED
  BY <1>4, <1>5 DEF HeapStep, HeapStays, SameHeap, HeapStamp, HeapNew, HeapCut

\* The node behind a link stays older than the link.
LEMMA ValueKept ==
  ASSUME HeapTypes, HistInv, ClockInv, ValueInv, HeapStep
  PROVE  ValueInv'
<1>0. Grows /\ HeapTypes'
  BY HeapStepGrows, HeapStepTypes
<1> SUFFICES ASSUME use.build # "indirect" PROVE ValueInv'
  BY <1>0 DEF Grows, ValueInv
<1>1. stamp \in Nat /\ stamp < Tbd /\ Tbd \in Nat
  BY Constants DEF ClockInv
<1>2. \A y \in Objects : time_stamp[y] \in Nat /\ (time_stamp[y] <= stamp \/ time_stamp[y] = Tbd)
  BY DEF HeapTypes, ClockInv
<1> DEFINE Older(x) == value[x] # Null => /\ time_stamp[value[x]] # Tbd
                                         /\ time_stamp[value[x]] <= time_stamp[x]
<1>3. ASSUME NEW q \in Ptrs, NEW k \in 1 .. Len(hist[q]), IsIndirect(hist[q][k])
      PROVE  LET x == hist[q][k] IN
             /\ value'[x] = value[x]
             /\ value[x] # Null =>
                  /\ value[x] \in Objects /\ time_stamp[value[x]] # Tbd
                  /\ time_stamp'[value[x]] # Tbd
                  /\ time_stamp'[value[x]] <= time_stamp'[x]
  <2> DEFINE x == hist[q][k]
  <2>1. x \in Objects /\ x \in Links /\ InHist(x) /\ value'[x] = value[x]
    BY <1>0, <1>3, VersionFacts DEF IsIndirect, Grows
  <2>2. SUFFICES ASSUME value[x] # Null
        PROVE  /\ value[x] \in Objects /\ time_stamp[value[x]] # Tbd
               /\ time_stamp'[value[x]] # Tbd
               /\ time_stamp'[value[x]] <= time_stamp'[x]
    BY <2>1
  <2> DEFINE w == value[x]
  <2>3. w \in Objects
    BY <2>1, <2>2 DEF HeapTypes, Values, Objects
  <2>4. time_stamp[w] # Tbd /\ time_stamp[w] <= time_stamp[x]
    BY <1>3, <2>2 DEF ValueInv
  <2>5. time_stamp'[w] = time_stamp[w]
    BY <1>0, <2>3, <2>4, StampsStay
  <2>6. CASE time_stamp'[x] = time_stamp[x]
    BY <2>3, <2>4, <2>5, <2>6
  <2>7. CASE time_stamp'[x] # time_stamp[x]
    <3>1. PICK z \in Objects, s \in Nat : HeapStamp(z, s)
      BY <2>1, <2>7
         DEF HeapStep, HeapStays, SameHeap, HeapCut, HeapNew, HeapInstall, Writes
    <3>2. x = z /\ time_stamp'[x] = s
      BY <2>1, <2>7, <3>1 DEF HeapStamp, HeapTypes
    <3>3. time_stamp[w] <= s
      BY <1>3, <2>2, <3>1, <3>2 DEF HeapStamp
    <3> QED
      BY <2>3, <2>4, <2>5, <3>2, <3>3
  <2> QED
    BY <2>6, <2>7
<1>4. CASE hist' = hist
  <2>1. ASSUME NEW q \in Ptrs, NEW k \in 1 .. Len(hist[q]), IsIndirect(hist[q][k])
        PROVE  \A j \in k + 1 .. Len(hist[q]) : value[hist[q][k]] # hist[q][j]
    BY <2>1 DEF ValueInv
  <2> QED
    BY <1>3, <1>4, <2>1 DEF ValueInv, IsIndirect
<1>5. ASSUME NEW p \in Ptrs, NEW z \in Objects, HeapInstall(p, z) PROVE ValueInv'
  <2> DEFINE n == Len(hist[p])
  <2>1. /\ Installs(p, z) /\ time_stamp' = time_stamp /\ time_stamp[z] = Tbd
        /\ IsIndirect(z) /\ value'[z] # Null => time_stamp[value'[z]] # Tbd
    BY <1>5 DEF HeapInstall, Writes
  <2>2. ASSUME NEW q \in Ptrs, NEW k \in 1 .. Len(hist'[q]), IsIndirect(hist'[q][k])
        PROVE  LET x == hist'[q][k] IN
               /\ value'[x] # Null => /\ time_stamp'[value'[x]] # Tbd
                                      /\ time_stamp'[value'[x]] <= time_stamp'[x]
               /\ \A j \in k + 1 .. Len(hist'[q]) : value'[x] # hist'[q][j]
    <3> DEFINE x == hist'[q][k]
    <3>0. Len(hist[q]) \in Nat /\ Len(hist'[q]) \in Nat
      BY <1>0 DEF HeapTypes
    <3>1. CASE k \in 1 .. Len(hist[q]) /\ hist'[q][k] = hist[q][k]
      <4>1. /\ value'[x] = value[x]
            /\ value'[x] # Null => /\ time_stamp[value[x]] # Tbd
                                   /\ time_stamp'[value'[x]] # Tbd
                                   /\ time_stamp'[value'[x]] <= time_stamp'[x]
        BY <1>3, <2>2, <3>1
      <4>2. ASSUME NEW j \in k + 1 .. Len(hist'[q]) PROVE value'[x] # hist'[q][j]
        <5>1. j \in 1 .. Len(hist'[q])
          BY <3>0, <3>1
        <5>2. CASE j \in 1 .. Len(hist[q]) /\ hist'[q][j] = hist[q][j]
          <6>1. j \in k + 1 .. Len(hist[q])
            BY <3>0, <3>1, <5>2
          <6> QED
            BY <2>2, <3>1, <4>1, <5>2, <6>1 DEF ValueInv
        <5>3. CASE hist'[q][j] = z
          BY <2>1, <4>1, <5>3, Constants DEF Objects
        <5> QED
          BY <2>1, <5>1, <5>2, <5>3, InstallCases
      <4> QED
        BY <4>1, <4>2
    <3>2. CASE q = p /\ k = n + 1 /\ hist'[q][k] = z
      <4>1. Len(hist'[q]) = k
        BY <2>1, <3>2, InstallsHist
      <4>2. \A j \in k + 1 .. Len(hist'[q]) : value'[x] # hist'[q][j]
        BY <3>0, <4>1
      <4>3. value'[z] # Null => value'[z] \in Objects
        BY <1>0, <2>2, <3>2 DEF HeapTypes, Values, IsIndirect, Objects
      <4> QED
        BY <1>1, <1>2, <2>1, <2>2, <3>2, <4>2, <4>3
    <3> QED
      BY <2>1, <3>1, <3>2, InstallCases
  <2> QED
    BY <2>2 DEF ValueInv, IsIndirect
<1> QED
  BY <1>4, <1>5 DEF HeapStep, HeapStays, SameHeap, HeapStamp, HeapNew, HeapCut

\* The invariant of the versions is kept.
LEMMA HeapKept ==
  ASSUME HeapTypes, ClockInv, HeapInv, HeapStep
  PROVE  HeapInv'
BY HistKept, PtrKept, ChainKept, OrderKept, ValueKept DEF HeapInv

(***************************************************************************)
(* What the step of one thread leaves to the others.                       *)
(***************************************************************************)
\* A thread that is about to set a stamp has read the clock before.
Stampers ==
  \A u \in Threads : pc'[u] = "stamp_cas" =>
    /\ loc'[u].cur = loc[u].cur
    /\ \/ pc[u] = "stamp_cas" /\ loc'[u].t = loc[u].t
       \/ pc[u] = "stamp" /\ loc'[u].t = stamp

\* What holds before and after every step.
LEMMA StepFacts ==
  ASSUME IInv, HeapStep
  PROVE  Grows /\ HeapTypes /\ HeapTypes' /\ HeapInv /\ HeapInv' /\ ClockInv
<1>1. HeapTypes /\ HeapInv /\ ClockInv
  BY HeapTypesHold DEF IInv
<1> QED
  BY <1>1, HeapStepGrows, HeapStepTypes, HeapKept

\* What holds of every thread.
LEMMA ThreadFacts ==
  ASSUME IInv, NEW t \in Threads
  PROVE  /\ ThreadInv(t) /\ Control(t) /\ loc[t] \in Locals
         /\ loc[t].op # "none" => loc[t].p \in Ptrs /\ loc[t].p \in Used
BY LocalTypes, CallPtr DEF IInv, ControlInv

\* What done_stamp has reached is stamped.
LEMMA BelowTbd ==
  ASSUME ClockInv, HeapTypes
  PROVE  /\ done_stamp \in Nat /\ done_stamp < Tbd /\ stamp \in Nat /\ stamp < Tbd
         /\ Tbd \in Nat /\ \A x \in Objects : time_stamp[x] \in Nat
BY Constants DEF ClockInv, HeapTypes

\* A reference in the place of a version has a stamp or is the version.
LEMMA ShowsUnstamped ==
  ASSUME ClockInv, HeapTypes, NEW p \in Ptrs, NEW k \in Nat, NEW x \in Refs, Shows(p, k, x),
         ~Stamped(x)
  PROVE  x \in Objects /\ InHist(x) /\ k \in 1 .. Len(hist[p]) /\ x = hist[p][k]
<1>1. k # 0 /\ x # Null /\ x \in Objects /\ time_stamp[x] = Tbd
  BY DEF Shows, Stamped, Refs
<1>2. k \in 1 .. Len(hist[p]) /\ x = hist[p][k]
  BY <1>1, BelowTbd DEF Shows
<1> QED
  BY <1>1, <1>2 DEF InHist

\* What waits for its stamp has been installed.
LEMMA StampingInHist ==
  ASSUME IInv, NEW t \in Threads, Stamping(t), ~Stamped(loc[t].cur)
  PROVE  loc[t].cur \in Objects /\ InHist(loc[t].cur)
<1> DEFINE l == loc[t]
<1>1. ThreadInv(t) /\ Control(t) /\ l \in Locals /\ HeapTypes /\ ClockInv
  BY ThreadFacts, HeapTypesHold DEF IInv
<1>2. l.op # "none"
  BY <1>1 DEF Control, Stamping
<1>3. l.p \in Ptrs /\ l.cur \in Refs /\ l.version \in Nat
  BY <1>1, <1>2, ThreadFacts, LocalsFields
<1>4. CASE l.op # "snapshot"
  <2>1. Shows(l.p, l.version, l.cur)
    BY <1>1, <1>4 DEF ThreadInv, CurOf
  <2> QED
    BY <1>1, <1>3, <2>1, ShowsUnstamped
<1>5. CASE l.op = "snapshot"
  <2>1. PICK j \in 0 .. Len(hist[l.p]) : Shows(l.p, j, l.cur)
    BY <1>1, <1>5 DEF ThreadInv, ChaseOf, ChaseAt
  <2> QED
    BY <1>1, <1>3, <2>1, ShowsUnstamped
<1> QED
  BY <1>4, <1>5

\* Nobody stamps a version that came too late for a snapshot with a stamp that
\* is as early.
LEMMA AfterGrows ==
  ASSUME IInv, Grows, Stampers, NEW x \in Objects, NEW ls \in Nat, ls < stamp, After(x, ls)
  PROVE  After(x, ls)'
<1>1. /\ stamp \in Nat /\ Tbd \in Nat /\ time_stamp[x] \in Nat
  BY BelowTbd, HeapTypesHold DEF IInv
<1>2. CASE time_stamp'[x] = time_stamp[x]
  <2>1. ASSUME time_stamp'[x] = Tbd, NEW u \in Threads, pc'[u] = "stamp_cas",
               loc'[u].cur = x
        PROVE  loc'[u].t > ls
    BY <1>1, <1>2, <2>1 DEF After, Stampers
  <2> QED
    BY <1>2, <2>1 DEF After
<1>3. CASE time_stamp'[x] # time_stamp[x]
  <2>1. /\ time_stamp[x] = Tbd
        /\ \E u \in Threads : pc[u] = "stamp_cas" /\ loc[u].cur = x
                              /\ time_stamp'[x] = loc[u].t
    BY <1>3 DEF Grows
  <2>2. time_stamp'[x] > ls
    BY <2>1 DEF After
  <2> QED
    BY <1>3, <2>1, <2>2 DEF After
<1> QED
  BY <1>2, <1>3

\* A version that is not installed yet will be stamped after every running
\* snapshot.
LEMMA NewAfter ==
  ASSUME IInv, Stampers, NEW x \in Objects, time_stamp[x] = Tbd, time_stamp'[x] = Tbd,
         ~InHist(x), NEW ls \in Nat, ls < stamp
  PROVE  After(x, ls)'
<1>1. stamp \in Nat /\ Tbd \in Nat /\ stamp < Tbd
  BY BelowTbd, HeapTypesHold DEF IInv
<1>2. ASSUME NEW u \in Threads, pc'[u] = "stamp_cas", loc'[u].cur = x PROVE FALSE
  <2>1. Stamping(u) /\ loc[u].cur = x
    BY <1>2 DEF Stampers, Stamping
  <2>2. ~Stamped(loc[u].cur)
    BY <2>1, Constants DEF Stamped, Objects
  <2> QED
    BY <2>1, <2>2, StampingInHist
<1> QED
  BY <1>1, <1>2 DEF After

\* What was too new for a snapshot stays so, and what is installed later is
\* too new as well.
LEMMA AboveGrows ==
  ASSUME IInv, HeapStep, Stampers, NEW p \in Ptrs, NEW a \in Nat, NEW ls \in Nat, ls < stamp,
         Above(p, a, ls), a <= Len(hist[p])
  PROVE  Above(p, a, ls)'
<1>0. Grows /\ HeapTypes /\ HeapTypes'
  BY StepFacts
<1>1. ASSUME NEW k \in a + 1 .. Len(hist[p]) PROVE After(hist[p][k], ls)'
  <2>1. k \in 1 .. Len(hist[p]) /\ After(hist[p][k], ls)
    BY <1>1 DEF Above
  <2>2. hist[p][k] \in Objects /\ hist'[p][k] = hist[p][k]
    BY <1>0, <2>1, VersionFacts DEF Grows
  <2>3. \A x \in Objects : After(x, ls) => After(x, ls)'
    BY <1>0, AfterGrows
  <2> QED
    BY <2>1, <2>2, <2>3 DEF After
<1>2. CASE hist' = hist
  BY <1>1, <1>2 DEF Above
<1>3. ASSUME NEW q \in Ptrs, NEW x \in Objects, HeapInstall(q, x) PROVE Above(p, a, ls)'
  <2>1. Installs(q, x) /\ time_stamp[x] = Tbd /\ time_stamp'[x] = Tbd /\ ~InHist(x)
    BY <1>3 DEF HeapInstall, Writes
  <2>2. After(x, ls)'
    BY <2>1, NewAfter
  <2>3. ASSUME NEW k \in a + 1 .. Len(hist'[p]) PROVE After(hist[p][k], ls)'
    <3>1. k \in 1 .. Len(hist'[p])
      BY <2>3
    <3>2. CASE hist'[p][k] = x
      BY <2>2, <3>2 DEF After
    <3>3. CASE k \in 1 .. Len(hist[p])
      <4>1. k \in a + 1 .. Len(hist[p])
        BY <2>3, <3>3
      <4> QED
        BY <1>1, <4>1
    <3> QED
      BY <1>0, <2>1, <3>1, <3>2, <3>3, InstallCases
  <2> QED
    BY <2>3 DEF Above
<1> QED
  BY <1>2, <1>3 DEF HeapStep, HeapStays, SameHeap, HeapStamp, HeapNew, HeapCut

\* The same for references and numbers that are not fixed.
ShowsNext(p, k, x) ==
  IF k = 0 THEN x = Null
  ELSE /\ k \in 1 .. Len(hist'[p])
       /\ \/ x = hist'[p][k]
          \/ /\ time_stamp'[hist'[p][k]] <= done_stamp'
             /\ (IF x \in Links THEN value'[x] ELSE x)
                  = (IF hist'[p][k] \in Links THEN value'[hist'[p][k]] ELSE hist'[p][k])
             /\ x # Null => time_stamp'[x] <= done_stamp'

\* Above after the step, with arguments of before the step.
AboveNext(p, a, ls) ==
  \A k \in a + 1 .. Len(hist'[p]) :
    /\ time_stamp'[hist'[p][k]] > ls
    /\ time_stamp'[hist'[p][k]] = Tbd =>
         \A u \in Threads : pc'[u] = "stamp_cas" /\ loc'[u].cur = hist'[p][k] =>
           loc'[u].t > ls

\* ShowsGrows, for a reference that is a state function.
LEMMA ShowsStays ==
  ASSUME Grows, HeapTypes, HeapTypes', HistInv, ClockInv, NEW p \in Ptrs, NEW k \in Nat,
         NEW x \in Refs, Shows(p, k, x)
  PROVE  ShowsNext(p, k, x)
<1>1. Shows(p, k, x)'
  BY ShowsGrows
<1> QED
  BY <1>1 DEF Shows, ShowsNext, GetPtr, IsIndirect

\* AboveGrows, for arguments that are state functions.
LEMMA AboveStays ==
  ASSUME IInv, HeapStep, Stampers, NEW p \in Ptrs, NEW a \in Nat, NEW ls \in Nat, ls < stamp,
         Above(p, a, ls), a <= Len(hist[p])
  PROVE  AboveNext(p, a, ls)
<1>1. Above(p, a, ls)'
  BY AboveGrows
<1> QED
  BY <1>1 DEF Above, After, AboveNext

\* u takes no part in the step: its locals stay, and so does the version that
\* it has made; nobody installs a version over its store, or takes its node.
Bystander(u) ==
  LET l == loc[u] IN
  /\ pc'[u] = pc[u] /\ loc'[u] = loc[u]
  /\ local_stamp'[u] = local_stamp[u] /\ window'[u] = window[u] /\ snap'[u] = snap[u]
  /\ Prepared(u) =>
       /\ next_version'[l.new] = next_version[l.new]
       /\ IsIndirect(l.new) =>
            /\ value'[l.new] = value[l.new] /\ retires'[l.new] = retires[l.new]
            /\ l.new \in links' /\ ~InHist(l.new)'
            /\ \A w \in Threads \ {u} : Prepared(w)' => loc'[w].new # l.new
  /\ l.op = "store" => hist'[l.p] = hist[l.p]
  /\ (BeforeTry(u) \/ Prepared(u)) /\ ~UseIndirect(l.arg) => Fresh(u, l.arg)'

\* The clock never goes back, and done_stamp does not pass a running snapshot.
Ticks ==
  /\ stamp' \in Nat /\ stamp <= stamp'
  /\ \A u \in Threads : local_stamp[u] # NoStamp => done_stamp' <= local_stamp[u]

\* u stays inside or outside of its snapshot.
SnapStays(u) ==
  local_stamp'[u] = local_stamp[u] /\ window'[u] = window[u] /\ snap'[u] = snap[u]
SnapGoesOn(u) == SnapStays(u) /\ (pc'[u] = "advance" <=> pc[u] = "advance")

\* The snapshot of a thread that does not move goes on.
LEMMA BystanderSnap ==
  ASSUME NEW u \in Threads, Bystander(u)
  PROVE  SnapGoesOn(u)
BY DEF Bystander, SnapGoesOn, SnapStays

\* The clock stays ahead of a snapshot that goes on.
LEMMA ClockGoesOn ==
  ASSUME IInv, Ticks, NEW u \in Threads, SnapGoesOn(u),
         pc'[u] = "stamp_cas" => loc'[u].t <= stamp' /\ loc'[u].cur # Null
  PROVE  ClockOf(u)'
<1>1. ClockOf(u) /\ stamp \in Nat
  BY ThreadFacts DEF ThreadInv, IInv, Types
<1>2. local_stamp[u] \in Nat \cup {NoStamp}
  BY DEF IInv, Types
<1>3. local_stamp'[u] = local_stamp[u] /\ (pc'[u] = "advance" <=> pc[u] = "advance")
  BY DEF SnapGoesOn, SnapStays
<1>4. /\ stamp' \in Nat /\ stamp <= stamp'
      /\ local_stamp[u] # NoStamp => done_stamp' <= local_stamp[u]
  BY DEF Ticks
<1> QED
  BY <1>1, <1>2, <1>3, <1>4 DEF ClockOf

\* The clock stays ahead of the stamps of a thread that does not move.
LEMMA ClockOther ==
  ASSUME IInv, Ticks, NEW u \in Threads, Bystander(u)
  PROVE  ClockOf(u)'
<1>1. ClockOf(u) /\ loc[u].t \in Nat /\ stamp \in Nat
  BY ThreadFacts, LocalsFields DEF ThreadInv, IInv, Types
<1>2. pc'[u] = pc[u] /\ loc'[u] = loc[u] /\ stamp' \in Nat /\ stamp <= stamp'
  BY DEF Bystander, Ticks
<1>3. pc'[u] = "stamp_cas" => loc'[u].t <= stamp' /\ loc'[u].cur # Null
  BY <1>1, <1>2 DEF ClockOf
<1> QED
  BY <1>3, BystanderSnap, ClockGoesOn

\* The stamp that a thread is about to set stays above the older ones.
LEMMA PendingOther ==
  ASSUME IInv, HeapStep, NEW u \in Threads, Bystander(u)
  PROVE  PendingOf(u)'
<1> DEFINE x == loc[u].cur
<1>0. pc'[u] = pc[u] /\ loc'[u] = loc[u]
  BY DEF Bystander
<1> SUFFICES ASSUME pc[u] = "stamp_cas", time_stamp'[x] = Tbd
             PROVE  PendingOf(u)'
  BY <1>0 DEF PendingOf
<1>1. Grows /\ HeapTypes /\ HeapTypes' /\ HeapInv /\ ClockInv /\ PendingOf(u)
  BY StepFacts, ThreadFacts DEF ThreadInv
<1>2. x \in Refs /\ x # Null /\ loc[u].t \in Nat
  BY ThreadFacts, LocalsFields DEF ThreadInv, ClockOf
<1>3. time_stamp[x] = Tbd
  BY <1>1, <1>2, StampsStay DEF Refs
<1>4. x \in Objects /\ InHist(x)
  BY <1>2, <1>3, StampingInHist DEF Stamping, Stamped
<1>5. ASSUME NEW p \in Ptrs, NEW k \in 1 .. Len(hist'[p]), hist'[p][k] = x,
             NEW i \in 1 .. k - 1
      PROVE  time_stamp'[hist'[p][i]] <= loc[u].t
  <2>0. Len(hist[p]) \in Nat
    BY <1>1 DEF HeapTypes
  <2>1. k \in 1 .. Len(hist[p]) /\ hist[p][k] = x
    <3>1. CASE hist' = hist
      BY <1>5, <3>1
    <3>2. ASSUME NEW q \in Ptrs, NEW y \in Objects, HeapInstall(q, y) PROVE <2>1!:
      <4>1. Installs(q, y) /\ ~InHist(y)
        BY <3>2 DEF HeapInstall, Writes
      <4> QED
        BY <1>1, <1>4, <1>5, <4>1, InstallCases
    <3> QED
      BY <3>1, <3>2 DEF HeapStep, HeapStays, SameHeap, HeapStamp, HeapNew, HeapCut
  <2>2. i \in 1 .. Len(hist[p])
    BY <2>0, <2>1
  <2>3. hist'[p][i] = hist[p][i] /\ hist[p][i] \in Objects
    BY <1>1, <2>2, VersionFacts DEF Grows
  <2>4. time_stamp[hist[p][i]] # Tbd
    BY <1>1, <2>1 DEF HeapInv, OrderInv
  <2>5. time_stamp'[hist[p][i]] = time_stamp[hist[p][i]]
    BY <1>1, <2>3, <2>4, StampsStay
  <2>6. time_stamp[hist[p][i]] <= loc[u].t
    BY <1>1, <1>3, <2>1 DEF PendingOf
  <2> QED
    BY <2>3, <2>5, <2>6
<1>6. ASSUME use.build # "indirect", IsIndirect(x), value'[x] # Null
      PROVE  time_stamp'[value'[x]] <= loc[u].t
  <2>1. value'[x] = value[x] /\ value[x] \in Objects
    BY <1>1, <1>4, <1>6 DEF Grows, IsIndirect, HeapTypes, Values, Objects
  <2>2. time_stamp[value[x]] <= loc[u].t
    BY <1>1, <1>3, <1>6, <2>1 DEF PendingOf
  <2>3. time_stamp[value[x]] # Tbd
    BY <1>1, <1>4, <1>6, <2>1 DEF HeapInv, ValueInv, InHist
  <2> QED
    BY <1>1, <2>1, <2>2, <2>3, StampsStay
<1>7. use' = use
  BY <1>1 DEF Grows
<1> QED
  BY <1>0, <1>5, <1>6, <1>7 DEF PendingOf, IsIndirect

\* The version a call linearizes at keeps its place and its stamp.
LEMMA CurOther ==
  ASSUME IInv, HeapStep, NEW u \in Threads, Bystander(u)
  PROVE  CurOf(u)'
<1> DEFINE l == loc[u]
           p == l.p
           k == l.version
<1>0. pc'[u] = pc[u] /\ loc'[u] = loc[u]
  BY DEF Bystander
<1>1. Grows /\ HeapTypes /\ HeapTypes' /\ HistInv /\ ClockInv /\ CurOf(u)
  BY StepFacts, ThreadFacts DEF ThreadInv, HeapInv
<1>2. l.cur \in Refs /\ k \in Nat /\ Control(u)
  BY ThreadFacts, LocalsFields
<1>3. ASSUME Stamping(u), l.op # "snapshot" PROVE Shows(l.p, l.version, l.cur)'
  <2>1. p \in Ptrs
    BY <1>2, <1>3, ThreadFacts DEF Control, Stamping
  <2>2. Shows(p, k, l.cur)
    BY <1>1, <1>3 DEF CurOf
  <2>3. ShowsNext(p, k, l.cur)
    BY <1>1, <1>2, <2>1, <2>2, ShowsStays
  <2> QED
    BY <1>0, <2>3 DEF Shows, ShowsNext, GetPtr, IsIndirect
<1>4. ASSUME pc[u] \in {"shortcut", "return", "retire", "cas_try"}, l.op # "read"
      PROVE  k <= Len(hist'[p]) /\ (k # 0 => time_stamp'[hist'[p][k]] # Tbd)
  <2>1. p \in Ptrs
    BY <1>2, <1>4, ThreadFacts DEF Control
  <2>2. k <= Len(hist[p]) /\ (k # 0 => time_stamp[hist[p][k]] # Tbd)
    BY <1>1, <1>4 DEF CurOf
  <2>3. Len(hist[p]) \in Nat /\ Len(hist'[p]) \in Nat /\ Len(hist[p]) <= Len(hist'[p])
    BY <1>1, <2>1 DEF Grows, HeapTypes
  <2>4. k # 0 => k \in 1 .. Len(hist[p])
    BY <1>2, <2>2, <2>3
  <2>5. k # 0 => /\ hist'[p][k] = hist[p][k] /\ hist[p][k] \in Objects
    BY <1>1, <2>1, <2>4, VersionFacts DEF Grows
  <2> QED
    BY <1>1, <1>2, <2>2, <2>3, <2>5, StampsStay
<1> QED
  BY <1>0, <1>3, <1>4 DEF CurOf, Stamping

\* A new node stays the call's own.
LEMMA FreshOther ==
  ASSUME IInv, HeapStep, NEW u \in Threads, Bystander(u)
  PROVE  FreshOf(u)'
<1> DEFINE l == loc[u]
<1>0. pc'[u] = pc[u] /\ loc'[u] = loc[u] /\ (l.op = "store" => hist'[l.p] = hist[l.p])
  BY DEF Bystander
<1>1. (BeforeTry(u) \/ Prepared(u))' => BeforeTry(u) \/ Prepared(u)
  BY <1>0 DEF BeforeTry, Prepared, StorePending, Stamping
<1>2. Grows /\ l.arg \in Values
  BY StepFacts, ThreadFacts, LocalsFields
<1>3. ~UseIndirect(l.arg)' => ~UseIndirect(l.arg)
  <2>1. CASE l.arg = Null
    BY <1>0, <1>2, <2>1 DEF UseIndirect, Grows
  <2>2. CASE l.arg # Null
    <3>1. l.arg \in Objects
      BY <1>2, <2>2 DEF Values, Objects
    <3> QED
      BY <1>0, <1>2, <3>1, StampsStay DEF UseIndirect, Grows
  <2> QED
    BY <2>1, <2>2
<1>4. (BeforeTry(u) \/ Prepared(u)) /\ ~UseIndirect(l.arg) => Fresh(u, l.arg)'
  BY DEF Bystander
<1> QED
  BY <1>1, <1>3, <1>4 DEF FreshOf

\* A version that is made and not installed stays the call's own.
LEMMA PreparedOther ==
  ASSUME IInv, HeapStep, NEW u \in Threads, Bystander(u)
  PROVE  PreparedOf(u)'
<1> DEFINE l == loc[u]
           x == l.new
<1>0. /\ pc'[u] = pc[u] /\ loc'[u] = loc[u] /\ (l.op = "store" => hist'[l.p] = hist[l.p])
  BY DEF Bystander
<1>1. Grows /\ l.arg \in Values /\ PreparedOf(u) /\ FreshOf(u)
  BY StepFacts, ThreadFacts, LocalsFields DEF ThreadInv
<1>2. SUFFICES ASSUME Prepared(u) PROVE PreparedOf(u)'
  BY <1>0 DEF PreparedOf, Prepared, StorePending
<1>3. /\ x # Null /\ GetPtr(x) = l.arg
      /\ ~IsIndirect(x) => ~UseIndirect(l.arg)
      /\ IsIndirect(x) =>
           /\ x \in links /\ retires[x] = 0 /\ ~InHist(x)
           /\ use.build # "indirect" /\ l.arg # Null => time_stamp[l.arg] # Tbd
  BY <1>1, <1>2 DEF PreparedOf
<1>4. ~IsIndirect(x) => ~UseIndirect(l.arg)'
  <2>1. SUFFICES ASSUME ~IsIndirect(x) PROVE ~UseIndirect(l.arg)'
    OBVIOUS
  <2>2. x = l.arg /\ x \in Objects /\ ~UseIndirect(x)
    BY <1>1, <1>3, <2>1 DEF GetPtr, Values, Objects
  <2>3. Fresh(u, x)
    BY <1>1, <1>2, <2>2 DEF FreshOf
  <2>4. ~InHist(x)
    <3>1. \A p \in Ptrs : hist[p] \in Seq(Objects)
      BY StepFacts DEF HeapTypes
    <3> QED
      BY <2>3, <3>1 DEF Fresh, InHist
  <2>5. time_stamp'[x] = time_stamp[x]
    BY <1>1, <2>2, <2>4 DEF Grows
  <2> QED
    BY <1>0, <1>1, <2>2, <2>5 DEF UseIndirect, Grows
<1>5. GetPtr(x)' = l.arg
  BY <1>0, <1>2, <1>3 DEF Bystander, GetPtr, IsIndirect
<1>6. IsIndirect(x) =>
        /\ x \in links' /\ retires'[x] = 0 /\ ~InHist(x)'
        /\ \A w \in Threads \ {u} : Prepared(w)' => loc'[w].new # x
  BY <1>2, <1>3 DEF Bystander
<1>7. IsIndirect(x) /\ use'.build # "indirect" /\ l.arg # Null => time_stamp'[l.arg] # Tbd
  <2>1. l.arg # Null => l.arg \in Objects
    BY <1>1 DEF Values, Objects
  <2> QED
    BY <1>1, <1>3, <2>1, StampsStay DEF Grows
<1> QED
  BY <1>0, <1>3, <1>4, <1>5, <1>6, <1>7 DEF PreparedOf, IsIndirect

\* The value of a version, and what happens to a pointer in a step.
ValueNext(p, k) ==
  IF k = 0 THEN Null
  ELSE IF hist'[p][k] \in Links THEN value'[hist'[p][k]] ELSE hist'[p][k]

\* VersionValueGrows, for arguments that are state functions.
LEMMA ValueStays ==
  ASSUME Grows, HeapTypes, NEW p \in Ptrs, NEW k \in 0 .. Len(hist[p])
  PROVE  ValueNext(p, k) = VersionValue(p, k)
<1>1. VersionValue(p, k)' = VersionValue(p, k)
  BY VersionValueGrows
<1>2. VersionValue(p, k)' = ValueNext(p, k)
  BY DEF VersionValue, ValueNext, GetPtr, IsIndirect
<1> QED
  BY <1>1, <1>2

\* A step leaves a pointer alone, cuts a link out of it or installs another
\* value.
LEMMA PtrStep ==
  ASSUME HeapTypes, HeapStep, NEW p \in Ptrs
  PROVE  \/ v'[p] = v[p] /\ hist'[p] = hist[p]
         \/ /\ hist'[p] = hist[p] /\ use.build = "hybrid" /\ IsIndirect(v[p])
            /\ v'[p] = value[v[p]] /\ ~IsIndirect(v'[p])
         \/ /\ Len(hist'[p]) = Len(hist[p]) + 1
            /\ ValueNext(p, Len(hist[p]) + 1) # VersionValue(p, Len(hist[p]))
<1> DEFINE Goal ==
         \/ v'[p] = v[p] /\ hist'[p] = hist[p]
         \/ /\ hist'[p] = hist[p] /\ use.build = "hybrid" /\ IsIndirect(v[p])
            /\ v'[p] = value[v[p]] /\ ~IsIndirect(v'[p])
         \/ /\ Len(hist'[p]) = Len(hist[p]) + 1
            /\ ValueNext(p, Len(hist[p]) + 1) # VersionValue(p, Len(hist[p]))
<1>1. CASE v' = v /\ hist' = hist
  BY <1>1
<1>2. ASSUME NEW q \in Ptrs, HeapCut(q) PROVE Goal
  <2>1. /\ v' = [v EXCEPT ![q] = value[v[q]]] /\ hist' = hist /\ v \in [Ptrs -> Refs]
        /\ use.build = "hybrid" /\ IsIndirect(v[q])
    BY <1>2 DEF HeapCut, HeapTypes
  <2>2. ~IsIndirect(value[v[q]])
    BY <2>1, Constants DEF HeapTypes, IsIndirect, Values
  <2> QED
    BY <2>1, <2>2
<1>3. ASSUME NEW q \in Ptrs, NEW x \in Objects, HeapInstall(q, x) PROVE Goal
  <2>1. Installs(q, x) /\ NextPtr(x) # VersionValue(q, Len(hist[q]))
    BY <1>3 DEF HeapInstall
  <2>2. CASE q # p
    BY <2>1, <2>2, InstallsHist
  <2>3. CASE q = p
    <3>1. Len(hist'[p]) = Len(hist[p]) + 1 /\ hist'[p][Len(hist[p]) + 1] = x
      BY <2>1, <2>3, InstallsHist
    <3>2. Len(hist[p]) \in Nat
      BY DEF HeapTypes
    <3>3. ValueNext(p, Len(hist[p]) + 1) = NextPtr(x)
      BY <3>1, <3>2 DEF ValueNext, NextPtr, IsIndirect
    <3> QED
      BY <2>1, <2>3, <3>1, <3>3
  <2> QED
    BY <2>2, <2>3
<1> QED
  BY <1>1, <1>2, <1>3 DEF HeapStep, HeapStays, SameHeap, HeapStamp, HeapNew

\* The first version that was installed after the k-th has another value.
LEMMA LaterValue ==
  ASSUME HeapTypes, HeapStep, NEW p \in Ptrs, NEW k \in 0 .. Len(hist[p]),
         NEW e, VersionValue(p, k) = e,
         Len(hist[p]) > k => VersionValue(p, k + 1) # e,
         Len(hist'[p]) > k
  PROVE  ValueNext(p, k + 1) # e
<1>0. Grows /\ Len(hist[p]) \in Nat
  BY HeapStepGrows DEF HeapTypes
<1>1. CASE Len(hist[p]) > k
  <2>1. k + 1 \in 0 .. Len(hist[p])
    BY <1>0, <1>1
  <2> QED
    BY <1>0, <1>1, <2>1, ValueStays
<1>2. CASE Len(hist[p]) = k
  <2>1. ValueNext(p, Len(hist[p]) + 1) # VersionValue(p, Len(hist[p]))
    BY <1>0, <1>2, PtrStep
  <2> QED
    BY <1>2, <2>1
<1> QED
  BY <1>0, <1>1, <1>2

\* Before its first try a cas keeps what it knows, whatever the others do.
LEMMA CasGoesOn ==
  ASSUME IInv, HeapStep, NEW u \in Threads, BeforeTry(u), SameCall(u), SameVersions(u),
         loc'[u].cur = loc[u].cur
  PROVE  CasBefore(u)'
<1> DEFINE l == loc[u]
           p == l.p
           k == l.version
           n == Len(hist[p])
           n2 == Len(hist'[p])
<1>1. Grows /\ HeapTypes /\ HeapTypes' /\ HistInv /\ ClockInv /\ CasOf(u) /\ l.op = "cas"
  BY StepFacts, ThreadFacts DEF ThreadInv, HeapInv, BeforeTry
<1>2. l.old \in Refs /\ k \in Nat
  BY ThreadFacts, LocalsFields
<1>3. p \in Ptrs /\ n \in Nat /\ n2 \in Nat /\ n <= n2 /\ use' = use
  BY <1>1, ThreadFacts DEF Grows, HeapTypes
<1>4. /\ Shows(p, k, l.old) /\ l.cur = l.old
      /\ IsIndirect(l.old) => k # 0 /\ l.old = hist[p][k]
      /\ GetPtr(l.old) = l.exp /\ l.exp # l.arg
      /\ n = k => v[p] = l.old \/ (use.build = "hybrid" /\ IsIndirect(l.old))
      /\ n > k => VersionValue(p, k + 1) # l.exp
  BY <1>1 DEF CasOf, CasBefore
<1>5. k \in 0 .. n
  BY <1>2, <1>3, <1>4 DEF Shows
<1>6. ShowsNext(p, k, l.old)
  BY <1>1, <1>2, <1>3, <1>4, ShowsStays
<1>7. IsIndirect(l.old) => k # 0 /\ l.old = hist'[p][k] /\ InHist(l.old)
  <2>1. k # 0 => k \in 1 .. n
    BY <1>2, <1>3, <1>5
  <2> QED
    BY <1>1, <1>3, <1>4, <2>1 DEF Grows, InHist
<1>8. IsIndirect(l.old) => value'[l.old] = value[l.old]
  BY <1>1, <1>7 DEF Grows, IsIndirect
<1>9. VersionValue(p, k) = l.exp
  BY <1>2, <1>3, <1>4, ShowsValue
<1>10. n2 > k => ValueNext(p, k + 1) # l.exp
  BY <1>1, <1>3, <1>4, <1>5, <1>9, LaterValue
<1>11. n2 = k => v'[p] = l.old \/ (use.build = "hybrid" /\ IsIndirect(l.old))
  BY <1>1, <1>2, <1>3, <1>4, <1>5, PtrStep
<1>12. /\ loc'[u].p = p /\ loc'[u].old = l.old /\ loc'[u].version = k /\ loc'[u].exp = l.exp
       /\ loc'[u].arg = l.arg /\ loc'[u].cur = l.cur /\ k + 1 # 0
  BY <1>2 DEF SameCall, SameVersions
<1>13. NextPtr(l.old) = l.exp
  BY <1>4, <1>8 DEF GetPtr, NextPtr
<1> QED
  BY <1>3, <1>4, <1>6, <1>7, <1>10, <1>11, <1>12, <1>13
     DEF CasBefore, Shows, ShowsNext, VersionValue, ValueNext, GetPtr, IsIndirect, NextPtr

\* The reason for which a cas fails remains.
LEMMA LostGoesOn ==
  ASSUME IInv, HeapStep, NEW u \in Threads, loc[u].op = "cas", CasLost(u), SameCall(u),
         loc'[u].version = loc[u].version
  PROVE  CasLost(u)'
<1> DEFINE l == loc[u]
           p == l.p
           k == l.version
<1>1. Grows /\ HeapTypes /\ p \in Ptrs /\ k \in Nat
  BY StepFacts, ThreadFacts, LocalsFields
<1>2. Len(hist[p]) \in Nat /\ Len(hist'[p]) \in Nat /\ Len(hist[p]) <= Len(hist'[p])
  BY <1>1 DEF Grows, HeapTypes
<1>3. PICK i \in k .. Len(hist[p]) : VersionValue(p, i) # l.exp
  BY DEF CasLost
<1>4. i \in 0 .. Len(hist[p]) /\ i \in k .. Len(hist'[p])
  BY <1>1, <1>2, <1>3
<1>5. ValueNext(p, i) = VersionValue(p, i)
  BY <1>1, <1>4, ValueStays
<1>6. /\ loc'[u].p = p /\ loc'[u].version = k /\ loc'[u].exp = l.exp
  BY DEF SameCall
<1>7. VersionValue(loc[u].p, i)' = ValueNext(p, i)
  BY <1>6 DEF VersionValue, ValueNext, GetPtr, IsIndirect
<1> QED
  BY <1>3, <1>4, <1>5, <1>6, <1>7 DEF CasLost

\* The cas of a thread that does not move.
LEMMA CasOther ==
  ASSUME IInv, HeapStep, NEW u \in Threads, Bystander(u)
  PROVE  CasOf(u)'
<1> DEFINE l == loc[u]
           p == l.p
           k == l.version
           n == Len(hist[p])
<1>0. pc'[u] = pc[u] /\ loc'[u] = loc[u]
  BY DEF Bystander
<1>1. Grows /\ HeapTypes /\ HeapTypes' /\ HeapInv /\ HistInv /\ ClockInv /\ CasOf(u)
  BY StepFacts, ThreadFacts DEF ThreadInv, HeapInv
<1>2. l.old \in Refs /\ l.new \in Refs /\ k \in Nat /\ Control(u) /\ k <= k
  BY ThreadFacts, LocalsFields
<1> DEFINE n2 == Len(hist'[p])
<1>3. ASSUME l.op = "cas"
      PROVE  p \in Ptrs /\ n \in Nat /\ n2 \in Nat /\ n <= n2 /\ use' = use
  BY <1>1, <1>3, ThreadFacts DEF Grows, HeapTypes
<1>4. SameCall(u) /\ SameVersions(u) /\ loc'[u].cur = loc[u].cur
  BY <1>0 DEF SameCall, SameVersions
<1>5. pc[u] = "cas_try" => Stamped(l.old)'
  BY <1>0, <1>1, <1>2, StampsStay DEF CasOf, Stamped, Refs
<1> DEFINE x == next_version[l.new]
<1>6. ASSUME pc[u] = "cas_retry"
      PROVE  /\ next_version'[l.new] = x
             /\ k \in 1 .. n2 /\ x = hist'[p][k] /\ IsIndirect(x)
             /\ time_stamp'[x] # Tbd
             /\ l.old = value'[x] /\ l.exp = l.old /\ l.exp # l.arg
             /\ n2 = k => v'[p] # x
             /\ n2 > k => ValueNext(p, k + 1) # l.exp
  <2>1. l.op = "cas"
    BY <1>2, <1>6 DEF Control
  <2>2. next_version'[l.new] = x
    BY <1>6 DEF Bystander, Prepared
  <2>3. /\ k \in 1 .. n /\ x = hist[p][k] /\ IsIndirect(x)
        /\ time_stamp[x] # Tbd
        /\ l.old = value[x] /\ l.exp = l.old /\ l.exp # l.arg
        /\ n = k => v[p] # x
        /\ n > k => VersionValue(p, k + 1) # l.exp
    BY <1>1, <1>6 DEF CasOf, CasBetween
  <2>4. /\ hist'[p][k] = x /\ x \in Objects /\ InHist(x) /\ k \in 0 .. n
    BY <1>1, <1>3, <2>1, <2>3, VersionFacts DEF Grows
  <2>5. time_stamp'[x] # Tbd /\ value'[x] = value[x]
    BY <1>1, <2>3, <2>4, StampsStay DEF Grows, IsIndirect
  <2>6. k # 0 /\ VersionValue(p, k) = l.exp
    BY <1>2, <1>3, <2>1, <2>3 DEF VersionValue, GetPtr
  <2>7. n2 > k => ValueNext(p, k + 1) # l.exp
    BY <1>1, <1>3, <2>1, <2>3, <2>4, <2>6, LaterValue
  <2>8. n2 = k => v'[p] # x
    BY <1>1, <1>2, <1>3, <2>1, <2>3, <2>4, PtrStep DEF IsIndirect
  <2>9. k \in 1 .. n2
    BY <1>3, <2>1, <2>3
  <2> QED
    BY <2>2, <2>3, <2>4, <2>5, <2>7, <2>8, <2>9
<1>7. pc[u] = "cas_fail" => loc[u].op = "cas"
  BY <1>2 DEF Control
<1>8. k + 1 # 0 /\ use' = use
  BY <1>1, <1>2 DEF Grows
<1>9. BeforeTry(u)' = BeforeTry(u)
  BY <1>0 DEF BeforeTry, Stamping
<1>10. BeforeTry(u) => CasBefore(u)'
  BY <1>4, CasGoesOn
<1>11. pc[u] = "cas_retry" => CasBetween(u)'
  BY <1>0, <1>6, <1>8 DEF CasBetween, VersionValue, ValueNext, GetPtr, IsIndirect
<1>12. pc[u] = "cas_fail" => CasLost(u)'
  BY <1>1, <1>4, <1>7, LostGoesOn DEF CasOf, SameVersions
<1> QED
  BY <1>0, <1>5, <1>9, <1>10, <1>11, <1>12 DEF CasOf

\* The store of a thread that does not move: only a shortcut comes in
\* between.
LEMMA StoreOther ==
  ASSUME IInv, HeapStep, NEW u \in Threads, Bystander(u)
  PROVE  StoreOf(u)'
<1> DEFINE l == loc[u]
           p == l.p
           n == Len(hist[p])
<1>0. pc'[u] = pc[u] /\ loc'[u] = loc[u]
  BY DEF Bystander
<1>1. SUFFICES ASSUME l.op = "store" PROVE StoreOf(u)'
  BY <1>0 DEF StoreOf
<1>2. Grows /\ HeapTypes /\ HeapTypes' /\ HistInv /\ ClockInv /\ StoreOf(u)
  BY StepFacts, ThreadFacts DEF ThreadInv, HeapInv
<1>3. l.old \in Refs /\ l.new \in Refs /\ p \in Ptrs /\ hist'[p] = hist[p]
  BY <1>1, ThreadFacts, LocalsFields DEF Bystander
<1>4. n \in Nat /\ use' = use
  BY <1>2, <1>3 DEF HeapTypes, Grows
<1>5. /\ GetPtr(l.old) # l.arg /\ GetPtr(l.new) = l.arg
      /\ IsIndirect(l.old) => InHist(l.old)
  BY <1>1, <1>2 DEF StoreOf
<1>9. (IsIndirect(l.old) => InHist(l.old))'
  <2>1. IsIndirect(l.old) => InHist(l.old)'
    <3>1. \A x \in Refs : InHist(x) => InHist(x)'
      BY <1>2, InHistGrows
    <3> QED
      BY <1>0, <1>3, <1>5, <3>1 DEF InHist
  <2> QED
    BY <1>0, <2>1 DEF IsIndirect
<1>6. StorePending(u)' = StorePending(u)
  BY <1>0, <1>3 DEF StorePending
<1>7. CASE StorePending(u)
  <2>1. /\ pc[u] \in {"store_cam", "store_check", "store_recam"}
        /\ Shows(p, n, l.old) /\ next_version[l.new] = l.old
        /\ n # 0 => time_stamp[hist[p][n]] # Tbd
        /\ \/ v[p] = l.old /\ pc[u] = "store_cam"
           \/ use.build = "hybrid" /\ IsIndirect(l.old) /\ v[p] = value[l.old]
        /\ IsIndirect(l.old) => n # 0 /\ l.old = hist[p][n]
    BY <1>1, <1>2, <1>7 DEF StoreOf, StoreBefore
  <2>2. Prepared(u)
    BY <1>7 DEF Prepared
  <2>3. /\ next_version'[l.new] = next_version[l.new]
        /\ IsIndirect(l.new) => value'[l.new] = value[l.new]
    BY <2>2 DEF Bystander
  <2>4. GetPtr(l.new)' = l.arg
    BY <1>0, <1>5, <2>3 DEF GetPtr, IsIndirect
  <2>5. ShowsNext(p, n, l.old)
    BY <1>2, <1>3, <1>4, <2>1, ShowsStays
  <2>6. n # 0 => n \in 1 .. n
    BY <1>4
  <2>7. n # 0 => time_stamp'[hist[p][n]] # Tbd
    BY <1>2, <1>3, <2>1, <2>6, StampsStay, VersionFacts
  <2>8. IsIndirect(l.old) => value'[l.old] = value[l.old]
    BY <1>2, <1>5 DEF Grows, IsIndirect
  <2>9. GetPtr(l.old)' # l.arg
    BY <1>0, <1>5, <2>8 DEF GetPtr, IsIndirect
  <2>10. \/ v'[p] = l.old /\ pc[u] = "store_cam"
         \/ use.build = "hybrid" /\ IsIndirect(l.old) /\ v'[p] = value'[l.old]
    <3>1. IsIndirect(l.old) => ~IsIndirect(value[l.old])
      BY <1>2, Constants DEF HeapTypes, IsIndirect, Values
    <3>2. n # n + 1
      BY <1>4
    <3> QED
      BY <1>2, <1>3, <2>1, <2>8, <3>1, <3>2, PtrStep
  <2>11. StoreBefore(u)'
    BY <1>0, <1>3, <1>4, <2>1, <2>3, <2>5, <2>7, <2>10
       DEF StoreBefore, Shows, ShowsNext, GetPtr, IsIndirect
  <2> QED
    BY <1>0, <1>6, <1>7, <1>9, <2>4, <2>9, <2>11 DEF StoreOf
<1>8. CASE ~StorePending(u)
  <2>1. pc[u] \notin {"store_cam", "store_recam"} /\ n # 0 /\ l.version = n
        /\ l.new = hist[p][n]
    BY <1>1, <1>2, <1>8 DEF StoreOf, StoreDone
  <2>2. n \in 1 .. n
    BY <1>4, <2>1
  <2>3. InHist(l.new)
    BY <1>2, <1>3, <2>1, <2>2, VersionFacts
  <2>4. GetPtr(l.new)' = l.arg
    BY <1>0, <1>2, <1>5, <2>3 DEF GetPtr, IsIndirect, Grows
  <2>5. IsIndirect(l.old) => value'[l.old] = value[l.old]
    BY <1>2, <1>5 DEF Grows, IsIndirect
  <2>6. GetPtr(l.old)' # l.arg
    BY <1>0, <1>5, <2>5 DEF GetPtr, IsIndirect
  <2>7. StoreDone(u)'
    BY <1>0, <1>3, <2>1 DEF StoreDone
  <2> QED
    BY <1>0, <1>6, <1>8, <1>9, <2>4, <2>6, <2>7 DEF StoreOf
<1> QED
  BY <1>7, <1>8

\* What a snapshot may contain stays between the same stamps.
LEMMA WindowGoesOn ==
  ASSUME IInv, HeapStep, Stampers, NEW u \in Threads, SnapGoesOn(u)
  PROVE  WindowOf(u)'
<1> DEFINE ls == local_stamp[u]
<1>0. /\ pc'[u] = "advance" <=> pc[u] = "advance"
      /\ local_stamp'[u] = ls /\ window'[u] = window[u]
  BY DEF SnapGoesOn, SnapStays
<1>1. Grows /\ HeapTypes /\ HeapTypes' /\ ClockInv /\ WindowOf(u) /\ ClockOf(u)
  BY StepFacts, ThreadFacts DEF ThreadInv
<1>2. SUFFICES ASSUME ls # NoStamp PROVE WindowOf(u)'
  BY <1>0 DEF WindowOf
<1>3. ls \in Nat /\ stamp \in Nat /\ stamp < Tbd /\ ls <= stamp
      /\ (pc[u] # "advance" => ls < stamp)
  <2>1. ls \in Nat \cup {NoStamp}
    BY DEF IInv, Types
  <2>2. ls <= stamp /\ (pc[u] # "advance" => ls < stamp)
    BY <1>1, <1>2 DEF ClockOf
  <2> QED
    BY <1>1, <1>2, <2>1, <2>2, BelowTbd
<1>4. ASSUME NEW p \in Ptrs
      PROVE  LET w == window[u][p] IN
             /\ w[1] <= Len(hist'[p]) /\ (w[1] # 0 => time_stamp'[hist'[p][w[1]]] <= ls)
             /\ pc[u] # "advance" => w[2] <= Len(hist'[p]) /\ AboveNext(p, w[2], ls)
  <2> DEFINE w == window[u][p]
             n == Len(hist[p])
  <2>1. w \in Nat \X Nat
    BY DEF IInv, Types
  <2>2. w[1] \in Nat /\ w[2] \in Nat
    BY <2>1
  <2> HIDE DEF w
  <2>3. n \in Nat /\ Len(hist'[p]) \in Nat /\ n <= Len(hist'[p])
    BY <1>1 DEF Grows, HeapTypes
  <2>4. /\ w[1] <= n /\ (w[1] # 0 => time_stamp[hist[p][w[1]]] <= ls)
        /\ pc[u] # "advance" => w[2] <= n /\ Above(p, w[2], ls)
    BY <1>1, <1>2 DEF WindowOf, w
  <2>5. pc[u] # "advance" => AboveNext(p, w[2], ls)
    BY <1>3, <2>2, <2>4, AboveStays
  <2>6. ASSUME w[1] # 0 PROVE time_stamp'[hist'[p][w[1]]] <= ls
    <3>1. w[1] \in 1 .. n
      BY <2>2, <2>3, <2>4, <2>6
    <3>2. hist'[p][w[1]] = hist[p][w[1]] /\ hist[p][w[1]] \in Objects
      BY <1>1, <3>1, VersionFacts DEF Grows
    <3>3. time_stamp[hist[p][w[1]]] # Tbd
      BY <1>1, <1>3, <2>4, <2>6, <3>2, BelowTbd
    <3>4. time_stamp'[hist[p][w[1]]] = time_stamp[hist[p][w[1]]]
      BY <1>1, <3>2, <3>3, StampsStay
    <3> QED
      BY <2>4, <2>6, <3>2, <3>4
  <2> QED
    BY <2>2, <2>3, <2>4, <2>5, <2>6 DEF w
<1> QED
  BY <1>0, <1>2, <1>4 DEF WindowOf, Above, After, AboveNext

\* A snapshot on its way down a chain stays above the version it reads.
LEMMA ChaseGoesOn ==
  ASSUME IInv, HeapStep, Stampers, NEW u \in Threads, loc[u].op = "snapshot", SameCall(u),
         loc'[u].cur = loc[u].cur, local_stamp'[u] = local_stamp[u]
  PROVE  ChaseAt(u)'
<1> DEFINE l == loc[u]
           p == l.p
           ls == local_stamp[u]
<1>0. loc'[u].p = p /\ loc'[u].cur = l.cur /\ local_stamp'[u] = ls
  BY DEF SameCall
<1>1. Grows /\ HeapTypes /\ HeapTypes' /\ ClockInv /\ HistInv /\ ChaseOf(u) /\ ClockOf(u)
  BY StepFacts, ThreadFacts DEF ThreadInv, HeapInv
<1>3. p \in Ptrs /\ l.cur \in Refs /\ Len(hist[p]) \in Nat
  BY ThreadFacts, LocalsFields DEF IInv, Types
<1>4. ls \in Nat /\ ls < stamp
  <2>1. ls \in Nat \cup {NoStamp}
    BY DEF IInv, Types
  <2>2. Control(u)
    BY ThreadFacts
  <2>3. ls # NoStamp /\ pc[u] # "advance"
    BY <2>2 DEF Control, Stamping
  <2> QED
    BY <1>1, <2>1, <2>3 DEF ClockOf
<1>5. PICK j \in 0 .. Len(hist[p]) : Shows(p, j, l.cur) /\ Above(p, j, ls)
  BY <1>1 DEF ChaseOf, ChaseAt
<1>6. ShowsNext(p, j, l.cur)
  BY <1>1, <1>3, <1>5, ShowsStays
<1>7. AboveNext(p, j, ls)
  BY <1>3, <1>4, <1>5, AboveStays
<1>8. j \in 0 .. Len(hist'[p])
  BY <1>1, <1>3, <1>5 DEF Grows
<1>9. Shows(l.p, j, l.cur)'
  BY <1>0, <1>6 DEF Shows, ShowsNext, GetPtr, IsIndirect
<1>10. Above(l.p, j, local_stamp[u])'
  BY <1>0, <1>7 DEF Above, After, AboveNext
<1> QED
  BY <1>0, <1>8, <1>9, <1>10 DEF ChaseAt

\* The snapshot of a thread that does not move.
LEMMA ChaseOther ==
  ASSUME IInv, HeapStep, Stampers, NEW u \in Threads, Bystander(u)
  PROVE  ChaseOf(u)'
<1>1. /\ pc'[u] = pc[u] /\ loc'[u] = loc[u] /\ local_stamp'[u] = local_stamp[u]
  BY DEF Bystander
<1>2. Grows /\ ChaseOf(u) /\ loc[u].cur \in Refs
  BY StepFacts, ThreadFacts, LocalsFields DEF ThreadInv
<1>3. SUFFICES ASSUME loc[u].op = "snapshot" PROVE ChaseOf(u)'
  BY <1>1 DEF ChaseOf
<1>4. ChaseAt(u)'
  BY <1>1, <1>3, ChaseGoesOn DEF SameCall
<1>5. pc[u] = "chase" => Stamped(loc[u].cur)'
  BY <1>1, <1>2, <1>3, StampsStay DEF ChaseOf, Stamped, Refs
<1> QED
  BY <1>1, <1>4, <1>5 DEF ChaseOf

\* What a snapshot has read of p is the value of the version it consists of.
ReadNext(u, p, val) ==
  \E j \in 0 .. Len(hist'[p]) :
    /\ j # 0 => time_stamp'[hist'[p][j]] <= local_stamp[u]
    /\ AboveNext(p, j, local_stamp[u]) /\ val = ValueNext(p, j)

\* The version that a snapshot reads stays the one it should read.
LEMMA ReadFound ==
  ASSUME IInv, HeapStep, Stampers, NEW u \in Threads, local_stamp[u] # NoStamp,
         pc[u] # "advance", NEW p \in Ptrs, NEW j \in 0 .. Len(hist[p]),
         j # 0 => time_stamp[hist[p][j]] <= local_stamp[u], Above(p, j, local_stamp[u])
  PROVE  ReadNext(u, p, VersionValue(p, j))
<1> DEFINE ls == local_stamp[u]
<1>1. Grows /\ HeapTypes /\ HeapTypes' /\ ClockInv /\ ClockOf(u)
  BY StepFacts, ThreadFacts DEF ThreadInv
<1>2. Len(hist[p]) \in Nat
  BY <1>1 DEF HeapTypes
<1>3. ls \in Nat /\ ls < stamp /\ stamp \in Nat /\ stamp < Tbd
  <2>1. ls \in Nat \cup {NoStamp}
    BY DEF IInv, Types
  <2> QED
    BY <1>1, <2>1, BelowTbd DEF ClockOf
<1>4. AboveNext(p, j, ls) /\ ValueNext(p, j) = VersionValue(p, j)
  BY <1>1, <1>2, <1>3, AboveStays, ValueStays
<1>5. j \in 0 .. Len(hist'[p])
  BY <1>1, <1>2 DEF Grows
<1>6. ASSUME j # 0 PROVE time_stamp'[hist'[p][j]] <= ls
  <2>1. j \in 1 .. Len(hist[p])
    BY <1>6
  <2>2. hist'[p][j] = hist[p][j] /\ hist[p][j] \in Objects
    BY <1>1, <2>1, VersionFacts DEF Grows
  <2>3. time_stamp[hist[p][j]] # Tbd
    BY <1>1, <1>3, <1>6, <2>2, BelowTbd
  <2>4. time_stamp'[hist[p][j]] = time_stamp[hist[p][j]]
    BY <1>1, <2>2, <2>3, StampsStay
  <2> QED
    BY <1>6, <2>2, <2>4
<1> QED
  BY <1>4, <1>5, <1>6 DEF ReadNext

\* What a snapshot has read stays the value it should read.
LEMMA ReadStays ==
  ASSUME IInv, HeapStep, Stampers, NEW u \in Threads, NEW p \in Ptrs, snap[u][p] # Unread
  PROVE  /\ local_stamp[u] # NoStamp /\ pc[u] # "advance"
         /\ ReadNext(u, p, snap[u][p])
<1>1. SnapOf(u)
  BY ThreadFacts DEF ThreadInv
<1>2. local_stamp[u] # NoStamp /\ pc[u] # "advance"
  BY <1>1 DEF SnapOf
<1>3. PICK j \in 0 .. Len(hist[p]) :
        /\ j # 0 => time_stamp[hist[p][j]] <= local_stamp[u]
        /\ Above(p, j, local_stamp[u]) /\ snap[u][p] = VersionValue(p, j)
  BY <1>1 DEF SnapOf
<1> QED
  BY <1>2, <1>3, ReadFound

\* ReadNext is what SnapOf asks for after the step.
LEMMA ReadSet ==
  ASSUME NEW u \in Threads, local_stamp'[u] = local_stamp[u],
         \A p \in Ptrs : snap'[u][p] # Unread =>
           /\ local_stamp[u] # NoStamp /\ pc'[u] # "advance"
           /\ ReadNext(u, p, snap'[u][p])
  PROVE  SnapOf(u)'
<1> DEFINE ls == local_stamp[u]
<1>1. ASSUME NEW p \in Ptrs, NEW j, AboveNext(p, j, ls)
      PROVE  Above(p, j, local_stamp[u])'
  BY <1>1 DEF Above, After, AboveNext
<1>2. \A p \in Ptrs : \A j : VersionValue(p, j)' = ValueNext(p, j)
  BY DEF VersionValue, ValueNext, GetPtr, IsIndirect
<1> QED
  BY <1>1, <1>2 DEF SnapOf, ReadNext

\* What a snapshot that goes on has read stays right.
LEMMA ReadGoesOn ==
  ASSUME IInv, HeapStep, Stampers, NEW u \in Threads, SnapGoesOn(u)
  PROVE  SnapOf(u)'
<1>1. /\ pc'[u] = "advance" <=> pc[u] = "advance"
      /\ snap'[u] = snap[u] /\ local_stamp'[u] = local_stamp[u]
  BY DEF SnapGoesOn, SnapStays
<1>2. \A p \in Ptrs : snap[u][p] # Unread =>
        /\ local_stamp[u] # NoStamp /\ pc[u] # "advance"
        /\ ReadNext(u, p, snap[u][p])
  BY ReadStays
<1> QED
  BY <1>1, <1>2, ReadSet

\* A thread that takes no part in a step keeps its invariant.
LEMMA BystanderKept ==
  ASSUME IInv, HeapStep, Stampers, Ticks, NEW u \in Threads, Bystander(u)
  PROVE  ThreadInv(u)'
BY ClockOther, PendingOther, CurOther, CasOther, StoreOther, FreshOther, PreparedOther,
   BystanderSnap, WindowGoesOn, ChaseOther, ReadGoesOn DEF ThreadInv

\* What a thread may write, install and take as an argument.
Own(t, x) == (Prepared(t) /\ x = loc[t].new) \/ x \in Links \ links \/ Fresh(t, x)
Mine(t) ==
  /\ Others(t)
  /\ \A y \in Objects :
       next_version'[y] = next_version[y] \/ y \in Links \ links \/ Fresh(t, y)
  /\ \A y \in links : value'[y] = value[y]
  /\ \A y \in links : ~InHist(y) /\ (Prepared(t) => y # loc[t].new) =>
       y \in links' /\ retires'[y] = retires[y]
  /\ \/ hist' = hist
     \/ \E p \in Ptrs, x \in Objects :
          /\ Installs(p, x) /\ Own(t, x)
          /\ (loc[t].op = "store" /\ p = loc[t].p) \/ p \in use.cassed
  /\ Prepared(t)' => Own(t, loc'[t].new)
  /\ \/ loc'[t].arg \in {loc[t].arg, Null}
     \/ UseIndirect(loc'[t].arg) \/ Fresh(t, loc'[t].arg)

\* A store keeps the others out of its pointer.
LEMMA StoreExcludes ==
  ASSUME IInv, NEW t \in Threads, Mine(t), NEW u \in Threads, u # t, loc[u].op = "store"
  PROVE  hist'[loc[u].p] = hist[loc[u].p]
<1>1. loc[u].p \in use.stored /\ loc[u].p \in Ptrs /\ use.stored \cap use.cassed = {}
  BY ThreadFacts, UseFacts DEF Control, IInv, Types
<1>2. CASE hist' = hist
  BY <1>2
<1>3. ASSUME NEW p \in Ptrs, NEW x \in Objects, Installs(p, x),
             (loc[t].op = "store" /\ p = loc[t].p) \/ p \in use.cassed
      PROVE  hist'[loc[u].p] = hist[loc[u].p]
  <2>1. p # loc[u].p
    BY <1>1, <1>3 DEF IInv, LockInv
  <2> QED
    BY <1>1, <1>3, <2>1, InstallsHist, HeapTypesHold DEF IInv
<1> QED
  BY <1>2, <1>3 DEF Mine

\* No step of t makes a version for another call.
LEMMA PreparedBefore ==
  ASSUME IInv, NEW t \in Threads, Mine(t), NEW u \in Threads, u # t, Prepared(u)'
  PROVE  Prepared(u) /\ loc'[u] = loc[u]
<1>1. pc'[u] = pc[u] /\ loc'[u] = loc[u]
  BY DEF Mine, Others
<1>2. loc[u].op = "store" => hist'[loc[u].p] = hist[loc[u].p]
  BY StoreExcludes
<1> QED
  BY <1>1, <1>2 DEF Prepared, StorePending

\* Every other thread is a bystander of the step of t.
LEMMA Bystanders ==
  ASSUME IInv, NEW t \in Threads, Mine(t), NEW u \in Threads, u # t, SnapStays(u)
  PROVE  Bystander(u)
<1> DEFINE l == loc[u]
           x == l.new
<1>1. pc'[u] = pc[u] /\ loc'[u] = loc[u]
  BY DEF Mine, Others
<1>2. HeapTypes /\ PreparedOf(u) /\ FreshOf(u) /\ l \in Locals
  BY HeapTypesHold, ThreadFacts DEF IInv, ThreadInv
<1>3. ASSUME Prepared(u)
      PROVE  /\ x \in Objects
             /\ IsIndirect(x) => /\ x \in links /\ ~InHist(x)
                                 /\ \A w \in Threads \ {u} : Prepared(w) => loc[w].new # x
             /\ ~IsIndirect(x) => x = l.arg /\ Fresh(u, x)
  BY <1>2, <1>3, PreparedNew DEF PreparedOf
<1>4. ASSUME Prepared(u) PROVE next_version'[x] = next_version[x]
  <2>1. ~(x \in Links \ links) /\ ~Fresh(t, x)
    BY <1>3, <1>4, Constants DEF IsIndirect, Fresh
  <2> QED
    BY <1>3, <1>4, <2>1 DEF Mine
<1>5. ASSUME Prepared(u), IsIndirect(x)
      PROVE  /\ value'[x] = value[x] /\ retires'[x] = retires[x] /\ x \in links'
             /\ ~InHist(x)'
             /\ \A w \in Threads \ {u} : Prepared(w)' => loc'[w].new # x
  <2>1. x \in links /\ ~InHist(x) /\ (Prepared(t) => loc[t].new # x)
    BY <1>3, <1>5
  <2>2. x \in links' /\ retires'[x] = retires[x] /\ value'[x] = value[x]
    BY <2>1 DEF Mine
  <2>3. ~Own(t, x)
    BY <1>5, <2>1, Constants DEF Own, Fresh, IsIndirect
  <2>4. ASSUME NEW q \in Ptrs, NEW k \in 1 .. Len(hist'[q]) PROVE hist'[q][k] # x
    <3>1. CASE hist' = hist
      BY <2>1, <3>1 DEF InHist
    <3>2. ASSUME NEW p \in Ptrs, NEW y \in Objects, Installs(p, y), Own(t, y)
          PROVE  hist'[q][k] # x
      BY <1>2, <2>1, <2>3, <3>2, InstallCases DEF InHist
    <3> QED
      BY <3>1, <3>2 DEF Mine
  <2>5. ~InHist(x)'
    BY <1>1, <2>4 DEF InHist
  <2>6. ASSUME NEW w \in Threads \ {u}, Prepared(w)' PROVE loc'[w].new # x
    <3>1. CASE w = t
      BY <2>3, <2>6, <3>1 DEF Mine
    <3>2. CASE w # t
      BY <1>3, <1>5, <2>6, <3>2, PreparedBefore
    <3> QED
      BY <3>1, <3>2
  <2> QED
    BY <2>2, <2>5, <2>6
<1>6. l.op = "store" => hist'[l.p] = hist[l.p]
  BY StoreExcludes
<1>7. ASSUME BeforeTry(u) \/ Prepared(u), ~UseIndirect(l.arg) PROVE Fresh(u, l.arg)'
  <2> DEFINE a == l.arg
  <2>1. Fresh(u, a)
    BY <1>2, <1>7 DEF FreshOf
  <2>2. a \in Nodes /\ a # Null /\ a \notin Links
    BY <2>1, Constants DEF Fresh
  <2>3. ~Fresh(t, a)
    BY DEF Fresh
  <2>4. ASSUME NEW w \in Threads \ {u} PROVE loc'[w].arg # a
    <3>1. loc[w].arg # a
      BY <2>1 DEF Fresh
    <3>2. CASE w = t
      BY <1>7, <2>2, <2>3, <3>1, <3>2 DEF Mine
    <3>3. CASE w # t
      BY <3>1, <3>3 DEF Mine, Others
    <3> QED
      BY <3>2, <3>3
  <2>5. ~Own(t, a)
    <3>1. Prepared(t) => loc[t].new # a
      <4>1. SUFFICES ASSUME Prepared(t) PROVE loc[t].new # a
        OBVIOUS
      <4>2. GetPtr(loc[t].new) = loc[t].arg
        BY <4>1, PreparedNew
      <4>3. loc[t].arg # a
        BY <2>1 DEF Fresh
      <4> QED
        BY <2>2, <4>2, <4>3 DEF GetPtr, IsIndirect
    <3> QED
      BY <2>2, <2>3, <3>1 DEF Own
  <2>6. ASSUME NEW q \in Ptrs, NEW k \in 1 .. Len(hist'[q]) PROVE hist'[q][k] # a
    <3>0. \A r \in Ptrs : \A i \in 1 .. Len(hist[r]) : hist[r][i] # a
      BY <1>2, <2>1 DEF Fresh, HeapTypes
    <3>1. CASE hist' = hist
      BY <3>0, <3>1
    <3>2. ASSUME NEW p \in Ptrs, NEW y \in Objects, Installs(p, y), Own(t, y)
          PROVE  hist'[q][k] # a
      BY <1>2, <2>5, <3>0, <3>2, InstallCases
    <3> QED
      BY <3>1, <3>2 DEF Mine
  <2>7. \A q \in Ptrs : DOMAIN (hist'[q]) = 1 .. Len(hist'[q])
    <3>1. CASE hist' = hist
      BY <1>2, <3>1 DEF HeapTypes
    <3>2. ASSUME NEW p \in Ptrs, NEW y \in Objects, Installs(p, y) PROVE <2>7!:
      <4>1. hist' \in [Ptrs -> Seq(Objects)]
        BY <1>2, <3>2, InstallsHist
      <4> QED
        BY <4>1
    <3> QED
      BY <3>1, <3>2 DEF Mine
  <2> QED
    BY <1>1, <2>2, <2>4, <2>6, <2>7 DEF Fresh
<1>8. SnapStays(u)
  OBVIOUS
<1> QED
  BY <1>1, <1>4, <1>5, <1>6, <1>7, <1>8 DEF Bystander, SnapStays

(***************************************************************************)
(* The step of t, for the others.                                          *)
(***************************************************************************)
Fine(t) == HeapStep /\ Stampers /\ Ticks /\ Mine(t)

\* A step that does not load the clock for set_stamp.
LEMMA StampersHold ==
  ASSUME NEW t \in Threads, Others(t), pc'[t] # "stamp_cas"
  PROVE  Stampers
BY DEF Others, Stampers

\* A step that leaves the clock alone.
LEMMA TicksHold ==
  ASSUME IInv, SameClock
  PROVE  Ticks
<1>1. stamp \in Nat
  BY LocalTypes DEF IInv
<1>2. \A u \in Threads : ClockOf(u)
  BY ThreadFacts DEF ThreadInv
<1> QED
  BY <1>1, <1>2 DEF Ticks, SameClock, ClockOf

\* A step that leaves the heap alone.
LEMMA StaysHeap ==
  ASSUME IInv, SameHeap, SameClock, links' = links
  PROVE  HeapStep
<1>1. done_stamp \in Nat /\ done_stamp <= done_stamp
  BY RefTypes DEF IInv
<1> QED
  BY <1>1 DEF HeapStep, HeapStays, SameClock

\* t has made no version, or has still the one that it had.
KeepsNew(t) == Prepared(t)' => Prepared(t) /\ loc'[t].new = loc[t].new
KeepsArg(t) == loc'[t].arg \in {loc[t].arg, Null}
                 \/ UseIndirect(loc'[t].arg) \/ Fresh(t, loc'[t].arg)

\* A step that changes nothing but its own thread.
LEMMA QuietFine ==
  ASSUME IInv, NEW t \in Threads, Others(t), SameHeap, SameClock, links' = links,
         \A y \in links : ~InHist(y) => retires'[y] = retires[y],
         pc'[t] # "stamp_cas", KeepsNew(t), KeepsArg(t)
  PROVE  Fine(t)
<1>1. HeapStep /\ Stampers /\ Ticks
  BY StaysHeap, StampersHold, TicksHold
<1>2. Mine(t)
  BY DEF Mine, Own, SameHeap, KeepsNew, KeepsArg
<1> QED
  BY <1>1, <1>2 DEF Fine

\* A call that goes on keeps its argument and its version.
LEMMA GoesOn ==
  ASSUME NEW t \in Threads, SameCall(t), SameVersions(t), hist' = hist,
         pc'[t] \notin {"cas_retry", "cas_fail"}
  PROVE  KeepsNew(t) /\ KeepsArg(t)
BY DEF KeepsNew, KeepsArg, SameCall, SameVersions, Prepared, StorePending

\* StampFetch, for the others: set_stamp looks at the stamp and loads the
\* clock.
LEMMA StampFetchFine ==
  ASSUME IInv, NEW t \in Threads, StampFetch(t)
  PROVE  Fine(t)
<1>1. /\ Others(t) /\ SameCall(t) /\ SameVersions(t) /\ pc[t] = "stamp"
      /\ loc'[t].cur = loc[t].cur
      /\ \/ pc'[t] = loc[t].cont
         \/ pc'[t] = "stamp_cas" /\ loc'[t].t = stamp
      /\ SameHeap /\ SameClock /\ SameLinks
  BY StampFetchEffect DEF IInv
<1>2. loc[t].cont \in {"return", "shortcut", "cas_try", "retire", "chase"}
  BY ThreadFacts, LocalsFields
<1>3. KeepsNew(t) /\ KeepsArg(t)
  BY <1>1, <1>2, GoesOn DEF SameHeap
<1>4. HeapStep /\ Ticks
  BY <1>1, StaysHeap, TicksHold DEF SameLinks
<1>5. Stampers
  BY <1>1, <1>2 DEF Stampers, Others
<1>6. Mine(t)
  BY <1>1, <1>3 DEF Mine, Own, SameHeap, SameLinks, KeepsNew, KeepsArg
<1> QED
  BY <1>4, <1>5, <1>6 DEF Fine

\* StampCas, for the others: set_stamp sets the stamp, unless somebody else
\* has.
LEMMA StampCasFine ==
  ASSUME IInv, NEW t \in Threads, StampCas(t)
  PROVE  Fine(t)
<1> DEFINE x == loc[t].cur
<1>1. /\ Others(t) /\ SameCall(t) /\ SameVersions(t)
      /\ pc[t] = "stamp_cas" /\ pc'[t] = loc[t].cont
      /\ time_stamp' = IF time_stamp[x] = Tbd THEN [time_stamp EXCEPT ![x] = loc[t].t]
                       ELSE time_stamp
      /\ use' = use /\ v' = v /\ next_version' = next_version /\ value' = value
      /\ hist' = hist /\ SameClock /\ SameLinks
  BY StampCasEffect DEF IInv
<1>2. /\ loc[t].cont \in {"return", "shortcut", "cas_try", "retire", "chase"}
      /\ loc[t].t \in Nat /\ loc[t].cur \in Refs
  BY ThreadFacts, LocalsFields
<1>3. KeepsNew(t) /\ KeepsArg(t)
  BY <1>1, <1>2, GoesOn
<1>4. Ticks /\ Stampers
  BY <1>1, <1>2, TicksHold, StampersHold
<1>5. Mine(t)
  BY <1>1, <1>3 DEF Mine, Own, SameLinks, KeepsNew, KeepsArg
<1>6. CASE time_stamp[x] # Tbd
  <2>1. SameHeap
    BY <1>1, <1>6 DEF SameHeap
  <2> QED
    BY <1>1, <1>4, <1>5, <2>1, StaysHeap DEF SameLinks, Fine
<1>7. CASE time_stamp[x] = Tbd
  <2>1. x # Null /\ loc[t].t <= stamp /\ PendingOf(t)
    BY <1>1, ThreadFacts DEF ThreadInv, ClockOf
  <2>2. x \in Objects /\ InHist(x)
    BY <1>1, <1>7, <2>1, StampingInHist DEF Stamping, Stamped
  <2>3. HeapStamp(x, loc[t].t)
    BY <1>1, <1>7, <2>1, <2>2 DEF HeapStamp, PendingOf, SameClock, SameLinks
  <2>4. HeapStep
    BY <1>2, <2>2, <2>3 DEF HeapStep
  <2> QED
    BY <1>4, <1>5, <2>4 DEF Fine
<1> QED
  BY <1>6, <1>7

\* Shortcut, for the others: shortcut cuts the link at hand out and retires
\* it, or does nothing.
LEMMA ShortcutFine ==
  ASSUME IInv, NEW t \in Threads, Shortcut(t)
  PROVE  Fine(t)
<1> DEFINE l == loc[t]
<1>1. /\ Others(t) /\ loc' = loc /\ pc[t] = "shortcut" /\ pc'[t] = "return"
      /\ \/ v' = v /\ retires' = retires
         \/ /\ use.build = "hybrid" /\ IsIndirect(l.cur) /\ v[l.p] = l.cur
            /\ time_stamp[l.cur] <= done_stamp
            /\ v' = [v EXCEPT ![l.p] = value[l.cur]]
            /\ retires' = [retires EXCEPT ![l.cur] = @ + 1]
      /\ use' = use /\ time_stamp' = time_stamp /\ next_version' = next_version
      /\ value' = value /\ hist' = hist
      /\ SameClock /\ links' = links
  BY ShortcutEffect DEF IInv
<1>2. l.p \in Ptrs /\ l.op # "none"
  BY <1>1, ThreadFacts DEF Control
<1>3. KeepsNew(t) /\ KeepsArg(t)
  BY <1>1 DEF KeepsNew, KeepsArg, Prepared, StorePending
<1>4. CASE v' = v /\ retires' = retires
  BY <1>1, <1>3, <1>4, QuietFine DEF SameHeap
<1>5. CASE ~(v' = v /\ retires' = retires)
  <2>1. HeapCut(l.p)
    BY <1>1, <1>5 DEF HeapCut, SameClock
  <2>2. HeapStep
    BY <1>2, <2>1 DEF HeapStep
  <2>3. Ticks /\ Stampers
    BY <1>1, TicksHold, StampersHold
  <2>4. InHist(l.cur)
    <3>1. l.cur = hist[l.p][Len(hist[l.p])] /\ Len(hist[l.p]) # 0 /\ Len(hist[l.p]) \in Nat
      BY <1>1, <1>2, <1>5, CurrentShows, RefTypes DEF IInv
    <3> QED
      BY <1>2, <3>1 DEF InHist
  <2>5. \A y \in links : ~InHist(y) => retires'[y] = retires[y]
    BY <1>1, <2>4 DEF IInv, Types
  <2>6. Mine(t)
    BY <1>1, <1>3, <2>5 DEF Mine, Own, KeepsNew, KeepsArg
  <2> QED
    BY <2>2, <2>3, <2>6 DEF Fine
<1> QED
  BY <1>4, <1>5

\* Only links that are versions are retired.
LEMMA RetiredOld ==
  ASSUME IInv, NEW x, Retired(x), IsIndirect(x) => InHist(x)
  PROVE  \A y \in links : ~InHist(y) => retires'[y] = retires[y]
BY DEF IInv, Types, Retired

\* RetireOld, for the others: the update retires the version that it
\* replaced.
LEMMA RetireOldFine ==
  ASSUME IInv, NEW t \in Threads, RetireOld(t)
  PROVE  Fine(t)
<1>1. /\ Others(t) /\ loc' = loc /\ pc[t] = "retire" /\ pc'[t] \in {"shortcut", "return"}
      /\ Retired(loc[t].old) /\ SameHeap /\ SameClock /\ links' = links
  BY RetireOldEffect DEF IInv
<1>2. KeepsNew(t) /\ KeepsArg(t)
  BY <1>1 DEF KeepsNew, KeepsArg, Prepared, StorePending, SameHeap
<1>3. IsIndirect(loc[t].old) => InHist(loc[t].old)
  BY <1>1 DEF IInv, RetireInv, Owes
<1>4. \A y \in links : ~InHist(y) => retires'[y] = retires[y]
  BY <1>1, <1>3, RetiredOld
<1> QED
  BY <1>1, <1>2, <1>4, QuietFine

\* Return, for the others: the call ends.
LEMMA ReturnFine ==
  ASSUME IInv, NEW t \in Threads, Return(t)
  PROVE  Fine(t)
<1>1. /\ Others(t) /\ loc'[t] = NoLocals /\ pc'[t] = "idle"
      /\ SameHeap /\ SameClock /\ SameLinks
  BY ReturnEffect DEF IInv
<1>2. KeepsNew(t) /\ KeepsArg(t)
  BY <1>1, NoLocalsFields DEF KeepsNew, KeepsArg, Prepared, StorePending
<1> QED
  BY <1>1, <1>2, QuietFine DEF SameLinks

\* Load, for the others: load, validate or read begins.
LEMMA LoadFine ==
  ASSUME IInv, NEW t \in Threads, NEW p \in Used, NEW o \in use.ops, Load(t, p, o)
  PROVE  Fine(t)
<1>0. Types
  BY DEF IInv
<1>1. /\ Others(t) /\ loc'[t].op = o /\ loc'[t].arg = Null
      /\ o \in {"load", "validate", "read"} /\ pc'[t] \in {"stamp", "shortcut"}
      /\ SameHeap /\ SameClock /\ SameLinks
  BY <1>0, LoadEffect DEF SetsStamp
<1>2. KeepsNew(t) /\ KeepsArg(t)
  BY <1>1 DEF KeepsNew, KeepsArg, Prepared, StorePending
<1> QED
  BY <1>1, <1>2, QuietFine DEF SameLinks

\* Cas, for the others: cas begins: it looks at the newest version and
\* decides.
LEMMA CasFine ==
  ASSUME IInv, NEW t \in Threads, NEW p \in use.cassed, NEW e \in use.nodes \cup {Null},
         NEW x \in use.nodes \cup {Null}, Cas(t, p, e, x)
  PROVE  Fine(t)
<1>0. /\ Others(t) /\ loc'[t].op = "cas" /\ loc'[t].arg = x
      /\ SetsStamp(t, v[p], "return") \/ SetsStamp(t, v[p], "cas_try")
      /\ UseIndirect(x) \/ Fresh(t, x)
      /\ SameHeap /\ SameClock /\ SameLinks
  BY CasEffect
<1>1. /\ Others(t) /\ loc'[t].op = "cas" /\ loc'[t].arg = x /\ pc'[t] = "stamp"
      /\ UseIndirect(x) \/ Fresh(t, x)
      /\ SameHeap /\ SameClock /\ SameLinks
  BY <1>0 DEF SetsStamp
<1>2. KeepsNew(t) /\ KeepsArg(t)
  BY <1>1 DEF KeepsNew, KeepsArg, Prepared, StorePending
<1> QED
  BY <1>1, <1>2, QuietFine DEF SameLinks

\* ReadSnapshot, for the others: read_snapshot begins.
LEMMA ReadSnapshotFine ==
  ASSUME IInv, NEW t \in Threads, NEW p \in Used, ReadSnapshot(t, p)
  PROVE  Fine(t)
<1>1. /\ Others(t) /\ loc'[t].op = "snapshot" /\ loc'[t].arg = Null /\ pc'[t] = "stamp"
      /\ SameHeap /\ SameClock /\ SameLinks
  BY ReadSnapshotEffect DEF SetsStamp, IInv
<1>2. KeepsNew(t) /\ KeepsArg(t)
  BY <1>1 DEF KeepsNew, KeepsArg, Prepared, StorePending
<1> QED
  BY <1>1, <1>2, QuietFine DEF SameLinks

\* Chase, for the others: read_snapshot goes one version down, or has found
\* the one it reads.
LEMMA ChaseFine ==
  ASSUME IInv, NEW t \in Threads, Chase(t)
  PROVE  Fine(t)
<1>1. /\ Others(t) /\ pc'[t] \in {"idle", "chase"} /\ loc[t].op = "snapshot"
      /\ SameCall(t) \/ loc'[t] = NoLocals
      /\ SameHeap /\ SameClock /\ SameLinks
  BY ChaseEffect DEF IInv
<1>2. KeepsNew(t) /\ KeepsArg(t)
  BY <1>1, NoLocalsFields DEF KeepsNew, KeepsArg, Prepared, StorePending, SameCall
<1> QED
  BY <1>1, <1>2, QuietFine DEF SameLinks

\* StoreCheck, for the others: store finds out whether its cam lost.
LEMMA StoreCheckFine ==
  ASSUME IInv, NEW t \in Threads, StoreCheck(t)
  PROVE  Fine(t)
<1>1. /\ Others(t) /\ SameCall(t) /\ SameVersions(t) /\ pc[t] = "store_check"
      /\ pc'[t] \in {"store_recam", "stamp"}
      /\ retires' = retires \/ Retired(loc[t].old)
      /\ SameHeap /\ SameClock /\ links' = links
  BY StoreCheckEffect DEF SetsStamp
<1>2. KeepsNew(t) /\ KeepsArg(t)
  BY <1>1, GoesOn DEF SameHeap
<1>3. IsIndirect(loc[t].old) => InHist(loc[t].old)
  BY <1>1, ThreadFacts DEF Control, ThreadInv, StoreOf
<1>4. \A y \in links : ~InHist(y) => retires'[y] = retires[y]
  BY <1>1, <1>3, RetiredOld
<1> QED
  BY <1>1, <1>2, <1>4, QuietFine

\* CasFail, for the others: cas gives its link back and stamps what it lost
\* to.
LEMMA CasFailFine ==
  ASSUME IInv, NEW t \in Threads, CasFail(t)
  PROVE  Fine(t)
<1>1. /\ Others(t) /\ SameCall(t) /\ pc[t] = "cas_fail" /\ pc'[t] = "stamp"
      /\ links' = links \ {loc[t].new} /\ retires' = retires
      /\ SameHeap /\ SameClock
  BY CasFailEffect DEF SetsStamp
<1>2. loc[t].op = "cas" /\ Prepared(t)
  BY <1>1, ThreadFacts DEF Control, Prepared
<1>3. KeepsNew(t) /\ KeepsArg(t)
  BY <1>1, <1>2 DEF KeepsNew, KeepsArg, Prepared, StorePending, SameCall
<1>4. ~InHist(loc[t].new)
  BY <1>2, PreparedNew
<1>5. done_stamp \in Nat /\ done_stamp <= done_stamp
  BY RefTypes DEF IInv
<1>6. HeapStep
  BY <1>1, <1>4, <1>5 DEF HeapStep, HeapStays, SameClock
<1>7. Mine(t)
  BY <1>1, <1>2, <1>3 DEF Mine, Own, SameHeap, KeepsNew, KeepsArg
<1> QED
  BY <1>1, <1>6, <1>7, StampersHold, TicksHold DEF Fine

\* A version that has just been made.
LEMMA PreparesNew ==
  ASSUME IInv, NEW t \in Threads, NEW new, NEW x \in Values, NEW old \in Refs,
         Prepares(new, x, old), UseIndirect(x) \/ Fresh(t, x),
         use' = use, time_stamp' = time_stamp, done_stamp' = done_stamp
  PROVE  /\ new \in Objects /\ Writes(new) /\ next_version'[new] = old
         /\ IsIndirect(new) => value'[new] = x
         /\ ~IsIndirect(new) => new = x /\ Fresh(t, new)
         /\ new \in Links \ links \/ Fresh(t, new)
         /\ use.build # "indirect" /\ IsIndirect(new) /\ x # Null => time_stamp[x] # Tbd
         /\ \A y \in Objects :
              next_version'[y] = next_version[y] \/ y \in Links \ links \/ Fresh(t, y)
         /\ \A y \in links : value'[y] = value[y]
         /\ links \subseteq links'
<1>1. HeapTypes /\ HistInv
  BY HeapTypesHold DEF IInv, HeapInv
<1>2. /\ next_version' = [next_version EXCEPT ![new] = old]
      /\ IF IsIndirect(new) THEN /\ links' = links \cup {new}
                                 /\ value' = [value EXCEPT ![new] = x]
                            ELSE links' = links /\ value' = value
      /\ new \in Objects
      /\ UseIndirect(x) => IsIndirect(new) /\ new \notin links
      /\ ~UseIndirect(x) => new = x /\ x \in Nodes /\ ~IsIndirect(new)
  BY DEF Prepares
<1>3. next_version \in [Objects -> Refs] /\ value \in [Links -> Values] /\ links \subseteq Links
  BY <1>1 DEF HeapTypes
<1>4. ~InHist(new)
  <2>1. CASE IsIndirect(new)
    BY <1>1, <1>2, <2>1 DEF HistInv, InHist
  <2>2. CASE ~IsIndirect(new)
    <3>1. Fresh(t, new) /\ \A p \in Ptrs : DOMAIN hist[p] = 1 .. Len(hist[p])
      BY <1>1, <1>2, <2>2 DEF HeapTypes
    <3> QED
      BY <3>1 DEF Fresh, InHist
  <2> QED
    BY <2>1, <2>2
<1>5. time_stamp[new] = Tbd
  BY <1>1, <1>2, <1>4 DEF HistInv
<1>6. /\ next_version' \in [Objects -> Refs] /\ value' \in [Links -> Values]
      /\ next_version'[new] = old /\ (IsIndirect(new) => value'[new] = x)
      /\ \A y \in Objects \ {new} : next_version'[y] = next_version[y]
      /\ \A y \in Links \ {new} : value'[y] = value[y]
      /\ links \subseteq links' /\ links' \subseteq Links /\ (IsIndirect(new) => new \in links')
  BY <1>2, <1>3 DEF IsIndirect
<1>7. use.build = "once" => links' = links
  BY <1>2 DEF UseIndirect
<1>8. Writes(new)
  BY <1>4, <1>5, <1>6, <1>7 DEF Writes
<1>9. use.build # "indirect" /\ IsIndirect(new) /\ x # Null => time_stamp[x] # Tbd
  BY <1>2 DEF UseIndirect
<1>10. new \in Links \ links \/ Fresh(t, new)
  BY <1>2 DEF IsIndirect
<1>11. ~IsIndirect(new) => new = x /\ Fresh(t, new)
  BY <1>2
<1>12. \A y \in links : value'[y] = value[y]
  BY <1>2, <1>3, <1>6 DEF IsIndirect
<1> QED
  BY <1>2, <1>6, <1>8, <1>9, <1>10, <1>11, <1>12

\* Store, for the others: store begins: it has the lock and makes its
\* version.
LEMMA StoreFine ==
  ASSUME IInv, NEW t \in Threads, NEW p \in use.stored, NEW x \in use.nodes \cup {Null},
         Store(t, p, x)
  PROVE  Fine(t) /\ HeapNew(loc'[t].new)
<1> DEFINE new == loc'[t].new
<1>1. /\ Others(t) /\ pc'[t] = "store_cam" /\ loc'[t].op = "store" /\ loc'[t].arg = x
      /\ Prepares(new, x, v[p]) /\ (UseIndirect(x) \/ Fresh(t, x))
      /\ p \in Ptrs /\ x \in Values
      /\ use' = use /\ v' = v /\ time_stamp' = time_stamp /\ hist' = hist
      /\ SameClock /\ retires' = retires
  BY StoreEffect
<1>2. v[p] \in Refs /\ done_stamp' = done_stamp
  BY <1>1, RefTypes DEF IInv, SameClock
<1> HIDE DEF new
<1>3. /\ new \in Objects /\ Writes(new)
      /\ new \in Links \ links \/ Fresh(t, new)
      /\ \A y \in Objects :
           next_version'[y] = next_version[y] \/ y \in Links \ links \/ Fresh(t, y)
      /\ \A y \in links : value'[y] = value[y]
      /\ links \subseteq links'
  BY <1>1, <1>2, PreparesNew
<1>4. HeapNew(new)
  BY <1>1, <1>3 DEF HeapNew
<1>5. HeapStep
  BY <1>3, <1>4 DEF HeapStep
<1>6. Mine(t)
  BY <1>1, <1>3 DEF Mine, Own, new
<1> QED
  BY <1>1, <1>4, <1>5, <1>6, StampersHold, TicksHold DEF Fine, new

\* A call installs the version that it has made.
LEMMA InstallPrepared ==
  ASSUME IInv, NEW t \in Threads, Prepared(t), NEW p \in Ptrs,
         Installs(p, loc[t].new),
         use' = use, time_stamp' = time_stamp, next_version' = next_version,
         value' = value, done_stamp' = done_stamp, links' = links,
         Len(hist[p]) # 0 => time_stamp[hist[p][Len(hist[p])]] # Tbd,
         Shows(p, Len(hist[p]), next_version[loc[t].new]),
         loc[t].arg # VersionValue(p, Len(hist[p]))
  PROVE  loc[t].new \in Objects /\ HeapInstall(p, loc[t].new)
<1> DEFINE x == loc[t].new
<1>1. /\ x \in Objects /\ ~InHist(x) /\ time_stamp[x] = Tbd
      /\ GetPtr(x) = loc[t].arg
      /\ IsIndirect(x) => x \in links
      /\ use.build # "indirect" /\ IsIndirect(x) /\ value[x] # Null =>
           time_stamp[value[x]] # Tbd
  BY PreparedNew
<1>2. /\ next_version \in [Objects -> Refs] /\ value \in [Links -> Values]
      /\ links \subseteq Links
  BY DEF IInv, Types
<1>3. Writes(x)
  BY <1>1, <1>2 DEF Writes
<1>4. NextPtr(x) = GetPtr(x)
  BY DEF GetPtr, NextPtr
<1> QED
  BY <1>1, <1>3, <1>4 DEF HeapInstall

\* A store that is about to install its version.
LEMMA StoreReady ==
  ASSUME IInv, NEW t \in Threads, pc[t] \in {"store_cam", "store_recam"}
  PROVE  LET l == loc[t]  n == Len(hist[l.p]) IN
         /\ l.op = "store" /\ l.p \in Ptrs /\ n \in Nat /\ StorePending(t) /\ Prepared(t)
         /\ l.version = n + 1 /\ StoreBefore(t) /\ GetPtr(l.old) = VersionValue(l.p, n)
         /\ GetPtr(l.old) # l.arg /\ l.old \in Refs
<1> DEFINE l == loc[t]
           n == Len(hist[l.p])
<1>1. l.op = "store" /\ StoreOf(t) /\ l.p \in Ptrs /\ l.old \in Refs
  BY ThreadFacts, LocalsFields DEF Control, ThreadInv
<1>2. n \in Nat
  BY <1>1, RefTypes DEF IInv
<1>3. StorePending(t) /\ StoreBefore(t) /\ GetPtr(l.old) # l.arg
  BY <1>1 DEF StoreOf, StoreDone
<1>4. GetPtr(l.old) = VersionValue(l.p, n)
  BY <1>1, <1>2, <1>3, ShowsValue DEF StoreBefore
<1> QED
  BY <1>1, <1>2, <1>3, <1>4 DEF StorePending, Prepared

\* A store installs its version, for the others.
LEMMA StoreInstalls ==
  ASSUME IInv, NEW t \in Threads, pc[t] \in {"store_cam", "store_recam"},
         Others(t), SameCall(t), SameVersions(t), pc'[t] \in {"stamp", "store_check"},
         Installs(loc[t].p, loc[t].new), use' = use, time_stamp' = time_stamp,
         next_version' = next_version, value' = value, SameClock, links' = links,
         \A y \in links : ~InHist(y) => retires'[y] = retires[y]
  PROVE  /\ Fine(t) /\ ~StorePending(t)' /\ ~Prepared(t)'
         /\ loc[t].new \in Objects /\ HeapInstall(loc[t].p, loc[t].new)
<1> DEFINE l == loc[t]
           p == l.p
           n == Len(hist[p])
<1>1. /\ l.op = "store" /\ p \in Ptrs /\ n \in Nat /\ Prepared(t) /\ l.version = n + 1
      /\ GetPtr(l.old) = VersionValue(p, n) /\ GetPtr(l.old) # l.arg
      /\ Shows(p, n, l.old) /\ next_version[l.new] = l.old
      /\ n # 0 => time_stamp[hist[p][n]] # Tbd
  BY StoreReady DEF StoreBefore
<1>2. done_stamp' = done_stamp
  BY DEF SameClock
<1>3. l.new \in Objects /\ HeapInstall(p, l.new)
  BY <1>1, <1>2, InstallPrepared
<1>4. HeapStep
  BY <1>1, <1>3 DEF HeapStep
<1>5. Len(hist'[p]) = n + 1
  BY <1>1, <1>3, InstallsHist, HeapTypesHold DEF IInv
<1>6. ~StorePending(t)' /\ ~Prepared(t)'
  BY <1>1, <1>5 DEF Prepared, StorePending, SameCall, SameVersions
<1>7. Own(t, l.new)
  BY <1>1 DEF Own
<1>8. Mine(t)
  BY <1>1, <1>3, <1>6, <1>7 DEF Mine, SameCall
<1>9. Stampers /\ Ticks
  BY StampersHold, TicksHold
<1> QED
  BY <1>3, <1>4, <1>6, <1>8, <1>9 DEF Fine

\* StoreWrite, for the others: store installs its version in the builds
\* without shortcuts.
LEMMA StoreWriteFine ==
  ASSUME IInv, NEW t \in Threads, StoreWrite(t)
  PROVE  /\ Fine(t) /\ ~StorePending(t)' /\ ~Prepared(t)' /\ Installs(loc[t].p, loc[t].new)
         /\ loc[t].new \in Objects /\ HeapInstall(loc[t].p, loc[t].new)
<1> DEFINE l == loc[t]
<1>1. /\ Others(t) /\ SameCall(t) /\ SameVersions(t)
      /\ pc[t] = "store_cam" /\ use.build # "hybrid" /\ pc'[t] = "stamp"
      /\ \/ Installs(l.p, l.new)
         \/ use.build = "once" /\ v[l.p] # l.old
      /\ Retired(l.old) \/ retires' = retires
      /\ use' = use /\ time_stamp' = time_stamp /\ next_version' = next_version
      /\ value' = value /\ SameClock /\ links' = links
  BY StoreWriteEffect DEF SetsStamp
<1>2. v[l.p] = l.old
  BY <1>1, StoreReady DEF StoreBefore
<1>3. IsIndirect(l.old) => InHist(l.old)
  BY <1>1, ThreadFacts DEF ThreadInv, StoreOf, Control
<1>4. \A y \in links : ~InHist(y) => retires'[y] = retires[y]
  BY <1>1, <1>3, RetiredOld
<1> QED
  BY <1>1, <1>2, <1>4, StoreInstalls

\* StoreCam, for the others: store installs its version unless the old link
\* was cut out.
LEMMA StoreCamFine ==
  ASSUME IInv, NEW t \in Threads, StoreCam(t)
  PROVE  /\ Fine(t)
         /\ \/ /\ v[loc[t].p] = loc[t].old /\ ~StorePending(t)' /\ ~Prepared(t)'
               /\ Installs(loc[t].p, loc[t].new)
               /\ loc[t].new \in Objects /\ HeapInstall(loc[t].p, loc[t].new)
            \/ /\ v[loc[t].p] # loc[t].old /\ IsIndirect(loc[t].old) /\ SameHeap
<1> DEFINE l == loc[t]
<1>1. /\ Others(t) /\ SameCall(t) /\ SameVersions(t)
      /\ pc[t] = "store_cam" /\ pc'[t] \in {"stamp", "store_check"}
      /\ IF v[l.p] = l.old THEN Installs(l.p, l.new) ELSE v' = v /\ hist' = hist
      /\ use' = use /\ time_stamp' = time_stamp /\ next_version' = next_version
      /\ value' = value /\ SameClock /\ links' = links /\ retires' = retires
  BY StoreCamEffect DEF SetsStamp, SameLinks
<1>2. CASE v[l.p] = l.old
  BY <1>1, <1>2, StoreInstalls
<1>3. CASE v[l.p] # l.old
  <2>1. SameHeap
    BY <1>1, <1>3 DEF SameHeap
  <2>2. IsIndirect(l.old)
    BY <1>1, <1>3, StoreReady DEF StoreBefore
  <2>3. KeepsNew(t) /\ KeepsArg(t)
    BY <1>1, <1>3, GoesOn
  <2> QED
    BY <1>1, <1>3, <2>1, <2>2, <2>3, QuietFine
<1> QED
  BY <1>2, <1>3

\* StoreRecam, for the others: store installs its version over the value of
\* the old link.
LEMMA StoreRecamFine ==
  ASSUME IInv, NEW t \in Threads, StoreRecam(t)
  PROVE  /\ Fine(t) /\ ~StorePending(t)' /\ ~Prepared(t)' /\ Installs(loc[t].p, loc[t].new)
         /\ v[loc[t].p] = value[loc[t].old] /\ IsIndirect(loc[t].old)
         /\ loc[t].new \in Objects /\ HeapInstall(loc[t].p, loc[t].new)
<1> DEFINE l == loc[t]
<1>1. /\ Others(t) /\ SameCall(t) /\ SameVersions(t)
      /\ pc[t] = "store_recam" /\ pc'[t] = "stamp"
      /\ IF v[l.p] = value[l.old] THEN Installs(l.p, l.new) ELSE v' = v /\ hist' = hist
      /\ use' = use /\ time_stamp' = time_stamp /\ next_version' = next_version
      /\ value' = value /\ SameClock /\ links' = links /\ retires' = retires
  BY StoreRecamEffect DEF SetsStamp, SameLinks
<1>2. v[l.p] = value[l.old] /\ IsIndirect(l.old)
  BY <1>1, StoreReady DEF StoreBefore
<1> QED
  BY <1>1, <1>2, StoreInstalls

\* The newest version is stamped once the reference to it is.
LEMMA StampedNewest ==
  ASSUME IInv, NEW p \in Ptrs, Stamped(v[p])
  PROVE  Len(hist[p]) # 0 => time_stamp[hist[p][Len(hist[p])]] # Tbd
<1> DEFINE n == Len(hist[p])
<1> SUFFICES ASSUME n # 0 PROVE time_stamp[hist[p][n]] # Tbd
  OBVIOUS
<1>1. HeapTypes /\ PtrInv /\ ClockInv /\ n \in Nat
  BY HeapTypesHold, RefTypes DEF IInv, HeapInv
<1>2. hist[p][n] \in Objects /\ hist[p][n] # Null
  BY <1>1, VersionFacts
<1>3. CASE v[p] = hist[p][n]
  BY <1>2, <1>3 DEF Stamped
<1>4. CASE v[p] # hist[p][n]
  BY <1>1, <1>2, <1>4, BelowTbd DEF PtrInv
<1> QED
  BY <1>3, <1>4

\* CasTry, for the others: cas makes its version and tries to install it.
LEMMA CasTryFine ==
  ASSUME IInv, NEW t \in Threads, CasTry(t)
  PROVE  LET l == loc[t]  new == loc'[t].new IN
         /\ Fine(t) /\ new \in Objects
         /\ IF v[l.p] = l.old
            THEN Installs(l.p, new) /\ HeapInstall(l.p, new) /\ ~Prepared(t)'
            ELSE v' = v /\ hist' = hist /\ HeapNew(new) /\ Prepared(t)'
<1> DEFINE l == loc[t]
           new == loc'[t].new
           p == l.p
           n == Len(hist[p])
<1>1. /\ Others(t) /\ SameCall(t) /\ pc[t] = "cas_try" /\ Prepares(new, l.arg, l.old)
      /\ p \in Ptrs
      /\ \/ v[p] = l.old /\ Installs(p, new) /\ pc'[t] = "stamp"
         \/ /\ v[p] # l.old /\ v' = v /\ hist' = hist
            /\ pc'[t] \in {"cas_retry", "cas_fail"}
      /\ use' = use /\ time_stamp' = time_stamp /\ SameClock /\ retires' = retires
  BY CasTryEffect DEF SetsStamp
<1>2. /\ l.op = "cas" /\ p \in use.cassed /\ l.arg \in Values /\ l.old \in Refs
      /\ done_stamp' = done_stamp /\ n \in Nat
  BY <1>1, ThreadFacts, LocalsFields, RefTypes DEF Control, SameClock, IInv
<1>3. CasBefore(t) /\ Stamped(l.old) /\ (UseIndirect(l.arg) \/ Fresh(t, l.arg))
  BY <1>1, <1>2, ThreadFacts DEF ThreadInv, CasOf, FreshOf, BeforeTry
<1> HIDE DEF new
<1>4. /\ new \in Objects /\ Writes(new) /\ next_version'[new] = l.old
      /\ IsIndirect(new) => value'[new] = l.arg
      /\ ~IsIndirect(new) => new = l.arg /\ Fresh(t, new)
      /\ new \in Links \ links \/ Fresh(t, new)
      /\ use.build # "indirect" /\ IsIndirect(new) /\ l.arg # Null => time_stamp[l.arg] # Tbd
      /\ \A y \in Objects :
           next_version'[y] = next_version[y] \/ y \in Links \ links \/ Fresh(t, y)
      /\ \A y \in links : value'[y] = value[y]
      /\ links \subseteq links'
  BY <1>1, <1>2, <1>3, PreparesNew
<1>5. Stampers /\ Ticks
  BY <1>1, StampersHold, TicksHold
<1>6. CASE v[p] = l.old
  <2>1. Installs(p, new) /\ pc'[t] = "stamp"
    BY <1>1, <1>6
  <2>2. Shows(p, n, l.old) /\ VersionValue(p, n) = GetPtr(l.old)
    BY <1>1, <1>6, CurrentShows, CurrentValue
  <2>3. GetPtr(l.old) = l.exp /\ l.exp # l.arg
    BY <1>3 DEF CasBefore
  <2>4. n # 0 => time_stamp[hist[p][n]] # Tbd
    BY <1>1, <1>3, <1>6, StampedNewest
  <2>5. NextPtr(new) = l.arg
    BY <1>4 DEF NextPtr
  <2>6. HeapInstall(p, new)
    BY <1>4, <2>1, <2>2, <2>3, <2>4, <2>5 DEF HeapInstall
  <2>7. HeapStep
    BY <1>1, <1>4, <2>6 DEF HeapStep
  <2>8. ~Prepared(t)'
    BY <1>1, <1>2, <2>1 DEF Prepared, StorePending, SameCall
  <2>9. Mine(t)
    BY <1>1, <1>2, <1>4, <2>1, <2>8 DEF Mine, Own, SameCall
  <2> QED
    BY <1>4, <1>5, <1>6, <2>1, <2>6, <2>7, <2>8, <2>9 DEF Fine, new
<1>7. CASE v[p] # l.old
  <2>1. v' = v /\ hist' = hist /\ pc'[t] \in {"cas_retry", "cas_fail"}
    BY <1>1, <1>7
  <2>2. HeapNew(new)
    BY <1>4, <2>1 DEF HeapNew
  <2>3. HeapStep
    BY <1>4, <2>2 DEF HeapStep
  <2>4. Mine(t)
    BY <1>1, <1>4, <2>1 DEF Mine, Own, SameCall, new
  <2>5. Prepared(t)'
    BY <2>1 DEF Prepared
  <2> QED
    BY <1>4, <1>5, <1>7, <2>1, <2>2, <2>3, <2>4, <2>5 DEF Fine, new
<1> QED
  BY <1>6, <1>7

\* A second try that finds the value of the link finds the version itself, or
\* a later one that has been cut out: no later version is a node that is older.
LEMMA RetryShows ==
  ASSUME IInv, NEW t \in Threads, pc[t] = "cas_retry", v[loc[t].p] = loc[t].old
  PROVE  LET l == loc[t]  n == Len(hist[l.p]) IN
         /\ Shows(l.p, n, next_version[l.new])
         /\ n # 0 /\ time_stamp[hist[l.p][n]] # Tbd
         /\ VersionValue(l.p, n) = l.exp
<1> DEFINE l == loc[t]
           p == l.p
           n == Len(hist[p])
           k == l.version
           x == hist[p][k]
<1>1. CasBetween(t) /\ p \in Ptrs /\ Control(t) /\ HeapTypes /\ HeapInv /\ ClockInv
  BY ThreadFacts, HeapTypesHold DEF IInv, ThreadInv, CasOf, Control
<1>2. /\ k \in 1 .. n /\ n \in Nat /\ next_version[l.new] = x /\ IsIndirect(x)
      /\ time_stamp[x] # Tbd /\ v[p] = value[x] /\ l.exp = value[x]
      /\ use.build = "hybrid"
  BY <1>1 DEF CasBetween, Control, HeapTypes
<1>3. /\ x \in Objects /\ n \in 1 .. n /\ hist[p][n] \in Objects
      /\ time_stamp[x] \in Nat /\ time_stamp[hist[p][n]] \in Nat /\ done_stamp \in Nat
  BY <1>1, <1>2, VersionFacts, BelowTbd
<1>4. VersionValue(p, n) = l.exp
  <2>1. GetPtr(v[p]) = VersionValue(p, n)
    BY <1>1, CurrentValue
  <2>2. value[x] \in Values
    BY <1>1, <1>2 DEF HeapTypes, IsIndirect
  <2>3. value[x] \notin Links
    BY <2>2, Constants DEF Values
  <2> QED
    BY <1>2, <2>1, <2>3 DEF GetPtr, IsIndirect
<1>5. CASE n = k
  BY <1>2, <1>3, <1>4, <1>5 DEF Shows
<1>6. CASE n # k
  <2>1. n \in k + 1 .. n /\ k \in 1 .. n - 1
    BY <1>2, <1>6
  <2>2. v[p] # hist[p][n]
    BY <1>1, <1>2, <2>1 DEF HeapInv, ValueInv
  <2>3. /\ IsIndirect(hist[p][n]) /\ v[p] = value[hist[p][n]]
        /\ time_stamp[hist[p][n]] <= done_stamp
    BY <1>1, <1>2, <1>3, <2>2 DEF HeapInv, PtrInv
  <2>4. time_stamp[x] <= time_stamp[hist[p][n]]
    BY <1>1, <1>3, <2>1 DEF HeapInv, OrderInv
  <2>5. time_stamp[x] <= done_stamp
    BY <1>3, <2>3, <2>4
  <2>6. time_stamp[hist[p][n]] # Tbd
    BY <1>1, <1>3, <2>3, BelowTbd
  <2>7. GetPtr(x) = GetPtr(hist[p][n])
    BY <1>2, <2>3 DEF GetPtr
  <2> QED
    BY <1>2, <1>3, <1>4, <2>3, <2>5, <2>6, <2>7 DEF Shows
<1> QED
  BY <1>5, <1>6

\* CasRetry, for the others: cas tries again with the value of the link it
\* expected.
LEMMA CasRetryFine ==
  ASSUME IInv, NEW t \in Threads, CasRetry(t)
  PROVE  LET l == loc[t] IN
         /\ Fine(t) /\ l.new \in Objects
         /\ IF v[l.p] = l.old
            THEN Installs(l.p, l.new) /\ HeapInstall(l.p, l.new) /\ ~Prepared(t)'
            ELSE SameHeap /\ Prepared(t)'
<1> DEFINE l == loc[t]
           p == l.p
           n == Len(hist[p])
<1>1. /\ Others(t) /\ SameCall(t) /\ pc[t] = "cas_retry"
      /\ loc'[t].new = l.new /\ p \in Ptrs
      /\ \/ v[p] = l.old /\ Installs(p, l.new) /\ pc'[t] = "stamp"
         \/ v[p] # l.old /\ v' = v /\ hist' = hist /\ pc'[t] = "cas_fail"
      /\ use' = use /\ time_stamp' = time_stamp /\ next_version' = next_version
      /\ value' = value /\ SameClock /\ SameLinks
  BY CasRetryEffect DEF SetsStamp
<1>2. l.op = "cas" /\ p \in use.cassed /\ CasBetween(t) /\ Prepared(t)
  BY <1>1, ThreadFacts DEF Control, ThreadInv, CasOf, Prepared
<1>3. l.new \in Objects
  BY <1>2, PreparedNew
<1>4. Stampers /\ Ticks
  BY <1>1, StampersHold, TicksHold
<1>5. done_stamp' = done_stamp /\ links' = links /\ retires' = retires
  BY <1>1 DEF SameClock, SameLinks
<1>6. CASE v[p] = l.old
  <2>1. Installs(p, l.new) /\ pc'[t] = "stamp"
    BY <1>1, <1>6
  <2>2. /\ Shows(p, n, next_version[l.new])
        /\ n # 0 /\ time_stamp[hist[p][n]] # Tbd /\ VersionValue(p, n) = l.exp
    BY <1>1, <1>6, RetryShows
  <2>3. l.exp # l.arg
    BY <1>2 DEF CasBetween
  <2>4. HeapInstall(p, l.new)
    BY <1>1, <1>2, <1>5, <2>1, <2>2, <2>3, InstallPrepared
  <2>5. HeapStep
    BY <1>1, <1>3, <2>4 DEF HeapStep
  <2>6. ~Prepared(t)'
    BY <1>1, <1>2, <2>1 DEF Prepared, StorePending, SameCall
  <2>7. Own(t, l.new)
    BY <1>2 DEF Own
  <2>8. Mine(t)
    BY <1>1, <1>2, <1>3, <1>5, <2>1, <2>6, <2>7 DEF Mine, SameCall
  <2> QED
    BY <1>3, <1>4, <1>6, <2>1, <2>4, <2>5, <2>6, <2>8 DEF Fine
<1>7. CASE v[p] # l.old
  <2>1. SameHeap /\ pc'[t] = "cas_fail"
    BY <1>1, <1>7 DEF SameHeap
  <2>2. KeepsNew(t) /\ KeepsArg(t) /\ Prepared(t)'
    BY <1>1, <1>2, <2>1 DEF KeepsNew, KeepsArg, SameCall, Prepared
  <2> QED
    BY <1>1, <1>3, <1>5, <1>7, <2>1, <2>2, QuietFine
<1> QED
  BY <1>6, <1>7

\* A step that leaves the calls and the versions alone.
LEMMA IdleMine ==
  ASSUME IInv, NEW t \in Threads, Others(t), loc' = loc, SameHeap, SameLinks,
         pc'[t] \in {"idle", "advance"}
  PROVE  Mine(t)
<1>1. KeepsNew(t) /\ KeepsArg(t)
  BY DEF KeepsNew, KeepsArg, SameHeap, Prepared, StorePending
<1> QED
  BY <1>1 DEF Mine, Own, SameHeap, SameLinks, KeepsNew, KeepsArg

\* SnapshotLoad, for the others: with_snapshot loads the clock.
LEMMA SnapshotLoadFine ==
  ASSUME IInv, NEW t \in Threads, SnapshotLoad(t)
  PROVE  Fine(t)
<1>1. /\ Others(t) /\ loc' = loc /\ pc'[t] = "advance"
      /\ SameHeap /\ SameClock /\ SameLinks
  BY SnapshotLoadEffect DEF IInv
<1>2. HeapStep /\ Stampers /\ Ticks /\ Mine(t)
  BY <1>1, StaysHeap, StampersHold, TicksHold, IdleMine DEF SameLinks
<1> QED
  BY <1>2 DEF Fine

\* SnapshotAdvance, for the others: with_snapshot makes sure that the clock
\* is past its stamp.
LEMMA SnapshotAdvanceFine ==
  ASSUME IInv, NEW t \in Threads, SnapshotAdvance(t)
  PROVE  Fine(t)
<1>1. /\ Others(t) /\ loc' = loc /\ pc'[t] = "idle"
      /\ stamp' = stamp + 1 \/ stamp' = stamp
      /\ SameHeap /\ done_stamp' = done_stamp /\ SameLinks
  BY SnapshotAdvanceEffect DEF IInv
<1>2. stamp \in Nat /\ done_stamp \in Nat /\ \A u \in Threads : ClockOf(u)
  BY ThreadFacts, LocalTypes, RefTypes DEF ThreadInv, IInv
<1>3. Ticks
  BY <1>1, <1>2 DEF Ticks, ClockOf
<1>4. HeapStep
  BY <1>1, <1>2 DEF HeapStep, HeapStays, SameLinks
<1>5. Stampers /\ Mine(t)
  BY <1>1, StampersHold, IdleMine
<1> QED
  BY <1>3, <1>4, <1>5 DEF Fine

\* SnapshotEnd, for the others: with_snapshot ends.
LEMMA SnapshotEndFine ==
  ASSUME IInv, NEW t \in Threads, SnapshotEnd(t)
  PROVE  Fine(t)
<1>1. /\ pc' = pc /\ loc' = loc /\ pc[t] = "idle" /\ SameHeap /\ SameClock /\ SameLinks
  BY SnapshotEndEffect DEF IInv
<1>2. Others(t) /\ pc'[t] = "idle"
  BY <1>1 DEF Others
<1>3. HeapStep /\ Stampers /\ Ticks /\ Mine(t)
  BY <1>1, <1>2, StaysHeap, StampersHold, TicksHold, IdleMine DEF SameLinks
<1> QED
  BY <1>3 DEF Fine

\* A step that no thread takes has only bystanders.
LEMMA NobodyMoves ==
  ASSUME IInv, pc' = pc, loc' = loc, SameHeap, SameLinks, SameSnap, NEW u \in Threads
  PROVE  Bystander(u)
<1>1. PreparedOf(u) /\ FreshOf(u)
  BY ThreadFacts DEF ThreadInv
<1>2. \A w \in Threads : Prepared(w)' = Prepared(w)
  BY DEF SameHeap, Prepared, StorePending
<1>3. \A x : InHist(x)' = InHist(x)
  BY DEF SameHeap, InHist
<1>4. \A x : Fresh(u, x)' = Fresh(u, x)
  BY DEF SameHeap, Fresh
<1> QED
  BY <1>1, <1>2, <1>3, <1>4 DEF Bystander, PreparedOf, FreshOf, SameHeap, SameLinks, SameSnap

(***************************************************************************)
(* The step of t, for itself.                                              *)
(***************************************************************************)
\* The parts that are about the snapshot t is in, and about its stamp.
LEMMA SnapKept ==
  ASSUME IInv, NEW t \in Threads, Fine(t), SnapGoesOn(t), pc'[t] # "stamp_cas"
  PROVE  ClockOf(t)' /\ PendingOf(t)' /\ WindowOf(t)' /\ SnapOf(t)'
<1>1. HeapStep /\ Stampers /\ Ticks
  BY DEF Fine
<1>2. PendingOf(t)'
  BY DEF PendingOf
<1> QED
  BY <1>1, <1>2, ClockGoesOn, WindowGoesOn, ReadGoesOn

\* The parts that are about updates and snapshots.
LEMMA NotUpdating ==
  ASSUME NEW t \in Threads, loc'[t].op \notin {"store", "snapshot"},
         pc'[t] \notin {"cas_try", "cas_retry", "cas_fail"},
         loc'[t].op = "cas" /\ pc'[t] \in {"stamp", "stamp_cas"} => loc'[t].cont # "cas_try"
  PROVE  CasOf(t)' /\ StoreOf(t)' /\ FreshOf(t)' /\ PreparedOf(t)' /\ ChaseOf(t)'
<1>1. ~BeforeTry(t)' /\ ~Prepared(t)'
  BY DEF BeforeTry, Stamping, Prepared, StorePending
<1> QED
  BY <1>1 DEF CasOf, StoreOf, FreshOf, PreparedOf, ChaseOf

\* A version that a call has seen stamped stays so.
LEMMA StampedStays ==
  ASSUME Grows, HeapTypes, NEW p \in Ptrs, NEW k \in Nat, k <= Len(hist[p]),
         k # 0 => time_stamp[hist[p][k]] # Tbd
  PROVE  k <= Len(hist'[p]) /\ (k # 0 => time_stamp'[hist'[p][k]] # Tbd)
<1>1. Len(hist[p]) \in Nat /\ Len(hist'[p]) \in Nat /\ Len(hist[p]) <= Len(hist'[p])
  BY DEF Grows, HeapTypes
<1>2. k # 0 => k \in 1 .. Len(hist[p])
  BY <1>1
<1>3. k # 0 => hist'[p][k] = hist[p][k] /\ hist[p][k] \in Objects
  BY <1>2, VersionFacts DEF Grows
<1> QED
  BY <1>1, <1>3, StampsStay

\* What is read of a pointer is its newest version.
LEMMA CurrentNext ==
  ASSUME IInv, HeapStep, NEW p \in Ptrs
  PROVE  ShowsNext(p, Len(hist[p]), v[p])
<1>1. Shows(p, Len(hist[p]), v[p]) /\ v[p] \in Refs /\ Len(hist[p]) \in Nat
  BY CurrentShows, RefTypes DEF IInv
<1>2. Grows /\ HeapTypes /\ HeapTypes' /\ HistInv /\ ClockInv
  BY StepFacts DEF HeapInv
<1> QED
  BY <1>1, <1>2, ShowsStays

\* The version just installed shows itself.
LEMMA InstalledNext ==
  ASSUME HeapTypes, NEW p \in Ptrs, NEW x \in Objects, Installs(p, x)
  PROVE  ShowsNext(p, Len(hist[p]) + 1, x)
<1>1. Len(hist'[p]) = Len(hist[p]) + 1 /\ hist'[p][Len(hist[p]) + 1] = x
  BY InstallsHist
<1>2. Len(hist[p]) \in Nat
  BY DEF HeapTypes
<1> QED
  BY <1>1, <1>2 DEF ShowsNext

\* A call of set_stamp is right when the reference shows the version.
LEMMA CurSet ==
  ASSUME NEW t \in Threads, pc'[t] = "stamp",
         loc'[t].op = "snapshot" \/ ShowsNext(loc'[t].p, loc'[t].version, loc'[t].cur)
  PROVE  CurOf(t)'
BY DEF CurOf, Shows, ShowsNext, GetPtr, IsIndirect

\* Once the reference at hand is stamped, so is the version.
LEMMA ShownStamped ==
  ASSUME IInv, HeapTypes', SameClock, NEW p \in Ptrs, NEW k \in Nat, NEW x \in Refs,
         ShowsNext(p, k, x), x # Null => time_stamp'[x] # Tbd
  PROVE  k <= Len(hist'[p]) /\ (k # 0 => time_stamp'[hist'[p][k]] # Tbd)
<1>1. done_stamp' \in Nat /\ done_stamp' < Tbd /\ Tbd \in Nat
  BY BelowTbd, HeapTypesHold DEF IInv, SameClock
<1>2. hist' \in [Ptrs -> Seq(Objects)] /\ time_stamp' \in [Objects -> Nat]
  BY DEF HeapTypes
<1>3. Len(hist'[p]) \in Nat /\ (k \in 1 .. Len(hist'[p]) => hist'[p][k] \in Objects)
  BY <1>2
<1> QED
  BY <1>1, <1>2, <1>3, Constants DEF ShowsNext

\* A call that has installed its version keeps it.
LEMMA StoreGoesOn ==
  ASSUME IInv, HeapStep, NEW t \in Threads, loc[t].op = "store", ~StorePending(t),
         SameCall(t), SameVersions(t), hist'[loc[t].p] = hist[loc[t].p],
         pc'[t] \notin {"store_cam", "store_recam"}
  PROVE  StoreOf(t)' /\ ~StorePending(t)'
<1> DEFINE l == loc[t]
           p == l.p
           n == Len(hist[p])
<1>1. /\ loc'[t].op = "store" /\ loc'[t].p = p /\ loc'[t].arg = l.arg /\ loc'[t].old = l.old
      /\ loc'[t].new = l.new /\ loc'[t].version = l.version
  BY DEF SameCall, SameVersions
<1>2. Grows /\ HeapTypes /\ StoreOf(t) /\ p \in Ptrs /\ l.old \in Refs /\ n \in Nat
  BY StepFacts, ThreadFacts, LocalsFields, RefTypes DEF ThreadInv, IInv
<1>3. /\ GetPtr(l.old) # l.arg /\ GetPtr(l.new) = l.arg
      /\ IsIndirect(l.old) => InHist(l.old)
      /\ n # 0 /\ l.version = n /\ l.new = hist[p][n]
  BY <1>2 DEF StoreOf, StoreDone
<1>4. InHist(l.new)
  BY <1>2, <1>3 DEF InHist
<1>5. /\ IsIndirect(l.old) => value'[l.old] = value[l.old]
      /\ IsIndirect(l.new) => value'[l.new] = value[l.new]
  BY <1>2, <1>3, <1>4 DEF Grows, IsIndirect
<1>6. NextPtr(l.old) # l.arg /\ NextPtr(l.new) = l.arg
  BY <1>3, <1>5 DEF GetPtr, NextPtr
<1>7. IsIndirect(l.old) =>
        \E q \in Ptrs : \E k \in 1 .. Len(hist'[q]) : hist'[q][k] = l.old
  <2>1. \A x \in Refs : InHist(x) => InHist(x)'
    BY <1>2, InHistGrows
  <2> QED
    BY <1>2, <1>3, <2>1 DEF InHist
<1>8. ~StorePending(t)'
  BY <1>1 DEF StorePending
<1>9. StoreDone(t)'
  BY <1>1, <1>3 DEF StoreDone
<1> QED
  BY <1>1, <1>6, <1>7, <1>8, <1>9 DEF StoreOf, NextPtr, GetPtr, IsIndirect, InHist

\* A node that is nobody else's.
FreshNext(t, x) ==
  /\ x \in Nodes
  /\ \A p \in Ptrs : x \notin {hist'[p][k] : k \in DOMAIN (hist'[p])}
  /\ \A u \in Threads \ {t} : loc'[u].arg # x

\* A node stays new when nothing is installed.
LEMMA FreshStays ==
  ASSUME NEW t \in Threads, Others(t), hist' = hist, NEW x, Fresh(t, x)
  PROVE  FreshNext(t, x)
BY DEF Others, Fresh, FreshNext

\* A value that needs a link goes on to need one.
LEMMA UseStays ==
  ASSUME Grows, NEW x \in Values, UseIndirect(x)
  PROVE  IF use'.build = "indirect" THEN TRUE
         ELSE use'.build # "once" /\ (x = Null \/ time_stamp'[x] # Tbd)
<1>1. x # Null => x \in Objects
  BY DEF Values, Objects
<1> QED
  BY <1>1, StampsStay DEF UseIndirect, Grows

\* A call is right about its argument when it needs a link or is new.
LEMMA FreshSet ==
  ASSUME Grows, NEW t \in Threads, loc'[t].arg \in Values,
         UseIndirect(loc'[t].arg) \/ FreshNext(t, loc'[t].arg)
  PROVE  FreshOf(t)'
<1> DEFINE x == loc'[t].arg
<1>1. CASE UseIndirect(x)
  <2>1. UseIndirect(loc[t].arg)'
    BY <1>1, UseStays DEF UseIndirect
  <2> QED
    BY <2>1 DEF FreshOf
<1>2. CASE FreshNext(t, x)
  BY <1>2 DEF FreshOf, Fresh, FreshNext
<1> QED
  BY <1>1, <1>2

\* set_stamp: a call goes on with the version it was at, now with a stamp.
LEMMA StampOwn ==
  ASSUME IInv, NEW t \in Threads, Fine(t), Stamping(t), Others(t), SameCall(t),
         SameVersions(t), loc'[t].cur = loc[t].cur, loc'[t].cont = loc[t].cont,
         hist' = hist, SnapStays(t), SameClock,
         \/ /\ pc'[t] = loc[t].cont
            /\ loc[t].cur # Null => time_stamp'[loc[t].cur] # Tbd
         \/ pc'[t] = "stamp_cas"
  PROVE  /\ CurOf(t)' /\ CasOf(t)' /\ StoreOf(t)' /\ FreshOf(t)' /\ PreparedOf(t)'
         /\ WindowOf(t)' /\ ChaseOf(t)' /\ SnapOf(t)'
<1> DEFINE l == loc[t]
           p == l.p
<1>1. HeapStep /\ Stampers
  BY DEF Fine
<1>2. Grows /\ HeapTypes /\ HeapTypes' /\ HistInv /\ ClockInv
  BY <1>1, StepFacts DEF HeapInv
<1>3. ThreadInv(t) /\ Control(t) /\ l \in Locals /\ l.op # "none"
  BY ThreadFacts DEF Control, Stamping
<1>4. p \in Ptrs /\ l.cur \in Refs /\ l.version \in Nat /\ l.arg \in Values
      /\ l.cont \in {"return", "shortcut", "cas_try", "retire", "chase"}
  BY <1>3, ThreadFacts, LocalsFields
<1>5. /\ loc'[t].op = l.op /\ loc'[t].p = p /\ loc'[t].arg = l.arg /\ loc'[t].exp = l.exp
      /\ loc'[t].old = l.old /\ loc'[t].new = l.new /\ loc'[t].version = l.version
  BY DEF SameCall, SameVersions
<1>6. l.op = "store" => ~StorePending(t)
  BY <1>3 DEF ThreadInv, StoreOf, StoreBefore, Stamping
<1>7. ~Prepared(t)'
  BY <1>4, <1>5, <1>6 DEF Prepared, StorePending
<1>8. BeforeTry(t)' => BeforeTry(t)
  BY <1>3, <1>4, <1>5 DEF BeforeTry, Stamping, Control
<1>9. CurOf(t)'
  <2>1. CASE l.op = "snapshot"
    <3>1. l.cont = "chase"
      BY <1>3, <2>1 DEF Control
    <3> QED
      BY <1>5, <2>1, <3>1 DEF CurOf
  <2>2. CASE l.op # "snapshot"
    <3>1. Shows(p, l.version, l.cur)
      BY <1>3, <2>2 DEF ThreadInv, CurOf
    <3>2. ShowsNext(p, l.version, l.cur)
      BY <1>2, <1>4, <3>1, ShowsStays
    <3>3. CASE pc'[t] = "stamp_cas"
      BY <1>5, <3>2, <3>3 DEF CurOf, Shows, ShowsNext, GetPtr, IsIndirect
    <3>4. CASE pc'[t] = l.cont /\ (l.cur # Null => time_stamp'[l.cur] # Tbd)
      <4>1. /\ l.version <= Len(hist'[p])
            /\ l.version # 0 => time_stamp'[hist'[p][l.version]] # Tbd
        BY <1>2, <1>4, <3>2, <3>4, ShownStamped
      <4> QED
        BY <1>4, <1>5, <3>4, <4>1 DEF CurOf, Stamping
    <3> QED
      BY <3>3, <3>4
  <2> QED
    BY <2>1, <2>2
<1>10. CasOf(t)'
  <2>1. BeforeTry(t)' => CasBefore(t)'
    BY <1>1, <1>8, CasGoesOn
  <2>2. ASSUME pc'[t] = "cas_try" PROVE Stamped(loc[t].old)'
    <3>1. BeforeTry(t) /\ l.cur # Null => time_stamp'[l.cur] # Tbd
      BY <1>3, <2>2 DEF BeforeTry, Control
    <3>2. l.cur = l.old
      BY <1>3, <2>2 DEF BeforeTry, Control, ThreadInv, CasOf, CasBefore
    <3> QED
      BY <1>5, <2>2, <3>2 DEF Stamped
  <2> QED
    BY <1>4, <2>1, <2>2 DEF CasOf
<1>11. StoreOf(t)'
  <2>1. CASE l.op = "store"
    BY <1>1, <1>4, <1>6, <2>1, StoreGoesOn
  <2>2. CASE l.op # "store"
    BY <1>5, <2>2 DEF StoreOf
  <2> QED
    BY <2>1, <2>2
<1>12. FreshOf(t)'
  <2>1. CASE BeforeTry(t)
    <3>1. UseIndirect(l.arg) \/ Fresh(t, l.arg)
      BY <1>3, <2>1 DEF ThreadInv, FreshOf
    <3>2. UseIndirect(l.arg) \/ FreshNext(t, l.arg)
      BY <3>1, FreshStays
    <3> QED
      BY <1>2, <1>4, <1>5, <3>2, FreshSet
  <2>2. CASE ~BeforeTry(t)
    BY <1>7, <1>8, <2>2 DEF FreshOf
  <2> QED
    BY <2>1, <2>2
<1>13. PreparedOf(t)'
  BY <1>7 DEF PreparedOf
<1>14. ChaseOf(t)'
  <2>1. CASE l.op = "snapshot"
    <3>1. ChaseAt(t)'
      BY <1>1, <2>1, ChaseGoesOn DEF SnapStays
    <3>2. pc'[t] = "chase" => Stamped(loc[t].cur)'
      BY DEF Stamped
    <3> QED
      BY <3>1, <3>2 DEF ChaseOf
  <2>2. CASE l.op # "snapshot"
    BY <1>5, <2>2 DEF ChaseOf
  <2> QED
    BY <2>1, <2>2
<1>15. SnapGoesOn(t)
  BY <1>4 DEF SnapGoesOn, Stamping
<1>16. WindowOf(t)' /\ SnapOf(t)'
  BY <1>1, <1>15, WindowGoesOn, ReadGoesOn
<1> QED
  BY <1>9, <1>10, <1>11, <1>12, <1>13, <1>14, <1>16

\* The stamp that set_stamp takes from the clock is not below any older one.
LEMMA StampFetchOwn ==
  ASSUME IInv, NEW t \in Threads, StampFetch(t)
  PROVE  ThreadInv(t)'
<1> DEFINE x == loc[t].cur
<1>0. Types
  BY DEF IInv
<1>1. /\ Others(t) /\ SameCall(t) /\ SameVersions(t)
      /\ pc[t] = "stamp" /\ loc'[t].cur = x /\ loc'[t].cont = loc[t].cont
      /\ \/ Stamped(x) /\ pc'[t] = loc[t].cont
         \/ ~Stamped(x) /\ pc'[t] = "stamp_cas" /\ loc'[t].t = stamp
      /\ SameHeap /\ SameClock /\ SameSnap
  BY <1>0, StampFetchEffect
<1>2. Fine(t)
  BY StampFetchFine
<1>3. hist' = hist /\ SnapStays(t) /\ Stamping(t)
  BY <1>1 DEF SameHeap, SameSnap, SnapStays, Stamping
<1>4. \/ pc'[t] = loc[t].cont /\ (x # Null => time_stamp'[x] # Tbd)
      \/ pc'[t] = "stamp_cas"
  BY <1>1 DEF Stamped, SameHeap
<1>5. /\ CurOf(t)' /\ CasOf(t)' /\ StoreOf(t)' /\ FreshOf(t)' /\ PreparedOf(t)'
      /\ WindowOf(t)' /\ ChaseOf(t)' /\ SnapOf(t)'
  BY <1>1, <1>2, <1>3, <1>4, StampOwn
<1>6. loc[t].cont \in {"return", "shortcut", "cas_try", "retire", "chase"} /\ stamp \in Nat
  BY <1>0, ThreadFacts, LocalsFields, LocalTypes
<1>7. ClockOf(t)'
  <2>1. SnapGoesOn(t)
    BY <1>1, <1>3, <1>6 DEF SnapGoesOn
  <2>2. pc'[t] = "stamp_cas" => loc'[t].t <= stamp' /\ loc'[t].cur # Null
    BY <1>1, <1>6 DEF SameClock, Stamped
  <2> QED
    BY <1>2, <2>1, <2>2, ClockGoesOn DEF Fine
<1>8. PendingOf(t)'
  <2>0. SUFFICES ASSUME pc'[t] = "stamp_cas" PROVE PendingOf(t)'
    BY DEF PendingOf
  <2>1. ~Stamped(x) /\ loc'[t].t = stamp
    BY <1>1, <1>6, <2>0
  <2>2. x \in Objects /\ InHist(x) /\ time_stamp[x] = Tbd
    BY <1>3, <2>1, StampingInHist DEF Stamped
  <2>3. HeapTypes /\ OrderInv /\ ValueInv /\ ClockInv
    BY <1>0, HeapTypesHold DEF IInv, HeapInv
  <2>4. ASSUME NEW p \in Ptrs, NEW k \in 1 .. Len(hist[p]), NEW i \in 1 .. k - 1
        PROVE  time_stamp[hist[p][i]] <= stamp
    <3>1. time_stamp[hist[p][i]] # Tbd
      BY <2>3, <2>4 DEF OrderInv
    <3>2. Len(hist[p]) \in Nat
      BY <2>3 DEF HeapTypes
    <3>3. i \in 1 .. Len(hist[p])
      BY <2>4, <3>2
    <3> QED
      BY <2>3, <3>1, <3>3, VersionFacts DEF ClockInv
  <2>5. ASSUME use.build # "indirect", IsIndirect(x), value[x] # Null
        PROVE  time_stamp[value[x]] <= stamp
    <3>1. time_stamp[value[x]] # Tbd
      BY <2>2, <2>3, <2>5 DEF ValueInv, InHist
    <3>2. value[x] \in Objects
      BY <2>3, <2>5 DEF HeapTypes, IsIndirect, Values, Objects
    <3> QED
      BY <2>3, <3>1, <3>2 DEF ClockInv
  <2> QED
    BY <1>1, <2>1, <2>4, <2>5 DEF PendingOf, SameHeap, IsIndirect
<1> QED
  BY <1>5, <1>7, <1>8 DEF ThreadInv

\* StampCas keeps the invariant of its own thread: the version at hand has a
\* stamp afterwards.
LEMMA StampCasOwn ==
  ASSUME IInv, NEW t \in Threads, StampCas(t)
  PROVE  ThreadInv(t)'
<1> DEFINE x == loc[t].cur
<1>0. Types
  BY DEF IInv
<1>1. /\ Others(t) /\ SameCall(t) /\ SameVersions(t)
      /\ pc[t] = "stamp_cas" /\ pc'[t] = loc[t].cont
      /\ loc'[t].cur = loc[t].cur /\ loc'[t].cont = loc[t].cont
      /\ time_stamp' = IF time_stamp[x] = Tbd THEN [time_stamp EXCEPT ![x] = loc[t].t]
                       ELSE time_stamp
      /\ hist' = hist /\ SameClock /\ SameSnap
  BY <1>0, StampCasEffect
<1>2. Fine(t)
  BY StampCasFine
<1>3. SnapStays(t) /\ Stamping(t)
  BY <1>1 DEF SameSnap, SnapStays, Stamping
<1>4. ClockOf(t) /\ loc[t].t \in Nat /\ x \in Refs
      /\ loc[t].cont \in {"return", "shortcut", "cas_try", "retire", "chase"}
  BY ThreadFacts, LocalsFields DEF ThreadInv
<1>5. x # Null => time_stamp'[x] # Tbd
  <2>1. time_stamp \in [Objects -> Nat] /\ stamp \in Nat /\ stamp < Tbd /\ Tbd \in Nat
    BY <1>0, HeapTypesHold, BelowTbd DEF IInv, HeapTypes
  <2>2. loc[t].t # Tbd
    BY <1>1, <1>4, <2>1 DEF ClockOf
  <2> QED
    BY <1>1, <1>4, <2>1, <2>2 DEF Refs
<1>6. /\ CurOf(t)' /\ CasOf(t)' /\ StoreOf(t)' /\ FreshOf(t)' /\ PreparedOf(t)'
      /\ WindowOf(t)' /\ ChaseOf(t)' /\ SnapOf(t)'
  BY <1>1, <1>2, <1>3, <1>5, StampOwn
<1>7. SnapGoesOn(t) /\ pc'[t] # "stamp_cas"
  BY <1>1, <1>3, <1>4 DEF SnapGoesOn
<1>8. ClockOf(t)' /\ PendingOf(t)'
  BY <1>2, <1>7, SnapKept
<1> QED
  BY <1>6, <1>8 DEF ThreadInv

\* A call on its way out: its version stays stamped.
LEMMA LeavesOwn ==
  ASSUME IInv, NEW t \in Threads, Fine(t), Others(t), loc' = loc, hist' = hist,
         SnapStays(t), pc[t] \in {"shortcut", "retire"}, pc'[t] \in {"shortcut", "return"}
  PROVE  ThreadInv(t)'
<1> DEFINE l == loc[t]
<1>1. HeapStep
  BY DEF Fine
<1>2. Grows /\ HeapTypes
  BY <1>1, StepFacts
<1>3. ThreadInv(t) /\ Control(t) /\ l.op # "none"
  BY ThreadFacts DEF Control
<1>4. l.p \in Ptrs /\ l.version \in Nat
  BY <1>3, ThreadFacts, LocalsFields
<1>5. SnapGoesOn(t)
  BY DEF SnapGoesOn
<1>6. ClockOf(t)' /\ PendingOf(t)' /\ WindowOf(t)' /\ SnapOf(t)'
  BY <1>5, SnapKept
<1>7. CurOf(t)'
  <2>1. l.op # "read" => /\ l.version <= Len(hist'[l.p])
                         /\ l.version # 0 => time_stamp'[hist'[l.p][l.version]] # Tbd
    BY <1>2, <1>3, <1>4, StampedStays DEF ThreadInv, CurOf
  <2> QED
    BY <2>1 DEF CurOf, Stamping
<1>8. CASE l.op = "store"
  <2>1. ~StorePending(t)
    BY <1>3, <1>8 DEF ThreadInv, StoreOf, StoreBefore
  <2>2. StoreOf(t)' /\ ~StorePending(t)'
    BY <1>1, <1>8, <2>1, StoreGoesOn DEF SameCall, SameVersions
  <2>3. ~BeforeTry(t)' /\ ~Prepared(t)'
    BY <2>2 DEF BeforeTry, Stamping, Prepared
  <2> QED
    BY <1>6, <1>7, <1>8, <2>2, <2>3 DEF ThreadInv, CasOf, FreshOf, PreparedOf, ChaseOf
<1>9. CASE l.op # "store"
  <2>1. l.op # "snapshot"
    BY <1>3 DEF Control, Stamping
  <2>2. CasOf(t)' /\ StoreOf(t)' /\ FreshOf(t)' /\ PreparedOf(t)' /\ ChaseOf(t)'
    BY <1>9, <2>1, NotUpdating
  <2> QED
    BY <1>6, <1>7, <2>2 DEF ThreadInv
<1> QED
  BY <1>8, <1>9

\* Shortcut keeps the invariant of its own thread: the value takes the place
\* of the link.
LEMMA ShortcutOwn ==
  ASSUME IInv, NEW t \in Threads, Shortcut(t)
  PROVE  ThreadInv(t)'
<1>1. /\ Others(t) /\ loc' = loc /\ pc[t] = "shortcut" /\ pc'[t] = "return"
      /\ hist' = hist /\ SnapStays(t)
  BY ShortcutEffect DEF IInv, SameSnap, SnapStays
<1> QED
  BY <1>1, ShortcutFine, LeavesOwn

\* RetireOld keeps the invariant of its own thread: what was owed is paid.
LEMMA RetireOldOwn ==
  ASSUME IInv, NEW t \in Threads, RetireOld(t)
  PROVE  ThreadInv(t)'
<1>1. /\ Others(t) /\ loc' = loc /\ pc[t] = "retire" /\ pc'[t] \in {"shortcut", "return"}
      /\ hist' = hist /\ SnapStays(t)
  BY RetireOldEffect DEF IInv, SameSnap, SnapStays, SameHeap
<1> QED
  BY <1>1, RetireOldFine, LeavesOwn

\* A thread between two calls.
LEMMA IdleOwn ==
  ASSUME NEW t \in Threads, loc'[t] = NoLocals, pc'[t] \in {"idle", "advance"}
  PROVE  /\ CurOf(t)' /\ CasOf(t)' /\ StoreOf(t)' /\ FreshOf(t)' /\ PreparedOf(t)'
         /\ ChaseOf(t)'
<1>1. CurOf(t)'
  BY DEF CurOf, Stamping
<1> QED
  BY <1>1, NoLocalsFields, NotUpdating

\* Return keeps the invariant of its own thread: it leaves no version
\* without a stamp.
LEMMA ReturnOwn ==
  ASSUME IInv, NEW t \in Threads, Return(t)
  PROVE  ThreadInv(t)'
<1>1. loc'[t] = NoLocals /\ pc[t] = "return" /\ pc'[t] = "idle" /\ SnapStays(t)
  BY ReturnEffect DEF IInv, SameSnap, SnapStays
<1>2. SnapGoesOn(t)
  BY <1>1 DEF SnapGoesOn
<1> QED
  BY <1>1, <1>2, ReturnFine, SnapKept, IdleOwn DEF ThreadInv

\* The parts that a call which starts from an idle thread keeps.
LEMMA StartsSnap ==
  ASSUME NEW t \in Threads, pc[t] # "advance", pc'[t] # "advance", SameSnap
  PROVE  SnapGoesOn(t)
BY DEF SnapGoesOn, SnapStays, SameSnap

\* Load keeps the invariant of its own thread: it looks at the newest
\* version.
LEMMA LoadOwn ==
  ASSUME IInv, NEW t \in Threads, NEW p \in Used, NEW o \in use.ops, Load(t, p, o)
  PROVE  ThreadInv(t)'
<1>0. Types
  BY DEF IInv
<1>1. /\ loc'[t].op = o /\ loc'[t].p = p /\ loc'[t].cur = v[p]
      /\ loc'[t].version = Len(hist[p]) /\ pc[t] = "idle"
      /\ \/ o = "load" /\ SetsStamp(t, v[p], "shortcut")
         \/ o = "validate" /\ SetsStamp(t, v[p], "return")
         \/ o = "read" /\ pc'[t] = "shortcut"
      /\ SameSnap
  BY <1>0, LoadEffect
<1>2. /\ o \in {"load", "validate", "read"} /\ pc'[t] \in {"stamp", "shortcut"}
      /\ pc'[t] = "stamp" => loc'[t].cont # "cas_try"
      /\ pc'[t] = "shortcut" => o = "read"
  BY <1>1 DEF SetsStamp
<1>3. p \in Ptrs
  BY <1>0, RefTypes, UseFacts
<1>4. Fine(t) /\ SnapGoesOn(t)
  BY <1>1, <1>2, LoadFine, StartsSnap
<1>5. ClockOf(t)' /\ PendingOf(t)' /\ WindowOf(t)' /\ SnapOf(t)'
  BY <1>2, <1>4, SnapKept
<1>6. CasOf(t)' /\ StoreOf(t)' /\ FreshOf(t)' /\ PreparedOf(t)' /\ ChaseOf(t)'
  BY <1>1, <1>2, NotUpdating
<1>7. ShowsNext(p, Len(hist[p]), v[p])
  BY <1>3, <1>4, CurrentNext DEF Fine
<1>8. CurOf(t)'
  <2>1. CASE pc'[t] = "stamp"
    BY <1>1, <1>7, <2>1, CurSet
  <2>2. CASE pc'[t] = "shortcut"
    BY <1>1, <1>2, <2>2 DEF CurOf, Stamping
  <2> QED
    BY <1>2, <2>1, <2>2
<1> QED
  BY <1>5, <1>6, <1>8 DEF ThreadInv

\* A cas that has loaded the pointer.
LEMMA CasOwn ==
  ASSUME IInv, NEW t \in Threads, NEW p \in use.cassed, NEW e \in use.nodes \cup {Null},
         NEW x \in use.nodes \cup {Null}, Cas(t, p, e, x)
  PROVE  ThreadInv(t)'
<1> DEFINE m == loc'[t]
           n == Len(hist[p])
<1>1. /\ Others(t) /\ Typed /\ pc[t] = "idle"
      /\ m.op = "cas" /\ m.p = p /\ m.arg = x /\ m.exp = e /\ m.old = v[p]
      /\ m.version = n
      /\ \/ SetsStamp(t, v[p], "return")
         \/ SetsStamp(t, v[p], "cas_try") /\ GetPtr(v[p]) = e /\ e # x
      /\ UseIndirect(x) \/ Fresh(t, x)
      /\ p \in Ptrs /\ SameHeap /\ SameClock /\ SameSnap
  BY CasEffect
<1>2. /\ pc'[t] = "stamp" /\ m.cur = v[p]
      /\ m.cont = "return" \/ (m.cont = "cas_try" /\ GetPtr(v[p]) = e /\ e # x)
  BY <1>1 DEF SetsStamp
<1>3. Fine(t) /\ SnapGoesOn(t)
  BY <1>1, <1>2, CasFine, StartsSnap
<1>4. ClockOf(t)' /\ PendingOf(t)' /\ WindowOf(t)' /\ SnapOf(t)'
  BY <1>2, <1>3, SnapKept
<1>5. ShowsNext(p, n, v[p]) /\ Grows
  BY <1>1, <1>3, CurrentNext, StepFacts DEF Fine
<1>6. CurOf(t)'
  BY <1>1, <1>2, <1>5, CurSet
<1>7. FreshOf(t)'
  <2>1. UseIndirect(x) \/ FreshNext(t, x)
    BY <1>1, FreshStays DEF SameHeap
  <2>2. x \in Values
    BY UseFacts DEF IInv, Types, Values
  <2> QED
    BY <1>1, <1>5, <2>1, <2>2, FreshSet
<1>8. ~Prepared(t)' /\ StoreOf(t)' /\ ChaseOf(t)'
  BY <1>1, <1>2 DEF Prepared, StorePending, StoreOf, ChaseOf
<1>9. CasOf(t)'
  <2>1. CASE m.cont = "return"
    BY <1>2, <2>1 DEF CasOf, BeforeTry, Stamping
  <2>2. CASE m.cont = "cas_try" /\ GetPtr(v[p]) = e /\ e # x
    <3>1. IsIndirect(v[p]) => n # 0 /\ v[p] = hist[p][n]
      BY <1>1, CurrentShows
    <3>2. n \in Nat
      BY <1>1, RefTypes DEF IInv
    <3>3. CasBefore(t)'
      BY <1>1, <1>2, <1>5, <2>2, <3>1, <3>2
         DEF CasBefore, Shows, ShowsNext, GetPtr, IsIndirect, SameHeap
    <3> QED
      BY <1>2, <3>3 DEF CasOf
  <2> QED
    BY <1>2, <2>1, <2>2
<1> QED
  BY <1>4, <1>6, <1>7, <1>8, <1>9 DEF ThreadInv, PreparedOf

\* CasFail keeps the invariant of its own thread: another value was there.
LEMMA CasFailOwn ==
  ASSUME IInv, NEW t \in Threads, CasFail(t)
  PROVE  ThreadInv(t)'
<1> DEFINE l == loc[t]
           m == loc'[t]
<1>1. /\ SameCall(t) /\ pc[t] = "cas_fail" /\ m.version = Len(hist[l.p])
      /\ SetsStamp(t, v[l.p], "return") /\ l.p \in Ptrs /\ SameSnap
  BY CasFailEffect
<1>2. /\ pc'[t] = "stamp" /\ m.cur = v[l.p] /\ m.cont = "return" /\ m.p = l.p
      /\ m.op = "cas"
  BY <1>1, ThreadFacts DEF SetsStamp, SameCall, Control
<1>3. Fine(t) /\ SnapGoesOn(t)
  BY <1>1, <1>2, CasFailFine, StartsSnap
<1>4. ClockOf(t)' /\ PendingOf(t)' /\ WindowOf(t)' /\ SnapOf(t)'
  BY <1>2, <1>3, SnapKept
<1>5. ShowsNext(l.p, Len(hist[l.p]), v[l.p])
  BY <1>1, <1>3, CurrentNext DEF Fine
<1>6. CurOf(t)'
  BY <1>1, <1>2, <1>5, CurSet
<1>7. CasOf(t)' /\ StoreOf(t)' /\ FreshOf(t)' /\ PreparedOf(t)' /\ ChaseOf(t)'
  BY <1>2, NotUpdating
<1> QED
  BY <1>4, <1>6, <1>7 DEF ThreadInv

\* The version that a call has just made is its own.
LEMMA PreparedSet ==
  ASSUME IInv, NEW t \in Threads, Mine(t), NEW new, NEW x \in Values, NEW old \in Refs,
         Prepares(new, x, old), UseIndirect(x) \/ Fresh(t, x),
         use' = use, time_stamp' = time_stamp, done_stamp' = done_stamp, hist' = hist,
         retires' = retires, loc'[t].new = new, loc'[t].arg = x
  PROVE  PreparedOf(t)' /\ NextPtr(new) = x
<1>1. /\ new \in Objects /\ Writes(new)
      /\ IsIndirect(new) => value'[new] = x
      /\ ~IsIndirect(new) => new = x
      /\ use.build # "indirect" /\ IsIndirect(new) /\ x # Null => time_stamp[x] # Tbd
  BY PreparesNew
<1>2. NextPtr(new) = x /\ new # Null
  BY <1>1, Constants DEF NextPtr, Objects
<1>3. ~InHist(new) /\ (IsIndirect(new) => new \in links')
  BY <1>1 DEF Writes
<1>4. ~IsIndirect(new) => ~UseIndirect(x)
  BY DEF Prepares
<1>5. ASSUME IsIndirect(new)
      PROVE  new \notin links /\ new \in Links /\ retires'[new] = 0
  <2>1. new \notin links /\ new \in Links
    BY <1>5, Constants DEF Prepares, IsIndirect
  <2>2. retires[new] \in Nat /\ retires[new] <= 1 /\ retires[new] # 1
    BY <2>1 DEF IInv, Types, RetireInv
  <2>3. retires[new] = 0
    BY <2>2
  <2> QED
    BY <2>1, <2>3
<1>6. ASSUME IsIndirect(new), NEW u \in Threads \ {t}, Prepared(u)'
      PROVE  loc'[u].new # new
  <2>1. Prepared(u) /\ loc'[u] = loc[u]
    BY <1>6, PreparedBefore
  <2>2. PreparedOf(u)
    BY ThreadFacts DEF ThreadInv
  <2> QED
    BY <1>5, <1>6, <2>1, <2>2 DEF PreparedOf
<1> QED
  BY <1>1, <1>2, <1>3, <1>4, <1>5, <1>6
     DEF PreparedOf, NextPtr, GetPtr, IsIndirect, UseIndirect, InHist

\* A version that is made and not installed stays as it is.
LEMMA PreparedGoesOn ==
  ASSUME IInv, NEW t \in Threads, Mine(t), Prepared(t), SameCall(t), loc'[t].new = loc[t].new,
         SameHeap, SameLinks, Others(t)
  PROVE  PreparedOf(t)' /\ FreshOf(t)'
<1>1. PreparedOf(t) /\ FreshOf(t) /\ loc'[t].arg = loc[t].arg /\ loc[t].arg \in Values
  BY ThreadFacts, LocalsFields DEF ThreadInv, SameCall
<1>2. \A u \in Threads \ {t} : Prepared(u)' => Prepared(u) /\ loc'[u] = loc[u]
  BY PreparedBefore
<1>3. PreparedOf(t)'
  BY <1>1, <1>2 DEF PreparedOf, SameHeap, SameLinks, GetPtr, IsIndirect, UseIndirect, InHist
<1>4. FreshOf(t)'
  <2>1. UseIndirect(loc[t].arg) \/ FreshNext(t, loc[t].arg)
    BY <1>1, FreshStays DEF FreshOf, SameHeap
  <2> QED
    BY <1>1, <2>1 DEF FreshOf, Fresh, FreshNext, UseIndirect, SameHeap
<1> QED
  BY <1>3, <1>4

\* A store has loaded the pointer and made its version.
LEMMA StoreOwn ==
  ASSUME NotRedundant, IInv, NEW t \in Threads, NEW p \in use.stored,
         NEW x \in use.nodes \cup {Null}, Store(t, p, x)
  PROVE  ThreadInv(t)'
<1> DEFINE m == loc'[t]
           n == Len(hist[p])
<1>1. /\ Others(t) /\ Typed /\ pc[t] = "idle" /\ pc'[t] = "store_cam"
      /\ m.op = "store" /\ m.p = p /\ m.arg = x /\ m.old = v[p]
      /\ m.version = n + 1 /\ Prepares(m.new, x, v[p])
      /\ \A u \in Threads : loc[u].op = "store" => loc[u].p # p
      /\ UseIndirect(x) \/ Fresh(t, x)
      /\ use.redundant \/ GetPtr(v[p]) # x
      /\ p \in Ptrs /\ x \in Values
      /\ use' = use /\ v' = v /\ time_stamp' = time_stamp /\ hist' = hist
      /\ SameClock /\ retires' = retires /\ SameSnap
  BY StoreEffect
<1>2. Fine(t) /\ SnapGoesOn(t)
  BY <1>1, StoreFine, StartsSnap
<1>3. ClockOf(t)' /\ PendingOf(t)' /\ WindowOf(t)' /\ SnapOf(t)'
  BY <1>1, <1>2, SnapKept
<1>4. /\ ShowsNext(p, n, v[p]) /\ Grows /\ HeapTypes /\ n \in Nat /\ v[p] \in Refs
      /\ done_stamp' = done_stamp /\ Mine(t)
  BY <1>1, <1>2, CurrentNext, StepFacts, RefTypes DEF Fine, IInv, SameClock
<1>5. CurOf(t)' /\ CasOf(t)' /\ ChaseOf(t)'
  BY <1>1 DEF CurOf, Stamping, CasOf, BeforeTry, ChaseOf
<1>6. FreshOf(t)'
  <2>1. UseIndirect(x) \/ FreshNext(t, x)
    BY <1>1, FreshStays
  <2> QED
    BY <1>1, <1>4, <2>1, FreshSet
<1> DEFINE new == m.new
<1> HIDE DEF new
<1>7. PreparedOf(t)' /\ NextPtr(new) = x
  <2>1. Prepares(new, x, v[p]) /\ loc'[t].new = new
    BY <1>1 DEF new
  <2> QED
    BY <1>1, <1>4, <2>1, PreparedSet
<1>8. IsIndirect(v[p]) => n # 0 /\ v[p] = hist[p][n] /\ InHist(v[p])
  <2>1. IsIndirect(v[p]) => n # 0 /\ v[p] = hist[p][n]
    BY <1>1, CurrentShows
  <2>2. n # 0 => n \in 1 .. n
    BY <1>4
  <2> QED
    BY <1>1, <2>1, <2>2 DEF InHist
<1>9. NextPtr(v[p]) # x
  <2>1. IsIndirect(v[p]) => value'[v[p]] = value[v[p]]
    BY <1>4, <1>8 DEF Grows, IsIndirect
  <2>2. GetPtr(v[p]) # x
    BY <1>1 DEF NotRedundant, IInv, Types
  <2> QED
    BY <2>1, <2>2 DEF NextPtr, GetPtr
<1>10. n # 0 => time_stamp[hist[p][n]] # Tbd
  BY <1>1 DEF IInv, LockInv
<1>11. next_version'[new] = v[p]
  <2>1. next_version' = [next_version EXCEPT ![new] = v[p]] /\ new \in Objects
    BY <1>1 DEF Prepares, new
  <2>2. next_version \in [Objects -> Refs]
    BY <1>4 DEF HeapTypes
  <2> QED
    BY <2>1, <2>2
<1>12. StorePending(t)'
  BY <1>1 DEF StorePending
<1>13. StoreBefore(t)'
  BY <1>1, <1>4, <1>8, <1>10, <1>11
     DEF StoreBefore, Shows, ShowsNext, GetPtr, IsIndirect, new
<1>14. StoreOf(t)'
  BY <1>1, <1>7, <1>8, <1>9, <1>12, <1>13
     DEF StoreOf, NextPtr, GetPtr, IsIndirect, InHist, new
<1> QED
  BY <1>3, <1>5, <1>6, <1>7, <1>14 DEF ThreadInv

\* A store has installed its version.
LEMMA StoreInstallOwn ==
  ASSUME IInv, NEW t \in Threads, pc[t] \in {"store_cam", "store_recam"}, Fine(t),
         SameCall(t), SameVersions(t), Installs(loc[t].p, loc[t].new),
         loc[t].new \in Objects, ~StorePending(t)', ~Prepared(t)', value' = value, SameSnap,
         pc'[t] = "store_check" \/ (pc'[t] = "stamp" /\ loc'[t].cur = loc[t].new)
  PROVE  ThreadInv(t)'
<1> DEFINE l == loc[t]
           p == l.p
           n == Len(hist[p])
<1>1. /\ l.op = "store" /\ p \in Ptrs /\ n \in Nat /\ l.version = n + 1
      /\ GetPtr(l.old) # l.arg /\ l.old \in Refs /\ Prepared(t)
  BY StoreReady
<1>2. /\ loc'[t].op = "store" /\ loc'[t].p = p /\ loc'[t].arg = l.arg /\ loc'[t].old = l.old
      /\ loc'[t].new = l.new /\ loc'[t].version = n + 1
  BY <1>1 DEF SameCall, SameVersions
<1>3. Grows /\ HeapTypes
  BY StepFacts DEF Fine
<1>4. SnapGoesOn(t)
  BY StartsSnap
<1>5. ClockOf(t)' /\ PendingOf(t)' /\ WindowOf(t)' /\ SnapOf(t)'
  BY <1>4, SnapKept
<1>6. CurOf(t)'
  <2>1. ShowsNext(p, n + 1, l.new)
    BY <1>1, <1>3, InstalledNext
  <2>2. CASE pc'[t] = "stamp" /\ loc'[t].cur = l.new
    BY <1>2, <2>1, <2>2, CurSet
  <2>3. CASE pc'[t] = "store_check"
    BY <2>3 DEF CurOf, Stamping
  <2> QED
    BY <2>2, <2>3
<1>7. CasOf(t)' /\ ChaseOf(t)' /\ FreshOf(t)' /\ PreparedOf(t)'
  BY <1>2 DEF CasOf, BeforeTry, ChaseOf, FreshOf, PreparedOf
<1>8. GetPtr(l.new) = l.arg
  BY <1>1, PreparedNew
<1>9. IsIndirect(l.old) =>
        \E q \in Ptrs : \E k \in 1 .. Len(hist'[q]) : hist'[q][k] = l.old
  <2>1. \A x \in Refs : InHist(x) => InHist(x)'
    BY <1>3, InHistGrows
  <2>2. IsIndirect(l.old) => InHist(l.old)
    BY <1>1, ThreadFacts DEF ThreadInv, StoreOf
  <2> QED
    BY <1>1, <2>1, <2>2 DEF InHist
<1>10. StoreDone(t)'
  <2>1. Len(hist'[p]) = n + 1 /\ hist'[p][n + 1] = l.new
    BY <1>1, <1>3, InstallsHist
  <2> QED
    BY <1>1, <1>2, <2>1 DEF StoreDone
<1>11. StoreOf(t)'
  BY <1>1, <1>2, <1>8, <1>9, <1>10 DEF StoreOf, GetPtr, IsIndirect, InHist
<1> QED
  BY <1>5, <1>6, <1>7, <1>11 DEF ThreadInv

\* StoreWrite keeps the invariant of its own thread: nobody came in between.
LEMMA StoreWriteOwn ==
  ASSUME IInv, NEW t \in Threads, StoreWrite(t)
  PROVE  ThreadInv(t)'
<1>1. /\ SameCall(t) /\ SameVersions(t) /\ pc[t] = "store_cam"
      /\ pc'[t] = "stamp" /\ loc'[t].cur = loc[t].new /\ value' = value /\ SameSnap
  BY StoreWriteEffect DEF SetsStamp
<1>2. /\ Fine(t) /\ ~StorePending(t)' /\ ~Prepared(t)' /\ Installs(loc[t].p, loc[t].new)
      /\ loc[t].new \in Objects
  BY StoreWriteFine
<1> QED
  BY <1>1, <1>2, StoreInstallOwn

\* StoreRecam keeps the invariant of its own thread: the second cam cannot
\* lose.
LEMMA StoreRecamOwn ==
  ASSUME IInv, NEW t \in Threads, StoreRecam(t)
  PROVE  ThreadInv(t)'
<1>1. /\ SameCall(t) /\ SameVersions(t) /\ pc[t] = "store_recam"
      /\ pc'[t] = "stamp" /\ loc'[t].cur = loc[t].new /\ value' = value /\ SameSnap
  BY StoreRecamEffect DEF SetsStamp
<1>2. /\ Fine(t) /\ ~StorePending(t)' /\ ~Prepared(t)' /\ Installs(loc[t].p, loc[t].new)
      /\ loc[t].new \in Objects
  BY StoreRecamFine
<1> QED
  BY <1>1, <1>2, StoreInstallOwn

\* A store whose cam lost to a shortcut still has its version to install.
LEMMA StoreWaits ==
  ASSUME IInv, NEW t \in Threads, Fine(t), Others(t), loc[t].op = "store", StorePending(t),
         SameCall(t), SameVersions(t), SameHeap, SameLinks, SameSnap,
         use.build = "hybrid", IsIndirect(loc[t].old), v[loc[t].p] = value[loc[t].old],
         pc'[t] \in {"store_check", "store_recam"}
  PROVE  ThreadInv(t)'
<1> DEFINE l == loc[t]
<1>1. StoreOf(t) /\ Control(t) /\ Prepared(t)
  BY ThreadFacts DEF ThreadInv, Prepared
<1>2. StoreBefore(t)
  BY <1>1 DEF StoreOf
<1>3. SnapGoesOn(t)
  BY <1>2, StartsSnap DEF StoreBefore
<1>4. ClockOf(t)' /\ PendingOf(t)' /\ WindowOf(t)' /\ SnapOf(t)'
  BY <1>3, SnapKept
<1>5. PreparedOf(t)' /\ FreshOf(t)'
  BY <1>1, PreparedGoesOn DEF Fine, SameVersions
<1>6. /\ loc'[t].op = "store" /\ loc'[t].p = l.p /\ loc'[t].arg = l.arg
      /\ loc'[t].old = l.old /\ loc'[t].new = l.new /\ loc'[t].version = l.version
  BY DEF SameCall, SameVersions
<1>7. CurOf(t)' /\ CasOf(t)' /\ ChaseOf(t)'
  BY <1>6 DEF CurOf, CasOf, BeforeTry, Stamping, ChaseOf
<1>8. Grows /\ HeapTypes /\ HeapTypes' /\ HistInv /\ ClockInv
  BY StepFacts DEF Fine, HeapInv
<1>9. l.p \in Ptrs /\ Len(hist[l.p]) \in Nat /\ l.old \in Refs
  BY ThreadFacts, LocalsFields, RefTypes DEF IInv
<1>10. ShowsNext(l.p, Len(hist[l.p]), l.old)
  BY <1>2, <1>8, <1>9, ShowsStays DEF StoreBefore
<1>11. StorePending(t)'
  BY <1>6 DEF StorePending, SameHeap
<1>12. StoreBefore(t)'
  BY <1>2, <1>6, <1>10
     DEF StoreBefore, Shows, ShowsNext, GetPtr, IsIndirect, SameHeap
<1>13. StoreOf(t)'
  BY <1>1, <1>6, <1>11, <1>12 DEF StoreOf, GetPtr, IsIndirect, InHist, SameHeap
<1> QED
  BY <1>4, <1>5, <1>7, <1>13 DEF ThreadInv

\* StoreCam keeps the invariant of its own thread: a lost cam leaves it with
\* its version.
LEMMA StoreCamOwn ==
  ASSUME IInv, NEW t \in Threads, StoreCam(t)
  PROVE  ThreadInv(t)'
<1> DEFINE l == loc[t]
<1>0. /\ Others(t) /\ SameCall(t) /\ SameVersions(t)
      /\ pc[t] = "store_cam" /\ use.build = "hybrid"
      /\ IF IsIndirect(l.old) THEN pc'[t] = "store_check"
         ELSE SetsStamp(t, l.new, "shortcut") \/ SetsStamp(t, l.new, "return")
      /\ value' = value /\ SameLinks /\ SameSnap
  BY StoreCamEffect
<1>1. /\ IsIndirect(l.old) => pc'[t] = "store_check"
      /\ pc'[t] = "store_check" \/ (pc'[t] = "stamp" /\ loc'[t].cur = l.new)
  BY <1>0 DEF SetsStamp
<1>2. /\ Fine(t)
      /\ \/ /\ v[l.p] = l.old /\ ~StorePending(t)' /\ ~Prepared(t)'
            /\ Installs(l.p, l.new) /\ l.new \in Objects
         \/ v[l.p] # l.old /\ IsIndirect(l.old) /\ SameHeap
  BY StoreCamFine
<1>3. CASE v[l.p] = l.old
  BY <1>0, <1>1, <1>2, <1>3, StoreInstallOwn
<1>4. CASE v[l.p] # l.old
  <2>1. v[l.p] = value[l.old] /\ l.op = "store" /\ StorePending(t)
    BY <1>0, <1>4, StoreReady DEF StoreBefore
  <2> QED
    BY <1>0, <1>1, <1>2, <1>4, <2>1, StoreWaits
<1> QED
  BY <1>3, <1>4

\* The check tells a cam that lost to a shortcut from one that did not: the new
\* value is not the old one.
LEMMA CheckDecides ==
  ASSUME IInv, NEW t \in Threads, pc[t] = "store_check"
  PROVE  /\ loc[t].op = "store" /\ loc[t].p \in Ptrs /\ use.build = "hybrid"
         /\ IsIndirect(loc[t].old)
         /\ v[loc[t].p] = value[loc[t].old] <=> StorePending(t)
<1> DEFINE l == loc[t]
           p == l.p
           n == Len(hist[p])
<1>1. /\ l.op = "store" /\ p \in Ptrs /\ use.build = "hybrid" /\ IsIndirect(l.old)
      /\ StoreOf(t)
  BY ThreadFacts DEF Control, ThreadInv
<1>2. CASE StorePending(t)
  BY <1>1, <1>2 DEF StoreOf, StoreBefore
<1>3. CASE ~StorePending(t)
  <2>1. n # 0 /\ l.new = hist[p][n] /\ GetPtr(l.old) # l.arg /\ GetPtr(l.new) = l.arg
    BY <1>1, <1>3 DEF StoreOf, StoreDone
  <2>2. GetPtr(v[p]) = l.arg
    BY <1>1, <2>1, CurrentValue DEF VersionValue
  <2>3. value[l.old] \in Values
    BY <1>1, RefTypes DEF IInv, IsIndirect
  <2>4. value[l.old] \notin Links
    BY <2>3, Constants DEF Values
  <2> QED
    BY <1>1, <1>3, <2>1, <2>2, <2>4 DEF GetPtr, IsIndirect
<1> QED
  BY <1>1, <1>2, <1>3

\* StoreCheck keeps the invariant of its own thread: the test decides it.
LEMMA StoreCheckOwn ==
  ASSUME IInv, NEW t \in Threads, StoreCheck(t)
  PROVE  ThreadInv(t)'
<1> DEFINE l == loc[t]
           p == l.p
           n == Len(hist[p])
<1>0. /\ Others(t) /\ SameCall(t) /\ SameVersions(t)
      /\ pc[t] = "store_check"
      /\ \/ v[p] = value[l.old] /\ pc'[t] = "store_recam" /\ retires' = retires
         \/ /\ v[p] # value[l.old]
            /\ SetsStamp(t, l.new, "shortcut") \/ SetsStamp(t, l.new, "return")
      /\ SameHeap /\ SameClock /\ links' = links /\ SameSnap
  BY StoreCheckEffect
<1>1. \/ v[p] = value[l.old] /\ pc'[t] = "store_recam" /\ retires' = retires
      \/ v[p] # value[l.old] /\ pc'[t] = "stamp" /\ loc'[t].cur = l.new
  BY <1>0 DEF SetsStamp
<1>2. Fine(t)
  BY StoreCheckFine
<1>3. /\ l.op = "store" /\ p \in Ptrs /\ use.build = "hybrid" /\ IsIndirect(l.old)
      /\ v[p] = value[l.old] <=> StorePending(t)
  BY <1>0, CheckDecides
<1>4. CASE v[p] = value[l.old]
  BY <1>0, <1>1, <1>2, <1>3, <1>4, StoreWaits DEF SameLinks
<1>5. CASE v[p] # value[l.old]
  <2>1. pc'[t] = "stamp" /\ loc'[t].cur = l.new /\ ~StorePending(t) /\ hist' = hist
    BY <1>0, <1>1, <1>3, <1>5 DEF SameHeap
  <2>2. StoreOf(t)' /\ ~StorePending(t)'
    BY <1>0, <1>2, <1>3, <2>1, StoreGoesOn DEF Fine
  <2>3. SnapGoesOn(t)
    BY <1>0, <2>1, StartsSnap
  <2>4. ClockOf(t)' /\ PendingOf(t)' /\ WindowOf(t)' /\ SnapOf(t)'
    BY <1>2, <2>1, <2>3, SnapKept
  <2>5. /\ loc'[t].op = "store" /\ loc'[t].p = p /\ loc'[t].version = l.version
    BY <1>0, <1>3 DEF SameCall, SameVersions
  <2>6. ~BeforeTry(t)' /\ ~Prepared(t)'
    BY <2>1, <2>2, <2>5 DEF BeforeTry, Prepared
  <2>7. n # 0 /\ l.version = n /\ l.new = hist[p][n] /\ n \in Nat
    BY <1>3, <2>1, ThreadFacts, RefTypes DEF ThreadInv, StoreOf, StoreDone, IInv
  <2>8. ShowsNext(p, l.version, l.new)
    BY <2>1, <2>7 DEF ShowsNext
  <2>9. CurOf(t)'
    BY <2>1, <2>5, <2>8, CurSet
  <2> QED
    BY <2>1, <2>2, <2>4, <2>5, <2>6, <2>9
       DEF ThreadInv, CasOf, FreshOf, PreparedOf, ChaseOf
<1> QED
  BY <1>4, <1>5

\* A cas has installed its version.
LEMMA CasInstallOwn ==
  ASSUME IInv, NEW t \in Threads, Fine(t), loc[t].op = "cas", SameCall(t), SameSnap,
         pc[t] # "advance", loc'[t].version = Len(hist[loc[t].p]) + 1,
         NEW x \in Objects, Installs(loc[t].p, x), SetsStamp(t, x, "retire")
  PROVE  ThreadInv(t)'
<1> DEFINE p == loc[t].p
<1>1. /\ pc'[t] = "stamp" /\ loc'[t].cur = x /\ loc'[t].cont = "retire"
      /\ loc'[t].op = "cas" /\ loc'[t].p = p
  BY DEF SetsStamp, SameCall
<1>2. p \in Ptrs /\ HeapTypes
  BY ThreadFacts, HeapTypesHold DEF IInv
<1>3. ShowsNext(p, Len(hist[p]) + 1, x)
  BY <1>2, InstalledNext
<1>4. CurOf(t)'
  BY <1>1, <1>3, CurSet
<1>5. SnapGoesOn(t)
  BY <1>1, StartsSnap
<1>6. ClockOf(t)' /\ PendingOf(t)' /\ WindowOf(t)' /\ SnapOf(t)'
  BY <1>1, <1>5, SnapKept
<1>7. CasOf(t)' /\ StoreOf(t)' /\ FreshOf(t)' /\ PreparedOf(t)' /\ ChaseOf(t)'
  BY <1>1, NotUpdating
<1> QED
  BY <1>4, <1>6, <1>7 DEF ThreadInv

\* A cas that has lost a try: to a shortcut, or to another value.
LEMMA CasTryOwn ==
  ASSUME IInv, NEW t \in Threads, CasTry(t)
  PROVE  ThreadInv(t)'
<1> DEFINE l == loc[t]
           m == loc'[t]
           p == l.p
           n == Len(hist[p])
           k == l.version
<1>1. /\ Others(t) /\ SameCall(t) /\ pc[t] = "cas_try" /\ Prepares(m.new, l.arg, l.old)
      /\ p \in Ptrs
      /\ \/ /\ v[p] = l.old /\ Installs(p, m.new)
            /\ m.version = n + 1 /\ SetsStamp(t, m.new, "retire")
         \/ /\ v[p] # l.old /\ v' = v /\ hist' = hist /\ m.version = k
            /\ \/ Retries(l) /\ pc'[t] = "cas_retry" /\ m.old = value[l.old]
               \/ ~Retries(l) /\ pc'[t] = "cas_fail" /\ m.old = l.old
      /\ use' = use /\ time_stamp' = time_stamp
      /\ SameClock /\ retires' = retires /\ SameSnap
  BY CasTryEffect
<1>2. Fine(t) /\ m.new \in Objects
  BY CasTryFine
<1>3. l.op = "cas" /\ BeforeTry(t) /\ ThreadInv(t)
  BY <1>1, ThreadFacts DEF Control, BeforeTry
<1>4. CASE v[p] = l.old
  BY <1>1, <1>2, <1>3, <1>4, CasInstallOwn
<1>5. CASE v[p] # l.old
  <2>1. /\ v' = v /\ hist' = hist /\ m.version = k /\ pc'[t] \in {"cas_retry", "cas_fail"}
        /\ m.op = "cas" /\ m.p = p /\ m.arg = l.arg /\ m.exp = l.exp
    BY <1>1, <1>3, <1>5 DEF SameCall
  <2>2. SnapGoesOn(t)
    BY <1>1, <2>1, StartsSnap
  <2>3. ClockOf(t)' /\ PendingOf(t)' /\ WindowOf(t)' /\ SnapOf(t)'
    BY <1>2, <2>1, <2>2, SnapKept
  <2>4. /\ Mine(t) /\ Grows /\ HeapTypes /\ done_stamp' = done_stamp
        /\ l.arg \in Values /\ l.old \in Refs /\ k \in Nat /\ n \in Nat
        /\ UseIndirect(l.arg) \/ Fresh(t, l.arg)
    BY <1>1, <1>2, <1>3, ThreadFacts, LocalsFields, StepFacts, RefTypes
       DEF Fine, SameClock, ThreadInv, FreshOf, IInv
  <2> DEFINE new == m.new
  <2>5. PreparedOf(t)'
    <3> HIDE DEF new
    <3>1. Prepares(new, l.arg, l.old) /\ loc'[t].new = new
      BY <1>1 DEF new
    <3> QED
      BY <1>1, <2>1, <2>4, <3>1, PreparedSet
  <2>6. FreshOf(t)'
    <3>1. UseIndirect(l.arg) \/ FreshNext(t, l.arg)
      BY <1>1, <2>1, <2>4, FreshStays
    <3> QED
      BY <2>1, <2>4, <3>1, FreshSet
  <2>7. CurOf(t)' /\ StoreOf(t)' /\ ChaseOf(t)' /\ ~BeforeTry(t)'
    BY <2>1 DEF CurOf, Stamping, StoreOf, ChaseOf, BeforeTry
  <2>8. /\ Shows(p, k, l.old)
        /\ IsIndirect(l.old) => k # 0 /\ l.old = hist[p][k]
        /\ GetPtr(l.old) = l.exp /\ l.exp # l.arg /\ Stamped(l.old)
        /\ n = k => v[p] = l.old \/ (use.build = "hybrid" /\ IsIndirect(l.old))
        /\ n > k => VersionValue(p, k + 1) # l.exp
    BY <1>1, <1>3 DEF ThreadInv, CasOf, CasBefore
  <2>9. k \in 0 .. n
    BY <2>4, <2>8 DEF Shows
  <2>10. n > k => ValueNext(p, k + 1) # l.exp
    BY <1>1, <2>4, <2>8, <2>9, ValueStays
  <2>11. CASE Retries(l)
    <3>1. /\ use.build = "hybrid" /\ IsIndirect(l.old) /\ m.old = value[l.old]
          /\ pc'[t] = "cas_retry"
      BY <1>1, <1>5, <2>11 DEF Retries
    <3>2. k \in 1 .. n /\ l.old = hist[p][k] /\ InHist(l.old) /\ l.old # Null
      BY <1>1, <2>4, <2>8, <2>9, <3>1, VersionFacts
    <3>3. time_stamp[l.old] # Tbd /\ l.exp = value[l.old] /\ value'[l.old] = value[l.old]
      BY <2>4, <2>8, <3>1, <3>2 DEF Stamped, GetPtr, Grows, IsIndirect
    <3>4. next_version'[new] = l.old
      <4>1. next_version' = [next_version EXCEPT ![new] = l.old] /\ new \in Objects
        BY <1>1 DEF Prepares
      <4>2. next_version \in [Objects -> Refs]
        BY <2>4 DEF HeapTypes
      <4> QED
        BY <4>1, <4>2
    <3>5. k + 1 # 0
      BY <2>4
    <3>6. CasBetween(t)'
      BY <1>1, <1>5, <2>1, <2>8, <2>10, <3>1, <3>2, <3>3, <3>4, <3>5
         DEF CasBetween, VersionValue, ValueNext, GetPtr, IsIndirect
    <3>7. CasOf(t)'
      BY <2>7, <3>1, <3>6 DEF CasOf
    <3> QED
      BY <2>3, <2>5, <2>6, <2>7, <3>7 DEF ThreadInv
  <2>12. CASE ~Retries(l)
    <3>1. pc'[t] = "cas_fail" /\ n # k
      BY <1>1, <1>5, <2>8, <2>12 DEF Retries
    <3>2. n > k /\ k + 1 \in k .. n /\ k + 1 # 0
      BY <2>4, <2>9, <3>1
    <3>3. ValueNext(p, k + 1) # l.exp
      BY <2>10, <3>2
    <3>4. VersionValue(loc[t].p, k + 1)' = ValueNext(p, k + 1)
      BY <2>1 DEF VersionValue, ValueNext, GetPtr, IsIndirect
    <3>5. CasLost(t)'
      BY <2>1, <3>2, <3>3, <3>4 DEF CasLost
    <3>6. CasOf(t)'
      BY <2>7, <3>1, <3>5 DEF CasOf
    <3> QED
      BY <2>3, <2>5, <2>6, <2>7, <3>6 DEF ThreadInv
  <2> QED
    BY <2>11, <2>12
<1> QED
  BY <1>4, <1>5

\* CasRetry keeps the invariant of its own thread: a success has met no ABA.
LEMMA CasRetryOwn ==
  ASSUME IInv, NEW t \in Threads, CasRetry(t)
  PROVE  ThreadInv(t)'
<1> DEFINE l == loc[t]
           m == loc'[t]
           p == l.p
           n == Len(hist[p])
           k == l.version
<1>1. /\ Others(t) /\ SameCall(t) /\ pc[t] = "cas_retry" /\ m.new = l.new
      /\ p \in Ptrs
      /\ \/ /\ v[p] = l.old /\ Installs(p, l.new)
            /\ m.version = n + 1 /\ SetsStamp(t, l.new, "retire")
         \/ v[p] # l.old /\ m.version = k /\ pc'[t] = "cas_fail"
      /\ SameLinks /\ SameSnap
  BY CasRetryEffect
<1>2. Fine(t) /\ l.new \in Objects /\ (v[p] # l.old => SameHeap)
  BY CasRetryFine
<1>3. l.op = "cas" /\ CasBetween(t) /\ Prepared(t)
  BY <1>1, ThreadFacts DEF Control, ThreadInv, CasOf, Prepared
<1>4. CASE v[p] = l.old
  BY <1>1, <1>2, <1>3, <1>4, CasInstallOwn
<1>5. CASE v[p] # l.old
  <2>1. m.version = k /\ pc'[t] = "cas_fail" /\ SameHeap /\ m.op = "cas"
    BY <1>1, <1>2, <1>3, <1>5 DEF SameCall
  <2>2. SnapGoesOn(t)
    BY <1>1, <2>1, StartsSnap
  <2>3. ClockOf(t)' /\ PendingOf(t)' /\ WindowOf(t)' /\ SnapOf(t)'
    BY <1>2, <2>1, <2>2, SnapKept
  <2>4. PreparedOf(t)' /\ FreshOf(t)'
    BY <1>1, <1>2, <1>3, <2>1, PreparedGoesOn DEF Fine
  <2>5. CurOf(t)' /\ StoreOf(t)' /\ ChaseOf(t)' /\ ~BeforeTry(t)'
    BY <2>1 DEF CurOf, Stamping, StoreOf, ChaseOf, BeforeTry
  <2>6. /\ k \in 1 .. n /\ n \in Nat /\ next_version[l.new] = hist[p][k]
        /\ l.old = value[hist[p][k]]
        /\ n = k => v[p] # hist[p][k]
        /\ n > k => VersionValue(p, k + 1) # l.exp
    BY <1>1, <1>3, RefTypes DEF CasBetween, IInv
  <2>7. n # k
    BY <1>1, <1>5, <2>6 DEF IInv, HeapInv, PtrInv
  <2>8. k + 1 \in k .. n /\ VersionValue(p, k + 1) # l.exp
    BY <2>6, <2>7
  <2>9. CasLost(t)
    BY <2>8 DEF CasLost
  <2>10. CasLost(t)'
    BY <1>1, <1>2, <1>3, <2>1, <2>9, LostGoesOn DEF Fine
  <2>11. CasOf(t)'
    BY <2>1, <2>5, <2>10 DEF CasOf
  <2> QED
    BY <2>3, <2>4, <2>5, <2>11 DEF ThreadInv
<1> QED
  BY <1>4, <1>5

\* A thread that is in no call has the locals of none.
LEMMA IdleLocals ==
  ASSUME IInv, NEW t \in Threads, pc[t] \in {"idle", "advance"}
  PROVE  loc[t] = NoLocals
BY ThreadFacts DEF Control

\* A snapshot has taken its stamp, which is the clock's: what completed calls
\* have seen is stamped at or before it.
LEMMA SnapshotLoadOwn ==
  ASSUME IInv, NEW t \in Threads, SnapshotLoad(t)
  PROVE  ThreadInv(t)'
<1>0. Types /\ ClockInv /\ SeenInv /\ SnapOf(t) /\ HeapTypes
  BY ThreadFacts, HeapTypesHold DEF IInv, ThreadInv
<1>1. /\ loc' = loc /\ pc[t] = "idle" /\ pc'[t] = "advance"
      /\ local_stamp[t] = NoStamp
      /\ local_stamp' = [local_stamp EXCEPT ![t] = stamp]
      /\ window' = [window EXCEPT ![t] = [p \in Ptrs |-> <<seen[p], 0>>]]
      /\ SameHeap /\ SameClock /\ snap' = snap
  BY <1>0, SnapshotLoadEffect
<1>2. loc'[t] = NoLocals
  BY <1>1, IdleLocals
<1>3. local_stamp'[t] = stamp /\ window'[t] = [p \in Ptrs |-> <<seen[p], 0>>]
  BY <1>0, <1>1 DEF Types
<1>4. stamp \in Nat /\ done_stamp \in Nat /\ done_stamp <= stamp /\ stamp <= stamp
  BY <1>0, BelowTbd DEF ClockInv
<1>5. ClockOf(t)' /\ PendingOf(t)'
  BY <1>1, <1>3, <1>4 DEF ClockOf, PendingOf, SameClock
<1>6. SnapOf(t)'
  BY <1>0, <1>1 DEF SnapOf
<1>7. WindowOf(t)'
  <2>1. ASSUME NEW p \in Ptrs, seen[p] # 0 PROVE time_stamp[hist[p][seen[p]]] <= stamp
    <3>1. seen[p] \in 1 .. Len(hist[p])
      <4>1. seen[p] \in Nat /\ seen[p] <= Len(hist[p])
        BY <1>0 DEF SeenInv, Types
      <4>2. Len(hist[p]) \in Nat
        BY <1>0 DEF HeapTypes
      <4> QED
        BY <2>1, <4>1, <4>2
    <3>2. time_stamp[hist[p][seen[p]]] # Tbd
      BY <1>0, <2>1 DEF SeenInv
    <3> QED
      BY <1>0, <3>1, <3>2, VersionFacts DEF ClockInv
  <2>2. \A p \in Ptrs : seen[p] <= Len(hist[p])
    BY <1>0 DEF SeenInv
  <2>3. \A p \in Ptrs : window'[t][p][1] = seen[p]
    BY <1>3
  <2> QED
    BY <1>1, <1>3, <2>1, <2>2, <2>3 DEF WindowOf, SameHeap
<1> QED
  BY <1>1, <1>2, <1>5, <1>6, <1>7, IdleOwn DEF ThreadInv

\* The clock is past the stamp of a snapshot once it starts to read.
LEMMA SnapshotAdvanceOwn ==
  ASSUME IInv, NEW t \in Threads, SnapshotAdvance(t)
  PROVE  ThreadInv(t)'
<1>0. /\ Types /\ ClockInv /\ SnapOf(t) /\ WindowOf(t) /\ ClockOf(t) /\ HeapTypes
      /\ Control(t)
  BY ThreadFacts, HeapTypesHold DEF IInv, ThreadInv
<1>1. /\ loc' = loc /\ pc[t] = "advance" /\ pc'[t] = "idle"
      /\ \/ stamp' = stamp + 1
         \/ stamp # local_stamp[t] /\ stamp' = stamp
      /\ window' = [window EXCEPT ![t] =
                      [p \in Ptrs |-> <<window[t][p][1], Len(hist[p])>>]]
      /\ SameHeap /\ done_stamp' = done_stamp
      /\ local_stamp' = local_stamp /\ snap' = snap
  BY <1>0, SnapshotAdvanceEffect
<1>2. loc'[t] = NoLocals
  BY <1>1, IdleLocals
<1>3. window'[t] = [p \in Ptrs |-> <<window[t][p][1], Len(hist[p])>>]
  BY <1>0, <1>1 DEF Types
<1>4. local_stamp[t] # NoStamp
  BY <1>0, <1>1 DEF Control
<1>5. stamp \in Nat /\ local_stamp[t] \in Nat
  BY <1>0, <1>4 DEF Types
<1>6. ClockOf(t)' /\ PendingOf(t)'
  BY <1>0, <1>1, <1>4, <1>5 DEF ClockOf, PendingOf
<1>7. SnapOf(t)'
  BY <1>0, <1>1 DEF SnapOf
<1>8. WindowOf(t)'
  <2>1. ASSUME NEW p \in Ptrs
        PROVE  /\ window'[t][p][1] = window[t][p][1] /\ window'[t][p][2] = Len(hist[p])
               /\ Len(hist[p]) \in Nat /\ Len(hist[p]) <= Len(hist[p])
               /\ Len(hist[p]) + 1 .. Len(hist[p]) = {}
    BY <1>0, <1>3 DEF HeapTypes
  <2>2. \A p \in Ptrs : /\ window[t][p][1] <= Len(hist[p])
                        /\ window[t][p][1] # 0 =>
                             time_stamp[hist[p][window[t][p][1]]] <= local_stamp[t]
    BY <1>0, <1>4 DEF WindowOf
  <2> QED
    BY <1>1, <2>1, <2>2 DEF WindowOf, SameHeap, Above
<1> QED
  BY <1>1, <1>2, <1>6, <1>7, <1>8, IdleOwn DEF ThreadInv

\* SnapshotEnd keeps the invariant of its own thread: nothing is read any
\* more.
LEMMA SnapshotEndOwn ==
  ASSUME IInv, NEW t \in Threads, SnapshotEnd(t)
  PROVE  ThreadInv(t)'
<1>0. Types
  BY DEF IInv
<1>1. /\ pc' = pc /\ loc' = loc /\ pc[t] = "idle"
      /\ local_stamp' = [local_stamp EXCEPT ![t] = NoStamp]
      /\ snap' = [snap EXCEPT ![t] = [p \in Ptrs |-> Unread]]
  BY <1>0, SnapshotEndEffect
<1>2. loc'[t] = NoLocals /\ pc'[t] = "idle"
  BY <1>1, IdleLocals
<1>3. local_stamp'[t] = NoStamp /\ \A p \in Ptrs : snap'[t][p] = Unread
  BY <1>0, <1>1 DEF Types
<1>4. ClockOf(t)' /\ PendingOf(t)' /\ WindowOf(t)' /\ SnapOf(t)'
  BY <1>2, <1>3 DEF ClockOf, PendingOf, WindowOf, SnapOf
<1> QED
  BY <1>2, <1>4, IdleOwn DEF ThreadInv

\* A snapshot starts down the chain of p from the newest version.
LEMMA ReadSnapshotOwn ==
  ASSUME IInv, NEW t \in Threads, NEW p \in Used, ReadSnapshot(t, p)
  PROVE  ThreadInv(t)'
<1> DEFINE n == Len(hist[p])
<1>0. Types
  BY DEF IInv
<1>1. /\ pc[t] = "idle" /\ loc'[t].op = "snapshot" /\ loc'[t].p = p
      /\ SetsStamp(t, v[p], "chase") /\ p \in Ptrs
      /\ SameHeap /\ SameSnap
  BY <1>0, ReadSnapshotEffect
<1>2. pc'[t] = "stamp" /\ loc'[t].cur = v[p]
  BY <1>1 DEF SetsStamp
<1>3. Fine(t) /\ SnapGoesOn(t)
  BY <1>1, <1>2, ReadSnapshotFine, StartsSnap
<1>4. ClockOf(t)' /\ PendingOf(t)' /\ WindowOf(t)' /\ SnapOf(t)'
  BY <1>2, <1>3, SnapKept
<1>5. CurOf(t)'
  BY <1>1, <1>2, CurSet
<1>6. ~BeforeTry(t)' /\ ~Prepared(t)'
  BY <1>1, <1>2 DEF BeforeTry, Prepared, StorePending
<1>7. ShowsNext(p, n, v[p]) /\ n \in Nat /\ hist' = hist
  BY <1>0, <1>1, <1>3, CurrentNext, RefTypes DEF Fine, SameHeap
<1>8. n \in 0 .. n /\ n + 1 .. n = {}
  BY <1>7
<1>9. Shows(loc[t].p, n, loc[t].cur)'
  BY <1>1, <1>2, <1>7 DEF Shows, ShowsNext, GetPtr, IsIndirect
<1>10. Above(loc[t].p, n, local_stamp[t])'
  BY <1>1, <1>7, <1>8 DEF Above
<1>11. ChaseAt(t)'
  BY <1>1, <1>7, <1>8, <1>9, <1>10 DEF ChaseAt
<1> QED
  BY <1>1, <1>2, <1>4, <1>5, <1>6, <1>11
     DEF ThreadInv, CasOf, StoreOf, FreshOf, PreparedOf, ChaseOf

\* Where a snapshot is: at a version too new for it, above the next one, or at
\* the version that it consists of.
LEMMA ChaseStep ==
  ASSUME IInv, NEW t \in Threads, pc[t] = "chase", NEW j \in 0 .. Len(hist[loc[t].p]),
         Shows(loc[t].p, j, loc[t].cur), Above(loc[t].p, j, local_stamp[t])
  PROVE  LET l == loc[t]  p == l.p  x == l.cur  ls == local_stamp[t] IN
         IF x # Null /\ ls < time_stamp[x]
         THEN /\ j # 0 /\ Shows(p, j - 1, next_version[x]) /\ Above(p, j - 1, ls)
              /\ Stamped(next_version[x])
         ELSE j # 0 => time_stamp[hist[p][j]] <= ls
<1> DEFINE l == loc[t]
           p == l.p
           x == l.cur
           ls == local_stamp[t]
<1>1. /\ HeapTypes /\ ClockInv /\ ChainInv /\ OrderInv /\ Control(t) /\ ClockOf(t)
      /\ ChaseOf(t) /\ l \in Locals
  BY ThreadFacts, HeapTypesHold DEF IInv, HeapInv, ThreadInv
<1>2. l.op = "snapshot" /\ p \in Ptrs /\ x \in Refs /\ Stamped(x)
  BY <1>1, ThreadFacts, LocalsFields DEF Control, ChaseOf
<1>3. ls \in Nat /\ done_stamp <= ls /\ done_stamp \in Nat /\ done_stamp < Tbd /\ Tbd \in Nat
  <2>1. ls \in Nat \cup {NoStamp} /\ ls # NoStamp
    BY <1>1, <1>2 DEF IInv, Types, Control
  <2> QED
    BY <1>1, <2>1, BelowTbd DEF ClockOf
<1>4. Len(hist[p]) \in Nat
  BY <1>1, <1>2 DEF HeapTypes
<1>5. j # 0 => j \in 1 .. Len(hist[p]) /\ hist[p][j] \in Objects
               /\ time_stamp[hist[p][j]] \in Nat
  BY <1>1, <1>2, <1>4, VersionFacts
<1>6. x # Null => x \in Objects /\ time_stamp[x] \in Nat
  BY <1>1, <1>2, BelowTbd DEF Refs
<1>7. ASSUME x # Null, ls < time_stamp[x]
      PROVE  /\ j # 0 /\ Shows(p, j - 1, next_version[x]) /\ Above(p, j - 1, ls)
             /\ Stamped(next_version[x])
  <2>1. j # 0 /\ x = hist[p][j]
    BY <1>3, <1>6, <1>7 DEF Shows
  <2>2. Shows(p, j - 1, next_version[x])
    BY <1>1, <1>2, <1>5, <2>1 DEF ChainInv
  <2>3. After(hist[p][j], ls)
    BY <1>2, <1>7, <2>1 DEF After, Stamped
  <2>4. \A i \in j - 1 + 1 .. Len(hist[p]) : i = j \/ i \in j + 1 .. Len(hist[p])
    BY <1>4
  <2>5. Above(p, j - 1, ls)
    BY <2>3, <2>4 DEF Above
  <2>6. next_version[x] \in Refs
    BY <1>1, <1>6, <1>7 DEF HeapTypes
  <2>7. j - 1 \in Nat
    BY <1>4, <2>1
  <2>8. Stamped(next_version[x])
    <3>1. SUFFICES ASSUME ~Stamped(next_version[x])
                   PROVE  FALSE
      OBVIOUS
    <3>2. j - 1 \in 1 .. Len(hist[p]) /\ next_version[x] = hist[p][j - 1]
      BY <1>1, <1>2, <2>2, <2>6, <2>7, <3>1, ShowsUnstamped
    <3>3. j - 1 \in 1 .. j - 1
      BY <1>4, <3>2
    <3>4. time_stamp[hist[p][j - 1]] # Tbd
      BY <1>1, <1>2, <1>5, <2>1, <3>3 DEF OrderInv
    <3> QED
      BY <3>1, <3>2, <3>4 DEF Stamped
  <2> QED
    BY <2>1, <2>2, <2>5, <2>8
<1>8. ASSUME ~(x # Null /\ ls < time_stamp[x]), j # 0
      PROVE  time_stamp[hist[p][j]] <= ls
  <2>1. CASE x = hist[p][j]
    BY <1>3, <1>5, <1>6, <1>8, <2>1, Constants
  <2>2. CASE x # hist[p][j]
    BY <1>3, <1>5, <1>8, <2>2 DEF Shows
  <2> QED
    BY <2>1, <2>2
<1> QED
  BY <1>7, <1>8

\* Chase keeps the invariant of its own thread: it passes no version that it
\* should have read.
LEMMA ChaseOwn ==
  ASSUME IInv, NEW t \in Threads, Chase(t)
  PROVE  ThreadInv(t)'
<1> DEFINE l == loc[t]
           p == l.p
           x == l.cur
           ls == local_stamp[t]
<1>0. Types /\ ControlInv /\ ClockInv /\ ThreadInv(t) /\ Control(t)
  BY ThreadFacts DEF IInv
<1>1. /\ Others(t) /\ pc[t] = "chase" /\ l.op = "snapshot" /\ p \in Ptrs
      /\ \/ /\ x # Null /\ ls < time_stamp[x]
            /\ SameCall(t) /\ loc'[t].cur = next_version[x] /\ pc'[t] = "chase"
            /\ loc'[t].cont = l.cont /\ snap' = snap
         \/ /\ ~(x # Null /\ ls < time_stamp[x])
            /\ snap' = [snap EXCEPT ![t][p] = GetPtr(x)]
            /\ loc'[t] = NoLocals /\ pc'[t] = "idle"
      /\ SameHeap /\ SameClock /\ local_stamp' = local_stamp /\ window' = window
  BY <1>0, ChaseEffect
<1>2. Fine(t) /\ HeapStep /\ Stampers /\ Ticks
  BY ChaseFine DEF Fine
<1>3. Grows /\ HeapTypes /\ HeapTypes' /\ HistInv
  BY <1>2, StepFacts DEF HeapInv
<1>4. PICK j \in 0 .. Len(hist[p]) : Shows(p, j, x) /\ Above(p, j, ls)
  BY <1>0, <1>1 DEF ThreadInv, ChaseOf, ChaseAt
<1>5. IF x # Null /\ ls < time_stamp[x]
      THEN /\ j # 0 /\ Shows(p, j - 1, next_version[x]) /\ Above(p, j - 1, ls)
           /\ Stamped(next_version[x])
      ELSE j # 0 => time_stamp[hist[p][j]] <= ls
  BY <1>1, <1>4, ChaseStep
<1>6. ls \in Nat /\ ls # NoStamp /\ ls < stamp /\ Len(hist[p]) \in Nat
  <2>1. ls \in Nat \cup {NoStamp} /\ ls # NoStamp
    BY <1>0, <1>1 DEF Types, Control
  <2> QED
    BY <1>0, <1>1, <2>1, RefTypes DEF ThreadInv, ClockOf
<1>7. PendingOf(t)' /\ ClockOf(t)' /\ WindowOf(t)'
  <2>1. PendingOf(t)' /\ pc'[t] # "stamp_cas" /\ pc'[t] # "advance"
    BY <1>1 DEF PendingOf
  <2>2. ClockOf(t)'
    BY <1>0, <1>1, <2>1 DEF ThreadInv, ClockOf, SameClock
  <2>3. WindowOf(t)'
    <3>1. ASSUME NEW q \in Ptrs
          PROVE  /\ window[t][q][2] \in Nat
                 /\ window[t][q][2] <= Len(hist[q]) /\ AboveNext(q, window[t][q][2], ls)
      <4>1. window[t][q] \in Nat \X Nat
        BY <1>0 DEF Types
      <4>2. window[t][q][2] \in Nat
        BY <4>1
      <4>3. window[t][q][2] <= Len(hist[q]) /\ Above(q, window[t][q][2], ls)
        BY <1>0, <1>1, <1>6 DEF ThreadInv, WindowOf
      <4> QED
        BY <1>2, <1>6, <4>2, <4>3, AboveStays
    <3>2. \A q \in Ptrs : /\ window[t][q][1] <= Len(hist[q])
                          /\ window[t][q][1] # 0 =>
                               time_stamp[hist[q][window[t][q][1]]] <= ls
      BY <1>0, <1>6 DEF ThreadInv, WindowOf
    <3> QED
      BY <1>1, <3>1, <3>2 DEF WindowOf, SameHeap, Above, After, AboveNext
  <2> QED
    BY <2>1, <2>2, <2>3
<1>8. CASE x # Null /\ ls < time_stamp[x]
  <2>1. /\ SameCall(t) /\ loc'[t].cur = next_version[x] /\ pc'[t] = "chase" /\ snap' = snap
        /\ loc'[t].op = "snapshot" /\ loc'[t].p = p
    BY <1>1, <1>8 DEF SameCall
  <2>2. /\ j - 1 \in 0 .. Len(hist[p]) /\ j - 1 \in Nat /\ j - 1 <= Len(hist[p])
        /\ Shows(p, j - 1, next_version[x]) /\ Above(p, j - 1, ls)
        /\ Stamped(next_version[x])
    BY <1>4, <1>5, <1>6, <1>8
  <2>3. next_version[x] \in Refs
    <3>1. x \in Objects
      BY <1>8, ThreadFacts, LocalsFields DEF Refs
    <3> QED
      BY <1>0, <3>1, RefTypes
  <2>4. ShowsNext(p, j - 1, next_version[x])
    BY <1>0, <1>1, <1>3, <2>2, <2>3, ShowsStays
  <2>5. AboveNext(p, j - 1, ls)
    BY <1>1, <1>2, <1>6, <2>2, AboveStays
  <2>6. Shows(loc[t].p, j - 1, loc[t].cur)'
    BY <2>1, <2>4 DEF Shows, ShowsNext, GetPtr, IsIndirect
  <2>7. Above(loc[t].p, j - 1, local_stamp[t])'
    BY <1>1, <2>1, <2>5 DEF Above, After, AboveNext
  <2>8. ChaseAt(t)'
    BY <1>1, <2>1, <2>2, <2>6, <2>7 DEF ChaseAt, SameHeap
  <2>9. ChaseOf(t)'
    BY <1>1, <2>1, <2>2, <2>8 DEF ChaseOf, Stamped, SameHeap
  <2>10. CurOf(t)' /\ CasOf(t)' /\ StoreOf(t)' /\ FreshOf(t)' /\ PreparedOf(t)'
    <3>1. ~BeforeTry(t)' /\ ~Prepared(t)'
      BY <2>1 DEF BeforeTry, Prepared, StorePending
    <3> QED
      BY <2>1, <3>1 DEF CurOf, Stamping, CasOf, StoreOf, FreshOf, PreparedOf
  <2>11. SnapOf(t)'
    <3>1. SnapGoesOn(t)
      BY <1>1, <2>1 DEF SnapGoesOn, SnapStays
    <3> QED
      BY <1>2, <3>1, ReadGoesOn
  <2> QED
    BY <1>7, <2>9, <2>10, <2>11 DEF ThreadInv
<1>9. CASE ~(x # Null /\ ls < time_stamp[x])
  <2>1. /\ snap' = [snap EXCEPT ![t][p] = GetPtr(x)]
        /\ loc'[t] = NoLocals /\ pc'[t] = "idle"
    BY <1>1, <1>9
  <2>2. GetPtr(x) = VersionValue(p, j)
    BY <1>1, <1>4, <1>6, ShowsValue
  <2>3. ReadNext(t, p, GetPtr(x))
    BY <1>1, <1>2, <1>4, <1>5, <1>6, <1>9, <2>2, ReadFound
  <2>4. \A q \in Ptrs : snap'[t][q] = IF q = p THEN GetPtr(x) ELSE snap[t][q]
    BY <1>0, <1>1, <2>1 DEF Types
  <2>5. \A q \in Ptrs : snap[t][q] # Unread => ReadNext(t, q, snap[t][q])
    BY <1>2, ReadStays
  <2>6. SnapOf(t)'
    BY <1>1, <1>6, <2>1, <2>3, <2>4, <2>5, ReadSet
  <2> QED
    BY <1>7, <2>1, <2>6, IdleOwn DEF ThreadInv
<1> QED
  BY <1>8, <1>9

(***************************************************************************)
(* What a step of t leaves alone, and the parts of the invariant that      *)
(* follow from the steps' shape.                                           *)
(***************************************************************************)
\* When the step of t keeps t's own part of the invariant, every thread's
\* part holds after it.
LEMMA ThreadsKept ==
  ASSUME IInv, NEW t \in Threads, Fine(t), ThreadInv(t)',
         \A u \in Threads \ {t} : SnapStays(u)
  PROVE  \A u \in Threads : ThreadInv(u)'
<1>1. ASSUME NEW u \in Threads
      PROVE  ThreadInv(u)'
  <2>1. CASE u = t
    BY <2>1
  <2>2. CASE u # t
    <3>1. Bystander(u)
      BY <1>1, <2>2, Bystanders DEF Fine
    <3> QED
      BY <3>1, BystanderKept DEF Fine
  <2> QED
    BY <2>1, <2>2
<1> QED
  BY <1>1

\* The links that the other calls have made or still have to retire are the
\* same after a step of t.
LEMMA OthersHold ==
  ASSUME IInv, NEW t \in Threads, Mine(t), NEW u \in Threads, u # t
  PROVE  /\ loc'[u] = loc[u] /\ (Owes(u)' <=> Owes(u)) /\ (Prepared(u)' <=> Prepared(u))
<1>1. loc'[u] = loc[u] /\ pc'[u] = pc[u]
  BY DEF Mine, Others
<1>2. loc[u].op = "store" => hist'[loc[u].p] = hist[loc[u].p]
  BY StoreExcludes
<1>3. StorePending(u)' <=> StorePending(u)
  BY <1>1, <1>2 DEF StorePending
<1>4. pc[u] = "store_check" => loc[u].op = "store"
  BY ThreadFacts DEF Control
<1> QED
  BY <1>1, <1>3, <1>4 DEF Owes, Prepared, Stamping

\* The clock stays ahead of the stamps that a step sets.
LEMMA ClockKept ==
  ASSUME IInv, HeapStep, Ticks, stamp' <= LastStamp, done_stamp' <= stamp'
  PROVE  ClockInv'
<1>1. Grows /\ HeapTypes /\ HeapTypes' /\ ClockInv
  BY StepFacts
<1>2. /\ stamp \in Nat /\ done_stamp \in Nat /\ done_stamp' \in Nat /\ Tbd \in Nat
      /\ \A x \in Objects : time_stamp[x] \in Nat
  BY <1>1, BelowTbd DEF HeapTypes
<1>3. stamp' \in Nat /\ stamp <= stamp' /\ done_stamp <= done_stamp' /\ LastStamp \in Nat
  BY <1>1, Constants DEF Ticks, Grows
<1>4. ASSUME NEW x \in Objects
      PROVE  time_stamp'[x] <= stamp' \/ time_stamp'[x] = Tbd
  <2>1. CASE time_stamp'[x] = time_stamp[x]
    BY <1>1, <1>2, <1>3, <2>1 DEF ClockInv
  <2>2. CASE time_stamp'[x] # time_stamp[x]
    <3>1. PICK u \in Threads : pc[u] = "stamp_cas" /\ time_stamp'[x] = loc[u].t
      BY <1>1, <2>2 DEF Grows
    <3>2. loc[u].t <= stamp /\ loc[u].t \in Nat
      BY <3>1, ThreadFacts, LocalsFields DEF ThreadInv, ClockOf
    <3> QED
      BY <1>2, <1>3, <3>1, <3>2
  <2> QED
    BY <2>1, <2>2
<1>5. 1 <= done_stamp' /\ stamp' \in 1 .. LastStamp
  BY <1>1, <1>2, <1>3 DEF ClockInv
<1> QED
  BY <1>4, <1>5 DEF ClockInv

\* The clock stays ahead when it does not move.
LEMMA ClockSame ==
  ASSUME IInv, HeapStep, Ticks, SameClock
  PROVE  ClockInv'
<1>1. ClockInv /\ stamp \in Nat /\ LastStamp \in Nat
  BY Constants DEF IInv, Types
<1>2. stamp' <= LastStamp /\ done_stamp' <= stamp'
  BY <1>1 DEF ClockInv, SameClock
<1> QED
  BY <1>2, ClockKept

\* Where the threads are in their calls.
LEMMA ControlKept ==
  ASSUME IInv, NEW t \in Threads, Fine(t), Control(t)',
         \A u \in Threads \ {t} : local_stamp'[u] = local_stamp[u]
  PROVE  ControlInv'
<1>1. use' = use
  BY StepFacts DEF Fine, Grows
<1>2. ASSUME NEW u \in Threads, u # t
      PROVE  Control(u)'
  <2>1. pc'[u] = pc[u] /\ loc'[u] = loc[u] /\ local_stamp'[u] = local_stamp[u]
    BY <1>2 DEF Fine, Mine, Others
  <2>2. Control(u)
    BY ThreadFacts
  <2> QED
    BY <1>1, <2>1, <2>2 DEF Control, Stamping, Used
<1> QED
  BY <1>2 DEF ControlInv

\* A step that neither begins nor ends a store keeps what the lock is for.
LEMMA LockKept ==
  ASSUME IInv, NEW t \in Threads, Fine(t),
         \/ loc'[t].op = loc[t].op /\ loc'[t].p = loc[t].p
         \/ loc[t].op # "store" /\ loc'[t].op # "store"
  PROVE  LockInv'
<1>1. /\ Grows /\ HeapTypes /\ HeapTypes' /\ LockInv /\ Others(t) /\ use' = use
  BY StepFacts DEF Fine, Mine, IInv, Grows
<1>2. /\ use.stored \subseteq Ptrs /\ use.stored \cap use.cassed = {}
  BY <1>1, UseFacts DEF HeapTypes
<1>3. \A u \in Threads : (loc'[u].op = "store" <=> loc[u].op = "store")
                         /\ (loc[u].op = "store" => loc'[u].p = loc[u].p)
  BY <1>1 DEF Others
<1>4. ASSUME NEW p \in use.stored, LET n == Len(hist'[p]) IN n # 0 /\ time_stamp'[hist'[p][n]] = Tbd
      PROVE  \E u \in Threads : loc[u].op = "store" /\ loc[u].p = p
  <2>1. p \in Ptrs /\ Len(hist[p]) \in Nat
    BY <1>1, <1>2 DEF HeapTypes
  <2>2. CASE hist'[p] = hist[p]
    <3>1. Len(hist[p]) \in 1 .. Len(hist[p]) /\ Len(hist[p]) # 0
      BY <1>4, <2>1, <2>2
    <3>2. hist[p][Len(hist[p])] \in Objects
      BY <1>1, <2>1, <3>1, VersionFacts
    <3>3. time_stamp[hist[p][Len(hist[p])]] = Tbd
      BY <1>1, <1>4, <2>2, <3>2 DEF Grows
    <3> QED
      BY <1>1, <3>1, <3>3 DEF LockInv
  <2>3. CASE hist'[p] # hist[p]
    <3>1. PICK q \in Ptrs : /\ \E x \in Objects : Installs(q, x)
                            /\ (loc[t].op = "store" /\ q = loc[t].p) \/ q \in use.cassed
      BY <2>3 DEF Fine, Mine
    <3>2. q = p
      BY <1>1, <2>1, <2>3, <3>1, InstallsHist
    <3> QED
      BY <1>2, <3>1, <3>2
  <2> QED
    BY <2>2, <2>3
<1> QED
  BY <1>1, <1>3, <1>4 DEF LockInv

\* What completed calls have seen stays stamped.
LEMMA SeenKept ==
  ASSUME IInv, HeapStep, seen' = seen
  PROVE  SeenInv'
<1>1. Grows /\ HeapTypes /\ SeenInv /\ seen \in [Ptrs -> Nat]
  BY StepFacts DEF IInv, Types
<1>2. ASSUME NEW p \in Ptrs
      PROVE  seen[p] <= Len(hist'[p]) /\ (seen[p] # 0 => time_stamp'[hist'[p][seen[p]]] # Tbd)
  BY <1>1, <1>2, StampedStays DEF SeenInv
<1> QED
  BY <1>2 DEF SeenInv

\* The types after a step that no snapshot takes.
LEMMA TypesKept ==
  ASSUME IInv, HeapStep, Ticks, Typed, SameSnap, seen' = seen, retires' \in [Links -> Nat]
  PROVE  Types'
<1>1. HeapTypes' /\ stamp' \in Nat
  BY StepFacts DEF Ticks
<1>2. /\ local_stamp \in [Threads -> Nat \cup {NoStamp}] /\ seen \in [Ptrs -> Nat]
      /\ window \in [Threads -> [Ptrs -> Nat \X Nat]]
      /\ snap \in [Threads -> [Ptrs -> Values \cup {Unread}]]
  BY DEF IInv, Types
<1> QED
  BY <1>1, <1>2 DEF HeapTypes, Typed, SameSnap, Types

(***************************************************************************)
(* Every link is in one pointer, with one call, or retired.                *)
(***************************************************************************)
\* A link in a pointer is one of the pointer's versions.
LEMMA HeldInHist ==
  ASSUME IInv, NEW p \in Ptrs, IsIndirect(v[p])
  PROVE  InHist(v[p]) /\ v[p] \in links
<1>1. Len(hist[p]) # 0 /\ v[p] = hist[p][Len(hist[p])]
  BY CurrentShows
<1>2. HistInv /\ Len(hist[p]) \in Nat
  BY RefTypes DEF IInv, HeapInv
<1>3. Len(hist[p]) \in 1 .. Len(hist[p])
  BY <1>1, <1>2
<1> QED
  BY <1>1, <1>2, <1>3 DEF HistInv, InHist

\* A link is retired once or not at all.
LEMMA RetireTypes ==
  ASSUME IInv
  PROVE  /\ retires \in [Links -> Nat] /\ RetireInv /\ LeakInv /\ links \subseteq Links
         /\ \A x \in Links : retires[x] = 0 \/ retires[x] = 1
BY DEF IInv, Types, RetireInv

\* Nothing is retired and the pointers stay as they are.
LEMMA RetireQuiet ==
  ASSUME IInv, NEW t \in Threads, Fine(t), v' = v, retires' = retires,
         \A x \in links : retires[x] = 1 => x \in links',
         Owes(t)' => Owes(t) /\ loc'[t].old = loc[t].old
  PROVE  RetireInv'
<1>1. /\ retires \in [Links -> Nat] /\ RetireInv /\ links \subseteq Links
      /\ Grows /\ HeapTypes
  BY RetireTypes, StepFacts DEF Fine
<1>2. \A u \in Threads : Owes(u)' => Owes(u) /\ loc'[u].old = loc[u].old
  BY OthersHold DEF Fine
<1>3. /\ \A x \in Links : retires'[x] <= 1 /\ (retires'[x] = 1 => x \in links')
      /\ \A p \in Ptrs : IsIndirect(v'[p]) =>
           retires'[v'[p]] = 0 /\ \A q \in Ptrs : v'[q] = v'[p] => q = p
  BY <1>1 DEF RetireInv
<1>4. ASSUME NEW u \in Threads, Owes(u)', IsIndirect(loc'[u].old)
      PROVE  /\ retires'[loc'[u].old] = 0 /\ InHist(loc[u].old)'
             /\ \A p \in Ptrs : v'[p] # loc'[u].old
             /\ \A w \in Threads \ {u} : Owes(w)' => loc'[w].old # loc'[u].old
  <2>1. /\ retires[loc[u].old] = 0 /\ InHist(loc[u].old)
        /\ \A p \in Ptrs : v[p] # loc[u].old
        /\ \A w \in Threads \ {u} : Owes(w) => loc[w].old # loc[u].old
    BY <1>1, <1>2, <1>4 DEF RetireInv
  <2>2. InHist(loc[u].old)'
    BY <1>1, <1>2, <1>4, <2>1, InHistGrows
  <2> QED
    BY <1>2, <1>4, <2>1, <2>2
<1> QED
  BY <1>2, <1>3, <1>4 DEF RetireInv, IsIndirect

\* No link is forgotten when nothing is retired and the pointers stay.
LEMMA LeakQuiet ==
  ASSUME IInv, NEW t \in Threads, Fine(t), v' = v, retires' = retires,
         \A x \in links' : x \in links \/ (Prepared(t)' /\ loc'[t].new = x),
         Prepared(t) /\ loc[t].new \in links' => Prepared(t)' /\ loc'[t].new = loc[t].new,
         Owes(t) => Owes(t)' /\ loc'[t].old = loc[t].old
  PROVE  LeakInv'
<1>1. LeakInv
  BY RetireTypes
<1>2. ASSUME NEW x \in links'
      PROVE  \/ retires'[x] = 1
             \/ \E p \in Ptrs : v'[p] = x
             \/ \E u \in Threads : \/ Prepared(u)' /\ loc'[u].new = x
                                   \/ Owes(u)' /\ loc'[u].old = x
  <2>1. CASE x \notin links
    BY <2>1
  <2>2. CASE x \in links /\ ~(retires[x] = 1 \/ \E p \in Ptrs : v[p] = x)
    <3>1. PICK u \in Threads : \/ Prepared(u) /\ loc[u].new = x
                               \/ Owes(u) /\ loc[u].old = x
      BY <1>1, <2>2 DEF LeakInv
    <3>2. CASE u = t
      BY <3>1, <3>2
    <3>3. CASE u # t
      BY <3>1, <3>3, OthersHold DEF Fine
    <3> QED
      BY <3>2, <3>3
  <2>3. CASE x \in links /\ (retires[x] = 1 \/ \E p \in Ptrs : v[p] = x)
    BY <2>3
  <2> QED
    BY <2>1, <2>2, <2>3
<1> QED
  BY <1>2 DEF LeakInv

\* The call retires the link that it has replaced.
LEMMA Pays ==
  ASSUME IInv, NEW t \in Threads, Fine(t), v' = v, Owes(t), Retired(loc[t].old), ~Owes(t)',
         links' = links, Prepared(t) => Prepared(t)' /\ loc'[t].new = loc[t].new
  PROVE  RetireInv' /\ LeakInv'
<1> DEFINE y == loc[t].old
<1>1. /\ retires \in [Links -> Nat] /\ RetireInv /\ LeakInv /\ links \subseteq Links
      /\ Grows /\ HeapTypes
  BY RetireTypes, StepFacts DEF Fine
<1>2. ASSUME NEW u \in Threads, u # t
      PROVE  /\ loc'[u] = loc[u] /\ (Owes(u)' <=> Owes(u)) /\ (Prepared(u)' <=> Prepared(u))
  BY <1>2, OthersHold DEF Fine
<1>3. HistInv
  BY DEF IInv, HeapInv
<1>4. IsIndirect(y) => /\ y \in links /\ retires[y] = 0 /\ \A p \in Ptrs : v[p] # y
                       /\ \A u \in Threads \ {t} : Owes(u) => loc[u].old # y
  BY <1>1, <1>3 DEF RetireInv, HistInv, InHist
<1>5. /\ \A x \in Links : x # y => retires'[x] = retires[x]
      /\ IsIndirect(y) => retires'[y] = 1
      /\ ~IsIndirect(y) => retires' = retires
  BY <1>1, <1>4 DEF Retired, IsIndirect
<1>6. RetireInv'
  <2>1. \A x \in Links : retires'[x] <= 1 /\ (retires'[x] = 1 => x \in links')
    BY <1>1, <1>4, <1>5 DEF RetireInv, IsIndirect
  <2>2. \A p \in Ptrs : IsIndirect(v'[p]) =>
          retires'[v'[p]] = 0 /\ \A q \in Ptrs : v'[q] = v'[p] => q = p
    BY <1>1, <1>4, <1>5 DEF RetireInv, IsIndirect
  <2>3. ASSUME NEW u \in Threads, Owes(u)', IsIndirect(loc'[u].old)
        PROVE  /\ retires'[loc'[u].old] = 0 /\ InHist(loc[u].old)'
               /\ \A p \in Ptrs : v'[p] # loc'[u].old
               /\ \A w \in Threads \ {u} : Owes(w)' => loc'[w].old # loc'[u].old
    <3>1. u # t /\ Owes(u) /\ loc'[u] = loc[u]
      BY <1>2, <2>3
    <3>2. /\ retires[loc[u].old] = 0 /\ InHist(loc[u].old)
          /\ \A p \in Ptrs : v[p] # loc[u].old
          /\ \A w \in Threads \ {u} : Owes(w) => loc[w].old # loc[u].old
      BY <1>1, <2>3, <3>1 DEF RetireInv
    <3>3. InHist(loc[u].old)'
      BY <1>1, <3>1, <3>2, InHistGrows
    <3>4. retires'[loc[u].old] = 0
      BY <1>5, <2>3, <3>1, <3>2 DEF IsIndirect
    <3> QED
      BY <1>2, <3>1, <3>2, <3>3, <3>4
  <2>4. \A u \in Threads : Owes(u)' => loc'[u] = loc[u]
    BY <1>2
  <2> QED
    BY <2>1, <2>2, <2>3, <2>4 DEF RetireInv, IsIndirect
<1>7. ASSUME NEW x \in links
      PROVE  \/ retires'[x] = 1
             \/ \E p \in Ptrs : v[p] = x
             \/ \E u \in Threads : \/ Prepared(u)' /\ loc'[u].new = x
                                   \/ Owes(u)' /\ loc'[u].old = x
  <2>1. CASE x = y
    BY <1>1, <1>5, <2>1 DEF IsIndirect
  <2>2. CASE x # y /\ ~(retires[x] = 1 \/ \E p \in Ptrs : v[p] = x)
    <3>1. PICK u \in Threads : \/ Prepared(u) /\ loc[u].new = x
                               \/ Owes(u) /\ loc[u].old = x
      BY <1>1, <2>2 DEF LeakInv
    <3>2. CASE u = t
      BY <2>2, <3>1, <3>2
    <3>3. CASE u # t
      BY <1>2, <3>1, <3>3
    <3> QED
      BY <3>2, <3>3
  <2>3. CASE x # y /\ (retires[x] = 1 \/ \E p \in Ptrs : v[p] = x)
    BY <1>1, <1>5, <2>3
  <2> QED
    BY <2>1, <2>2, <2>3
<1>8. LeakInv'
  BY <1>7 DEF LeakInv
<1> QED
  BY <1>6, <1>8

\* A pointer changes from y to x: by an update, whose call retires the link y
\* now or later, or by a shortcut, which retires it at once.
LEMMA Replaces ==
  ASSUME IInv, NEW t \in Threads, Fine(t), NEW p \in Ptrs, NEW x \in Refs, ~Owes(t),
         v' = [v EXCEPT ![p] = x],
         IsIndirect(x) => retires[x] = 0 /\ ~InHist(x) /\ x \in links',
         \/ Retired(v[p]) /\ ~Owes(t)'
         \/ /\ retires' = retires
            /\ IF IsIndirect(v[p]) THEN Owes(t)' /\ loc'[t].old = v[p]
                                   ELSE Owes(t)' => ~IsIndirect(loc'[t].old),
         links \subseteq links', \A z \in links' : z \in links \/ z = x,
         Prepared(t) => loc[t].new = x
  PROVE  RetireInv' /\ LeakInv'
<1> DEFINE y == v[p]
<1>1. /\ retires \in [Links -> Nat] /\ RetireInv /\ LeakInv /\ links \subseteq Links
      /\ Grows /\ HeapTypes
  BY RetireTypes, StepFacts DEF Fine
<1>2. ASSUME NEW u \in Threads, u # t
      PROVE  /\ loc'[u] = loc[u] /\ (Owes(u)' <=> Owes(u)) /\ (Prepared(u)' <=> Prepared(u))
  BY <1>2, OthersHold DEF Fine
<1>3. v'[p] = x /\ \A q \in Ptrs \ {p} : v'[q] = v[q]
  BY <1>1 DEF HeapTypes
<1>4. IsIndirect(y) => /\ y \in links /\ InHist(y) /\ y \in Links /\ retires[y] = 0
                       /\ \A q \in Ptrs \ {p} : v[q] # y
                       /\ \A u \in Threads \ {t} : Owes(u) => loc[u].old # y
  BY <1>1, HeldInHist DEF RetireInv, IsIndirect
<1>5. /\ \A z \in Links : z # y => retires'[z] = retires[z]
      /\ ~IsIndirect(y) => retires' = retires
      /\ IsIndirect(y) => \/ retires'[y] = 1 /\ ~Owes(t)'
                          \/ retires'[y] = 0 /\ Owes(t)' /\ loc'[t].old = y
      /\ Owes(t)' /\ IsIndirect(loc'[t].old) => loc'[t].old = y /\ IsIndirect(y)
  BY <1>1, <1>4 DEF Retired, IsIndirect
<1>6. IsIndirect(x) => /\ x # y /\ \A q \in Ptrs : v[q] # x
                       /\ \A u \in Threads : Owes(u) => loc[u].old # x
  BY <1>1, <1>4, HeldInHist DEF RetireInv
<1>7. \A q \in Ptrs : IsIndirect(y) => v'[q] # y
  BY <1>3, <1>4, <1>6
<1>8. RetireInv'
  <2>1. \A z \in Links : retires'[z] <= 1 /\ (retires'[z] = 1 => z \in links')
    BY <1>1, <1>4, <1>5 DEF RetireInv, IsIndirect
  <2>2. ASSUME NEW q \in Ptrs, IsIndirect(v'[q])
        PROVE  retires'[v'[q]] = 0 /\ \A r \in Ptrs : v'[r] = v'[q] => r = q
    <3>1. CASE q = p
      BY <1>1, <1>3, <1>5, <1>6, <2>2, <3>1 DEF IsIndirect
    <3>2. CASE q # p
      <4>1. v'[q] = v[q] /\ retires[v[q]] = 0 /\ v[q] # y
        BY <1>1, <1>3, <2>2, <3>2 DEF RetireInv
      <4>2. retires'[v[q]] = 0
        BY <1>5, <2>2, <4>1 DEF IsIndirect
      <4>3. ASSUME NEW r \in Ptrs, v'[r] = v'[q]
            PROVE  r = q
        BY <1>1, <1>3, <1>6, <2>2, <4>1, <4>3 DEF RetireInv
      <4> QED
        BY <4>1, <4>2, <4>3
    <3> QED
      BY <3>1, <3>2
  <2>3. ASSUME NEW u \in Threads, Owes(u)', IsIndirect(loc'[u].old)
        PROVE  /\ retires'[loc'[u].old] = 0 /\ InHist(loc[u].old)'
               /\ \A q \in Ptrs : v'[q] # loc'[u].old
               /\ \A w \in Threads \ {u} : Owes(w)' => loc'[w].old # loc'[u].old
    <3>1. CASE u = t
      <4>1. IsIndirect(y) /\ loc'[t].old = y /\ retires'[y] = 0
        BY <1>5, <2>3, <3>1
      <4>2. ASSUME NEW w \in Threads, w # t, Owes(w)'
            PROVE  loc'[w].old # y
        BY <1>2, <1>4, <4>1, <4>2
      <4>3. \A z : z = y => InHist(z)'
        BY <1>1, <1>4, <4>1, InHistGrows
      <4>4. InHist(loc[u].old)'
        BY <3>1, <4>1, <4>3 DEF InHist
      <4> QED
        BY <1>7, <3>1, <4>1, <4>2, <4>4
    <3>2. CASE u # t
      <4>1. Owes(u) /\ loc'[u] = loc[u]
        BY <1>2, <2>3, <3>2
      <4>2. /\ retires[loc[u].old] = 0 /\ InHist(loc[u].old)
            /\ \A q \in Ptrs : v[q] # loc[u].old
            /\ \A w \in Threads \ {u} : Owes(w) => loc[w].old # loc[u].old
        BY <1>1, <2>3, <4>1 DEF RetireInv
      <4>3. InHist(loc[u].old)'
        BY <1>1, <4>1, <4>2, InHistGrows
      <4>4. loc[u].old # y /\ loc[u].old # x
        BY <1>6, <2>3, <4>1, <4>2
      <4>5. retires'[loc[u].old] = 0 /\ \A q \in Ptrs : v'[q] # loc[u].old
        BY <1>3, <1>5, <2>3, <4>1, <4>2, <4>4 DEF IsIndirect
      <4>6. ASSUME NEW w \in Threads, w # u, Owes(w)'
            PROVE  loc'[w].old # loc[u].old
        <5>1. CASE w = t
          BY <1>5, <2>3, <4>1, <4>4, <4>6, <5>1
        <5>2. CASE w # t
          BY <1>2, <4>2, <4>6, <5>2
        <5> QED
          BY <5>1, <5>2
      <4> QED
        BY <4>1, <4>3, <4>5, <4>6
    <3> QED
      BY <3>1, <3>2
  <2> QED
    BY <2>1, <2>2, <2>3 DEF RetireInv, IsIndirect
<1>9. ASSUME NEW z \in links'
      PROVE  \/ retires'[z] = 1
             \/ \E q \in Ptrs : v'[q] = z
             \/ \E u \in Threads : \/ Prepared(u)' /\ loc'[u].new = z
                                   \/ Owes(u)' /\ loc'[u].old = z
  <2>1. CASE z = x
    BY <1>3, <2>1
  <2>2. CASE z # x /\ z = y
    BY <1>1, <1>5, <2>2 DEF IsIndirect
  <2>3. CASE z # x /\ z # y /\ ~(retires[z] = 1 \/ \E q \in Ptrs : v[q] = z)
    <3>1. PICK u \in Threads : \/ Prepared(u) /\ loc[u].new = z
                               \/ Owes(u) /\ loc[u].old = z
      BY <1>1, <2>3 DEF LeakInv
    <3>2. u # t
      BY <2>3, <3>1
    <3> QED
      BY <1>2, <3>1, <3>2
  <2>4. CASE z # x /\ z # y /\ (retires[z] = 1 \/ \E q \in Ptrs : v[q] = z)
    BY <1>1, <1>3, <1>5, <2>4
  <2> QED
    BY <2>1, <2>2, <2>3, <2>4
<1>10. LeakInv'
  BY <1>9 DEF LeakInv
<1> QED
  BY <1>8, <1>10

(***************************************************************************)
(* Every step keeps the invariant.                                         *)
(***************************************************************************)
\* A step of t keeps the invariant when it keeps the parts that are its own.
LEMMA StepKept ==
  ASSUME IInv, NEW t \in Threads, Fine(t), ThreadInv(t)', Types', ClockInv', Control(t)',
         LockInv', RetireInv', LeakInv', SeenInv',
         \A u \in Threads \ {t} : SnapStays(u)
  PROVE  IInv'
<1>1. HeapInv'
  BY StepFacts DEF Fine
<1>2. \A u \in Threads : ThreadInv(u)'
  BY ThreadsKept
<1>3. ControlInv'
  BY ControlKept DEF SnapStays
<1> QED
  BY <1>1, <1>2, <1>3 DEF IInv

\* StepKept, for the steps that are no steps of a snapshot.
LEMMA UpdateKept ==
  ASSUME IInv, NEW t \in Threads, Fine(t), ThreadInv(t)', Typed, SameSnap, SameClock,
         seen' = seen, retires' \in [Links -> Nat], Control(t)',
         LockInv', RetireInv', LeakInv'
  PROVE  IInv'
<1>1. Types' /\ ClockInv' /\ SeenInv'
  BY TypesKept, ClockSame, SeenKept DEF Fine
<1>2. \A u \in Threads \ {t} : SnapStays(u)
  BY DEF SameSnap, SnapStays
<1> QED
  BY <1>1, <1>2, StepKept

\* The type of retires after a link was retired.
LEMMA RetiredTypes ==
  ASSUME IInv, NEW x, Retired(x)
  PROVE  retires' \in [Links -> Nat]
BY RetireTypes DEF Retired, IsIndirect

\* The steps of set_stamp.
LEMMA StampKept ==
  ASSUME IInv, NEW t \in Threads, Fine(t), ThreadInv(t)', Stamping(t), Typed, SameCall(t),
         SameVersions(t), loc'[t].cont = loc[t].cont, SameSnap, SameClock, seen' = seen,
         hist' = hist, v' = v, use' = use, SameLinks,
         pc'[t] = loc[t].cont \/ pc'[t] = "stamp_cas"
  PROVE  IInv'
<1>1. Control(t) /\ loc[t].cont \in {"return", "shortcut", "cas_try", "retire", "chase"}
  BY ThreadFacts, LocalsFields
<1>2. retires \in [Links -> Nat]
  BY RetireTypes
<1>3. Control(t)'
  <2>1. loc[t].op # "none"
    BY <1>1 DEF Control, Stamping
  <2> QED
    BY <1>1, <2>1 DEF Control, Stamping, SameCall, SameVersions, SameSnap, IsIndirect, Used
<1>4. Owes(t)' <=> Owes(t)
  BY <1>1 DEF Owes, Stamping
<1>5. Prepared(t)' <=> Prepared(t)
  BY <1>1 DEF Prepared, StorePending, Stamping, SameCall, SameVersions
<1>6. LockInv'
  BY LockKept DEF SameCall
<1>7. RetireInv' /\ LeakInv'
  BY <1>4, <1>5, RetireQuiet, LeakQuiet DEF SameVersions, SameLinks
<1> QED
  BY <1>2, <1>3, <1>6, <1>7, UpdateKept DEF SameLinks

\* StampFetch keeps the invariant: set_stamp looks at the stamp and loads
\* the clock.
LEMMA StampFetchKept ==
  ASSUME IInv, NEW t \in Threads, StampFetch(t)
  PROVE  IInv'
<1>1. Fine(t) /\ ThreadInv(t)' /\ Types
  BY StampFetchFine, StampFetchOwn DEF IInv
<1>2. /\ Typed /\ SameCall(t) /\ SameVersions(t) /\ loc'[t].cont = loc[t].cont
      /\ pc[t] = "stamp" /\ (pc'[t] = loc[t].cont \/ pc'[t] = "stamp_cas")
      /\ SameHeap /\ SameClock /\ SameLinks /\ SameSnap /\ seen' = seen
  BY <1>1, StampFetchEffect
<1> QED
  BY <1>1, <1>2, StampKept DEF Stamping, SameHeap

\* StampCas keeps the invariant: set_stamp sets the stamp, unless somebody
\* else has.
LEMMA StampCasKept ==
  ASSUME IInv, NEW t \in Threads, StampCas(t)
  PROVE  IInv'
<1>1. Fine(t) /\ ThreadInv(t)' /\ Types
  BY StampCasFine, StampCasOwn DEF IInv
<1>2. /\ Typed /\ SameCall(t) /\ SameVersions(t) /\ loc'[t].cont = loc[t].cont
      /\ pc[t] = "stamp_cas" /\ pc'[t] = loc[t].cont /\ use' = use /\ v' = v
      /\ hist' = hist /\ SameClock /\ SameLinks /\ SameSnap /\ seen' = seen
  BY <1>1, StampCasEffect
<1> QED
  BY <1>1, <1>2, StampKept DEF Stamping

\* At these steps a store has installed its version.
LEMMA StoreInstalled ==
  ASSUME IInv, NEW t \in Threads, pc[t] \notin {"store_cam", "store_check", "store_recam"}
  PROVE  ~StorePending(t)
<1>1. StoreOf(t)
  BY ThreadFacts DEF ThreadInv
<1> QED
  BY <1>1 DEF StoreOf, StorePending, StoreBefore

\* Shortcut keeps the invariant: shortcut cuts the link at hand out and
\* retires it, or does nothing.
LEMMA ShortcutKept ==
  ASSUME IInv, NEW t \in Threads, Shortcut(t)
  PROVE  IInv'
<1> DEFINE l == loc[t]
<1>1. Fine(t) /\ ThreadInv(t)' /\ Types /\ Control(t)
  BY ShortcutFine, ShortcutOwn, ThreadFacts DEF IInv
<1>2. /\ Typed /\ loc' = loc /\ pc[t] = "shortcut" /\ pc'[t] = "return"
      /\ \/ v' = v /\ retires' = retires
         \/ /\ IsIndirect(l.cur) /\ v[l.p] = l.cur /\ v' = [v EXCEPT ![l.p] = value[l.cur]]
            /\ retires' = [retires EXCEPT ![l.cur] = @ + 1]
      /\ use' = use /\ hist' = hist /\ SameClock /\ links' = links /\ SameSnap
      /\ seen' = seen
  BY <1>1, ShortcutEffect
<1>3. l.p \in Ptrs
  BY <1>1, <1>2, ThreadFacts DEF Control
<1>4. Control(t)'
  BY <1>1, <1>2 DEF Control, Stamping, Used
<1>5. ~Owes(t) /\ ~Owes(t)' /\ ~StorePending(t)
  BY <1>2, StoreInstalled DEF Owes, Stamping
<1>6. ~Prepared(t) /\ ~Prepared(t)'
  BY <1>2, <1>5 DEF Prepared, StorePending
<1>7. LockInv'
  BY <1>1, <1>2, LockKept
<1>8. CASE v' = v /\ retires' = retires
  <2>1. RetireInv' /\ LeakInv' /\ retires' \in [Links -> Nat]
    BY <1>1, <1>2, <1>5, <1>6, <1>8, RetireQuiet, LeakQuiet, RetireTypes
  <2> QED
    BY <1>1, <1>2, <1>4, <1>7, <2>1, UpdateKept
<1>9. CASE /\ IsIndirect(l.cur) /\ v[l.p] = l.cur /\ v' = [v EXCEPT ![l.p] = value[l.cur]]
           /\ retires' = [retires EXCEPT ![l.cur] = @ + 1]
  <2>1. value[l.cur] \in Values /\ value[l.cur] \in Refs
    BY <1>1, <1>9, RefTypes DEF IsIndirect
  <2>2. ~IsIndirect(value[l.cur])
    BY <2>1, Constants DEF Values, IsIndirect
  <2>3. Retired(v[l.p])
    BY <1>9 DEF Retired
  <2>4. RetireInv' /\ LeakInv'
    <3> DEFINE x == value[l.cur]
               p == l.p
    <3>1. /\ x \in Refs /\ ~IsIndirect(x) /\ v' = [v EXCEPT ![p] = x] /\ Retired(v[p])
          /\ p \in Ptrs /\ links \subseteq links' /\ \A z \in links' : z \in links
      BY <1>2, <1>3, <1>9, <2>1, <2>2, <2>3
    <3> HIDE DEF x, p
    <3> QED
      BY <1>1, <1>5, <1>6, <3>1, Replaces
  <2>5. retires' \in [Links -> Nat]
    BY <2>3, RetiredTypes
  <2> QED
    BY <1>1, <1>2, <1>4, <1>7, <2>4, <2>5, UpdateKept
<1> QED
  BY <1>2, <1>8, <1>9

\* RetireOld keeps the invariant: the update retires the version that it
\* replaced.
LEMMA RetireOldKept ==
  ASSUME IInv, NEW t \in Threads, RetireOld(t)
  PROVE  IInv'
<1>1. Fine(t) /\ ThreadInv(t)' /\ Types /\ Control(t)
  BY RetireOldFine, RetireOldOwn, ThreadFacts DEF IInv
<1>2. /\ Typed /\ loc' = loc /\ pc[t] = "retire" /\ pc'[t] \in {"shortcut", "return"}
      /\ Retired(loc[t].old)
      /\ SameHeap /\ SameClock /\ links' = links /\ SameSnap /\ seen' = seen
  BY <1>1, RetireOldEffect
<1>3. Control(t)'
  BY <1>1, <1>2 DEF Control, Stamping, Used, SameHeap
<1>4. Owes(t) /\ ~Owes(t)' /\ ~StorePending(t)
  BY <1>2, StoreInstalled DEF Owes, Stamping
<1>5. ~Prepared(t)
  BY <1>2, <1>4 DEF Prepared
<1>6. LockInv'
  BY <1>1, <1>2, LockKept
<1>7. RetireInv' /\ LeakInv'
  BY <1>1, <1>2, <1>4, <1>5, Pays DEF SameHeap
<1>8. retires' \in [Links -> Nat]
  BY <1>2, RetiredTypes
<1> QED
  BY <1>1, <1>2, <1>3, <1>6, <1>7, <1>8, UpdateKept

\* A step that has nothing to do with links, before or after it.
LEMMA NoLinksKept ==
  ASSUME IInv, NEW t \in Threads, Fine(t), v' = v, SameLinks,
         ~Owes(t), ~Owes(t)', ~Prepared(t), ~Prepared(t)'
  PROVE  RetireInv' /\ LeakInv' /\ retires' \in [Links -> Nat]
<1>1. links' = links /\ retires' = retires /\ retires \in [Links -> Nat]
  BY RetireTypes DEF SameLinks
<1>2. RetireInv'
  BY <1>1, RetireQuiet
<1>3. LeakInv'
  BY <1>1, LeakQuiet
<1> QED
  BY <1>1, <1>2, <1>3

\* A thread that is in no call has no link to install or to retire.
LEMMA IdleHoldsNothing ==
  ASSUME IInv, NEW t \in Threads, pc[t] \in {"idle", "advance"}
  PROVE  ~Owes(t) /\ ~Prepared(t) /\ loc[t].op = "none" /\ loc[t] = NoLocals
<1>1. loc[t].op = "none" /\ loc[t] = NoLocals
  BY ThreadFacts DEF Control
<1> QED
  BY <1>1 DEF Owes, Prepared, StorePending, Stamping

\* A call that neither installs nor retires begins.
LEMMA BeginsKept ==
  ASSUME IInv, NEW t \in Threads, Fine(t), ThreadInv(t)', Typed, SameSnap, SameClock,
         SameHeap, SameLinks, seen' = seen, pc[t] = "idle", Control(t)',
         loc'[t].op # "store", pc'[t] \in {"stamp", "shortcut"}, loc'[t].cont # "retire"
  PROVE  IInv'
<1>1. ~Owes(t) /\ ~Prepared(t) /\ loc[t].op = "none"
  BY IdleHoldsNothing
<1>2. ~Owes(t)' /\ ~Prepared(t)'
  BY DEF Owes, Prepared, StorePending, Stamping
<1>3. RetireInv' /\ LeakInv' /\ retires' \in [Links -> Nat]
  BY <1>1, <1>2, NoLinksKept DEF SameHeap
<1>4. LockInv'
  BY <1>1, LockKept
<1> QED
  BY <1>3, <1>4, UpdateKept

\* Load keeps the invariant: load, validate or read begins.
LEMMA LoadKept ==
  ASSUME IInv, NEW t \in Threads, NEW p \in Used, NEW o \in use.ops, Load(t, p, o)
  PROVE  IInv'
<1>1. Fine(t) /\ ThreadInv(t)' /\ Types
  BY LoadFine, LoadOwn DEF IInv
<1>2. /\ Typed /\ pc[t] = "idle" /\ loc'[t].op = o /\ loc'[t].p = p /\ loc'[t].arg = Null
      /\ \/ o = "load" /\ SetsStamp(t, v[p], "shortcut")
         \/ o = "validate" /\ SetsStamp(t, v[p], "return")
         \/ o = "read" /\ pc'[t] = "shortcut"
      /\ SameHeap /\ SameClock /\ SameLinks /\ SameSnap /\ seen' = seen
  BY <1>1, LoadEffect
<1>3. Control(t)'
  BY <1>2 DEF Control, Stamping, SetsStamp, SameHeap, Used
<1>4. pc'[t] = "stamp" => loc'[t].cont # "retire"
  BY <1>2 DEF SetsStamp
<1>5. ~Owes(t) /\ ~Prepared(t) /\ loc[t].op = "none"
  BY <1>2, IdleHoldsNothing
<1>6. ~Owes(t)' /\ ~Prepared(t)'
  BY <1>2, <1>4 DEF Owes, Prepared, StorePending, Stamping, SetsStamp
<1>7. RetireInv' /\ LeakInv' /\ retires' \in [Links -> Nat]
  BY <1>1, <1>2, <1>5, <1>6, NoLinksKept DEF SameHeap
<1>8. LockInv'
  BY <1>1, <1>2, <1>5, LockKept
<1> QED
  BY <1>1, <1>2, <1>3, <1>7, <1>8, UpdateKept

\* Cas keeps the invariant: cas begins: it looks at the newest version and
\* decides.
LEMMA CasKept ==
  ASSUME IInv, NEW t \in Threads, NEW p \in use.cassed, NEW e \in use.nodes \cup {Null},
         NEW x \in use.nodes \cup {Null}, Cas(t, p, e, x)
  PROVE  IInv'
<1>1. Fine(t) /\ ThreadInv(t)'
  BY CasFine, CasOwn
<1>2. /\ Typed /\ pc[t] = "idle" /\ loc'[t].op = "cas" /\ loc'[t].p = p
      /\ SetsStamp(t, v[p], "return") \/ SetsStamp(t, v[p], "cas_try")
      /\ SameHeap /\ SameClock /\ SameLinks /\ SameSnap /\ seen' = seen
  BY CasEffect
<1>3. Control(t)'
  BY <1>2 DEF Control, Stamping, SetsStamp, SameHeap, Used
<1> QED
  BY <1>1, <1>2, <1>3, BeginsKept DEF SetsStamp

\* ReadSnapshot keeps the invariant: read_snapshot begins.
LEMMA ReadSnapshotKept ==
  ASSUME IInv, NEW t \in Threads, NEW p \in Used, ReadSnapshot(t, p)
  PROVE  IInv'
<1>1. Fine(t) /\ ThreadInv(t)' /\ Types
  BY ReadSnapshotFine, ReadSnapshotOwn DEF IInv
<1>2. /\ Typed /\ pc[t] = "idle" /\ local_stamp[t] # NoStamp
      /\ loc'[t].op = "snapshot" /\ loc'[t].p = p /\ loc'[t].arg = Null
      /\ SetsStamp(t, v[p], "chase")
      /\ SameHeap /\ SameClock /\ SameLinks /\ SameSnap /\ seen' = seen
  BY <1>1, ReadSnapshotEffect
<1>3. Control(t)'
  BY <1>2 DEF Control, Stamping, SetsStamp, SameHeap, SameSnap, Used
<1> QED
  BY <1>1, <1>2, <1>3, BeginsKept DEF SetsStamp

\* A store gives the lock back with its version stamped, and what a call
\* returns is stamped as well.
LEMMA ReturnKept ==
  ASSUME IInv, NEW t \in Threads, Return(t)
  PROVE  IInv'
<1> DEFINE l == loc[t]
<1>1. /\ Fine(t) /\ ThreadInv(t)' /\ ThreadInv(t) /\ Types /\ Control(t) /\ l \in Locals
      /\ Grows /\ HeapTypes
  BY ReturnFine, ReturnOwn, ThreadFacts, StepFacts DEF IInv, Fine
<1>2. /\ Others(t) /\ Typed /\ loc'[t] = NoLocals /\ pc[t] = "return" /\ pc'[t] = "idle"
      /\ \/ seen' = seen
         \/ l.op # "read" /\ seen' = [seen EXCEPT ![l.p] = l.version]
      /\ SameHeap /\ SameClock /\ SameLinks /\ SameSnap
  BY <1>1, ReturnEffect
<1>3. l.op # "none" /\ l.p \in Ptrs /\ l.version \in Nat
  BY <1>1, <1>2, ThreadFacts, LocalsFields DEF Control
<1>4. l.op # "read" => /\ l.version <= Len(hist[l.p])
                       /\ l.version # 0 => time_stamp[hist[l.p][l.version]] # Tbd
  BY <1>1, <1>2 DEF ThreadInv, CurOf
<1>5. SeenInv' /\ seen' \in [Ptrs -> Nat]
  BY <1>2, <1>3, <1>4 DEF IInv, Types, SeenInv, SameHeap
<1>6. NoLocals.op = "none" /\ NoLocals.arg = Null
  BY DEF NoLocals
<1>7. Control(t)'
  BY <1>2, <1>6 DEF Control, Stamping
<1>8. ~StorePending(t)
  BY <1>2, StoreInstalled
<1>9. ~Owes(t) /\ ~Owes(t)' /\ ~Prepared(t) /\ ~Prepared(t)'
  BY <1>2, <1>6, <1>8 DEF Owes, Prepared, StorePending, Stamping
<1>10. RetireInv' /\ LeakInv' /\ retires' \in [Links -> Nat]
  BY <1>1, <1>2, <1>9, NoLinksKept DEF SameHeap
<1>11. LockInv'
  <2>1. LockInv
    BY DEF IInv
  <2>2. \A u \in Threads : u # t => loc'[u] = loc[u]
    BY <1>2 DEF Others
  <2>3. loc'[t].op # "store"
    BY <1>2, <1>6
  <2>4. ASSUME NEW p \in use.stored, Len(hist[p]) # 0, time_stamp[hist[p][Len(hist[p])]] = Tbd
        PROVE  \E u \in Threads : u # t /\ loc[u].op = "store" /\ loc[u].p = p
    <3>1. PICK u \in Threads : loc[u].op = "store" /\ loc[u].p = p
      BY <2>1, <2>4 DEF LockInv
    <3>2. CASE u = t
      <4>1. StoreDone(t)
        BY <1>1, <1>8, <3>1, <3>2 DEF ThreadInv, StoreOf
      <4> QED
        BY <1>4, <2>4, <3>1, <3>2, <4>1 DEF StoreDone
    <3> QED
      BY <3>1, <3>2
  <2>5. \A p \in use.stored : LET n == Len(hist[p]) IN
          n # 0 /\ time_stamp[hist[p][n]] = Tbd =>
            \E u \in Threads : loc'[u].op = "store" /\ loc'[u].p = p
    BY <2>2, <2>4
  <2>6. \A w, u \in Threads : loc'[w].op = "store" /\ loc'[u].op = "store"
                              /\ loc'[w].p = loc'[u].p => w = u
    BY <2>1, <2>2, <2>3 DEF LockInv
  <2> QED
    BY <1>2, <2>5, <2>6 DEF LockInv, SameHeap
<1>12. Types'
  <2>1. HeapTypes' /\ stamp' \in Nat
    BY <1>1, StepFacts DEF Ticks, Fine
  <2>2. /\ local_stamp \in [Threads -> Nat \cup {NoStamp}]
        /\ window \in [Threads -> [Ptrs -> Nat \X Nat]]
        /\ snap \in [Threads -> [Ptrs -> Values \cup {Unread}]]
    BY <1>1 DEF Types
  <2> QED
    BY <1>2, <1>5, <1>10, <2>1, <2>2 DEF HeapTypes, Typed, SameSnap, Types
<1>13. ClockInv' /\ \A u \in Threads \ {t} : SnapStays(u)
  BY <1>1, <1>2, ClockSame DEF Fine, SameSnap, SnapStays
<1> QED
  BY <1>1, <1>5, <1>7, <1>10, <1>11, <1>12, <1>13, StepKept

\* A snapshot goes on, and no pointer changes.
LEMMA SnapshotKept ==
  ASSUME IInv, NEW t \in Threads, Fine(t), ThreadInv(t)', Typed, SameHeap, SameLinks,
         seen' = seen, ClockInv', Control(t)', loc[t].op # "store", loc'[t].op # "store",
         pc[t] \in {"idle", "advance", "chase"}, pc'[t] \in {"idle", "advance", "chase"},
         local_stamp' \in [Threads -> Nat \cup {NoStamp}],
         window' \in [Threads -> [Ptrs -> Nat \X Nat]],
         snap' \in [Threads -> [Ptrs -> Values \cup {Unread}]],
         \A u \in Threads \ {t} : SnapStays(u)
  PROVE  IInv'
<1>1. ~Owes(t) /\ ~Owes(t)' /\ ~Prepared(t) /\ ~Prepared(t)'
  BY DEF Owes, Prepared, StorePending, Stamping
<1>2. RetireInv' /\ LeakInv' /\ retires' \in [Links -> Nat]
  BY <1>1, NoLinksKept DEF SameHeap
<1>3. LockInv' /\ SeenInv'
  BY LockKept, SeenKept DEF Fine
<1>4. HeapTypes' /\ stamp' \in Nat /\ seen \in [Ptrs -> Nat]
  BY StepFacts DEF Ticks, Fine, IInv, Types
<1>5. Types'
  BY <1>2, <1>4 DEF HeapTypes, Typed, Types
<1> QED
  BY <1>2, <1>3, <1>5, StepKept

\* The types of what snapshots keep.
LEMMA SnapTypes ==
  ASSUME IInv
  PROVE  /\ local_stamp \in [Threads -> Nat \cup {NoStamp}] /\ seen \in [Ptrs -> Nat]
         /\ window \in [Threads -> [Ptrs -> Nat \X Nat]] /\ stamp \in Nat
         /\ snap \in [Threads -> [Ptrs -> Values \cup {Unread}]]
BY DEF IInv, Types

\* Chase keeps the invariant: read_snapshot goes one version down, or has
\* found the one it reads.
LEMMA ChaseKept ==
  ASSUME IInv, NEW t \in Threads, Chase(t)
  PROVE  IInv'
<1> DEFINE l == loc[t]
<1>1. /\ Fine(t) /\ ThreadInv(t)' /\ Types /\ ControlInv /\ ClockInv /\ Control(t)
      /\ l \in Locals
  BY ChaseFine, ChaseOwn, ThreadFacts DEF IInv
<1>2. /\ Typed /\ pc[t] = "chase" /\ l.op = "snapshot" /\ l.p \in Ptrs
      /\ \/ /\ SameCall(t) /\ pc'[t] = "chase" /\ snap' = snap
         \/ /\ snap' = [snap EXCEPT ![t][l.p] = GetPtr(l.cur)]
            /\ loc'[t] = NoLocals /\ pc'[t] = "idle"
      /\ SameHeap /\ SameClock /\ SameLinks /\ local_stamp' = local_stamp
      /\ window' = window /\ seen' = seen
  BY <1>1, ChaseEffect
<1>3. NoLocals.op = "none" /\ NoLocals.arg = Null
  BY DEF NoLocals
<1>4. Control(t)' /\ loc'[t].op # "store"
  BY <1>1, <1>2, <1>3 DEF Control, Stamping, SameCall, SameHeap, Used
<1>5. GetPtr(l.cur) \in Values
  BY <1>1, RefTypes, LocalsFields DEF GetPtr, IsIndirect, Refs, Objects, Values
<1>6. /\ snap' \in [Threads -> [Ptrs -> Values \cup {Unread}]]
      /\ \A u \in Threads \ {t} : snap'[u] = snap[u]
  <2> DEFINE x == GetPtr(l.cur)
             q == l.p
  <2>1. x \in Values /\ q \in Ptrs /\ (snap' = snap \/ snap' = [snap EXCEPT ![t][q] = x])
    BY <1>2, <1>5
  <2> HIDE DEF x, q
  <2>2. [snap[t] EXCEPT ![q] = x] \in [Ptrs -> Values \cup {Unread}]
    BY <2>1, SnapTypes
  <2>3. [snap EXCEPT ![t] = [snap[t] EXCEPT ![q] = x]]
          \in [Threads -> [Ptrs -> Values \cup {Unread}]]
    BY <2>2, SnapTypes
  <2> QED
    BY <2>1, <2>3, SnapTypes
<1>7. \A u \in Threads \ {t} : SnapStays(u)
  BY <1>2, <1>6 DEF SnapStays
<1>8. ClockInv'
  BY <1>1, <1>2, ClockSame DEF Fine
<1> QED
  BY <1>1, <1>2, <1>4, <1>6, <1>7, <1>8, SnapshotKept, SnapTypes

\* SnapshotLoad keeps the invariant: with_snapshot loads the clock.
LEMMA SnapshotLoadKept ==
  ASSUME IInv, NEW t \in Threads, SnapshotLoad(t)
  PROVE  IInv'
<1>1. Fine(t) /\ ThreadInv(t)' /\ Types /\ Control(t)
  BY SnapshotLoadFine, SnapshotLoadOwn, ThreadFacts DEF IInv
<1>2. /\ Typed /\ loc' = loc /\ pc[t] = "idle" /\ pc'[t] = "advance"
      /\ local_stamp' = [local_stamp EXCEPT ![t] = stamp]
      /\ window' = [window EXCEPT ![t] = [p \in Ptrs |-> <<seen[p], 0>>]]
      /\ SameHeap /\ SameClock /\ SameLinks /\ seen' = seen /\ snap' = snap
  BY <1>1, SnapshotLoadEffect
<1>3. loc[t].op = "none" /\ loc[t] = NoLocals
  BY <1>2, IdleHoldsNothing
<1>4. /\ local_stamp' \in [Threads -> Nat \cup {NoStamp}] /\ local_stamp'[t] # NoStamp
      /\ \A u \in Threads \ {t} : local_stamp'[u] = local_stamp[u]
  BY <1>2, SnapTypes DEF NoStamp
<1>5. /\ window' \in [Threads -> [Ptrs -> Nat \X Nat]]
      /\ \A u \in Threads \ {t} : window'[u] = window[u]
  BY <1>2, SnapTypes
<1>6. Control(t)'
  BY <1>1, <1>2, <1>3, <1>4 DEF Control, Stamping, SameHeap, Used
<1>7. ClockInv' /\ \A u \in Threads \ {t} : SnapStays(u)
  BY <1>1, <1>2, <1>4, <1>5, ClockSame DEF Fine, SnapStays
<1> QED
  BY <1>1, <1>2, <1>3, <1>4, <1>5, <1>6, <1>7, SnapshotKept, SnapTypes

\* SnapshotAdvance keeps the invariant: with_snapshot makes sure that the
\* clock is past its stamp.
LEMMA SnapshotAdvanceKept ==
  ASSUME IInv, NEW t \in Threads, SnapshotAdvance(t)
  PROVE  IInv'
<1>1. /\ Fine(t) /\ ThreadInv(t)' /\ Types /\ Control(t) /\ ClockInv
  BY SnapshotAdvanceFine, SnapshotAdvanceOwn, ThreadFacts DEF IInv
<1>2. /\ Typed /\ loc' = loc /\ pc[t] = "advance" /\ pc'[t] = "idle"
      /\ (stamp < LastStamp /\ stamp' = stamp + 1) \/ stamp' = stamp
      /\ window' = [window EXCEPT ![t] = [p \in Ptrs |-> <<window[t][p][1], Len(hist[p])>>]]
      /\ SameHeap /\ done_stamp' = done_stamp /\ SameLinks /\ seen' = seen
      /\ local_stamp' = local_stamp /\ snap' = snap
  BY <1>1, SnapshotAdvanceEffect
<1>3. loc[t].op = "none" /\ loc[t] = NoLocals
  BY <1>2, IdleHoldsNothing
<1>4. /\ window' \in [Threads -> [Ptrs -> Nat \X Nat]]
      /\ \A u \in Threads \ {t} : window'[u] = window[u]
  <2>1. \A p \in Ptrs : window[t][p] \in Nat \X Nat /\ Len(hist[p]) \in Nat
    BY <1>1, SnapTypes, RefTypes
  <2>2. \A p \in Ptrs : window[t][p][1] \in Nat
    BY <2>1
  <2> QED
    BY <1>2, <2>1, <2>2, SnapTypes
<1>5. Control(t)'
  BY <1>1, <1>2, <1>3 DEF Control, Stamping, SameHeap, Used
<1>6. stamp' <= LastStamp /\ done_stamp' <= stamp'
  <2>1. stamp \in Nat /\ done_stamp \in Nat /\ LastStamp \in Nat
    BY <1>1, Constants, SnapTypes, RefTypes
  <2> QED
    BY <1>1, <1>2, <2>1 DEF ClockInv
<1>7. ClockInv' /\ \A u \in Threads \ {t} : SnapStays(u)
  BY <1>1, <1>2, <1>4, <1>6, ClockKept DEF Fine, SnapStays
<1> QED
  BY <1>1, <1>2, <1>3, <1>4, <1>5, <1>7, SnapshotKept, SnapTypes

\* SnapshotEnd keeps the invariant: with_snapshot ends.
LEMMA SnapshotEndKept ==
  ASSUME IInv, NEW t \in Threads, SnapshotEnd(t)
  PROVE  IInv'
<1>1. Fine(t) /\ ThreadInv(t)' /\ Types /\ Control(t)
  BY SnapshotEndFine, SnapshotEndOwn, ThreadFacts DEF IInv
<1>2. /\ pc' = pc /\ loc' = loc /\ pc[t] = "idle"
      /\ local_stamp' = [local_stamp EXCEPT ![t] = NoStamp]
      /\ window' = [window EXCEPT ![t] = [p \in Ptrs |-> <<0, 0>>]]
      /\ snap' = [snap EXCEPT ![t] = [p \in Ptrs |-> Unread]]
      /\ SameHeap /\ SameClock /\ SameLinks /\ seen' = seen
  BY <1>1, SnapshotEndEffect
<1>3. loc[t].op = "none" /\ loc[t] = NoLocals /\ Typed
  BY <1>1, <1>2, IdleHoldsNothing, LocalTypes DEF Typed
<1>4. /\ local_stamp' \in [Threads -> Nat \cup {NoStamp}]
      /\ window' \in [Threads -> [Ptrs -> Nat \X Nat]]
      /\ snap' \in [Threads -> [Ptrs -> Values \cup {Unread}]]
  BY <1>2, SnapTypes
<1>5. \A u \in Threads \ {t} : SnapStays(u)
  BY <1>2, SnapTypes DEF SnapStays
<1>6. Control(t)'
  BY <1>1, <1>2, <1>3 DEF Control, Stamping, SameHeap, Used
<1>7. ClockInv'
  BY <1>1, <1>2, ClockSame DEF Fine
<1> QED
  BY <1>1, <1>2, <1>3, <1>4, <1>5, <1>6, <1>7, SnapshotKept

\* Nobody moves, and done_stamp may.
LEMMA QuietKept ==
  ASSUME IInv, pc' = pc, loc' = loc, SameHeap, SameLinks, SameSnap, seen' = seen,
         stamp' = stamp, done_stamp <= done_stamp', done_stamp' \in Nat,
         done_stamp' <= stamp',
         \A u \in Threads : local_stamp[u] # NoStamp => done_stamp' <= local_stamp[u]
  PROVE  IInv'
<1>1. HeapStays
  BY DEF HeapStays, SameLinks
<1>2. HeapStep /\ Stampers /\ Ticks
  BY <1>1, SnapTypes DEF HeapStep, Stampers, Ticks
<1>3. \A u \in Threads : ThreadInv(u)'
  BY <1>2, NobodyMoves, BystanderKept
<1>4. stamp' <= LastStamp
  BY DEF IInv, ClockInv
<1>5. ClockInv' /\ SeenInv' /\ HeapInv'
  BY <1>2, <1>4, ClockKept, SeenKept, StepFacts
<1>6. Types'
  BY <1>2, TypesKept, LocalTypes, RetireTypes DEF Typed, SameLinks, IInv
<1>7. ControlInv'
  BY DEF IInv, ControlInv, Control, Stamping, SameHeap, SameSnap, Used
<1>8. LockInv'
  BY DEF IInv, LockInv, SameHeap
<1>9. RetireInv' /\ LeakInv'
  BY DEF IInv, RetireInv, LeakInv, Owes, Prepared, StorePending, Stamping, InHist,
     SameHeap, SameLinks
<1> QED
  BY <1>3, <1>5, <1>6, <1>7, <1>8, <1>9 DEF IInv

\* AfterHook keeps the invariant.
LEMMA AfterHookKept ==
  ASSUME IInv, AfterHook
  PROVE  IInv'
<1>1. Types
  BY DEF IInv
<1>2. /\ done_stamp' \in Nat /\ done_stamp < done_stamp' /\ done_stamp' <= stamp
      /\ \A u \in Threads : local_stamp[u] # NoStamp => done_stamp' <= local_stamp[u]
      /\ pc' = pc /\ loc' = loc /\ stamp' = stamp /\ seen' = seen
      /\ SameHeap /\ SameLinks /\ SameSnap
  BY <1>1, AfterHookEffect
<1>3. done_stamp <= done_stamp'
  BY <1>1, <1>2, RefTypes
<1> QED
  BY <1>2, <1>3, QuietKept

\* A step that changes nothing keeps the invariant.
LEMMA StutterKept ==
  ASSUME IInv, UNCHANGED vars
  PROVE  IInv'
<1>1. /\ pc' = pc /\ loc' = loc /\ SameHeap /\ SameLinks /\ SameSnap /\ seen' = seen
      /\ stamp' = stamp /\ done_stamp' = done_stamp
  BY DEF vars, heapVars, clockVars, linkVars, histVars, snapVars, SameHeap, SameLinks, SameSnap
<1>2. done_stamp \in Nat /\ done_stamp <= stamp
  BY RefTypes DEF IInv, ClockInv
<1>3. \A u \in Threads : local_stamp[u] # NoStamp => done_stamp' <= local_stamp[u]
  BY <1>1 DEF IInv, ThreadInv, ClockOf
<1>4. done_stamp <= done_stamp' /\ done_stamp' \in Nat /\ done_stamp' <= stamp'
  BY <1>1, <1>2
<1> QED
  BY <1>1, <1>3, <1>4, QuietKept

\* Store keeps the invariant: store begins: it has the lock and makes its
\* version.
LEMMA StoreKept ==
  ASSUME NotRedundant, IInv, NEW t \in Threads, NEW p \in use.stored,
         NEW x \in use.nodes \cup {Null}, Store(t, p, x)
  PROVE  IInv'
<1>1. /\ Fine(t) /\ ThreadInv(t)'
  BY StoreFine, StoreOwn
<1>2. /\ Others(t) /\ Typed /\ pc[t] = "idle" /\ pc'[t] = "store_cam"
      /\ loc'[t].op = "store" /\ loc'[t].p = p
      /\ loc'[t].version = Len(hist[p]) + 1
      /\ Prepares(loc'[t].new, x, v[p])
      /\ \A u \in Threads : loc[u].op = "store" => loc[u].p # p
      /\ use' = use /\ v' = v /\ time_stamp' = time_stamp /\ hist' = hist
      /\ SameClock /\ retires' = retires /\ SameSnap /\ seen' = seen
  BY StoreEffect
<1>3. ~Owes(t) /\ ~Prepared(t) /\ loc[t].op = "none"
  BY <1>2, IdleHoldsNothing
<1>4. Control(t)'
  BY <1>2 DEF Control, Stamping, Used
<1>5. ~Owes(t)' /\ Prepared(t)'
  BY <1>2 DEF Owes, Prepared, StorePending, Stamping
<1>6. links \subseteq links' /\ \A y \in links' : y \in links \/ loc'[t].new = y
  BY <1>2 DEF Prepares
<1>7. RetireInv' /\ retires' \in [Links -> Nat]
  BY <1>1, <1>2, <1>5, <1>6, RetireQuiet, RetireTypes
<1>8. LeakInv'
  BY <1>1, <1>2, <1>3, <1>5, <1>6, LeakQuiet
<1>9. LockInv'
  <2>1. LockInv
    BY DEF IInv
  <2>2. \A u \in Threads : u # t => loc'[u] = loc[u]
    BY <1>2 DEF Others
  <2>3. \A w, u \in Threads : loc'[w].op = "store" /\ loc'[u].op = "store"
                              /\ loc'[w].p = loc'[u].p => w = u
    BY <1>2, <2>1, <2>2 DEF LockInv
  <2>4. ASSUME NEW q \in use.stored, Len(hist[q]) # 0, time_stamp[hist[q][Len(hist[q])]] = Tbd
        PROVE  \E u \in Threads : loc'[u].op = "store" /\ loc'[u].p = q
    <3>1. PICK u \in Threads : loc[u].op = "store" /\ loc[u].p = q
      BY <2>1, <2>4 DEF LockInv
    <3> QED
      BY <1>3, <2>2, <3>1
  <2> QED
    BY <1>2, <2>3, <2>4 DEF LockInv
<1> QED
  BY <1>1, <1>2, <1>4, <1>7, <1>8, <1>9, UpdateKept

\* What a call that has made a version knows of it.
LEMMA PreparedLink ==
  ASSUME IInv, NEW t \in Threads, Prepared(t), IsIndirect(loc[t].new)
  PROVE  retires[loc[t].new] = 0 /\ ~InHist(loc[t].new) /\ loc[t].new \in links
BY ThreadFacts DEF ThreadInv, PreparedOf

\* A store installs its version over v[p].
LEMMA StoreInstallKept ==
  ASSUME IInv, NEW t \in Threads, pc[t] \in {"store_cam", "store_recam"}, Fine(t),
         ThreadInv(t)', Typed, SameCall(t), SameVersions(t), Control(t)',
         Installs(loc[t].p, loc[t].new),
         \/ Retired(v[loc[t].p]) /\ ~Owes(t)'
         \/ /\ retires' = retires
            /\ IF IsIndirect(v[loc[t].p]) THEN Owes(t)' /\ loc'[t].old = v[loc[t].p]
                                          ELSE Owes(t)' => ~IsIndirect(loc'[t].old),
         links' = links, SameClock, SameSnap, seen' = seen
  PROVE  IInv'
<1> DEFINE p == loc[t].p
           x == loc[t].new
<1>1. Prepared(t) /\ p \in Ptrs /\ x \in Refs
  BY StoreReady, ThreadFacts, LocalsFields
<1>2. ~Owes(t)
  BY DEF Owes, Stamping
<1>3. v' = [v EXCEPT ![p] = x]
  BY DEF Installs
<1>4. IsIndirect(x) => retires[x] = 0 /\ ~InHist(x) /\ x \in links'
  BY <1>1, PreparedLink
<1>5. retires' \in [Links -> Nat]
  BY RetireTypes, RetiredTypes
<1>6. Prepared(t) => loc[t].new = x
  OBVIOUS
<1>7. \/ Retired(v[p]) /\ ~Owes(t)'
      \/ /\ retires' = retires
         /\ IF IsIndirect(v[p]) THEN Owes(t)' /\ loc'[t].old = v[p]
                                ELSE Owes(t)' => ~IsIndirect(loc'[t].old)
  OBVIOUS
<1>8. RetireInv' /\ LeakInv'
  <2> HIDE DEF p, x
  <2> QED
    BY <1>1, <1>2, <1>3, <1>4, <1>6, <1>7, Replaces
<1>9. LockInv'
  BY LockKept DEF SameCall
<1> QED
  BY <1>5, <1>8, <1>9, UpdateKept

\* StoreWrite keeps the invariant: store installs its version in the builds
\* without shortcuts.
LEMMA StoreWriteKept ==
  ASSUME IInv, NEW t \in Threads, StoreWrite(t)
  PROVE  IInv'
<1> DEFINE l == loc[t]
           where == IF use.build = "indirect" THEN "retire" ELSE "return"
<1>1. Fine(t) /\ ThreadInv(t)' /\ Installs(l.p, l.new)
  BY StoreWriteFine, StoreWriteOwn
<1>2. /\ Typed /\ SameCall(t) /\ SameVersions(t) /\ pc[t] = "store_cam"
      /\ use.build # "hybrid"
      /\ IF use.build = "noshortcut" THEN Retired(l.old) ELSE retires' = retires
      /\ SetsStamp(t, l.new, where)
      /\ use' = use /\ SameClock /\ links' = links /\ SameSnap /\ seen' = seen
  BY StoreWriteEffect
<1>3. l.op = "store" /\ l.p \in Ptrs /\ v[l.p] = l.old
  BY <1>2, StoreReady DEF StoreBefore
<1>4. Control(t) /\ use.build \in Builds
  BY ThreadFacts, UseFacts DEF IInv, Types
<1>5. Control(t)'
  BY <1>2, <1>3, <1>4 DEF Control, Stamping, SetsStamp, SameCall, Used
<1>6. Owes(t)' <=> use.build = "indirect"
  BY <1>2 DEF Owes, Stamping, SetsStamp
<1>7. use.build = "once" => ~IsIndirect(v[l.p])
  <2>1. use.build = "once" => links = {}
    BY DEF IInv, HeapInv, HistInv
  <2> QED
    BY <1>3, <2>1, HeldInHist
<1>8. \/ Retired(v[l.p]) /\ ~Owes(t)'
      \/ /\ retires' = retires
         /\ IF IsIndirect(v[l.p]) THEN Owes(t)' /\ loc'[t].old = v[l.p]
                                  ELSE Owes(t)' => ~IsIndirect(loc'[t].old)
  BY <1>2, <1>3, <1>4, <1>6, <1>7 DEF Builds, SameVersions
<1> QED
  BY <1>1, <1>2, <1>5, <1>8, StoreInstallKept

\* StoreCam keeps the invariant: store installs its version unless the old
\* link was cut out.
LEMMA StoreCamKept ==
  ASSUME IInv, NEW t \in Threads, StoreCam(t)
  PROVE  IInv'
<1> DEFINE l == loc[t]
<1>1. Fine(t) /\ ThreadInv(t)'
  BY StoreCamFine, StoreCamOwn
<1>2. /\ Typed /\ SameCall(t) /\ SameVersions(t) /\ pc[t] = "store_cam"
      /\ use.build = "hybrid"
      /\ IF IsIndirect(l.old) THEN pc'[t] = "store_check"
         ELSE SetsStamp(t, l.new, "shortcut") \/ SetsStamp(t, l.new, "return")
      /\ use' = use /\ SameClock /\ SameLinks /\ SameSnap /\ seen' = seen
  BY StoreCamEffect
<1>3. l.op = "store" /\ l.p \in Ptrs /\ StorePending(t) /\ Prepared(t)
  BY <1>2, StoreReady
<1>4. Control(t)
  BY ThreadFacts
<1>5. Control(t)'
  BY <1>2, <1>3, <1>4 DEF Control, Stamping, SetsStamp, SameCall, SameVersions, Used,
     IsIndirect
<1>6. links' = links /\ retires' = retires
  BY <1>2 DEF SameLinks
<1>7. CASE v[l.p] = l.old
  <2>1. Installs(l.p, l.new) /\ ~StorePending(t)'
    BY <1>7, StoreCamFine
  <2>2. Owes(t)' <=> IsIndirect(l.old)
    BY <1>2, <2>1 DEF Owes, Stamping, SetsStamp
  <2>3. IF IsIndirect(v[l.p]) THEN Owes(t)' /\ loc'[t].old = v[l.p]
                              ELSE Owes(t)' => ~IsIndirect(loc'[t].old)
    BY <1>2, <1>7, <2>2 DEF SameVersions
  <2> QED
    BY <1>1, <1>2, <1>5, <1>6, <2>1, <2>3, StoreInstallKept
<1>8. CASE v[l.p] # l.old
  <2>1. IsIndirect(l.old) /\ SameHeap
    BY <1>8, StoreCamFine
  <2>2. StorePending(t)' /\ Prepared(t)' /\ loc'[t].new = l.new
    BY <1>2, <1>3, <2>1 DEF StorePending, Prepared, SameHeap, SameCall, SameVersions
  <2>3. ~Owes(t) /\ ~Owes(t)'
    BY <1>2, <2>1, <2>2 DEF Owes, Stamping
  <2>4. RetireInv' /\ LeakInv' /\ retires' \in [Links -> Nat]
    BY <1>1, <1>6, <2>1, <2>2, <2>3, RetireQuiet, LeakQuiet, RetireTypes DEF SameHeap
  <2>5. LockInv'
    BY <1>1, <1>2, LockKept DEF SameCall
  <2> QED
    BY <1>1, <1>2, <1>5, <2>4, <2>5, UpdateKept
<1> QED
  BY <1>7, <1>8

\* StoreRecam keeps the invariant: store installs its version over the value
\* of the old link.
LEMMA StoreRecamKept ==
  ASSUME IInv, NEW t \in Threads, StoreRecam(t)
  PROVE  IInv'
<1> DEFINE l == loc[t]
<1>1. /\ Fine(t) /\ ThreadInv(t)' /\ Installs(l.p, l.new) /\ v[l.p] = value[l.old]
      /\ IsIndirect(l.old)
  BY StoreRecamFine, StoreRecamOwn
<1>2. /\ Typed /\ SameCall(t) /\ SameVersions(t) /\ pc[t] = "store_recam"
      /\ SetsStamp(t, l.new, "shortcut") \/ SetsStamp(t, l.new, "return")
      /\ use' = use /\ SameClock /\ SameLinks /\ SameSnap /\ seen' = seen
  BY StoreRecamEffect
<1>3. l.op = "store" /\ Control(t)
  BY <1>2, ThreadFacts DEF Control
<1>4. Control(t)'
  BY <1>2, <1>3 DEF Control, Stamping, SetsStamp, SameCall, Used
<1>5. ~Owes(t)'
  BY <1>2 DEF Owes, Stamping, SetsStamp
<1>6. ~IsIndirect(v[l.p])
  <2>1. v[l.p] \in Values
    BY <1>1, RefTypes DEF IsIndirect, IInv
  <2> QED
    BY <2>1, Constants DEF Values, IsIndirect
<1>7. links' = links /\ retires' = retires
  BY <1>2 DEF SameLinks
<1> QED
  BY <1>1, <1>2, <1>4, <1>5, <1>6, <1>7, StoreInstallKept

\* StoreCheck keeps the invariant: store finds out whether its cam lost.
LEMMA StoreCheckKept ==
  ASSUME IInv, NEW t \in Threads, StoreCheck(t)
  PROVE  IInv'
<1> DEFINE l == loc[t]
<1>1. Fine(t) /\ ThreadInv(t)' /\ Control(t)
  BY StoreCheckFine, StoreCheckOwn, ThreadFacts
<1>2. /\ Typed /\ SameCall(t) /\ SameVersions(t) /\ pc[t] = "store_check"
      /\ \/ v[l.p] = value[l.old] /\ pc'[t] = "store_recam" /\ retires' = retires
         \/ /\ v[l.p] # value[l.old] /\ Retired(l.old)
            /\ SetsStamp(t, l.new, "shortcut") \/ SetsStamp(t, l.new, "return")
      /\ SameHeap /\ SameClock /\ links' = links /\ SameSnap /\ seen' = seen
  BY StoreCheckEffect
<1>3. /\ l.op = "store" /\ l.p \in Ptrs /\ use.build = "hybrid" /\ IsIndirect(l.old)
      /\ v[l.p] = value[l.old] <=> StorePending(t)
  BY <1>2, CheckDecides
<1>4. Control(t)'
  BY <1>1, <1>2, <1>3 DEF Control, Stamping, SetsStamp, SameCall, SameVersions, Used,
     IsIndirect, SameHeap
<1>5. LockInv'
  BY <1>1, <1>2, LockKept DEF SameCall
<1>6. StorePending(t)' <=> StorePending(t)
  BY <1>2 DEF StorePending, SameHeap, SameCall, SameVersions
<1>7. CASE v[l.p] = value[l.old] /\ pc'[t] = "store_recam" /\ retires' = retires
  <2>1. Prepared(t)' /\ ~Owes(t)' /\ ~Owes(t) /\ loc'[t].new = l.new
    BY <1>2, <1>3, <1>6, <1>7 DEF Owes, Stamping, Prepared, SameVersions
  <2>2. RetireInv' /\ LeakInv' /\ retires' \in [Links -> Nat]
    BY <1>1, <1>2, <1>7, <2>1, RetireQuiet, LeakQuiet, RetireTypes DEF SameHeap
  <2> QED
    BY <1>1, <1>2, <1>4, <1>5, <2>2, UpdateKept
<1>8. CASE /\ v[l.p] # value[l.old] /\ Retired(l.old)
           /\ SetsStamp(t, l.new, "shortcut") \/ SetsStamp(t, l.new, "return")
  <2>1. Owes(t) /\ ~Owes(t)' /\ ~Prepared(t)
    BY <1>2, <1>3, <1>8 DEF Owes, Prepared, Stamping, SetsStamp
  <2>2. RetireInv' /\ LeakInv'
    BY <1>1, <1>2, <1>8, <2>1, Pays DEF SameHeap
  <2>3. retires' \in [Links -> Nat]
    BY <1>8, RetiredTypes
  <2> QED
    BY <1>1, <1>2, <1>4, <1>5, <2>2, <2>3, UpdateKept
<1> QED
  BY <1>2, <1>7, <1>8

\* A cas installs x over the value it expects, and owes the old version.
LEMMA CasInstallKept ==
  ASSUME IInv, NEW t \in Threads, pc[t] \in {"cas_try", "cas_retry"}, Fine(t),
         ThreadInv(t)', Typed, SameCall(t), Control(t)', NEW x \in Objects,
         Installs(loc[t].p, x), IsIndirect(x) => retires[x] = 0 /\ ~InHist(x) /\ x \in links',
         loc'[t].old = v[loc[t].p], SetsStamp(t, x, "retire"), retires' = retires,
         links \subseteq links', \A z \in links' : z \in links \/ z = x,
         Prepared(t) => loc[t].new = x, SameClock, SameSnap, seen' = seen
  PROVE  IInv'
<1> DEFINE p == loc[t].p
<1>1. p \in Ptrs /\ x \in Refs
  BY ThreadFacts DEF Control, Refs
<1>2. ~Owes(t) /\ Owes(t)'
  BY DEF Owes, Stamping, SetsStamp
<1>3. v' = [v EXCEPT ![p] = x] /\ loc'[t].old = v[p]
  BY DEF Installs
<1>4. IF IsIndirect(v[p]) THEN Owes(t)' /\ loc'[t].old = v[p]
                          ELSE Owes(t)' => ~IsIndirect(loc'[t].old)
  BY <1>2, <1>3
<1>5. RetireInv' /\ LeakInv'
  <2> HIDE DEF p
  <2> QED
    BY <1>1, <1>2, <1>3, <1>4, Replaces
<1>6. LockInv' /\ retires' \in [Links -> Nat]
  BY LockKept, RetireTypes DEF SameCall
<1> QED
  BY <1>5, <1>6, UpdateKept

\* CasTry keeps the invariant: cas makes its version and tries to install
\* it.
LEMMA CasTryKept ==
  ASSUME IInv, NEW t \in Threads, CasTry(t)
  PROVE  IInv'
<1> DEFINE l == loc[t]
           new == loc'[t].new
<1>1. /\ Fine(t) /\ ThreadInv(t)' /\ Control(t) /\ new \in Objects
  BY CasTryFine, CasTryOwn, ThreadFacts
<1>2. /\ Typed /\ SameCall(t) /\ pc[t] = "cas_try" /\ Prepares(new, l.arg, l.old)
      /\ \/ /\ v[l.p] = l.old /\ Installs(l.p, new) /\ loc'[t].old = l.old
            /\ SetsStamp(t, new, "retire")
         \/ /\ v[l.p] # l.old /\ v' = v /\ hist' = hist
            /\ pc'[t] = "cas_fail" \/ (pc'[t] = "cas_retry" /\ Retries(l))
      /\ use' = use /\ SameClock /\ retires' = retires /\ SameSnap /\ seen' = seen
  BY CasTryEffect
<1>3. l.op = "cas" /\ ~Owes(t) /\ ~Prepared(t)
  BY <1>1, <1>2 DEF Control, Owes, Prepared, StorePending, Stamping
<1>4. Control(t)'
  BY <1>1, <1>2, <1>3 DEF Control, Stamping, SetsStamp, SameCall, Used, Retries
<1>5. links \subseteq links' /\ \A z \in links' : z \in links \/ z = new
  BY <1>2 DEF Prepares
<1>6. IsIndirect(new) => retires[new] = 0 /\ ~InHist(new) /\ new \in links'
  <2>1. IsIndirect(new) => new \notin links /\ new \in links'
    BY <1>2 DEF Prepares
  <2>2. HistInv
    BY DEF IInv, HeapInv
  <2>3. IsIndirect(new) => retires[new] = 0
    BY <2>1, RetireTypes DEF RetireInv, IsIndirect
  <2> QED
    BY <2>1, <2>2, <2>3 DEF HistInv, InHist
<1>7. CASE /\ v[l.p] = l.old /\ Installs(l.p, new) /\ loc'[t].old = l.old
           /\ SetsStamp(t, new, "retire")
  BY <1>1, <1>2, <1>3, <1>4, <1>5, <1>6, <1>7, CasInstallKept
<1>8. CASE /\ v[l.p] # l.old /\ v' = v /\ hist' = hist
           /\ pc'[t] = "cas_fail" \/ (pc'[t] = "cas_retry" /\ Retries(l))
  <2>1. Prepared(t)' /\ ~Owes(t)'
    BY <1>8 DEF Prepared, Owes, Stamping
  <2>2. RetireInv' /\ LeakInv' /\ retires' \in [Links -> Nat]
    BY <1>1, <1>2, <1>3, <1>5, <1>8, <2>1, RetireQuiet, LeakQuiet, RetireTypes
  <2>3. LockInv'
    BY <1>1, <1>2, LockKept DEF SameCall
  <2> QED
    BY <1>1, <1>2, <1>4, <2>2, <2>3, UpdateKept
<1> QED
  BY <1>2, <1>7, <1>8

\* CasRetry keeps the invariant: cas tries again with the value of the link
\* it expected.
LEMMA CasRetryKept ==
  ASSUME IInv, NEW t \in Threads, CasRetry(t)
  PROVE  IInv'
<1> DEFINE l == loc[t]
<1>1. /\ Fine(t) /\ ThreadInv(t)' /\ Control(t) /\ CasOf(t) /\ l.new \in Objects
  BY CasRetryFine, CasRetryOwn, ThreadFacts DEF ThreadInv
<1>2. /\ Typed /\ SameCall(t) /\ pc[t] = "cas_retry"
      /\ loc'[t].old = l.old /\ loc'[t].new = l.new
      /\ \/ v[l.p] = l.old /\ Installs(l.p, l.new) /\ SetsStamp(t, l.new, "retire")
         \/ v[l.p] # l.old /\ v' = v /\ hist' = hist /\ pc'[t] = "cas_fail"
      /\ use' = use /\ SameClock /\ SameLinks /\ SameSnap /\ seen' = seen
  BY CasRetryEffect
<1>3. l.op = "cas" /\ ~Owes(t) /\ Prepared(t)
  BY <1>1, <1>2 DEF Control, Owes, Prepared, Stamping
<1>4. Control(t)'
  BY <1>1, <1>2, <1>3 DEF Control, Stamping, SetsStamp, SameCall, Used
<1>5. links' = links /\ retires' = retires
  BY <1>2 DEF SameLinks
<1>6. IsIndirect(l.new) => retires[l.new] = 0 /\ ~InHist(l.new) /\ l.new \in links'
  BY <1>3, <1>5, PreparedLink
<1>7. CASE v[l.p] = l.old /\ Installs(l.p, l.new) /\ SetsStamp(t, l.new, "retire")
  BY <1>1, <1>2, <1>3, <1>4, <1>5, <1>6, <1>7, CasInstallKept
<1>8. CASE v[l.p] # l.old /\ v' = v /\ hist' = hist /\ pc'[t] = "cas_fail"
  <2>1. Prepared(t)' /\ ~Owes(t)'
    BY <1>8 DEF Prepared, Owes, Stamping
  <2>2. RetireInv' /\ LeakInv' /\ retires' \in [Links -> Nat]
    BY <1>1, <1>2, <1>3, <1>5, <1>8, <2>1, RetireQuiet, LeakQuiet, RetireTypes
  <2>3. LockInv'
    BY <1>1, <1>2, LockKept DEF SameCall
  <2> QED
    BY <1>1, <1>2, <1>4, <2>2, <2>3, UpdateKept
<1> QED
  BY <1>2, <1>7, <1>8

\* CasFail keeps the invariant: cas gives its link back and stamps what it
\* lost to.
LEMMA CasFailKept ==
  ASSUME IInv, NEW t \in Threads, CasFail(t)
  PROVE  IInv'
<1> DEFINE l == loc[t]
<1>1. Fine(t) /\ ThreadInv(t)' /\ Control(t)
  BY CasFailFine, CasFailOwn, ThreadFacts
<1>2. /\ Typed /\ SameCall(t) /\ pc[t] = "cas_fail" /\ SetsStamp(t, v[l.p], "return")
      /\ links' = links \ {l.new} /\ retires' = retires
      /\ SameHeap /\ SameClock /\ SameSnap /\ seen' = seen
  BY CasFailEffect
<1>3. l.op = "cas" /\ ~Owes(t) /\ Prepared(t)
  BY <1>1, <1>2 DEF Control, Owes, Prepared, Stamping
<1>4. Control(t)'
  BY <1>1, <1>2, <1>3 DEF Control, Stamping, SetsStamp, SameCall, SameHeap, Used
<1>5. ~Owes(t)'
  BY <1>2 DEF Owes, Stamping, SetsStamp
<1>6. \A x \in links : retires[x] = 1 => x \in links'
  BY <1>2, <1>3, PreparedLink, RetireTypes DEF IsIndirect
<1>7. RetireInv' /\ retires' \in [Links -> Nat]
  BY <1>1, <1>2, <1>3, <1>5, <1>6, RetireQuiet, RetireTypes DEF SameHeap
<1>8. LeakInv'
  BY <1>1, <1>2, <1>3, LeakQuiet DEF SameHeap
<1>9. LockInv'
  BY <1>1, <1>2, LockKept DEF SameCall
<1> QED
  BY <1>1, <1>2, <1>4, <1>7, <1>8, <1>9, UpdateKept

(***************************************************************************)
(* The invariant holds in every state.                                     *)
(***************************************************************************)
\* What the pointers are constructed with.
LEMMA InitPointers ==
  ASSUME Init
  PROVE  /\ use \in Uses /\ v \in [Ptrs -> Refs] /\ links = {x \in Links : \E p \in Ptrs : v[p] = x}
         /\ use.build # "indirect" => \A p \in Ptrs : ~IsIndirect(v[p])
         /\ \A p, q \in Ptrs : IsIndirect(v[p]) /\ v[q] = v[p] => q = p
         /\ value \in [Links -> Values]
<1>1. use \in Uses /\ Used \subseteq Ptrs /\ use.initial \subseteq Nodes
  BY UseFacts DEF Init
<1>2. PICK refs \in Constructed : v = [p \in Ptrs |-> IF p \in Used THEN refs[p] ELSE Null]
  BY DEF Init
<1>3. ASSUME use.build = "indirect"
      PROVE  /\ v \in [Ptrs -> Refs]
             /\ \A p, q \in Ptrs : IsIndirect(v[p]) /\ v[q] = v[p] => q = p
  <2>1. refs \in [Used -> Links] /\ IsInjective(refs)
    BY <1>2, <1>3 DEF Constructed
  <2>2. \A p \in Ptrs : v[p] = IF p \in Used THEN refs[p] ELSE Null
    BY <1>2
  <2>3. \A p, q \in Ptrs : IsIndirect(v[p]) /\ v[q] = v[p] => q = p
    BY <2>1, <2>2, Constants DEF IsInjective, IsIndirect
  <2>4. v \in [Ptrs -> Refs]
    BY <1>2, <2>1 DEF Refs, Objects
  <2> QED
    BY <2>3, <2>4
<1>4. ASSUME use.build # "indirect"
      PROVE  v \in [Ptrs -> Refs] /\ \A p \in Ptrs : ~IsIndirect(v[p])
  <2>1. refs \in [Used -> Nodes \cup {Null}]
    BY <1>1, <1>2, <1>4 DEF Constructed
  <2>2. \A p \in Ptrs : v[p] \in Nodes \cup {Null}
    BY <1>2, <2>1
  <2>3. v \in [Ptrs -> Refs]
    BY <1>2, <2>1 DEF Refs, Objects
  <2>4. \A p \in Ptrs : ~IsIndirect(v[p])
    BY <2>2, Constants DEF IsIndirect
  <2> QED
    BY <2>3, <2>4
<1>5. v \in [Ptrs -> Refs]
  BY <1>3, <1>4
<1>6. links = {x \in Links : \E p \in Ptrs : v[p] = x}
  BY <1>5 DEF Init, Range
<1>7. value \in [Links -> Values]
  <2>1. PICK vals \in [links -> use.initial \cup {Null}] :
          value = [x \in Links |-> IF x \in links THEN vals[x] ELSE Null]
    BY DEF Init
  <2> QED
    BY <1>1, <2>1 DEF Values
<1> QED
  BY <1>1, <1>3, <1>4, <1>5, <1>6, <1>7

\* What the histories and the stamps begin with.
LEMMA InitHistory ==
  ASSUME Init
  PROVE  /\ hist \in [Ptrs -> Seq(Objects)]
         /\ \A p \in Ptrs : \/ v[p] = Null /\ Len(hist[p]) = 0
                            \/ v[p] \in Objects /\ Len(hist[p]) = 1 /\ hist[p][1] = v[p]
         /\ time_stamp \in [Objects -> Nat] /\ 1 < Tbd
         /\ \A x \in Objects : IF \E p \in Ptrs : v[p] = x THEN time_stamp[x] = 1
                                                         ELSE time_stamp[x] = Tbd
<1>1. v \in [Ptrs -> Refs]
  BY InitPointers
<1>2. \A p \in Ptrs : hist[p] = IF v[p] = Null THEN <<>> ELSE <<v[p]>>
  BY DEF Init
<1>3. \A p \in Ptrs : v[p] = Null \/ v[p] \in Objects
  BY <1>1 DEF Refs
<1>4. hist = [p \in Ptrs |-> hist[p]]
  BY DEF Init
<1>5. ASSUME NEW p \in Ptrs
      PROVE  /\ hist[p] \in Seq(Objects)
             /\ \/ v[p] = Null /\ Len(hist[p]) = 0
                \/ v[p] \in Objects /\ Len(hist[p]) = 1 /\ hist[p][1] = v[p]
  <2>1. CASE v[p] = Null
    <3>1. hist[p] = <<>>
      BY <1>2, <2>1
    <3> QED
      BY <2>1, <3>1
  <2>2. CASE v[p] # Null
    <3> DEFINE x == v[p]
    <3>1. hist[p] = <<x>> /\ x \in Objects
      BY <1>2, <1>3, <2>2
    <3> HIDE DEF x
    <3>2. hist[p] \in Seq(Objects) /\ Len(hist[p]) = 1 /\ hist[p][1] = x
      BY <3>1
    <3> QED
      BY <3>1, <3>2 DEF x
  <2> QED
    BY <2>1, <2>2
<1>6. hist \in [Ptrs -> Seq(Objects)]
  BY <1>4, <1>5
<1>7. \A p \in Ptrs : \/ v[p] = Null /\ Len(hist[p]) = 0
                      \/ v[p] \in Objects /\ Len(hist[p]) = 1 /\ hist[p][1] = v[p]
  BY <1>5
<1>8. Tbd \in Nat /\ 1 < Tbd
  BY MaxStampAssumption DEF Tbd
<1>9. time_stamp = [x \in Objects |-> IF \E p \in Ptrs : v[p] = x THEN 1 ELSE Tbd]
  BY DEF Init, ZeroStamp
<1> QED
  BY <1>6, <1>7, <1>8, <1>9

\* The invariant holds initially.
LEMMA InitIInv ==
  ASSUME Init
  PROVE  IInv
<1>1. /\ use \in Uses /\ v \in [Ptrs -> Refs]
      /\ links = {x \in Links : \E p \in Ptrs : v[p] = x}
      /\ use.build # "indirect" => \A p \in Ptrs : ~IsIndirect(v[p])
      /\ \A p, q \in Ptrs : IsIndirect(v[p]) /\ v[q] = v[p] => q = p
      /\ value \in [Links -> Values]
  BY InitPointers
<1>2. /\ hist \in [Ptrs -> Seq(Objects)] /\ 1 < Tbd /\ time_stamp \in [Objects -> Nat]
      /\ \A x \in Objects : IF \E p \in Ptrs : v[p] = x THEN time_stamp[x] = 1
                                                      ELSE time_stamp[x] = Tbd
  BY InitHistory
<1>3. \A p \in Ptrs : \/ v[p] = Null /\ Len(hist[p]) = 0
                      \/ v[p] \in Objects /\ Len(hist[p]) = 1 /\ hist[p][1] = v[p]
  BY InitHistory
<1>4. /\ next_version = [x \in Objects |-> Null] /\ stamp = 1 /\ done_stamp = 1
      /\ local_stamp = [t \in Threads |-> NoStamp] /\ pc = [t \in Threads |-> "idle"]
      /\ loc = [t \in Threads |-> NoLocals] /\ retires = [x \in Links |-> 0]
      /\ seen = [p \in Ptrs |-> Len(hist[p])]
      /\ window = [t \in Threads |-> [p \in Ptrs |-> <<0, 0>>]]
      /\ snap = [t \in Threads |-> [p \in Ptrs |-> Unread]]
  BY DEF Init
<1>5. \A p \in Ptrs : Len(hist[p]) \in Nat
  BY <1>2
<1>6. Types
  <2>1. use \in Uses /\ v \in [Ptrs -> Refs] /\ time_stamp \in [Objects -> Nat]
        /\ value \in [Links -> Values] /\ links \in SUBSET Links
        /\ hist \in [Ptrs -> Seq(Objects)]
    BY <1>1, <1>2
  <2>2. /\ next_version \in [Objects -> Refs] /\ retires \in [Links -> Nat]
        /\ seen \in [Ptrs -> Nat] /\ stamp \in Nat /\ done_stamp \in Nat
        /\ local_stamp \in [Threads -> Nat \cup {NoStamp}]
    BY <1>4, <1>5 DEF Refs
  <2>3. /\ window \in [Threads -> [Ptrs -> Nat \X Nat]]
        /\ snap \in [Threads -> [Ptrs -> Values \cup {Unread}]]
        /\ pc \in [Threads -> PCs] /\ loc \in [Threads -> Locals]
    BY <1>4, NoLocalsType DEF PCs
  <2> QED
    BY <2>1, <2>2, <2>3 DEF Types
<1>7. NoLocals.op = "none" /\ NoLocals.arg = Null
  BY DEF NoLocals
<1>8. ControlInv
  BY <1>4, <1>7 DEF ControlInv, Control, Stamping
<1>9. ClockInv
  <2>1. \A x \in Objects : time_stamp[x] = 1 \/ time_stamp[x] = Tbd
    BY <1>2
  <2>2. 1 \in 1 .. LastStamp
    BY Constants
  <2> QED
    BY <1>4, <2>1, <2>2 DEF ClockInv
<1>10. HeapInv
  <2>1. HistInv
    <3>1. ASSUME NEW p \in Ptrs, NEW k \in 1 .. Len(hist[p]), IsIndirect(hist[p][k])
          PROVE  hist[p][k] \in links
      BY <1>1, <1>3, <3>1 DEF IsIndirect
    <3>2. ASSUME NEW x \in Objects, time_stamp[x] # Tbd
          PROVE  InHist(x)
      <4>1. PICK p \in Ptrs : v[p] = x
        BY <1>2, <3>2
      <4>2. 1 \in 1 .. Len(hist[p]) /\ hist[p][1] = x
        BY <1>3, <4>1, Constants
      <4> QED
        BY <4>2 DEF InHist
    <3>3. use.build = "once" => links = {}
      BY <1>1 DEF IsIndirect
    <3> QED
      BY <3>1, <3>2, <3>3 DEF HistInv
  <2>2. PtrInv
    BY <1>3 DEF PtrInv
  <2>3. ChainInv
    <3>1. ASSUME NEW p \in Ptrs, NEW k \in 1 .. Len(hist[p])
          PROVE  k - 1 = 0 /\ next_version[hist[p][k]] = Null
      <4>1. Len(hist[p]) = 1 /\ hist[p][1] \in Objects
        <5>1. Len(hist[p]) # 0
          OBVIOUS
        <5> QED
          BY <1>3, <5>1
      <4>2. k = 1
        BY <4>1
      <4> QED
        BY <1>4, <4>1, <4>2
    <3> QED
      BY <3>1 DEF ChainInv, Shows
  <2>4. OrderInv
    BY <1>3 DEF OrderInv
  <2>5. ValueInv
    BY <1>1, <1>3 DEF ValueInv
  <2> QED
    BY <2>1, <2>2, <2>3, <2>4, <2>5 DEF HeapInv
<1>11. \A p \in Ptrs : Len(hist[p]) # 0 => time_stamp[hist[p][Len(hist[p])]] # Tbd
  BY <1>2, <1>3
<1>12. LockInv
  <2>1. use.stored \subseteq Ptrs
    BY <1>1, UseFacts
  <2> QED
    BY <1>4, <1>7, <1>11, <2>1 DEF LockInv
<1>13. RetireInv
  BY <1>1, <1>4 DEF RetireInv, Owes, Stamping, IsIndirect
<1>14. LeakInv
  BY <1>1 DEF LeakInv
<1>15. SeenInv
  BY <1>4, <1>5, <1>11 DEF SeenInv
<1>16. ASSUME NEW t \in Threads
       PROVE  ThreadInv(t)
  <2>1. pc[t] = "idle" /\ loc[t].op = "none" /\ local_stamp[t] = NoStamp
        /\ \A p \in Ptrs : snap[t][p] = Unread
    BY <1>4, <1>7
  <2>2. ClockOf(t) /\ PendingOf(t) /\ CurOf(t) /\ WindowOf(t) /\ ChaseOf(t) /\ SnapOf(t)
    BY <2>1 DEF ClockOf, PendingOf, CurOf, WindowOf, ChaseOf, SnapOf, Stamping
  <2>3. CasOf(t) /\ StoreOf(t) /\ FreshOf(t) /\ PreparedOf(t)
    BY <2>1 DEF CasOf, StoreOf, FreshOf, PreparedOf, BeforeTry, Prepared, StorePending,
       Stamping
  <2> QED
    BY <2>2, <2>3 DEF ThreadInv
<1> QED
  BY <1>6, <1>8, <1>9, <1>10, <1>12, <1>13, <1>14, <1>15, <1>16 DEF IInv

\* Under the proviso that no program stores the value that is already there,
\* every step keeps the invariant.
LEMMA NextKept ==
  ASSUME NotRedundant, IInv, [Next]_vars
  PROVE  IInv'
<1>1. ASSUME NEW t \in Threads, SetStamp(t) \/ Shortcut(t) \/ RetireOld(t) \/ Return(t)
      PROVE  IInv'
  BY <1>1, StampFetchKept, StampCasKept, ShortcutKept, RetireOldKept, ReturnKept
     DEF SetStamp
<1>2. ASSUME NEW t \in Threads, ReaderStep(t)
      PROVE  IInv'
  BY <1>2, LoadKept DEF ReaderStep
<1>3. ASSUME NEW t \in Threads, StoreStep(t)
      PROVE  IInv'
  BY <1>3, StoreKept, StoreWriteKept, StoreCamKept, StoreCheckKept, StoreRecamKept
     DEF StoreStep
<1>4. ASSUME NEW t \in Threads, CasStep(t)
      PROVE  IInv'
  BY <1>4, CasKept, CasTryKept, CasRetryKept, CasFailKept DEF CasStep
<1>5. ASSUME NEW t \in Threads, SnapshotStep(t)
      PROVE  IInv'
  BY <1>5, SnapshotLoadKept, SnapshotAdvanceKept, ChaseKept, SnapshotEndKept,
     ReadSnapshotKept DEF SnapshotStep
<1>6. CASE UNCHANGED vars
  BY <1>6, StutterKept
<1>7. CASE AfterHook
  BY <1>7, AfterHookKept
<1> QED
  BY <1>1, <1>2, <1>3, <1>4, <1>5, <1>6, <1>7 DEF Next

\* The invariant holds in every state of every behaviour.
LEMMA Invariant ==
  ASSUME NotRedundant
  PROVE  Spec => []IInv
<1>1. Init => IInv
  BY InitIInv
<1>2. IInv /\ [Next]_vars => IInv'
  BY NextKept
<1> QED
  BY <1>1, <1>2, PTL DEF Spec

\* The largest element of a set of numbers that has one.
LEMMA MaxIs ==
  ASSUME NEW S, S \subseteq Nat, NEW m \in S, \A k \in S : k <= m
  PROVE  Max(S) = m
<1>1. \E x \in S : \A y \in S : x >= y
  OBVIOUS
<1>2. Max(S) \in S /\ \A y \in S : Max(S) >= y
  BY <1>1 DEF Max
<1>3. Max(S) >= m /\ Max(S) <= m /\ Max(S) \in Nat /\ m \in Nat
  BY <1>2
<1> QED
  BY <1>3

\* A bounded set of numbers has a largest element.
LEMMA GreatestNat ==
  ASSUME NEW S, S \subseteq Nat, S # {}, NEW n \in Nat, \A k \in S : k <= n
  PROVE  Max(S) \in S /\ \A k \in S : k <= Max(S)
<1> DEFINE D == {n - k : k \in S}
<1>1. D \subseteq Nat
  <2>1. ASSUME NEW k \in S
        PROVE  n - k \in Nat
    <3>1. k \in Nat /\ k <= n
      OBVIOUS
    <3> QED
      BY <3>1
  <2> QED
    BY <2>1
<1>2. Min(D) \in D /\ \A d \in D : Min(D) <= d
  <2>1. D # {}
    OBVIOUS
  <2> HIDE DEF D
  <2> QED
    BY <1>1, <2>1, LeastNat
<1>3. PICK m \in S : Min(D) = n - m
  BY <1>2
<1>4. ASSUME NEW k \in S
      PROVE  k <= m
  <2>1. n - k \in D /\ k \in Nat /\ m \in Nat
    OBVIOUS
  <2>2. n - m <= n - k
    BY <1>2, <1>3, <2>1
  <2> QED
    BY <2>1, <2>2
<1> QED
  BY <1>4, MaxIs

\* The words of versioned_ptr and of the links, the clock and the thread-
\* local stamps always have their types.
THEOREM TypeCorrect ==
  ASSUME NotRedundant
  PROVE  Spec => []TypeOK
<1>1. IInv => TypeOK
  <2>1. ASSUME IInv
        PROVE  retires \in [Links -> 0 .. 1]
    <3>1. retires \in [Links -> Nat] /\ \A x \in Links : retires[x] = 0 \/ retires[x] = 1
      BY <2>1, RetireTypes
    <3> QED
      BY <3>1
  <2> QED
    BY <2>1 DEF IInv, Types, TypeOK
<1> QED
  BY <1>1, Invariant, PTL

\* What SnapshotVersion takes the maximum of: no version above the ones that
\* the invariant bounds it with.
LEMMA VersionOfSnapshot ==
  ASSUME IInv, NEW t \in Threads, NEW p \in Ptrs, local_stamp[t] # NoStamp
  PROVE  LET ls == local_stamp[t]
             S  == {0} \cup {k \in DOMAIN hist[p] : time_stamp[hist[p][k]] <= ls}
         IN  /\ S \subseteq Nat /\ 0 \in S /\ \A k \in S : k <= Len(hist[p])
             /\ \A j \in 0 .. Len(hist[p]) : Above(p, j, ls) => \A k \in S : k <= j
             /\ \A j \in 0 .. Len(hist[p]) :
                  (j # 0 => time_stamp[hist[p][j]] <= ls) => j \in S
<1> DEFINE ls == local_stamp[t]
           S  == {0} \cup {k \in DOMAIN hist[p] : time_stamp[hist[p][k]] <= ls}
           n  == Len(hist[p])
<1>1. Types /\ HeapTypes
  BY HeapTypesHold DEF IInv
<1>2. ls \in Nat /\ n \in Nat /\ DOMAIN hist[p] = 1 .. n
  BY <1>1 DEF Types
<1>3. \A k \in 1 .. n : time_stamp[hist[p][k]] \in Nat
  BY <1>1, VersionFacts
<1>4. S \subseteq Nat /\ 0 \in S /\ \A k \in S : k <= n
  BY <1>2
<1>5. ASSUME NEW j \in 0 .. n, Above(p, j, ls), NEW k \in S
      PROVE  k <= j
  <2>1. SUFFICES ASSUME k > j
                 PROVE  FALSE
    BY <1>4
  <2>2. k \in j + 1 .. n /\ k \in 1 .. n /\ time_stamp[hist[p][k]] <= ls
    BY <1>2, <2>1
  <2>3. time_stamp[hist[p][k]] > ls
    BY <1>5, <2>2 DEF Above, After
  <2> QED
    BY <1>2, <1>3, <2>2, <2>3
<1>6. \A j \in 0 .. n : (j # 0 => time_stamp[hist[p][j]] <= ls) => j \in S
  BY <1>2
<1> QED
  BY <1>4, <1>5, <1>6

\* Whatever a snapshot has read of any pointer is the value of the last
\* version that is stamped at or before its stamp, whatever stores, cas and
\* shortcuts do meanwhile: read_snapshot is right for every number of
\* threads, pointers, nodes and links and in all four builds.
THEOREM SnapshotsConsistent ==
  ASSUME NotRedundant
  PROVE  Spec => []SnapshotConsistent
<1>1. ASSUME IInv, NEW t \in Threads, NEW p \in Ptrs, snap[t][p] # Unread
      PROVE  snap[t][p] = VersionValue(p, SnapshotVersion(p, local_stamp[t]))
  <2> DEFINE ls == local_stamp[t]
             S  == {0} \cup {k \in DOMAIN hist[p] : time_stamp[hist[p][k]] <= ls}
  <2>1. SnapOf(t)
    BY <1>1, ThreadFacts DEF ThreadInv
  <2>2. local_stamp[t] # NoStamp
    BY <1>1, <2>1 DEF SnapOf
  <2>3. PICK j \in 0 .. Len(hist[p]) : /\ j # 0 => time_stamp[hist[p][j]] <= ls
                                       /\ Above(p, j, ls) /\ snap[t][p] = VersionValue(p, j)
    BY <1>1, <2>1 DEF SnapOf
  <2>4. S \subseteq Nat /\ j \in S /\ \A k \in S : k <= j
    BY <1>1, <2>2, <2>3, VersionOfSnapshot
  <2>5. Max(S) = j
    <3> HIDE DEF S
    <3> QED
      BY <2>4, MaxIs
  <2>6. SnapshotVersion(p, ls) = j
    BY <2>5 DEF SnapshotVersion
  <2> QED
    BY <2>3, <2>6
<1>2. IInv => SnapshotConsistent
  BY <1>1 DEF SnapshotConsistent
<1> QED
  BY <1>2, Invariant, PTL

\* The versions that a snapshot consists of are those of a moment within
\* get_read_stamp: nothing that a completed call wrote or saw is missing,
\* and nothing that was installed after the clock had moved is in it.
THEOREM SnapshotsCurrent ==
  ASSUME NotRedundant
  PROVE  Spec => []SnapshotCurrent
<1>1. ASSUME IInv, NEW t \in Threads, NEW p \in Ptrs, local_stamp[t] # NoStamp,
             pc[t] # "advance"
      PROVE  /\ window[t][p][1] <= SnapshotVersion(p, local_stamp[t])
             /\ SnapshotVersion(p, local_stamp[t]) <= window[t][p][2]
  <2> DEFINE ls == local_stamp[t]
             S  == {0} \cup {k \in DOMAIN hist[p] : time_stamp[hist[p][k]] <= ls}
             w  == window[t][p]
             n  == Len(hist[p])
  <2>1. w \in Nat \X Nat /\ n \in Nat
    BY <1>1, SnapTypes, RefTypes DEF IInv
  <2>2. w[1] \in Nat /\ w[2] \in Nat
    BY <2>1
  <2>3. /\ w[1] <= n /\ (w[1] # 0 => time_stamp[hist[p][w[1]]] <= ls)
        /\ w[2] <= n /\ Above(p, w[2], ls)
    BY <1>1, ThreadFacts DEF ThreadInv, WindowOf
  <2>4. w[1] \in 0 .. n /\ w[2] \in 0 .. n
    BY <2>1, <2>2, <2>3
  <2>5. /\ S \subseteq Nat /\ 0 \in S /\ (\A k \in S : k <= n)
        /\ w[1] \in S /\ (\A k \in S : k <= w[2])
    BY <1>1, <2>3, <2>4, VersionOfSnapshot
  <2>6. Max(S) \in S /\ \A k \in S : k <= Max(S)
    <3> HIDE DEF S, n
    <3>1. S # {}
      BY <2>5
    <3> QED
      BY <2>1, <2>5, <3>1, GreatestNat
  <2>7. SnapshotVersion(p, ls) = Max(S)
    BY DEF SnapshotVersion
  <2> HIDE DEF S
  <2> QED
    BY <2>5, <2>6, <2>7
<1>2. IInv => SnapshotCurrent
  BY <1>1 DEF SnapshotCurrent
<1> QED
  BY <1>2, Invariant, PTL

\* The versions of a pointer are stamped in the order in which they were
\* installed, although any thread may set a stamp.
THEOREM VersionsInOrder ==
  ASSUME NotRedundant
  PROVE  Spec => []VersionsOrdered
<1>1. ASSUME IInv, NEW p \in Ptrs, NEW k \in DOMAIN hist[p], k > 1
      PROVE  /\ time_stamp[hist[p][k - 1]] # Tbd
             /\ time_stamp[hist[p][k - 1]] <= time_stamp[hist[p][k]]
  <2>1. hist[p] \in Seq(Objects) /\ OrderInv
    BY <1>1 DEF IInv, Types, HeapInv
  <2>2. k \in 1 .. Len(hist[p]) /\ k - 1 \in 1 .. k - 1
    BY <1>1, <2>1
  <2> QED
    BY <2>1, <2>2 DEF OrderInv
<1>2. IInv => VersionsOrdered
  BY <1>1 DEF VersionsOrdered
<1> QED
  BY <1>2, Invariant, PTL

\* A pointer always has the value of its newest version, and a store whose
\* first cam lost to a shortcut has still installed its version.
THEOREM UpdatesKept ==
  ASSUME NotRedundant
  PROVE  Spec => []NothingLost
<1>1. ASSUME IInv, NEW p \in Ptrs
      PROVE  GetPtr(v[p]) = VersionValue(p, Len(hist[p]))
  BY <1>1, CurrentValue
<1>2. ASSUME IInv, NEW t \in Threads, loc[t].op = "store",
             pc[t] \in {"stamp", "stamp_cas", "shortcut", "return"}
      PROVE  /\ loc[t].version \in DOMAIN hist[loc[t].p]
             /\ loc[t].new = hist[loc[t].p][loc[t].version]
  <2>1. StoreDone(t)
    BY <1>2, ThreadFacts DEF ThreadInv, StoreOf, StoreBefore
  <2>2. loc[t].p \in Ptrs /\ hist[loc[t].p] \in Seq(Objects)
    <3>1. loc[t].p \in Ptrs
      BY <1>2, ThreadFacts
    <3> QED
      BY <1>2, <3>1 DEF IInv, Types
  <2> QED
    BY <2>1, <2>2 DEF StoreDone
<1>3. IInv => NothingLost
  BY <1>1, <1>2 DEF NothingLost
<1> QED
  BY <1>3, Invariant, PTL

\* A link is retired at most once, by the shortcut or by the update that
\* took it out of its pointer, and never while a pointer holds it.
THEOREM LinksRetiredOnce ==
  ASSUME NotRedundant
  PROVE  Spec => []RetiredOnce
<1>1. ASSUME IInv
      PROVE  RetiredOnce
  <2>1. RetireInv /\ \A x \in Links : retires[x] = 0 \/ retires[x] = 1
    BY <1>1, RetireTypes
  <2> QED
    BY <2>1 DEF RetireInv, RetiredOnce, IsIndirect
<1> QED
  BY <1>1, Invariant, PTL

\* When no call is in progress every link that is in no pointer has been
\* retired.
THEOREM LinksReturned ==
  ASSUME NotRedundant
  PROVE  Spec => []NoLinkLeaks
<1>1. ASSUME IInv, \A t \in Threads : loc[t].op = "none", NEW x \in links
      PROVE  retires[x] = 1 \/ \E p \in Ptrs : v[p] = x
  <2>1. ASSUME NEW t \in Threads
        PROVE  ~Prepared(t) /\ ~Owes(t)
    <3>1. pc[t] \in {"idle", "advance"}
      BY <1>1, ThreadFacts DEF Control
    <3> QED
      BY <1>1, <3>1, IdleHoldsNothing
  <2> QED
    BY <1>1, <2>1 DEF IInv, LeakInv
<1>2. IInv => NoLinkLeaks
  BY <1>1 DEF NoLinkLeaks
<1> QED
  BY <1>2, Invariant, PTL

\* A cas fails only when the pointer had another value than the expected one
\* at some moment of the call; a shortcut is no reason.
THEOREM CasFailuresJustified ==
  ASSUME NotRedundant
  PROVE  Spec => []CasFailsForAReason
<1>1. IInv => CasFailsForAReason
  BY DEF IInv, ThreadInv, CasOf, CasLost, CasFailsForAReason
<1> QED
  BY <1>1, Invariant, PTL
=============================================================================
