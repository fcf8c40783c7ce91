----------------------------- MODULE Timestamps -----------------------------
(***************************************************************************)
(* The global time stamps of include/verlib/timestamps.h.                  *)
(*                                                                         *)
(* `kind' is the struct the build selected for global_stamp:               *)
(*   "read"        timestamp_read, advanced by get_read_stamp              *)
(*   "write"       timestamp_write, advanced by get_write_stamp            *)
(*   "read_hw", "write_hw"  the same two on the processor's clock          *)
(*                                                                         *)
(* Every load and read-modify-write of the counter is a step of its own.   *)
(* The delays between them only make some interleavings more likely and    *)
(* are left out.                                                           *)
(***************************************************************************)
EXTENDS Naturals

CONSTANTS
  Threads,
  Kinds,     \* the structs to check
  MaxStamp   \* bound on the stamp when a call starts

CounterKinds == {"read", "write", "read_hw", "write_hw"}

ASSUME KindsAssumption == Kinds \subseteq CounterKinds
ASSUME MaxStampAssumption == MaxStamp \in Nat

VARIABLES
  kind,
  stamp,   \* the atomic counter, or the clock that rdtsc reads
  pc, ts,  \* per thread: the next step of a call and its local ts (or s)
  op, floor, ret, maxRead, maxWrite   \* the history StampSource talks about

implVars == <<kind, stamp, pc, ts>>
histVars == <<op, floor, ret, maxRead, maxWrite>>
vars == <<implVars, histVars>>

Source == INSTANCE StampSource

Hardware == kind \in {"read_hw", "write_hw"}

Goto(t, where) == pc' = [pc EXCEPT ![t] = where]

Init ==
  /\ kind \in Kinds
  /\ stamp = IF kind = "write" THEN 2 ELSE 1
  /\ pc = [t \in Threads |-> "idle"]
  /\ ts = [t \in Threads |-> 0]
  /\ Source!Init

\* A call starts: nothing is read yet.
Call(t, k) ==
  /\ pc[t] = "idle"
  /\ k = "sample" \/ stamp < MaxStamp
  /\ Source!Begin(t, k)
  /\ Goto(t, "load")
  /\ UNCHANGED <<kind, stamp, ts>>

Answer(t, s) ==
  /\ Source!Return(t, s)
  /\ Goto(t, "idle")
  /\ ts' = [ts EXCEPT ![t] = 0]

(***************************************************************************)
(* Calls that are a single load: get_stamp, the write stamp of the structs *)
(* advanced by reads, and the read stamp of those advanced by writes.      *)
(***************************************************************************)
LoadOnly(t) ==
  \/ op[t] = "sample"
  \/ op[t] = "write" /\ kind \in {"read", "read_hw"}
  \/ op[t] = "read" /\ kind \in {"write", "write_hw"}

GetStamp(t) ==
  /\ pc[t] = "load"
  /\ LoadOnly(t)
  /\ Answer(t, stamp)
  /\ UNCHANGED <<kind, stamp>>

(***************************************************************************)
(* timestamp_read::get_read_stamp returns the stamp it loaded, and         *)
(* timestamp_write::get_write_stamp one more than that; both first make    *)
(* sure that the counter has moved on, with increment_stamp.               *)
(***************************************************************************)
Result(t) == IF op[t] = "write" THEN ts[t] + 1 ELSE ts[t]

Load(t) ==
  /\ pc[t] = "load"
  /\ ~LoadOnly(t)
  /\ ts' = [ts EXCEPT ![t] = stamp]
  /\ Goto(t, "test")
  /\ UNCHANGED <<kind, stamp, histVars>>

\* Returns at once where the counter is unchanged.
FaultyTest(t) ==
  /\ pc[t] = "test"
  /\ ~Hardware
  /\ Answer(t, Result(t))
  /\ UNCHANGED <<kind, stamp>>

Test(t) ==
  /\ pc[t] = "test"
  /\ ~Hardware
  /\ IF stamp = ts[t]
       THEN Goto(t, "add") /\ UNCHANGED <<ts, histVars>>
       ELSE Answer(t, Result(t))
  /\ UNCHANGED <<kind, stamp>>

\* Moves the counter the wrong way.
FaultyFetchAdd(t) ==
  /\ pc[t] = "add"
  /\ stamp' = stamp - 1
  /\ Answer(t, Result(t))
  /\ UNCHANGED kind

\* fetch_add adds to whatever the counter holds by now.
FetchAdd(t) ==
  /\ pc[t] = "add"
  /\ stamp' = stamp + 1
  /\ Answer(t, Result(t))
  /\ UNCHANGED kind

\* The structs on the hardware clock wait for it to tick.
Spin(t) ==
  /\ pc[t] = "test"
  /\ Hardware
  /\ stamp # ts[t]
  /\ Answer(t, Result(t))
  /\ UNCHANGED <<kind, stamp>>

ClockTick ==
  /\ Hardware
  /\ \/ stamp < MaxStamp
     \/ \E t \in Threads : pc[t] = "test" /\ ts[t] = stamp
  /\ stamp' = stamp + 1
  /\ UNCHANGED <<kind, pc, ts, histVars>>

-----------------------------------------------------------------------------
Calls(t) == GetStamp(t) \/ \E k \in Source!Ops : Call(t, k)

Next ==
  \/ ClockTick
  \/ \E t \in Threads :
       Calls(t) \/ Load(t) \/ Test(t) \/ FetchAdd(t) \/ Spin(t)

Spec == Init /\ [][Next]_vars

TypeOK ==
  /\ kind \in Kinds
  /\ stamp \in Nat
  /\ pc \in [Threads -> {"idle", "load", "test", "add"}]
  /\ ts \in [Threads -> Nat]
  /\ op \in [Threads -> Source!Ops \cup {"none"}]
  /\ floor \in [Threads -> [read : Nat, write : Nat]]
  /\ ret \in [Threads -> Nat]
  /\ maxRead \in Nat
  /\ maxWrite \in Nat

\* The configured struct orders reads, writes and samples the way versioned
\* pointers and done_stamp rely on.
IsStampSource == Source!Spec

-----------------------------------------------------------------------------
(***************************************************************************)
(* Why the structs are stamp sources: the counter is past every read stamp *)
(* handed out where reads advance it, and at least at every write stamp    *)
(* handed out; a call in progress has loaded its stamp after it started.   *)
(***************************************************************************)
ReadKinds == {"read", "read_hw"}
Advances(t) == op[t] = IF kind \in ReadKinds THEN "read" ELSE "write"

SourceInv ==
  /\ maxWrite <= stamp
  /\ maxRead <= stamp
  /\ kind \in ReadKinds => maxRead < stamp
  /\ \A t \in Threads :
       /\ op[t] = "none" <=> pc[t] = "idle"
       /\ floor[t].read <= maxRead
       /\ floor[t].write <= maxWrite
       /\ pc[t] \in {"test", "add"} =>
            /\ Advances(t)
            /\ ts[t] <= stamp
            /\ floor[t].read <= ts[t]
            /\ floor[t].write <= ts[t]
=============================================================================
