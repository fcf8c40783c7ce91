-------------------------- MODULE TimestampsProofs --------------------------
(***************************************************************************)
(* timestamp_read, timestamp_write and their hardware variants implement   *)
(* StampSource, for any set of threads and any sequence of calls.          *)
(***************************************************************************)
EXTENDS Timestamps, TLAPS

Inv == TypeOK /\ kind \in CounterKinds /\ SourceInv

\* Returning a stamp that SourceInv and the rules of StampSource allow, with
\* the counter at s2, is a step of StampSource and keeps the invariant.
LEMMA AnswerStep ==
  ASSUME Inv, NEW t \in Threads, pc[t] # "idle", NEW s \in Nat, Answer(t, s),
         Source!Allowed(t, s), kind' = kind, stamp' \in Nat, stamp <= stamp',
         s <= stamp',
         op[t] = "read" /\ kind \in ReadKinds => s < stamp'
  PROVE  Inv' /\ Source!Next
<1> USE DEF Inv, TypeOK, Answer, Source!Return, Goto
<1>1. op[t] # "none" /\ ret'[t] = s
  BY DEF SourceInv
<1>2. Source!End(t)
  BY <1>1 DEF Source!End
<1>3. maxRead' \in Nat /\ maxWrite' \in Nat
  BY DEF Source!Larger
<1>4. TypeOK' /\ kind' \in CounterKinds
  BY <1>3 DEF Source!NoFloor
<1>5. maxRead <= maxRead' /\ maxWrite <= maxWrite'
  BY DEF Source!Larger
<1>6. /\ maxRead' <= stamp'
      /\ maxWrite' <= stamp'
      /\ kind \in ReadKinds => maxRead' < stamp'
  BY DEF SourceInv, Source!Larger
<1>7. ASSUME NEW u \in Threads
      PROVE  /\ op'[u] = "none" <=> pc'[u] = "idle"
             /\ floor'[u].read <= maxRead'
             /\ floor'[u].write <= maxWrite'
             /\ pc'[u] \in {"test", "add"} =>
                  /\ Advances(u)'
                  /\ ts'[u] <= stamp'
                  /\ floor'[u].read <= ts'[u]
                  /\ floor'[u].write <= ts'[u]
  <2>1. CASE u = t
    BY <1>3, <2>1 DEF Source!NoFloor
  <2>2. CASE u # t
    BY <1>3, <1>5, <2>2 DEF SourceInv, Advances
  <2> QED BY <2>1, <2>2
<1>8. SourceInv'
  BY <1>6, <1>7 DEF SourceInv
<1> QED BY <1>2, <1>4, <1>8 DEF Source!Next

\* Every step of the structs keeps the invariant and is a step of StampSource
\* or leaves its history alone.
LEMMA StepSimulates ==
  ASSUME Inv, [Next]_vars
  PROVE  Inv' /\ [Source!Next]_Source!absVars
<1> USE DEF Source!absVars, histVars
<1>1. ASSUME ClockTick PROVE Inv' /\ UNCHANGED histVars
  BY <1>1 DEF ClockTick, Inv, TypeOK, SourceInv, Advances
<1>2. ASSUME NEW t \in Threads, NEW k \in Source!Ops, Call(t, k)
      PROVE  Inv' /\ Source!Next
  <2>1. TypeOK' /\ kind' \in CounterKinds
    BY <1>2 DEF Call, Inv, TypeOK, Source!Begin, Goto
  <2>2. SourceInv'
    BY <1>2 DEF Call, Inv, TypeOK, SourceInv, Advances, Source!Begin,
       Source!Ops, Goto
  <2>3. Source!Next
    BY <1>2 DEF Call, Source!Next
  <2> QED BY <2>1, <2>2, <2>3 DEF Inv
<1>3. ASSUME NEW t \in Threads, GetStamp(t) PROVE Inv' /\ Source!Next
  <2>1. /\ Source!Allowed(t, stamp)
        /\ op[t] = "read" => kind \notin ReadKinds
    BY <1>3 DEF GetStamp, LoadOnly, Inv, TypeOK, SourceInv, Source!Allowed,
       ReadKinds
  <2> QED BY <1>3, <2>1, AnswerStep DEF GetStamp, Inv, TypeOK
<1>4. ASSUME NEW t \in Threads, Load(t) PROVE Inv' /\ UNCHANGED histVars
  <2>1. TypeOK' /\ kind' \in CounterKinds
    BY <1>4 DEF Load, Inv, TypeOK, Goto
  <2>2. Advances(t)
    BY <1>4 DEF Load, LoadOnly, Inv, TypeOK, SourceInv, Advances, ReadKinds,
       CounterKinds, Source!Ops
  <2>3. SourceInv'
    BY <1>4, <2>2 DEF Load, Inv, TypeOK, SourceInv, Advances, Goto
  <2> QED BY <1>4, <2>1, <2>3 DEF Inv, Load
<1>5. ASSUME NEW t \in Threads, pc[t] \in {"test", "add"}
      PROVE  /\ Source!Allowed(t, Result(t))
             /\ Result(t) \in Nat
             /\ op[t] = "read" => Result(t) = ts[t] /\ kind \in ReadKinds
             /\ op[t] # "read" => Result(t) = ts[t] + 1
             /\ ts[t] <= stamp /\ ts[t] \in Nat
  BY <1>5 DEF Inv, TypeOK, SourceInv, Advances, Source!Allowed, Result
<1>6. ASSUME NEW t \in Threads, Test(t)
      PROVE  Inv' /\ (Source!Next \/ UNCHANGED histVars)
  <2>1. CASE stamp = ts[t]
    BY <1>6, <2>1 DEF Test, Inv, TypeOK, SourceInv, Advances, Goto
  <2>2. CASE stamp # ts[t]
    <3>1. pc[t] = "test" /\ stamp \in Nat
      BY <1>6 DEF Test, Inv, TypeOK
    <3>2. ts[t] < stamp
      BY <1>5, <2>2, <3>1
    <3>3. Result(t) <= stamp
      BY <1>5, <3>1, <3>2
    <3> QED BY <1>5, <1>6, <2>2, <3>2, <3>3, AnswerStep DEF Test, Inv, TypeOK
  <2> QED BY <2>1, <2>2
<1>7. ASSUME NEW t \in Threads, FetchAdd(t) PROVE Inv' /\ Source!Next
  <2>1. Result(t) <= stamp' /\ ts[t] < stamp' /\ stamp <= stamp'
    BY <1>5, <1>7 DEF FetchAdd, Inv, TypeOK
  <2> QED BY <1>5, <1>7, <2>1, AnswerStep DEF FetchAdd, Inv, TypeOK
<1>8. ASSUME NEW t \in Threads, Spin(t) PROVE Inv' /\ Source!Next
  <2>1. pc[t] = "test" /\ stamp # ts[t] /\ stamp \in Nat
    BY <1>8 DEF Spin, Inv, TypeOK
  <2>2. ts[t] < stamp
    BY <1>5, <2>1
  <2>3. Result(t) <= stamp
    BY <1>5, <2>1, <2>2
  <2> QED BY <1>5, <1>8, <2>2, <2>3, AnswerStep DEF Spin, Inv, TypeOK
<1>9. ASSUME UNCHANGED vars PROVE Inv' /\ UNCHANGED histVars
  BY <1>9 DEF vars, implVars, Inv, TypeOK, SourceInv, Advances
<1> QED
  BY <1>1, <1>2, <1>3, <1>4, <1>6, <1>7, <1>8, <1>9 DEF Next, Calls

\* Whichever of the four structs a build selects, its read, write and sample
\* calls are ordered as versioned pointers and done_stamp need them.
THEOREM CountersAreStampSources ==
  Spec => IsStampSource
<1>1. Init => Inv /\ Source!Init
  BY KindsAssumption DEF Init, Inv, TypeOK, SourceInv, CounterKinds, ReadKinds,
     Source!Init, Source!NoFloor, Source!Ops
<1>2. Inv /\ [Next]_vars => Inv' /\ [Source!Next]_Source!absVars
  BY StepSimulates
<1> QED BY <1>1, <1>2, PTL DEF Spec, IsStampSource, Source!Spec

\* The variables of the four structs keep their types; a call in progress is
\* between its first load and its fetch_add.
THEOREM StampTypes == Spec => []TypeOK
<1>1. Init => Inv
  BY KindsAssumption DEF Init, Inv, TypeOK, SourceInv, CounterKinds, ReadKinds,
     Source!Init, Source!NoFloor, Source!Ops
<1>2. Inv /\ [Next]_vars => Inv'
  BY StepSimulates
<1>3. Inv => TypeOK
  BY DEF Inv
<1> QED BY <1>1, <1>2, <1>3, PTL DEF Spec
=============================================================================
