---------------------------- MODULE StampSource ----------------------------
(***************************************************************************)
(* What versioned_ptr, with_snapshot and the epoch hooks need from         *)
(* global_stamp (include/verlib/timestamps.h), whichever of its structs is *)
(* configured.  A call that starts after another call has returned must    *)
(* respect it:                                                             *)
(*                                                                         *)
(*   - a write after a read gets a larger stamp, so that a version         *)
(*     installed after a snapshot started is not part of it;               *)
(*   - a read after a write or a sample gets at least that stamp, so that  *)
(*     a snapshot sees every completed update and is never older than      *)
(*     done_stamp;                                                         *)
(*   - writes do not go back, so that a version chain is ordered.          *)
(*                                                                         *)
(* Overlapping calls are free to return anything these rules leave open.   *)
(***************************************************************************)
EXTENDS Naturals

CONSTANT Threads

VARIABLES
  op,      \* the call a thread is in
  floor,   \* the largest stamps returned when that call started
  ret,     \* the stamp its last call returned, until the next call
  maxRead, maxWrite

absVars == <<op, floor, ret, maxRead, maxWrite>>

Ops == {"read", "write", "sample"}

Larger(a, b) == IF a < b THEN b ELSE a

NoFloor == [read |-> 0, write |-> 0]

Init ==
  /\ op = [t \in Threads |-> "none"]
  /\ floor = [t \in Threads |-> NoFloor]
  /\ ret = [t \in Threads |-> 0]
  /\ maxRead = 0
  /\ maxWrite = 0

Begin(t, k) ==
  /\ op[t] = "none"
  /\ op' = [op EXCEPT ![t] = k]
  /\ floor' = [floor EXCEPT ![t] = [read |-> maxRead, write |-> maxWrite]]
  /\ ret' = [ret EXCEPT ![t] = 0]
  /\ UNCHANGED <<maxRead, maxWrite>>

\* The values a call may return.
Allowed(t, s) ==
  /\ floor[t].write <= s
  /\ op[t] = "read" => floor[t].read <= s
  /\ op[t] = "write" => floor[t].read < s

Return(t, s) ==
  /\ op' = [op EXCEPT ![t] = "none"]
  /\ ret' = [ret EXCEPT ![t] = s]
  /\ maxRead' = IF op[t] = "read" THEN Larger(maxRead, s) ELSE maxRead
  /\ maxWrite' = IF op[t] = "read" THEN maxWrite ELSE Larger(maxWrite, s)
  /\ floor' = [floor EXCEPT ![t] = NoFloor]

End(t) ==
  /\ op[t] # "none"
  /\ ret'[t] \in Nat
  /\ Allowed(t, ret'[t])
  /\ Return(t, ret'[t])

Next == \E t \in Threads : End(t) \/ \E k \in Ops : Begin(t, k)

Spec == Init /\ [][Next]_absVars
=============================================================================
