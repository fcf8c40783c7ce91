------------------------------ MODULE SpinLock ------------------------------
(***************************************************************************)
(* The spin lock of include/flock/spin_lock.h (the NoHelp build), as the   *)
(* structures use it.  A lock entry has a counter, which is odd while the  *)
(* lock is taken, and one more than the id of the thread that has it.  The *)
(* entry is one word: a counter that overflows when the lock is released   *)
(* runs into the id.                                                       *)
(***************************************************************************)
EXTENDS Naturals

CONSTANT CountMod   \* 2^32 in the code; smaller to see the counter overflow

ASSUME CountModAssumption == CountMod \in Nat /\ CountMod > 0 /\ CountMod % 2 = 0

Unlocked == [count |-> 0, proc |-> 0]

IsLocked(le) == le.count % 2 = 1
IsSelfLocked(le, t) == le.proc = t + 1
TakeLock(le, t) == [count |-> (le.count + 1) % CountMod, proc |-> t + 1]
ReleaseLock(le) ==
  [count |-> (le.count + 1) % CountMod, proc |-> (le.count + 1) \div CountMod]

\* try_lock_result gives up after its load when another thread has the lock.
Fails(le, t) == IsLocked(le) /\ ~IsSelfLocked(le, t)

\* The lock after the section, which another call may have released early.
Released(le, t) == IF IsSelfLocked(le, t) THEN ReleaseLock(le) ELSE le
=============================================================================
