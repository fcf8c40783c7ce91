------------------------------ MODULE MCLfLock ------------------------------
(* LfLock for TLC: the calls that threads make.                            *)
EXTENDS LfLock

CONSTANTS a, b, c, L, M, N

Calls(na, nb, nc) == [t \in Threads |-> CASE t = a -> na [] t = b -> nb [] t = c -> nc]
Program(paths, bounds, with, reuse) ==
  [paths |-> [t \in Threads |-> paths], calls |-> bounds, with |-> with, reuse |-> reuse]

\* One lock, taken and helped without nesting.
Flat == Program({<<L>>}, Calls(2, 1, 1), FALSE, TRUE)

\* Two outer locks around the same inner one, and a reentrant call.
Nested == Program({<<L, M>>, <<N, M>>, <<L, L>>}, Calls(2, 1, 0), FALSE, FALSE)

\* A lock that is taken again with another one in between, and that one alone.
Again == Program({<<L, M, L>>, <<M>>}, Calls(1, 1, 0), FALSE, FALSE)

\* Locks that are waited for: two in a fixed order, and one.
Waiting == Program({<<L, M>>, <<M>>}, Calls(1, 1, 0), TRUE, FALSE)
WaitingOne == Program({<<M>>}, Calls(2, 1, 0), TRUE, TRUE)

AllPrograms == {Flat, Nested, Again, Waiting, WaitingOne}

\* As Nested, with descriptors that are used again.
Reusing == {[Nested EXCEPT !.reuse = TRUE]}

\* Two threads take both locks, in the same order, and one takes the inner one.
InnerAndOuter ==
  {[Program({<<L, M>>}, Calls(1, 1, 1), TRUE, FALSE) EXCEPT !.paths[c] = {<<M>>}]}

\* Only b is sure to go on; the others may stop for good anywhere.
OnlyOneRuns == Spec /\ WF_vars(Step(b))

\* "It is lock free if no cycles in lock ordering" (lf_lock.h, with_lock): as
\* the others make finitely many calls, the one that runs gets its own done.
LockFree == stack[b] # <<>> ~> stack[b] = <<>>
=============================================================================
