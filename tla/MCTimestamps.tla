---------------------------- MODULE MCTimestamps ----------------------------
(* Timestamps for TLC: the threads are interchangeable.                    *)
EXTENDS Timestamps, TLC

ThreadSymmetry == Permutations(Threads)
=============================================================================
