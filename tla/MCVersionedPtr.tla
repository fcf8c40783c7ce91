--------------------------- MODULE MCVersionedPtr ---------------------------
(* VersionedPtr for TLC: the builds and the uses of the pointers.          *)
EXTENDS VersionedPtr

CONSTANTS W, X, S, P, Q, n0, n1, n2, n3

\* A writer that stores, a reader and a snapshot: pointers to a node that is
\* part of a version from the start, and to a new one.
Storing == [build |-> "hybrid", links |-> 2, stored |-> {P}, cassed |-> {},
            nodes |-> {n0}, initial |-> {n0}, writers |-> {W},
            readers |-> {X}, ops |-> {"load", "validate", "read"}, snapshotters |-> {S},
            redundant |-> FALSE, stamps |-> 2]
StoringNew == [Storing EXCEPT !.links = 3, !.nodes = {n1}, !.initial = {}]

\* Snapshots of two pointers, by a thread that also reads.
Snapshots == [StoringNew EXCEPT !.links = 2, !.cassed = {Q}, !.readers = {S},
                !.ops = {"load"}, !.stamps = 3]

\* Two writers that race with cas, and a snapshot.
Racing == [StoringNew EXCEPT !.links = 2, !.stored = {}, !.cassed = {P},
             !.writers = {W, X}, !.readers = {}, !.ops = {}]

\* The other builds.
NoShortcut == {[Snapshots EXCEPT !.build = "noshortcut", !.stamps = 2]}
FullyIndirect == {[Snapshots EXCEPT !.build = "indirect", !.links = 4],
                  [Racing EXCEPT !.build = "indirect", !.links = 3]}
RecordedOnce ==
  {[Snapshots EXCEPT !.build = "once", !.nodes = Nodes, !.initial = {n0, n1},
      !.stamps = 2],
   [Racing EXCEPT !.build = "once", !.nodes = {n0, n1, n2}, !.initial = {n0},
      !.readers = {S}, !.ops = {"read"}]}

AllUses == {Storing, StoringNew, Snapshots, Racing}
             \cup NoShortcut \cup FullyIndirect \cup RecordedOnce
RedundantUse == {[Storing EXCEPT !.links = 3, !.redundant = TRUE]}
=============================================================================
