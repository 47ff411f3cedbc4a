--------------------------- MODULE MCSnapshotScope ---------------------------
(***************************************************************************)
(* TLC instances of SnapshotScope.                                         *)
(***************************************************************************)
EXTENDS SnapshotScope, TLC

\* Processes, and documents, are interchangeable: the properties are safety
\* properties that name none of them.
Symmetry == Permutations(Procs) \cup Permutations(Hashes)
=============================================================================
