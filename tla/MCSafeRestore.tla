---------------------------- MODULE MCSafeRestore ----------------------------
(***************************************************************************)
(* TLC instances of SafeRestore.                                           *)
(***************************************************************************)
EXTENDS SafeRestore, TLC

\* Collections, _ids and the contents of documents are interchangeable.
Symmetry == Permutations(Colls) \cup Permutations(Keys) \cup Permutations(Vals)
=============================================================================
