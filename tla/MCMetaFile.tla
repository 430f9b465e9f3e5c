----------------------------- MODULE MCMetaFile -----------------------------
(* A small instance of MetaFile for TLC. *)
EXTENDS MetaFile, TLC

\* Files, writers, readers and values are interchangeable, and no property is about liveness.
Symmetry ==
  Permutations(Inodes) \cup Permutations(Writers) \cup Permutations(Readers)
    \cup Permutations(Values)
=============================================================================
