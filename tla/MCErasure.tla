----------------------------- MODULE MCErasure -----------------------------
(***************************************************************************)
(* The correctness of Erasure, and its instance for TLC.                   *)
(***************************************************************************)
EXTENDS ErasureProps, TLC, FiniteSets

Symmetry == Permutations(Subjects) \cup Permutations(Erasers)
            \cup Permutations(Ingesters)
=============================================================================
