----------------------------- MODULE MCStream ------------------------------
(***************************************************************************)
(* Stream for TLC.  Pages are interchangeable; rows, which are ordered,    *)
(* are not.                                                                *)
(***************************************************************************)
EXTENDS Stream, TLC

Symmetry == Permutations(Pages)
=============================================================================
