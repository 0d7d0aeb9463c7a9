---------------------------- MODULE MCAnchoring ----------------------------
(***************************************************************************)
(* Anchoring for TLC.                                                      *)
(***************************************************************************)
EXTENDS Anchoring
=============================================================================
