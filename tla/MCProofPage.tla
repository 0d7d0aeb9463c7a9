---------------------------- MODULE MCProofPage ----------------------------
(***************************************************************************)
(* ProofPage for TLC.                                                      *)
(***************************************************************************)
EXTENDS ProofPage, TLC

CONSTANTS s1, s2
MCPasted == {[subject |-> s1, spelling |-> "upper"], [subject |-> s2, spelling |-> "lower"]}

\* The bundled certificate, of a known signer, and one of another deployment.
CONSTANTS k1, k2
MCProof(key) == Proof(Body([subject |-> None, spelling |-> "lower"], 1, 1, <<1>>, key), key)
MCDemo       == MCProof(k1)
MCElsewhere  == {MCProof(k1), MCProof(k2)}
=============================================================================
