--------------------------- MODULE MCAttestation ---------------------------
(***************************************************************************)
(* Instance of Attestation for TLC: one service with one image.            *)
(***************************************************************************)
EXTENDS Attestation

CONSTANTS core, digest

OneImage == [s \in {core} |-> {digest}]
=============================================================================
