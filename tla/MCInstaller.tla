---------------------------- MODULE MCInstaller ----------------------------
(***************************************************************************)
(* Instances of Installer for TLC: two valid configurations and an invalid *)
(* one, two concurrent requests.                                           *)
(***************************************************************************)
EXTENDS Installer, TLC

CONSTANTS g1, g2, bad

MCConfig  == {g1, g2, bad}
MCInvalid == {bad}

Symmetric == Permutations(Caller) \cup Permutations({g1, g2})
=============================================================================
