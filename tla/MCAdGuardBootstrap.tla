------------------------- MODULE MCAdGuardBootstrap -------------------------
(***************************************************************************)
(* Instances of AdGuardBootstrap for TLC: calls are interchangeable, and   *)
(* so are passwords, of which there are more than can be in use at a time. *)
(* Everything may happen, or everything but calls at the same time.        *)
(***************************************************************************)
EXTENDS AdGuardBootstrap, TLC

Symmetric == Permutations(Caller) \cup Permutations(Password)

Everything == {FaultKinds, FaultKinds \ {"overlap"}}
Crashes    == {{"crash"}}
Overlaps   == {{"overlap"}}
=============================================================================
