----------------------------- MODULE MCUpdater -----------------------------
(***************************************************************************)
(* Instances of Updater and of its promise for TLC.                        *)
(***************************************************************************)
EXTENDS Updater, TLC

(* Interchangeable: images and worker slots. *)
Symmetric == Permutations(Image) \cup Permutations(Worker)
=============================================================================
