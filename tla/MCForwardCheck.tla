--------------------------- MODULE MCForwardCheck ---------------------------
(***************************************************************************)
(* Instances of ForwardCheck for TLC: everything may happen, or only some  *)
(* of it.                                                                  *)
(***************************************************************************)
EXTENDS ForwardCheck

Everything == SUBSET FaultKinds
NoFault    == {{}}
=============================================================================
