------------------------ MODULE MCDiagnosticLogging ------------------------
(***************************************************************************)
(* Instances of DiagnosticLogging for TLC: two requests, timers enough for *)
(* the current one and an orphan or a callback; everything may happen, or  *)
(* everything that InactiveMeansQuiet admits.                              *)
(***************************************************************************)
EXTENDS DiagnosticLogging

Everything == {FaultKinds, {"overlap", "command", "control"}}
Race       == {{"race"}}
Core       == {{"core"}}
=============================================================================
