------------------------------ MODULE MCPumpStall ------------------------------
(* Instances of PumpStall for TLC. *)
EXTENDS PumpStall

MCCurve == {30, 60, 100}
MCWorld == {"activate", "role", "pause", "pump", "tach", "skip"}
=============================================================================
