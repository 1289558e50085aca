------------------------------- MODULE MCGpuFans -------------------------------
(* Instances of GpuFans for TLC. *)
EXTENDS GpuFans

MCDuties == {0, 50}
MCWorld == {"activate", "reset", "verify", "other", "fail", "foreign", "disk",
            "wedge", "task_panic", "stop", "panic", "crash"}
MCPanics == {"activate", "task_panic"}
=============================================================================
