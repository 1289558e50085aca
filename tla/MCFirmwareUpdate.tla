--------------------------- MODULE MCFirmwareUpdate ---------------------------
(* Small instances of FirmwareUpdate for TLC. *)
EXTENDS FirmwareUpdate

TwoRuns == {1, 2}
OneChannel == {1}
=============================================================================
