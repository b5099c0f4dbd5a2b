-------------------------- MODULE MCFirmwareUpdate --------------------------
(* Small instances of FirmwareUpdate: one that may lose any request but    *)
(* GetBootInfo between two components, and one that loses only that.       *)
EXTENDS FirmwareUpdate

AllButCheck == Requests \ {"check"}
=============================================================================
