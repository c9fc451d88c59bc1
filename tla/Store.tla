-------------------------------- MODULE Store --------------------------------
(***************************************************************************)
(* The database file under everything else: brought up and migrated at every *)
(* boot (Startup), and cleared of what is too old while it serves, the daily *)
(* figures kept (Telemetry).                                                 *)
(***************************************************************************)
EXTENDS Startup, Telemetry

StoreSpec ==
    /\ StartupInit /\ TelemetryInit
    /\ [][StartupNext]_bootVars
    /\ [][TelemetryNext]_telemetryVars

(* What the database holds survives being brought up and being cleared out: the  *)
(* sweep that is skipped, the one that runs and the purge lose nothing a person *)
(* or a dashboard relies on.                                                    *)
StoreKept == BootHeals /\ TelemetryKept
=============================================================================
