--------------------------- MODULE MCEventMonitor ---------------------------
(* Small instances of EventMonitor for TLC.                                 *)
EXTENDS EventMonitor
=============================================================================
