---------------------------- MODULE MCDeviceLogs ----------------------------
(* Small instances of DeviceLogs for TLC. *)
EXTENDS DeviceLogs

CONSTANTS c1, c2

OneCoordinator == {c1}
TwoCoordinators == {c1, c2}
=============================================================================
