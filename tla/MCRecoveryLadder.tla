-------------------------- MODULE MCRecoveryLadder --------------------------
(***************************************************************************)
(* An instance of RecoveryLadder for TLC: two operations, and the two      *)
(* channels by which a device can be reached (UART before ADB in the       *)
(* ranking of the Resolver).  The counters are as many as can be in use.   *)
(***************************************************************************)
EXTENDS RecoveryLadder

CONSTANTS first, second

uart == 1
adb == 2
MCChannel == {uart, adb}
MCCell == 1..3
=============================================================================
