-------------------------- MODULE MCOperationEvents --------------------------
(***************************************************************************)
(* An instance of OperationEvents for TLC: a memory dump, which returns an *)
(* artifact that somebody may delete, and a reboot; a subscriber to starts *)
(* and failures with a channel for one event, and a poller.                *)
(***************************************************************************)
EXTENDS OperationEvents

CONSTANTS dump, reboot, watch, poller

WatchFilter == [s \in {watch} |-> {"OperationStarted", "OperationFailed"}]
=============================================================================
