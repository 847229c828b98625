----------------------------- MODULE MCRemoteApi -----------------------------
(***************************************************************************)
(* An instance of RemoteApi for TLC: an operation, its retry with the same *)
(* key, and an operator whose task competes for the device.                *)
(***************************************************************************)
EXTENDS RemoteApi

CONSTANTS first, retry, operator, reboot

SmallKind == [c \in {first, retry, operator} |-> IF c = operator THEN "operator" ELSE "exec"]
OneKey == [c \in {first, retry} |-> reboot]

\* A second board with the serial of another one.
Board == {[state |-> "QUARANTINED", hardware |-> "mac"]}

\* How executions end; a denial and a cancelled wait among them.
Endings ==
  {[state |-> "SUCCEEDED",         error |-> <<>>],
   [state |-> "RUN_FAILED",        error |-> <<"CONNECTION">>],
   [state |-> "VALIDATION_FAILED", error |-> <<"AUTHORIZATION">>],
   [state |-> "RESOURCE_FAILED",   error |-> <<"CANCELLATION">>]}
=============================================================================
