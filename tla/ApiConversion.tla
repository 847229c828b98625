---------------------------- MODULE ApiConversion ----------------------------
(***************************************************************************)
(* The conversion between the domain model and the protobuf messages of    *)
(* the wire (api/convert/convert.go over api/gen/channelv1/channel.pb.go). *)
(*                                                                         *)
(* An object is reduced to what a table translates and to what a           *)
(* conversion loses: a device to its state and its hardware ID, a session  *)
(* and a capability to their state or risk, an error to its category, the  *)
(* result of an operation to its state and its error.  What these objects  *)
(* have besides is copied, times to the millisecond.  A pointer is a       *)
(* sequence of at most one element, empty for nil.                         *)
(***************************************************************************)
EXTENDS Integers, Sequences

-----------------------------------------------------------------------------
(* The numbers of the generated enumerations; 0 is UNSPECIFIED. *)

DeviceState    == 0..4
OperationState == 0..15
SessionState   == 0..8
ErrorCategory  == 0..13
RiskLevel      == 0..4

-----------------------------------------------------------------------------
(* The tables. *)

deviceStateToProto == [ONLINE |-> 1, OFFLINE |-> 2, RECOVERING |-> 3, QUARANTINED |-> 4]
deviceStateFromProto == <<"ONLINE", "OFFLINE", "RECOVERING", "QUARANTINED">>

operationStateToProto ==
  [CREATED |-> 1, VALIDATING |-> 2, WAITING_RESOURCE |-> 3, RESOLVING |-> 4,
   RUNNING |-> 5, VERIFYING |-> 6, SUCCEEDED |-> 7, VALIDATION_FAILED |-> 8,
   RESOURCE_FAILED |-> 9, RESOLVE_FAILED |-> 10, RUN_FAILED |-> 11,
   VERIFY_FAILED |-> 12, CANCELLED |-> 13, TIMEOUT |-> 14, UNKNOWN |-> 15]
operationStateFromProto ==
  <<"CREATED", "VALIDATING", "WAITING_RESOURCE", "RESOLVING", "RUNNING",
    "VERIFYING", "SUCCEEDED", "VALIDATION_FAILED", "RESOURCE_FAILED",
    "RESOLVE_FAILED", "RUN_FAILED", "VERIFY_FAILED", "CANCELLED", "TIMEOUT",
    "UNKNOWN">>

sessionStateToProto ==
  [CREATED |-> 1, ACTIVE |-> 2, DEGRADED |-> 3, RECONNECTING |-> 4, CLOSED |-> 5,
   EXPIRED |-> 6, REVOKED |-> 7, FAILED |-> 8]
sessionStateFromProto ==
  <<"CREATED", "ACTIVE", "DEGRADED", "RECONNECTING", "CLOSED", "EXPIRED",
    "REVOKED", "FAILED">>

\* The entry of the last but two has been forgotten.
errorCategoryToProtoShort ==
  [VALIDATION |-> 1, AUTHORIZATION |-> 2, RESOURCE |-> 3, DISCOVERY |-> 4,
   CONNECTION |-> 5, PROTOCOL |-> 6, DEVICE_STATE |-> 7, EXECUTION |-> 8,
   VERIFICATION |-> 9, TIMEOUT |-> 10, INTERNAL |-> 12, UNKNOWN |-> 13]
errorCategoryToProto ==
  [VALIDATION |-> 1, AUTHORIZATION |-> 2, RESOURCE |-> 3, DISCOVERY |-> 4,
   CONNECTION |-> 5, PROTOCOL |-> 6, DEVICE_STATE |-> 7, EXECUTION |-> 8,
   VERIFICATION |-> 9, TIMEOUT |-> 10, CANCELLATION |-> 11, INTERNAL |-> 12,
   UNKNOWN |-> 13]
errorCategoryFromProto ==
  <<"VALIDATION", "AUTHORIZATION", "RESOURCE", "DISCOVERY", "CONNECTION",
    "PROTOCOL", "DEVICE_STATE", "EXECUTION", "VERIFICATION", "TIMEOUT",
    "CANCELLATION", "INTERNAL", "UNKNOWN">>

riskLevelToProto == [LOW |-> 1, MEDIUM |-> 2, HIGH |-> 3, CRITICAL |-> 4]
riskLevelFromProto == <<"LOW", "MEDIUM", "HIGH", "CRITICAL">>

\* The states, risks and categories of the domain.
Names(table) == {table[n] : n \in DOMAIN table}

\* What Go's maps give for a key they do not hold.
ToProto(table, x) == IF x \in DOMAIN table THEN table[x] ELSE 0
FromProto(table, n) == IF n \in DOMAIN table THEN table[n] ELSE ""

-----------------------------------------------------------------------------
(* The objects. *)

Each(Op(_), s) == [i \in DOMAIN s |-> Op(s[i])]

\* What is in a field that nothing has set.
Unset == "unset"

\* The message of a device has no field for its hardware ID.
DeviceToProto(d) == [state |-> ToProto(deviceStateToProto, d.state)]
DeviceFromProto(p) == [state |-> FromProto(deviceStateFromProto, p.state), hardware |-> Unset]

SessionToProto(s) == [state |-> ToProto(sessionStateToProto, s.state)]
SessionFromProto(p) == [state |-> FromProto(sessionStateFromProto, p.state)]

CapabilityToProto(c) == [risk |-> ToProto(riskLevelToProto, c.risk)]
CapabilityFromProto(p) == [risk |-> FromProto(riskLevelFromProto, p.risk)]

ErrorToProto(e) == ToProto(errorCategoryToProto, e)
ErrorFromProto(p) == FromProto(errorCategoryFromProto, p)

OperationResultToProto(r) ==
  [state |-> ToProto(operationStateToProto, r.state), error |-> Each(ErrorToProto, r.error)]
OperationResultFromProto(p) ==
  [state |-> FromProto(operationStateFromProto, p.state), error |-> Each(ErrorFromProto, p.error)]
=============================================================================
