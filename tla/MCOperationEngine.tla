-------------------------- MODULE MCOperationEngine --------------------------
(***************************************************************************)
(* Instances of OperationEngine for TLC.  flash and update are operations  *)
(* device.flash on one device with different versions; both need the       *)
(* device and the flash resource of that device, in this order.  The board *)
(* runs the version that flash asks for already.  reboot needs the device  *)
(* only, and again is a second call with its idempotency key.              *)
(***************************************************************************)
EXTENDS OperationEngine

CONSTANTS flash, update, reboot, again, device, partition

\* Two flashes, one of them behind the approval gate.
TwoKey == [x \in {flash, update} |-> x]
TwoGate == [x \in {flash, update} |-> IF x = update THEN "approval" ELSE "allow"]
TwoVersion == [x \in {flash, update} |-> IF x = update THEN "v2" ELSE "v1"]
TwoNeeds == [x \in {flash, update} |-> <<device, partition>>]

\* Two calls with one key that contend for the device.
DupKey == [x \in {reboot, again} |-> reboot]
DupGate == [x \in {reboot, again} |-> "allow"]
DupVersion == [x \in {reboot, again} |-> ""]
DupNeeds == [x \in {reboot, again} |-> <<device>>]
=============================================================================
