--------------------------- MODULE MCLockManager ---------------------------
(***************************************************************************)
(* Instances of LockManager for TLC.  The resources are the debug and the  *)
(* device resource of one device: JTAG operations and the UART reset need  *)
(* both, in the order debug, device (resolveResourceIDs sorts the types);  *)
(* reboot, execute and the like need the device alone.                     *)
(***************************************************************************)
EXTENDS LockManager

CONSTANTS debug, device, jtag, reset, reboot

MCResource == {debug, device}

All(h, q, m) == [by |-> h, list |-> q, mode |-> m]

\* Two calls that need both resources and one that needs the device alone,
\* exclusively (as the engine asks), or tries once to share it.
MCAllCalls == {All(jtag, <<debug, device>>, "EXCLUSIVE"),
               All(reset, <<debug, device>>, "EXCLUSIVE"),
               All(reboot, <<device>>, "EXCLUSIVE")}
MCTryCalls == {[holder |-> reboot, res |-> device, mode |-> "SHARED"]}

\* For the lost cancellation two calls and one resource are enough.
MCTwoCalls == {All(jtag, <<device>>, "EXCLUSIVE"),
               All(reboot, <<device>>, "EXCLUSIVE")}
=============================================================================
