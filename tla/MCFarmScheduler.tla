--------------------------- MODULE MCFarmScheduler ---------------------------
(***************************************************************************)
(* An instance of FarmScheduler for TLC: an inventory of one device, a     *)
(* flash of all devices one at a time, an urgent reboot of the other one.  *)
(***************************************************************************)
EXTENDS FarmScheduler

CONSTANTS inventory, flash, reboot, d1, d2, w1, w2

ThreePriority == [t \in {inventory, flash, reboot} |-> IF t = reboot THEN 1 ELSE 0]
ThreeWanted == [t \in {inventory, flash, reboot} |->
  CASE t = inventory -> {d1} [] t = reboot -> {d2} [] OTHER -> {}]
ThreeConcurrency == [t \in {inventory, flash, reboot} |-> IF t = flash THEN 1 ELSE 0]
=============================================================================
