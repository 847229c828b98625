--------------------------- MODULE LeaseService ---------------------------
(***************************************************************************)
(* What the Lock Manager promises its callers, without saying how: a set   *)
(* of leases in force that never conflict, in which a lease appears only   *)
(* by being granted and disappears only when its own holder gives it back  *)
(* or when its time to live runs out.                                      *)
(*                                                                         *)
(* LockManager.tla implements this specification (property LeasesServed    *)
(* there), and a theorem of LeaseProofs.tla shows it for every             *)
(* number of callers and resources.                                        *)
(***************************************************************************)
CONSTANTS Thread,     \* the calls made on the manager, one per operation
          Resource    \* the resource IDs of the Resource Registry

VARIABLE inForce      \* the leases that protect their resource now

Mode  == {"SHARED", "EXCLUSIVE"}
Lease == [holder : Thread, res : Resource, mode : Mode]

\* SHARED is compatible with SHARED only.
Compatible(l, k) == l.res = k.res => l.mode = "SHARED" /\ k.mode = "SHARED"

Init == inForce = {}

\* A lease is granted when it is compatible with every lease in force.
Grant(l) ==
  /\ \A k \in inForce : Compatible(l, k)
  /\ inForce' = inForce \cup {l}

\* One holder gives back some of its own leases, and nobody else's.
GiveBack(h) ==
  \E S \in SUBSET {l \in inForce : l.holder = h} : inForce' = inForce \ S

\* The time to live of one lease runs out.
Expire(l) == inForce' = inForce \ {l}

Next ==
  \/ \E l \in Lease : Grant(l)
  \/ \E h \in Thread : GiveBack(h)
  \/ \E l \in inForce : Expire(l)

Spec == Init /\ [][Next]_inForce
=============================================================================
