------------------------------ MODULE EventFeed ------------------------------
(***************************************************************************)
(* What the event store promises to a consumer that resumes by cursor: it  *)
(* has seen, in the order of publication, a prefix of all events without a *)
(* gap or a repetition, and each time it looks it catches up completely.   *)
(***************************************************************************)
EXTENDS Naturals, Sequences

CONSTANT Poller

VARIABLES
  log,    \* what has been published
  seen    \* what each consumer has read

Init == log = <<>> /\ seen = [q \in Poller |-> <<>>]

\* Something is added at the end, nothing else changes.
Publish ==
  /\ Len(log') = Len(log) + 1
  /\ SubSeq(log', 1, Len(log)) = log
  /\ UNCHANGED seen

CatchUp(q) == seen' = [seen EXCEPT ![q] = log] /\ UNCHANGED log

Next == Publish \/ \E q \in Poller : CatchUp(q)

Spec == Init /\ [][Next]_<<log, seen>>
=============================================================================
