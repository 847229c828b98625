------------------------------ MODULE TaskQueue ------------------------------
(***************************************************************************)
(* What the device farm promises of its task queue: a task that was        *)
(* submitted either is cancelled before it starts or runs exactly once; a  *)
(* task starts only when no more urgent one is pending, where among equal  *)
(* priorities the one submitted first is more urgent.                      *)
(***************************************************************************)
EXTENDS Integers, Sequences

CONSTANTS Task, Priority

VARIABLES
  order,   \* the tasks in the order of their submission
  state    \* what a caller of Status sees of each task

Pending == {t \in Task : state[t] = "PENDING"}

SubmittedBefore(t, u) ==
  \E i, j \in DOMAIN order : i < j /\ order[i] = t /\ order[j] = u

MoreUrgent(t, u) ==
  \/ Priority[t] > Priority[u]
  \/ Priority[t] = Priority[u] /\ SubmittedBefore(t, u)

Init ==
  /\ order = <<>>
  /\ state = [t \in Task |-> "NONE"]

Submit(t) ==
  /\ state[t] = "NONE"
  /\ order' = Append(order, t)
  /\ state' = [state EXCEPT ![t] = "PENDING"]

Cancel(t) ==
  /\ t \in Pending
  /\ state' = [state EXCEPT ![t] = "CANCELLED"]
  /\ UNCHANGED order

Start(t) ==
  /\ t \in Pending
  /\ \A u \in Pending : ~MoreUrgent(u, t)
  /\ state' = [state EXCEPT ![t] = "RUNNING"]
  /\ UNCHANGED order

End(t) ==
  /\ state[t] = "RUNNING"
  /\ \E s \in {"SUCCEEDED", "FAILED"} : state' = [state EXCEPT ![t] = s]
  /\ UNCHANGED order

Next == \E t \in Task : Submit(t) \/ Cancel(t) \/ Start(t) \/ End(t)

Spec == Init /\ [][Next]_<<order, state>>
=============================================================================
