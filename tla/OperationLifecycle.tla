------------------------ MODULE OperationLifecycle ------------------------
(***************************************************************************)
(* What the Operation Engine promises the clients of one operation: its    *)
(* state only moves forward along the lifecycle of domain/operation.go, it *)
(* stays in the terminal state it reaches, and the answer a client polls   *)
(* with Wait is that state.                                                *)
(*                                                                         *)
(* OperationEngine.tla implements this specification as long as every      *)
(* operation is executed once (property LifecycleKept there).              *)
(***************************************************************************)
CONSTANT Op

VARIABLES state,   \* the state a client sees
          answer   \* the state of the result Wait returned, "none" before

Terminal == {"SUCCEEDED", "VALIDATION_FAILED", "RESOURCE_FAILED", "RESOLVE_FAILED",
             "RUN_FAILED", "VERIFY_FAILED", "CANCELLED", "UNKNOWN"}

\* The states that may follow s.
After(s) ==
  CASE s = "CREATED"          -> {"VALIDATING"}
    [] s = "VALIDATING"       -> {"WAITING_RESOURCE", "RESOLVING", "VALIDATION_FAILED"}
    [] s = "WAITING_RESOURCE" -> {"RESOLVING", "RESOURCE_FAILED"}
    [] s = "RESOLVING"        -> {"RUNNING", "RESOLVE_FAILED"}
    [] s = "RUNNING"          -> {"VERIFYING", "RUN_FAILED", "UNKNOWN", "CANCELLED"}
    [] s = "VERIFYING"        -> {"SUCCEEDED", "VERIFY_FAILED"}
    [] OTHER                  -> {}

Init ==
  /\ state = [o \in Op |-> "CREATED"]
  /\ answer = [o \in Op |-> "none"]

Advance(o) ==
  /\ \E s \in After(state[o]) : state' = [state EXCEPT ![o] = s]
  /\ UNCHANGED answer

Answer(o) ==
  /\ state[o] \in Terminal
  /\ answer[o] = "none"
  /\ answer' = [answer EXCEPT ![o] = state[o]]
  /\ UNCHANGED state

Next == \E o \in Op : Advance(o) \/ Answer(o)

Spec == Init /\ [][Next]_<<state, answer>>
=============================================================================
