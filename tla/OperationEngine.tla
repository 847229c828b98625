-------------------------- MODULE OperationEngine --------------------------
(***************************************************************************)
(* The Operation Engine (core/operation/engine.go) with the Operation of   *)
(* domain/operation.go and the Reconciler of core/recovery/reconcile.go.   *)
(*                                                                         *)
(* A client is one call of sdk.Client.Execute or Engine.Start: Create,     *)
(* then Execute in a goroutine.  An operation bears the name of the client *)
(* whose Create made it; a client that presents the idempotency key of an  *)
(* existing operation executes that one again.                             *)
(*                                                                         *)
(* One action stands for the code between two points where others can      *)
(* interfere: a lock of op.mu, a lock of the lease table, a call into the  *)
(* plugin.  The lock manager is the service of LeaseService.tla.  The      *)
(* plugin and the device are external: Invoke takes effect or not and      *)
(* returns an error or not, Observe fails, finds the device offline or     *)
(* reads it, Recover repairs the channel or not.  All that the code ever    *)
(* compares of an image is its version, so the device is the version that  *)
(* is on it: two flashes may ask for the same one, and the board may run   *)
(* the wanted version already.                                             *)
(***************************************************************************)
EXTENDS Naturals, Sequences

CONSTANTS Client,       \* the calls of Execute and Start
          Resource,     \* the resource IDs
          Key,          \* the idempotency key of each client's request
          Gate,         \* what validation and policy say of each operation
          Needs,        \* the resources of each operation, in the global order
          Flashes,      \* the operations that are device.flash
          Version,      \* the version parameter of each operation
          Installed,    \* the version on the device at first
          MaxRetries,   \* Engine.maxRetries
          Approvable,   \* the operations somebody may approve
          Cancellable,  \* the operations somebody may cancel
          Timed         \* the clients whose ctx may be done while they wait

Gates == {"invalid", "deny", "approval", "allow"}

ASSUME EngineAssumption ==
  /\ Gate \in [Client -> Gates]
  /\ Needs \in [Client -> Seq(Resource)]
  /\ MaxRetries \in Nat
  /\ Version \in [Client -> STRING] /\ Installed \in STRING
  /\ Flashes \subseteq Client /\ Approvable \subseteq Client
  /\ Cancellable \subseteq Client /\ Timed \subseteq Client
  /\ "none" \notin Client

Terminal == {"SUCCEEDED", "VALIDATION_FAILED", "RESOURCE_FAILED", "RESOLVE_FAILED",
             "RUN_FAILED", "VERIFY_FAILED", "CANCELLED", "UNKNOWN"}
State == Terminal \cup {"CREATED", "VALIDATING", "WAITING_RESOURCE", "RESOLVING",
                        "RUNNING", "VERIFYING"}

VARIABLES
  \* the operations
  state,      \* op.state
  result,     \* the State of op.result, "none" while it is nil
  cancelReq,  \* op.cancelRequested
  approved,   \* the approvals of the ApprovalService
  \* the goroutines that execute them
  pc,         \* where each stands
  opOf,       \* the operation it executes, "none" before Create
  todo,       \* the resources still to acquire
  attempt,    \* runWithRecovery's attempt
  fixable,    \* the clients whose last error is of a category Recover can handle
  final,      \* the terminal state it is about to report
  \* their surroundings
  inForce,    \* the leases that protect their resource now
  ctxDone,    \* the clients whose ctx is done
  flashed,    \* the version on the device
  cancelling, \* calls of Cancel between the check and the flag
  polling,    \* calls of Wait that have seen a terminal state
  answer,     \* what Wait returned
  \* history, read by properties only
  invoked,    \* how often plugin.Invoke was called for the operation
  quota,      \* how often it may be, once Cancel has returned
  applied,    \* the operations that took effect on the device
  expired     \* has any lease in use expired

opVars   == <<state, result, cancelReq, approved>>
runVars  == <<pc, opOf, todo, attempt, fixable, final>>
userVars == <<cancelling, polling, answer, ctxDone>>
history  == <<invoked, quota, applied, expired>>
vars     == <<opVars, runVars, userVars, history, inForce, flashed>>

PC == {"idle", "created", "validate", "permitted", "acquire", "resolve", "loop",
       "invoke", "applied", "refused", "observe", "recover", "verify",
       "report", "conclude", "release", "done"}

Lease == [holder : Client, res : Resource, mode : {"SHARED", "EXCLUSIVE"}]

TypeOK ==
  /\ state \in [Client -> State]
  /\ result \in [Client -> Terminal \cup {"none"}]
  /\ cancelReq \subseteq Client /\ approved \subseteq Client
  /\ pc \in [Client -> PC]
  /\ opOf \in [Client -> Client \cup {"none"}]
  /\ \A x \in Client : pc[x] # "idle" => opOf[x] \in Client
  /\ todo \in [Client -> Seq(Resource)]
  /\ attempt \in [Client -> 0..MaxRetries]
  /\ fixable \subseteq Client
  /\ final \in [Client -> Terminal]
  /\ inForce \subseteq Lease
  /\ ctxDone \subseteq Client /\ cancelling \subseteq Client /\ polling \subseteq Client
  /\ flashed \in STRING
  /\ answer \in [Client -> Terminal \cup {"none", "nil"}]
  /\ invoked \in [Client -> Nat] /\ quota \in [Client -> Nat]
  /\ applied \subseteq Client
  /\ expired \in BOOLEAN

Init ==
  /\ state = [o \in Client |-> "CREATED"]
  /\ result = [o \in Client |-> "none"]
  /\ cancelReq = {} /\ approved = {}
  /\ pc = [x \in Client |-> "idle"]
  /\ opOf = [x \in Client |-> "none"]
  /\ todo = [x \in Client |-> <<>>]
  /\ attempt = [x \in Client |-> 0]
  /\ fixable = {}
  /\ final = [x \in Client |-> "UNKNOWN"]
  /\ inForce = {} /\ ctxDone = {}
  /\ flashed = Installed
  /\ cancelling = {} /\ polling = {}
  /\ answer = [o \in Client |-> "none"]
  /\ invoked = [o \in Client |-> 0] /\ quota = [o \in Client |-> 0]
  /\ applied = {} /\ expired = FALSE

-----------------------------------------------------------------------------
(* Helpers *)

Created == {opOf[x] : x \in Client} \ {"none"}

Goto(x, p) == pc' = [pc EXCEPT ![x] = p]

\* A transition without the check for a terminal state.
TransitionAlways(o, s) == state' = [state EXCEPT ![o] = s]

\* Operation.Transition: a terminal state is never overwritten.
Refuses(o, s) == state[o] \in Terminal /\ s # state[o]
Transition(o, s) == state' = [state EXCEPT ![o] = IF Refuses(o, s) THEN @ ELSE s]

\* Execute's use of it: an error ends Execute (and runs its deferred calls).
Move(x, s, p) ==
  /\ Transition(opOf[x], s)
  /\ Goto(x, IF Refuses(opOf[x], s) THEN "release" ELSE p)

\* The end of the operation in state s, to be reported by fail or succeed.
Conclude(x, s) ==
  /\ final' = [final EXCEPT ![x] = s]
  /\ Goto(x, "report")

LeasesOf(x) == {l \in inForce : l.holder = x}
Locks == INSTANCE LeaseService WITH Thread <- Client

-----------------------------------------------------------------------------
(* Create and Execute up to the call of the plugin *)

\* Create: an operation with the same idempotency key is returned instead of a
\* new one.
Create(x) ==
  /\ pc[x] = "idle"
  /\ LET same == {o \in Created : Key[o] = Key[x]}
     IN  \/ \E o \in same : opOf' = [opOf EXCEPT ![x] = o]
         \/ same = {} /\ opOf' = [opOf EXCEPT ![x] = x]
  /\ Goto(x, "created")
  /\ UNCHANGED <<opVars, todo, attempt, fixable, final, userVars, history, inForce, flashed>>

Begin(x) ==
  /\ pc[x] = "created"
  /\ Move(x, "VALIDATING", "validate")
  /\ UNCHANGED <<result, cancelReq, approved, opOf, todo, attempt, fixable, final,
                 userVars, history, inForce, flashed>>

\* A gate that forgets the approval.
PermittedUnlessDenied(o) == Gate[o] \in {"allow", "approval"}

\* The descriptor and the target are known, the policy allows the principal,
\* and a risky operation is approved.
Permitted(o) == Gate[o] = "allow" \/ (Gate[o] = "approval" /\ o \in approved)

Validate(x) ==
  /\ pc[x] = "validate"
  /\ \/ Permitted(opOf[x]) /\ Goto(x, "permitted") /\ UNCHANGED final
     \/ ~Permitted(opOf[x]) /\ Conclude(x, "VALIDATION_FAILED")
  /\ UNCHANGED <<opVars, opOf, todo, attempt, fixable, userVars, history, inForce, flashed>>

\* Only an operation that needs resources goes through WAITING_RESOURCE.
BeginAcquire(x) ==
  /\ pc[x] = "permitted"
  /\ Needs[opOf[x]] # <<>>
  /\ Move(x, "WAITING_RESOURCE", "acquire")
  /\ todo' = [todo EXCEPT ![x] = Needs[opOf[x]]]
  /\ UNCHANGED <<result, cancelReq, approved, opOf, attempt, fixable, final,
                 userVars, history, inForce, flashed>>

\* AcquireAll, one resource after the other, all EXCLUSIVE.
AcquireNext(x) ==
  /\ pc[x] = "acquire"
  /\ todo[x] # <<>>
  /\ Locks!Grant([holder |-> x, res |-> Head(todo[x]), mode |-> "EXCLUSIVE"])
  /\ todo' = [todo EXCEPT ![x] = Tail(@)]
  /\ UNCHANGED <<opVars, pc, opOf, attempt, fixable, final, userVars, history, flashed>>

\* AcquireAll gives up when ctx is done, and returns what it had.
AcquireFail(x) ==
  /\ pc[x] = "acquire"
  /\ todo[x] # <<>>
  /\ x \in ctxDone
  /\ inForce' = inForce \ LeasesOf(x)
  /\ Conclude(x, "RESOURCE_FAILED")
  /\ UNCHANGED <<opVars, opOf, todo, attempt, fixable, userVars, history, flashed>>

BeginResolve(x) ==
  /\ \/ pc[x] = "permitted" /\ Needs[opOf[x]] = <<>>
     \/ pc[x] = "acquire" /\ todo[x] = <<>>
  /\ Move(x, "RESOLVING", "resolve")
  /\ UNCHANGED <<result, cancelReq, approved, opOf, todo, attempt, fixable, final,
                 userVars, history, inForce, flashed>>

\* ResolveChannel finds a READY channel, or none.
Resolve(x) ==
  /\ pc[x] = "resolve"
  /\ \/ Move(x, "RUNNING", "loop") /\ UNCHANGED final
     \/ Conclude(x, "RESOLVE_FAILED") /\ UNCHANGED state
  /\ UNCHANGED <<result, cancelReq, approved, opOf, todo, attempt, fixable,
                 userVars, history, inForce, flashed>>

-----------------------------------------------------------------------------
(* runWithRecovery *)

\* A loop head that reads the cancel flag before the first attempt only.
LoopHeadFirstTimeOnly(x) ==
  /\ pc[x] = "loop"
  /\ LET stop == opOf[x] \in cancelReq /\ attempt[x] = 0
     IN  \/ stop /\ Conclude(x, "CANCELLED")
         \/ ~stop /\ Conclude(x, "RUN_FAILED")
         \/ ~stop /\ Goto(x, "invoke") /\ UNCHANGED final
  /\ UNCHANGED <<opVars, opOf, todo, attempt, fixable, userVars, history, inForce, flashed>>

\* The head of the loop: the cancel flag, then Open if the channel is not
\* READY, which may fail.
LoopHead(x) ==
  /\ pc[x] = "loop"
  /\ \/ opOf[x] \in cancelReq /\ Conclude(x, "CANCELLED")
     \/ opOf[x] \notin cancelReq /\ Conclude(x, "RUN_FAILED")
     \/ opOf[x] \notin cancelReq /\ Goto(x, "invoke") /\ UNCHANGED final
  /\ UNCHANGED <<opVars, opOf, todo, attempt, fixable, userVars, history, inForce, flashed>>

\* plugin.Invoke: the device performs the operation, or does not.
Invoke(x) ==
  /\ pc[x] = "invoke"
  /\ invoked' = [invoked EXCEPT ![opOf[x]] = @ + 1]
  /\ \/ /\ Goto(x, "applied")
        /\ applied' = applied \cup {opOf[x]}
        /\ flashed' = IF opOf[x] \in Flashes THEN Version[opOf[x]] ELSE flashed
     \/ /\ Goto(x, "refused")
        /\ UNCHANGED <<applied, flashed>>
  /\ UNCHANGED <<opVars, opOf, todo, attempt, fixable, final, userVars,
                 quota, expired, inForce>>

\* Invoke returns without an error; for flash it reads the version back, which
\* is the evidence that verify compares with the wanted one.
InvokeOk(x) ==
  /\ pc[x] = "applied"
  /\ final' = [final EXCEPT ![x] =
       IF opOf[x] \in Flashes /\ flashed # Version[opOf[x]] THEN "VERIFY_FAILED" ELSE "SUCCEEDED"]
  /\ Goto(x, "verify")
  /\ UNCHANGED <<opVars, opOf, todo, attempt, fixable, userVars, history, inForce, flashed>>

\* Invoke returns an error, whose category Recover can do something about
\* (DEVICE_STATE, CONNECTION ...) or not (VALIDATION ...).
InvokeError(x) ==
  /\ pc[x] \in {"applied", "refused"}
  /\ fixable' = fixable \cup {x} \/ fixable' = fixable \ {x}
  /\ Goto(x, "observe")
  /\ UNCHANGED <<opVars, opOf, todo, attempt, final, userVars, history, inForce, flashed>>

\* The attempt has failed and is worth another one; s is what finalState makes
\* of the decision if there is none.
TryAgain(x, s) ==
  /\ final' = [final EXCEPT ![x] = s]
  /\ Goto(x, IF attempt[x] >= MaxRetries THEN "report" ELSE "recover")

\* A reconciliation that does not compare the version.
ReconcileAnyVersion(x) ==
  \/ /\ opOf[x] \in Flashes
     /\ final' = [final EXCEPT ![x] = "SUCCEEDED"]
     /\ Goto(x, "verify")
  \/ opOf[x] \notin Flashes /\ TryAgain(x, "RUN_FAILED")

\* Reconcile, when the device is online.  For flash: the wanted version on the
\* device is a success, whoever put it there, another one needs a human.
Satisfied(o) == Version[o] # "" /\ flashed = Version[o]

ReconcileOnline(x) ==
  \/ /\ opOf[x] \in Flashes /\ Satisfied(opOf[x])
     /\ final' = [final EXCEPT ![x] = "SUCCEEDED"]
     /\ Goto(x, "verify")
  \/ opOf[x] \in Flashes /\ ~Satisfied(opOf[x]) /\ Conclude(x, "UNKNOWN")
  \/ opOf[x] \notin Flashes /\ TryAgain(x, "RUN_FAILED")

\* Observe first: an error leaves the default decision RETRY, a device that is
\* offline gives UNKNOWN.
Observe(x) ==
  /\ pc[x] = "observe"
  /\ TryAgain(x, "RUN_FAILED") \/ TryAgain(x, "UNKNOWN") \/ ReconcileOnline(x)
  /\ UNCHANGED <<opVars, opOf, todo, attempt, fixable, userVars, history, inForce, flashed>>

\* The recovery ladder ends with a channel to go on with, or without one.
Recover(x) ==
  /\ pc[x] = "recover"
  /\ \/ /\ x \in fixable
        /\ attempt' = [attempt EXCEPT ![x] = @ + 1]
        /\ Goto(x, "loop")
     \/ Goto(x, "report") /\ UNCHANGED attempt
  /\ UNCHANGED <<opVars, opOf, todo, fixable, final, userVars, history, inForce, flashed>>

-----------------------------------------------------------------------------
(* The end of Execute *)

Verify(x) ==
  /\ pc[x] = "verify"
  /\ Move(x, "VERIFYING", "report")
  /\ UNCHANGED <<result, cancelReq, approved, opOf, todo, attempt, fixable, final,
                 userVars, history, inForce, flashed>>

\* The transition before the result.
TransitionFirst(x) ==
  /\ pc[x] = "report"
  /\ Transition(opOf[x], final[x])
  /\ Goto(x, "conclude")
  /\ UNCHANGED <<result, cancelReq, approved, opOf, todo, attempt, fixable, final,
                 userVars, history, inForce, flashed>>

\* succeed and fail: SetResult, then the transition, whose error is ignored.
SetResult(x) ==
  /\ pc[x] = "report"
  /\ result' = [result EXCEPT ![opOf[x]] = final[x]]
  /\ Goto(x, "conclude")
  /\ UNCHANGED <<state, cancelReq, approved, opOf, todo, attempt, fixable, final,
                 userVars, history, inForce, flashed>>

LastTransition(x) ==
  /\ pc[x] = "conclude"
  /\ Transition(opOf[x], final[x])
  /\ Goto(x, "release")
  /\ UNCHANGED <<result, cancelReq, approved, opOf, todo, attempt, fixable, final,
                 userVars, history, inForce, flashed>>

\* A ReleaseAll on the successful path only.
ReleaseIfSucceeded(x) ==
  /\ pc[x] = "release"
  /\ inForce' = IF final[x] = "SUCCEEDED" THEN inForce \ LeasesOf(x) ELSE inForce
  /\ Goto(x, "done")
  /\ UNCHANGED <<opVars, opOf, todo, attempt, fixable, final, userVars, history, flashed>>

\* The deferred ReleaseAll, and Execute returns.
Release(x) ==
  /\ pc[x] = "release"
  /\ inForce' = inForce \ LeasesOf(x)
  /\ Goto(x, "done")
  /\ UNCHANGED <<opVars, opOf, todo, attempt, fixable, final, userVars, history, flashed>>

-----------------------------------------------------------------------------
(* Everybody else *)

\* Cancel: the check for a terminal state, then the flag.  quota notes how many
\* calls of the plugin the operation may have had in the end: one more if it
\* runs already, none if it does not.
CancelCheck(o) ==
  /\ o \in Created \ cancelReq
  /\ state[o] \notin Terminal
  /\ cancelling' = cancelling \cup {o}
  /\ UNCHANGED <<opVars, runVars, polling, answer, ctxDone, history, inForce, flashed>>

CancelFlag(o) ==
  /\ o \in cancelling
  /\ cancelling' = cancelling \ {o}
  /\ cancelReq' = cancelReq \cup {o}
  /\ quota' = [quota EXCEPT ![o] = invoked[o] + (IF state[o] = "RUNNING" THEN 1 ELSE 0)]
  /\ UNCHANGED <<state, result, approved, runVars, polling, answer, ctxDone,
                 invoked, applied, expired, inForce, flashed>>

Approve(o) ==
  /\ o \in Created \ approved
  /\ approved' = approved \cup {o}
  /\ UNCHANGED <<state, result, cancelReq, runVars, userVars, history, inForce, flashed>>

\* Wait: one poll sees a terminal state, then the result is read.
WaitLook(o) ==
  /\ o \in Created \ polling
  /\ answer[o] = "none"
  /\ state[o] \in Terminal
  /\ polling' = polling \cup {o}
  /\ UNCHANGED <<opVars, runVars, cancelling, answer, ctxDone, history, inForce, flashed>>

WaitTake(o) ==
  /\ o \in polling
  /\ polling' = polling \ {o}
  /\ answer' = [answer EXCEPT ![o] = IF result[o] = "none" THEN "nil" ELSE result[o]]
  /\ UNCHANGED <<opVars, runVars, cancelling, ctxDone, history, inForce, flashed>>

\* The ctx of Execute is done before the leases are taken.  (Later it only
\* reaches the plugin, whose calls may fail anyway.)
ContextDone(x) ==
  /\ x \notin ctxDone
  /\ pc[x] = "acquire"
  /\ ctxDone' = ctxDone \cup {x}
  /\ UNCHANGED <<opVars, runVars, cancelling, polling, answer, history, inForce, flashed>>

\* A lease expires under the operation: the engine never renews.
LeaseExpires(l) ==
  /\ Locks!Expire(l)
  /\ expired' = TRUE
  /\ UNCHANGED <<opVars, runVars, userVars, invoked, quota, applied, flashed>>

-----------------------------------------------------------------------------
(* The specification *)

Prepare(x) ==
  \/ Begin(x) \/ Validate(x) \/ BeginAcquire(x) \/ AcquireNext(x)
  \/ AcquireFail(x) \/ BeginResolve(x) \/ Resolve(x)
Run(x) ==
  \/ LoopHead(x) \/ Invoke(x) \/ InvokeOk(x) \/ InvokeError(x) \/ Observe(x)
  \/ Recover(x)
Finish(x) == Verify(x) \/ SetResult(x) \/ LastTransition(x) \/ Release(x)

Poll(o) == WaitLook(o) \/ WaitTake(o)

Next ==
  \/ \E x \in Client : Create(x) \/ Prepare(x) \/ Run(x) \/ Finish(x) \/ Poll(x)
  \/ \E o \in Cancellable : CancelCheck(o) \/ CancelFlag(o)
  \/ \E o \in Approvable : Approve(o)
  \/ \E x \in Timed : ContextDone(x)
  \/ \E l \in inForce : LeaseExpires(l)

Spec == Init /\ [][Next]_vars

\* Goroutines run, the calls into the plugin return, and Wait goes on polling.
\* Nothing is fair about clients, approvals, cancellation and the clock.
\* A wait for leases ends when they are free: LockManager proves that for calls
\* whose ctx is not cancelled.
FairSpec ==
  /\ Spec
  /\ \A x \in Client : WF_vars(Prepare(x) \/ Run(x) \/ Finish(x))
  /\ \A o \in Client : WF_vars(Poll(o))

-----------------------------------------------------------------------------
(* Properties *)

\* The engine implements the lifecycle (Execute, fail, succeed, Wait): while
\* every operation is executed once, its state moves forward only, and what
\* Wait returns is the terminal state it stays in.
Lifecycle == INSTANCE OperationLifecycle WITH Op <- Client
LifecycleKept == Lifecycle!Spec

\* After Cancel has returned nil, the device sees at most one more Invoke, and
\* none if the operation was not yet RUNNING: the flag is read at the head of
\* each attempt, also after a recovery.
CancelStopsAttempts ==
  \A o \in cancelReq : invoked[o] <= quota[o]

\* No operation reaches its device unless the policy allows it or it was
\* approved, and with all its leases taken (Execute's gates): its executor has
\* every lease it needs unless one expired meanwhile.
GatesKept ==
  \A x \in Client : pc[x] \in {"invoke", "applied", "refused", "observe", "recover"} =>
    /\ Gate[opOf[x]] = "allow" \/ Gate[opOf[x]] = "approval"
    /\ Gate[opOf[x]] = "approval" => opOf[x] \in approved
    /\ \A i \in DOMAIN Needs[opOf[x]] :
         expired \/ \E l \in inForce : l.holder = x /\ l.res = Needs[opOf[x]][i]

\* The version of o was on the device at first or a flash has put it there.
Present(o) == Version[o] = Installed \/ \E p \in applied \cap Flashes : Version[p] = Version[o]

\* From the moment a flash is found to have succeeded until its leases are given
\* back its version is on the device: neither a lost error nor another flash can
\* make the answer false, unless a lease expired (Invoke, Reconcile, verify, the
\* deferred ReleaseAll).  The success need not be its own work: Reconcile takes
\* the version for the postcondition, so a flash that failed without effect
\* SUCCEEDS on a board that runs the version already.  But somebody put it
\* there, and what verify reads back is wrong only if a lease expired.
FlashResultIsReal ==
  /\ \A x \in Client :
       /\ pc[x] \in {"verify", "report", "conclude", "release"}
       /\ final[x] = "SUCCEEDED" /\ opOf[x] \in Flashes
       => expired \/ flashed = Version[opOf[x]]
  /\ \A o \in Flashes :
       /\ state[o] = "SUCCEEDED" => Present(o)
       /\ state[o] = "VERIFY_FAILED" => expired

\* Every operation that was created ends, its waiters get their answer and its
\* leases are given back, as long as no ctx is done while it waits for them.
EveryOperationEnds ==
  [](ctxDone = {}) =>
    \A x \in Client :
      pc[x] = "created" ~> /\ pc[x] = "done"
                           /\ answer[opOf[x]] \in Terminal
                           /\ LeasesOf(x) = {}

\* A terminal state is never left, however many goroutines execute the same
\* operation ("terminal states are never overwritten", domain/operation.go).
TerminalStaysTerminal ==
  [][\A o \in Client : state[o] \in Terminal => state'[o] = state[o]]_vars

\* Wait never returns a nil result, also when several goroutines execute the
\* operation: whoever makes it terminal has set the result before.
WaitNeverReturnsNil ==
  \A o \in Client : answer[o] # "nil"
=============================================================================
