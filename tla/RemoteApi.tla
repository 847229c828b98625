------------------------------ MODULE RemoteApi ------------------------------
(***************************************************************************)
(* The runtime behind gRPC: the programs of cmd/elc that call it over      *)
(* transport/grpc/client.go and farmclient.go, the server of               *)
(* transport/grpc/server.go over the in-process client of sdk/client.go    *)
(* and the farm's scheduler, and the shutdown of "elc serve".              *)
(*                                                                         *)
(* A caller is one program: "exec" finds a device, creates a session and   *)
(* executes one operation (elc exec, and elc batch for each device);       *)
(* "operator" looks at the capabilities of a device, submits a task and    *)
(* looks at it once (elc caps, submit, then task or pool).  A caller has   *)
(* one RPC under way.  Its connection may break at any time; the client    *)
(* then returns the error, and a handler that has begun goes on.           *)
(*                                                                         *)
(* Engine and farm are OperationEngine.tla and FarmScheduler.tla in short: *)
(* there is one device, every operation needs its lease, which may expire  *)
(* under it, a task has one operation, and what an execution ends with is  *)
(* taken from Outcome.                                                     *)
(***************************************************************************)
EXTENDS ApiConversion

CONSTANTS Caller,
          Kind,          \* the program of each caller
          Key,           \* the idempotency key of each exec caller's request
          Worker,        \* the workers of the farm
          Seen,          \* what discovery may tell of the device
          Risk,          \* the risk levels of its capabilities
          Outcome,       \* what an execution may record
          Lost           \* what the client returns for a broken connection

Terminal == {"SUCCEEDED", "VALIDATION_FAILED", "RESOURCE_FAILED", "RESOLVE_FAILED",
             "RUN_FAILED", "VERIFY_FAILED", "CANCELLED", "UNKNOWN"}

ASSUME RemoteAssumption ==
  /\ Kind \in [Caller -> {"exec", "operator"}]
  /\ {"idle", "exit", "free"} \cap (Caller \cup Worker) = {}
  /\ Caller \cap Worker = {}
  /\ Seen \subseteq [state : Names(deviceStateFromProto), hardware : STRING]
  /\ Risk \subseteq Names(riskLevelFromProto)
  /\ Outcome \subseteq [state : Terminal, error : Seq(Names(errorCategoryFromProto))]

VARIABLES
  \* the callers
  pc,        \* the RPC a caller is in, or how its program ended
  call,      \* where that RPC stands
  wire,      \* the response the server has sent, Nothing before
  gone,      \* the callers that no longer wait for their RPC
  told,      \* what the client returned last, for which RPC
  \* the runtime
  phase,     \* the life of elc serve
  known,     \* discovery has registered the device
  state,     \* the state of the operation of each key
  result,    \* its result
  lease,     \* who holds the lease of the device
  task,      \* the state of the task each operator submits
  job,       \* the task each worker of the farm runs
  granted,   \* the workers whose operation has been given the lease
  \* history
  local,     \* what the method of sdk.Client or Scheduler returned to the handler
  worked,    \* the callers whose execution has reached the device
  overlapped,\* the keys two of whose executions were under way at once
  expired    \* a lease has expired while it was in use

callerVars == <<pc, call, wire, gone, told>>
engineVars == <<state, result, lease, worked, overlapped, expired>>
farmVars   == <<task, job, granted>>
vars == <<callerVars, phase, known, engineVars, farmVars, local>>

Exec == {c \in Caller : Kind[c] = "exec"}
Keys == {Key[c] : c \in Exec}
Nothing == <<>>

RPC == {"ListDevices", "Discover", "DescribeCapabilities", "CreateSession", "Execute",
        "SubmitTask", "GetTask", "CancelTask", "ListPool"}
AtWork == {c \in Caller : call[c] \in {"waiting", "working"}}

Init ==
  /\ pc = [c \in Caller |-> "ListDevices"]
  /\ call = [c \in Caller |-> "sent"]
  /\ wire = [c \in Caller |-> Nothing]
  /\ gone = {}
  /\ told = [c \in Caller |-> Nothing]
  /\ phase = "serving"
  /\ known = FALSE
  /\ state = [k \in Keys |-> "NONE"]
  /\ result = [k \in Keys |-> Nothing]
  /\ lease = "free"
  /\ task = [c \in Caller |-> "NONE"]
  /\ job = [w \in Worker |-> "idle"]
  /\ local = [c \in Caller |-> Nothing]
  /\ granted = {}
  /\ worked = {} /\ overlapped = {} /\ expired = FALSE

-----------------------------------------------------------------------------
(* The server.  A response carries values and at most one error.           *)

\* The generated handler has decoded the request.  Once GracefulStop was
\* called there are no new requests.
Dispatch(c, rpc) ==
  /\ phase = "serving"
  /\ pc[c] = rpc /\ call[c] = "sent"

Message(values, error) == [values |-> values, error |-> error]

\* An error of Go that is no domain.Error has no category; errToProto makes it
\* INTERNAL.
Plain == "plain"
Unified(e) == IF e = Plain THEN "INTERNAL" ELSE e
errToProto(error) == Each(ErrorToProto, Each(Unified, error))

\* The in-process method has returned values and an error, the handler converts both.
Respond(c, Convert(_), values, error) ==
  /\ local' = [local EXCEPT ![c] = Message(values, error)]
  /\ wire' = [wire EXCEPT ![c] = Message(Each(Convert, values), errToProto(error))]
  /\ call' = [call EXCEPT ![c] = "answered"]

Quietly == UNCHANGED <<pc, gone, told, phase, engineVars>>

Devices(c) == \E d \in Seen : Respond(c, DeviceToProto, <<d>>, <<>>)

ServeListDevices(c) ==
  /\ Dispatch(c, "ListDevices")
  /\ IF known THEN Devices(c) ELSE Respond(c, DeviceToProto, <<>>, <<>>)
  /\ UNCHANGED <<known, farmVars>> /\ Quietly

\* Discover registers what it finds, or nothing is plugged in.
ServeDiscover(c) ==
  /\ Dispatch(c, "Discover")
  /\ \/ known' = TRUE /\ Devices(c)
     \/ ~known /\ UNCHANGED known /\ Respond(c, DeviceToProto, <<>>, <<>>)
  /\ UNCHANGED farmVars /\ Quietly

ServeDescribeCapabilities(c) ==
  /\ Dispatch(c, "DescribeCapabilities")
  /\ \/ \E r \in Risk : Respond(c, CapabilityToProto, <<[risk |-> r]>>, <<>>)
     \/ Respond(c, CapabilityToProto, <<>>, <<"DISCOVERY">>)
  /\ UNCHANGED <<known, farmVars>> /\ Quietly

ServeCreateSession(c) ==
  /\ Dispatch(c, "CreateSession")
  /\ Respond(c, SessionToProto, <<[state |-> "ACTIVE"]>>, <<>>)
  /\ UNCHANGED <<known, farmVars>> /\ Quietly

-----------------------------------------------------------------------------
(* Execute: Engine.Create, then Engine.Execute with the context of the RPC. *)

\* The answer is the result r with the error that Execute returns beside it.
Returned(c, r, error) == Respond(c, OperationResultToProto, <<r>>, error)

\* What a refused transition returns: the recorded result, and an error that is no
\* domain.Error.
ReturnRecorded(c) == Returned(c, result[Key[c]][1], <<Plain>>)

\* Engine.fail: the result is written, the state only if it is not terminal.
Fail(c, r) ==
  /\ result' = [result EXCEPT ![Key[c]] = <<r>>]
  /\ state' = [state EXCEPT ![Key[c]] = IF @ \in Terminal THEN @ ELSE r.state]
  /\ Returned(c, r, r.error)

EngineOnly == UNCHANGED <<pc, gone, told, phase, known, farmVars, expired>>

\* Validation and policy refuse the operation, or it goes for its lease.  Another
\* execution of it may be under way.
Begin(c) ==
  /\ overlapped' = overlapped \cup {Key[d] : d \in {e \in AtWork : Key[e] = Key[c]}}
  /\ \/ \E r \in Outcome : r.state = "VALIDATION_FAILED" /\ Fail(c, r)
     \/ /\ call' = [call EXCEPT ![c] = "waiting"]
        /\ state' = [state EXCEPT ![Key[c]] = "OPEN"]
        /\ UNCHANGED <<result, wire, local>>

\* The operation is executed although it is terminal.
ServeExecuteAgain(c) ==
  /\ Dispatch(c, "Execute")
  /\ Begin(c)
  /\ UNCHANGED <<lease, worked>> /\ EngineOnly

\* A key names the operation that the first request with it has created.
ServeExecute(c) ==
  /\ Dispatch(c, "Execute")
  /\ IF state[Key[c]] \in Terminal
     THEN ReturnRecorded(c) /\ UNCHANGED <<state, result, overlapped>>
     ELSE Begin(c)
  /\ UNCHANGED <<lease, worked>> /\ EngineOnly

\* The caller has gone, which cancels the context before the lease is there.
Expire(c) ==
  /\ call[c] = "waiting"
  /\ c \in gone
  /\ \E r \in Outcome : r.state = "RESOURCE_FAILED" /\ Fail(c, r)
  /\ UNCHANGED <<lease, worked, overlapped>> /\ EngineOnly

\* AcquireAll has the lease; the transition after it may be refused.
Grant(c) ==
  /\ call[c] = "waiting"
  /\ lease = "free"
  /\ IF state[Key[c]] \in Terminal
     THEN ReturnRecorded(c) /\ UNCHANGED <<lease, worked>>
     ELSE /\ lease' = c
          /\ worked' = worked \cup {c}
          /\ call' = [call EXCEPT ![c] = "working"]
          /\ UNCHANGED <<wire, local>>
  /\ UNCHANGED <<state, result, overlapped>> /\ EngineOnly

Early == {"VALIDATION_FAILED", "RESOURCE_FAILED"}

\* The lease stays.
EndKeepingLease(c) ==
  /\ call[c] = "working"
  /\ \E r \in Outcome :
       /\ r.state \notin Early
       /\ IF r.state = "SUCCEEDED" /\ state[Key[c]] \in Terminal
          THEN ReturnRecorded(c) /\ UNCHANGED <<state, result>>
          ELSE Fail(c, r)
  /\ UNCHANGED <<lease, worked, overlapped>> /\ EngineOnly

\* The plugin has answered: succeed unless the operation has become terminal
\* meanwhile, or fail.  The deferred release follows, of its own lease if that
\* is still there.
End(c) ==
  /\ call[c] = "working"
  /\ \E r \in Outcome :
       /\ r.state \notin Early
       /\ IF r.state = "SUCCEEDED" /\ state[Key[c]] \in Terminal
          THEN ReturnRecorded(c) /\ UNCHANGED <<state, result>>
          ELSE Fail(c, r)
  /\ lease' = IF lease = c THEN "free" ELSE lease
  /\ UNCHANGED <<worked, overlapped>> /\ EngineOnly

\* The lease has reached its TTL; whoever waits for the device prunes it.
LeaseExpires ==
  /\ lease # "free"
  /\ lease' = "free"
  /\ expired' = TRUE
  /\ UNCHANGED <<callerVars, phase, known, farmVars, local, state, result, worked, overlapped>>

-----------------------------------------------------------------------------
(* The farm behind the server.  Its messages are strings and numbers. *)

AsIs(v) == v

ServeSubmitTask(c) ==
  /\ Dispatch(c, "SubmitTask")
  /\ task' = [task EXCEPT ![c] = "PENDING"]
  /\ Respond(c, AsIs, <<[task |-> c]>>, <<>>)
  /\ UNCHANGED <<job, granted, known>> /\ Quietly

ServeGetTask(c) ==
  /\ Dispatch(c, "GetTask")
  /\ Respond(c, AsIs, <<[state |-> task[c]]>>, <<>>)
  /\ UNCHANGED <<farmVars, known>> /\ Quietly

ServeCancelTask(c) ==
  /\ Dispatch(c, "CancelTask")
  /\ IF task[c] = "PENDING"
     THEN task' = [task EXCEPT ![c] = "CANCELLED"] /\ Respond(c, AsIs, <<>>, <<>>)
     ELSE /\ UNCHANGED task
          /\ Respond(c, AsIs, <<>>, <<Plain>>)
  /\ UNCHANGED <<job, granted, known>> /\ Quietly

\* The device is busy while a worker runs a task on it.
ServeListPool(c) ==
  /\ Dispatch(c, "ListPool")
  /\ Respond(c, AsIs, <<[busy |-> \E w \in Worker : job[w] \in Caller]>>, <<>>)
  /\ UNCHANGED <<farmVars, known>> /\ Quietly

FarmOnly == UNCHANGED <<callerVars, phase, known, local, state, result, worked, overlapped, expired>>

\* An idle worker takes a task, also while the server stops.
Take(w) ==
  /\ job[w] = "idle"
  /\ \E c \in Caller :
       /\ task[c] = "PENDING"
       /\ task' = [task EXCEPT ![c] = "RUNNING"]
       /\ job' = [job EXCEPT ![w] = c]
  /\ UNCHANGED <<lease, granted>> /\ FarmOnly

TaskGetsLease(w) ==
  /\ job[w] \in Caller /\ w \notin granted
  /\ lease = "free"
  /\ lease' = w
  /\ granted' = granted \cup {w}
  /\ UNCHANGED <<task, job>> /\ FarmOnly

TaskEnds(w) ==
  /\ w \in granted
  /\ granted' = granted \ {w}
  /\ lease' = IF lease = w THEN "free" ELSE lease
  /\ task' = [task EXCEPT ![job[w]] = "SUCCEEDED"]
  /\ job' = [job EXCEPT ![w] = "idle"]
  /\ FarmOnly

\* The stop channel is closed; a task that is still pending stays so.
WorkerExits(w) ==
  /\ job[w] = "idle"
  /\ phase = "stopping"
  /\ job' = [job EXCEPT ![w] = "exit"]
  /\ UNCHANGED <<task, granted, lease>> /\ FarmOnly

-----------------------------------------------------------------------------
(* elc serve. *)

ServerOnly == UNCHANGED <<callerVars, known, engineVars, farmVars, local>>

\* A signal ends the context; the goroutine of Serve calls GracefulStop.
Interrupt ==
  /\ phase = "serving"
  /\ phase' = "draining"
  /\ ServerOnly

\* Serve does not wait for its goroutine.
DrainedAtOnce ==
  /\ phase = "draining"
  /\ phase' = "stopping"
  /\ ServerOnly

\* GracefulStop returns when all handlers have; only then Serve does, and the
\* deferred Scheduler.Stop closes its channel.
Drained ==
  /\ phase = "draining"
  /\ AtWork = {}
  /\ phase' = "stopping"
  /\ ServerOnly

\* Stop has waited for the workers; rt.Close closes the links to the devices.
CloseRuntime ==
  /\ phase = "stopping"
  /\ \A w \in Worker : job[w] = "exit"
  /\ phase' = "closed"
  /\ ServerOnly

-----------------------------------------------------------------------------
(* The clients. *)

RuntimeOnly == UNCHANGED <<phase, known, engineVars, farmVars, local>>

\* The stub of the next RPC of the program.
Invoke(c, rpc) ==
  /\ pc' = [pc EXCEPT ![c] = rpc]
  /\ call' = [call EXCEPT ![c] = "sent"]
  /\ wire' = [wire EXCEPT ![c] = Nothing]

\* The program ends.
Leave(c, how) ==
  /\ pc' = [pc EXCEPT ![c] = how]
  /\ call' = [call EXCEPT ![c] = "none"]
  /\ wire' = [wire EXCEPT ![c] = Nothing]

Arrived(c, rpc) == pc[c] = rpc /\ call[c] = "answered" /\ c \notin gone

\* The client's method converts the response back and returns it.
Tell(c, Convert(_)) ==
  /\ told' = [told EXCEPT ![c] = Message(Each(Convert, wire[c].values), Each(ErrorFromProto, wire[c].error))]
  /\ UNCHANGED gone

\* elc exec goes on with a session, elc caps with the capabilities.
Found(c) ==
  Invoke(c, IF Kind[c] = "exec" THEN "CreateSession" ELSE "DescribeCapabilities")

\* findDevice discovers when the list is empty, once.
FindDevice(c) ==
  IF wire[c].values # <<>> THEN Found(c)
  ELSE IF pc[c] = "ListDevices" THEN Invoke(c, "Discover") ELSE Leave(c, "over")

ListDevices(c) ==
  /\ Arrived(c, "ListDevices")
  /\ Tell(c, DeviceFromProto)
  /\ FindDevice(c)
  /\ RuntimeOnly

Discover(c) ==
  /\ Arrived(c, "Discover")
  /\ Tell(c, DeviceFromProto)
  /\ FindDevice(c)
  /\ RuntimeOnly

DescribeCapabilities(c) ==
  /\ Arrived(c, "DescribeCapabilities")
  /\ Tell(c, CapabilityFromProto)
  /\ IF wire[c].error # <<>> THEN Leave(c, "over") ELSE Invoke(c, "SubmitTask")
  /\ RuntimeOnly

CreateSession(c) ==
  /\ Arrived(c, "CreateSession")
  /\ Tell(c, SessionFromProto)
  /\ Invoke(c, "Execute")
  /\ RuntimeOnly

Execute(c) ==
  /\ Arrived(c, "Execute")
  /\ Tell(c, OperationResultFromProto)
  /\ Leave(c, "done")
  /\ RuntimeOnly

\* elc submit prints the ID of the task; somebody looks at it, cancels it, or
\* looks at the pool of devices.
SubmitTask(c) ==
  /\ Arrived(c, "SubmitTask")
  /\ Tell(c, AsIs)
  /\ \E rpc \in {"GetTask", "CancelTask", "ListPool"} : Invoke(c, rpc)
  /\ RuntimeOnly

GetTask(c) ==
  /\ Arrived(c, "GetTask")
  /\ Tell(c, AsIs)
  /\ Leave(c, "over")
  /\ RuntimeOnly

CancelTask(c) ==
  /\ Arrived(c, "CancelTask")
  /\ Tell(c, AsIs)
  /\ Leave(c, "over")
  /\ RuntimeOnly

ListPool(c) ==
  /\ Arrived(c, "ListPool")
  /\ Tell(c, AsIs)
  /\ Leave(c, "over")
  /\ RuntimeOnly

\* The connection breaks, or the caller's context ends, which the handler may
\* notice.  ListDevices swallows the error and findDevice goes on with Discover;
\* all others end the program: after Execute it reads the state of a nil result
\* and crashes.  A request of these two RPCs may still be under way then.
Break(c) ==
  /\ pc[c] \in RPC /\ c \notin gone
  /\ told' = [told EXCEPT ![c] = Lost]
  /\ CASE pc[c] = "ListDevices" -> Invoke(c, "Discover") /\ UNCHANGED gone
       [] pc[c] \in {"Execute", "SubmitTask"} -> gone' = gone \cup {c} /\ UNCHANGED <<pc, call, wire>>
       [] OTHER -> Leave(c, "over") /\ UNCHANGED gone
  /\ RuntimeOnly

-----------------------------------------------------------------------------
Handle(c) ==
  \/ ServeListDevices(c) \/ ServeDiscover(c) \/ ServeDescribeCapabilities(c)
  \/ ServeCreateSession(c) \/ ServeExecute(c) \/ Expire(c) \/ Grant(c) \/ End(c)
  \/ ServeSubmitTask(c) \/ ServeGetTask(c) \/ ServeCancelTask(c) \/ ServeListPool(c)
Receive(c) ==
  \/ ListDevices(c) \/ Discover(c) \/ DescribeCapabilities(c) \/ CreateSession(c) \/ Execute(c)
  \/ SubmitTask(c) \/ GetTask(c) \/ CancelTask(c) \/ ListPool(c)
Work(w) == Take(w) \/ TaskGetsLease(w) \/ TaskEnds(w) \/ WorkerExits(w)
Serve == Drained \/ CloseRuntime

Next ==
  \/ \E c \in Caller : Handle(c) \/ Receive(c) \/ Break(c)
  \/ \E w \in Worker : Work(w)
  \/ LeaseExpires \/ Interrupt \/ Serve

Spec == Init /\ [][Next]_vars

\* The server and its goroutines run, and operations end.  No caller has to do
\* anything, and nobody has to interrupt the server.
FairSpec ==
  /\ Spec
  /\ WF_vars(Serve)
  /\ \A c \in Caller : WF_vars(Handle(c))
  /\ \A w \in Worker : WF_vars(Work(w))

-----------------------------------------------------------------------------
(* Properties. *)

Phase == {"serving", "draining", "stopping", "closed"}
TypeOK ==
  /\ pc \in [Caller -> RPC \cup {"done", "over"}]
  /\ call \in [Caller -> {"none", "sent", "waiting", "working", "answered"}]
  /\ gone \subseteq Caller
  /\ phase \in Phase
  /\ known \in BOOLEAN
  /\ state \in [Keys -> {"NONE", "OPEN"} \cup Terminal]
  /\ result \in [Keys -> {Nothing} \cup {<<r>> : r \in Outcome}]
  /\ lease \in {"free"} \cup Caller \cup Worker
  /\ task \in [Caller -> {"NONE", "PENDING", "RUNNING", "SUCCEEDED", "CANCELLED"}]
  /\ job \in [Worker -> Caller \cup {"idle", "exit"}]
  /\ granted \subseteq Worker
  /\ worked \subseteq Caller /\ overlapped \subseteq Keys /\ expired \in BOOLEAN

GoesOn(c) == pc'[c] # pc[c]

\* What the wire makes of the answer of the in-process client.
Bare(d) == [d EXCEPT !.hardware = Unset]
AsRemote(rpc, answer) ==
  Message(IF rpc \in {"ListDevices", "Discover"} THEN Each(Bare, answer.values) ELSE answer.values,
          Each(Unified, answer.error))

\* "Indifferent to whether the implementation is in-process or remote" (client.go:16)
\* with two exceptions: through the tables of both sides, of all RPCs, nothing of an
\* answer changes but the hardware ID of a device, which is lost, and an error
\* without a category, which becomes INTERNAL; or the caller gets the error of a
\* broken connection (convert.go:172, server.go:237).
AnswerIsTranslated ==
  [][\A c \in Caller : GoesOn(c) => told'[c] = Lost \/ told'[c] = AsRemote(pc[c], local[c])]_vars

\* Two executions of one idempotency key never both reach the device, not even when
\* a retry overtakes an execution the server still has under way, which the engine
\* does not stop: the second waits for the lease, and the first makes the operation
\* terminal before it gives the lease back (engine.go:212, 261).  Only the end of a
\* lease can let an overlapping one through.  What the callers of a key hear is the
\* state the operation ended in, if its executions did not overlap.
KeyDecidesOnce ==
  \A c \in Exec :
    /\ Key[c] \notin overlapped /\ pc[c] = "done" => told[c].values[1].state = state[Key[c]]
    /\ Key[c] \notin overlapped \/ ~expired =>
         \A d \in Exec \ {c} : Key[d] = Key[c] => ~({c, d} \subseteq worked)

\* The runtime closes its links to the devices when no handler, no worker and
\* no lease of theirs is left, although handlers, workers and main are separate
\* goroutines (server.go:51, main.go:248).
ClosedAfterWork ==
  /\ phase \in {"stopping", "closed"} => AtWork = {}
  /\ phase = "closed" => lease = "free" /\ \A w \in Worker : job[w] = "exit"

\* An interrupted server ends: the handlers that wait for a lease get it or
\* give up, whoever holds it.
ServeEnds == phase = "draining" ~> phase = "closed"
=============================================================================
