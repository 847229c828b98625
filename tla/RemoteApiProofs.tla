-------------------------- MODULE RemoteApiProofs --------------------------
(***************************************************************************)
(* Proofs about RemoteApi, for any callers, keys and workers, and any way  *)
(* executions may end.                                                     *)
(*                                                                         *)
(* First the conversions: the tables of both directions are inverse to     *)
(* each other on the states, risks and categories of the domain, so that   *)
(* an object which crosses the wire comes back as it was, a device without *)
(* its hardware ID.                                                        *)
(*                                                                         *)
(* Then three invariants.  ServerInv is about the runtime: the lease       *)
(* belongs to a handler or worker that is at work, no handler is at work   *)
(* once Serve has returned, and what a handler has put on the wire is,     *)
(* converted back, AsRemote of what the in-process client has returned to  *)
(* it.  OnceInv is about any idempotency key: an execution that has        *)
(* reached the device has the lease until the operation is terminal.       *)
(* KeyInv is about a key none of whose executions overlap: one is at work  *)
(* at most, the operation is open as long, and from then on its state, its *)
(* result and all answers agree.                                           *)
(***************************************************************************)
EXTENDS RemoteApi, SequenceTheorems, TLAPS

-----------------------------------------------------------------------------
(* The conversions *)

LEMMA DeviceStates ==
  \A x \in Names(deviceStateFromProto) : FromProto(deviceStateFromProto, ToProto(deviceStateToProto, x)) = x
  <1>1. DOMAIN deviceStateFromProto = 1..4
    BY DEF deviceStateFromProto
  <1>2. \A n \in 1..4 : deviceStateToProto[deviceStateFromProto[n]] = n
    BY DEF deviceStateFromProto, deviceStateToProto
  <1>3. \A n \in 1..4 : deviceStateFromProto[n] \in DOMAIN deviceStateToProto
    BY DEF deviceStateFromProto, deviceStateToProto
  <1> QED
    BY <1>1, <1>2, <1>3 DEF Names, ToProto, FromProto

LEMMA SessionStates ==
  \A x \in Names(sessionStateFromProto) : FromProto(sessionStateFromProto, ToProto(sessionStateToProto, x)) = x
  <1>1. DOMAIN sessionStateFromProto = 1..8
    BY DEF sessionStateFromProto
  <1>2. \A n \in 1..8 : sessionStateToProto[sessionStateFromProto[n]] = n
    BY DEF sessionStateFromProto, sessionStateToProto
  <1>3. \A n \in 1..8 : sessionStateFromProto[n] \in DOMAIN sessionStateToProto
    BY DEF sessionStateFromProto, sessionStateToProto
  <1> QED
    BY <1>1, <1>2, <1>3 DEF Names, ToProto, FromProto

LEMMA RiskLevels ==
  \A x \in Names(riskLevelFromProto) : FromProto(riskLevelFromProto, ToProto(riskLevelToProto, x)) = x
  <1>1. DOMAIN riskLevelFromProto = 1..4
    BY DEF riskLevelFromProto
  <1>2. \A n \in 1..4 : riskLevelToProto[riskLevelFromProto[n]] = n
    BY DEF riskLevelFromProto, riskLevelToProto
  <1>3. \A n \in 1..4 : riskLevelFromProto[n] \in DOMAIN riskLevelToProto
    BY DEF riskLevelFromProto, riskLevelToProto
  <1> QED
    BY <1>1, <1>2, <1>3 DEF Names, ToProto, FromProto

\* A device arrives without its hardware ID.
LEMMA DeviceRoundTrip ==
  \A d \in [state : Names(deviceStateFromProto), hardware : STRING] :
    DeviceFromProto(DeviceToProto(d)) = Bare(d)
  BY DeviceStates DEF DeviceFromProto, DeviceToProto, Bare

LEMMA SessionRoundTrip ==
  \A x \in Names(sessionStateFromProto) :
    SessionFromProto(SessionToProto([state |-> x])) = [state |-> x]
  BY SessionStates DEF SessionFromProto, SessionToProto

LEMMA CapabilityRoundTrip ==
  \A x \in Names(riskLevelFromProto) :
    CapabilityFromProto(CapabilityToProto([risk |-> x])) = [risk |-> x]
  BY RiskLevels DEF CapabilityFromProto, CapabilityToProto

LEMMA ErrorRoundTrip ==
  \A x \in Names(errorCategoryFromProto) : ErrorFromProto(ErrorToProto(x)) = x
  <1>1. DOMAIN errorCategoryFromProto = 1..13
    BY DEF errorCategoryFromProto
  <1>2. \A n \in 1..13 : errorCategoryToProto[errorCategoryFromProto[n]] = n
    BY DEF errorCategoryFromProto, errorCategoryToProto
  <1>3. \A n \in 1..13 : errorCategoryFromProto[n] \in DOMAIN errorCategoryToProto
    BY DEF errorCategoryFromProto, errorCategoryToProto
  <1> QED
    BY <1>1, <1>2, <1>3 DEF Names, ErrorFromProto, ErrorToProto, ToProto, FromProto

\* The chain of the causes of a failure.
LEMMA ErrorsRoundTrip ==
  ASSUME NEW e \in Seq(Names(errorCategoryFromProto))
  PROVE  Each(ErrorFromProto, Each(ErrorToProto, e)) = e
  <1>1. \A i \in DOMAIN e : e[i] \in Names(errorCategoryFromProto)
    BY ElementOfSeq, LenProperties
  <1>2. e = [i \in DOMAIN e |-> e[i]]
    BY LenProperties
  <1> QED
    BY <1>1, <1>2, ErrorRoundTrip DEF Each

\* The errors a handler may have to convert, those without a category among them.
Errors(e) == \A i \in DOMAIN e : e[i] \in Names(errorCategoryFromProto) \cup {Plain}

LEMMA UnifiedRoundTrip ==
  ASSUME NEW e, Errors(e)
  PROVE  Each(ErrorFromProto, errToProto(e)) = Each(Unified, e)
  <1>1. "INTERNAL" \in Names(errorCategoryFromProto)
    <2>1. 12 \in DOMAIN errorCategoryFromProto /\ errorCategoryFromProto[12] = "INTERNAL"
      BY DEF errorCategoryFromProto
    <2> QED
      BY <2>1 DEF Names
  <1>2. \A i \in DOMAIN e : Unified(e[i]) \in Names(errorCategoryFromProto)
    BY <1>1 DEF Errors, Unified
  <1>3. \A i \in DOMAIN e : ErrorFromProto(ErrorToProto(Unified(e[i]))) = Unified(e[i])
    BY <1>2, ErrorRoundTrip
  <1>4. /\ Each(Unified, e) = [i \in DOMAIN e |-> Unified(e[i])]
        /\ errToProto(e) = [i \in DOMAIN e |-> ErrorToProto(Unified(e[i]))]
        /\ Each(ErrorFromProto, errToProto(e)) = [i \in DOMAIN e |-> ErrorFromProto(ErrorToProto(Unified(e[i])))]
    BY Zenon DEF Each, errToProto
  <1> QED
    BY <1>3, <1>4

\* A message with one object or none.
LEMMA EachSingle ==
  ASSUME NEW x
  PROVE  /\ Each(DeviceToProto, <<x>>) = <<DeviceToProto(x)>>
         /\ Each(DeviceFromProto, <<x>>) = <<DeviceFromProto(x)>>
         /\ Each(SessionToProto, <<x>>) = <<SessionToProto(x)>>
         /\ Each(SessionFromProto, <<x>>) = <<SessionFromProto(x)>>
         /\ Each(CapabilityToProto, <<x>>) = <<CapabilityToProto(x)>>
         /\ Each(CapabilityFromProto, <<x>>) = <<CapabilityFromProto(x)>>
         /\ Each(OperationResultToProto, <<x>>) = <<OperationResultToProto(x)>>
         /\ Each(OperationResultFromProto, <<x>>) = <<OperationResultFromProto(x)>>
         /\ Each(Bare, <<x>>) = <<Bare(x)>>
         /\ Each(AsIs, <<x>>) = <<x>>
  BY DEF Each, AsIs

LEMMA StateRoundTrip ==
  \A x \in Names(operationStateFromProto) :
    FromProto(operationStateFromProto, ToProto(operationStateToProto, x)) = x
  <1>1. DOMAIN operationStateFromProto = 1..15
    BY DEF operationStateFromProto
  <1>2. \A n \in 1..15 : operationStateToProto[operationStateFromProto[n]] = n
    BY DEF operationStateFromProto, operationStateToProto
  <1>3. \A n \in 1..15 : operationStateFromProto[n] \in DOMAIN operationStateToProto
    BY DEF operationStateFromProto, operationStateToProto
  <1> QED
    BY <1>1, <1>2, <1>3 DEF Names, ToProto, FromProto

\* What an operation has ended with arrives as it was (convert.go:329, 412).
THEOREM ResultRoundTrip ==
  ASSUME NEW r \in [state : Names(operationStateFromProto),
                    error : Seq(Names(errorCategoryFromProto))]
  PROVE  OperationResultFromProto(OperationResultToProto(r)) = r
  BY StateRoundTrip, ErrorsRoundTrip DEF OperationResultFromProto, OperationResultToProto

-----------------------------------------------------------------------------
(* The runtime *)

\* The variables that hold messages, and those of the history.
Functions ==
  /\ wire = [c \in Caller |-> wire[c]]
  /\ told = [c \in Caller |-> told[c]]
  /\ local = [c \in Caller |-> local[c]]

HasResult == \A k \in Keys : state[k] \in Terminal => result[k] # Nothing

LeaseOwned ==
  \/ lease = "free"
  \/ lease \in Caller /\ call[lease] = "working"
  \/ lease \in granted

\* A worker whose operation has been given the lease runs a task.
GrantedWork == \A w \in granted : job[w] \in Caller

\* An execution is that of an exec caller, which waits for it or has gone.
ExecAtWork ==
  /\ \A c \in AtWork : pc[c] = "Execute"
  /\ \A c \in Caller : pc[c] \in {"CreateSession", "Execute", "done"} \/ c \in worked => c \in Exec

\* What the method of the remote client makes of a response.
Read(rpc, m) ==
  Message(CASE rpc \in {"ListDevices", "Discover"} -> Each(DeviceFromProto, m.values)
            [] rpc = "DescribeCapabilities" -> Each(CapabilityFromProto, m.values)
            [] rpc = "CreateSession" -> Each(SessionFromProto, m.values)
            [] rpc = "Execute" -> Each(OperationResultFromProto, m.values)
            [] OTHER -> Each(AsIs, m.values),
          Each(ErrorFromProto, m.error))

WireIsLocal ==
  \A c \in Caller : call[c] = "answered" => Read(pc[c], wire[c]) = AsRemote(pc[c], local[c])

ServerInv ==
  /\ TypeOK
  /\ Functions
  /\ HasResult
  /\ LeaseOwned
  /\ GrantedWork
  /\ ExecAtWork
  /\ WireIsLocal
  /\ ClosedAfterWork

LEMMA KeyTyped == \A c \in Exec : Key[c] \in Keys
  BY DEF Keys

LEMMA InitServerInv == Init => ServerInv
  <1> SUFFICES ASSUME Init PROVE ServerInv
    OBVIOUS
  <1>1. TypeOK
    BY DEF Init, TypeOK, RPC, Phase
  <1>2. Functions
    BY DEF Init, Functions
  <1>3. HasResult /\ LeaseOwned /\ GrantedWork /\ ExecAtWork
    BY DEF Init, HasResult, LeaseOwned, GrantedWork, ExecAtWork, AtWork, Terminal
  <1>4. WireIsLocal /\ ClosedAfterWork
    BY DEF Init, WireIsLocal, ClosedAfterWork
  <1> QED
    BY <1>1, <1>2, <1>3, <1>4 DEF ServerInv

-----------------------------------------------------------------------------
(* The answers *)

\* The handler of c has the answer a and sends the message m.
Answered(c, a, m) ==
  /\ local' = [local EXCEPT ![c] = a]
  /\ wire' = [wire EXCEPT ![c] = m]
  /\ call' = [call EXCEPT ![c] = "answered"]

\* A response without an object.
LEMMA EmptyRead ==
  ASSUME NEW rpc, NEW e, Errors(e)
  PROVE  Read(rpc, Message(<<>>, errToProto(e))) = AsRemote(rpc, Message(<<>>, e))
  <1>1. /\ Each(DeviceFromProto, <<>>) = <<>> /\ Each(CapabilityFromProto, <<>>) = <<>>
        /\ Each(SessionFromProto, <<>>) = <<>> /\ Each(OperationResultFromProto, <<>>) = <<>>
        /\ Each(Bare, <<>>) = <<>> /\ Each(AsIs, <<>>) = <<>>
    BY DEF Each
  <1>2. /\ Message(<<>>, errToProto(e)).values = <<>> /\ Message(<<>>, errToProto(e)).error = errToProto(e)
        /\ Message(<<>>, e).values = <<>> /\ Message(<<>>, e).error = e
    BY DEF Message
  <1>3. Read(rpc, Message(<<>>, errToProto(e))) = Message(<<>>, Each(ErrorFromProto, errToProto(e)))
    BY <1>1, <1>2 DEF Read
  <1>4. AsRemote(rpc, Message(<<>>, e)) = Message(<<>>, Each(Unified, e))
    BY <1>1, <1>2 DEF AsRemote
  <1> QED
    BY <1>3, <1>4, UnifiedRoundTrip

\* A response with one.
LEMMA SingleRead ==
  ASSUME NEW rpc, NEW x, NEW y, NEW e, Errors(e),
         rpc \in {"ListDevices", "Discover"} => DeviceFromProto(y) = Bare(x),
         rpc = "DescribeCapabilities" => CapabilityFromProto(y) = x,
         rpc = "CreateSession" => SessionFromProto(y) = x,
         rpc = "Execute" => OperationResultFromProto(y) = x,
         rpc \notin {"ListDevices", "Discover", "DescribeCapabilities", "CreateSession", "Execute"} => y = x
  PROVE  Read(rpc, Message(<<y>>, errToProto(e))) = AsRemote(rpc, Message(<<x>>, e))
  <1> DEFINE z == IF rpc \in {"ListDevices", "Discover"} THEN Bare(x) ELSE x
  <1>1. /\ Message(<<y>>, errToProto(e)).values = <<y>> /\ Message(<<y>>, errToProto(e)).error = errToProto(e)
        /\ Message(<<x>>, e).values = <<x>> /\ Message(<<x>>, e).error = e
    BY DEF Message
  <1>2. /\ Each(DeviceFromProto, <<y>>) = <<DeviceFromProto(y)>>
        /\ Each(SessionFromProto, <<y>>) = <<SessionFromProto(y)>>
        /\ Each(CapabilityFromProto, <<y>>) = <<CapabilityFromProto(y)>>
        /\ Each(OperationResultFromProto, <<y>>) = <<OperationResultFromProto(y)>>
        /\ Each(AsIs, <<y>>) = <<y>>
        /\ Each(Bare, <<x>>) = <<Bare(x)>>
    BY EachSingle, Zenon
  <1>3. Read(rpc, Message(<<y>>, errToProto(e))) = Message(<<z>>, Each(ErrorFromProto, errToProto(e)))
    BY <1>1, <1>2 DEF Read
  <1>4. AsRemote(rpc, Message(<<x>>, e)) = Message(<<z>>, Each(Unified, e))
    BY <1>1, <1>2 DEF AsRemote
  <1> QED
    BY <1>3, <1>4, UnifiedRoundTrip

\* A handler has answered with what the caller's client reads as its answer.
LEMMA RespondRead ==
  ASSUME ServerInv, NEW c \in Caller, NEW a, NEW m, Answered(c, a, m), UNCHANGED <<pc, told>>,
         Read(pc[c], m) = AsRemote(pc[c], a)
  PROVE  /\ Functions' /\ WireIsLocal'
         /\ call' = [call EXCEPT ![c] = "answered"]
         /\ local'[c] = a
         /\ \A d \in Caller \ {c} : local'[d] = local[d]
  <1>1. /\ wire' = [wire EXCEPT ![c] = m]
        /\ local' = [local EXCEPT ![c] = a]
        /\ call' = [call EXCEPT ![c] = "answered"]
    BY DEF Answered
  <1>2. Functions'
    BY <1>1 DEF ServerInv, Functions
  <1>3. wire'[c] = m /\ local'[c] = a
    BY <1>1 DEF ServerInv, Functions
  <1>4. \A d \in Caller \ {c} : wire'[d] = wire[d] /\ local'[d] = local[d] /\ call'[d] = call[d]
    BY <1>1 DEF ServerInv, Functions, TypeOK
  <1>5. WireIsLocal'
    <2> SUFFICES ASSUME NEW d \in Caller, call'[d] = "answered"
                 PROVE  Read(pc[d], wire'[d]) = AsRemote(pc[d], local'[d])
      BY Zenon DEF WireIsLocal
    <2>1. CASE d = c
      BY <1>3, <2>1
    <2>2. CASE d # c
      BY <1>4, <2>2 DEF ServerInv, WireIsLocal
    <2> QED
      BY <2>1, <2>2
  <1> QED
    BY <1>1, <1>2, <1>3, <1>4, <1>5

\* The handlers that touch neither the engine nor the lease.
LEMMA QuietInv ==
  ASSUME ServerInv, NEW c \in Caller, phase = "serving", pc[c] # "Execute", call[c] = "sent",
         NEW a, NEW m, Answered(c, a, m), Read(pc[c], m) = AsRemote(pc[c], a), Quietly,
         UNCHANGED <<job, granted>>, known' \in BOOLEAN,
         task' \in [Caller -> {"NONE", "PENDING", "RUNNING", "SUCCEEDED", "CANCELLED"}]
  PROVE  ServerInv'
  <1>0. /\ UNCHANGED <<pc, gone, told, phase, state, result, lease, worked, overlapped, expired>>
        /\ call' = [call EXCEPT ![c] = "answered"]
    BY DEF Quietly, engineVars, Answered
  <1>1. Functions' /\ WireIsLocal'
    BY <1>0, RespondRead
  <1>2. TypeOK'
    BY <1>0 DEF ServerInv, TypeOK
  <1>3. HasResult' /\ LeaseOwned' /\ GrantedWork'
    BY <1>0 DEF ServerInv, TypeOK, HasResult, LeaseOwned, GrantedWork
  <1>4. AtWork' = AtWork
    BY <1>0 DEF ServerInv, TypeOK, AtWork
  <1>5. ExecAtWork' /\ ClosedAfterWork'
    BY <1>0, <1>4 DEF ServerInv, ExecAtWork, ClosedAfterWork, Exec
  <1> QED
    BY <1>1, <1>2, <1>3, <1>5 DEF ServerInv

LEMMA NoErrors == Errors(<<>>) /\ Errors(<<Plain>>) /\ Errors(<<"DISCOVERY">>)
  <1>1. "DISCOVERY" \in Names(errorCategoryFromProto)
    <2>1. 4 \in DOMAIN errorCategoryFromProto /\ errorCategoryFromProto[4] = "DISCOVERY"
      BY DEF errorCategoryFromProto
    <2> QED
      BY <2>1 DEF Names
  <1> QED
    BY <1>1 DEF Errors

LEMMA DiscoveryHandlersInv ==
  ASSUME ServerInv, NEW c \in Caller, ServeListDevices(c) \/ ServeDiscover(c)
  PROVE  ServerInv'
  <1>1. /\ phase = "serving" /\ call[c] = "sent" /\ pc[c] \in {"ListDevices", "Discover"}
        /\ Quietly /\ UNCHANGED <<task, job, granted>> /\ known' \in BOOLEAN
    BY DEF ServeListDevices, ServeDiscover, Dispatch, farmVars, ServerInv, TypeOK
  <1>2. ASSUME NEW d \in Seen, Respond(c, DeviceToProto, <<d>>, <<>>) PROVE ServerInv'
    <2>1. Answered(c, Message(<<d>>, <<>>), Message(<<DeviceToProto(d)>>, errToProto(<<>>)))
      BY <1>2, EachSingle DEF Respond, Answered
    <2>2. DeviceFromProto(DeviceToProto(d)) = Bare(d)
      BY DeviceRoundTrip, RemoteAssumption
    <2>3. Read(pc[c], Message(<<DeviceToProto(d)>>, errToProto(<<>>))) = AsRemote(pc[c], Message(<<d>>, <<>>))
      BY <1>1, <2>2, SingleRead, NoErrors
    <2> QED
      BY <1>1, <2>1, <2>3, QuietInv DEF ServerInv, TypeOK
  <1>3. ASSUME Respond(c, DeviceToProto, <<>>, <<>>) PROVE ServerInv'
    <2>1. Answered(c, Message(<<>>, <<>>), Message(<<>>, errToProto(<<>>)))
      BY <1>3 DEF Respond, Answered, Each
    <2> QED
      BY <1>1, <2>1, EmptyRead, NoErrors, QuietInv DEF ServerInv, TypeOK
  <1>4. (\E d \in Seen : Respond(c, DeviceToProto, <<d>>, <<>>)) \/ Respond(c, DeviceToProto, <<>>, <<>>)
    BY Zenon DEF ServeListDevices, ServeDiscover, Devices
  <1> QED
    BY <1>2, <1>3, <1>4

LEMMA CapabilitiesInv ==
  ASSUME ServerInv, NEW c \in Caller, ServeDescribeCapabilities(c)
  PROVE  ServerInv'
  <1>1. /\ phase = "serving" /\ call[c] = "sent" /\ pc[c] = "DescribeCapabilities"
        /\ Quietly /\ UNCHANGED <<task, job, granted, known>>
    BY DEF ServeDescribeCapabilities, Dispatch, farmVars
  <1>2. ASSUME NEW r \in Risk, Respond(c, CapabilityToProto, <<[risk |-> r]>>, <<>>)
        PROVE  ServerInv'
    <2> DEFINE x == [risk |-> r]
    <2>1. Answered(c, Message(<<x>>, <<>>), Message(<<CapabilityToProto(x)>>, errToProto(<<>>)))
      BY <1>2, EachSingle DEF Respond, Answered
    <2>2. CapabilityFromProto(CapabilityToProto(x)) = x
      BY CapabilityRoundTrip, RemoteAssumption
    <2>3. Read(pc[c], Message(<<CapabilityToProto(x)>>, errToProto(<<>>))) = AsRemote(pc[c], Message(<<x>>, <<>>))
      BY <1>1, <2>2, SingleRead, NoErrors
    <2> QED
      BY <1>1, <2>1, <2>3, QuietInv DEF ServerInv, TypeOK
  <1>3. ASSUME Respond(c, CapabilityToProto, <<>>, <<"DISCOVERY">>)
        PROVE  ServerInv'
    <2>1. Answered(c, Message(<<>>, <<"DISCOVERY">>), Message(<<>>, errToProto(<<"DISCOVERY">>)))
      BY <1>3 DEF Respond, Answered, Each
    <2> QED
      BY <1>1, <2>1, EmptyRead, NoErrors, QuietInv DEF ServerInv, TypeOK
  <1> QED
    BY <1>2, <1>3, Zenon DEF ServeDescribeCapabilities

LEMMA SessionInv ==
  ASSUME ServerInv, NEW c \in Caller, ServeCreateSession(c)
  PROVE  ServerInv'
  <1> DEFINE x == [state |-> "ACTIVE"]
  <1>1. /\ phase = "serving" /\ call[c] = "sent" /\ pc[c] = "CreateSession"
        /\ Quietly /\ UNCHANGED <<task, job, granted, known>>
        /\ Answered(c, Message(<<x>>, <<>>), Message(<<SessionToProto(x)>>, errToProto(<<>>)))
    BY EachSingle DEF ServeCreateSession, Dispatch, farmVars, Respond, Answered
  <1>2. "ACTIVE" \in Names(sessionStateFromProto)
    <2>1. 2 \in DOMAIN sessionStateFromProto /\ sessionStateFromProto[2] = "ACTIVE"
      BY DEF sessionStateFromProto
    <2> QED
      BY <2>1 DEF Names
  <1>3. SessionFromProto(SessionToProto(x)) = x
    BY <1>2, SessionRoundTrip
  <1>4. Read(pc[c], Message(<<SessionToProto(x)>>, errToProto(<<>>))) = AsRemote(pc[c], Message(<<x>>, <<>>))
    BY <1>1, <1>3, SingleRead, NoErrors
  <1> QED
    BY <1>1, <1>4, QuietInv DEF ServerInv, TypeOK

LEMMA FarmHandlersInv ==
  ASSUME ServerInv, NEW c \in Caller,
         ServeSubmitTask(c) \/ ServeGetTask(c) \/ ServeCancelTask(c) \/ ServeListPool(c)
  PROVE  ServerInv'
  <1>1. /\ phase = "serving" /\ call[c] = "sent" /\ Quietly /\ UNCHANGED <<job, granted, known>>
        /\ pc[c] \in {"SubmitTask", "GetTask", "CancelTask", "ListPool"}
    BY DEF ServeSubmitTask, ServeGetTask, ServeCancelTask, ServeListPool, Dispatch, farmVars
  <1>2. task' \in [Caller -> {"NONE", "PENDING", "RUNNING", "SUCCEEDED", "CANCELLED"}]
    BY DEF ServeSubmitTask, ServeGetTask, ServeCancelTask, ServeListPool, farmVars, ServerInv, TypeOK
  <1>3. ASSUME NEW v, Respond(c, AsIs, <<v>>, <<>>) PROVE ServerInv'
    <2>1. Answered(c, Message(<<v>>, <<>>), Message(<<v>>, errToProto(<<>>)))
      BY <1>3, EachSingle DEF Respond, Answered
    <2>2. Read(pc[c], Message(<<v>>, errToProto(<<>>))) = AsRemote(pc[c], Message(<<v>>, <<>>))
      BY <1>1, SingleRead, NoErrors
    <2> QED
      BY <1>1, <1>2, <2>1, <2>2, QuietInv DEF ServerInv, TypeOK
  <1>4. ASSUME NEW e, Errors(e), Respond(c, AsIs, <<>>, e) PROVE ServerInv'
    <2>1. Answered(c, Message(<<>>, e), Message(<<>>, errToProto(e)))
      BY <1>4 DEF Respond, Answered, Each
    <2> QED
      BY <1>1, <1>2, <1>4, <2>1, EmptyRead, QuietInv DEF ServerInv, TypeOK
  <1>5. CASE ServeSubmitTask(c)
    BY <1>3, <1>5 DEF ServeSubmitTask
  <1>6. CASE ServeGetTask(c)
    BY <1>3, <1>6 DEF ServeGetTask
  <1>7. CASE ServeCancelTask(c)
    BY <1>4, <1>7, NoErrors DEF ServeCancelTask
  <1>8. CASE ServeListPool(c)
    BY <1>3, <1>8 DEF ServeListPool
  <1> QED
    BY <1>5, <1>6, <1>7, <1>8

-----------------------------------------------------------------------------
(* Execute *)

\* A result that may be recorded crosses the wire.
LEMMA OutcomeRoundTrip ==
  ASSUME NEW r \in Outcome
  PROVE  OperationResultFromProto(OperationResultToProto(r)) = r
  <1>1. \A n \in 1..15 : n \in DOMAIN operationStateFromProto
    BY DEF operationStateFromProto
  <1>2. /\ operationStateFromProto[7] = "SUCCEEDED"
        /\ operationStateFromProto[8] = "VALIDATION_FAILED"
        /\ operationStateFromProto[9] = "RESOURCE_FAILED"
        /\ operationStateFromProto[10] = "RESOLVE_FAILED"
        /\ operationStateFromProto[11] = "RUN_FAILED"
        /\ operationStateFromProto[12] = "VERIFY_FAILED"
        /\ operationStateFromProto[13] = "CANCELLED"
        /\ operationStateFromProto[15] = "UNKNOWN"
    BY DEF operationStateFromProto
  <1>3. Terminal \subseteq Names(operationStateFromProto)
    BY <1>1, <1>2 DEF Terminal, Names
  <1>4. r \in [state : Names(operationStateFromProto), error : Seq(Names(errorCategoryFromProto))]
    BY <1>3, RemoteAssumption
  <1> QED
    BY <1>4, ResultRoundTrip

LEMMA ReturnedAnswer ==
  ASSUME ServerInv, NEW c \in Caller, pc[c] = "Execute", UNCHANGED <<pc, told>>,
         NEW r \in Outcome, NEW error, Errors(error), Returned(c, r, error)
  PROVE  /\ Functions' /\ WireIsLocal'
         /\ call' = [call EXCEPT ![c] = "answered"]
         /\ local'[c].values[1].state = r.state
         /\ \A d \in Caller \ {c} : local'[d] = local[d]
  <1> DEFINE y == OperationResultToProto(r)
             m == Message(<<y>>, errToProto(error))
             a == Message(<<r>>, error)
  <1>1. Answered(c, a, m)
    BY EachSingle DEF Returned, Respond, Answered
  <1>2. OperationResultFromProto(y) = r
    BY OutcomeRoundTrip
  <1> HIDE DEF y
  <1>3. Read(pc[c], m) = AsRemote(pc[c], a)
    BY <1>2, SingleRead
  <1>4. a.values[1].state = r.state
    BY DEF Message
  <1> HIDE DEF a, m
  <1> QED
    BY <1>1, <1>3, <1>4, RespondRead

\* The three things that become of an execution that ends now.
RecordedStep(c) ==
  /\ state[Key[c]] \in Terminal
  /\ ReturnRecorded(c) /\ UNCHANGED <<state, result>>
FailStep(c) == \E r \in Outcome : Fail(c, r)

LEMMA RecordedInv ==
  ASSUME ServerInv, NEW c \in Exec, pc[c] = "Execute", UNCHANGED <<pc, told>>, RecordedStep(c)
  PROVE  /\ Functions' /\ WireIsLocal' /\ HasResult'
         /\ call' = [call EXCEPT ![c] = "answered"]
         /\ local'[c].values[1].state = result[Key[c]][1].state
         /\ \A d \in Caller \ {c} : local'[d] = local[d]
  <1>1. PICK r \in Outcome : result[Key[c]] = <<r>>
    BY KeyTyped DEF ServerInv, TypeOK, HasResult, RecordedStep, Nothing
  <1>2. Returned(c, r, <<Plain>>)
    BY <1>1 DEF RecordedStep, ReturnRecorded
  <1>3. HasResult'
    BY DEF ServerInv, HasResult, RecordedStep
  <1>4. result[Key[c]][1].state = r.state
    BY <1>1
  <1>5. /\ Functions' /\ WireIsLocal'
        /\ call' = [call EXCEPT ![c] = "answered"]
        /\ local'[c].values[1].state = r.state
        /\ \A d \in Caller \ {c} : local'[d] = local[d]
    BY <1>2, NoErrors, ReturnedAnswer DEF Exec
  <1> QED
    BY <1>3, <1>4, <1>5

LEMMA FailInv ==
  ASSUME ServerInv, NEW c \in Exec, pc[c] = "Execute", UNCHANGED <<pc, told>>,
         NEW r \in Outcome, Fail(c, r)
  PROVE  /\ Functions' /\ WireIsLocal' /\ HasResult'
         /\ call' = [call EXCEPT ![c] = "answered"]
         /\ result' = [result EXCEPT ![Key[c]] = <<r>>]
         /\ state' = [state EXCEPT ![Key[c]] = IF state[Key[c]] \in Terminal THEN state[Key[c]] ELSE r.state]
         /\ state' \in [Keys -> {"NONE", "OPEN"} \cup Terminal]
         /\ result' \in [Keys -> {Nothing} \cup {<<q>> : q \in Outcome}]
         /\ local'[c].values[1].state = r.state
         /\ \A d \in Caller \ {c} : local'[d] = local[d]
  <1>1. /\ result' = [result EXCEPT ![Key[c]] = <<r>>]
        /\ state' = [state EXCEPT ![Key[c]] = IF state[Key[c]] \in Terminal THEN state[Key[c]] ELSE r.state]
        /\ Returned(c, r, r.error)
    BY DEF Fail
  <1>2. r.state \in Terminal /\ Errors(r.error)
    <2>1. r.state \in Terminal /\ r.error \in Seq(Names(errorCategoryFromProto))
      BY RemoteAssumption
    <2>2. \A i \in DOMAIN r.error : r.error[i] \in Names(errorCategoryFromProto)
      BY <2>1, ElementOfSeq, LenProperties
    <2> QED
      BY <2>1, <2>2 DEF Errors
  <1>3. state' \in [Keys -> {"NONE", "OPEN"} \cup Terminal]
    BY <1>1, <1>2 DEF ServerInv, TypeOK
  <1>4. result' \in [Keys -> {Nothing} \cup {<<q>> : q \in Outcome}]
    BY <1>1 DEF ServerInv, TypeOK
  <1>5. HasResult'
    BY <1>1, KeyTyped DEF ServerInv, TypeOK, HasResult, Nothing
  <1>6. /\ Functions' /\ WireIsLocal'
        /\ call' = [call EXCEPT ![c] = "answered"]
        /\ local'[c].values[1].state = r.state
        /\ \A d \in Caller \ {c} : local'[d] = local[d]
    BY <1>1, <1>2, ReturnedAnswer DEF Exec
  <1> QED
    BY <1>1, <1>3, <1>4, <1>5, <1>6

\* The caller of an execution that begins or goes on is at work, or has its
\* answer, and the lease is its own or nobody's when it was.
LEMMA ExecutionInv ==
  ASSUME ServerInv, NEW c \in Exec, EngineOnly, pc[c] = "Execute",
         phase = "serving" \/ c \in AtWork,
         NEW s \in {"waiting", "working", "answered"}, call' = [call EXCEPT ![c] = s],
         Functions', WireIsLocal', HasResult',
         state' \in [Keys -> {"NONE", "OPEN"} \cup Terminal],
         result' \in [Keys -> {Nothing} \cup {<<q>> : q \in Outcome}],
         worked' \in {worked, worked \cup {c}}, overlapped' \subseteq Keys,
         \/ lease' = "free"
         \/ lease' = c /\ s = "working"
         \/ lease' = lease /\ (lease # c \/ call[c] # "working")
  PROVE  ServerInv'
  <1>0. UNCHANGED <<pc, gone, told, phase, known, task, job, granted, expired>>
    BY DEF EngineOnly, farmVars
  <1>1. TypeOK'
    BY <1>0 DEF ServerInv, TypeOK, Exec
  <1>2. \A d \in Caller \ {c} : call'[d] = call[d]
    BY DEF ServerInv, TypeOK
  <1>3. LeaseOwned' /\ GrantedWork'
    BY <1>0, <1>2 DEF ServerInv, TypeOK, LeaseOwned, GrantedWork, Exec
  <1>4. AtWork' \subseteq AtWork \cup {c}
    BY <1>2 DEF AtWork
  <1>5. ExecAtWork'
    BY <1>0, <1>4 DEF ServerInv, ExecAtWork, Exec
  <1>6. phase # "serving" => phase \in {"draining"}
    BY DEF ServerInv, TypeOK, Phase, ClosedAfterWork
  <1>7. ClosedAfterWork'
    BY <1>0, <1>6 DEF ClosedAfterWork
  <1> QED
    BY <1>1, <1>3, <1>5, <1>7 DEF ServerInv

LEMMA BeginInv ==
  ASSUME ServerInv, NEW c \in Exec, pc[c] = "Execute", phase = "serving", call[c] = "sent",
         Begin(c), UNCHANGED <<lease, worked>>, EngineOnly
  PROVE  ServerInv'
  <1>1. UNCHANGED <<pc, told>> /\ c \in Caller
    BY DEF EngineOnly, Exec
  <1>2. overlapped' \subseteq Keys
    <2>1. \A d \in AtWork : Key[d] \in Keys
      BY KeyTyped DEF ServerInv, ExecAtWork, AtWork
    <2> QED
      BY <2>1 DEF Begin, ServerInv, TypeOK
  <1>3. ASSUME NEW r \in Outcome, Fail(c, r) PROVE ServerInv'
    BY <1>1, <1>2, <1>3, FailInv, ExecutionInv
  <1>4. ASSUME call' = [call EXCEPT ![c] = "waiting"],
               state' = [state EXCEPT ![Key[c]] = "OPEN"],
               UNCHANGED <<result, wire, local>>
        PROVE  ServerInv'
    <2>1. Functions'
      BY <1>1, <1>4 DEF ServerInv, Functions
    <2>2. HasResult'
      BY <1>4, KeyTyped DEF ServerInv, TypeOK, HasResult, Terminal
    <2>3. WireIsLocal'
      BY <1>1, <1>4 DEF ServerInv, TypeOK, WireIsLocal
    <2>4. /\ state' \in [Keys -> {"NONE", "OPEN"} \cup Terminal]
          /\ result' \in [Keys -> {Nothing} \cup {<<q>> : q \in Outcome}]
      BY <1>4 DEF ServerInv, TypeOK
    <2> QED
      BY <1>1, <1>2, <1>4, <2>1, <2>2, <2>3, <2>4, ExecutionInv
  <1> QED
    BY <1>3, <1>4 DEF Begin

LEMMA ExecuteHandlerInv ==
  ASSUME ServerInv, NEW c \in Caller, ServeExecute(c) \/ Expire(c) \/ Grant(c) \/ End(c)
  PROVE  ServerInv'
  <1>0. /\ EngineOnly /\ UNCHANGED <<pc, told>> /\ pc[c] = "Execute" /\ c \in Exec
        /\ phase = "serving" \/ c \in AtWork
    BY DEF ServeExecute, Expire, Grant, End, EngineOnly, Dispatch, AtWork, ServerInv, ExecAtWork
  <1>1. /\ state \in [Keys -> {"NONE", "OPEN"} \cup Terminal]
        /\ result \in [Keys -> {Nothing} \cup {<<q>> : q \in Outcome}]
        /\ overlapped \subseteq Keys
    BY DEF ServerInv, TypeOK
  <1>2. ASSUME RecordedStep(c), UNCHANGED <<worked, overlapped>>,
               lease' = "free" \/ (UNCHANGED lease /\ (lease # c \/ call[c] # "working"))
        PROVE  ServerInv'
    BY <1>0, <1>1, <1>2, RecordedInv, ExecutionInv DEF RecordedStep
  <1>3. ASSUME NEW r \in Outcome, Fail(c, r), UNCHANGED <<worked, overlapped>>,
               lease' = "free" \/ (UNCHANGED lease /\ (lease # c \/ call[c] # "working"))
        PROVE  ServerInv'
    BY <1>0, <1>1, <1>3, FailInv, ExecutionInv
  <1>4. CASE ServeExecute(c)
    <2>1. CASE state[Key[c]] \in Terminal
      BY <1>2, <1>4, <2>1 DEF ServeExecute, RecordedStep, Dispatch
    <2>2. CASE state[Key[c]] \notin Terminal
      BY <1>0, <1>4, <2>2, BeginInv DEF ServeExecute, Dispatch
    <2> QED
      BY <2>1, <2>2
  <1>5. CASE Expire(c)
    BY <1>3, <1>5 DEF Expire
  <1>6. CASE Grant(c)
    <2>1. CASE state[Key[c]] \in Terminal
      BY <1>2, <1>6, <2>1 DEF Grant, RecordedStep
    <2>2. CASE state[Key[c]] \notin Terminal
      <3>1. /\ lease' = c /\ worked' = worked \cup {c}
            /\ call' = [call EXCEPT ![c] = "working"]
            /\ UNCHANGED <<wire, local, state, result, overlapped>>
        BY <1>6, <2>2 DEF Grant
      <3>2. Functions' /\ HasResult'
        BY <1>0, <3>1 DEF ServerInv, Functions, HasResult
      <3>3. WireIsLocal'
        BY <1>0, <3>1 DEF ServerInv, TypeOK, WireIsLocal
      <3> QED
        BY <1>0, <1>1, <3>1, <3>2, <3>3, ExecutionInv
    <2> QED
      BY <2>1, <2>2
  <1>7. CASE End(c)
    <2>1. RecordedStep(c) \/ \E r \in Outcome : Fail(c, r)
      BY <1>7 DEF End, RecordedStep
    <2>2. /\ lease' = "free" \/ (UNCHANGED lease /\ lease # c)
          /\ UNCHANGED <<worked, overlapped>>
      BY <1>7 DEF End
    <2> QED
      BY <1>2, <1>3, <2>1, <2>2
  <1> QED
    BY <1>4, <1>5, <1>6, <1>7

-----------------------------------------------------------------------------
(* Workers, shutdown and clients *)

LEMMA WorkInv ==
  ASSUME ServerInv, NEW w \in Worker, Work(w)
  PROVE  ServerInv'
  <1>0. FarmOnly
    BY DEF Work, Take, TaskGetsLease, TaskEnds, WorkerExits
  <1>1. /\ UNCHANGED <<pc, call, wire, gone, told, phase, known, local, state, result, worked, overlapped, expired>>
        /\ AtWork' = AtWork
    BY <1>0 DEF FarmOnly, callerVars, AtWork
  <1>2. TypeOK'
    <2>1. /\ lease' \in {"free"} \cup Caller \cup Worker
          /\ task' \in [Caller -> {"NONE", "PENDING", "RUNNING", "SUCCEEDED", "CANCELLED"}]
          /\ job' \in [Worker -> Caller \cup {"idle", "exit"}] /\ granted' \subseteq Worker
      BY DEF Work, Take, TaskGetsLease, TaskEnds, WorkerExits, ServerInv, TypeOK
    <2> QED
      BY <1>1, <2>1 DEF ServerInv, TypeOK
  <1>3. Functions' /\ HasResult' /\ ExecAtWork'
    BY <1>1 DEF ServerInv, Functions, HasResult, ExecAtWork, Exec
  <1>4. WireIsLocal'
    BY <1>1 DEF ServerInv, WireIsLocal
  <1>5. LeaseOwned' /\ GrantedWork'
    <2>1. CASE Take(w)
      BY <1>1, <2>1, RemoteAssumption DEF Take, ServerInv, TypeOK, LeaseOwned, GrantedWork
    <2>2. CASE TaskGetsLease(w)
      BY <1>1, <2>2 DEF TaskGetsLease, ServerInv, GrantedWork, LeaseOwned
    <2>3. CASE TaskEnds(w)
      BY <1>1, <2>3 DEF TaskEnds, ServerInv, TypeOK, LeaseOwned, GrantedWork
    <2>4. CASE WorkerExits(w)
      BY <1>1, <2>4, RemoteAssumption DEF WorkerExits, ServerInv, TypeOK, LeaseOwned, GrantedWork
    <2> QED
      BY <2>1, <2>2, <2>3, <2>4 DEF Work
  <1>6. ClosedAfterWork'
    BY <1>1, RemoteAssumption
       DEF Work, Take, TaskGetsLease, TaskEnds, WorkerExits, ServerInv, TypeOK, ClosedAfterWork, GrantedWork
  <1> QED
    BY <1>2, <1>3, <1>4, <1>5, <1>6 DEF ServerInv

LEMMA ExpiryInv ==
  ASSUME ServerInv, LeaseExpires
  PROVE  ServerInv'
  <1>1. /\ UNCHANGED <<pc, call, wire, gone, told, phase, known, state, result, worked, overlapped,
                       task, job, granted, local>>
        /\ lease' = "free" /\ expired' = TRUE
        /\ AtWork' = AtWork
    BY DEF LeaseExpires, callerVars, farmVars, AtWork
  <1>2. TypeOK' /\ Functions' /\ HasResult' /\ LeaseOwned' /\ GrantedWork'
    BY <1>1 DEF ServerInv, TypeOK, Functions, HasResult, LeaseOwned, GrantedWork
  <1>3. ExecAtWork' /\ ClosedAfterWork'
    BY <1>1 DEF ServerInv, ExecAtWork, Exec, ClosedAfterWork
  <1>4. WireIsLocal'
    BY <1>1 DEF ServerInv, WireIsLocal
  <1> QED
    BY <1>2, <1>3, <1>4 DEF ServerInv

LEMMA ShutdownInv ==
  ASSUME ServerInv, Interrupt \/ Serve
  PROVE  ServerInv'
  <1>0. ServerOnly
    BY DEF Interrupt, Serve, Drained, CloseRuntime
  <1>1. /\ UNCHANGED <<pc, call, wire, gone, told, known, state, result, lease, worked, overlapped,
                       expired, task, job, granted, local>>
        /\ AtWork' = AtWork
    BY <1>0 DEF ServerOnly, callerVars, engineVars, farmVars, AtWork
  <1>2. TypeOK'
    BY <1>1 DEF Interrupt, Serve, Drained, CloseRuntime, ServerInv, TypeOK, Phase
  <1>3. Functions' /\ HasResult' /\ LeaseOwned' /\ GrantedWork' /\ ExecAtWork'
    BY <1>1 DEF ServerInv, Functions, HasResult, LeaseOwned, GrantedWork, ExecAtWork, Exec
  <1>4. WireIsLocal'
    BY <1>1 DEF ServerInv, WireIsLocal
  <1>5. ClosedAfterWork'
    <2>1. CASE Interrupt \/ Drained
      BY <1>1, <2>1 DEF Interrupt, Drained, ClosedAfterWork
    <2>2. CASE CloseRuntime
      <3>1. AtWork = {} /\ \A w \in Worker : job[w] = "exit"
        BY <2>2 DEF CloseRuntime, ServerInv, ClosedAfterWork
      <3>2. lease = "free"
        BY <3>1, RemoteAssumption DEF ServerInv, TypeOK, LeaseOwned, GrantedWork, AtWork
      <3> QED
        BY <1>1, <3>1, <3>2 DEF ClosedAfterWork
    <2> QED
      BY <2>1, <2>2 DEF Serve
  <1> QED
    BY <1>2, <1>3, <1>4, <1>5 DEF ServerInv

\* What a client does changes its own place only, and leaves it with no
\* response: it has a new RPC under way, or its program has ended.
LEMMA ClientInv ==
  ASSUME ServerInv, NEW c \in Caller, RuntimeOnly, c \notin AtWork,
         NEW p \in RPC \cup {"done", "over"}, NEW s \in {"none", "sent"},
         p \in {"CreateSession", "Execute", "done"} => c \in Exec,
         pc' = [pc EXCEPT ![c] = p], call' = [call EXCEPT ![c] = s],
         wire' = [wire EXCEPT ![c] = Nothing], NEW m, told' = [told EXCEPT ![c] = m],
         gone' \subseteq Caller
  PROVE  ServerInv'
  <1>1. UNCHANGED <<phase, known, state, result, lease, worked, overlapped, expired, task, job, granted, local>>
    BY DEF RuntimeOnly, engineVars, farmVars
  <1>2. TypeOK'
    BY <1>1 DEF ServerInv, TypeOK
  <1>3. Functions' /\ HasResult'
    BY <1>1 DEF ServerInv, Functions, HasResult
  <1>4. \A d \in Caller \ {c} : pc'[d] = pc[d] /\ call'[d] = call[d] /\ wire'[d] = wire[d]
    BY DEF ServerInv, TypeOK, Functions
  <1>5. pc'[c] = p /\ call'[c] = s
    BY DEF ServerInv, TypeOK
  <1>6. AtWork' = AtWork
    BY <1>4, <1>5 DEF AtWork
  <1>7. LeaseOwned' /\ GrantedWork'
    BY <1>1, <1>4 DEF ServerInv, LeaseOwned, GrantedWork, AtWork
  <1>8. ExecAtWork'
    BY <1>1, <1>4, <1>5, <1>6 DEF ServerInv, ExecAtWork, Exec, AtWork
  <1>9. WireIsLocal'
    <2> SUFFICES ASSUME NEW d \in Caller, call'[d] = "answered"
                 PROVE  Read(pc'[d], wire'[d]) = AsRemote(pc'[d], local'[d])
      BY Zenon DEF WireIsLocal
    <2> QED
      BY <1>1, <1>4, <1>5 DEF ServerInv, WireIsLocal
  <1>10. ClosedAfterWork'
    BY <1>1, <1>6 DEF ServerInv, ClosedAfterWork
  <1> QED
    BY <1>2, <1>3, <1>7, <1>8, <1>9, <1>10 DEF ServerInv

\* The method of the client that gets the response returns what it reads.
LEMMA ReceiveAnswer ==
  ASSUME ServerInv, NEW c \in Caller, Receive(c)
  PROVE  /\ ServerInv'
         /\ told'[c] = AsRemote(pc[c], local[c])
         /\ call[c] = "answered" /\ pc[c] \in RPC
         /\ pc'[c] = "done" => pc[c] = "Execute"
         /\ call'[c] \in {"none", "sent"}
         /\ \A d \in Caller \ {c} : pc'[d] = pc[d] /\ call'[d] = call[d] /\ told'[d] = told[d]
         /\ UNCHANGED gone /\ RuntimeOnly
  <1>1. call[c] = "answered" /\ pc[c] \in RPC /\ c \notin AtWork /\ RuntimeOnly
    BY DEF Receive, ListDevices, Discover, DescribeCapabilities, CreateSession, Execute, SubmitTask,
           GetTask, CancelTask, ListPool, Arrived, RPC, AtWork
  <1>2. told' = [told EXCEPT ![c] = Read(pc[c], wire[c])] /\ UNCHANGED gone
    <2>1. CASE ListDevices(c) \/ Discover(c)
      BY <2>1 DEF ListDevices, Discover, Arrived, Tell, Read
    <2>2. CASE DescribeCapabilities(c)
      BY <2>2 DEF DescribeCapabilities, Arrived, Tell, Read
    <2>3. CASE CreateSession(c)
      BY <2>3 DEF CreateSession, Arrived, Tell, Read
    <2>4. CASE Execute(c)
      BY <2>4 DEF Execute, Arrived, Tell, Read
    <2>5. CASE SubmitTask(c) \/ GetTask(c) \/ CancelTask(c) \/ ListPool(c)
      BY <2>5 DEF SubmitTask, GetTask, CancelTask, ListPool, Arrived, Tell, Read
    <2> QED
      BY <2>1, <2>2, <2>3, <2>4, <2>5 DEF Receive
  <1>3. told' = [told EXCEPT ![c] = AsRemote(pc[c], local[c])] /\ UNCHANGED gone
    BY <1>1, <1>2 DEF ServerInv, WireIsLocal
  <1>4. \/ \E rpc \in RPC : Invoke(c, rpc) /\ (rpc \in {"CreateSession", "Execute"} => c \in Exec)
        \/ \E how \in {"done", "over"} : Leave(c, how) /\ (how = "done" => pc[c] = "Execute")
    BY DEF Receive, ListDevices, Discover, DescribeCapabilities, CreateSession, Execute, SubmitTask,
           GetTask, CancelTask, ListPool, Arrived, FindDevice, Found, RPC, Exec, ServerInv, ExecAtWork
  <1>5. PICK p \in RPC \cup {"done", "over"}, s \in {"none", "sent"} :
          /\ pc' = [pc EXCEPT ![c] = p] /\ call' = [call EXCEPT ![c] = s]
          /\ wire' = [wire EXCEPT ![c] = Nothing]
          /\ p \in {"CreateSession", "Execute"} => c \in Exec
          /\ p = "done" => pc[c] = "Execute"
    BY <1>4 DEF Invoke, Leave, RPC
  <1>6. pc[c] = "Execute" => c \in Exec
    BY DEF ServerInv, ExecAtWork
  <1>7. ServerInv'
    BY <1>1, <1>3, <1>5, <1>6, ClientInv DEF ServerInv, TypeOK
  <1> QED
    BY <1>1, <1>3, <1>5, <1>7 DEF ServerInv, TypeOK, Functions

LEMMA BreakInv ==
  ASSUME ServerInv, NEW c \in Caller, Break(c)
  PROVE  /\ ServerInv'
         /\ told'[c] = Lost
         /\ pc'[c] # "done" /\ pc[c] # "done"
         /\ call'[c] = call[c] \/ (call'[c] \in {"none", "sent"} /\ c \notin AtWork)
         /\ call'[c] = "answered" => UNCHANGED <<pc, call>>
         /\ \A d \in Caller \ {c} : pc'[d] = pc[d] /\ call'[d] = call[d] /\ told'[d] = told[d]
         /\ RuntimeOnly
  <1>1. pc[c] \in RPC /\ told' = [told EXCEPT ![c] = Lost] /\ RuntimeOnly /\ pc[c] # "done"
    BY DEF Break, RPC
  <1>2. told'[c] = Lost /\ \A d \in Caller \ {c} : told'[d] = told[d]
    BY <1>1 DEF ServerInv, Functions
  <1>3. CASE pc[c] \in {"Execute", "SubmitTask"}
    <2>1. gone' = gone \cup {c} /\ UNCHANGED <<pc, call, wire>>
      BY <1>3 DEF Break
    <2>2. UNCHANGED <<phase, known, state, result, lease, worked, overlapped, expired, task, job, granted, local>>
      BY <1>1 DEF RuntimeOnly, engineVars, farmVars
    <2>3. TypeOK' /\ Functions' /\ HasResult' /\ LeaseOwned' /\ GrantedWork'
      BY <1>1, <2>1, <2>2 DEF ServerInv, TypeOK, Functions, HasResult, LeaseOwned, GrantedWork
    <2>4. ExecAtWork' /\ ClosedAfterWork'
      BY <2>1, <2>2 DEF ServerInv, ExecAtWork, Exec, AtWork, ClosedAfterWork
    <2>5. WireIsLocal'
      BY <2>1, <2>2 DEF ServerInv, WireIsLocal
    <2> QED
      BY <1>1, <1>2, <2>1, <2>3, <2>4, <2>5 DEF ServerInv
  <1>4. CASE pc[c] \notin {"Execute", "SubmitTask"}
    <2>1. c \notin AtWork /\ gone' = gone
      BY <1>4 DEF ServerInv, ExecAtWork, Break
    <2>2. \/ pc[c] = "ListDevices" /\ Invoke(c, "Discover")
          \/ pc[c] # "ListDevices" /\ Leave(c, "over")
      BY <1>4 DEF Break
    <2>3. PICK p \in {"Discover", "over"}, s \in {"none", "sent"} :
          /\ pc' = [pc EXCEPT ![c] = p] /\ call' = [call EXCEPT ![c] = s]
          /\ wire' = [wire EXCEPT ![c] = Nothing]
      BY <2>2 DEF Invoke, Leave
    <2>4. ServerInv'
      BY <1>1, <2>1, <2>3, ClientInv DEF ServerInv, TypeOK, RPC
    <2> QED
      BY <1>1, <1>2, <2>1, <2>3, <2>4 DEF ServerInv, TypeOK
  <1> QED
    BY <1>3, <1>4

LEMMA StutterServerInv == ServerInv /\ UNCHANGED vars => ServerInv'
  <1> SUFFICES ASSUME ServerInv, UNCHANGED vars PROVE ServerInv'
    OBVIOUS
  <1>1. /\ UNCHANGED <<pc, call, wire, gone, told, phase, known, state, result, lease, worked,
                       overlapped, expired, task, job, granted, local>>
        /\ AtWork' = AtWork
    BY DEF vars, callerVars, engineVars, farmVars, AtWork
  <1>2. TypeOK' /\ Functions' /\ HasResult' /\ LeaseOwned' /\ GrantedWork'
    BY <1>1 DEF ServerInv, TypeOK, Functions, HasResult, LeaseOwned, GrantedWork
  <1>3. ExecAtWork' /\ ClosedAfterWork'
    BY <1>1 DEF ServerInv, ExecAtWork, Exec, ClosedAfterWork
  <1>4. WireIsLocal'
    BY <1>1 DEF ServerInv, WireIsLocal
  <1> QED
    BY <1>2, <1>3, <1>4 DEF ServerInv

LEMMA NextServerInv == ServerInv /\ [Next]_vars => ServerInv'
  <1> SUFFICES ASSUME ServerInv, [Next]_vars PROVE ServerInv'
    OBVIOUS
  <1>1. ASSUME NEW c \in Caller, Handle(c) PROVE ServerInv'
    BY <1>1, DiscoveryHandlersInv, CapabilitiesInv, SessionInv, ExecuteHandlerInv, FarmHandlersInv
       DEF Handle
  <1>2. ASSUME NEW c \in Caller, Receive(c) \/ Break(c) PROVE ServerInv'
    BY <1>2, ReceiveAnswer, BreakInv
  <1>3. ASSUME NEW w \in Worker, Work(w) PROVE ServerInv'
    BY <1>3, WorkInv
  <1>4. CASE LeaseExpires \/ Interrupt \/ Serve
    BY <1>4, ExpiryInv, ShutdownInv
  <1>5. CASE UNCHANGED vars
    BY <1>5, StutterServerInv
  <1> QED
    BY <1>1, <1>2, <1>3, <1>4, <1>5 DEF Next

\* The inductive invariant of the runtime behind gRPC (server.go, main.go).
THEOREM ServerInvariant == Spec => []ServerInv
  <1> QED
    BY InitServerInv, NextServerInv, PTL DEF Spec

\* Type correctness of callers, server and shutdown.
THEOREM RemoteTypeCorrect == Spec => []TypeOK
  <1>1. ServerInv => TypeOK
    BY DEF ServerInv
  <1> QED
    BY <1>1, ServerInvariant, PTL

\* The links to the devices are closed when nothing is at work any more.
THEOREM ClosedAfterWorkHolds == Spec => []ClosedAfterWork
  <1>1. ServerInv => ClosedAfterWork
    BY DEF ServerInv
  <1> QED
    BY <1>1, ServerInvariant, PTL

LEMMA HandleKeeps ==
  ASSUME NEW c \in Caller, Handle(c)
  PROVE  UNCHANGED <<pc, gone, told>>
  BY DEF Handle, ServeListDevices, ServeDiscover, ServeDescribeCapabilities, ServeCreateSession,
         ServeExecute, Expire, Grant, End, ServeSubmitTask, ServeGetTask, ServeCancelTask,
         ServeListPool, Quietly, EngineOnly

LEMMA OthersKeep ==
  ASSUME (\E w \in Worker : Work(w)) \/ LeaseExpires \/ Interrupt \/ Serve
  PROVE  UNCHANGED <<pc, call, told, state, result, worked, overlapped, local>>
  BY DEF LeaseExpires, Work, Take, TaskGetsLease, TaskEnds, WorkerExits, FarmOnly, Interrupt, Serve, Drained,
         CloseRuntime, ServerOnly, callerVars, engineVars

\* The remote client returns what the in-process client has returned to the handler,
\* but for the hardware ID of a device and for errors without a category, or the
\* error of a broken connection (convert.go:172, server.go:237).
THEOREM AnswersAreTranslated == Spec => AnswerIsTranslated
  <1> DEFINE Faithful ==
               \A c \in Caller : GoesOn(c) => told'[c] = Lost \/ told'[c] = AsRemote(pc[c], local[c])
  <1>1. ServerInv /\ [Next]_vars => [Faithful]_vars
    <2> SUFFICES ASSUME ServerInv, Next PROVE Faithful
      OBVIOUS
    <2>1. ASSUME NEW d \in Caller, Handle(d) PROVE Faithful
      BY <2>1, HandleKeeps DEF GoesOn
    <2>2. ASSUME NEW d \in Caller, Receive(d) PROVE Faithful
      BY <2>2, ReceiveAnswer DEF GoesOn
    <2>3. ASSUME NEW d \in Caller, Break(d) PROVE Faithful
      BY <2>3, BreakInv DEF GoesOn
    <2>4. CASE (\E w \in Worker : Work(w)) \/ LeaseExpires \/ Interrupt \/ Serve
      BY <2>4, OthersKeep DEF GoesOn
    <2> QED
      BY <2>1, <2>2, <2>3, <2>4 DEF Next
  <1> QED
    BY <1>1, ServerInvariant, PTL DEF Spec, AnswerIsTranslated, Faithful

-----------------------------------------------------------------------------
(* One key, one outcome *)

\* The executions of a key that do not overlap: one at work at most, while the
\* operation is open; then one state, one result, one answer.
Decided(c) ==
  LET k == Key[c]
  IN  /\ c \in AtWork => /\ state[k] = "OPEN"
                         /\ \A d \in Exec \cap AtWork : Key[d] = k => d = c
      /\ c \in worked => c \in AtWork \/ state[k] \in Terminal
      /\ state[k] \in Terminal => result[k][1].state = state[k]
      /\ pc[c] = "Execute" /\ call[c] = "answered"
           => state[k] \in Terminal /\ local[c].values[1].state = state[k]
      /\ pc[c] = "done" => state[k] \in Terminal /\ told[c].values[1].state = state[k]
      /\ \A d \in Exec \ {c} : Key[d] = k => ~({c, d} \subseteq worked)

KeyInv == \A c \in Exec : Key[c] \notin overlapped => Decided(c)

LEMMA InitKeyInv == Init => KeyInv
  <1> SUFFICES ASSUME Init, NEW c \in Exec PROVE Decided(c)
    BY DEF KeyInv
  <1>1. c \in Caller /\ state[Key[c]] = "NONE" /\ worked = {}
    BY KeyTyped DEF Init, Exec
  <1>2. c \notin AtWork /\ pc[c] = "ListDevices" /\ "NONE" \notin Terminal
    BY <1>1 DEF Init, AtWork, Terminal
  <1> QED
    BY <1>1, <1>2 DEF Decided

\* A step of one execution: only its caller, its key and the lease change.
ExecutionStep(c) ==
  /\ UNCHANGED <<pc, told>>
  /\ overlapped \subseteq overlapped'
  /\ worked' \in {worked, worked \cup {c}}
  /\ \A d \in Caller \ {c} : call'[d] = call[d] /\ local'[d] = local[d]
  /\ \A k \in Keys \ {Key[c]} : state'[k] = state[k] /\ result'[k] = result[k]

LEMMA OtherKeyDecided ==
  ASSUME KeyInv, NEW c \in Exec, ExecutionStep(c),
         NEW d \in Exec, Key[d] # Key[c], Key[d] \notin overlapped'
  PROVE  Decided(d)'
  <1>1. Decided(d) /\ d # c
    BY DEF KeyInv, ExecutionStep
  <1>2. \A e \in Exec : Key[e] = Key[d] =>
          /\ e \in AtWork' <=> e \in AtWork
          /\ e \in worked' <=> e \in worked
    BY DEF ExecutionStep, AtWork, Exec
  <1>3. /\ state'[Key[d]] = state[Key[d]] /\ result'[Key[d]] = result[Key[d]]
        /\ pc'[d] = pc[d] /\ told'[d] = told[d] /\ call'[d] = call[d] /\ local'[d] = local[d]
    BY <1>1, KeyTyped DEF ExecutionStep, Exec
  <1> QED
    BY <1>1, <1>2, <1>3 DEF Decided

\* The operation was open, or not yet begun, and has ended now.
LEMMA EndDecides ==
  ASSUME KeyInv, ServerInv, NEW c \in Exec, ExecutionStep(c), pc[c] = "Execute",
         NEW r \in Outcome, Fail(c, r), UNCHANGED worked,
         state[Key[c]] \notin Terminal,
         \A d \in Exec \cap AtWork : Key[d] = Key[c] => d = c,
         NEW d \in Exec, Key[d] = Key[c], Key[c] \notin overlapped'
  PROVE  Decided(d)'
  <1>1. Key[c] \notin overlapped /\ UNCHANGED <<pc, told>> /\ c \in Caller /\ d \in Caller
    BY DEF ExecutionStep, Exec
  <1>2. /\ state'[Key[c]] = r.state /\ r.state \in Terminal /\ result'[Key[c]][1].state = r.state
        /\ call'[c] = "answered" /\ local'[c].values[1].state = r.state
    BY <1>1, FailInv, KeyTyped, RemoteAssumption DEF ServerInv, TypeOK
  <1>3. \A e \in Exec : Key[e] = Key[c] => Decided(e)
    BY <1>1 DEF KeyInv
  <1>4. \A e \in Exec : Key[e] = Key[c] => e \notin AtWork'
    BY <1>2 DEF ExecutionStep, AtWork, Exec
  <1>5. d # c => ~(pc[d] = "Execute" /\ call[d] = "answered")
    BY <1>3 DEF Decided
  <1>6. pc[d] # "done"
    BY <1>3 DEF Decided
  <1>7. \A e \in Exec \ {d} : Key[e] = Key[d] => ~({d, e} \subseteq worked)
    BY <1>3 DEF Decided
  <1>8. pc'[d] = "Execute" /\ call'[d] = "answered" => d = c
    BY <1>1, <1>5 DEF ExecutionStep
  <1> QED
    BY <1>1, <1>2, <1>4, <1>6, <1>7, <1>8 DEF Decided

\* The operation was terminal: its record is the answer.
LEMMA RecordDecides ==
  ASSUME KeyInv, ServerInv, NEW c \in Exec, ExecutionStep(c), pc[c] = "Execute",
         RecordedStep(c), UNCHANGED <<worked, overlapped>>,
         NEW d \in Exec, Key[d] = Key[c], Key[c] \notin overlapped'
  PROVE  Decided(d)'
  <1>1. Key[c] \notin overlapped /\ UNCHANGED <<pc, told>> /\ c \in Caller /\ d \in Caller
    BY DEF ExecutionStep, Exec
  <1>2. /\ state' = state /\ result' = result /\ state[Key[c]] \in Terminal
        /\ call'[c] = "answered" /\ local'[c].values[1].state = result[Key[c]][1].state
    BY <1>1, RecordedInv DEF RecordedStep, ServerInv, TypeOK
  <1>3. \A e \in Exec : Key[e] = Key[c] => Decided(e)
    BY <1>1 DEF KeyInv
  <1>4. \A e \in Exec : Key[e] = Key[c] => e \notin AtWork
    BY <1>2, <1>3 DEF Decided, Terminal
  <1>5. \A e \in Exec : Key[e] = Key[c] => e \notin AtWork'
    BY <1>2, <1>4 DEF ExecutionStep, AtWork, Exec
  <1>6. result[Key[c]][1].state = state[Key[c]]
    BY <1>2, <1>3 DEF Decided
  <1>7. pc[d] = "done" => told[d].values[1].state = state[Key[d]]
    BY <1>3 DEF Decided
  <1>8. pc[d] = "Execute" /\ call'[d] = "answered" => local'[d].values[1].state = state[Key[d]]
    <2>1. CASE d = c
      BY <1>2, <1>6, <2>1
    <2>2. CASE d # c
      BY <1>1, <1>3, <2>2 DEF Decided, ExecutionStep
    <2> QED
      BY <2>1, <2>2
  <1>9. \A e \in Exec \ {d} : Key[e] = Key[d] => ~({d, e} \subseteq worked)
    BY <1>3 DEF Decided
  <1> QED
    BY <1>1, <1>2, <1>5, <1>6, <1>7, <1>8, <1>9 DEF Decided

\* An execution goes to work, or on with it, when nobody else has the key.
LEMMA WorkDecides ==
  ASSUME KeyInv, ServerInv, NEW c \in Exec, ExecutionStep(c), pc[c] = "Execute",
         state'[Key[c]] = "OPEN", state[Key[c]] \notin Terminal,
         call'[c] \in {"waiting", "working"},
         \A d \in Exec \cap AtWork : Key[d] = Key[c] => d = c,
         NEW d \in Exec, Key[d] = Key[c], Key[c] \notin overlapped'
  PROVE  Decided(d)'
  <1>1. Key[c] \notin overlapped /\ UNCHANGED <<pc, told>> /\ c \in Caller /\ d \in Caller
    BY DEF ExecutionStep, Exec
  <1>2. \A e \in Exec : Key[e] = Key[c] => Decided(e)
    BY <1>1 DEF KeyInv
  <1>3. \A e \in Exec : Key[e] = Key[c] /\ e \in worked => e = c
    BY <1>2 DEF Decided
  <1>4. c \in AtWork' /\ \A e \in Exec : Key[e] = Key[c] /\ e \in AtWork' => e = c
    BY DEF ExecutionStep, AtWork, Exec
  <1>5. \A e \in Exec : Key[e] = Key[c] /\ e \in worked' => e = c
    BY <1>3 DEF ExecutionStep
  <1>6. pc[d] # "done" /\ ~(pc[d] = "Execute" /\ call'[d] = "answered")
    BY <1>2 DEF Decided, ExecutionStep, Exec
  <1>7. state'[Key[c]] \notin Terminal
    BY DEF Terminal
  <1> QED
    BY <1>1, <1>4, <1>5, <1>6, <1>7 DEF Decided

LEMMA BeginDecides ==
  ASSUME KeyInv, ServerInv, NEW c \in Exec, pc[c] = "Execute", call[c] = "sent",
         state[Key[c]] \notin Terminal, Begin(c), UNCHANGED worked, EngineOnly
  PROVE  KeyInv'
  <1>0. UNCHANGED <<pc, told>> /\ c \in Caller /\ c \notin AtWork
    BY DEF EngineOnly, Exec, AtWork
  <1>1. overlapped' = overlapped \cup {Key[d] : d \in {e \in AtWork : Key[e] = Key[c]}}
    BY DEF Begin
  <1>2. Key[c] \notin overlapped' => \A d \in Exec \cap AtWork : Key[d] # Key[c]
    BY <1>1
  <1>3. ASSUME NEW r \in Outcome, Fail(c, r) PROVE KeyInv'
    <2>1. ExecutionStep(c)
      <3>1. /\ result' = [result EXCEPT ![Key[c]] = <<r>>]
            /\ state' = [state EXCEPT ![Key[c]] = IF state[Key[c]] \in Terminal THEN state[Key[c]] ELSE r.state]
            /\ call' = [call EXCEPT ![c] = "answered"]
            /\ \A d \in Caller \ {c} : local'[d] = local[d]
        BY <1>0, <1>3, FailInv
      <3> QED
        BY <1>0, <1>1, <3>1 DEF ExecutionStep, ServerInv, TypeOK
    <2> SUFFICES ASSUME NEW d \in Exec, Key[d] \notin overlapped' PROVE Decided(d)'
      BY DEF KeyInv
    <2> QED
      BY <1>2, <1>3, <2>1, EndDecides, OtherKeyDecided
  <1>4. ASSUME call' = [call EXCEPT ![c] = "waiting"],
               state' = [state EXCEPT ![Key[c]] = "OPEN"],
               UNCHANGED <<result, wire, local>>
        PROVE  KeyInv'
    <2>1. ExecutionStep(c)
      BY <1>0, <1>1, <1>4 DEF ExecutionStep, ServerInv, TypeOK
    <2>2. state'[Key[c]] = "OPEN" /\ call'[c] = "waiting"
      BY <1>0, <1>4, KeyTyped DEF ServerInv, TypeOK
    <2> SUFFICES ASSUME NEW d \in Exec, Key[d] \notin overlapped' PROVE Decided(d)'
      BY DEF KeyInv
    <2> QED
      BY <1>2, <2>1, <2>2, WorkDecides, OtherKeyDecided
  <1> QED
    BY <1>3, <1>4 DEF Begin

LEMMA ExecuteHandlerKeyInv ==
  ASSUME KeyInv, ServerInv, NEW c \in Caller, ServeExecute(c) \/ Expire(c) \/ Grant(c) \/ End(c)
  PROVE  KeyInv'
  <1>0. /\ EngineOnly /\ UNCHANGED <<pc, told>> /\ pc[c] = "Execute" /\ c \in Exec
    BY DEF ServeExecute, Expire, Grant, End, EngineOnly, Dispatch, AtWork, ServerInv, ExecAtWork
  <1>1. ASSUME RecordedStep(c), UNCHANGED <<worked, overlapped>> PROVE KeyInv'
    <2>1. ExecutionStep(c)
      BY <1>0, <1>1, RecordedInv DEF ExecutionStep, RecordedStep, ServerInv, TypeOK
    <2> SUFFICES ASSUME NEW d \in Exec, Key[d] \notin overlapped' PROVE Decided(d)'
      BY DEF KeyInv
    <2> QED
      BY <1>0, <1>1, <2>1, RecordDecides, OtherKeyDecided
  <1>2. ASSUME c \in AtWork, Key[c] \notin overlapped
        PROVE  /\ state[Key[c]] = "OPEN" /\ state[Key[c]] \notin Terminal
               /\ \A d \in Exec \cap AtWork : Key[d] = Key[c] => d = c
    BY <1>0, <1>2 DEF KeyInv, Decided, Terminal
  <1>3. ASSUME c \in AtWork, NEW r \in Outcome, Fail(c, r), UNCHANGED <<worked, overlapped>>
        PROVE  KeyInv'
    <2>1. ExecutionStep(c)
      <3>1. /\ result' = [result EXCEPT ![Key[c]] = <<r>>]
            /\ state' = [state EXCEPT ![Key[c]] = IF state[Key[c]] \in Terminal THEN state[Key[c]] ELSE r.state]
            /\ call' = [call EXCEPT ![c] = "answered"]
            /\ \A d \in Caller \ {c} : local'[d] = local[d]
        BY <1>0, <1>3, FailInv
      <3> QED
        BY <1>0, <1>3, <3>1 DEF ExecutionStep, ServerInv, TypeOK
    <2> SUFFICES ASSUME NEW d \in Exec, Key[d] \notin overlapped' PROVE Decided(d)'
      BY DEF KeyInv
    <2> QED
      BY <1>0, <1>2, <1>3, <2>1, EndDecides, OtherKeyDecided
  <1>4. CASE ServeExecute(c)
    <2>1. CASE state[Key[c]] \in Terminal
      BY <1>1, <1>4, <2>1 DEF ServeExecute, RecordedStep
    <2>2. CASE state[Key[c]] \notin Terminal
      BY <1>0, <1>4, <2>2, BeginDecides DEF ServeExecute, Dispatch
    <2> QED
      BY <2>1, <2>2
  <1>5. CASE Expire(c)
    BY <1>3, <1>5 DEF Expire, AtWork
  <1>6. CASE Grant(c)
    <2>1. CASE state[Key[c]] \in Terminal
      BY <1>1, <1>6, <2>1 DEF Grant, RecordedStep
    <2>2. CASE state[Key[c]] \notin Terminal
      <3>1. /\ worked' = worked \cup {c}
            /\ call' = [call EXCEPT ![c] = "working"] /\ c \in AtWork
            /\ UNCHANGED <<local, state, result, overlapped>>
        BY <1>6, <2>2 DEF Grant, AtWork
      <3>2. ExecutionStep(c) /\ call'[c] = "working"
        BY <1>0, <3>1 DEF ExecutionStep, ServerInv, TypeOK
      <3> SUFFICES ASSUME NEW d \in Exec, Key[d] \notin overlapped' PROVE Decided(d)'
        BY DEF KeyInv
      <3> QED
        BY <1>0, <1>2, <3>1, <3>2, WorkDecides, OtherKeyDecided
    <2> QED
      BY <2>1, <2>2
  <1>7. CASE End(c)
    <2>1. RecordedStep(c) \/ \E r \in Outcome : Fail(c, r)
      BY <1>7 DEF End, RecordedStep
    <2>2. c \in AtWork /\ UNCHANGED <<worked, overlapped>>
      BY <1>7 DEF End, AtWork
    <2> QED
      BY <1>1, <1>3, <2>1, <2>2
  <1> QED
    BY <1>4, <1>5, <1>6, <1>7

\* A step that leaves the engine alone: what is new is the answer that a caller
\* of Execute has read.
LEMMA EngineUntouched ==
  ASSUME KeyInv, ServerInv, NEW c \in Caller, UNCHANGED <<state, result, worked, overlapped>>,
         \A d \in Caller \ {c} : /\ pc'[d] = pc[d] /\ call'[d] = call[d]
                                 /\ told'[d] = told[d] /\ local'[d] = local[d],
         c \notin AtWork \/ call'[c] = call[c], call'[c] \notin {"waiting", "working"} \/ c \in AtWork,
         pc'[c] = "Execute" /\ call'[c] = "answered" => UNCHANGED <<pc, call, local>>,
         pc'[c] = "done" => \/ UNCHANGED <<pc, told>>
                            \/ /\ pc[c] = "Execute" /\ call[c] = "answered"
                               /\ told'[c].values = local[c].values
  PROVE  KeyInv'
  <1> SUFFICES ASSUME NEW d \in Exec, Key[d] \notin overlapped PROVE Decided(d)'
    BY DEF KeyInv
  <1>1. Decided(d)
    BY DEF KeyInv
  <1>2. AtWork' = AtWork
    BY DEF AtWork
  <1>3. CASE d = c
    BY <1>1, <1>2, <1>3 DEF Decided
  <1>4. CASE d # c
    <2>1. pc'[d] = pc[d] /\ call'[d] = call[d] /\ told'[d] = told[d] /\ local'[d] = local[d]
      BY <1>4 DEF Exec
    <2> QED
      BY <1>1, <1>2, <2>1 DEF Decided
  <1> QED
    BY <1>3, <1>4

LEMMA NextKeyInv == KeyInv /\ ServerInv /\ [Next]_vars => KeyInv'
  <1> SUFFICES ASSUME KeyInv, ServerInv, [Next]_vars PROVE KeyInv'
    OBVIOUS
  <1>1. ASSUME NEW c \in Caller, Handle(c) PROVE KeyInv'
    <2>1. CASE ServeExecute(c) \/ Expire(c) \/ Grant(c) \/ End(c)
      BY <2>1, ExecuteHandlerKeyInv
    <2>2. CASE ~(ServeExecute(c) \/ Expire(c) \/ Grant(c) \/ End(c))
      <3>1. /\ Quietly /\ call[c] = "sent" /\ pc[c] # "Execute"
            /\ \E a, m : Answered(c, a, m)
        BY <1>1, <2>2
           DEF Handle, ServeListDevices, ServeDiscover, ServeDescribeCapabilities, ServeCreateSession,
               ServeSubmitTask, ServeGetTask, ServeCancelTask, ServeListPool, Dispatch, Devices,
               Respond, Answered
      <3>2. /\ UNCHANGED <<state, result, worked, overlapped, pc, told>>
            /\ c \notin AtWork /\ call' = [call EXCEPT ![c] = "answered"]
            /\ \A d \in Caller \ {c} : local'[d] = local[d]
        BY <3>1 DEF Quietly, engineVars, AtWork, Answered, ServerInv, Functions
      <3>3. call'[c] = "answered" /\ \A d \in Caller \ {c} : call'[d] = call[d]
        BY <3>2 DEF ServerInv, TypeOK
      <3> QED
        BY <3>1, <3>2, <3>3, EngineUntouched
    <2> QED
      BY <2>1, <2>2
  <1>2. ASSUME NEW c \in Caller, Receive(c) PROVE KeyInv'
    <2>1. UNCHANGED <<state, result, worked, overlapped, local>>
      BY <1>2, ReceiveAnswer DEF RuntimeOnly, engineVars
    <2>2. pc[c] = "Execute" => AsRemote(pc[c], local[c]).values = local[c].values
      BY DEF AsRemote, Message
    <2>3. pc'[c] = "done" => told'[c].values = local[c].values
      BY <1>2, <2>2, ReceiveAnswer
    <2> QED
      BY <1>2, <2>1, <2>3, ReceiveAnswer, EngineUntouched DEF AtWork
  <1>3. ASSUME NEW c \in Caller, Break(c) PROVE KeyInv'
    <2>1. UNCHANGED <<state, result, worked, overlapped, local>>
      BY <1>3, BreakInv DEF RuntimeOnly, engineVars
    <2> QED
      BY <1>3, <2>1, BreakInv, EngineUntouched DEF AtWork
  <1>4. CASE (\E w \in Worker : Work(w)) \/ LeaseExpires \/ Interrupt \/ Serve \/ UNCHANGED vars
    <2>1. UNCHANGED <<pc, call, told, state, result, worked, overlapped, local>>
      BY <1>4, OthersKeep DEF vars, callerVars, engineVars
    <2> QED
      BY <2>1 DEF KeyInv, Decided, AtWork
  <1> QED
    BY <1>1, <1>2, <1>3, <1>4 DEF Next

-----------------------------------------------------------------------------
(* One key, one execution on the device *)

\* Until a lease expires, an execution that has reached the device has the lease, or
\* the operation of its key is terminal.
Settled(c) == (call[c] = "working" /\ lease = c) \/ state[Key[c]] \in Terminal

OnceInv ==
  ~expired =>
    \A c \in Exec \cap worked :
      /\ Settled(c)
      /\ \A d \in Exec \cap worked : Key[d] = Key[c] => d = c

LEMMA InitOnceInv == Init => OnceInv
  BY DEF Init, OnceInv

\* What is settled stays so while the lease of others is not taken away and no
\* operation is reopened.
LEMMA SettledStays ==
  ASSUME OnceInv, UNCHANGED worked, expired' = expired,
         \A c \in Exec \cap worked : Settled(c) => Settled(c)'
  PROVE  OnceInv'
  BY DEF OnceInv

\* An execution ends: its operation is terminal.
LEMMA EndSettles ==
  ASSUME OnceInv, ServerInv, NEW c \in Exec, UNCHANGED worked, expired' = expired,
         state' \in [Keys -> {"NONE", "OPEN"} \cup Terminal], state'[Key[c]] \in Terminal,
         \A k \in Keys : state[k] \in Terminal => state'[k] \in Terminal,
         call' = [call EXCEPT ![c] = "answered"],
         lease' = lease \/ (lease = c /\ lease' = "free")
  PROVE  OnceInv'
  <1> SUFFICES ASSUME NEW d \in Exec \cap worked, Settled(d) PROVE Settled(d)'
    BY SettledStays
  <1>1. CASE d = c
    BY <1>1 DEF Settled
  <1>2. CASE d # c
    <2>1. call'[d] = call[d] /\ Key[d] \in Keys
      BY <1>2, KeyTyped DEF ServerInv, TypeOK, Exec
    <2> QED
      BY <1>2, <2>1 DEF Settled
  <1> QED
    BY <1>1, <1>2

LEMMA ExecuteHandlerOnce ==
  ASSUME OnceInv, ServerInv, NEW c \in Caller, ServeExecute(c) \/ Expire(c) \/ Grant(c) \/ End(c)
  PROVE  OnceInv'
  <1>0. /\ EngineOnly /\ UNCHANGED <<pc, told>> /\ expired' = expired
        /\ pc[c] = "Execute" /\ c \in Exec /\ Key[c] \in Keys
    BY KeyTyped
       DEF ServeExecute, Expire, Grant, End, EngineOnly, Dispatch, AtWork, ServerInv, ExecAtWork
  <1>1. ASSUME RecordedStep(c), UNCHANGED worked, lease' = lease \/ (lease = c /\ lease' = "free")
        PROVE  OnceInv'
    <2>1. call' = [call EXCEPT ![c] = "answered"] /\ state' = state /\ state[Key[c]] \in Terminal
      BY <1>0, <1>1, RecordedInv DEF RecordedStep
    <2> QED
      BY <1>0, <1>1, <2>1, EndSettles DEF ServerInv, TypeOK
  <1>2. ASSUME NEW r \in Outcome, Fail(c, r), UNCHANGED worked,
               lease' = lease \/ (lease = c /\ lease' = "free")
        PROVE  OnceInv'
    <2>1. /\ state' = [state EXCEPT ![Key[c]] = IF state[Key[c]] \in Terminal THEN state[Key[c]] ELSE r.state]
          /\ state' \in [Keys -> {"NONE", "OPEN"} \cup Terminal]
          /\ call' = [call EXCEPT ![c] = "answered"] /\ r.state \in Terminal
      BY <1>0, <1>2, FailInv, RemoteAssumption
    <2>2. state'[Key[c]] \in Terminal /\ \A k \in Keys : state[k] \in Terminal => state'[k] \in Terminal
      BY <1>0, <2>1 DEF ServerInv, TypeOK
    <2> QED
      BY <1>0, <1>2, <2>1, <2>2, EndSettles
  <1>3. CASE ServeExecute(c)
    <2>1. UNCHANGED <<worked, lease>> /\ call[c] = "sent"
      BY <1>3 DEF ServeExecute, Dispatch
    <2>2. CASE state[Key[c]] \in Terminal
      BY <1>1, <1>3, <2>1, <2>2 DEF ServeExecute, RecordedStep
    <2>3. CASE state[Key[c]] \notin Terminal
      <3>1. \/ \E r \in Outcome : Fail(c, r)
            \/ /\ call' = [call EXCEPT ![c] = "waiting"]
               /\ state' = [state EXCEPT ![Key[c]] = "OPEN"]
        BY <1>3, <2>3 DEF ServeExecute, Begin
      <3>2. ASSUME call' = [call EXCEPT ![c] = "waiting"],
                   state' = [state EXCEPT ![Key[c]] = "OPEN"]
            PROVE  OnceInv'
        <4> SUFFICES ASSUME NEW d \in Exec \cap worked, Settled(d) PROVE Settled(d)'
          BY <1>0, <2>1, SettledStays
        <4>1. d # c => call'[d] = call[d]
          BY <3>2 DEF ServerInv, TypeOK, Exec
        <4>2. state[Key[d]] \in Terminal => state'[Key[d]] = state[Key[d]]
          BY <2>3, <3>2, KeyTyped DEF ServerInv, TypeOK
        <4> QED
          BY <2>1, <2>3, <4>1, <4>2 DEF Settled
      <3> QED
        BY <1>2, <2>1, <3>1, <3>2
    <2> QED
      BY <2>2, <2>3
  <1>4. CASE Expire(c)
    BY <1>2, <1>4 DEF Expire
  <1>5. CASE Grant(c)
    <2>1. CASE state[Key[c]] \in Terminal
      BY <1>1, <1>5, <2>1 DEF Grant, RecordedStep
    <2>2. CASE state[Key[c]] \notin Terminal
      <3>1. /\ lease = "free" /\ lease' = c /\ worked' = worked \cup {c} /\ UNCHANGED state
            /\ call' = [call EXCEPT ![c] = "working"] /\ call'[c] = "working"
        BY <1>5, <2>2 DEF Grant, ServerInv, TypeOK
      <3> SUFFICES ASSUME ~expired PROVE OnceInv'
        BY <1>0 DEF OnceInv
      <3>2. ASSUME NEW d \in Exec \cap worked PROVE state[Key[d]] \in Terminal
        BY <3>1, <3>2, RemoteAssumption DEF OnceInv, Settled, Exec
      <3>3. ASSUME NEW d \in Exec \cap worked' PROVE Settled(d)'
        BY <3>1, <3>2, <3>3 DEF Settled
      <3>4. ASSUME NEW d \in Exec \cap worked', NEW e \in Exec \cap worked', Key[e] = Key[d]
            PROVE  e = d
        BY <2>2, <3>1, <3>2, <3>4 DEF OnceInv
      <3> QED
        BY <3>3, <3>4 DEF OnceInv
    <2> QED
      BY <2>1, <2>2
  <1>6. CASE End(c)
    <2>1. RecordedStep(c) \/ \E r \in Outcome : Fail(c, r)
      BY <1>6 DEF End, RecordedStep
    <2>2. UNCHANGED worked /\ (lease' = lease \/ (lease = c /\ lease' = "free"))
      BY <1>6 DEF End
    <2> QED
      BY <1>1, <1>2, <2>1, <2>2
  <1> QED
    BY <1>3, <1>4, <1>5, <1>6

LEMMA NextOnceInv == OnceInv /\ ServerInv /\ [Next]_vars => OnceInv'
  <1> SUFFICES ASSUME OnceInv, ServerInv, [Next]_vars PROVE OnceInv'
    OBVIOUS
  <1>1. ASSUME NEW c \in Caller, UNCHANGED <<state, lease, worked, expired>>,
               \A d \in Caller \ {c} : call'[d] = call[d], call[c] # "working" \/ call'[c] = call[c]
        PROVE  OnceInv'
    BY <1>1, SettledStays DEF Settled, Exec
  <1>2. ASSUME NEW c \in Caller, Handle(c) PROVE OnceInv'
    <2>1. CASE ServeExecute(c) \/ Expire(c) \/ Grant(c) \/ End(c)
      BY <2>1, ExecuteHandlerOnce
    <2>2. CASE ~(ServeExecute(c) \/ Expire(c) \/ Grant(c) \/ End(c))
      <3>1. Quietly /\ call[c] = "sent" /\ call' = [call EXCEPT ![c] = "answered"]
        BY <1>2, <2>2
           DEF Handle, ServeListDevices, ServeDiscover, ServeDescribeCapabilities, ServeCreateSession,
               ServeSubmitTask, ServeGetTask, ServeCancelTask, ServeListPool, Dispatch, Devices, Respond
      <3>2. \A d \in Caller \ {c} : call'[d] = call[d]
        BY <3>1 DEF ServerInv, TypeOK
      <3> QED
        BY <1>1, <3>1, <3>2 DEF Quietly, engineVars
    <2> QED
      BY <2>1, <2>2
  <1>3. ASSUME NEW c \in Caller, Receive(c) PROVE OnceInv'
    BY <1>1, <1>3, ReceiveAnswer DEF RuntimeOnly, engineVars
  <1>4. ASSUME NEW c \in Caller, Break(c) PROVE OnceInv'
    BY <1>1, <1>4, BreakInv DEF RuntimeOnly, engineVars, AtWork
  <1>5. ASSUME NEW w \in Worker, Work(w) PROVE OnceInv'
    <2>1. UNCHANGED <<state, worked, expired, call>>
      BY <1>5 DEF Work, Take, TaskGetsLease, TaskEnds, WorkerExits, FarmOnly, callerVars
    <2>2. \A c \in Caller : lease = c => lease' = c
      BY <1>5, RemoteAssumption DEF Work, Take, TaskGetsLease, TaskEnds, WorkerExits
    <2> QED
      BY <2>1, <2>2, SettledStays DEF Settled, Exec
  <1>6. CASE LeaseExpires
    BY <1>6 DEF LeaseExpires, OnceInv
  <1>7. CASE Interrupt \/ Serve
    <2>1. UNCHANGED <<state, lease, worked, expired, call>>
      BY <1>7 DEF Interrupt, Serve, Drained, CloseRuntime, ServerOnly, callerVars, engineVars
    <2> QED
      BY <2>1, SettledStays DEF Settled
  <1>8. CASE UNCHANGED vars
    BY <1>8, SettledStays DEF Settled, vars, callerVars, engineVars
  <1> QED
    BY <1>2, <1>3, <1>4, <1>5, <1>6, <1>7, <1>8 DEF Next

\* Unless a lease expires, one execution of a key reaches the device, whether its
\* executions overlap or not; and even then if they do not overlap, and in that case
\* all callers hear the state the operation has ended in (engine.go:127, 212, 261).
THEOREM KeyDecides == Spec => []KeyDecidesOnce
  <1>1. KeyInv /\ OnceInv => KeyDecidesOnce
    BY DEF KeyInv, Decided, OnceInv, KeyDecidesOnce
  <1>2. Spec => []KeyInv
    BY InitKeyInv, NextKeyInv, ServerInvariant, PTL DEF Spec
  <1>3. Spec => []OnceInv
    BY InitOnceInv, NextOnceInv, ServerInvariant, PTL DEF Spec
  <1> QED
    BY <1>1, <1>2, <1>3, PTL
=============================================================================
