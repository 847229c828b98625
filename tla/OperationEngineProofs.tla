----------------------- MODULE OperationEngineProofs -----------------------
(***************************************************************************)
(* Proofs about OperationEngine, for any number of clients, any keys       *)
(* (several goroutines may execute one operation) and any MaxRetries.      *)
(*                                                                         *)
(* That Wait never returns nil is not inductive.  EngineInv adds the chain *)
(* it rests on: whoever is about to make the last transition has set the   *)
(* result, so a terminal state implies a result, and a poll that saw a     *)
(* terminal state can rely on it because terminal states are not left.     *)
(* GateInv and CancelInv do the same for the gates of Execute and for      *)
(* Cancel, the latter when every operation has one executor.  ResultInv    *)
(* adds what a flash may rely on between Invoke and the version it reads   *)
(* back, and LifeInv ties the state of an operation to the place of its    *)
(* executor, which makes every step one of OperationLifecycle.             *)
(***************************************************************************)
EXTENDS OperationEngine, SequenceTheorems, TLAPS

\* fail and succeed set the result before they try the last transition.
ResultBeforeConclude ==
  \A x \in Client : pc[x] = "conclude" => result[opOf[x]] # "none"

TerminalHasResult == \A o \in Client : state[o] \in Terminal => result[o] # "none"

PollSawTerminal == \A o \in polling : state[o] \in Terminal

\* Recover is called only while there is a retry left.
RetryLeft == \A x \in Client : pc[x] = "recover" => attempt[x] < MaxRetries

EngineInv ==
  /\ TypeOK
  /\ RetryLeft
  /\ ResultBeforeConclude
  /\ TerminalHasResult
  /\ PollSawTerminal
  /\ WaitNeverReturnsNil

LEMMA InitEngineInv == Init => EngineInv
  <1> SUFFICES ASSUME Init PROVE EngineInv
    OBVIOUS
  <1>1. TypeOK
    <2>1. expired \in BOOLEAN
      BY Zenon DEF Init
    <2> QED
      BY <2>1, EngineAssumption DEF Init, TypeOK, State, Terminal, PC
  <1>2. RetryLeft /\ ResultBeforeConclude /\ TerminalHasResult /\ PollSawTerminal
        /\ WaitNeverReturnsNil
    BY DEF Init, RetryLeft, ResultBeforeConclude, TerminalHasResult, PollSawTerminal,
           WaitNeverReturnsNil, Terminal
  <1> QED
    BY <1>1, <1>2 DEF EngineInv

\* The executor of an operation has one.
LEMMA Executing ==
  ASSUME TypeOK, NEW x \in Client, pc[x] # "idle"
  PROVE  opOf[x] \in Client
  BY DEF TypeOK

LEMMA TransitionType ==
  ASSUME TypeOK, NEW o \in Client, NEW s \in State, Transition(o, s)
  PROVE  state' \in [Client -> State]
  BY DEF TypeOK, Transition

LEMMA GotoType ==
  ASSUME TypeOK, NEW x \in Client, pc[x] # "idle", NEW p \in PC, Goto(x, p), UNCHANGED opOf
  PROVE  /\ pc' \in [Client -> PC]
         /\ \A y \in Client : pc'[y] # "idle" => opOf'[y] \in Client
  BY DEF TypeOK, Goto

\* Each step of the engine keeps the types.
LEMMA TypeStep == TypeOK /\ RetryLeft /\ [Next]_vars => TypeOK'
  <1> SUFFICES ASSUME TypeOK, RetryLeft, [Next]_vars PROVE TypeOK'
    OBVIOUS
  <1> USE EngineAssumption DEF vars, opVars, runVars, userVars, history
  <1>0. /\ Terminal \subseteq State
        /\ {"CREATED", "VALIDATING", "WAITING_RESOURCE", "RESOLVING", "RUNNING", "VERIFYING"}
             \subseteq State
        /\ {"VALIDATION_FAILED", "RESOURCE_FAILED", "RESOLVE_FAILED", "CANCELLED",
            "RUN_FAILED", "UNKNOWN", "SUCCEEDED", "VERIFY_FAILED"} \subseteq Terminal
        /\ "none" \notin Terminal /\ "nil" \notin Terminal
    BY DEF State, Terminal
  <1>1. ASSUME NEW x \in Client, Create(x) PROVE TypeOK'
    <2>1. Created \subseteq Client
      BY DEF TypeOK, Created
    <2>2. \E o \in Client : opOf' = [opOf EXCEPT ![x] = o]
      BY <1>1, <2>1 DEF Create
    <2>3. pc' \in [Client -> PC] /\ \A y \in Client \ {x} : pc'[y] = pc[y] /\ opOf'[y] = opOf[y]
      BY <1>1, <2>2 DEF TypeOK, Create, Goto, PC
    <2>4. opOf' \in [Client -> Client \cup {"none"}] /\ opOf'[x] \in Client
      BY <2>2 DEF TypeOK
    <2> QED
      BY <1>1, <2>3, <2>4 DEF TypeOK, Create
  <1>2. ASSUME NEW x \in Client, NEW s \in State, NEW p \in PC, pc[x] # "idle",
               Move(x, s, p), UNCHANGED opOf
        PROVE  /\ state' \in [Client -> State]
               /\ pc' \in [Client -> PC]
               /\ \A y \in Client : pc'[y] # "idle" => opOf'[y] \in Client
    BY <1>2, Executing, TransitionType, GotoType DEF Move, PC
  <1>3. ASSUME NEW x \in Client, NEW s \in Terminal, pc[x] # "idle",
               Conclude(x, s), UNCHANGED opOf
        PROVE  /\ final' \in [Client -> Terminal]
               /\ pc' \in [Client -> PC]
               /\ \A y \in Client : pc'[y] # "idle" => opOf'[y] \in Client
    <2>1. "report" \in PC
      BY DEF PC
    <2> QED
      BY <1>3, <2>1, GotoType DEF Conclude, TypeOK
  <1>4. ASSUME NEW x \in Client, Begin(x) PROVE TypeOK'
    BY <1>0, <1>2, <1>4 DEF Begin, TypeOK, PC
  <1>5. ASSUME NEW x \in Client, Validate(x) PROVE TypeOK'
    <2>1. CASE Conclude(x, "VALIDATION_FAILED")
      BY <1>0, <1>3, <1>5, <2>1 DEF Validate, TypeOK
    <2>2. CASE Goto(x, "permitted") /\ UNCHANGED final
      BY <1>5, <2>2, GotoType DEF Validate, TypeOK, PC
    <2> QED
      BY <1>5, <2>1, <2>2 DEF Validate
  <1>6. ASSUME NEW x \in Client, BeginAcquire(x) PROVE TypeOK'
    <2>1. todo' \in [Client -> Seq(Resource)]
      BY <1>6, Executing DEF BeginAcquire, TypeOK
    <2> QED
      BY <1>0, <1>2, <1>6, <2>1 DEF BeginAcquire, TypeOK, PC
  <1>7. ASSUME NEW x \in Client, AcquireNext(x) PROVE TypeOK'
    <2>1. todo[x] \in Seq(Resource) /\ todo[x] # <<>>
      BY <1>7 DEF AcquireNext, TypeOK
    <2>2. Head(todo[x]) \in Resource /\ Tail(todo[x]) \in Seq(Resource)
      BY <2>1, HeadTailProperties
    <2>3. inForce' \subseteq Lease
      BY <1>7, <2>2 DEF AcquireNext, Locks!Grant, TypeOK, Lease
    <2>4. todo' \in [Client -> Seq(Resource)]
      BY <1>7, <2>2 DEF AcquireNext, TypeOK
    <2> QED
      BY <1>7, <2>3, <2>4 DEF AcquireNext, TypeOK
  <1>8. ASSUME NEW x \in Client, AcquireFail(x) PROVE TypeOK'
    BY <1>0, <1>3, <1>8 DEF AcquireFail, TypeOK
  <1>9. ASSUME NEW x \in Client, BeginResolve(x) PROVE TypeOK'
    BY <1>0, <1>2, <1>9 DEF BeginResolve, TypeOK, PC
  <1>10. ASSUME NEW x \in Client, Resolve(x) PROVE TypeOK'
    <2>1. CASE Conclude(x, "RESOLVE_FAILED") /\ UNCHANGED state
      BY <1>0, <1>3, <1>10, <2>1 DEF Resolve, TypeOK
    <2>2. CASE Move(x, "RUNNING", "loop") /\ UNCHANGED final
      BY <1>0, <1>2, <1>10, <2>2 DEF Resolve, TypeOK, PC
    <2> QED
      BY <1>10, <2>1, <2>2 DEF Resolve
  <1>11. ASSUME NEW x \in Client, LoopHead(x) PROVE TypeOK'
    <2>1. CASE Conclude(x, "CANCELLED") \/ Conclude(x, "RUN_FAILED")
      BY <1>0, <1>3, <1>11, <2>1 DEF LoopHead, TypeOK
    <2>2. CASE Goto(x, "invoke") /\ UNCHANGED final
      BY <1>11, <2>2, GotoType DEF LoopHead, TypeOK, PC
    <2> QED
      BY <1>11, <2>1, <2>2 DEF LoopHead
  <1>12. ASSUME NEW x \in Client, Invoke(x) PROVE TypeOK'
    <2>1. opOf[x] \in Client /\ invoked' \in [Client -> Nat]
      <3>1. invoked' = [invoked EXCEPT ![opOf[x]] = invoked[opOf[x]] + 1]
        BY <1>12 DEF Invoke
      <3>2. opOf[x] \in Client
        BY <1>12, Executing DEF Invoke
      <3> QED
        BY <3>1, <3>2 DEF TypeOK
    <2>2. applied' \subseteq Client /\ flashed' \in STRING
      <3>1. Version[opOf[x]] \in STRING
        BY <2>1, EngineAssumption
      <3> QED
        BY <1>12, <2>1, <3>1 DEF Invoke, TypeOK
    <2>3. /\ pc' \in [Client -> PC]
          /\ \A y \in Client : pc'[y] # "idle" => opOf'[y] \in Client
      BY <1>12, GotoType DEF Invoke, PC
    <2> QED
      BY <1>12, <2>1, <2>2, <2>3 DEF Invoke, TypeOK
  <1>13. ASSUME NEW x \in Client, InvokeOk(x) PROVE TypeOK'
    BY <1>0, <1>13, GotoType DEF InvokeOk, TypeOK, PC
  <1>14. ASSUME NEW x \in Client, InvokeError(x) PROVE TypeOK'
    <2>1. /\ pc' \in [Client -> PC]
          /\ \A y \in Client : pc'[y] # "idle" => opOf'[y] \in Client
      BY <1>14, GotoType DEF InvokeError, PC
    <2> QED
      BY <1>14, <2>1 DEF InvokeError, TypeOK
  <1>15. ASSUME NEW x \in Client, Observe(x) PROVE TypeOK'
    <2>1. \E t \in Terminal, p \in {"verify", "report", "recover"} :
            final' = [final EXCEPT ![x] = t] /\ Goto(x, p)
      BY <1>0, <1>15 DEF Observe, TryAgain, ReconcileOnline, Conclude
    <2>2. final' \in [Client -> Terminal]
      BY <2>1 DEF TypeOK
    <2>3. /\ pc' \in [Client -> PC]
          /\ \A y \in Client : pc'[y] # "idle" => opOf'[y] \in Client
      BY <1>15, <2>1, GotoType DEF Observe, PC
    <2> QED
      BY <1>15, <2>2, <2>3 DEF Observe, TypeOK
  <1>16. ASSUME NEW x \in Client, Recover(x) PROVE TypeOK'
    <2>1. /\ pc' \in [Client -> PC]
          /\ \A y \in Client : pc'[y] # "idle" => opOf'[y] \in Client
      BY <1>16, GotoType DEF Recover, PC
    <2>2. attempt' \in [Client -> 0..MaxRetries]
      <3>1. attempt[x] + 1 \in 0..MaxRetries
        BY <1>16 DEF Recover, TypeOK, RetryLeft
      <3>2. attempt' = [attempt EXCEPT ![x] = attempt[x] + 1] \/ attempt' = attempt
        BY <1>16 DEF Recover
      <3>3. attempt \in [Client -> 0..MaxRetries]
        BY DEF TypeOK
      <3>4. CASE attempt' = [attempt EXCEPT ![x] = attempt[x] + 1]
        BY <3>1, <3>3, <3>4
      <3> QED
        BY <3>2, <3>3, <3>4
    <2> QED
      BY <1>16, <2>1, <2>2 DEF Recover, TypeOK
  <1>17. ASSUME NEW x \in Client, Verify(x) PROVE TypeOK'
    BY <1>0, <1>2, <1>17 DEF Verify, TypeOK, PC
  <1>18. ASSUME NEW x \in Client, SetResult(x) PROVE TypeOK'
    BY <1>18, GotoType DEF SetResult, TypeOK, PC
  <1>19. ASSUME NEW x \in Client, LastTransition(x) PROVE TypeOK'
    <2>1. final[x] \in State
      BY <1>0 DEF TypeOK
    <2> QED
      BY <1>19, <2>1, Executing, TransitionType, GotoType DEF LastTransition, TypeOK, PC
  <1>20. ASSUME NEW x \in Client, Release(x) PROVE TypeOK'
    BY <1>20, GotoType DEF Release, TypeOK, PC
  <1>21. ASSUME NEW o \in Client, Poll(o) PROVE TypeOK'
    BY <1>21 DEF Poll, WaitLook, WaitTake, TypeOK
  <1>22. ASSUME NEW o \in Cancellable, CancelCheck(o) \/ CancelFlag(o) PROVE TypeOK'
    <2>1. CASE CancelCheck(o)
      BY <1>22, <2>1 DEF CancelCheck, TypeOK
    <2>2. CASE CancelFlag(o)
      <3>1. invoked[o] + 0 \in Nat /\ invoked[o] + 1 \in Nat
        BY DEF TypeOK
      <3>2. quota' \in [Client -> Nat]
        BY <2>2, <3>1 DEF CancelFlag, TypeOK
      <3> QED
        BY <2>2, <3>2 DEF CancelFlag, TypeOK
    <2> QED
      BY <1>22, <2>1, <2>2
  <1>23. ASSUME NEW o \in Approvable, Approve(o) PROVE TypeOK'
    BY <1>23 DEF Approve, TypeOK
  <1>24. ASSUME NEW x \in Timed, ContextDone(x) PROVE TypeOK'
    BY <1>24 DEF ContextDone, TypeOK
  <1>25. ASSUME NEW l \in inForce, LeaseExpires(l) PROVE TypeOK'
    BY <1>25 DEF LeaseExpires, Locks!Expire, TypeOK
  <1>26. CASE UNCHANGED vars
    BY <1>26 DEF TypeOK
  <1> QED
    BY <1>1, <1>4, <1>5, <1>6, <1>7, <1>8, <1>9, <1>10, <1>11, <1>12, <1>13, <1>14, <1>15,
       <1>16, <1>17, <1>18, <1>19, <1>20, <1>21, <1>22, <1>23, <1>24, <1>25, <1>26
       DEF Next, Prepare, Run, Finish

-----------------------------------------------------------------------------
(* Terminal states *)

\* Whatever changes the state of an operation does it through Transition.
LEMMA OnlyTransitions ==
  Next => UNCHANGED state \/ \E o, s : Transition(o, s)
  BY DEF Next, Prepare, Run, Finish, Poll, Create, Begin, Validate, BeginAcquire,
         AcquireNext, AcquireFail, BeginResolve, Resolve, LoopHead, Invoke, InvokeOk,
         InvokeError, Observe, Recover, Verify, SetResult, LastTransition, Release,
         WaitLook, WaitTake, CancelCheck, CancelFlag, Approve, ContextDone, LeaseExpires,
         Move, opVars

LEMMA TerminalStep ==
  TypeOK /\ [Next]_vars => \A o \in Client : state[o] \in Terminal => state'[o] = state[o]
  <1> SUFFICES ASSUME TypeOK, [Next]_vars, NEW o \in Client, state[o] \in Terminal
               PROVE  state'[o] = state[o]
    OBVIOUS
  <1>1. CASE UNCHANGED state
    BY <1>1
  <1>2. ASSUME NEW u, NEW s, Transition(u, s) PROVE state'[o] = state[o]
    BY <1>2 DEF Transition, Refuses, TypeOK
  <1>3. CASE UNCHANGED vars
    BY <1>3 DEF vars, opVars
  <1> QED
    BY <1>1, <1>2, <1>3, OnlyTransitions

\* Each step keeps the rest of the invariant.
LEMMA EngineInvStep == EngineInv /\ [Next]_vars => EngineInv'
  <1> SUFFICES ASSUME EngineInv, [Next]_vars PROVE EngineInv'
    OBVIOUS
  <1>1. TypeOK /\ TypeOK'
    BY TypeStep DEF EngineInv
  <1>2. \A o \in Client : state[o] \in Terminal => state'[o] = state[o]
    BY <1>1, TerminalStep
  <1>3. PollSawTerminal'
    <2>1. polling' = polling \/ \E o \in Client : Poll(o)
      BY DEF Next, Prepare, Run, Finish, Create, Begin, Validate, BeginAcquire,
         AcquireNext, AcquireFail, BeginResolve, Resolve, LoopHead, Invoke, InvokeOk,
         InvokeError, Observe, Recover, Verify, SetResult, LastTransition, Release,
         CancelCheck, CancelFlag, Approve, ContextDone, LeaseExpires, userVars, vars
    <2>2. \A o \in polling' : state[o] \in Terminal
      BY <2>1 DEF Poll, WaitLook, WaitTake, EngineInv, PollSawTerminal
    <2> QED
      BY <1>1, <1>2, <2>2 DEF PollSawTerminal, TypeOK
  <1>4. RetryLeft'
    <2>1. ASSUME NEW x \in Client, Observe(x) PROVE RetryLeft'
      <3>1. pc'[x] = "recover" => attempt[x] < MaxRetries
        BY <1>1, <2>1, EngineAssumption
           DEF Observe, TryAgain, ReconcileOnline, Conclude, Goto, TypeOK
      <3>2. attempt' = attempt /\ \A y \in Client \ {x} : pc'[y] = pc[y]
        BY <1>1, <2>1 DEF Observe, TryAgain, ReconcileOnline, Conclude, Goto, TypeOK
      <3> QED
        BY <3>1, <3>2 DEF EngineInv, RetryLeft
    <2>2. ASSUME NEW x \in Client, Recover(x) PROVE RetryLeft'
      <3>1. pc'[x] # "recover"
        BY <1>1, <2>2 DEF Recover, Goto, TypeOK
      <3>2. \A y \in Client \ {x} : pc'[y] = pc[y] /\ attempt'[y] = attempt[y]
        BY <1>1, <2>2 DEF Recover, Goto, TypeOK
      <3> QED
        BY <3>1, <3>2 DEF EngineInv, RetryLeft
    <2>3. ASSUME attempt' = attempt, \A x \in Client : pc'[x] = "recover" => pc[x] = "recover"
          PROVE  RetryLeft'
      BY <2>3 DEF EngineInv, RetryLeft
    <2>4. ASSUME NEW x \in Client,
                 Create(x) \/ Prepare(x) \/ Finish(x) \/ LoopHead(x) \/ Invoke(x)
                 \/ InvokeOk(x) \/ InvokeError(x)
          PROVE  attempt' = attempt /\ \A y \in Client : pc'[y] = "recover" => pc[y] = "recover"
      <3>1. attempt' = attempt /\ (pc' = pc \/ \E p \in PC \ {"recover"} : Goto(x, p))
        BY <2>4 DEF PC, Prepare, Finish, Create, Begin, Validate, BeginAcquire,
           AcquireNext, AcquireFail, BeginResolve, Resolve, LoopHead, Invoke, InvokeOk,
           InvokeError, Verify, SetResult, LastTransition, Release, Move, Conclude
      <3> QED
        BY <1>1, <3>1 DEF Goto, TypeOK
    <2>5. ASSUME \/ \E o \in Client : Poll(o)
                 \/ \E o \in Cancellable : CancelCheck(o) \/ CancelFlag(o)
                 \/ \E o \in Approvable : Approve(o)
                 \/ \E x \in Timed : ContextDone(x)
                 \/ \E l \in inForce : LeaseExpires(l)
                 \/ UNCHANGED vars
          PROVE  attempt' = attempt /\ pc' = pc
      BY <2>5 DEF Poll, WaitLook, WaitTake, CancelCheck, CancelFlag, Approve, ContextDone,
                  LeaseExpires, vars, runVars
    <2> QED
      BY <2>1, <2>2, <2>3, <2>4, <2>5 DEF Next, Run
  <1>5. ASSUME NEW x \in Client, SetResult(x)
        PROVE  ResultBeforeConclude' /\ TerminalHasResult' /\ WaitNeverReturnsNil'
    <2>1. opOf[x] \in Client /\ final[x] \in Terminal /\ final[x] # "none"
      BY <1>1, <1>5, Executing DEF SetResult, TypeOK, Terminal
    <2>2. \A o \in Client : result[o] # "none" => result'[o] # "none"
      BY <1>1, <1>5, <2>1 DEF SetResult, TypeOK
    <2>3. result'[opOf[x]] # "none" /\ opOf' = opOf
          /\ \A y \in Client \ {x} : pc'[y] = pc[y]
      BY <1>1, <1>5, <2>1 DEF SetResult, TypeOK, Goto
    <2>4. \A y \in Client : pc[y] = "conclude" => opOf[y] \in Client
      BY <1>1, Executing
    <2>5. ResultBeforeConclude'
      BY <2>2, <2>3, <2>4 DEF ResultBeforeConclude, EngineInv
    <2>6. TerminalHasResult' /\ WaitNeverReturnsNil'
      BY <1>5, <2>2 DEF SetResult, EngineInv, TerminalHasResult, WaitNeverReturnsNil, userVars
    <2> QED
      BY <2>5, <2>6
  <1>6. ASSUME result' = result,
               \A x \in Client : pc'[x] = "conclude" => pc[x] = "conclude" /\ opOf'[x] = opOf[x]
        PROVE  ResultBeforeConclude'
    BY <1>6 DEF EngineInv, ResultBeforeConclude
  <1>7. ASSUME NEW x \in Client, LastTransition(x)
        PROVE  ResultBeforeConclude' /\ TerminalHasResult' /\ WaitNeverReturnsNil'
    <2>1. result[opOf[x]] # "none" /\ opOf[x] \in Client
      BY <1>1, <1>7, Executing DEF LastTransition, EngineInv, ResultBeforeConclude
    <2>2. \A o \in Client : o # opOf[x] => state'[o] = state[o]
      BY <1>1, <1>7 DEF LastTransition, Transition, TypeOK
    <2>3. \A y \in Client : pc'[y] = "conclude" => pc[y] = "conclude"
      BY <1>1, <1>7 DEF LastTransition, Goto, TypeOK
    <2> QED
      BY <1>6, <1>7, <2>1, <2>2, <2>3
         DEF LastTransition, EngineInv, TerminalHasResult, WaitNeverReturnsNil, userVars
  <1>8. ASSUME NEW o \in Client, WaitTake(o)
        PROVE  ResultBeforeConclude' /\ TerminalHasResult' /\ WaitNeverReturnsNil'
    <2>1. result[o] # "none" /\ result[o] # "nil"
      BY <1>1, <1>8 DEF WaitTake, EngineInv, PollSawTerminal, TerminalHasResult, TypeOK, Terminal
    <2>2. WaitNeverReturnsNil'
      BY <1>1, <1>8, <2>1 DEF WaitTake, EngineInv, WaitNeverReturnsNil, TypeOK
    <2> QED
      BY <1>6, <1>8, <2>2 DEF WaitTake, EngineInv, TerminalHasResult, opVars, runVars
  <1>9. ASSUME NEW x \in Client, Create(x) \/ Prepare(x) \/ Run(x) \/ Verify(x) \/ Release(x)
        PROVE  ResultBeforeConclude' /\ TerminalHasResult' /\ WaitNeverReturnsNil'
    <2>1. result' = result /\ answer' = answer
      BY <1>9 DEF Prepare, Run, Create, Begin, Validate, BeginAcquire, AcquireNext,
         AcquireFail, BeginResolve, Resolve, LoopHead, Invoke, InvokeOk, InvokeError,
         Observe, Recover, Verify, Release, opVars, userVars
    <2>2. \A y \in Client : pc'[y] = "conclude" => pc[y] = "conclude" /\ opOf'[y] = opOf[y]
      <3>1. pc' = pc \/ \E p \in PC \ {"conclude"} : Goto(x, p)
        BY <1>9 DEF PC, Prepare, Run, Create, Begin, Validate, BeginAcquire,
           AcquireNext, AcquireFail, BeginResolve, Resolve, LoopHead, Invoke, InvokeOk,
           InvokeError, Observe, TryAgain, ReconcileOnline, Recover, Verify, Release,
           Move, Conclude
      <3>2. \A y \in Client : opOf'[y] = opOf[y] \/ (y = x /\ pc'[y] = "created")
        <4>1. CASE Create(x)
          BY <1>1, <4>1 DEF Create, Goto, TypeOK
        <4>2. CASE opOf' = opOf
          BY <4>2
        <4> QED
          BY <1>9, <4>1, <4>2 DEF Prepare, Run, Begin, Validate, BeginAcquire,
             AcquireNext, AcquireFail, BeginResolve, Resolve, LoopHead, Invoke, InvokeOk,
             InvokeError, Observe, Recover, Verify, Release
      <3> QED
        BY <1>1, <3>1, <3>2 DEF Goto, TypeOK
    <2>3. state' = state
          \/ \E o \in Client, s \in State \ Terminal : Transition(o, s)
      BY <1>1, <1>9, Executing DEF Prepare, Run, Create, Begin, Validate, BeginAcquire,
         AcquireNext, AcquireFail, BeginResolve, Resolve, LoopHead, Invoke, InvokeOk,
         InvokeError, Observe, Recover, Verify, Release, Move, opVars, State, Terminal
    <2>4. \A o \in Client : state'[o] \in Terminal => state[o] \in Terminal
      BY <1>1, <2>3 DEF Transition, Refuses, TypeOK
    <2> QED
      BY <1>6, <2>1, <2>2, <2>4 DEF EngineInv, TerminalHasResult, WaitNeverReturnsNil
  <1>10. ASSUME \/ \E o \in Client : WaitLook(o)
                \/ \E o \in Cancellable : CancelCheck(o) \/ CancelFlag(o)
                \/ \E o \in Approvable : Approve(o)
                \/ \E x \in Timed : ContextDone(x)
                \/ \E l \in inForce : LeaseExpires(l)
                \/ UNCHANGED vars
         PROVE  ResultBeforeConclude' /\ TerminalHasResult' /\ WaitNeverReturnsNil'
    <2>1. UNCHANGED <<state, result, pc, opOf, answer>>
      BY <1>10 DEF WaitLook, CancelCheck, CancelFlag, Approve, ContextDone, LeaseExpires,
                   vars, opVars, runVars, userVars
    <2> QED
      BY <2>1 DEF EngineInv, ResultBeforeConclude, TerminalHasResult, WaitNeverReturnsNil
  <1>11. ResultBeforeConclude' /\ TerminalHasResult' /\ WaitNeverReturnsNil'
    BY <1>5, <1>7, <1>8, <1>9, <1>10 DEF Next, Finish, Poll
  <1> QED
    BY <1>1, <1>3, <1>4, <1>11 DEF EngineInv

-----------------------------------------------------------------------------
(* The gates: GatesKept is not inductive, because an executor that waits has *)
(* some of its leases only.  GateInv says what each place may rely on.       *)

Held(x, r) == \E l \in inForce : l.holder = x /\ l.res = r

Working == {"resolve", "loop", "invoke", "applied", "refused", "observe", "recover"}

GateAt(x) ==
  /\ pc[x] \in Working \cup {"permitted", "acquire"} => Permitted(opOf[x])
  /\ pc[x] \in Working =>
       \A i \in DOMAIN Needs[opOf[x]] : expired \/ Held(x, Needs[opOf[x]][i])
  /\ pc[x] = "acquire" =>
       \A i \in DOMAIN Needs[opOf[x]] :
         \/ expired \/ Held(x, Needs[opOf[x]][i])
         \/ \E j \in DOMAIN todo[x] : todo[x][j] = Needs[opOf[x]][i]

GateInv == \A x \in Client : GateAt(x)

\* What no step does to an executor that is not its own.
LeftAlone(y) ==
  /\ pc'[y] = pc[y] /\ opOf'[y] = opOf[y] /\ todo'[y] = todo[y]
  /\ \A l \in inForce : l.holder = y => l \in inForce'

History == approved \subseteq approved' /\ (expired = TRUE => expired' = TRUE)

LEMMA LeftAloneGate ==
  ASSUME GateInv, History, NEW y \in Client, LeftAlone(y)
  PROVE  GateAt(y)'
  <1>1. \A r : Held(y, r) => Held(y, r)'
    BY DEF LeftAlone, Held
  <1>2. \A o : Permitted(o) => Permitted(o)'
    BY DEF Permitted, History
  <1>3. GateAt(y) /\ pc'[y] = pc[y] /\ opOf'[y] = opOf[y] /\ todo'[y] = todo[y]
    BY DEF GateInv, LeftAlone
  <1>4. pc'[y] \in Working \cup {"permitted", "acquire"} => Permitted(opOf[y])'
    BY <1>2, <1>3 DEF GateAt
  <1>5. expired => expired'
    BY Zenon DEF History
  <1> QED
    BY <1>1, <1>3, <1>4, <1>5 DEF GateAt, Permitted

\* A step of x that goes from place to place.
LEMMA MovesGate ==
  ASSUME GateInv, NEW x \in Client, GateAt(x)',
         \A y \in Client \ {x} : LeftAlone(y), History
  PROVE  GateInv'
  BY LeftAloneGate DEF GateInv

LEMMA Elsewhere ==
  ASSUME NEW x \in Client, pc'[x] \notin Working \cup {"permitted", "acquire"}
  PROVE  GateAt(x)'
  BY DEF GateAt, Working

\* From one place of work to another.
LEMMA StillWorking ==
  ASSUME GateInv, NEW x \in Client, pc[x] \in Working, opOf' = opOf, inForce' = inForce,
         approved' = approved, expired' = expired, pc'[x] # "acquire"
  PROVE  GateAt(x)'
  <1>1. Permitted(opOf[x]) /\ \A i \in DOMAIN Needs[opOf[x]] : expired \/ Held(x, Needs[opOf[x]][i])
    BY DEF GateInv, GateAt
  <1>2. Permitted(opOf[x])' /\ \A r : Held(x, r)' <=> Held(x, r)
    BY <1>1 DEF Permitted, Held
  <1> QED
    BY <1>1, <1>2 DEF GateAt

LEMMA Before ==
  ASSUME NEW n \in Nat, NEW j \in 1 .. n, j # 1
  PROVE  j - 1 \in 1 .. n - 1 /\ (j - 1) + 1 = j
  OBVIOUS

LEMMA TailKeeps ==
  ASSUME NEW S, NEW s \in Seq(S), s # <<>>
  PROVE  \A j \in DOMAIN s : s[j] = Head(s) \/ \E k \in DOMAIN Tail(s) : Tail(s)[k] = s[j]
  <1>1. Len(s) \in Nat /\ DOMAIN s = 1 .. Len(s) /\ s[1] = Head(s)
    BY LenProperties, HeadTailProperties
  <1>2. /\ DOMAIN Tail(s) = 1 .. Len(s) - 1
        /\ \A k \in 1 .. Len(s) - 1 : Tail(s)[k] = s[k + 1]
    BY HeadTailProperties, LenProperties
  <1>3. ASSUME NEW j \in DOMAIN s, j # 1 PROVE \E k \in DOMAIN Tail(s) : Tail(s)[k] = s[j]
    <2>1. j - 1 \in 1 .. Len(s) - 1 /\ (j - 1) + 1 = j
      BY <1>1, <1>3, Before
    <2>2. Tail(s)[j - 1] = s[j]
      BY <1>2, <2>1
    <2> QED
      BY <1>2, <2>1, <2>2
  <1> QED
    BY <1>1, <1>3

LEMMA GateStep == TypeOK /\ GateInv /\ [Next]_vars => GateInv'
  <1> SUFFICES ASSUME TypeOK, GateInv, [Next]_vars PROVE GateInv'
    OBVIOUS
  <1> USE DEF vars, opVars, runVars, userVars, history
  <1>1. ASSUME UNCHANGED <<approved, expired, inForce, opOf, todo>>, NEW x \in Client,
               \A y \in Client \ {x} : pc'[y] = pc[y], GateAt(x)'
        PROVE  GateInv'
    <2>1. History
      BY <1>1 DEF History
    <2>2. \A y \in Client \ {x} : LeftAlone(y)
      BY <1>1 DEF LeftAlone
    <2> QED
      BY <1>1, <2>1, <2>2, MovesGate
  <1>2. ASSUME NEW x \in Client, NEW p, Goto(x, p)
        PROVE  pc'[x] = p /\ \A y \in Client \ {x} : pc'[y] = pc[y]
    BY <1>2 DEF Goto, TypeOK
  <1>3. ASSUME NEW x \in Client, Create(x) PROVE GateInv'
    <2>1. \A y \in Client \ {x} : LeftAlone(y)
      BY <1>2, <1>3 DEF Create, LeftAlone, TypeOK
    <2>2. History
      BY <1>3 DEF Create, History
    <2>3. GateAt(x)'
      BY <1>2, <1>3, Elsewhere DEF Create, Working
    <2> QED
      BY <2>1, <2>2, <2>3, MovesGate
  <1>4. ASSUME NEW x \in Client, Begin(x) PROVE GateInv'
    <2>1. \E p \in {"validate", "release"} : Goto(x, p)
      BY <1>4 DEF Begin, Move
    <2>2. GateAt(x)' /\ \A y \in Client \ {x} : pc'[y] = pc[y]
      BY <1>2, <2>1, Elsewhere DEF Working
    <2> QED
      BY <1>1, <1>4, <2>2 DEF Begin
  <1>5. ASSUME NEW x \in Client, Validate(x) PROVE GateInv'
    <2>1. UNCHANGED <<approved, expired, inForce, opOf, todo>>
      BY <1>5 DEF Validate, Conclude
    <2>2. CASE Permitted(opOf[x]) /\ Goto(x, "permitted")
      <3>1. pc'[x] = "permitted" /\ \A y \in Client \ {x} : pc'[y] = pc[y]
        BY <1>2, <2>2
      <3>2. Permitted(opOf[x])'
        BY <2>1, <2>2 DEF Permitted
      <3>3. GateAt(x)'
        BY <3>1, <3>2 DEF GateAt, Working
      <3> QED
        BY <1>1, <2>1, <3>1, <3>3
    <2>3. CASE Goto(x, "report")
      BY <1>1, <1>2, <2>1, <2>3, Elsewhere DEF Working
    <2> QED
      BY <1>5, <2>2, <2>3 DEF Validate, Conclude
  <1>6. ASSUME NEW x \in Client, BeginAcquire(x) PROVE GateInv'
    <2>1. UNCHANGED <<approved, expired, inForce, opOf>> /\ pc[x] = "permitted"
          /\ todo' = [todo EXCEPT ![x] = Needs[opOf[x]]]
      BY <1>6 DEF BeginAcquire
    <2>2. \E p \in {"acquire", "release"} : Goto(x, p)
      BY <1>6 DEF BeginAcquire, Move
    <2>3. pc'[x] \in {"acquire", "release"} /\ \A y \in Client \ {x} : pc'[y] = pc[y]
      BY <1>2, <2>2
    <2>4. Permitted(opOf[x])'
      BY <2>1 DEF GateInv, GateAt, Permitted
    <2>5. todo'[x] = Needs[opOf[x]] /\ \A y \in Client \ {x} : todo'[y] = todo[y]
      BY <2>1 DEF TypeOK
    <2>6. GateAt(x)'
      BY <2>1, <2>3, <2>4, <2>5 DEF GateAt, Working
    <2>7. History /\ \A y \in Client \ {x} : LeftAlone(y)
      BY <2>1, <2>3, <2>5 DEF History, LeftAlone
    <2> QED
      BY <2>6, <2>7, MovesGate
  <1>7. ASSUME NEW x \in Client, AcquireNext(x) PROVE GateInv'
    <2> DEFINE r == Head(todo[x])
    <2>1. UNCHANGED <<approved, expired, pc, opOf>> /\ pc[x] = "acquire" /\ todo[x] # <<>>
          /\ todo' = [todo EXCEPT ![x] = Tail(todo[x])]
      BY <1>7 DEF AcquireNext
    <2>2. inForce' = inForce \cup {[holder |-> x, res |-> r, mode |-> "EXCLUSIVE"]}
      BY <1>7 DEF AcquireNext, Locks!Grant
    <2>3. \A q : q = r \/ Held(x, q) => Held(x, q)'
      <3> DEFINE new == [holder |-> x, res |-> r, mode |-> "EXCLUSIVE"]
      <3>1. new.holder = x /\ new.res = r
        OBVIOUS
      <3>2. new \in inForce' /\ inForce \subseteq inForce'
        BY <2>2
      <3> HIDE DEF new
      <3> QED
        BY <3>1, <3>2 DEF Held
    <2>4. todo'[x] = Tail(todo[x]) /\ \A y \in Client \ {x} : todo'[y] = todo[y]
      BY <2>1 DEF TypeOK
    <2>5. \A j \in DOMAIN todo[x] :
            todo[x][j] = r \/ \E k \in DOMAIN todo'[x] : todo'[x][k] = todo[x][j]
      <3>1. todo[x] \in Seq(Resource)
        BY DEF TypeOK
      <3> QED
        BY <2>1, <2>4, <3>1, TailKeeps
    <2>6. GateAt(x)'
      <3>1. Permitted(opOf[x])' /\ pc'[x] = "acquire" /\ opOf'[x] = opOf[x]
        BY <2>1 DEF GateInv, GateAt, Permitted
      <3>2. ASSUME NEW i \in DOMAIN Needs[opOf[x]]
            PROVE  \/ expired \/ Held(x, Needs[opOf[x]][i])'
                   \/ \E j \in DOMAIN todo'[x] : todo'[x][j] = Needs[opOf[x]][i]
        <4>1. \/ expired \/ Held(x, Needs[opOf[x]][i])
              \/ \E j \in DOMAIN todo[x] : todo[x][j] = Needs[opOf[x]][i]
          BY <2>1, <3>2 DEF GateInv, GateAt
        <4>2. Held(x, Needs[opOf[x]][i]) => Held(x, Needs[opOf[x]][i])'
          BY <2>1, <2>3 DEF Held
        <4>3. Needs[opOf[x]][i] = r => Held(x, Needs[opOf[x]][i])'
          <5>1. \A q : q = r => \E l \in inForce' : l.holder = x /\ l.res = q
            BY <2>3 DEF Held
          <5> QED
            BY <2>1, <5>1 DEF Held
        <4>4. CASE \E j \in DOMAIN todo[x] : todo[x][j] = Needs[opOf[x]][i]
          BY <2>5, <4>3, <4>4
        <4> QED
          BY <4>1, <4>2, <4>4
      <3> QED
        BY <2>1, <3>1, <3>2 DEF GateAt, Working, Held
    <2>7. History /\ \A y \in Client \ {x} : LeftAlone(y)
      BY <2>1, <2>2, <2>4 DEF History, LeftAlone
    <2> QED
      BY <2>6, <2>7, MovesGate
  <1>8. ASSUME NEW x \in Client, inForce' = inForce \ LeasesOf(x),
               UNCHANGED <<approved, expired, opOf, todo>>,
               NEW p \in {"report", "done"}, Goto(x, p)
        PROVE  GateInv'
    <2>1. pc'[x] = p /\ \A y \in Client \ {x} : pc'[y] = pc[y]
      BY <1>2, <1>8
    <2>2. GateAt(x)'
      BY <2>1, Elsewhere DEF Working
    <2>3. History /\ \A y \in Client \ {x} : LeftAlone(y)
      BY <1>8, <2>1 DEF History, LeftAlone, LeasesOf
    <2> QED
      BY <2>2, <2>3, MovesGate
  <1>9. ASSUME NEW x \in Client, AcquireFail(x) \/ Release(x) PROVE GateInv'
    BY <1>8, <1>9 DEF AcquireFail, Release, Conclude
  <1>10. ASSUME NEW x \in Client, BeginResolve(x) PROVE GateInv'
    <2>1. UNCHANGED <<approved, expired, inForce, opOf, todo>>
      BY <1>10 DEF BeginResolve
    <2>2. \E p \in {"resolve", "release"} : Goto(x, p)
      BY <1>10 DEF BeginResolve, Move
    <2>3. pc'[x] \in {"resolve", "release"} /\ \A y \in Client \ {x} : pc'[y] = pc[y]
      BY <1>2, <2>2
    <2>4. pc[x] \in {"permitted", "acquire"} /\ Permitted(opOf[x])
      BY <1>10 DEF BeginResolve, GateInv, GateAt
    <2>5. \A i \in DOMAIN Needs[opOf[x]] : expired \/ Held(x, Needs[opOf[x]][i])
      <3>1. DOMAIN <<>> = {}
        OBVIOUS
      <3> QED
        BY <1>10, <3>1 DEF BeginResolve, GateInv, GateAt
    <2>6. Permitted(opOf[x])' /\ \A q : Held(x, q)' <=> Held(x, q)
      BY <2>1, <2>4 DEF Permitted, Held
    <2>7. GateAt(x)'
      BY <2>1, <2>3, <2>5, <2>6 DEF GateAt, Working
    <2> QED
      BY <1>1, <2>1, <2>3, <2>7
  <1>11. ASSUME NEW x \in Client, pc[x] \in Working, NEW p, p # "acquire", Goto(x, p),
                UNCHANGED <<approved, expired, inForce, opOf, todo>>
         PROVE  GateInv'
    <2>1. pc'[x] = p /\ \A y \in Client \ {x} : pc'[y] = pc[y]
      BY <1>2, <1>11
    <2>2. GateAt(x)'
      BY <1>11, <2>1, StillWorking
    <2> QED
      BY <1>1, <1>11, <2>1, <2>2
  <1>12. ASSUME NEW x \in Client, Resolve(x) PROVE GateInv'
    <2>1. UNCHANGED <<approved, expired, inForce, opOf, todo>> /\ pc[x] \in Working
      BY <1>12 DEF Resolve, Move, Conclude, Working
    <2>2. \E p \in {"loop", "release", "report"} : Goto(x, p)
      BY <1>12 DEF Resolve, Move, Conclude
    <2> QED
      BY <1>11, <2>1, <2>2
  <1>13. ASSUME NEW x \in Client, LoopHead(x) \/ Invoke(x) \/ InvokeOk(x) \/ InvokeError(x)
         PROVE  GateInv'
    <2>1. UNCHANGED <<approved, expired, inForce, opOf, todo>> /\ pc[x] \in Working
      BY <1>13 DEF LoopHead, Invoke, InvokeOk, InvokeError, Conclude, Working
    <2>2. \E p \in {"report", "invoke", "applied", "refused", "verify", "observe"} : Goto(x, p)
      BY <1>13 DEF LoopHead, Invoke, InvokeOk, InvokeError, Conclude
    <2> QED
      BY <1>11, <2>1, <2>2
  <1>14. ASSUME NEW x \in Client, Observe(x) \/ Recover(x) PROVE GateInv'
    <2>1. UNCHANGED <<approved, expired, inForce, opOf, todo>> /\ pc[x] \in Working
      BY <1>14 DEF Observe, Recover, Working
    <2>2. \E p \in {"report", "recover", "verify", "loop"} : Goto(x, p)
      BY <1>14 DEF Observe, Recover, TryAgain, ReconcileOnline, Conclude
    <2> QED
      BY <1>11, <2>1, <2>2
  <1>15. ASSUME NEW x \in Client, Verify(x) \/ SetResult(x) \/ LastTransition(x) PROVE GateInv'
    <2>1. UNCHANGED <<approved, expired, inForce, opOf, todo>>
      BY <1>15 DEF Verify, SetResult, LastTransition
    <2>2. \E p \in {"report", "release", "conclude"} : Goto(x, p)
      BY <1>15 DEF Verify, SetResult, LastTransition, Move
    <2>3. GateAt(x)' /\ \A y \in Client \ {x} : pc'[y] = pc[y]
      BY <1>2, <2>2, Elsewhere DEF Working
    <2> QED
      BY <1>1, <2>1, <2>3
  <1>16. ASSUME History, UNCHANGED <<pc, opOf, todo>>, inForce' = inForce \/ expired' = TRUE
         PROVE  GateInv'
    <2> SUFFICES ASSUME NEW y \in Client PROVE GateAt(y)'
      BY DEF GateInv
    <2>1. CASE inForce' = inForce
      BY <1>16, <2>1, LeftAloneGate DEF LeftAlone
    <2>2. CASE expired' = TRUE
      <3>1. GateAt(y) /\ (Permitted(opOf[y]) => Permitted(opOf[y])')
        BY <1>16 DEF GateInv, Permitted, History
      <3> QED
        BY <1>16, <2>2, <3>1 DEF GateAt
    <2> QED
      BY <1>16, <2>1, <2>2
  <1>17. ASSUME NEW o \in Client, Poll(o) \/ CancelCheck(o) \/ CancelFlag(o) \/ Approve(o)
                                  \/ ContextDone(o)
         PROVE  GateInv'
    <2>1. UNCHANGED <<pc, opOf, todo, inForce, expired>> /\ approved \subseteq approved'
      BY <1>17 DEF Poll, WaitLook, WaitTake, CancelCheck, CancelFlag, Approve, ContextDone
    <2> QED
      BY <1>16, <2>1 DEF History
  <1>18. ASSUME NEW l \in inForce, LeaseExpires(l) PROVE GateInv'
    BY <1>16, <1>18 DEF LeaseExpires, History
  <1>19. CASE UNCHANGED vars
    BY <1>16, <1>19 DEF History
  <1> QED
    BY <1>3, <1>4, <1>5, <1>6, <1>7, <1>9, <1>10, <1>12, <1>13, <1>14, <1>15, <1>17, <1>18,
       <1>19, EngineAssumption DEF Next, Prepare, Run, Finish

LEMMA GateKeeps == GateInv => GatesKept
  <1> SUFFICES ASSUME GateInv, NEW x \in Client,
                      pc[x] \in {"invoke", "applied", "refused", "observe", "recover"}
               PROVE  /\ Gate[opOf[x]] = "allow" \/ Gate[opOf[x]] = "approval"
                      /\ Gate[opOf[x]] = "approval" => opOf[x] \in approved
                      /\ \A i \in DOMAIN Needs[opOf[x]] :
                           expired \/ \E l \in inForce : l.holder = x /\ l.res = Needs[opOf[x]][i]
    BY DEF GatesKept
  <1>1. GateAt(x) /\ pc[x] \in Working
    BY DEF GateInv, Working
  <1>2. Permitted(opOf[x])
    BY <1>1 DEF GateAt
  <1>3. \A i \in DOMAIN Needs[opOf[x]] : expired \/ Held(x, Needs[opOf[x]][i])
    BY <1>1 DEF GateAt
  <1> QED
    BY <1>2, <1>3 DEF Permitted, Held

-----------------------------------------------------------------------------
(* Cancellation.  With one executor for each operation, one that is about to *)
(* invoke is RUNNING, which is when Cancel allows one more attempt.          *)

DistinctKeys == \A x, y \in Client : Key[x] = Key[y] => x = y

Attempting == {"loop", "invoke", "applied", "refused", "observe", "recover"}

Allowed(o) == invoked[o] + (IF pc[o] = "invoke" THEN 1 ELSE 0) <= quota[o]

CancelAt(x) ==
  /\ opOf[x] \in {"none", x}
  /\ pc[x] \in Attempting => state[x] = "RUNNING"
  /\ x \in cancelReq => Allowed(x)

CancelInv == \A x \in Client : CancelAt(x)

\* A step of x that touches no other operation and calls no plugin.
LEMMA CancelMoves ==
  ASSUME TypeOK, CancelInv, NEW x \in Client, UNCHANGED <<invoked, quota, cancelReq>>,
         \A y \in Client \ {x} : pc'[y] = pc[y] /\ opOf'[y] = opOf[y] /\ state'[y] = state[y],
         opOf'[x] \in {"none", x},
         pc'[x] \in Attempting => state'[x] = "RUNNING",
         pc'[x] = "invoke" => x \notin cancelReq
  PROVE  CancelInv'
  <1> SUFFICES ASSUME NEW y \in Client PROVE CancelAt(y)'
    BY DEF CancelInv
  <1>1. CancelAt(y)
    BY DEF CancelInv
  <1>2. CASE y # x
    BY <1>1, <1>2 DEF CancelAt, Allowed
  <1>3. CASE y = x
    <2>1. invoked[x] \in Nat /\ quota[x] \in Nat
      BY DEF TypeOK
    <2>2. x \in cancelReq => invoked[x] <= quota[x]
      BY <1>1, <1>3, <2>1 DEF CancelAt, Allowed
    <2>3. x \in cancelReq => Allowed(x)'
      BY <2>1, <2>2 DEF Allowed
    <2> QED
      BY <1>3, <2>3 DEF CancelAt
  <1> QED
    BY <1>2, <1>3

LEMMA CancelStep == DistinctKeys /\ TypeOK /\ CancelInv /\ [Next]_vars => CancelInv'
  <1> SUFFICES ASSUME DistinctKeys, TypeOK, CancelInv, [Next]_vars PROVE CancelInv'
    OBVIOUS
  <1> USE DEF vars, opVars, runVars, userVars, history
  <1>1. ASSUME NEW x \in Client, pc[x] # "idle" PROVE opOf[x] = x
    BY <1>1, EngineAssumption DEF TypeOK, CancelInv, CancelAt
  <1>2. ASSUME NEW x \in Client, NEW p, Goto(x, p)
        PROVE  pc'[x] = p /\ \A y \in Client \ {x} : pc'[y] = pc[y]
    BY <1>2 DEF Goto, TypeOK
  <1>3. ASSUME NEW x \in Client, Create(x) PROVE CancelInv'
    <2>1. Created \subseteq Client
      BY DEF TypeOK, Created
    <2>2. opOf' = [opOf EXCEPT ![x] = x]
      BY <1>3, <2>1 DEF Create, DistinctKeys
    <2>3. opOf'[x] = x /\ \A y \in Client \ {x} : opOf'[y] = opOf[y]
      BY <2>2 DEF TypeOK
    <2>4. pc'[x] = "created" /\ \A y \in Client \ {x} : pc'[y] = pc[y]
      BY <1>2, <1>3 DEF Create
    <2> QED
      BY <1>3, <2>3, <2>4, CancelMoves DEF Create, Attempting
  <1>4. ASSUME NEW x \in Client, pc[x] # "idle", UNCHANGED <<opOf, state, invoked, quota, cancelReq>>,
               NEW p, Goto(x, p), p \in Attempting => pc[x] \in Attempting,
               p = "invoke" => x \notin cancelReq
        PROVE  CancelInv'
    <2>1. pc'[x] = p /\ \A y \in Client \ {x} : pc'[y] = pc[y]
      BY <1>2, <1>4
    <2>2. opOf'[x] = x /\ (pc'[x] \in Attempting => state'[x] = "RUNNING")
      BY <1>1, <1>4, <2>1 DEF CancelInv, CancelAt
    <2> QED
      BY <1>4, <2>1, <2>2, CancelMoves
  <1>5. ASSUME NEW x \in Client, pc[x] # "idle", UNCHANGED <<opOf, invoked, quota, cancelReq>>,
               NEW s, NEW p, Move(x, s, p), p \in Attempting => s = "RUNNING", p # "invoke"
        PROVE  CancelInv'
    <2>1. opOf[x] = x
      BY <1>1, <1>5
    <2>2. \A y \in Client \ {x} : state'[y] = state[y]
      BY <1>5, <2>1 DEF Move, Transition, TypeOK
    <2>3. \A y \in Client \ {x} : pc'[y] = pc[y]
      BY <1>5 DEF Move, Goto, TypeOK
    <2>4. pc'[x] = (IF Refuses(x, s) THEN "release" ELSE p)
      BY <1>2, <1>5, <2>1 DEF Move
    <2>5. state'[x] = (IF Refuses(x, s) THEN state[x] ELSE s)
      BY <1>5, <2>1 DEF Move, Transition, TypeOK
    <2>6. pc'[x] \in Attempting => state'[x] = "RUNNING"
      BY <1>5, <2>4, <2>5 DEF Attempting
    <2>7. pc'[x] # "invoke"
      BY <1>5, <2>4
    <2> QED
      BY <1>5, <2>1, <2>2, <2>3, <2>6, <2>7, CancelMoves
  <1>6. ASSUME NEW x \in Client, Begin(x) \/ BeginAcquire(x) \/ BeginResolve(x) \/ Verify(x)
        PROVE  CancelInv'
    <2>1. pc[x] # "idle" /\ UNCHANGED <<opOf, invoked, quota, cancelReq>>
      BY <1>6 DEF Begin, BeginAcquire, BeginResolve, Verify
    <2>2. \E s, p : Move(x, s, p) /\ p \in {"validate", "acquire", "resolve", "report"}
      BY <1>6 DEF Begin, BeginAcquire, BeginResolve, Verify
    <2> QED
      BY <1>5, <2>1, <2>2 DEF Attempting
  <1>7. ASSUME NEW x \in Client, Resolve(x) PROVE CancelInv'
    <2>1. pc[x] # "idle" /\ UNCHANGED <<opOf, invoked, quota, cancelReq>>
      BY <1>7 DEF Resolve
    <2>2. CASE Move(x, "RUNNING", "loop")
      BY <1>5, <2>1, <2>2
    <2>3. CASE Goto(x, "report") /\ UNCHANGED state
      BY <1>4, <2>1, <2>3 DEF Attempting
    <2> QED
      BY <1>7, <2>2, <2>3 DEF Resolve, Conclude
  <1>8. ASSUME NEW x \in Client, Validate(x) \/ AcquireFail(x) \/ SetResult(x) \/ Release(x)
        PROVE  CancelInv'
    <2>1. pc[x] # "idle" /\ UNCHANGED <<opOf, state, invoked, quota, cancelReq>>
      BY <1>8 DEF Validate, AcquireFail, SetResult, Release
    <2>2. \E p \in {"permitted", "report", "conclude", "done"} : Goto(x, p)
      BY <1>8 DEF Validate, AcquireFail, SetResult, Release, Conclude
    <2> QED
      BY <1>4, <2>1, <2>2 DEF Attempting
  <1>9. ASSUME NEW x \in Client, LoopHead(x) PROVE CancelInv'
    <2>1. pc[x] = "loop" /\ UNCHANGED <<opOf, state, invoked, quota, cancelReq>> /\ opOf[x] = x
      BY <1>1, <1>9 DEF LoopHead, Conclude
    <2>2. \/ Goto(x, "report")
          \/ Goto(x, "invoke") /\ x \notin cancelReq
      BY <1>9, <2>1 DEF LoopHead, Conclude
    <2> QED
      BY <1>4, <2>1, <2>2 DEF Attempting
  <1>10. ASSUME NEW x \in Client, InvokeOk(x) \/ InvokeError(x) \/ Observe(x) \/ Recover(x)
         PROVE  CancelInv'
    <2>1. pc[x] \in Attempting /\ UNCHANGED <<opOf, state, invoked, quota, cancelReq>>
      BY <1>10 DEF InvokeOk, InvokeError, Observe, Recover, Attempting
    <2>2. \E p \in {"verify", "observe", "report", "recover", "loop"} : Goto(x, p)
      BY <1>10 DEF InvokeOk, InvokeError, Observe, Recover, TryAgain, ReconcileOnline, Conclude
    <2> QED
      BY <1>4, <2>1, <2>2 DEF Attempting
  <1>11. ASSUME NEW x \in Client, LastTransition(x) PROVE CancelInv'
    <2>1. opOf[x] = x /\ UNCHANGED <<opOf, invoked, quota, cancelReq>>
      BY <1>1, <1>11 DEF LastTransition
    <2>2. pc'[x] = "release" /\ \A y \in Client \ {x} : pc'[y] = pc[y]
      BY <1>2, <1>11 DEF LastTransition
    <2>3. \A y \in Client \ {x} : state'[y] = state[y]
      BY <1>11, <2>1 DEF LastTransition, Transition, TypeOK
    <2> QED
      BY <2>1, <2>2, <2>3, CancelMoves DEF Attempting
  <1>12. ASSUME NEW x \in Client, Invoke(x) PROVE CancelInv'
    <2>1. opOf[x] = x /\ pc[x] = "invoke" /\ UNCHANGED <<opOf, state, quota, cancelReq>>
          /\ invoked' = [invoked EXCEPT ![x] = invoked[x] + 1]
      BY <1>1, <1>12 DEF Invoke
    <2>2. \E p \in {"applied", "refused"} : Goto(x, p)
      BY <1>12 DEF Invoke
    <2>3. pc'[x] \in {"applied", "refused"} /\ \A y \in Client \ {x} : pc'[y] = pc[y]
      BY <1>2, <2>2
    <2>4. invoked'[x] = invoked[x] + 1 /\ \A y \in Client \ {x} : invoked'[y] = invoked[y]
      BY <2>1 DEF TypeOK
    <2>5. invoked[x] \in Nat /\ quota[x] \in Nat
      BY DEF TypeOK
    <2>6. CancelAt(x)'
      <3>1. CancelAt(x)
        BY DEF CancelInv
      <3>2. x \in cancelReq => invoked[x] + 1 <= quota[x]
        BY <2>1, <3>1 DEF CancelAt, Allowed
      <3>3. x \in cancelReq => Allowed(x)'
        BY <2>1, <2>3, <2>4, <2>5, <3>2 DEF Allowed
      <3>4. state[x] = "RUNNING"
        BY <2>1, <3>1 DEF CancelAt, Attempting
      <3> QED
        BY <2>1, <3>3, <3>4 DEF CancelAt
    <2>7. \A y \in Client \ {x} : CancelAt(y)'
      BY <2>1, <2>3, <2>4 DEF CancelInv, CancelAt, Allowed
    <2> QED
      BY <2>6, <2>7 DEF CancelInv
  <1>13. ASSUME NEW o \in Client, CancelFlag(o) PROVE CancelInv'
    <2>1. /\ UNCHANGED <<state, pc, opOf, invoked>> /\ cancelReq' = cancelReq \cup {o}
          /\ quota' = [quota EXCEPT ![o] = invoked[o] + (IF state[o] = "RUNNING" THEN 1 ELSE 0)]
      BY <1>13 DEF CancelFlag
    <2>2. /\ quota'[o] = invoked[o] + (IF state[o] = "RUNNING" THEN 1 ELSE 0)
          /\ \A y \in Client \ {o} : quota'[y] = quota[y]
      BY <2>1 DEF TypeOK
    <2>3. \A y \in Client \ {o} : CancelAt(y)'
      BY <2>1, <2>2 DEF CancelInv, CancelAt, Allowed
    <2>4. CancelAt(o)'
      <3>1. CancelAt(o) /\ invoked[o] \in Nat
        BY DEF CancelInv, TypeOK
      <3>2. pc[o] = "invoke" => state[o] = "RUNNING"
        BY <3>1 DEF CancelAt, Attempting
      <3>3. Allowed(o)'
        <4>1. CASE state[o] = "RUNNING"
          BY <2>1, <2>2, <3>1, <4>1 DEF Allowed
        <4>2. CASE state[o] # "RUNNING"
          BY <2>1, <2>2, <3>1, <3>2, <4>2 DEF Allowed
        <4> QED
          BY <4>1, <4>2
      <3> QED
        BY <2>1, <3>1, <3>3 DEF CancelAt
    <2> QED
      BY <2>3, <2>4 DEF CancelInv
  <1>14. ASSUME UNCHANGED <<state, pc, opOf, invoked, quota, cancelReq>> PROVE CancelInv'
    BY <1>14 DEF CancelInv, CancelAt, Allowed
  <1>15. ASSUME NEW o \in Client, AcquireNext(o) \/ Poll(o) \/ CancelCheck(o) \/ Approve(o)
                                  \/ ContextDone(o)
         PROVE  CancelInv'
    BY <1>14, <1>15 DEF AcquireNext, Poll, WaitLook, WaitTake, CancelCheck, Approve, ContextDone
  <1>16. ASSUME NEW l \in inForce, LeaseExpires(l) PROVE CancelInv'
    BY <1>14, <1>16 DEF LeaseExpires
  <1>17. CASE UNCHANGED vars
    BY <1>14, <1>17
  <1> QED
    BY <1>3, <1>6, <1>7, <1>8, <1>9, <1>10, <1>11, <1>12, <1>13, <1>15, <1>16, <1>17,
       EngineAssumption DEF Next, Prepare, Run, Finish

LEMMA CancelKeeps == TypeOK /\ CancelInv => CancelStopsAttempts
  <1> SUFFICES ASSUME TypeOK, CancelInv, NEW o \in cancelReq PROVE invoked[o] <= quota[o]
    BY DEF CancelStopsAttempts
  <1>1. o \in Client /\ invoked[o] \in Nat /\ quota[o] \in Nat
    BY DEF TypeOK
  <1>2. Allowed(o)
    BY <1>1 DEF CancelInv, CancelAt
  <1> QED
    BY <1>1, <1>2 DEF Allowed

-----------------------------------------------------------------------------
(* The result of a flash.  What protects the image between Invoke and the     *)
(* version that verify reads back is a lease: two flashes need a common       *)
(* resource, and its lease is EXCLUSIVE.                                      *)

FlashesContend ==
  \A o, p \in Flashes :
    \E i \in DOMAIN Needs[o], j \in DOMAIN Needs[p] : Needs[o][i] = Needs[p][j]

Exclusive ==
  \A l, k \in inForce : l.mode = "EXCLUSIVE" /\ (l.res = k.res => l = k)

\* The places of an executor that has its answer and still its leases.
Closing == {"verify", "report", "conclude", "release"}

Guarded(x) == \A i \in DOMAIN Needs[opOf[x]] : expired \/ Held(x, Needs[opOf[x]][i])

\* Whose flash may not be overwritten now.
Relies(x) == pc[x] = "applied" \/ (pc[x] \in Closing /\ final[x] = "SUCCEEDED")

ResultAt(x) ==
  /\ final[x] = "SUCCEEDED" => pc[x] \in Closing \cup {"done"}
  /\ final[x] = "SUCCEEDED" /\ opOf[x] \in Flashes => Present(opOf[x])
  /\ final[x] = "VERIFY_FAILED" => expired
  /\ pc[x] = "applied" => opOf[x] \in applied
  /\ Relies(x) => Guarded(x)
  /\ Relies(x) /\ opOf[x] \in Flashes => expired \/ flashed = Version[opOf[x]]

Published(o) ==
  /\ state[o] = "SUCCEEDED" /\ o \in Flashes => Present(o)
  /\ state[o] = "VERIFY_FAILED" => expired

\* What is on the device has come there somehow.
Explained == flashed = Installed \/ \E p \in applied \cap Flashes : flashed = Version[p]

ResultInv ==
  /\ Explained
  /\ Exclusive
  /\ \A x \in Client : ResultAt(x)
  /\ \A o \in Client : Published(o)

\* Every lease of an operation is EXCLUSIVE, and a grant respects the others.
LEMMA ExclusiveStep == Exclusive /\ [Next]_vars => Exclusive'
  <1> SUFFICES ASSUME Exclusive, [Next]_vars PROVE Exclusive'
    OBVIOUS
  <1>1. ASSUME NEW x \in Client, AcquireNext(x) PROVE Exclusive'
    <2> DEFINE new == [holder |-> x, res |-> Head(todo[x]), mode |-> "EXCLUSIVE"]
    <2>1. inForce' = inForce \cup {new} /\ \A k \in inForce : Locks!Compatible(new, k)
      BY <1>1 DEF AcquireNext, Locks!Grant
    <2>2. new.mode = "EXCLUSIVE"
      OBVIOUS
    <2> HIDE DEF new
    <2>3. \A k \in inForce : new.res # k.res
      BY <2>1, <2>2 DEF Locks!Compatible
    <2> QED
      BY <2>1, <2>2, <2>3 DEF Exclusive
  <1>2. ASSUME inForce' \subseteq inForce PROVE Exclusive'
    BY <1>2 DEF Exclusive
  <1>3. ASSUME NEW x \in Client, AcquireFail(x) \/ Release(x) PROVE inForce' \subseteq inForce
    BY <1>3 DEF AcquireFail, Release
  <1>4. ASSUME NEW l \in inForce, LeaseExpires(l) PROVE inForce' \subseteq inForce
    BY <1>4 DEF LeaseExpires, Locks!Expire
  <1>5. ASSUME NEW x \in Client,
               \/ Create(x) \/ Begin(x) \/ Validate(x) \/ BeginAcquire(x) \/ BeginResolve(x)
               \/ Resolve(x) \/ Run(x) \/ Verify(x) \/ SetResult(x) \/ LastTransition(x)
               \/ Poll(x) \/ CancelCheck(x) \/ CancelFlag(x) \/ Approve(x) \/ ContextDone(x)
        PROVE  inForce' = inForce
    BY <1>5 DEF Create, Begin, Validate, BeginAcquire, BeginResolve, Resolve, Run, LoopHead,
                Invoke, InvokeOk, InvokeError, Observe, Recover, Verify, SetResult,
                LastTransition, Poll, WaitLook, WaitTake, CancelCheck, CancelFlag, Approve,
                ContextDone
  <1>6. CASE UNCHANGED vars
    BY <1>2, <1>6 DEF vars
  <1> QED
    BY <1>1, <1>2, <1>3, <1>4, <1>5, <1>6, EngineAssumption DEF Next, Prepare, Finish

\* Of two executors that have their leases only one can flash.
LEMMA OneFlasher ==
  ASSUME FlashesContend, Exclusive, ~expired,
         NEW x \in Client, NEW y \in Client, Guarded(x), Guarded(y),
         opOf[x] \in Flashes, opOf[y] \in Flashes
  PROVE  x = y
  <1>1. PICK i \in DOMAIN Needs[opOf[x]], j \in DOMAIN Needs[opOf[y]] :
               Needs[opOf[x]][i] = Needs[opOf[y]][j]
    BY DEF FlashesContend
  <1>2. Held(x, Needs[opOf[x]][i]) /\ Held(y, Needs[opOf[y]][j])
    BY DEF Guarded
  <1> QED
    BY <1>1, <1>2 DEF Held, Exclusive

LEMMA WorkingGuarded ==
  ASSUME GateInv, NEW x \in Client, pc[x] \in Working
  PROVE  Guarded(x)
  BY DEF GateInv, GateAt, Guarded

LEMMA PresentKept ==
  ASSUME applied \subseteq applied', NEW o, Present(o)
  PROVE  Present(o)'
  BY DEF Present

\* What x relies on is left alone by a step of others that keeps its leases and
\* overwrites no flash it relies on.
LEMMA ResultAlone ==
  ASSUME NEW x \in Client, ResultAt(x),
         pc'[x] = pc[x], opOf'[x] = opOf[x], final'[x] = final[x],
         applied \subseteq applied', expired = TRUE => expired' = TRUE,
         expired' = TRUE \/ \A l \in inForce : l.holder = x => l \in inForce',
         Relies(x) /\ opOf[x] \in Flashes => expired \/ flashed' = flashed
  PROVE  ResultAt(x)'
  <1>1. Relies(x)' <=> Relies(x)
    BY DEF Relies
  <1>2. \A r : Held(x, r) => expired' \/ Held(x, r)'
    BY DEF Held
  <1>3. expired => expired'
    BY Zenon
  <1>4. Guarded(x) => Guarded(x)'
    BY <1>2, <1>3 DEF Guarded
  <1>5. \A o : Present(o) => Present(o)'
    BY PresentKept
  <1> QED
    BY <1>1, <1>3, <1>4, <1>5 DEF ResultAt

\* A step in which one executor goes somewhere, and the device stays as it is.
LEMMA ResultMoves ==
  ASSUME TypeOK, ResultInv, Exclusive', NEW x \in Client,
         \A y \in Client \ {x} : pc'[y] = pc[y] /\ opOf'[y] = opOf[y] /\ final'[y] = final[y],
         \A l \in inForce : l.holder # x => l \in inForce',
         UNCHANGED <<applied, flashed, expired>>, ResultAt(x)', \A o \in Client : Published(o)'
  PROVE  ResultInv'
  <1>1. ASSUME NEW y \in Client \ {x} PROVE ResultAt(y)'
    <2>1. \A l \in inForce : l.holder = y => l \in inForce'
      OBVIOUS
    <2> QED
      BY <2>1, ResultAlone DEF ResultInv
  <1>2. Explained'
    BY DEF ResultInv, Explained
  <1> QED
    BY <1>1, <1>2 DEF ResultInv

\* One that neither publishes nor finds a result, and relies on nothing new.
LEMMA ResultElsewhere ==
  ASSUME TypeOK, ResultInv, Exclusive', NEW x \in Client, NEW p \in PC \ {"idle", "applied"},
         pc' = [pc EXCEPT ![x] = p], UNCHANGED <<opOf, applied, flashed, expired>>,
         \/ /\ pc[x] \notin Closing \cup {"done"}
            /\ inForce' = inForce \ {l \in inForce : l.holder = x} \/ inForce' = inForce
         \/ /\ pc[x] \in Closing /\ p \in Closing /\ inForce' = inForce
         \/ /\ pc[x] \in Closing /\ p = "done"
            /\ inForce' = inForce \ {l \in inForce : l.holder = x},
         final' = final \/ \E s \in Terminal \ {"SUCCEEDED", "VERIFY_FAILED"} :
                             final' = [final EXCEPT ![x] = s],
         state' = state \/ \E s \in State \ {"SUCCEEDED", "VERIFY_FAILED"} : Transition(opOf[x], s)
  PROVE  ResultInv'
  <1>1. pc'[x] = p /\ \A y \in Client \ {x} : pc'[y] = pc[y]
    BY DEF TypeOK
  <1>2. /\ final'[x] = final[x] \/ final'[x] \notin {"SUCCEEDED", "VERIFY_FAILED"}
        /\ \A y \in Client \ {x} : final'[y] = final[y]
    BY DEF TypeOK
  <1>3. Relies(x)' => Relies(x) /\ inForce' = inForce
    BY <1>1, <1>2 DEF ResultInv, ResultAt, Relies, Closing
  <1>4. Guarded(x) /\ inForce' = inForce => Guarded(x)'
    BY DEF Guarded, Held
  <1>5. \A o : Present(o) => Present(o)'
    BY PresentKept
  <1>6. ResultAt(x)'
    BY <1>1, <1>2, <1>3, <1>4, <1>5 DEF ResultInv, ResultAt, Closing
  <1>7. \A o \in Client : state'[o] = state[o] \/ state'[o] \notin {"SUCCEEDED", "VERIFY_FAILED"}
    BY DEF Transition, TypeOK
  <1>8. \A o \in Client : Published(o)'
    BY <1>5, <1>7 DEF ResultInv, Published
  <1>9. \A l \in inForce : l.holder # x => l \in inForce'
    OBVIOUS
  <1> QED
    BY <1>1, <1>2, <1>6, <1>8, <1>9, ResultMoves

LEMMA ResultStep ==
  FlashesContend /\ TypeOK /\ GateInv /\ ResultInv /\ [Next]_vars => ResultInv'
  <1> SUFFICES ASSUME FlashesContend, TypeOK, GateInv, ResultInv, [Next]_vars PROVE ResultInv'
    OBVIOUS
  <1> USE DEF vars, opVars, runVars, userVars, history
  <1>1. Exclusive'
    BY ExclusiveStep DEF ResultInv
  <1>2. ASSUME NEW x \in Client, Create(x) PROVE ResultInv'
    <2>1. pc' = [pc EXCEPT ![x] = "created"] /\ pc[x] = "idle"
          /\ UNCHANGED <<state, final, inForce, applied, flashed, expired>>
      BY <1>2 DEF Create, Goto
    <2>2. \A y \in Client \ {x} : opOf'[y] = opOf[y]
      BY <1>2 DEF Create, TypeOK
    <2>3. ResultAt(x)'
      BY <2>1 DEF ResultInv, ResultAt, Relies, Closing, TypeOK
    <2>4. \A o \in Client : Published(o)'
      BY <2>1, PresentKept DEF ResultInv, Published
    <2>5. \A y \in Client \ {x} : pc'[y] = pc[y]
      BY <2>1 DEF TypeOK
    <2> QED
      BY <1>1, <2>1, <2>2, <2>3, <2>4, <2>5, ResultMoves
  <1>3. ASSUME NEW x \in Client, Prepare(x), ~AcquireNext(x) PROVE ResultInv'
    <2>1. UNCHANGED <<opOf, applied, flashed, expired>> /\ pc[x] \notin Closing \cup {"done"}
      BY <1>3 DEF Prepare, Begin, Validate, BeginAcquire, AcquireFail, BeginResolve, Resolve, Closing
    <2>2. \E p \in PC \ {"idle", "applied"} : pc' = [pc EXCEPT ![x] = p]
      BY <1>3 DEF Prepare, Begin, Validate, BeginAcquire, AcquireFail, BeginResolve, Resolve,
                  Move, Conclude, Goto, PC
    <2>3. final' = final \/ \E s \in Terminal \ {"SUCCEEDED", "VERIFY_FAILED"} :
                              final' = [final EXCEPT ![x] = s]
      BY <1>3 DEF Prepare, Begin, Validate, BeginAcquire, AcquireFail, BeginResolve, Resolve,
                  Conclude, Terminal
    <2>4. state' = state \/ \E s \in State \ {"SUCCEEDED", "VERIFY_FAILED"} : Transition(opOf[x], s)
      BY <1>3 DEF Prepare, Begin, Validate, BeginAcquire, AcquireFail, BeginResolve, Resolve,
                  Move, Conclude, State
    <2>5. inForce' = inForce \ {l \in inForce : l.holder = x} \/ inForce' = inForce
      BY <1>3 DEF Prepare, Begin, Validate, BeginAcquire, AcquireFail, BeginResolve, Resolve,
                  LeasesOf
    <2> QED
      BY <1>1, <2>1, <2>2, <2>3, <2>4, <2>5, ResultElsewhere
  <1>4. ASSUME NEW x \in Client, LoopHead(x) \/ InvokeError(x) \/ Recover(x) PROVE ResultInv'
    <2>1. UNCHANGED <<state, opOf, applied, flashed, expired, inForce>>
          /\ pc[x] \notin Closing \cup {"done"}
      BY <1>4 DEF LoopHead, InvokeError, Recover, Closing
    <2>2. \E p \in PC \ {"idle", "applied"} : pc' = [pc EXCEPT ![x] = p]
      BY <1>4 DEF LoopHead, InvokeError, Recover, Conclude, Goto, PC
    <2>3. final' = final \/ \E s \in Terminal \ {"SUCCEEDED", "VERIFY_FAILED"} :
                              final' = [final EXCEPT ![x] = s]
      BY <1>4 DEF LoopHead, InvokeError, Recover, Conclude, Terminal
    <2> QED
      BY <1>1, <2>1, <2>2, <2>3, ResultElsewhere
  <1>5. ASSUME NEW x \in Client, Invoke(x) PROVE ResultInv'
    <2>1. pc[x] = "invoke" /\ UNCHANGED <<state, opOf, final, expired, inForce>>
      BY <1>5 DEF Invoke
    <2>2. CASE Goto(x, "refused") /\ UNCHANGED <<applied, flashed>>
      BY <1>1, <2>1, <2>2, ResultElsewhere DEF Goto, PC, Closing
    <2>3. CASE Goto(x, "applied") /\ applied' = applied \cup {opOf[x]}
               /\ flashed' = IF opOf[x] \in Flashes THEN Version[opOf[x]] ELSE flashed
      <3>1. pc'[x] = "applied" /\ \A y \in Client \ {x} : pc'[y] = pc[y]
        BY <2>3 DEF Goto, TypeOK
      <3>2. Guarded(x) /\ (Guarded(x) => Guarded(x)')
        BY <2>1, WorkingGuarded DEF Working, Guarded, Held
      <3>3. final'[x] \notin {"SUCCEEDED"} /\ (final'[x] = "VERIFY_FAILED" => expired')
        BY <2>1 DEF ResultInv, ResultAt, Closing
      <3>4. ResultAt(x)'
        BY <2>1, <2>3, <3>1, <3>2, <3>3 DEF ResultAt, Relies
      <3>5. ASSUME NEW y \in Client, y # x PROVE ResultAt(y)'
        <4>1. ResultAt(y) /\ pc'[y] = pc[y] /\ opOf'[y] = opOf[y] /\ final'[y] = final[y]
          BY <2>1, <3>1, <3>5 DEF ResultInv
        <4>2. ASSUME Relies(y), opOf[y] \in Flashes, ~expired PROVE flashed' = flashed
          <5>1. Guarded(y) /\ Exclusive
            BY <4>1, <4>2 DEF ResultAt, ResultInv
          <5>2. opOf[x] \notin Flashes
            BY <3>2, <3>5, <4>2, <5>1, OneFlasher
          <5> QED
            BY <2>3, <5>2
        <4> QED
          BY <2>1, <2>3, <4>1, <4>2, ResultAlone
      <3>6. Explained'
        BY <2>3 DEF ResultInv, Explained
      <3>7. \A o \in Client : Published(o)'
        BY <2>1, <2>3, PresentKept DEF ResultInv, Published
      <3> QED
        BY <1>1, <3>4, <3>5, <3>6, <3>7 DEF ResultInv
    <2> QED
      BY <1>5, <2>2, <2>3 DEF Invoke
  <1>6. ASSUME NEW x \in Client, NEW p \in {"verify", "report", "recover"}, NEW s \in Terminal,
               Goto(x, p), final' = [final EXCEPT ![x] = s], pc[x] \in Working,
               UNCHANGED <<state, opOf, applied, flashed, expired, inForce>>,
               s = "VERIFY_FAILED" => expired,
               s = "SUCCEEDED" => /\ p = "verify"
                                  /\ opOf[x] \in Flashes =>
                                       Present(opOf[x]) /\ flashed = Version[opOf[x]]
        PROVE  ResultInv'
    <2>1. pc'[x] = p /\ final'[x] = s
          /\ \A y \in Client \ {x} : pc'[y] = pc[y] /\ final'[y] = final[y]
      BY <1>6 DEF Goto, TypeOK
    <2>2. Guarded(x)'
      BY <1>6, WorkingGuarded DEF Guarded, Held
    <2>3. \A o : Present(o) => Present(o)'
      BY <1>6, PresentKept
    <2>4. ResultAt(x)'
      BY <1>6, <2>1, <2>2, <2>3 DEF ResultAt, Relies, Closing
    <2>5. \A o \in Client : Published(o)'
      BY <1>6, <2>3 DEF ResultInv, Published
    <2> QED
      BY <1>1, <1>6, <2>1, <2>4, <2>5, ResultMoves
  <1>7. ASSUME NEW x \in Client, InvokeOk(x) PROVE ResultInv'
    <2>1. pc[x] = "applied" /\ ResultAt(x) /\ pc[x] \in Working
          /\ UNCHANGED <<state, opOf, applied, flashed, expired, inForce>> /\ Goto(x, "verify")
      BY <1>7 DEF InvokeOk, ResultInv, Working
    <2>2. CASE opOf[x] \in Flashes /\ flashed # Version[opOf[x]]
      <3>1. final' = [final EXCEPT ![x] = "VERIFY_FAILED"] /\ expired
        BY <1>7, <2>1, <2>2 DEF InvokeOk, ResultAt, Relies
      <3> QED
        BY <1>6, <2>1, <3>1 DEF Terminal
    <2>3. CASE ~(opOf[x] \in Flashes /\ flashed # Version[opOf[x]])
      <3>1. final' = [final EXCEPT ![x] = "SUCCEEDED"] /\ opOf[x] \in applied
        BY <1>7, <2>1, <2>3 DEF InvokeOk, ResultAt
      <3>2. opOf[x] \in Flashes => Present(opOf[x]) /\ flashed = Version[opOf[x]]
        BY <2>3, <3>1 DEF Present
      <3> QED
        BY <1>6, <2>1, <3>1, <3>2 DEF Terminal
    <2> QED
      BY <2>2, <2>3
  <1>8. ASSUME NEW x \in Client, Observe(x) PROVE ResultInv'
    <2>1. UNCHANGED <<state, opOf, applied, flashed, expired, inForce>> /\ pc[x] \in Working
      BY <1>8 DEF Observe, Working
    <2>2. CASE opOf[x] \in Flashes /\ Satisfied(opOf[x]) /\ Goto(x, "verify")
               /\ final' = [final EXCEPT ![x] = "SUCCEEDED"]
      <3>1. flashed = Version[opOf[x]] /\ Present(opOf[x])
        BY <2>2 DEF Satisfied, ResultInv, Explained, Present
      <3> QED
        BY <1>6, <2>1, <2>2, <3>1 DEF Terminal
    <2>3. CASE \E p \in {"report", "recover"}, s \in {"RUN_FAILED", "UNKNOWN"} :
                 Goto(x, p) /\ final' = [final EXCEPT ![x] = s]
      BY <1>6, <2>1, <2>3 DEF Terminal
    <2> QED
      BY <1>8, <2>2, <2>3 DEF Observe, ReconcileOnline, TryAgain, Conclude
  <1>9. ASSUME NEW x \in Client, Verify(x) \/ SetResult(x) PROVE ResultInv'
    <2>1. UNCHANGED <<opOf, final, applied, flashed, expired, inForce>> /\ pc[x] \in Closing
      BY <1>9 DEF Verify, SetResult, Closing
    <2>2. \E p \in Closing : pc' = [pc EXCEPT ![x] = p]
      BY <1>9 DEF Verify, SetResult, Move, Goto, Closing
    <2>3. state' = state \/ \E s \in State \ {"SUCCEEDED", "VERIFY_FAILED"} : Transition(opOf[x], s)
      BY <1>9 DEF Verify, SetResult, Move, State
    <2>4. Closing \subseteq PC \ {"idle", "applied"}
      BY DEF Closing, PC
    <2> QED
      BY <1>1, <2>1, <2>2, <2>3, <2>4, ResultElsewhere
  <1>10. ASSUME NEW x \in Client, Release(x) PROVE ResultInv'
    <2>1. UNCHANGED <<state, opOf, final, applied, flashed, expired>> /\ pc[x] \in Closing
          /\ pc' = [pc EXCEPT ![x] = "done"]
          /\ inForce' = inForce \ {l \in inForce : l.holder = x}
      BY <1>10 DEF Release, Closing, Goto, LeasesOf
    <2>2. "done" \in PC \ {"idle", "applied"}
      BY DEF PC
    <2> QED
      BY <1>1, <2>1, <2>2, ResultElsewhere
  <1>11. ASSUME NEW x \in Client, LastTransition(x) PROVE ResultInv'
    <2>1. UNCHANGED <<opOf, final, applied, flashed, expired, inForce>> /\ pc[x] = "conclude"
          /\ pc' = [pc EXCEPT ![x] = "release"] /\ Transition(opOf[x], final[x])
      BY <1>11 DEF LastTransition, Goto
    <2>2. pc'[x] = "release" /\ \A y \in Client \ {x} : pc'[y] = pc[y]
      BY <2>1 DEF TypeOK
    <2>3. \A o : Present(o) => Present(o)'
      BY <2>1, PresentKept
    <2>4. Guarded(x) => Guarded(x)'
      BY <2>1 DEF Guarded, Held
    <2>5. ResultAt(x)'
      BY <2>1, <2>2, <2>3, <2>4 DEF ResultInv, ResultAt, Relies, Closing
    <2>6. \A o \in Client : state'[o] = state[o] \/ (o = opOf[x] /\ state'[o] = final[x])
      BY <2>1 DEF Transition, TypeOK
    <2>7. \A o \in Client : Published(o)'
      BY <2>1, <2>3, <2>6 DEF ResultInv, ResultAt, Published
    <2> QED
      BY <1>1, <2>1, <2>2, <2>5, <2>7, ResultMoves
  <1>12. ASSUME UNCHANGED <<state, pc, opOf, final, applied, flashed>>,
                expired = TRUE => expired' = TRUE, expired' = TRUE \/ inForce \subseteq inForce'
         PROVE  ResultInv'
    <2>1. \A x \in Client : ResultAt(x)'
      BY <1>12, ResultAlone DEF ResultInv
    <2>2. \A o \in Client : Published(o)'
      <3>1. expired => expired'
        BY <1>12, Zenon
      <3> QED
        BY <1>12, <3>1, PresentKept DEF ResultInv, Published
    <2>3. Explained'
      BY <1>12 DEF ResultInv, Explained
    <2> QED
      BY <1>1, <2>1, <2>2, <2>3 DEF ResultInv
  <1>13. ASSUME NEW x \in Client, AcquireNext(x) \/ Poll(x) \/ CancelCheck(x) \/ CancelFlag(x)
                                  \/ Approve(x) \/ ContextDone(x)
         PROVE  ResultInv'
    <2>1. UNCHANGED <<state, pc, opOf, final, applied, flashed, expired>>
          /\ inForce \subseteq inForce'
      BY <1>13 DEF AcquireNext, Locks!Grant, Poll, WaitLook, WaitTake, CancelCheck, CancelFlag,
                   Approve, ContextDone
    <2> QED
      BY <1>12, <2>1
  <1>14. ASSUME NEW l \in inForce, LeaseExpires(l) PROVE ResultInv'
    <2>1. UNCHANGED <<state, pc, opOf, final, applied, flashed>> /\ expired' = TRUE
      BY <1>14 DEF LeaseExpires
    <2> QED
      BY <1>12, <2>1
  <1>15. CASE UNCHANGED vars
    <2>1. UNCHANGED <<state, pc, opOf, final, applied, flashed, expired, inForce>>
      BY <1>15
    <2> QED
      BY <1>12, <2>1
  <1> QED
    BY <1>2, <1>3, <1>4, <1>5, <1>7, <1>8, <1>9, <1>10, <1>11, <1>13, <1>14, <1>15,
       EngineAssumption DEF Next, Run, Finish

-----------------------------------------------------------------------------
(* The lifecycle.  The place of the executor says in which state its          *)
(* operation is, and what it carries in final is a state that may follow;     *)
(* that the answer is this state needs the poll to come after the result.     *)

LifeAt(x) ==
  /\ pc[x] \in {"idle", "created"} => state[x] = "CREATED"
  /\ pc[x] \in {"validate", "permitted"} => state[x] = "VALIDATING"
  /\ pc[x] = "acquire" => state[x] = "WAITING_RESOURCE"
  /\ pc[x] = "resolve" => state[x] = "RESOLVING"
  /\ pc[x] \in Attempting \cup {"verify"} => state[x] = "RUNNING"
  /\ pc[x] = "recover" => final[x] \in {"RUN_FAILED", "UNKNOWN"}
  /\ pc[x] = "verify" => final[x] \in {"SUCCEEDED", "VERIFY_FAILED"}
  /\ pc[x] \in {"report", "conclude"} => final[x] \in Lifecycle!After(state[x])
  /\ pc[x] = "conclude" => result[x] = final[x]
  /\ pc[x] \in {"release", "done"} => state[x] \in Terminal /\ result[x] = state[x]

\* Each operation has one executor, and a poll is answered once.
LifeInv ==
  /\ \A x \in Client : opOf[x] \in {"none", x} /\ LifeAt(x)
  /\ \A o \in polling : answer[o] = "none" /\ state[o] \in Terminal

LifeStep == Lifecycle!Next \/ UNCHANGED <<state, answer>>

\* A step of x in which its operation stays in its state or advances to s.
LEMMA LifeMoves ==
  ASSUME TypeOK, LifeInv, NEW x \in Client, UNCHANGED <<polling, answer>>,
         \A y \in Client \ {x} :
           /\ pc'[y] = pc[y] /\ opOf'[y] = opOf[y] /\ final'[y] = final[y]
           /\ result'[y] = result[y],
         opOf'[x] \in {"none", x}, LifeAt(x)',
         \/ state' = state
         \/ \E s \in Lifecycle!After(state[x]) : state' = [state EXCEPT ![x] = s]
  PROVE  LifeInv' /\ LifeStep
  <1>1. \A y \in Client \ {x} : state'[y] = state[y]
    BY DEF TypeOK
  <1>2. ASSUME NEW y \in Client PROVE opOf'[y] \in {"none", y} /\ LifeAt(y)'
    <2>1. CASE y = x
      BY <2>1
    <2>2. CASE y # x
      BY <1>1, <2>2 DEF LifeInv, LifeAt
    <2> QED
      BY <2>1, <2>2
  <1>3. state[x] \in Terminal => state' = state
    BY DEF Terminal, Lifecycle!After
  <1>4. \A o \in polling' : answer'[o] = "none" /\ state'[o] \in Terminal
    BY <1>1, <1>3 DEF LifeInv, TypeOK
  <1>5. LifeStep
    BY DEF LifeStep, Lifecycle!Next, Lifecycle!Advance
  <1> QED
    BY <1>2, <1>4, <1>5 DEF LifeInv

LEMMA LifeInvStep ==
  DistinctKeys /\ TypeOK /\ LifeInv /\ [Next]_vars => LifeInv' /\ LifeStep
  <1> SUFFICES ASSUME DistinctKeys, TypeOK, LifeInv, [Next]_vars PROVE LifeInv' /\ LifeStep
    OBVIOUS
  <1> USE DEF vars, opVars, runVars, userVars, history
  <1>1. ASSUME NEW x \in Client, pc[x] # "idle" PROVE opOf[x] = x
    BY <1>1, EngineAssumption DEF TypeOK, LifeInv
  <1>2. ASSUME NEW x \in Client, NEW p, Goto(x, p)
        PROVE  pc'[x] = p /\ \A y \in Client \ {x} : pc'[y] = pc[y]
    BY <1>2 DEF Goto, TypeOK
  <1>3. ASSUME NEW x \in Client, Create(x) PROVE LifeInv' /\ LifeStep
    <2>1. Created \subseteq Client
      BY DEF TypeOK, Created
    <2>2. opOf' = [opOf EXCEPT ![x] = x]
      BY <1>3, <2>1 DEF Create, DistinctKeys
    <2>3. opOf'[x] = x /\ \A y \in Client \ {x} : opOf'[y] = opOf[y]
      BY <2>2 DEF TypeOK
    <2>4. pc'[x] = "created" /\ \A y \in Client \ {x} : pc'[y] = pc[y]
      BY <1>2, <1>3 DEF Create
    <2>5. UNCHANGED <<state, result, final, polling, answer>> /\ state[x] = "CREATED"
      BY <1>3 DEF Create, LifeInv, LifeAt
    <2>6. LifeAt(x)'
      BY <2>4, <2>5 DEF LifeAt, Attempting
    <2> QED
      BY <2>3, <2>4, <2>5, <2>6, LifeMoves
  <1>4. ASSUME NEW x \in Client, pc[x] # "idle", NEW p, Goto(x, p),
               UNCHANGED <<state, result, opOf, polling, answer>>,
               final' = final \/ \E s \in Terminal : final' = [final EXCEPT ![x] = s],
               LifeAt(x)'
        PROVE  LifeInv' /\ LifeStep
    <2>1. pc'[x] = p /\ \A y \in Client \ {x} : pc'[y] = pc[y]
      BY <1>2, <1>4
    <2>2. \A y \in Client \ {x} : final'[y] = final[y]
      BY <1>4 DEF TypeOK
    <2>3. opOf'[x] \in {"none", x}
      BY <1>4 DEF LifeInv
    <2> QED
      BY <1>4, <2>1, <2>2, <2>3, LifeMoves
  <1>5. ASSUME NEW x \in Client, pc[x] # "idle", LifeAt(x), NEW p, NEW s \in Terminal, Goto(x, p),
               UNCHANGED <<state, result, opOf, polling, answer>>,
               final' = [final EXCEPT ![x] = s],
               \/ p = "report" /\ s \in Lifecycle!After(state[x])
               \/ p = "recover" /\ s \in {"RUN_FAILED", "UNKNOWN"} /\ state[x] = "RUNNING"
               \/ p = "verify" /\ s \in {"SUCCEEDED", "VERIFY_FAILED"} /\ state[x] = "RUNNING"
        PROVE  LifeInv' /\ LifeStep
    <2>1. pc'[x] = p /\ final'[x] = s
      BY <1>2, <1>5 DEF TypeOK
    <2>2. LifeAt(x)'
      BY <1>5, <2>1 DEF LifeAt, Attempting
    <2> QED
      BY <1>4, <1>5, <2>2
  <1>6. ASSUME NEW x \in Client, pc[x] # "idle", NEW s, NEW p, Move(x, s, p),
               s \in Lifecycle!After(state[x]), state[x] \notin Terminal,
               UNCHANGED <<result, opOf, final, polling, answer>>,
               pc'[x] = p /\ state'[x] = s => LifeAt(x)'
        PROVE  LifeInv' /\ LifeStep
    <2>1. opOf[x] = x
      BY <1>1, <1>6
    <2>2. ~Refuses(x, s)
      BY <1>6 DEF Refuses
    <2>3. state' = [state EXCEPT ![x] = s] /\ Goto(x, p)
      BY <1>6, <2>1, <2>2 DEF Move, Transition
    <2>4. pc'[x] = p /\ \A y \in Client \ {x} : pc'[y] = pc[y]
      BY <1>2, <2>3
    <2>5. state'[x] = s
      BY <2>3 DEF TypeOK
    <2>6. LifeAt(x)'
      BY <1>6, <2>4, <2>5
    <2> QED
      BY <1>6, <2>1, <2>3, <2>4, <2>6, LifeMoves
  <1>7. ASSUME NEW x \in Client, Begin(x) \/ BeginAcquire(x) \/ BeginResolve(x)
        PROVE  LifeInv' /\ LifeStep
    <2>1. pc[x] # "idle" /\ LifeAt(x) /\ UNCHANGED <<result, opOf, final, polling, answer>>
      BY <1>7 DEF Begin, BeginAcquire, BeginResolve, LifeInv
    <2>2. PICK s, p :
            /\ s \in Lifecycle!After(state[x])
            /\ Move(x, s, p) /\ state[x] \notin Terminal
            /\ <<s, p>> \in {<<"VALIDATING", "validate">>, <<"WAITING_RESOURCE", "acquire">>,
                             <<"RESOLVING", "resolve">>}
      BY <1>7, <2>1 DEF Begin, BeginAcquire, BeginResolve, LifeAt, Lifecycle!After, Terminal
    <2>3. pc'[x] = p /\ state'[x] = s => LifeAt(x)'
      BY <2>2 DEF LifeAt, Attempting
    <2> QED
      BY <1>6, <2>1, <2>2, <2>3
  <1>8. ASSUME NEW x \in Client, Validate(x) PROVE LifeInv' /\ LifeStep
    <2>1. pc[x] = "validate" /\ LifeAt(x) /\ state[x] = "VALIDATING"
          /\ UNCHANGED <<state, result, opOf, polling, answer>>
      BY <1>8 DEF Validate, LifeInv, LifeAt
    <2>2. CASE Goto(x, "permitted") /\ UNCHANGED final
      <3>1. LifeAt(x)'
        BY <1>2, <2>1, <2>2 DEF LifeAt, Attempting
      <3> QED
        BY <1>4, <2>1, <2>2, <3>1
    <2>3. CASE Conclude(x, "VALIDATION_FAILED")
      BY <1>5, <2>1, <2>3 DEF Conclude, Lifecycle!After, Terminal
    <2> QED
      BY <1>8, <2>2, <2>3 DEF Validate
  <1>9. ASSUME NEW x \in Client, AcquireFail(x) PROVE LifeInv' /\ LifeStep
    <2>1. pc[x] = "acquire" /\ LifeAt(x) /\ state[x] = "WAITING_RESOURCE"
          /\ UNCHANGED <<state, result, opOf, polling, answer>>
      BY <1>9 DEF AcquireFail, LifeInv, LifeAt
    <2> QED
      BY <1>5, <1>9, <2>1 DEF AcquireFail, Conclude, Lifecycle!After, Terminal
  <1>10. ASSUME NEW x \in Client, Resolve(x) PROVE LifeInv' /\ LifeStep
    <2>1. pc[x] = "resolve" /\ LifeAt(x) /\ state[x] = "RESOLVING"
          /\ UNCHANGED <<result, opOf, polling, answer>>
      BY <1>10 DEF Resolve, LifeInv, LifeAt
    <2>2. CASE Move(x, "RUNNING", "loop") /\ UNCHANGED final
      <3>1. pc'[x] = "loop" /\ state'[x] = "RUNNING" => LifeAt(x)'
        BY DEF LifeAt, Attempting
      <3> QED
        BY <1>6, <2>1, <2>2, <3>1 DEF Lifecycle!After, Terminal
    <2>3. CASE Conclude(x, "RESOLVE_FAILED") /\ UNCHANGED state
      BY <1>5, <2>1, <2>3 DEF Conclude, Lifecycle!After, Terminal
    <2> QED
      BY <1>10, <2>2, <2>3 DEF Resolve
  <1>11. ASSUME NEW x \in Client, NEW p \in Attempting \ {"recover"}, Goto(x, p), UNCHANGED final,
                pc[x] \in Attempting, UNCHANGED <<state, result, opOf, polling, answer>>
         PROVE  LifeInv' /\ LifeStep
    <2>1. pc'[x] = p /\ state'[x] = "RUNNING"
      BY <1>2, <1>11 DEF LifeInv, LifeAt
    <2>2. LifeAt(x)'
      BY <1>11, <2>1 DEF LifeAt, Attempting
    <2> QED
      BY <1>4, <1>11, <2>2 DEF Attempting
  <1>12. ASSUME NEW x \in Client, LoopHead(x) \/ Invoke(x) \/ InvokeOk(x) \/ InvokeError(x)
                                  \/ Observe(x) \/ Recover(x)
         PROVE  LifeInv' /\ LifeStep
    <2>1. /\ pc[x] \in Attempting /\ pc[x] # "idle"
          /\ UNCHANGED <<state, result, opOf, polling, answer>>
      BY <1>12 DEF LoopHead, Invoke, InvokeOk, InvokeError, Observe, Recover, Attempting
    <2>2. state[x] = "RUNNING" /\ LifeAt(x)
      BY <2>1 DEF LifeInv, LifeAt
    <2>3. CASE UNCHANGED final /\ \E p \in Attempting \ {"recover"} : Goto(x, p)
      BY <1>11, <2>1, <2>3
    <2>4. CASE \E s \in {"CANCELLED", "RUN_FAILED", "UNKNOWN"} :
                 Goto(x, "report") /\ final' = [final EXCEPT ![x] = s]
      BY <1>5, <2>1, <2>2, <2>4 DEF Lifecycle!After, Terminal
    <2>5. CASE \E s \in {"RUN_FAILED", "UNKNOWN"} :
                 Goto(x, "recover") /\ final' = [final EXCEPT ![x] = s]
      BY <1>5, <2>1, <2>2, <2>5 DEF Terminal
    <2>6. CASE \E s \in {"SUCCEEDED", "VERIFY_FAILED"} :
                 Goto(x, "verify") /\ final' = [final EXCEPT ![x] = s]
      BY <1>5, <2>1, <2>2, <2>6 DEF Terminal
    <2>7. CASE LoopHead(x)
      BY <2>3, <2>4, <2>7 DEF LoopHead, Conclude, Attempting
    <2>8. CASE Invoke(x) \/ InvokeError(x)
      BY <2>3, <2>8 DEF Invoke, InvokeError, Attempting
    <2>9. CASE InvokeOk(x)
      BY <2>6, <2>9 DEF InvokeOk
    <2>10. CASE Observe(x)
      BY <2>4, <2>5, <2>6, <2>10 DEF Observe, TryAgain, ReconcileOnline, Conclude
    <2>11. CASE Recover(x)
      <3>1. CASE Goto(x, "loop")
        BY <2>3, <2>11, <3>1 DEF Recover, Attempting
      <3>2. CASE Goto(x, "report")
        <4>1. pc'[x] = "report" /\ UNCHANGED final /\ final[x] \in {"RUN_FAILED", "UNKNOWN"}
          BY <1>2, <2>2, <2>11, <3>2 DEF Recover, LifeAt
        <4>2. LifeAt(x)'
          BY <2>1, <2>2, <4>1 DEF LifeAt, Attempting, Lifecycle!After
        <4> QED
          BY <1>4, <2>1, <3>2, <4>1, <4>2
      <3> QED
        BY <2>11, <3>1, <3>2 DEF Recover
    <2> QED
      BY <1>12, <2>7, <2>8, <2>9, <2>10, <2>11
  <1>13. ASSUME NEW x \in Client, Verify(x) PROVE LifeInv' /\ LifeStep
    <2>1. pc[x] = "verify" /\ state[x] = "RUNNING" /\ final[x] \in {"SUCCEEDED", "VERIFY_FAILED"}
          /\ UNCHANGED <<result, opOf, final, polling, answer>>
      BY <1>13 DEF Verify, LifeInv, LifeAt
    <2>2. pc'[x] = "report" /\ state'[x] = "VERIFYING" => LifeAt(x)'
      BY <2>1 DEF LifeAt, Attempting, Lifecycle!After
    <2> QED
      BY <1>6, <1>13, <2>1, <2>2 DEF Verify, Lifecycle!After, Terminal
  <1>14. ASSUME NEW x \in Client, SetResult(x) PROVE LifeInv' /\ LifeStep
    <2>1. pc[x] = "report" /\ opOf[x] = x /\ LifeAt(x)
          /\ UNCHANGED <<state, opOf, final, polling, answer>>
      BY <1>1, <1>14 DEF SetResult, LifeInv
    <2>2. result'[x] = final[x] /\ \A y \in Client \ {x} : result'[y] = result[y]
      BY <1>14, <2>1 DEF SetResult, TypeOK
    <2>3. pc'[x] = "conclude" /\ \A y \in Client \ {x} : pc'[y] = pc[y]
      BY <1>2, <1>14 DEF SetResult
    <2>4. LifeAt(x)'
      BY <2>1, <2>2, <2>3 DEF LifeAt, Attempting
    <2> QED
      BY <2>1, <2>2, <2>3, <2>4, LifeMoves
  <1>15. ASSUME NEW x \in Client, LastTransition(x) PROVE LifeInv' /\ LifeStep
    <2>1. /\ pc[x] = "conclude" /\ opOf[x] = x /\ UNCHANGED <<result, opOf, final, polling, answer>>
          /\ final[x] \in Lifecycle!After(state[x]) /\ result[x] = final[x]
      BY <1>1, <1>15 DEF LastTransition, LifeInv, LifeAt
    <2>2. state[x] \notin Terminal
      BY <2>1 DEF Lifecycle!After, Terminal
    <2>3. state' = [state EXCEPT ![x] = final[x]]
      BY <1>15, <2>1, <2>2 DEF LastTransition, Transition, Refuses
    <2>4. pc'[x] = "release" /\ \A y \in Client \ {x} : pc'[y] = pc[y]
      BY <1>2, <1>15 DEF LastTransition
    <2>5. state'[x] = final[x] /\ final[x] \in Terminal
      BY <2>3 DEF TypeOK
    <2>6. LifeAt(x)'
      BY <2>1, <2>4, <2>5 DEF LifeAt, Attempting
    <2> QED
      BY <2>1, <2>3, <2>4, <2>6, LifeMoves
  <1>16. ASSUME NEW x \in Client, Release(x) PROVE LifeInv' /\ LifeStep
    <2>1. pc[x] = "release" /\ LifeAt(x) /\ Goto(x, "done")
          /\ UNCHANGED <<state, result, opOf, final, polling, answer>>
      BY <1>16 DEF Release, LifeInv
    <2>2. LifeAt(x)'
      BY <1>2, <2>1 DEF LifeAt, Attempting
    <2> QED
      BY <1>4, <2>1, <2>2
  <1>17. ASSUME NEW o \in Client, WaitLook(o) PROVE LifeInv' /\ LifeStep
    <2>1. UNCHANGED <<state, result, pc, opOf, final, answer>> /\ polling' = polling \cup {o}
          /\ answer[o] = "none" /\ state[o] \in Terminal
      BY <1>17 DEF WaitLook
    <2> QED
      BY <2>1 DEF LifeInv, LifeAt, LifeStep
  <1>18. ASSUME NEW o \in Client, WaitTake(o) PROVE LifeInv' /\ LifeStep
    <2>1. o \in polling /\ polling' = polling \ {o} /\ UNCHANGED <<state, result, pc, opOf, final>>
      BY <1>18 DEF WaitTake
    <2>2. answer[o] = "none" /\ state[o] \in Terminal /\ LifeAt(o) /\ pc[o] \in PC
      BY <2>1 DEF LifeInv, TypeOK
    <2>3. pc[o] \in {"release", "done"}
      BY <2>2 DEF LifeAt, Attempting, PC, Terminal, Lifecycle!After
    <2>4. result[o] = state[o] /\ result[o] # "none"
      BY <2>2, <2>3 DEF LifeAt, Terminal
    <2>5. answer' = [answer EXCEPT ![o] = state[o]]
      BY <1>18, <2>4 DEF WaitTake
    <2>6. \A y \in Client \ {o} : answer'[y] = answer[y]
      BY <2>5 DEF TypeOK
    <2>7. LifeInv'
      BY <2>1, <2>6 DEF LifeInv, LifeAt, TypeOK
    <2>8. Lifecycle!Answer(o)
      BY <2>1, <2>2, <2>5 DEF Lifecycle!Answer, Lifecycle!Terminal, Terminal
    <2> QED
      BY <2>7, <2>8 DEF LifeStep, Lifecycle!Next
  <1>19. ASSUME UNCHANGED <<state, result, pc, opOf, final, polling, answer>>
         PROVE  LifeInv' /\ LifeStep
    BY <1>19 DEF LifeInv, LifeAt, LifeStep
  <1>20. ASSUME NEW x \in Client, AcquireNext(x) \/ CancelCheck(x) \/ CancelFlag(x) \/ Approve(x)
                                  \/ ContextDone(x)
         PROVE  LifeInv' /\ LifeStep
    <2>1. UNCHANGED <<state, result, pc, opOf, final, polling, answer>>
      BY <1>20 DEF AcquireNext, CancelCheck, CancelFlag, Approve, ContextDone
    <2> QED
      BY <1>19, <2>1
  <1>21. ASSUME NEW l \in inForce, LeaseExpires(l) PROVE LifeInv' /\ LifeStep
    <2>1. UNCHANGED <<state, result, pc, opOf, final, polling, answer>>
      BY <1>21 DEF LeaseExpires
    <2> QED
      BY <1>19, <2>1
  <1>22. CASE UNCHANGED vars
    <2>1. UNCHANGED <<state, result, pc, opOf, final, polling, answer>>
      BY <1>22
    <2> QED
      BY <1>19, <2>1
  <1> QED
    BY <1>3, <1>7, <1>8, <1>9, <1>10, <1>12, <1>13, <1>14, <1>15, <1>16, <1>17, <1>18, <1>20,
       <1>21, <1>22, EngineAssumption DEF Next, Prepare, Run, Finish, Poll

-----------------------------------------------------------------------------
(* The theorems *)

\* The inductive invariant holds in every reachable state.
THEOREM EngineInvariant == Spec => []EngineInv
  BY InitEngineInv, EngineInvStep, PTL DEF Spec

\* Every variable keeps its type, and no executor makes more than MaxRetries
\* attempts after its first.
THEOREM EngineTypeCorrect == Spec => []TypeOK
  <1>1. EngineInv => TypeOK
    BY DEF EngineInv
  <1> QED
    BY <1>1, EngineInvariant, PTL

\* A terminal state is never left, however many goroutines execute the same
\* operation and whatever they find.
THEOREM TerminalStable == Spec => TerminalStaysTerminal
  <1>1. EngineInv /\ [Next]_vars =>
          [\A o \in Client : state[o] \in Terminal => state'[o] = state[o]]_vars
    BY TerminalStep DEF EngineInv
  <1> QED
    BY <1>1, EngineInvariant, PTL DEF Spec, TerminalStaysTerminal

\* Wait always returns a result: a terminal state is published only after it.
THEOREM WaitAnswered == Spec => []WaitNeverReturnsNil
  <1>1. EngineInv => WaitNeverReturnsNil
    BY DEF EngineInv
  <1> QED
    BY <1>1, EngineInvariant, PTL

\* No operation reaches its device without permission and without the leases
\* that it needs and that have not expired, whatever the others do.
THEOREM GatesHold == Spec => []GatesKept
  <1>1. Init => GateInv
    BY DEF Init, GateInv, GateAt, Working
  <1>2. EngineInv => TypeOK
    BY DEF EngineInv
  <1> QED
    BY <1>1, <1>2, EngineInvariant, GateStep, GateKeeps, PTL DEF Spec

\* After Cancel has returned nil an operation that runs makes one more attempt
\* at most and another one none, as long as each is executed once.
THEOREM CancelHolds == DistinctKeys => (Spec => []CancelStopsAttempts)
  <1> SUFFICES ASSUME DistinctKeys PROVE Spec => []CancelStopsAttempts
    OBVIOUS
  <1>1. Init => CancelInv
    BY DEF Init, CancelInv, CancelAt, Attempting
  <1>2. TypeOK /\ CancelInv /\ [Next]_vars => CancelInv'
    BY CancelStep
  <1> QED
    BY <1>1, <1>2, EngineTypeCorrect, CancelKeeps, PTL DEF Spec

\* If all flashes are of one device, a flash that is found to have SUCCEEDED has
\* its version on the device until its leases are given back or one expires,
\* somebody put that version there, and none reads back the version of another
\* flash before a lease expires.
THEOREM FlashResult == FlashesContend => (Spec => []FlashResultIsReal)
  <1> SUFFICES ASSUME FlashesContend PROVE Spec => []FlashResultIsReal
    OBVIOUS
  <1>1. Init => GateInv /\ ResultInv
    BY DEF Init, GateInv, GateAt, Working, ResultInv, ResultAt, Relies, Closing, Explained,
           Published, Exclusive
  <1>2. TypeOK /\ GateInv /\ ResultInv /\ [Next]_vars => GateInv' /\ ResultInv'
    BY GateStep, ResultStep
  <1>3. ResultInv => FlashResultIsReal
    BY EngineAssumption DEF ResultInv, ResultAt, Relies, Closing, Published, FlashResultIsReal
  <1> QED
    BY <1>1, <1>2, <1>3, EngineTypeCorrect, PTL DEF Spec

\* The engine implements the lifecycle when every operation is executed once:
\* each step advances one operation along it, answers one Wait with the state
\* the operation stays in, or changes neither.
THEOREM LifecycleImplemented == DistinctKeys => (Spec => LifecycleKept)
  <1> SUFFICES ASSUME DistinctKeys PROVE Spec => LifecycleKept
    OBVIOUS
  <1>1. Init => LifeInv
    BY DEF Init, LifeInv, LifeAt, Attempting
  <1>2. TypeOK /\ LifeInv /\ [Next]_vars => LifeInv' /\ [Lifecycle!Next]_<<state, answer>>
    BY LifeInvStep DEF LifeStep
  <1>3. Init => Lifecycle!Init
    BY DEF Init, Lifecycle!Init
  <1> QED
    BY <1>1, <1>2, <1>3, EngineTypeCorrect, PTL DEF Spec, LifecycleKept, Lifecycle!Spec
=============================================================================
