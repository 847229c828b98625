------------------------ MODULE FarmSchedulerProofs ------------------------
(***************************************************************************)
(* Proofs about FarmScheduler, for any number of tasks, workers and        *)
(* devices, any priorities, requests and bounds on concurrency.            *)
(*                                                                         *)
(* Neither that a busy device is busy with a task that runs, nor that a    *)
(* stopped farm is quiet, is inductive.  FarmInv adds what they rest on: a *)
(* task that runs has exactly one worker, an entry of the pool is among    *)
(* what that worker's batch has or will resolve, because the registry only *)
(* grows, and a lease belongs to a goroutine of a batch that still runs.   *)
(* For these it does not matter which of the pending tasks dequeue picks.  *)
(* That the farm implements TaskQueue does: it rests on QueueInv, by which *)
(* every task that was submitted has one place in the order.               *)
(***************************************************************************)
EXTENDS FarmScheduler, SequenceTheorems, TLAPS

AtTask == {"mark", "resolve", "batch"}

\* A worker beyond dequeue has a task that is RUNNING, and no other worker has;
\* its batch has goroutines only while it waits for them.
JobKept ==
  \A w \in Worker :
    /\ pc[w] \in AtTask => job[w] \in Task /\ state[job[w]] = "RUNNING"
    /\ pc[w] \notin AtTask => job[w] = NoTask
    /\ pc[w] # "batch" => \A d \in Device : exec[w][d] = "none"

OneWorker ==
  \A v, w \in Worker : job[v] \in Task /\ job[v] = job[w] => v = w

RunningHasWorker ==
  \A t \in Task : state[t] = "RUNNING" => \E w \in Worker : job[w] = t

\* markDone will find the device among the results of the batch.
WillBeDone(w, d) ==
  \/ pc[w] = "resolve" /\ d \in Chosen(known, job[w])
  \/ pc[w] = "batch" /\ exec[w][d] # "none"

BusyMarked ==
  \A d \in Device :
    pool[d] \in Task => \E w \in Worker : job[w] = pool[d] /\ WillBeDone(w, d)

LeaseIsWorking ==
  \A d \in Device :
    lease[d] # "free" => lease[d] \in Worker /\ exec[lease[d]][d] = "working"

FarmInv ==
  /\ TypeOK
  /\ JobKept
  /\ OneWorker
  /\ RunningHasWorker
  /\ BusyMarked
  /\ LeaseIsWorking
  /\ NoLostWakeup

LEMMA InitFarmInv == Init => FarmInv
  <1> SUFFICES ASSUME Init PROVE FarmInv
    OBVIOUS
  <1>1. TypeOK
    BY EmptySeq DEF Init, TypeOK, TaskState, WorkerPC, ExecPC
  <1>2. JobKept /\ OneWorker
    BY FarmAssumption DEF Init, JobKept, AtTask, OneWorker
  <1>3. RunningHasWorker /\ BusyMarked /\ LeaseIsWorking /\ NoLostWakeup
    BY FarmAssumption DEF Init, RunningHasWorker, BusyMarked, LeaseIsWorking, NoLostWakeup, Pending
  <1> QED
    BY <1>1, <1>2, <1>3 DEF FarmInv

-----------------------------------------------------------------------------
(* The clients *)

LEMMA SubmitInv ==
  ASSUME FarmInv, NEW t \in Task, Submit(t)
  PROVE  FarmInv'
  <1> USE DEF FarmInv, Submit
  <1>1. TypeOK'
    BY AppendProperties DEF TypeOK, TaskState, batchVars
  <1>2. JobKept' /\ OneWorker'
    BY DEF TypeOK, JobKept, AtTask, OneWorker, batchVars
  <1>3. RunningHasWorker' /\ LeaseIsWorking'
    BY DEF TypeOK, RunningHasWorker, LeaseIsWorking, batchVars
  <1>4. BusyMarked'
    BY DEF TypeOK, BusyMarked, WillBeDone, Chosen, batchVars
  <1>5. NoLostWakeup'
    BY DEF NoLostWakeup
  <1> QED
    BY <1>1, <1>2, <1>3, <1>4, <1>5

LEMMA CancelInv ==
  ASSUME FarmInv, NEW t \in Task, Cancel(t)
  PROVE  FarmInv'
  <1> USE DEF FarmInv, Cancel
  <1>1. TypeOK'
    BY DEF TypeOK, TaskState, batchVars
  <1>2. JobKept' /\ OneWorker'
    BY DEF TypeOK, JobKept, AtTask, OneWorker, batchVars
  <1>3. RunningHasWorker' /\ LeaseIsWorking'
    BY DEF TypeOK, RunningHasWorker, LeaseIsWorking, batchVars
  <1>4. BusyMarked'
    BY DEF TypeOK, BusyMarked, WillBeDone, Chosen, batchVars
  <1>5. NoLostWakeup'
    BY DEF TypeOK, NoLostWakeup, Pending
  <1> QED
    BY <1>1, <1>2, <1>3, <1>4, <1>5

LEMMA StopInv ==
  ASSUME FarmInv, Stop
  PROVE  FarmInv'
  <1> USE DEF FarmInv, Stop
  <1>1. TypeOK'
    BY DEF TypeOK, batchVars
  <1>2. JobKept' /\ OneWorker' /\ RunningHasWorker' /\ LeaseIsWorking'
    BY DEF JobKept, AtTask, OneWorker, RunningHasWorker, LeaseIsWorking, batchVars
  <1>3. BusyMarked' /\ NoLostWakeup'
    BY DEF BusyMarked, WillBeDone, Chosen, NoLostWakeup, Pending, batchVars
  <1> QED
    BY <1>1, <1>2, <1>3

LEMMA FindInv ==
  ASSUME FarmInv, NEW d \in Device, Find(d)
  PROVE  FarmInv'
  <1> USE DEF FarmInv, Find
  <1>1. TypeOK'
    BY DEF TypeOK, queueVars, batchVars
  <1>2. JobKept' /\ OneWorker' /\ RunningHasWorker' /\ LeaseIsWorking'
    BY DEF JobKept, AtTask, OneWorker, RunningHasWorker, LeaseIsWorking, queueVars, batchVars
  <1>3. BusyMarked' /\ NoLostWakeup'
    BY DEF BusyMarked, WillBeDone, Chosen, NoLostWakeup, Pending, queueVars, batchVars
  <1> QED
    BY <1>1, <1>2, <1>3

-----------------------------------------------------------------------------
(* dequeue *)

LEMMA DequeueInv ==
  ASSUME FarmInv, NEW w \in Worker, Dequeue(w)
  PROVE  FarmInv'
  <1> USE DEF FarmInv
  <1>1. ASSUME NEW t \in Pending,
               state' = [state EXCEPT ![t] = "RUNNING"],
               job' = [job EXCEPT ![w] = t],
               pc' = [pc EXCEPT ![w] = "mark"]
        PROVE  FarmInv'
    <2>0. /\ pc[w] = "scan" /\ t \in Task /\ state[t] = "PENDING"
          /\ UNCHANGED <<order, ready, stop, known, pool, exec, lease>>
          /\ job[w] = NoTask
      BY <1>1 DEF Dequeue, Pending, batchVars, JobKept, AtTask
    <2>1. TypeOK'
      BY <1>1, <2>0 DEF TypeOK, TaskState, WorkerPC
    <2>2. \A v \in Worker : job[v] # t
      BY <2>0, FarmAssumption DEF JobKept, AtTask
    <2>3. JobKept'
      BY <1>1, <2>0 DEF TypeOK, JobKept, AtTask
    <2>4. OneWorker' /\ RunningHasWorker'
      BY <1>1, <2>0, <2>2, FarmAssumption DEF TypeOK, OneWorker, RunningHasWorker
    <2>5. BusyMarked' /\ LeaseIsWorking'
      BY <1>1, <2>0, FarmAssumption DEF TypeOK, BusyMarked, WillBeDone, Chosen, LeaseIsWorking
    <2>6. NoLostWakeup'
      BY <1>1, <2>0 DEF TypeOK, NoLostWakeup
    <2> QED
      BY <2>1, <2>3, <2>4, <2>5, <2>6
  <1>2. ASSUME Pending = {}, pc' = [pc EXCEPT ![w] = "wait"], UNCHANGED <<state, job>>
        PROVE  FarmInv'
    <2>0. /\ pc[w] = "scan"
          /\ UNCHANGED <<order, ready, stop, known, pool, exec, lease>>
      BY DEF Dequeue, batchVars
    <2>1. TypeOK'
      BY <1>2, <2>0 DEF TypeOK, WorkerPC
    <2>2. JobKept' /\ OneWorker' /\ RunningHasWorker' /\ LeaseIsWorking'
      BY <1>2, <2>0 DEF TypeOK, JobKept, AtTask, OneWorker, RunningHasWorker, LeaseIsWorking
    <2>3. BusyMarked' /\ NoLostWakeup'
      BY <1>2, <2>0 DEF TypeOK, BusyMarked, WillBeDone, Chosen, NoLostWakeup, Pending
    <2> QED
      BY <2>1, <2>2, <2>3
  <1> QED
    BY <1>1, <1>2 DEF Dequeue

LEMMA WakeInv ==
  ASSUME FarmInv, NEW w \in Worker, WakeReady(w) \/ WakeStop(w)
  PROVE  FarmInv'
  <1> USE DEF FarmInv
  <1>0. /\ pc[w] = "wait"
        /\ pc' = [pc EXCEPT ![w] = "scan"] \/ (pc' = [pc EXCEPT ![w] = "exit"] /\ UNCHANGED ready)
        /\ ready' \in BOOLEAN
        /\ UNCHANGED <<order, state, stop, known, pool, job, exec, lease>>
    BY DEF WakeReady, WakeStop, queueVars, batchVars, TypeOK
  <1>1. TypeOK'
    BY <1>0 DEF TypeOK, WorkerPC
  <1>2. JobKept' /\ OneWorker' /\ RunningHasWorker' /\ LeaseIsWorking'
    BY <1>0 DEF TypeOK, JobKept, AtTask, OneWorker, RunningHasWorker, LeaseIsWorking
  <1>3. BusyMarked'
    <2>1. \A v \in Worker, d \in Device : WillBeDone(v, d) => WillBeDone(v, d)'
      BY <1>0 DEF TypeOK, WillBeDone, Chosen
    <2> QED
      BY <1>0, <2>1 DEF BusyMarked
  <1>4. NoLostWakeup'
    BY <1>0 DEF TypeOK, NoLostWakeup, Pending
  <1> QED
    BY <1>1, <1>2, <1>3, <1>4

-----------------------------------------------------------------------------
(* runTask *)

\* The registry only grows, and with it what a task chooses.
LEMMA ListedGrows ==
  ASSUME TypeOK, Listed
  PROVE  /\ known' \subseteq Device
         /\ \A t : Chosen(known, t) \subseteq Chosen(known', t)
  BY DEF TypeOK, Listed, Chosen

LEMMA MarkBusyInv ==
  ASSUME FarmInv, NEW w \in Worker, MarkBusy(w)
  PROVE  FarmInv'
  <1> USE DEF FarmInv
  <1>0. /\ pc[w] = "mark" /\ job[w] \in Task /\ state[job[w]] = "RUNNING"
        /\ pool' = [d \in Device |-> IF d \in Chosen(known', job[w]) THEN job[w] ELSE pool[d]]
        /\ pc' = [pc EXCEPT ![w] = "resolve"]
        /\ UNCHANGED <<order, state, ready, stop, job, exec, lease>>
    BY DEF MarkBusy, JobKept, AtTask, queueVars, batchVars
  <1>1. known' \subseteq Device /\ \A t : Chosen(known, t) \subseteq Chosen(known', t)
    BY ListedGrows DEF MarkBusy
  <1>2. TypeOK'
    BY <1>0, <1>1 DEF TypeOK, WorkerPC
  <1>3. JobKept' /\ OneWorker' /\ RunningHasWorker' /\ LeaseIsWorking'
    BY <1>0 DEF TypeOK, JobKept, AtTask, OneWorker, RunningHasWorker, LeaseIsWorking
  <1>4. BusyMarked'
    <2> SUFFICES ASSUME NEW d \in Device, pool'[d] \in Task
                 PROVE  \E v \in Worker : job[v] = pool'[d] /\ WillBeDone(v, d)'
      BY <1>0 DEF BusyMarked
    <2>1. CASE d \in Chosen(known', job[w])
      BY <1>0, <2>1 DEF TypeOK, WillBeDone
    <2>2. CASE d \notin Chosen(known', job[w])
      <3>1. PICK v \in Worker : job[v] = pool[d] /\ WillBeDone(v, d)
        BY <1>0, <2>2 DEF BusyMarked
      <3>2. v # w /\ WillBeDone(v, d)'
        BY <1>0, <1>1, <3>1 DEF TypeOK, WillBeDone
      <3> QED
        BY <1>0, <2>2, <3>1, <3>2
    <2> QED
      BY <2>1, <2>2
  <1>5. NoLostWakeup'
    BY <1>0 DEF TypeOK, NoLostWakeup, Pending
  <1> QED
    BY <1>2, <1>3, <1>4, <1>5

LEMMA RunBatchInv ==
  ASSUME FarmInv, NEW w \in Worker, RunBatch(w)
  PROVE  FarmInv'
  <1> USE DEF FarmInv
  <1> DEFINE E == [d \in Device |-> IF d \in Chosen(known', job[w]) THEN "queued" ELSE "none"]
  <1>0. /\ pc[w] = "resolve" /\ job[w] \in Task /\ state[job[w]] = "RUNNING"
        /\ exec' = [exec EXCEPT ![w] = E]
        /\ pc' = [pc EXCEPT ![w] = "batch"]
        /\ UNCHANGED <<order, state, ready, stop, pool, job, lease>>
        /\ \A d \in Device : exec[w][d] = "none"
    BY DEF RunBatch, JobKept, AtTask, queueVars
  <1>1. known' \subseteq Device /\ \A t : Chosen(known, t) \subseteq Chosen(known', t)
    BY ListedGrows DEF RunBatch
  <1>2. E \in [Device -> ExecPC] /\ \A d \in Chosen(known', job[w]) \cap Device : E[d] # "none"
    BY DEF ExecPC
  <1> HIDE DEF E
  <1>3. TypeOK'
    BY <1>0, <1>1, <1>2 DEF TypeOK, WorkerPC
  <1>4. JobKept' /\ OneWorker' /\ RunningHasWorker'
    BY <1>0 DEF TypeOK, JobKept, AtTask, OneWorker, RunningHasWorker
  <1>5. LeaseIsWorking'
    BY <1>0 DEF TypeOK, LeaseIsWorking
  <1>6. BusyMarked'
    <2> SUFFICES ASSUME NEW d \in Device, pool[d] \in Task
                 PROVE  \E v \in Worker : job[v] = pool[d] /\ WillBeDone(v, d)'
      BY <1>0 DEF BusyMarked
    <2>1. PICK v \in Worker : job[v] = pool[d] /\ WillBeDone(v, d)
      BY DEF BusyMarked
    <2>2. WillBeDone(v, d)'
      BY <1>0, <1>1, <1>2, <2>1 DEF TypeOK, WillBeDone
    <2> QED
      BY <2>1, <2>2
  <1>7. NoLostWakeup'
    BY <1>0 DEF TypeOK, NoLostWakeup, Pending
  <1> QED
    BY <1>3, <1>4, <1>5, <1>6, <1>7

LEMMA MarkDoneInv ==
  ASSUME FarmInv, NEW w \in Worker, MarkDone(w)
  PROVE  FarmInv'
  <1> USE DEF FarmInv
  <1> DEFINE E == [d \in Device |-> "none"]
  <1>0. /\ pc[w] = "batch" /\ job[w] \in Task /\ state[job[w]] = "RUNNING"
        /\ state' = [state EXCEPT ![job[w]] = "SUCCEEDED"]
        /\ pool' = [d \in Device |-> IF exec[w][d] = "over" THEN "idle" ELSE pool[d]]
        /\ exec' = [exec EXCEPT ![w] = E]
        /\ job' = [job EXCEPT ![w] = NoTask]
        /\ pc' = [pc EXCEPT ![w] = "scan"]
        /\ UNCHANGED <<order, ready, stop, known, lease>>
    BY DEF MarkDone, JobKept, AtTask
  <1>1. \A d \in Device : exec[w][d] \in {"none", "over"}
    BY DEF MarkDone, In, TypeOK
  <1>2. E \in [Device -> ExecPC] /\ \A d \in Device : E[d] = "none"
    BY DEF ExecPC
  <1> HIDE DEF E
  <1>3. TypeOK'
    BY <1>0, <1>2 DEF TypeOK, WorkerPC, TaskState
  <1>4. \A v \in Worker \ {w} : job[v] # job[w] /\ job'[v] = job[v] /\ pc'[v] = pc[v] /\ exec'[v] = exec[v]
    BY <1>0 DEF TypeOK, OneWorker
  <1>5. JobKept'
    <2> SUFFICES ASSUME NEW v \in Worker
                 PROVE  /\ pc'[v] \in AtTask => job'[v] \in Task /\ state'[job'[v]] = "RUNNING"
                        /\ pc'[v] \notin AtTask => job'[v] = NoTask
                        /\ pc'[v] # "batch" => \A d \in Device : exec'[v][d] = "none"
      BY DEF JobKept
    <2>1. CASE v = w
      BY <1>0, <1>2, <2>1 DEF TypeOK, AtTask
    <2>2. CASE v # w
      BY <1>0, <1>4, <2>2 DEF TypeOK, JobKept, AtTask
    <2> QED
      BY <2>1, <2>2
  <1>6. OneWorker' /\ RunningHasWorker'
    BY <1>0, <1>4, FarmAssumption DEF TypeOK, OneWorker, RunningHasWorker
  <1>7. BusyMarked'
    <2> SUFFICES ASSUME NEW d \in Device, pool'[d] \in Task
                 PROVE  \E v \in Worker : job'[v] = pool'[d] /\ WillBeDone(v, d)'
      BY DEF BusyMarked
    <2>1. exec[w][d] = "none" /\ pool'[d] = pool[d]
      BY <1>0, <1>1, FarmAssumption
    <2>2. PICK v \in Worker : job[v] = pool[d] /\ WillBeDone(v, d)
      BY <2>1 DEF BusyMarked
    <2>3. v # w
      BY <1>0, <2>1, <2>2 DEF WillBeDone
    <2> QED
      BY <1>0, <1>4, <2>1, <2>2, <2>3 DEF WillBeDone, Chosen
  <1>8. LeaseIsWorking'
    BY <1>0, <1>1, <1>4 DEF TypeOK, LeaseIsWorking
  <1>9. NoLostWakeup'
    BY <1>0 DEF TypeOK, NoLostWakeup
  <1> QED
    BY <1>3, <1>5, <1>6, <1>7, <1>8, <1>9

-----------------------------------------------------------------------------
(* The goroutines of a batch *)

LEMMA DeviceInv ==
  ASSUME FarmInv, NEW w \in Worker, NEW d \in Device, DeviceStep(w, d)
  PROVE  FarmInv'
  <1> USE DEF FarmInv
  <1>0. UNCHANGED <<order, state, ready, stop, known, pool, pc, job>>
    BY DEF DeviceStep, Admit, Work, Finish, queueVars
  <1>1. PICK p \in ExecPC \ {"none"} : exec' = [exec EXCEPT ![w] = [exec[w] EXCEPT ![d] = p]]
    BY DEF DeviceStep, Admit, Work, Finish, ExecPC
  <1>2. exec[w][d] # "none" /\ pc[w] = "batch"
    BY DEF DeviceStep, Admit, Work, Finish, JobKept
  <1>3. \A v \in Worker, e \in Device :
          exec'[v][e] = IF v = w /\ e = d THEN p ELSE exec[v][e]
    BY <1>1 DEF TypeOK
  <1>4. TypeOK'
    <2>1. exec' \in [Worker -> [Device -> ExecPC]]
      BY <1>1 DEF TypeOK
    <2>2. lease' \in [Device -> Worker \cup {"free"}]
      BY DEF TypeOK, DeviceStep, Admit, Work, Finish
    <2> QED
      BY <1>0, <2>1, <2>2 DEF TypeOK
  <1>5. JobKept' /\ OneWorker' /\ RunningHasWorker'
    BY <1>0, <1>2, <1>3 DEF JobKept, AtTask, OneWorker, RunningHasWorker
  <1>6. BusyMarked'
    <2> SUFFICES ASSUME NEW e \in Device, pool[e] \in Task
                 PROVE  \E v \in Worker : job[v] = pool[e] /\ WillBeDone(v, e)'
      BY <1>0 DEF BusyMarked
    <2>1. PICK v \in Worker : job[v] = pool[e] /\ WillBeDone(v, e)
      BY DEF BusyMarked
    <2>2. WillBeDone(v, e)'
      BY <1>0, <1>3, <2>1 DEF WillBeDone, Chosen
    <2> QED
      BY <2>1, <2>2
  <1>7. LeaseIsWorking'
    <2>1. CASE Admit(w, d)
      <3>1. UNCHANGED lease /\ exec[w][d] = "queued"
        BY <2>1 DEF Admit
      <3> QED
        BY <1>3, <3>1 DEF LeaseIsWorking
    <2>2. CASE Work(w, d)
      <3>1. lease' = [lease EXCEPT ![d] = w] /\ exec'[w][d] = "working"
        BY <2>2 DEF Work, TypeOK
      <3> QED
        BY <1>3, <3>1 DEF LeaseIsWorking, TypeOK
    <2>3. CASE Finish(w, d)
      <3>1. lease' = IF lease[d] = w THEN [lease EXCEPT ![d] = "free"] ELSE lease
        BY <2>3 DEF Finish
      <3> QED
        BY <1>3, <3>1 DEF LeaseIsWorking, TypeOK
    <2> QED
      BY <2>1, <2>2, <2>3 DEF DeviceStep
  <1>8. NoLostWakeup'
    BY <1>0 DEF NoLostWakeup, Pending
  <1> QED
    BY <1>4, <1>5, <1>6, <1>7, <1>8

-----------------------------------------------------------------------------
LEMMA NextFarmInv == FarmInv /\ [Next]_vars => FarmInv'
  <1> SUFFICES ASSUME FarmInv, [Next]_vars PROVE FarmInv'
    OBVIOUS
  <1>1. CASE UNCHANGED vars
    <2>1. TypeOK' /\ JobKept' /\ OneWorker' /\ RunningHasWorker' /\ LeaseIsWorking'
      BY <1>1 DEF vars, FarmInv, TypeOK, JobKept, OneWorker, RunningHasWorker, LeaseIsWorking
    <2>2. BusyMarked'
      BY <1>1 DEF vars, FarmInv, BusyMarked, WillBeDone, Chosen
    <2>3. NoLostWakeup'
      BY <1>1 DEF vars, FarmInv, NoLostWakeup, Pending
    <2> QED
      BY <2>1, <2>2, <2>3 DEF FarmInv
  <1>2. ASSUME NEW t \in Task, Submit(t) \/ Cancel(t) PROVE FarmInv'
    BY <1>2, SubmitInv, CancelInv
  <1>3. CASE Stop
    BY <1>3, StopInv
  <1>4. ASSUME NEW w \in Worker, WorkerStep(w) PROVE FarmInv'
    BY <1>4, DequeueInv, WakeInv, MarkBusyInv, RunBatchInv, MarkDoneInv DEF WorkerStep
  <1>5. ASSUME NEW w \in Worker, NEW d \in Device, DeviceStep(w, d) PROVE FarmInv'
    BY <1>5, DeviceInv
  <1>6. ASSUME NEW d \in Device, Find(d) PROVE FarmInv'
    BY <1>6, FindInv
  <1> QED
    BY <1>1, <1>2, <1>3, <1>4, <1>5, <1>6 DEF Next

\* The inductive invariant (farm.go, executor.go): every RUNNING task has its
\* one worker, every busy device its task, every lease its goroutine.
THEOREM FarmInvariant == Spec => []FarmInv
  <1> QED
    BY InitFarmInv, NextFarmInv, PTL DEF Spec

\* Type correctness of the farm.
THEOREM FarmTypeCorrect == Spec => []TypeOK
  <1>1. FarmInv => TypeOK
    BY DEF FarmInv
  <1> QED
    BY <1>1, FarmInvariant, PTL

\* No wake-up of a worker is lost, although one token may stand for many tasks.
THEOREM WakeupsKept == Spec => []NoLostWakeup
  <1>1. FarmInv => NoLostWakeup
    BY DEF FarmInv
  <1> QED
    BY <1>1, FarmInvariant, PTL

\* A device is shown busy only with a task that still runs.
THEOREM BusyIsRunning == Spec => []BusyOnlyWhileRunning
  <1>1. FarmInv => BusyOnlyWhileRunning
    <2> SUFFICES ASSUME FarmInv, NEW d \in Device, pool[d] \in Task
                 PROVE  state[pool[d]] = "RUNNING"
      BY DEF BusyOnlyWhileRunning
    <2>1. PICK w \in Worker : job[w] = pool[d] /\ WillBeDone(w, d)
      BY DEF FarmInv, BusyMarked
    <2> QED
      BY <2>1 DEF FarmInv, JobKept, AtTask, WillBeDone
  <1> QED
    BY <1>1, FarmInvariant, PTL

\* When all workers have left, nothing runs, no device is busy, no lease held.
THEOREM StoppedFarmIsQuiet == Spec => []StoppedIsQuiet
  <1>1. FarmInv => StoppedIsQuiet
    <2> SUFFICES ASSUME FarmInv, \A w \in Worker : pc[w] = "exit"
                 PROVE  /\ \A t \in Task : state[t] # "RUNNING"
                        /\ \A d \in Device : pool[d] \notin Task /\ lease[d] = "free"
      BY DEF StoppedIsQuiet
    <2>1. \A t \in Task : state[t] # "RUNNING"
      BY FarmAssumption DEF FarmInv, JobKept, AtTask, RunningHasWorker
    <2>2. ASSUME NEW d \in Device PROVE pool[d] \notin Task /\ lease[d] = "free"
      BY DEF FarmInv, JobKept, BusyMarked, WillBeDone, LeaseIsWorking
    <2> QED
      BY <2>1, <2>2
  <1> QED
    BY <1>1, FarmInvariant, PTL

-----------------------------------------------------------------------------
(* The farm implements the task queue *)

\* A task is in the order once it was submitted, and only once.
QueueInv ==
  /\ \A t \in Task : state[t] # "NONE" <=> \E i \in DOMAIN order : order[i] = t
  /\ \A i, j \in DOMAIN order : order[i] = order[j] => i = j

\* What Append does to the order of submission.
LEMMA OrderGrows ==
  ASSUME order \in Seq(Task), NEW t \in Task, order' = Append(order, t)
  PROVE  /\ DOMAIN order' = DOMAIN order \cup {Len(order) + 1}
         /\ \A i \in DOMAIN order : order'[i] = order[i]
         /\ order'[Len(order) + 1] = t
         /\ Len(order) + 1 \notin DOMAIN order
  <1>1. DOMAIN order = 1..Len(order) /\ Len(order) \in Nat
    BY LenProperties
  <1>2. Len(order') = Len(order) + 1 /\ order' \in Seq(Task)
    BY AppendProperties
  <1>3. DOMAIN order' = 1..(Len(order) + 1)
    BY <1>2, LenProperties
  <1> QED
    BY <1>1, <1>3, AppendProperties

\* What a step of the farm does to the queue: nothing, or what TaskQueue allows.
QueueStep ==
  \/ \E t \in Task : Queue!Submit(t) \/ Queue!Cancel(t) \/ Queue!Start(t) \/ Queue!End(t)
  \/ UNCHANGED <<order, state>>

\* dequeue takes no task before a more urgent one.
LEMMA BestIsMostUrgent ==
  ASSUME TypeOK, QueueInv, NEW t \in Pending, Best(t)
  PROVE  \A u \in Pending : ~Queue!MoreUrgent(u, t)
  <1> SUFFICES ASSUME NEW u \in Pending, Queue!MoreUrgent(u, t) PROVE FALSE
    OBVIOUS
  <1>1. PICK i \in DOMAIN order :
          /\ order[i] = t
          /\ \A j \in DOMAIN order : order[j] \in Pending =>
               \/ Priority[order[j]] < Priority[t]
               \/ Priority[order[j]] = Priority[t] /\ i <= j
    BY DEF Best
  <1>2. Priority[u] \in Int /\ Priority[t] \in Int /\ DOMAIN order \subseteq Int
    BY FarmAssumption, LenProperties DEF Pending, TypeOK
  <1>3. PICK k \in DOMAIN order : order[k] = u
    BY DEF QueueInv, Pending
  <1>4. CASE Priority[u] > Priority[t]
    BY <1>1, <1>2, <1>3, <1>4
  <1>5. CASE Priority[u] = Priority[t] /\ Queue!SubmittedBefore(u, t)
    <2>1. PICK m, n \in DOMAIN order : m < n /\ order[m] = u /\ order[n] = t
      BY <1>5 DEF Queue!SubmittedBefore
    <2>2. n = i /\ m = k
      BY <1>1, <1>3, <2>1 DEF QueueInv
    <2> QED
      BY <1>1, <1>2, <1>5, <2>1, <2>2
  <1> QED
    BY <1>4, <1>5 DEF Queue!MoreUrgent

LEMMA InitQueueInv == Init => QueueInv
  BY DEF Init, QueueInv

LEMMA NextQueueStep == FarmInv /\ QueueInv /\ [Next]_vars => QueueStep
  <1> SUFFICES ASSUME FarmInv, QueueInv, [Next]_vars PROVE QueueStep
    OBVIOUS
  <1>1. ASSUME NEW t \in Task, Submit(t) \/ Cancel(t) PROVE QueueStep
    BY <1>1 DEF QueueStep, Submit, Cancel, Queue!Submit, Queue!Cancel, Queue!Pending
  <1>2. ASSUME NEW w \in Worker, Dequeue(w) PROVE QueueStep
    <2>1. ASSUME NEW t \in Pending, Best(t), state' = [state EXCEPT ![t] = "RUNNING"]
          PROVE  QueueStep
      <3>1. Pending = Queue!Pending
        BY DEF Pending, Queue!Pending
      <3>2. \A u \in Pending : ~Queue!MoreUrgent(u, t)
        BY <2>1, BestIsMostUrgent DEF FarmInv
      <3>3. t \in Task /\ UNCHANGED order
        BY <1>2 DEF Dequeue, Pending
      <3> QED
        BY <2>1, <3>1, <3>2, <3>3 DEF QueueStep, Queue!Start
    <2>2. CASE UNCHANGED <<order, state>>
      BY <2>2 DEF QueueStep
    <2> QED
      BY <1>2, <2>1, <2>2 DEF Dequeue
  <1>3. ASSUME NEW w \in Worker, MarkDone(w) PROVE QueueStep
    <2>1. job[w] \in Task /\ state[job[w]] = "RUNNING"
      BY <1>3 DEF FarmInv, JobKept, AtTask, MarkDone
    <2>2. Queue!End(job[w])
      BY <1>3, <2>1 DEF MarkDone, Queue!End
    <2> QED
      BY <2>1, <2>2 DEF QueueStep
  <1>4. ASSUME NEW w \in Worker, WakeReady(w) \/ WakeStop(w) \/ MarkBusy(w) \/ RunBatch(w)
        PROVE  QueueStep
    BY <1>4 DEF WakeReady, WakeStop, MarkBusy, RunBatch, queueVars, QueueStep
  <1>5. ASSUME NEW w \in Worker, NEW d \in Device, DeviceStep(w, d) PROVE QueueStep
    BY <1>5 DEF DeviceStep, Admit, Work, Finish, queueVars, QueueStep
  <1>6. CASE Stop \/ (\E d \in Device : Find(d)) \/ UNCHANGED vars
    BY <1>6 DEF Stop, Find, vars, queueVars, QueueStep
  <1> QED
    BY <1>1, <1>2, <1>3, <1>4, <1>5, <1>6 DEF Next, WorkerStep

LEMMA QueueInvStep == TypeOK /\ QueueInv /\ QueueStep => QueueInv'
  <1> SUFFICES ASSUME TypeOK, QueueInv, QueueStep PROVE QueueInv'
    OBVIOUS
  <1>0. order \in Seq(Task) /\ DOMAIN state = Task
    BY DEF TypeOK
  <1>1. ASSUME NEW t \in Task, Queue!Submit(t) PROVE QueueInv'
    <2>1. state[t] = "NONE" /\ order' = Append(order, t) /\ state' = [state EXCEPT ![t] = "PENDING"]
      BY <1>1 DEF Queue!Submit
    <2>2. /\ DOMAIN order' = DOMAIN order \cup {Len(order) + 1}
          /\ \A i \in DOMAIN order : order'[i] = order[i]
          /\ order'[Len(order) + 1] = t
          /\ Len(order) + 1 \notin DOMAIN order
      BY <1>0, <2>1, OrderGrows
    <2>3. \A i \in DOMAIN order : order[i] # t
      BY <2>1 DEF QueueInv
    <2>4. \A u \in Task : state'[u] # "NONE" <=> \E i \in DOMAIN order' : order'[i] = u
      BY <1>0, <2>1, <2>2, <2>3 DEF QueueInv
    <2>5. \A i, j \in DOMAIN order' : order'[i] = order'[j] => i = j
      BY <2>2, <2>3 DEF QueueInv
    <2> QED
      BY <2>4, <2>5 DEF QueueInv
  <1>2. ASSUME NEW t \in Task, Queue!Cancel(t) \/ Queue!Start(t) \/ Queue!End(t) PROVE QueueInv'
    <2>1. /\ order' = order /\ state[t] # "NONE" /\ DOMAIN state' = Task
          /\ state'[t] # "NONE" /\ \A u \in Task \ {t} : state'[u] = state[u]
      BY <1>0, <1>2 DEF Queue!Cancel, Queue!Start, Queue!End, Queue!Pending
    <2> QED
      BY <2>1 DEF QueueInv
  <1>3. CASE UNCHANGED <<order, state>>
    BY <1>3 DEF QueueInv
  <1> QED
    BY <1>1, <1>2, <1>3 DEF QueueStep

\* The farm implements the task queue (farm.go:99, 136, 175): whatever the
\* workers, a task runs at most once, never after it was cancelled, and only
\* when no more urgent one is pending.
THEOREM QueueImplemented == Spec => QueueKept
  <1>1. Init => Queue!Init
    BY DEF Init, Queue!Init
  <1>2. FarmInv /\ QueueInv /\ [Next]_vars => [Queue!Next]_<<order, state>>
    BY NextQueueStep DEF QueueStep, Queue!Next
  <1>3. FarmInv /\ QueueInv /\ [Next]_vars => QueueInv'
    BY NextQueueStep, QueueInvStep DEF FarmInv
  <1> QED
    BY <1>1, <1>2, <1>3, InitFarmInv, InitQueueInv, NextFarmInv, PTL DEF Spec, QueueKept, Queue!Spec
=============================================================================
