---------------------------- MODULE FarmScheduler ----------------------------
(***************************************************************************)
(* The device farm: the scheduler of farm/farm.go (task queue, resident    *)
(* workers, device pool) and the batch executor of batch/executor.go that  *)
(* each worker runs its task with, one goroutine per device behind a       *)
(* semaphore.                                                              *)
(*                                                                         *)
(* The actions of the scheduler are the critical sections of s.mu and the  *)
(* select of an idle worker.  A worker at "wait" has unlocked s.mu and is  *)
(* about to select or asleep in it: the buffered channel s.ready makes no  *)
(* difference between the two.  The devices come from the registry, which  *)
(* other callers fill meanwhile, and which never forgets one.              *)
(*                                                                         *)
(* Of Execute the model keeps what makes it wait: an operation whose       *)
(* capability needs the device has its lease while it works.  A request    *)
(* names a capability, so that Execute returns a result.                   *)
(***************************************************************************)
EXTENDS Integers, FiniteSets, Sequences

CONSTANTS Task,          \* the calls of Submit
          Worker,        \* the resident workers
          Device,        \* the devices discovery may find
          Priority,      \* the priority of each task, higher runs first
          Wanted,        \* Request.Devices of each task, {} for all devices
          Concurrency,   \* Request.Concurrency of each task, 0 for no bound
          Exclusive,     \* the tasks whose capability needs the device's lease
          NoTask

ASSUME FarmAssumption ==
  /\ Priority \in [Task -> Int]
  /\ Wanted \in [Task -> SUBSET Device]
  /\ Concurrency \in [Task -> Nat]
  /\ Exclusive \subseteq Task
  /\ {NoTask, "none", "idle"} \cap Task = {}
  /\ IsFiniteSet(Device)

VARIABLES
  order,     \* s.order
  state,     \* Task.State, "NONE" before Submit
  ready,     \* the channel of capacity one that wakes workers holds a token
  stop,      \* s.stop is closed
  known,     \* the devices in the registry
  pool,      \* s.pool: "none" without entry, else CurrentTask; Busy iff it is a task
  pc,        \* where each worker stands
  job,       \* the task it runs
  exec,      \* where the goroutine of its batch stands for each device
  lease      \* the worker whose operation holds the lease of each device, or none

queueVars == <<order, state, ready, stop>>
batchVars == <<exec, lease>>
vars == <<order, state, ready, stop, known, pool, pc, job, exec, lease>>

TaskState == {"NONE", "PENDING", "RUNNING", "SUCCEEDED", "FAILED", "CANCELLED"}
WorkerPC == {"scan", "wait", "mark", "resolve", "batch", "exit"}
ExecPC == {"none", "queued", "executing", "working", "over"}
Ended == {"SUCCEEDED", "FAILED", "CANCELLED"}

Init ==
  /\ order = <<>>
  /\ state = [t \in Task |-> "NONE"]
  /\ ready = FALSE
  /\ stop = FALSE
  /\ known = {}
  /\ pool = [d \in Device |-> "none"]
  /\ pc = [w \in Worker |-> "scan"]
  /\ job = [w \in Worker |-> NoTask]
  /\ exec = [w \in Worker |-> [d \in Device |-> "none"]]
  /\ lease = [d \in Device |-> "free"]

-----------------------------------------------------------------------------
(* The clients of the scheduler. *)

\* Without the signal.
SubmitQuietly(t) ==
  /\ state[t] = "NONE"
  /\ state' = [state EXCEPT ![t] = "PENDING"]
  /\ order' = Append(order, t)
  /\ UNCHANGED <<ready, stop, known, pool, pc, job, batchVars>>

\* Submit: the task is in the table and in the order before the token is sent.
\* A token that is already there serves for both tasks.
Submit(t) ==
  /\ state[t] = "NONE"
  /\ state' = [state EXCEPT ![t] = "PENDING"]
  /\ order' = Append(order, t)
  /\ ready' = TRUE
  /\ UNCHANGED <<stop, known, pool, pc, job, batchVars>>

\* Cancel: only a task no worker has taken.
Cancel(t) ==
  /\ state[t] = "PENDING"
  /\ state' = [state EXCEPT ![t] = "CANCELLED"]
  /\ UNCHANGED <<order, ready, stop, known, pool, pc, job, batchVars>>

\* Stop closes the channel, and then waits for the workers to leave.
Stop ==
  /\ ~stop
  /\ stop' = TRUE
  /\ UNCHANGED <<order, state, ready, known, pool, pc, job, batchVars>>

-----------------------------------------------------------------------------
(* A worker takes a task, or waits for one. *)

Pending == {t \in Task : state[t] = "PENDING"}

\* Among equal priorities the one submitted last.
LatestBest(t) ==
  \E i \in DOMAIN order :
    /\ order[i] = t
    /\ \A j \in DOMAIN order : order[j] \in Pending =>
         \/ Priority[order[j]] < Priority[t]
         \/ Priority[order[j]] = Priority[t] /\ j <= i

\* dequeue looks at all tasks in the order of submission and keeps the first
\* PENDING one of the highest priority.
Best(t) ==
  \E i \in DOMAIN order :
    /\ order[i] = t
    /\ \A j \in DOMAIN order : order[j] \in Pending =>
         \/ Priority[order[j]] < Priority[t]
         \/ Priority[order[j]] = Priority[t] /\ i <= j

\* dequeue under s.mu: the best task becomes RUNNING, or the worker goes to
\* its select.
Dequeue(w) ==
  /\ pc[w] = "scan"
  /\ \/ \E t \in Pending :
          /\ Best(t)
          /\ state' = [state EXCEPT ![t] = "RUNNING"]
          /\ job' = [job EXCEPT ![w] = t]
          /\ pc' = [pc EXCEPT ![w] = "mark"]
     \/ /\ Pending = {}
        /\ pc' = [pc EXCEPT ![w] = "wait"]
        /\ UNCHANGED <<state, job>>
  /\ UNCHANGED <<order, ready, stop, known, pool, batchVars>>

\* The select of dequeue; with both channels ready either may be chosen.
WakeReady(w) ==
  /\ pc[w] = "wait"
  /\ ready
  /\ ready' = FALSE
  /\ pc' = [pc EXCEPT ![w] = "scan"]
  /\ UNCHANGED <<order, state, stop, known, pool, job, batchVars>>

\* The stop channel is closed: the worker returns.
WakeStop(w) ==
  /\ pc[w] = "wait"
  /\ stop
  /\ pc' = [pc EXCEPT ![w] = "exit"]
  /\ UNCHANGED <<queueVars, known, pool, job, batchVars>>

-----------------------------------------------------------------------------
(* runTask: markBusy, the batch, markDone. *)

\* ListDevices, with a Discover when it comes back empty; the devices of the
\* request are then picked out of what is there.
Listed ==
  \/ known # {} /\ UNCHANGED known
  \/ known = {} /\ \E found \in SUBSET Device : known' = found

Chosen(devices, t) == IF Wanted[t] = {} THEN devices ELSE devices \cap Wanted[t]

MarkBusy(w) ==
  /\ pc[w] = "mark"
  /\ Listed
  /\ pool' = [d \in Device |-> IF d \in Chosen(known', job[w]) THEN job[w] ELSE pool[d]]
  /\ pc' = [pc EXCEPT ![w] = "resolve"]
  /\ UNCHANGED <<queueVars, job, batchVars>>

\* Executor.Run: the devices are resolved again and get a goroutine each.
RunBatch(w) ==
  /\ pc[w] = "resolve"
  /\ Listed
  /\ exec' = [exec EXCEPT ![w] =
                [d \in Device |-> IF d \in Chosen(known', job[w]) THEN "queued" ELSE "none"]]
  /\ pc' = [pc EXCEPT ![w] = "batch"]
  /\ UNCHANGED <<queueVars, pool, job, lease>>

In(w, phases) == {d \in Device : exec[w][d] \in phases}

\* The capacity of the semaphore.
Slots(w) ==
  LET n == Cardinality(In(w, ExecPC \ {"none"}))
      c == Concurrency[job[w]]
  IN  IF c = 0 \/ c > n THEN n ELSE c

\* The slots of those that are through are never given back.
AdmitOnce(w, d) ==
  /\ exec[w][d] = "queued"
  /\ Cardinality(In(w, {"executing", "working", "over"})) < Slots(w)
  /\ exec' = [exec EXCEPT ![w][d] = "executing"]
  /\ UNCHANGED <<queueVars, known, pool, pc, job, lease>>

\* A goroutine gets its slot, and then its session.
Admit(w, d) ==
  /\ exec[w][d] = "queued"
  /\ Cardinality(In(w, {"executing", "working"})) < Slots(w)
  /\ exec' = [exec EXCEPT ![w][d] = "executing"]
  /\ UNCHANGED <<queueVars, known, pool, pc, job, lease>>

\* An operation that needs it gets the lease of its device.
Work(w, d) ==
  /\ exec[w][d] = "executing"
  /\ job[w] \in Exclusive
  /\ lease[d] = "free"
  /\ lease' = [lease EXCEPT ![d] = w]
  /\ exec' = [exec EXCEPT ![w][d] = "working"]
  /\ UNCHANGED <<queueVars, known, pool, pc, job>>

\* A result is there, whether the operation has worked or was refused before
\* (no session, denied, no channel); deferred calls free lease and slot.
Finish(w, d) ==
  /\ exec[w][d] \in {"executing", "working"}
  /\ exec' = [exec EXCEPT ![w][d] = "over"]
  /\ lease' = IF lease[d] = w THEN [lease EXCEPT ![d] = "free"] ELSE lease
  /\ UNCHANGED <<queueVars, known, pool, pc, job>>

\* Only the devices that the request names become idle.
MarkDoneOfNamed(w) ==
  /\ pc[w] = "batch"
  /\ In(w, ExecPC \ {"none", "over"}) = {}
  /\ state' = [state EXCEPT ![job[w]] = "SUCCEEDED"]
  /\ pool' = [d \in Device |-> IF d \in Wanted[job[w]] THEN "idle" ELSE pool[d]]
  /\ exec' = [exec EXCEPT ![w] = [d \in Device |-> "none"]]
  /\ job' = [job EXCEPT ![w] = NoTask]
  /\ pc' = [pc EXCEPT ![w] = "scan"]
  /\ UNCHANGED <<order, ready, stop, known, lease>>

\* markDone once all goroutines of the batch have ended.  Run returns no
\* error, so that the task has SUCCEEDED whatever its devices report.  The
\* entries of the devices in the summary become idle.
MarkDone(w) ==
  /\ pc[w] = "batch"
  /\ In(w, ExecPC \ {"none", "over"}) = {}
  /\ state' = [state EXCEPT ![job[w]] = "SUCCEEDED"]
  /\ pool' = [d \in Device |-> IF exec[w][d] = "over" THEN "idle" ELSE pool[d]]
  /\ exec' = [exec EXCEPT ![w] = [d \in Device |-> "none"]]
  /\ job' = [job EXCEPT ![w] = NoTask]
  /\ pc' = [pc EXCEPT ![w] = "scan"]
  /\ UNCHANGED <<order, ready, stop, known, lease>>

-----------------------------------------------------------------------------
\* Others discover a device.
Find(d) ==
  /\ known' = known \cup {d}
  /\ UNCHANGED <<queueVars, pool, pc, job, batchVars>>

WorkerStep(w) == Dequeue(w) \/ WakeReady(w) \/ WakeStop(w) \/ MarkBusy(w) \/ RunBatch(w) \/ MarkDone(w)
DeviceStep(w, d) == Admit(w, d) \/ Work(w, d) \/ Finish(w, d)

Next ==
  \/ \E t \in Task : Submit(t) \/ Cancel(t)
  \/ Stop
  \/ \E w \in Worker : WorkerStep(w) \/ \E d \in Device : DeviceStep(w, d)
  \/ \E d \in Device : Find(d)

Spec == Init /\ [][Next]_vars

\* A worker with the goroutines of its batch runs, and operations end.  Nobody
\* has to submit, cancel, stop or discover anything.
FairSpec ==
  /\ Spec
  /\ \A w \in Worker : WF_vars(WorkerStep(w) \/ \E d \in Device : DeviceStep(w, d))

-----------------------------------------------------------------------------
(* Properties. *)

TypeOK ==
  /\ order \in Seq(Task)
  /\ state \in [Task -> TaskState]
  /\ ready \in BOOLEAN /\ stop \in BOOLEAN
  /\ known \subseteq Device
  /\ pool \in [Device -> Task \cup {"none", "idle"}]
  /\ pc \in [Worker -> WorkerPC]
  /\ job \in [Worker -> Task \cup {NoTask}]
  /\ exec \in [Worker -> [Device -> ExecPC]]
  /\ lease \in [Device -> Worker \cup {"free"}]

\* While a task is pending, there is a token in s.ready or a worker that will
\* look at the tasks before it sleeps again, although tokens are coalesced and
\* a worker may consume one for a task that another has taken (farm.go:202).
NoLostWakeup ==
  Pending # {} => ready \/ \E w \in Worker : pc[w] \notin {"wait", "exit"}

\* A device is shown busy only with a task that still runs: what markBusy
\* marks, markDone finds among the results of the batch, although the batch
\* resolves the devices again (farm.go:224, executor.go:59).
BusyOnlyWhileRunning ==
  \A d \in Device : pool[d] \in Task => state[pool[d]] = "RUNNING"

\* When every worker has left after Stop, no task is RUNNING, no device is
\* busy and no operation holds a lease (farm.go:93 "drains in-flight tasks").
StoppedIsQuiet ==
  (\A w \in Worker : pc[w] = "exit") =>
    /\ \A t \in Task : state[t] # "RUNNING"
    /\ \A d \in Device : pool[d] \notin Task /\ lease[d] = "free"

\* The queue runs every task at most once, none that was cancelled, and starts
\* the most urgent first (farm.go:99, 175).
Queue == INSTANCE TaskQueue
QueueKept == Queue!Spec

\* As long as nobody stops the farm, a pending task is run or cancelled, also
\* when the signals of several tasks were coalesced into one.
EveryTaskEnds ==
  \A t \in Task : state[t] = "PENDING" ~> (state[t] \in Ended \/ stop)
=============================================================================
