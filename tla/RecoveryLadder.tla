--------------------------- MODULE RecoveryLadder ---------------------------
(***************************************************************************)
(* The Recovery Manager (core/recovery/recovery.go) as the operations of   *)
(* one device use it: the ladder L2 reconnect, L3 re-resolve, L4           *)
(* rediscover, L5 device recovery, L6 manual, and the budget that bounds   *)
(* it.                                                                     *)
(*                                                                         *)
(* m.mu protects the table of the budget counters only.  The counters are  *)
(* shared by pointer between all calls for one channel and are read and    *)
(* written without a lock, also after reset has taken them out of the      *)
(* table: a cell of the model is such a counter object, and st.attempts++  *)
(* is a read and a write.                                                  *)
(*                                                                         *)
(* A channel is READY or it is not.  The plugin, the scan and the device   *)
(* behind them are external: any call may succeed or fail.                 *)
(***************************************************************************)
EXTENDS Integers, FiniteSets

CONSTANTS Caller,           \* the operations that recover at the same time
          Channel,          \* the channels of the device, in the Resolver's ranking
          Used,             \* those of them the operations run on
          Cell, NoCell,     \* the attemptState objects, and nil
          Failures,         \* what the operations may fail with
          MaxAttempts,      \* Budget.MaxAttempts
          MaxDeviceResets   \* Budget.MaxDeviceResets

\* canReconnect, canReResolve, canRediscover and canDeviceRecover: the levels
\* open to a failure.  CONNECTION stands for DEVICE_STATE too, RECOVERABLE for
\* the flag on any other category, OTHER for what no level accepts.
Failure == {"CONNECTION", "RECOVERABLE", "PROTOCOL", "DISCOVERY", "OTHER"}
Levels == [f \in Failure |->
  CASE f = "CONNECTION"  -> 2..5
    [] f = "RECOVERABLE" -> {2, 3}
    [] f = "PROTOCOL"    -> {3}
    [] f = "DISCOVERY"   -> {4}
    [] OTHER             -> {}]

\* A cell is in the table or in the hands of a caller; the caller that enters
\* has none.
ASSUME RecoveryAssumption ==
  /\ Channel \subseteq Nat /\ Used \subseteq Channel /\ Used # {}
  /\ MaxAttempts \in Nat \ {0} /\ MaxDeviceResets \in Nat
  /\ Failures \subseteq Failure /\ Failures # {}
  /\ NoCell \notin Cell
  /\ IsFiniteSet(Cell)
  /\ Cardinality(Cell) >= Cardinality(Used) + Cardinality(Caller)

VARIABLES
  pc,        \* where each call of Recover stands
  on,        \* the failed channel it is about
  failure,   \* its derr
  level,     \* the level it is at
  cell,      \* st: the counters it holds
  seen,      \* the value it has read of a counter
  scan,      \* the channels Discover has still to open for it
  table,     \* m.attempts
  attempts,  \* attemptState.attempts of each cell
  resets,    \* attemptState.deviceResets of each cell
  ready,     \* the channels in state READY
  \* history, read by properties only
  overlap,   \* have two calls ever been for one channel at the same time
  cycles     \* before that: device recoveries of a channel since it last RECOVERED

callVars == <<pc, on, failure, level, cell, seen, scan>>
vars == <<callVars, table, attempts, resets, ready, overlap, cycles>>

PC == {"idle", "check", "level", "arm", "count", "act", "scan", "resolve", "reset"}

TypeOK ==
  /\ pc \in [Caller -> PC]
  /\ on \in [Caller -> Used]
  /\ failure \in [Caller -> Failures]
  /\ level \in [Caller -> 1..6]
  /\ cell \in [Caller -> Cell \cup {NoCell}]
  /\ \A x \in Caller : pc[x] # "idle" => cell[x] # NoCell
  /\ seen \in [Caller -> Nat]
  /\ scan \in [Caller -> SUBSET Channel]
  /\ table \in [Used -> Cell \cup {NoCell}]
  /\ attempts \in [Cell -> Nat] /\ resets \in [Cell -> Nat]
  /\ ready \subseteq Channel
  /\ cycles \in [Used -> 0..(MaxDeviceResets + 1)]
  /\ overlap \in BOOLEAN

\* Where the locals of a caller stand between two calls.
AnyChannel == CHOOSE c \in Used : TRUE
AnyFailure == CHOOSE f \in Failures : TRUE

Init ==
  /\ pc = [x \in Caller |-> "idle"]
  /\ on = [x \in Caller |-> AnyChannel]
  /\ failure = [x \in Caller |-> AnyFailure]
  /\ level = [x \in Caller |-> 1]
  /\ cell = [x \in Caller |-> NoCell]
  /\ seen = [x \in Caller |-> 0]
  /\ scan = [x \in Caller |-> {}]
  /\ table = [c \in Used |-> NoCell]
  /\ attempts = [k \in Cell |-> 0] /\ resets = [k \in Cell |-> 0]
  /\ ready = Channel
  /\ cycles = [c \in Used |-> 0]
  /\ overlap = FALSE

-----------------------------------------------------------------------------
(* Helpers *)

Inside(x) == pc[x] # "idle"

\* A counter object lives as long as it is in the table or somebody holds it.
\* What is not alive is zero, as a new object is.
Alive(k, tab, cells) ==
  (\E c \in Used : tab[c] = k) \/ (\E x \in Caller : cells[x] = k)

\* The call returns and leaves the table as tab: its locals are gone.
Return(x, tab) ==
  LET left == [cell EXCEPT ![x] = NoCell]
      collect(g) == [k \in Cell |-> IF Alive(k, tab, left) THEN g[k] ELSE 0]
  IN  /\ pc' = [pc EXCEPT ![x] = "idle"]
      /\ on' = [on EXCEPT ![x] = AnyChannel]
      /\ failure' = [failure EXCEPT ![x] = AnyFailure]
      /\ level' = [level EXCEPT ![x] = 1]
      /\ seen' = [seen EXCEPT ![x] = 0]
      /\ cell' = left
      /\ attempts' = collect(attempts)
      /\ resets' = collect(resets)

\* From level k on: to the next level open to the failure, and to L6, which
\* returns MANUAL, when there is none.
Climb(x, k) ==
  LET open == {j \in Levels[failure[x]] : j > k}
  IN  \/ open = {} /\ Return(x, table)
      \/ \E j \in open :
           /\ \A i \in open : j <= i
           /\ level' = [level EXCEPT ![x] = j]
           /\ pc' = [pc EXCEPT ![x] = "level"]
           /\ UNCHANGED <<on, failure, cell, seen, attempts, resets>>

Goto(x, p) ==
  /\ pc' = [pc EXCEPT ![x] = p]
  /\ UNCHANGED <<on, failure, level, cell>>

Overlap(now) ==
  /\ overlap' = now
  /\ cycles' = IF now THEN [c \in Used |-> 0] ELSE cycles

\* ResolveChannel: the best READY channel.
IsBest(c) == c \in ready /\ \A d \in ready : c <= d

-----------------------------------------------------------------------------
(* Recover *)

NewCell == CHOOSE k \in Cell : ~Alive(k, table, cell)

\* stateFor, under m.mu: the counters of the channel, new ones if it has none.
Enter(x, c, f) ==
  /\ pc[x] = "idle"
  /\ \E k \in Cell :
       /\ \/ k = table[c]
          \/ table[c] = NoCell /\ k = NewCell /\ ~Alive(k, table, cell)
       /\ cell' = [cell EXCEPT ![x] = k]
       /\ table' = [table EXCEPT ![c] = k]
  /\ on' = [on EXCEPT ![x] = c]
  /\ failure' = [failure EXCEPT ![x] = f]
  /\ pc' = [pc EXCEPT ![x] = "check"]
  /\ Overlap(overlap \/ \E y \in Caller : Inside(y) /\ on[y] = c)
  /\ UNCHANGED <<level, seen, scan, attempts, resets, ready>>

\* A budget that allows one attempt more.
CheckOneMore(x) ==
  /\ pc[x] = "check"
  /\ IF attempts[cell[x]] > MaxAttempts THEN Return(x, table) ELSE Climb(x, 1)
  /\ UNCHANGED <<scan, table, ready, overlap, cycles>>

\* The budget, looked at once per call: RECOVERY_FAILED when it is used up.
Check(x) ==
  /\ pc[x] = "check"
  /\ IF attempts[cell[x]] >= MaxAttempts THEN Return(x, table) ELSE Climb(x, 1)
  /\ UNCHANGED <<scan, table, ready, overlap, cycles>>

\* A level from L2 to L4 starts with backoff, which reads the counter ...
StartLevel(x) ==
  /\ pc[x] = "level" /\ level[x] < 5
  /\ seen' = [seen EXCEPT ![x] = attempts[cell[x]]]
  /\ Goto(x, "count")
  /\ UNCHANGED <<scan, table, attempts, resets, ready, overlap, cycles>>

\* ... and L5 with the budget of device recoveries.
StartDeviceRecovery(x) ==
  /\ pc[x] = "level" /\ level[x] = 5
  /\ \/ /\ resets[cell[x]] < MaxDeviceResets
        /\ seen' = [seen EXCEPT ![x] = resets[cell[x]]]
        /\ Goto(x, "arm")
        /\ UNCHANGED <<attempts, resets>>
     \/ resets[cell[x]] >= MaxDeviceResets /\ Return(x, table)
  /\ UNCHANGED <<scan, table, ready, overlap, cycles>>

\* The device recoveries are what backoff goes on from.
ArmCountingResets(x) ==
  /\ pc[x] = "arm"
  /\ \E v \in {seen[x], resets[cell[x]]} : resets' = [resets EXCEPT ![cell[x]] = v + 1]
  /\ seen' = [seen EXCEPT ![x] = resets[cell[x]]]
  /\ Goto(x, "count")
  /\ UNCHANGED <<scan, table, attempts, ready, overlap, cycles>>

\* st.deviceResets++, with the value of the check or a new read of it.
Arm(x) ==
  /\ pc[x] = "arm"
  /\ \E v \in {seen[x], resets[cell[x]]} : resets' = [resets EXCEPT ![cell[x]] = v + 1]
  /\ seen' = [seen EXCEPT ![x] = attempts[cell[x]]]
  /\ Goto(x, "count")
  /\ UNCHANGED <<scan, table, attempts, ready, overlap, cycles>>

\* A backoff that counts reconnects only.
CountReconnect(x) ==
  /\ pc[x] = "count"
  /\ attempts' = [attempts EXCEPT ![cell[x]] = seen[x] + (IF level[x] = 2 THEN 1 ELSE 0)]
  /\ seen' = [seen EXCEPT ![x] = 0]
  /\ Goto(x, "act")
  /\ UNCHANGED <<scan, table, resets, ready, overlap, cycles>>

\* backoff writes the counter, and sleeps.
Count(x) ==
  /\ pc[x] = "count"
  /\ attempts' = [attempts EXCEPT ![cell[x]] = seen[x] + 1]
  /\ seen' = [seen EXCEPT ![x] = 0]
  /\ Goto(x, "act")
  /\ UNCHANGED <<scan, table, resets, ready, overlap, cycles>>

\* L2 and L5, recoverVia: the plugin binds the channel again, after a power
\* cycle at L5, or leaves it RECONNECTING.
RecoverVia(x) ==
  /\ pc[x] = "act" /\ level[x] \in {2, 5}
  /\ cycles' = [cycles EXCEPT ![on[x]] =
       IF level[x] = 5 /\ ~overlap /\ @ <= MaxDeviceResets THEN @ + 1 ELSE @]
  /\ \/ ready' = ready \cup {on[x]} /\ Goto(x, "reset") /\ UNCHANGED <<seen, attempts, resets>>
     \/ ready' = ready \ {on[x]} /\ Climb(x, level[x])
  /\ UNCHANGED <<scan, table, overlap>>

\* L4: Discover scans again and opens what it finds, channel by channel.
Rediscover(x) ==
  /\ pc[x] = "act" /\ level[x] = 4
  /\ \E found \in SUBSET Channel : scan' = [scan EXCEPT ![x] = found]
  /\ Goto(x, "scan")
  /\ UNCHANGED <<seen, table, attempts, resets, ready, overlap, cycles>>

OpenFound(x, c) ==
  /\ pc[x] = "scan" /\ c \in scan[x]
  /\ scan' = [scan EXCEPT ![x] = @ \ {c}]
  /\ ready' = ready \cup {c} \/ ready' = ready \ {c}
  /\ UNCHANGED <<pc, on, failure, level, cell, seen, table, attempts, resets, overlap, cycles>>

\* L3, and L4 after its scan, reResolve: the failed channel is degraded first
\* (also when the scan has just opened it) ...
Degrade(x) ==
  /\ \/ pc[x] = "act" /\ level[x] = 3
     \/ pc[x] = "scan" /\ scan[x] = {}
  /\ ready' = ready \ {on[x]}
  /\ Goto(x, "resolve")
  /\ UNCHANGED <<seen, scan, table, attempts, resets, overlap, cycles>>

\* ... then the Resolver chooses, and its choice counts if it is another one.
ReResolve(x) ==
  /\ pc[x] = "resolve"
  /\ LET another == \E c \in Channel \ {on[x]} : IsBest(c)
     IN  \/ another /\ Goto(x, "reset") /\ UNCHANGED <<seen, attempts, resets>>
         \/ ~another /\ Climb(x, level[x])
  /\ UNCHANGED <<scan, table, ready, overlap, cycles>>

\* reset, under m.mu, and RECOVERED: whatever counters the table has now for
\* the failed channel are dropped.
Reset(x) ==
  /\ pc[x] = "reset"
  /\ table' = [table EXCEPT ![on[x]] = NoCell]
  /\ cycles' = [cycles EXCEPT ![on[x]] = 0]
  /\ Return(x, table')
  /\ UNCHANGED <<scan, ready, overlap>>

\* Meanwhile: markUnavailable, or the engine's Open of a channel.
Lose(c) ==
  /\ c \in ready
  /\ ready' = ready \ {c}
  /\ UNCHANGED <<callVars, table, attempts, resets, overlap, cycles>>

Reopen(c) ==
  /\ c \notin ready
  /\ ready' = ready \cup {c}
  /\ UNCHANGED <<callVars, table, attempts, resets, overlap, cycles>>

-----------------------------------------------------------------------------
(* The specification *)

Ladder(x) ==
  \/ Check(x) \/ StartLevel(x) \/ StartDeviceRecovery(x) \/ Arm(x) \/ Count(x)
  \/ RecoverVia(x) \/ Rediscover(x) \/ Degrade(x) \/ ReResolve(x) \/ Reset(x)

Next ==
  \/ \E x \in Caller, c \in Used, f \in Failures : Enter(x, c, f)
  \/ \E x \in Caller : Ladder(x)
  \/ \E x \in Caller, c \in Channel : OpenFound(x, c)
  \/ \E c \in Channel : Lose(c) \/ Reopen(c)

Spec == Init /\ [][Next]_vars

-----------------------------------------------------------------------------
(* Properties *)

\* While no two calls for one channel overlap (the operations hold exclusive
\* leases), the budget holds between two recoveries: a call that starts within
\* it adds at most its four levels, and the device is reset at most
\* MaxDeviceResets times (Recover, backoff).
BudgetKept ==
  ~overlap => \A c \in Used :
    /\ cycles[c] <= MaxDeviceResets
    /\ table[c] # NoCell => attempts[table[c]] <= MaxAttempts + 3

\* What is in a counter, or about to be written to it once increased.
Values(k) ==
  {attempts[k]} \cup {seen[x] : x \in {y \in Caller : cell[y] = k /\ pc[y] = "count"}}

\* The attempts are counted without a lock (recovery.go:231): calls that overlap lose
\* updates, and a counter may fall back.  But never below what every call that
\* still counts on it has seen: as long as a counter is in use, the least of
\* its values, in it or in somebody's hand, does not become less, so that spent
\* budget that all have noticed stays spent until somebody recovers.
SpentStaysSpent ==
  [][\A k \in Cell : Alive(k, table, cell) /\ Alive(k, table', cell') =>
       \A w \in Values(k)' : \E v \in Values(k) : v <= w]_vars

\* Recovery of a device that stays broken comes to an end: unless some call
\* recovers again and again, no more attempts are made from some time on,
\* however often the operations call Recover, at the same time or one after the
\* other, and although the counters are read and written without a lock.
RecoveryGivesUp ==
  \/ []<><<\E x \in Caller : Reset(x)>>_vars
  \/ <>[][~\E x \in Caller : pc[x] = "count" /\ pc'[x] = "act"]_vars
=============================================================================
