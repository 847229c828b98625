---------------------------- MODULE BoardChannels ----------------------------
(***************************************************************************)
(* One board and the channels that lead to it: the ADB, UART, JTAG and MCP *)
(* plugins (plugin/adb, uart, jtag, mcp) over the simulated device they    *)
(* share (fake/device.go), as the operations of core/operation/engine.go   *)
(* use them: leases of what a capability requires, a channel of the        *)
(* resolver, Invoke, and after a failure Observe, recovery and another     *)
(* attempt.                                                                *)
(*                                                                         *)
(* Every method of the device first calls guard, which looks at the device *)
(* under a read lock that it has given back when the method takes its own: *)
(* two steps.  Other modules have the details of what surrounds this:      *)
(* LockManager how leases are obtained (they do not expire here),          *)
(* OperationEngine the states of an operation, RecoveryLadder in which     *)
(* order and how often recovery tries its levels (in any order here).      *)
(*                                                                         *)
(* All flashes are of one partition, and all that the code compares of an  *)
(* image is its version.  The boot state is always "system"; files, logs   *)
(* and console output are left out, and requests whose parameters do not   *)
(* parse, such as a flash without a version.                               *)
(***************************************************************************)
EXTENDS Naturals, FiniteSetsExt

CONSTANTS Plugin,      \* the plugins that lead to the board
          Op,          \* the operations on it
          Capability,  \* what each of them asks for
          Version,     \* the version parameter of each flash
          Installed,   \* the version on the board at first
          MaxRetries   \* Engine.maxRetries

-----------------------------------------------------------------------------
(* What the plugins declare *)

\* The capabilities of a plugin, and ResourceRequirements of each.
AdbNeeds ==
  [info |-> {}, reboot |-> {"device"}, flash |-> {"device", "flash"},
   file |-> {}, log |-> {}, execute |-> {"device"}]
UartNeeds ==
  [console |-> {}, log |-> {}, reset |-> {"device", "debug"}, execute |-> {"device"}]
McpNeeds == [info |-> {}, reboot |-> {"device"}]

\* Resuming is forgotten.
JtagNeedsSome ==
  [halt |-> {"device", "debug"}, resume |-> {},
   read |-> {"device", "debug"}, write |-> {"device", "debug"}]
JtagNeeds ==
  [c \in {"halt", "resume", "read", "write"} |-> {"device", "debug"}]

Needs == [adb |-> AdbNeeds, uart |-> UartNeeds, jtag |-> JtagNeeds, mcp |-> McpNeeds]
Offers(p, o) == Capability[o] \in DOMAIN Needs[p]

ASSUME BoardAssumption ==
  /\ Plugin \subseteq DOMAIN Needs
  /\ Capability \in [Op -> UNION {DOMAIN Needs[p] : p \in Plugin}]
  /\ MaxRetries \in Nat
  /\ "none" \notin Op

\* Cost of a channel (Probe); does Open look whether the board answers, can
\* Recover power-cycle it (Open, Recover); does Invoke ask for IsOnline first.
Adb  == [cost |-> 10, looks |-> TRUE, cycles |-> TRUE, asks |-> FALSE]
Uart == [cost |-> 5, looks |-> TRUE, cycles |-> TRUE, asks |-> TRUE]
Jtag == [cost |-> 30, looks |-> FALSE, cycles |-> FALSE, asks |-> TRUE]
Mcp  == [cost |-> 20, looks |-> TRUE, cycles |-> TRUE, asks |-> FALSE]
Does == [adb |-> Adb, uart |-> Uart, jtag |-> Jtag, mcp |-> Mcp]

\* The category of what Invoke returns when a method of the device has failed
\* because it is offline or for another reason.
AdbError(c, offline) ==
  IF c = "flash" THEN "VALIDATION" ELSE IF offline THEN "DEVICE_STATE" ELSE "PROTOCOL"
UartError(c, offline) == "PROTOCOL"
JtagError(c, offline) == "PROTOCOL"
McpError(c, offline) == IF offline THEN "DEVICE_STATE" ELSE "PROTOCOL"
InvokeError(p, c, offline) ==
  CASE p = "adb"  -> AdbError(c, offline)
    [] p = "uart" -> UartError(c, offline)
    [] p = "jtag" -> JtagError(c, offline)
    [] p = "mcp"  -> McpError(c, offline)

\* The part of the board that a capability changes for others to see.
Part == {"partition", "core", "memory"}
Changes ==
  [flash |-> "partition", halt |-> "core", resume |-> "core", write |-> "memory"]
ChangesPart(o) == Capability[o] \in DOMAIN Changes
Flashes == {o \in Op : Capability[o] = "flash"}

-----------------------------------------------------------------------------
VARIABLES
  online, failing,  \* of the device: online, failNextInvoke
  part,             \* who has changed each of its parts last
  ready,            \* the plugins whose channel is READY
  at,               \* where each operation stands
  via,              \* the plugin of the channel it uses
  attempt,          \* of runWithRecovery
  category,         \* of the last error
  unknown,          \* the operations whose last observation found the board offline
  outcome,          \* the terminal state
  \* history, read by properties only
  applied           \* how often it has changed the board

deviceVars == <<online, failing, part, applied>>
boardVars == <<deviceVars, ready, at, via, attempt, category, unknown, outcome>>

Place == {"new", "resolve", "loop", "ask", "guard", "act", "readback", "failed",
       "recover", "bind", "release", "over"}
Outcome == {"SUCCEEDED", "RESOLVE_FAILED", "RUN_FAILED", "VERIFY_FAILED", "UNKNOWN"}
Category == {"VALIDATION", "DEVICE_STATE", "PROTOCOL"}

BoardInit ==
  /\ online = TRUE /\ failing = FALSE
  /\ part = [x \in Part |-> "none"]
  /\ ready = Plugin
  /\ at = [o \in Op |-> "new"]
  /\ via = [o \in Op |-> "none"]
  /\ attempt = [o \in Op |-> 0]
  /\ category = [o \in Op |-> "none"]
  /\ unknown = {}
  /\ outcome = [o \in Op |-> "none"]
  /\ applied = [o \in Op |-> 0]

-----------------------------------------------------------------------------
Goto(o, place) == at' = [at EXCEPT ![o] = place]

Finish(o, s) ==
  /\ Goto(o, "release")
  /\ outcome' = [outcome EXCEPT ![o] = s]

Fails(o, c) ==
  /\ Goto(o, "failed")
  /\ category' = [category EXCEPT ![o] = c]

\* The plugin whose descriptor the engine finds first is any that offers the
\* capability; they agree in what it requires.
NeedsOf(o) == UNION {Needs[p][Capability[o]] : p \in {q \in Plugin : Offers(q, o)}}
Holds(o) == IF at[o] \in {"new", "over"} THEN {} ELSE NeedsOf(o)

Acquire(o) ==
  /\ at[o] = "new"
  /\ \A q \in Op \ {o} : Holds(q) \cap NeedsOf(o) = {}
  /\ Goto(o, "resolve")
  /\ UNCHANGED <<deviceVars, ready, via, attempt, category, unknown, outcome>>

\* ResolveChannel: the cheapest of the READY channels P that offer the
\* capability.
Candidates(o, P) == {p \in P : Offers(p, o)}
IsBest(p, o, P) ==
  p \in Candidates(o, P) /\ \A q \in Candidates(o, P) : Does[p].cost <= Does[q].cost

Resolve(o) ==
  /\ at[o] = "resolve"
  /\ \/ /\ Candidates(o, ready) = {}
        /\ Finish(o, "RESOLVE_FAILED")
        /\ UNCHANGED via
     \/ \E p \in Plugin :
          /\ IsBest(p, o, ready)
          /\ via' = [via EXCEPT ![o] = p]
          /\ Goto(o, "loop")
          /\ UNCHANGED outcome
  /\ UNCHANGED <<deviceVars, ready, attempt, category, unknown>>

-----------------------------------------------------------------------------
(* An attempt *)

\* bind, or Open of JTAG, which does not ask the board.
Binds(p) == Does[p].looks => online

InvokeFrom(o) == Goto(o, IF Does[via[o]].asks THEN "ask" ELSE "guard")

\* The head of the loop: a channel that is not READY is opened first.
Loop(o) ==
  /\ at[o] = "loop"
  /\ \/ /\ via[o] \in ready \/ Binds(via[o])
        /\ ready' = ready \cup {via[o]}
        /\ InvokeFrom(o)
        /\ UNCHANGED outcome
     \/ /\ via[o] \notin ready /\ ~Binds(via[o])
        /\ Finish(o, "RUN_FAILED")
        /\ UNCHANGED ready
  /\ UNCHANGED <<deviceVars, via, attempt, category, unknown>>

\* IsOnline, where Invoke asks for it.
Ask(o) ==
  /\ at[o] = "ask"
  /\ \/ online /\ Goto(o, "guard") /\ UNCHANGED category
     \/ ~online /\ Fails(o, "DEVICE_STATE")
  /\ UNCHANGED <<deviceVars, ready, via, attempt, unknown, outcome>>

\* What the method does under the lock of the device.
Effect(o) ==
  /\ part' = IF ChangesPart(o) THEN [part EXCEPT ![Changes[Capability[o]]] = o]
                              ELSE part
  /\ applied' = [applied EXCEPT ![o] = @ + 1]
  /\ UNCHANGED <<online, failing>>

\* The device is asked afterwards.
Guard(o) ==
  /\ at[o] = "guard"
  /\ \/ online /\ ~failing /\ Goto(o, "act") /\ UNCHANGED category
     \/ /\ ~online \/ failing
        /\ Fails(o, InvokeError(via[o], Capability[o], ~online))
  /\ UNCHANGED <<deviceVars, ready, via, attempt, unknown, outcome>>

Act(o) ==
  /\ at[o] = "act"
  /\ Effect(o)
  /\ \/ Capability[o] = "flash" /\ Goto(o, "readback") /\ UNCHANGED outcome
     \/ Capability[o] # "flash" /\ Finish(o, "SUCCEEDED")
  /\ UNCHANGED <<ready, via, attempt, category, unknown>>

\* PartitionVersion.
VersionOn == IF part["partition"] = "none" THEN Installed ELSE Version[part["partition"]]

\* It is the evidence of a flash, which verify compares with the version that
\* was asked for.
ReadBack(o) ==
  /\ at[o] = "readback"
  /\ Finish(o, IF VersionOn = Version[o] THEN "SUCCEEDED" ELSE "VERIFY_FAILED")
  /\ UNCHANGED <<deviceVars, ready, via, attempt, category, unknown>>

-----------------------------------------------------------------------------
(* After a failure *)

\* A board that answers has done what it was asked to.
ObserveAnything(o) ==
  /\ at[o] = "failed"
  /\ IF online THEN Finish(o, "SUCCEEDED") ELSE Finish(o, "UNKNOWN")
  /\ UNCHANGED <<deviceVars, ready, via, attempt, category, unknown>>

\* A retry is next, unless there have been enough.
Retry(o, isUnknown) ==
  /\ unknown' = IF isUnknown THEN unknown \cup {o} ELSE unknown \ {o}
  /\ \/ attempt[o] < MaxRetries /\ Goto(o, "recover") /\ UNCHANGED outcome
     \/ /\ attempt[o] >= MaxRetries
        /\ Finish(o, IF isUnknown THEN "UNKNOWN" ELSE "RUN_FAILED")

\* Observe and Reconcile: a flash succeeds by its version, whoever put it there,
\* or needs somebody to look after it; anything else may be tried again.
Observe(o) ==
  /\ at[o] = "failed"
  /\ \/ ~online /\ Retry(o, TRUE)
     \/ online /\ Capability[o] # "flash" /\ Retry(o, FALSE)
     \/ /\ online /\ Capability[o] = "flash"
        /\ Finish(o, IF VersionOn = Version[o] THEN "SUCCEEDED" ELSE "UNKNOWN")
        /\ UNCHANGED unknown
  /\ UNCHANGED <<deviceVars, ready, via, attempt, category>>

\* L2, and the other half of L5: the plugin says RECONNECTING and binds.
Reconnect(o) ==
  /\ at[o] = "recover" /\ category[o] = "DEVICE_STATE"
  /\ ready' = ready \ {via[o]}
  /\ Goto(o, "bind")
  /\ UNCHANGED <<deviceVars, via, attempt, category, unknown, outcome>>

\* L5: Recover for "device_recovery", where the plugin has a power switch.
PowerCycle(o) ==
  /\ at[o] = "recover" /\ category[o] = "DEVICE_STATE"
  /\ ready' = ready \ {via[o]}
  /\ Goto(o, "bind")
  /\ \/ /\ Does[via[o]].cycles
        /\ online' = TRUE /\ failing' = FALSE
     \/ /\ ~Does[via[o]].cycles
        /\ UNCHANGED <<online, failing>>
  /\ UNCHANGED <<part, applied, via, attempt, category, unknown, outcome>>

Bind(o) ==
  /\ at[o] = "bind"
  /\ \/ /\ Binds(via[o])
        /\ ready' = ready \cup {via[o]}
        /\ attempt' = [attempt EXCEPT ![o] = @ + 1]
        /\ Goto(o, "loop")
     \/ /\ ~Binds(via[o])
        /\ Goto(o, "recover")
        /\ UNCHANGED <<ready, attempt>>
  /\ UNCHANGED <<deviceVars, via, category, unknown, outcome>>

\* L3 and L4: reResolve degrades the channel, then takes the best of the others,
\* a dearer one perhaps.
ReResolve(o) ==
  /\ at[o] = "recover" /\ category[o] \in {"DEVICE_STATE", "PROTOCOL"}
  /\ ready' = ready \ {via[o]}
  /\ \E p \in Plugin :
       /\ IsBest(p, o, ready \ {via[o]})
       /\ via' = [via EXCEPT ![o] = p]
  /\ attempt' = [attempt EXCEPT ![o] = @ + 1]
  /\ Goto(o, "loop")
  /\ UNCHANGED <<deviceVars, category, unknown, outcome>>

\* No level applies, none has helped, or the budget is spent; reResolve may have
\* degraded the channel.
GiveUp(o) ==
  /\ at[o] = "recover"
  /\ \/ UNCHANGED ready
     \/ category[o] # "VALIDATION" /\ ready' = ready \ {via[o]}
  /\ Finish(o, IF o \in unknown THEN "UNKNOWN" ELSE "RUN_FAILED")
  /\ UNCHANGED <<deviceVars, via, attempt, category, unknown>>

\* ReleaseAll.
GiveBack(o) ==
  /\ at[o] = "release"
  /\ Goto(o, "over")
  /\ via' = [via EXCEPT ![o] = "none"]
  /\ attempt' = [attempt EXCEPT ![o] = 0]
  /\ category' = [category EXCEPT ![o] = "none"]
  /\ unknown' = unknown \ {o}
  /\ UNCHANGED <<deviceVars, ready, outcome>>

-----------------------------------------------------------------------------
(* The surroundings *)

SetOnline == online' = ~online /\ UNCHANGED failing
SetFailNext == failing' = ~failing /\ UNCHANGED online
Disturb ==
  /\ SetOnline \/ SetFailNext
  /\ UNCHANGED <<part, applied, ready, at, via, attempt, category, unknown, outcome>>

\* Discovery opens a channel of a board it has scanned.
Rediscover(p) ==
  /\ p \notin ready
  /\ Binds(p)
  /\ ready' = ready \cup {p}
  /\ UNCHANGED <<deviceVars, at, via, attempt, category, unknown, outcome>>

\* Refresh misses the board: markUnavailable.
Lose(p) ==
  /\ p \in ready /\ ~online
  /\ ready' = ready \ {p}
  /\ UNCHANGED <<deviceVars, at, via, attempt, category, unknown, outcome>>

Step(o) ==
  \/ Acquire(o) \/ Resolve(o) \/ Loop(o) \/ Ask(o) \/ Guard(o) \/ Act(o) \/ ReadBack(o)
  \/ Observe(o) \/ Reconnect(o) \/ PowerCycle(o) \/ Bind(o) \/ ReResolve(o) \/ GiveUp(o)
  \/ GiveBack(o)

BoardNext ==
  \/ \E o \in Op : Step(o)
  \/ Disturb
  \/ \E p \in Plugin : Rediscover(p) \/ Lose(p)

BoardSpec == BoardInit /\ [][BoardNext]_boardVars

-----------------------------------------------------------------------------
(* Properties *)

BoardTypeOK ==
  /\ online \in BOOLEAN /\ failing \in BOOLEAN
  /\ part \in [Part -> Op \cup {"none"}]
  /\ ready \subseteq Plugin
  /\ at \in [Op -> Place]
  /\ via \in [Op -> Plugin \cup {"none"}]
  /\ attempt \in [Op -> 0 .. MaxRetries]
  /\ category \in [Op -> Category \cup {"none"}]
  /\ unknown \subseteq Op
  /\ outcome \in [Op -> Outcome \cup {"none"}]
  /\ applied \in [Op -> Nat]

\* While an operation holds its leases, the part of the board it has changed
\* stays as it has left it, whatever channel the others come through: what one
\* plugin declares to need keeps the other plugins away (the guard of the device
\* does not: it looks first and locks later).
LeaseKeepsBoard ==
  \A o \in Op :
    at[o] \in {"readback", "release"} /\ applied[o] > 0 /\ ChangesPart(o)
      => part[Changes[Capability[o]]] = o

\* The version of o was on the board at first or a flash has put it there.
Present(o) ==
  Version[o] = Installed \/ \E q \in Flashes : applied[q] > 0 /\ Version[q] = Version[o]

\* What the caller is told is what has happened: a success means that the board
\* has done it, once only, however often the engine tries again and through
\* whichever channels, or, for a flash that has had no effect, that the board
\* runs its version (Reconcile takes that for the postcondition); either way the
\* version of a flash that succeeds is on the board until it gives its leases
\* back; anything but a success means that the operation has not touched the
\* board; and no verification finds the version of somebody else.
AnswersAreTrue ==
  \A o \in Op :
    /\ outcome[o] = "SUCCEEDED" =>
         applied[o] = 1 \/ (applied[o] = 0 /\ o \in Flashes /\ Present(o))
    /\ outcome[o] = "SUCCEEDED" /\ at[o] = "release" /\ o \in Flashes =>
         VersionOn = Version[o]
    /\ outcome[o] \in {"RESOLVE_FAILED", "RUN_FAILED", "UNKNOWN"} => applied[o] = 0
    /\ outcome[o] # "VERIFY_FAILED"
=============================================================================
