------------------------------ MODULE Discovery ------------------------------
(***************************************************************************)
(* Discovery (core/discovery/service.go) over the runtime registry         *)
(* (core/registry/registry.go): scan, probe, correlation of identities,    *)
(* endpoints, channels, hotplug and quarantine.                            *)
(*                                                                         *)
(* A pass is one call of Discover or Refresh; clients, the recovery        *)
(* manager, the farm and the batch executor start them when they like.     *)
(* s.mu protects lastSeen only, the registry's lock one table access at a  *)
(* time, so a pass is a sequence of steps between which boards come and    *)
(* go, channels fail and other passes work on the same tables.             *)
(*                                                                         *)
(* The boards, the scanners and the plugins are external.  A locator       *)
(* belongs to one plugin (its endpoint type selects it).  A plugin finds   *)
(* the board wired to a locator also while it is offline; Open needs it    *)
(* online.  An ID is the position of the object in the order of creation.  *)
(***************************************************************************)
EXTENDS Naturals, Sequences

CONSTANTS Pass,          \* the calls of Discover and Refresh at the same time
          Locator,       \* the places where a board can be found
          Board,         \* the boards
          SerialOf, HardwareOf,  \* their serial number and hardware ID, "" if unknown
          BoardsAt,      \* the boards that can be put at each locator
          MaxDevices, MaxEndpoints, MaxChannels  \* bounds on the objects created

Serials   == {SerialOf[b] : b \in Board}
Hardwares == {HardwareOf[b] : b \in Board}

ASSUME DiscoveryAssumption ==
  /\ Locator # {} /\ Board # {}
  /\ DOMAIN SerialOf = Board /\ DOMAIN HardwareOf = Board
  /\ BoardsAt \in [Locator -> SUBSET Board]
  /\ MaxDevices \in Nat /\ MaxEndpoints \in Nat /\ MaxChannels \in Nat

VARIABLES
  wired,      \* the board at each locator
  online,     \* the boards that are on
  devices,    \* Registry.devices
  bySerial,   \* Registry.bySerial: a position in devices, 0 if there is none
  endpoints,  \* Registry.endpoints
  channels,   \* Registry.channels
  lastSeen,   \* Service.lastSeen
  pc,         \* where each pass stands
  todo,       \* the locators it has scanned and not worked off
  job,        \* what it works on
  \* history, read by properties only
  swallowed   \* the locators a Discover took out of lastSeen

registry == <<devices, bySerial, endpoints, channels>>
boards   == <<wired, online>>
vars     == <<boards, registry, lastSeen, pc, todo, job, swallowed>>

PC == {"idle", "record", "compare", "loop", "upsert", "link", "add", "find", "open"}

Device   == [serial : Serials, hw : Hardwares, state : {"ONLINE", "OFFLINE", "QUARANTINED"}]
\* probed: the board whose answer made the endpoint what it is
Endpoint == [loc : Locator, dev : 1..MaxDevices, available : BOOLEAN, probed : Board]
Channel  == [ep : 1..MaxEndpoints, dev : 1..MaxDevices,
             state : {"READY", "DEGRADED", "RECONNECTING", "FAILED"}]
Job      == [loc : Locator, board : Board, state : {"ONLINE", "QUARANTINED"},
             dev : 0..MaxDevices, ep : 0..MaxEndpoints, ch : 0..MaxChannels]

AnyJob == [loc |-> CHOOSE l \in Locator : TRUE, board |-> CHOOSE b \in Board : TRUE,
           state |-> "ONLINE", dev |-> 0, ep |-> 0, ch |-> 0]

TypeOK ==
  /\ wired \in [Locator -> Board] /\ online \subseteq Board
  /\ devices \in Seq(Device) /\ Len(devices) <= MaxDevices
  /\ bySerial \in [Serials -> 0..Len(devices)]
  /\ endpoints \in Seq(Endpoint) /\ Len(endpoints) <= MaxEndpoints
  /\ channels \in Seq(Channel) /\ Len(channels) <= MaxChannels
  /\ lastSeen \subseteq Locator /\ swallowed \subseteq Locator
  /\ pc \in [Pass -> PC]
  /\ todo \in [Pass -> SUBSET Locator] /\ job \in [Pass -> Job]
  /\ \A e \in DOMAIN endpoints : endpoints[e].dev <= Len(devices)
  /\ \A c \in DOMAIN channels : channels[c].ep <= Len(endpoints)

Init ==
  /\ wired \in [Locator -> Board] /\ \A l \in Locator : wired[l] \in BoardsAt[l]
  /\ online \in SUBSET Board
  /\ devices = <<>> /\ endpoints = <<>> /\ channels = <<>>
  /\ bySerial = [s \in Serials |-> 0]
  /\ lastSeen = {} /\ swallowed = {}
  /\ pc = [x \in Pass |-> "idle"]
  /\ todo = [x \in Pass |-> {}] /\ job = [x \in Pass |-> AnyJob]

-----------------------------------------------------------------------------
(* The registry *)

Goto(x, p) == pc' = [pc EXCEPT ![x] = p]

\* EndpointByLocator and ChannelsByEndpoint: a map is searched, so any of
\* several matches may come first.
EndpointsAt(l) == {e \in DOMAIN endpoints : endpoints[e].loc = l}
ChannelsOf(e)  == {c \in DOMAIN channels : channels[c].ep = e}

\* An UpsertDevice that forgets the index.
AddUnindexed(d) ==
  /\ Len(devices) < MaxDevices
  /\ devices' = Append(devices, d)
  /\ UNCHANGED bySerial

\* UpsertDevice of a new device.
AddDevice(d) ==
  /\ Len(devices) < MaxDevices
  /\ devices' = Append(devices, d)
  /\ bySerial' = IF d.serial = "" THEN bySerial
                 ELSE [bySerial EXCEPT ![d.serial] = Len(devices) + 1]

-----------------------------------------------------------------------------
(* The scan *)

Present == {l \in Locator : wired[l] \in online}

\* Discover records the scan, Refresh compares it with the last one.
Start(x, next, found) ==
  /\ pc[x] = "idle"
  /\ todo' = [todo EXCEPT ![x] = found]
  /\ Goto(x, next)
  /\ UNCHANGED <<boards, registry, lastSeen, job, swallowed>>

Scan(x, next) == Start(x, next, Present)

\* Scanners that fail are skipped, and what they would have found is missing.
ScanFails(x, next) ==
  \E found \in SUBSET Present : found # Present /\ Start(x, next, found)

\* Discover: what was seen becomes lastSeen, nothing is compared.
Record(x) ==
  /\ pc[x] = "record"
  /\ lastSeen' = todo[x]
  /\ swallowed' = (swallowed \cup lastSeen) \ todo[x]
  /\ Goto(x, "loop")
  /\ UNCHANGED <<boards, registry, todo, job>>

\* markUnavailable: the endpoint, and of its channels those READY or DEGRADED.
MarkUnavailable(E) ==
  /\ endpoints' = [e \in DOMAIN endpoints |->
       IF e \in E THEN [endpoints[e] EXCEPT !.available = FALSE] ELSE endpoints[e]]
  /\ channels' = [c \in DOMAIN channels |->
       IF channels[c].ep \in E /\ channels[c].state \in {"READY", "DEGRADED"}
       THEN [channels[c] EXCEPT !.state = "DEGRADED"] ELSE channels[c]]

\* A comparison that remembers what it saw and forgets to mark the rest.
CompareWithoutMarking(x) ==
  /\ pc[x] = "compare"
  /\ lastSeen' = todo[x]
  /\ swallowed' = swallowed \ todo[x]
  /\ Goto(x, "loop")
  /\ UNCHANGED <<boards, registry, todo, job>>

\* Refresh, under s.mu: the available endpoints of what was there last time and
\* is no longer are marked, their devices are OFFLINE.
Compare(x) ==
  /\ pc[x] = "compare"
  /\ \E E \in SUBSET DOMAIN endpoints :
       /\ \A e \in E : endpoints[e].loc \in lastSeen \ todo[x]
       /\ \A l \in lastSeen \ todo[x] : EndpointsAt(l) # {} =>
            \E e \in EndpointsAt(l) : E \cap EndpointsAt(l) = {e}
       /\ LET lost == {e \in E : endpoints[e].available}
          IN  /\ MarkUnavailable(lost)
              /\ devices' = [d \in DOMAIN devices |->
                   IF \E e \in lost : endpoints[e].dev = d
                   THEN [devices[d] EXCEPT !.state = "OFFLINE"] ELSE devices[d]]
  /\ lastSeen' = todo[x]
  /\ swallowed' = swallowed \ todo[x]
  /\ Goto(x, "loop")
  /\ UNCHANGED <<boards, bySerial, todo, job>>

-----------------------------------------------------------------------------
(* discoverEndpoint, for each scanned locator *)

\* The pass goes on with the next locator.
NextLocator(x) ==
  /\ job' = [job EXCEPT ![x] = AnyJob]
  /\ todo' = [todo EXCEPT ![x] = @ \ {job[x].loc}]
  /\ Goto(x, "loop")

\* A correlation by the serial number alone.
CorrelateBySerial(b) ==
  LET d == bySerial[SerialOf[b]]
  IN  IF SerialOf[b] = "" \/ d = 0 \/ devices[d].state = "QUARANTINED"
      THEN [dev |-> 0, state |-> "ONLINE"]
      ELSE [dev |-> d, state |-> "ONLINE"]

\* correlate, its decision: the device with this serial, or a new one (dev = 0),
\* in quarantine if the serial is taken by other hardware.
Correlate(b) ==
  LET d == bySerial[SerialOf[b]]
  IN  IF SerialOf[b] = "" \/ d = 0 \/ devices[d].state = "QUARANTINED"
      THEN [dev |-> 0, state |-> "ONLINE"]
      ELSE IF devices[d].hw # "" /\ HardwareOf[b] # "" /\ devices[d].hw # HardwareOf[b]
           THEN [dev |-> 0, state |-> "QUARANTINED"]
           ELSE [dev |-> d, state |-> "ONLINE"]

\* Probe, and correlate up to its decision.
Probe(x, l) ==
  /\ pc[x] = "loop" /\ l \in todo[x]
  /\ LET b == wired[l]
         c == Correlate(b)
     IN  /\ job' = [job EXCEPT ![x] =
              [AnyJob EXCEPT !.loc = l, !.board = b, !.dev = c.dev, !.state = c.state]]
         /\ Goto(x, IF c.dev = 0 THEN "upsert" ELSE "link")
  /\ UNCHANGED <<boards, registry, lastSeen, todo, swallowed>>

\* No plugin answers for a board that has gone.
ProbeFails(x, l) ==
  /\ pc[x] = "loop" /\ l \in todo[x]
  /\ wired[l] \notin online
  /\ todo' = [todo EXCEPT ![x] = @ \ {l}]
  /\ UNCHANGED <<boards, registry, lastSeen, pc, job, swallowed>>

\* UpsertDevice of the new device.
Upsert(x) ==
  /\ pc[x] = "upsert"
  /\ AddDevice([serial |-> SerialOf[job[x].board], hw |-> HardwareOf[job[x].board],
                state |-> job[x].state])
  /\ job' = [job EXCEPT ![x].dev = Len(devices) + 1]
  /\ Goto(x, "link")
  /\ UNCHANGED <<boards, endpoints, channels, lastSeen, todo, swallowed>>

\* EndpointByLocator: a known endpoint is available again and belongs to the
\* device that answers now; an unknown one has to be added.
Link(x) ==
  /\ pc[x] = "link"
  /\ \/ \E e \in EndpointsAt(job[x].loc) :
          /\ endpoints' = [endpoints EXCEPT ![e].available = TRUE, ![e].dev = job[x].dev,
                                            ![e].probed = job[x].board]
          /\ job' = [job EXCEPT ![x].ep = e]
          /\ Goto(x, "find")
     \/ EndpointsAt(job[x].loc) = {} /\ Goto(x, "add") /\ UNCHANGED <<endpoints, job>>
  /\ UNCHANGED <<boards, devices, bySerial, channels, lastSeen, todo, swallowed>>

AddEndpoint(x) ==
  /\ pc[x] = "add"
  /\ Len(endpoints) < MaxEndpoints
  /\ endpoints' = Append(endpoints, [loc |-> job[x].loc, dev |-> job[x].dev,
                                     available |-> TRUE, probed |-> job[x].board])
  /\ job' = [job EXCEPT ![x].ep = Len(endpoints) + 1]
  /\ Goto(x, "find")
  /\ UNCHANGED <<boards, devices, bySerial, channels, lastSeen, todo, swallowed>>

\* A search that never finds the channel of the endpoint.
FindNoChannel(x) ==
  /\ pc[x] = "find"
  /\ Goto(x, "open")
  /\ UNCHANGED <<boards, registry, lastSeen, todo, job, swallowed>>

\* findChannel: the channel of this endpoint, or a new one (ch = 0).
FindChannel(x) ==
  /\ pc[x] = "find"
  /\ \/ \E c \in ChannelsOf(job[x].ep) : job' = [job EXCEPT ![x].ch = c]
     \/ ChannelsOf(job[x].ep) = {} /\ UNCHANGED job
  /\ Goto(x, "open")
  /\ UNCHANGED <<boards, registry, lastSeen, todo, swallowed>>

OpenState(l) == IF wired[l] \in online THEN "READY" ELSE "FAILED"

AddChannel(x) ==
  /\ Len(channels) < MaxChannels
  /\ channels' = Append(channels, [ep |-> job[x].ep, dev |-> job[x].dev,
                                   state |-> OpenState(job[x].loc)])

\* A pass that only opens the channels it makes.
OpenIfNew(x) ==
  /\ pc[x] = "open"
  /\ IF job[x].ch # 0 THEN UNCHANGED channels ELSE AddChannel(x)
  /\ NextLocator(x)
  /\ UNCHANGED <<boards, devices, bySerial, endpoints, lastSeen, swallowed>>

\* Open and AddChannel: READY, or FAILED if the board at the locator is offline.
\* A channel keeps the device it was made for.
Open(x) ==
  /\ pc[x] = "open"
  /\ IF job[x].ch = 0 THEN AddChannel(x)
     ELSE channels' = [channels EXCEPT ![job[x].ch].state = OpenState(job[x].loc)]
  /\ NextLocator(x)
  /\ UNCHANGED <<boards, devices, bySerial, endpoints, lastSeen, swallowed>>

Finish(x) ==
  /\ pc[x] = "loop" /\ todo[x] = {}
  /\ Goto(x, "idle")
  /\ UNCHANGED <<boards, registry, lastSeen, todo, job, swallowed>>

-----------------------------------------------------------------------------
(* Everybody else *)

SwitchOn(b) ==
  /\ b \notin online
  /\ online' = online \cup {b}
  /\ UNCHANGED <<wired, registry, lastSeen, pc, todo, job, swallowed>>

SwitchOff(b) ==
  /\ b \in online
  /\ online' = online \ {b}
  /\ UNCHANGED <<wired, registry, lastSeen, pc, todo, job, swallowed>>

\* Another board is put in the place of one.
Rewire(l, b) ==
  /\ b \in BoardsAt[l] \ {wired[l]}
  /\ wired' = [wired EXCEPT ![l] = b]
  /\ UNCHANGED <<online, registry, lastSeen, pc, todo, job, swallowed>>

\* reResolve, as the recovery manager leaves the channel of a failed operation.
Degrade(c) ==
  /\ channels[c].state = "READY"
  /\ channels' = [channels EXCEPT ![c].state = "DEGRADED"]
  /\ UNCHANGED <<boards, devices, bySerial, endpoints, lastSeen, pc, todo, job, swallowed>>

\* The recovery manager has the plugin reconnect a channel.
Reconnect(c) ==
  /\ LET b == wired[endpoints[channels[c].ep].loc]
     IN  channels' = [channels EXCEPT ![c].state = IF b \in online THEN "READY" ELSE "RECONNECTING"]
  /\ UNCHANGED <<boards, devices, bySerial, endpoints, lastSeen, pc, todo, job, swallowed>>

-----------------------------------------------------------------------------
(* The specification *)

PassStep(x) ==
  \/ Record(x) \/ Compare(x)
  \/ \E l \in Locator : Probe(x, l) \/ ProbeFails(x, l)
  \/ Upsert(x) \/ Link(x) \/ AddEndpoint(x) \/ FindChannel(x) \/ Open(x) \/ Finish(x)

Disturbance ==
  \/ \E x \in Pass : ScanFails(x, "record") \/ ScanFails(x, "compare")
  \/ \E b \in Board : SwitchOn(b) \/ SwitchOff(b)
  \/ \E l \in Locator, b \in Board : Rewire(l, b)
  \/ \E c \in DOMAIN channels : Degrade(c) \/ Reconnect(c)

Next ==
  \/ \E x \in Pass : Scan(x, "record") \/ Scan(x, "compare") \/ PassStep(x)
  \/ Disturbance

Spec == Init /\ [][Next]_vars

\* A pass that has begun ends, and Watch begins one at each tick.
FairSpec ==
  /\ Spec
  /\ \A x \in Pass : WF_vars(PassStep(x))
  /\ WF_vars(\E x \in Pass : Scan(x, "compare"))

-----------------------------------------------------------------------------
(* Properties *)

Known(h) == h # ""

\* A device can stand for a board: same serial, and no two hardware IDs.
Match(d, b) ==
  /\ d.serial = SerialOf[b]
  /\ Known(d.hw) /\ Known(HardwareOf[b]) => d.hw = HardwareOf[b]

\* correlate never merges boards that can be told apart: an endpoint belongs to
\* a device that matches the board that answered there last, also when the boards
\* change while a pass is under way, and when the device was looked up before
\* another took its place in the index.
IdentityKept ==
  \A e \in DOMAIN endpoints : Match(devices[endpoints[e].dev], endpoints[e].probed)

\* Rediscovery is idempotent (discoverEndpoint): no second endpoint for a
\* locator and no second channel for an endpoint, whatever comes and goes during
\* a pass.  For passes that do not overlap, as the properties below.
Idempotent ==
  /\ \A e, f \in DOMAIN endpoints : endpoints[e].loc = endpoints[f].loc => e = f
  /\ \A c, k \in DOMAIN channels : channels[c].ep = channels[k].ep => c = k

Twins(c, d) == devices[c].serial = devices[d].serial /\ devices[d].serial # ""

\* Different boards with one serial have been seen.
Conflict == \E c, d \in DOMAIN devices : Twins(c, d) /\ devices[c].hw # devices[d].hw

\* A serial number has one device until other hardware claims it (correlate).
OneDevicePerSerial ==
  ~Conflict => \A c, d \in DOMAIN devices : Twins(c, d) => c = d

\* The next Refresh will notice when the board of an available endpoint has gone
\* (Refresh compares with lastSeen), except where a Discover has taken the
\* locator out of lastSeen in between.
RemovalWillBeNoticed ==
  \A e \in DOMAIN endpoints :
    endpoints[e].available => endpoints[e].loc \in lastSeen \cup swallowed

Settled ==
  \A l \in Locator :
    l \in Present <=>
      \E e \in EndpointsAt(l) :
        endpoints[e].available /\ \E c \in ChannelsOf(e) : channels[c].state = "READY"

\* No removal has been swallowed and no serial number is disputed.
Calm == swallowed = {} /\ ~Conflict

\* Hotplug settles (Watch): if from some time on boards and channels are left
\* alone, then in the end just the locators with a live board have an available
\* endpoint and a READY channel, as long as it is calm.
HotplugSettles ==
  []Calm /\ <>[][~Disturbance]_vars => <>[]Settled
=============================================================================
