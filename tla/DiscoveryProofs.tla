--------------------------- MODULE DiscoveryProofs ---------------------------
(***************************************************************************)
(* Proofs about Discovery, for any number of passes that overlap, any      *)
(* boards, locators and bounds that satisfy DiscoveryAssumption.           *)
(*                                                                         *)
(* IdentityKept is not inductive: the device of an endpoint is chosen in   *)
(* one step (correlate), entered in another and linked in a third.  The    *)
(* invariant adds what a pass knows between them (JobOk) and that the      *)
(* index leads to devices with the serial looked up (IndexOk).  It holds   *)
(* because devices are never removed and keep their serial number and      *)
(* hardware ID (Grows).                                                    *)
(*                                                                         *)
(* The properties of passes that do not overlap are proved of every        *)
(* behaviour that satisfies []NoOverlap, with an invariant that says what  *)
(* a pass has read and nobody has changed since (TidyInv).                 *)
(***************************************************************************)
EXTENDS Discovery, SequenceTheorems, TLAPS

JobOk(x) ==
  /\ pc[x] \in {"link", "add"} =>
       job[x].dev \in DOMAIN devices /\ Match(devices[job[x].dev], job[x].board)
  /\ pc[x] \in {"find", "open"} =>
       job[x].dev \in DOMAIN devices /\ job[x].ep \in DOMAIN endpoints

IndexOk ==
  \A s \in Serials : bySerial[s] # 0 => devices[bySerial[s]].serial = s

IdentityInv ==
  /\ TypeOK
  /\ \A x \in Pass : JobOk(x)
  /\ IndexOk
  /\ IdentityKept

\* What every step does to the devices: none goes, and none changes what it is.
Grows ==
  /\ DOMAIN devices \subseteq DOMAIN devices'
  /\ \A d \in DOMAIN devices : /\ devices'[d].serial = devices[d].serial
                               /\ devices'[d].hw = devices[d].hw

-----------------------------------------------------------------------------
(* Sequences *)

\* A function on the positions of a sequence is a sequence of the same length.
LEMMA SameLength ==
  ASSUME NEW S, NEW T, NEW s \in Seq(S), NEW f \in [DOMAIN s -> T]
  PROVE  f \in Seq(T) /\ Len(f) = Len(s) /\ DOMAIN f = DOMAIN s
  <1>1. Len(s) \in Nat /\ DOMAIN s = 1..Len(s)
    BY LenProperties
  <1>2. f \in Seq(T)
    BY <1>1, SeqDef
  <1>3. Len(f) \in Nat /\ DOMAIN f = 1..Len(f)
    BY <1>2, LenProperties
  <1> QED
    BY <1>1, <1>2, <1>3

LEMMA AppendKeeps ==
  ASSUME NEW S, NEW s \in Seq(S), NEW e \in S
  PROVE  /\ Append(s, e) \in Seq(S)
         /\ Len(Append(s, e)) = Len(s) + 1
         /\ DOMAIN Append(s, e) = DOMAIN s \cup {Len(s) + 1}
         /\ \A i \in DOMAIN s : Append(s, e)[i] = s[i]
         /\ Append(s, e)[Len(s) + 1] = e
         /\ Len(s) \in Nat /\ DOMAIN s = 1..Len(s)
  BY AppendProperties, LenProperties

-----------------------------------------------------------------------------
(* The devices only grow *)

\* What is known of the endpoints and of the other passes survives a step that
\* lets the tables grow.
LEMMA MatchKept ==
  ASSUME Grows, NEW d \in DOMAIN devices, NEW b
  PROVE  Match(devices[d], b) => Match(devices'[d], b)
  BY DEF Grows, Match, Known

LEMMA OthersKeep ==
  ASSUME Grows, NEW y, JobOk(y), pc'[y] = pc[y], job'[y] = job[y],
         DOMAIN endpoints \subseteq DOMAIN endpoints'
  PROVE  JobOk(y)'
  <1>1. CASE pc[y] \in {"link", "add"}
    <2>1. job[y].dev \in DOMAIN devices /\ Match(devices[job[y].dev], job[y].board)
      BY <1>1 DEF JobOk
    <2>2. job[y].dev \in DOMAIN devices' /\ Match(devices'[job[y].dev], job[y].board)
      BY <2>1, MatchKept DEF Grows
    <2> QED
      BY <1>1, <2>2 DEF JobOk, Match
  <1>2. CASE pc[y] \notin {"link", "add"}
    BY <1>2 DEF JobOk, Grows
  <1> QED
    BY <1>1, <1>2

\* A step that leaves the registry alone and moves no pass into a place where
\* JobOk asks for something.
LEMMA RegistryLeftAlone ==
  ASSUME IdentityInv, UNCHANGED registry,
         wired' \in [Locator -> Board], online' \subseteq Board,
         lastSeen' \subseteq Locator, swallowed' \subseteq Locator,
         pc' \in [Pass -> PC], todo' \in [Pass -> SUBSET Locator], job' \in [Pass -> Job],
         \A y \in Pass : \/ pc'[y] = pc[y] /\ job'[y] = job[y]
                         \/ pc'[y] \notin {"link", "add", "find", "open"}
  PROVE  IdentityInv'
  <1>1. TypeOK'
    BY DEF IdentityInv, TypeOK, registry
  <1>2. ASSUME NEW y \in Pass PROVE JobOk(y)'
    BY <1>2 DEF IdentityInv, JobOk, registry, Match
  <1>3. IndexOk' /\ IdentityKept'
    BY DEF IdentityInv, IndexOk, IdentityKept, registry, Match
  <1> QED
    BY <1>1, <1>2, <1>3 DEF IdentityInv

\* What the types say of the entries of the tables.
LEMMA Entries ==
  ASSUME TypeOK
  PROVE  /\ Len(devices) \in Nat /\ DOMAIN devices = 1..Len(devices)
         /\ Len(endpoints) \in Nat /\ DOMAIN endpoints = 1..Len(endpoints)
         /\ Len(channels) \in Nat /\ DOMAIN channels = 1..Len(channels)
         /\ \A d \in DOMAIN devices : devices[d] \in Device
         /\ \A e \in DOMAIN endpoints :
              endpoints[e] \in Endpoint /\ endpoints[e].dev \in DOMAIN devices
         /\ \A c \in DOMAIN channels :
              channels[c] \in Channel /\ channels[c].ep \in DOMAIN endpoints
  <1>1. /\ Len(devices) \in Nat /\ DOMAIN devices = 1..Len(devices)
        /\ Len(endpoints) \in Nat /\ DOMAIN endpoints = 1..Len(endpoints)
        /\ Len(channels) \in Nat /\ DOMAIN channels = 1..Len(channels)
    BY LenProperties DEF TypeOK
  <1>2. /\ \A d \in DOMAIN devices : devices[d] \in Device
        /\ \A e \in DOMAIN endpoints : endpoints[e] \in Endpoint
        /\ \A c \in DOMAIN channels : channels[c] \in Channel
    BY <1>1, ElementOfSeq DEF TypeOK
  <1>3. ASSUME NEW e \in DOMAIN endpoints PROVE endpoints[e].dev \in DOMAIN devices
    <2>1. endpoints[e].dev \in 1..MaxDevices /\ endpoints[e].dev <= Len(devices)
      BY <1>2 DEF Endpoint, TypeOK
    <2> QED
      BY <1>1, <2>1
  <1>4. ASSUME NEW c \in DOMAIN channels PROVE channels[c].ep \in DOMAIN endpoints
    <2>1. channels[c].ep \in 1..MaxEndpoints /\ channels[c].ep <= Len(endpoints)
      BY <1>2 DEF Channel, TypeOK
    <2> QED
      BY <1>1, <2>1
  <1> QED
    BY <1>1, <1>2, <1>3, <1>4

LEMMA AnyJobType == AnyJob \in Job
  BY DiscoveryAssumption DEF AnyJob, Job

-----------------------------------------------------------------------------
(* The scan *)

LEMMA StartKeeps ==
  ASSUME IdentityInv, NEW x \in Pass, NEW next \in {"record", "compare"},
         NEW found \in SUBSET Locator, Start(x, next, found)
  PROVE  IdentityInv'
  <1>1. /\ pc' \in [Pass -> PC] /\ todo' \in [Pass -> SUBSET Locator]
        /\ \A y \in Pass : pc'[y] = pc[y] \/ pc'[y] \in {"record", "compare"}
    BY DEF IdentityInv, TypeOK, Start, Goto, PC
  <1> QED
    BY <1>1, RegistryLeftAlone DEF IdentityInv, TypeOK, Start, boards

LEMMA RecordKeeps ==
  ASSUME IdentityInv, NEW x \in Pass, Record(x)
  PROVE  IdentityInv'
  <1>1. /\ pc' \in [Pass -> PC] /\ lastSeen' \subseteq Locator /\ swallowed' \subseteq Locator
        /\ \A y \in Pass : pc'[y] = pc[y] \/ pc'[y] = "loop"
    BY DEF IdentityInv, TypeOK, Record, Goto, PC
  <1> QED
    BY <1>1, RegistryLeftAlone DEF IdentityInv, TypeOK, Record, boards

LEMMA CompareKeeps ==
  ASSUME IdentityInv, NEW x \in Pass, Compare(x)
  PROVE  IdentityInv'
  <1> USE DEF IdentityInv
  <1>1. PICK E \in SUBSET DOMAIN endpoints :
          LET lost == {e \in E : endpoints[e].available}
          IN  /\ MarkUnavailable(lost)
              /\ devices' = [d \in DOMAIN devices |->
                   IF \E e \in lost : endpoints[e].dev = d
                   THEN [devices[d] EXCEPT !.state = "OFFLINE"] ELSE devices[d]]
    BY DEF Compare
  <1> DEFINE lost == {e \in E : endpoints[e].available}
  <1>2. /\ devices' \in [DOMAIN devices -> Device]
        /\ \A d \in DOMAIN devices : /\ devices'[d].serial = devices[d].serial
                                     /\ devices'[d].hw = devices[d].hw
    <2>1. \A d \in DOMAIN devices : devices[d] \in Device
      BY Entries
    <2> QED
      BY <1>1, <2>1 DEF Device
  <1>3. /\ devices' \in Seq(Device) /\ Len(devices') = Len(devices)
        /\ DOMAIN devices' = DOMAIN devices
    BY <1>2, SameLength DEF TypeOK
  <1>4. Grows
    BY <1>2, <1>3 DEF Grows
  <1>5. /\ endpoints' \in [DOMAIN endpoints -> Endpoint]
        /\ \A e \in DOMAIN endpoints : /\ endpoints'[e].dev = endpoints[e].dev
                                       /\ endpoints'[e].probed = endpoints[e].probed
    <2>1. \A e \in DOMAIN endpoints : endpoints[e] \in Endpoint
      BY Entries
    <2> QED
      BY <1>1, <2>1 DEF MarkUnavailable, Endpoint
  <1>6. /\ endpoints' \in Seq(Endpoint) /\ Len(endpoints') = Len(endpoints)
        /\ DOMAIN endpoints' = DOMAIN endpoints
    BY <1>5, SameLength DEF TypeOK
  <1>7. /\ channels' \in [DOMAIN channels -> Channel]
        /\ \A c \in DOMAIN channels : channels'[c].ep = channels[c].ep
    <2>1. \A c \in DOMAIN channels : channels[c] \in Channel
      BY Entries
    <2> QED
      BY <1>1, <2>1 DEF MarkUnavailable, Channel
  <1>8. /\ channels' \in Seq(Channel) /\ Len(channels') = Len(channels)
        /\ DOMAIN channels' = DOMAIN channels
    BY <1>7, SameLength DEF TypeOK
  <1>9. TypeOK'
    BY <1>3, <1>5, <1>6, <1>7, <1>8 DEF TypeOK, Compare, Goto, PC, boards
  <1>10. ASSUME NEW y \in Pass PROVE JobOk(y)'
    <2>1. CASE y = x
      BY <2>1 DEF Compare, Goto, JobOk, TypeOK
    <2>2. CASE y # x
      BY <2>2, <1>4, <1>6, OthersKeep DEF Compare, Goto, TypeOK
    <2> QED
      BY <2>1, <2>2
  <1>11. IndexOk'
    BY <1>2 DEF IndexOk, Compare, TypeOK
  <1>12. IdentityKept'
    <2>1. SUFFICES ASSUME NEW e \in DOMAIN endpoints
                   PROVE  Match(devices'[endpoints[e].dev], endpoints[e].probed)
      BY <1>5, <1>6 DEF IdentityKept, Match
    <2>2. endpoints[e].dev \in DOMAIN devices
      BY Entries
    <2> QED
      BY <2>2, <1>4, MatchKept DEF IdentityKept
  <1> QED
    BY <1>9, <1>10, <1>11, <1>12

-----------------------------------------------------------------------------
(* discoverEndpoint *)

\* The index leads to devices.
LEMMA IndexEntries ==
  ASSUME IdentityInv, NEW s \in Serials, bySerial[s] # 0
  PROVE  bySerial[s] \in DOMAIN devices /\ devices[bySerial[s]].serial = s
  <1>1. bySerial[s] \in 0..Len(devices) /\ Len(devices) \in Nat /\ DOMAIN devices = 1..Len(devices)
    BY Entries DEF IdentityInv, TypeOK
  <1> QED
    BY <1>1 DEF IdentityInv, IndexOk

\* correlate finds a device that matches the board, or decides for a new one.
LEMMA CorrelateMatches ==
  ASSUME IdentityInv, NEW b \in Board
  PROVE  /\ Correlate(b).state \in {"ONLINE", "QUARANTINED"}
         /\ Correlate(b).dev \in 0..MaxDevices
         /\ Correlate(b).dev # 0 =>
              /\ Correlate(b).dev \in DOMAIN devices
              /\ Match(devices[Correlate(b).dev], b)
  <1> DEFINE d == bySerial[SerialOf[b]]
  <1>1. SerialOf[b] \in Serials
    BY DiscoveryAssumption DEF Serials
  <1>2. d \in 0..MaxDevices
    BY <1>1, Entries, DiscoveryAssumption DEF IdentityInv, TypeOK
  <1>3. d # 0 => d \in DOMAIN devices /\ devices[d].serial = SerialOf[b]
    BY <1>1, IndexEntries
  <1>4. /\ Correlate(b).state \in {"ONLINE", "QUARANTINED"}
        /\ Correlate(b).dev \in {0, d}
        /\ Correlate(b).dev # 0 =>
             ~(devices[d].hw # "" /\ HardwareOf[b] # "" /\ devices[d].hw # HardwareOf[b])
    <2> HIDE DEF d
    <2> QED
      BY DEF Correlate, d
  <1>5. 0 \in 0..MaxDevices
    BY DiscoveryAssumption
  <1> HIDE DEF d
  <1> QED
    BY <1>2, <1>3, <1>4, <1>5 DEF Match, Known

\* A step that leaves the devices and the endpoints alone.
LEMMA EndpointsLeftAlone ==
  ASSUME IdentityInv, UNCHANGED <<devices, bySerial, endpoints>>, TypeOK',
         \A y \in Pass : JobOk(y)'
  PROVE  IdentityInv'
  BY DEF IdentityInv, IndexOk, IdentityKept, Match

LEMMA NextLocatorType ==
  ASSUME IdentityInv, NEW x \in Pass, NextLocator(x)
  PROVE  /\ pc' \in [Pass -> PC] /\ todo' \in [Pass -> SUBSET Locator] /\ job' \in [Pass -> Job]
         /\ pc'[x] = "loop"
         /\ \A y \in Pass \ {x} : pc'[y] = pc[y] /\ job'[y] = job[y]
  BY AnyJobType DEF IdentityInv, TypeOK, NextLocator, Goto, PC

LEMMA ProbeKeeps ==
  ASSUME IdentityInv, NEW x \in Pass, NEW l \in Locator, Probe(x, l)
  PROVE  IdentityInv'
  <1> DEFINE b == wired[l]
             c == Correlate(b)
             j == [AnyJob EXCEPT !.loc = l, !.board = b, !.dev = c.dev, !.state = c.state]
  <1>1. b \in Board
    BY DEF IdentityInv, TypeOK
  <1>2. /\ c.state \in {"ONLINE", "QUARANTINED"} /\ c.dev \in 0..MaxDevices
        /\ c.dev # 0 => c.dev \in DOMAIN devices /\ Match(devices[c.dev], b)
    BY <1>1, CorrelateMatches
  <1>3. j \in Job /\ j.dev = c.dev /\ j.board = b
    <2> HIDE DEF c, b
    <2> QED
      BY <1>1, <1>2, AnyJobType DEF Job
  <1>4. /\ job' = [job EXCEPT ![x] = j]
        /\ pc' = [pc EXCEPT ![x] = IF c.dev = 0 THEN "upsert" ELSE "link"]
        /\ UNCHANGED <<boards, registry, lastSeen, todo, swallowed>>
    BY DEF Probe, Goto
  <1> HIDE DEF j, c, b
  <1>5. TypeOK'
    BY <1>3, <1>4 DEF IdentityInv, TypeOK, PC, boards, registry
  <1>6. ASSUME NEW y \in Pass PROVE JobOk(y)'
    <2>1. CASE y = x
      BY <2>1, <1>2, <1>3, <1>4 DEF IdentityInv, TypeOK, JobOk, registry, Match
    <2>2. CASE y # x
      BY <2>2, <1>4 DEF IdentityInv, TypeOK, JobOk, registry, Match
    <2> QED
      BY <2>1, <2>2
  <1> QED
    BY <1>4, <1>5, <1>6, EndpointsLeftAlone DEF registry

LEMMA ProbeFailsKeeps ==
  ASSUME IdentityInv, NEW x \in Pass, NEW l \in Locator, ProbeFails(x, l)
  PROVE  IdentityInv'
  <1>1. todo' \in [Pass -> SUBSET Locator]
    BY DEF IdentityInv, TypeOK, ProbeFails
  <1> QED
    BY <1>1, RegistryLeftAlone DEF IdentityInv, TypeOK, ProbeFails, boards

LEMMA UpsertKeeps ==
  ASSUME IdentityInv, NEW x \in Pass, Upsert(x)
  PROVE  IdentityInv'
  <1> USE DEF IdentityInv
  <1> DEFINE b == job[x].board
             n == Len(devices) + 1
             d == [serial |-> SerialOf[b], hw |-> HardwareOf[b], state |-> job[x].state]
  <1>1. b \in Board /\ d \in Device /\ Match(d, b)
    BY DiscoveryAssumption DEF TypeOK, Job, Device, Serials, Hardwares, Match
  <1>2. /\ devices' = Append(devices, d)
        /\ bySerial' = IF d.serial = "" THEN bySerial ELSE [bySerial EXCEPT ![d.serial] = n]
        /\ job' = [job EXCEPT ![x].dev = n]
        /\ pc' = [pc EXCEPT ![x] = "link"]
        /\ Len(devices) < MaxDevices
    BY DEF Upsert, AddDevice, Goto
  <1> HIDE DEF d, b
  <1>3. /\ devices' \in Seq(Device) /\ Len(devices') = n
        /\ DOMAIN devices' = DOMAIN devices \cup {n}
        /\ \A i \in DOMAIN devices : devices'[i] = devices[i]
        /\ devices'[n] = d
        /\ Len(devices) \in Nat /\ DOMAIN devices = 1..Len(devices)
    <2>1. devices \in Seq(Device)
      BY DEF TypeOK
    <2> HIDE DEF IdentityInv
    <2>2. d \in Device
      BY <1>1
    <2>3. /\ Append(devices, d) \in Seq(Device) /\ Len(Append(devices, d)) = n
          /\ DOMAIN Append(devices, d) = DOMAIN devices \cup {n}
          /\ \A i \in DOMAIN devices : Append(devices, d)[i] = devices[i]
          /\ Append(devices, d)[n] = d
          /\ Len(devices) \in Nat /\ DOMAIN devices = 1..Len(devices)
      BY <2>1, <2>2, AppendKeeps
    <2>4. devices' = Append(devices, d)
      BY <1>2
    <2> QED
      BY <2>3, <2>4
  <1>4. Grows
    BY <1>3 DEF Grows
  <1>5. TypeOK'
    <2>1. n \in 1..MaxDevices
      <3>1. Len(devices) < MaxDevices /\ Len(devices) \in Nat /\ MaxDevices \in Nat
        BY <1>2, <1>3, DiscoveryAssumption
      <3> QED
        BY <3>1
    <2>2. job' \in [Pass -> Job]
      <3>1. [job[x] EXCEPT !.dev = n] \in Job
        <4>1. job[x] \in Job
          BY DEF TypeOK
        <4> HIDE DEF n
        <4> QED
          BY <2>1, <4>1 DEF Job
      <3> QED
        BY <1>2, <3>1 DEF TypeOK
    <2>3. bySerial' \in [Serials -> 0..Len(devices')]
      <3>1. bySerial \in [Serials -> 0..Len(devices)]
        BY DEF TypeOK
      <3>2. 0..Len(devices) \subseteq 0..Len(devices') /\ n \in 0..Len(devices')
        <4>1. Len(devices) \in Nat /\ Len(devices') = n
          BY <1>3
        <4> QED
          BY <4>1
      <3>3. bySerial' = bySerial \/ bySerial' = [bySerial EXCEPT ![d.serial] = n]
        BY <1>2
      <3> HIDE DEF n
      <3> QED
        BY <3>1, <3>2, <3>3
    <2>4. \A e \in DOMAIN endpoints : endpoints[e].dev <= Len(devices')
      BY <1>3, Entries
    <2> QED
      <3>1. pc' \in [Pass -> PC] /\ Len(devices') <= MaxDevices
        <4>1. pc' \in [Pass -> PC]
          BY <1>2 DEF TypeOK, PC
        <4>2. Len(devices') = n /\ Len(devices) \in Nat /\ MaxDevices \in Nat
          BY <1>3, DiscoveryAssumption
        <4> QED
          BY <2>1, <4>1, <4>2
      <3> QED
        BY <1>3, <2>2, <2>3, <2>4, <3>1 DEF TypeOK, Upsert, boards
  <1>6. ASSUME NEW y \in Pass PROVE JobOk(y)'
    <2>1. CASE y = x
      <3>1. pc'[x] = "link" /\ job'[x].dev = n /\ job'[x].board = b
        BY <1>2 DEF TypeOK, Job, b
      <3> QED
        BY <2>1, <3>1, <1>1, <1>3 DEF JobOk, Match
    <2>2. CASE y # x
      BY <2>2, <1>2, <1>4, OthersKeep DEF Upsert, TypeOK
    <2> QED
      BY <2>1, <2>2
  <1>7. IndexOk'
    <2>1. SUFFICES ASSUME NEW s \in Serials, bySerial'[s] # 0
                   PROVE  devices'[bySerial'[s]].serial = s
      BY DEF IndexOk
    <2>2. CASE bySerial'[s] = bySerial[s]
      BY <2>1, <2>2, <1>3, IndexEntries
    <2>3. CASE bySerial'[s] # bySerial[s]
      BY <2>3, <1>2, <1>3 DEF TypeOK
    <2> QED
      BY <2>2, <2>3
  <1>8. IdentityKept'
    BY <1>3, Entries DEF IdentityKept, Upsert, Match
  <1> QED
    BY <1>5, <1>6, <1>7, <1>8

LEMMA LinkKeeps ==
  ASSUME IdentityInv, NEW x \in Pass, Link(x)
  PROVE  IdentityInv'
  <1> USE DEF IdentityInv
  <1>1. CASE Goto(x, "add") /\ UNCHANGED <<endpoints, job>>
    <2>1. TypeOK' /\ UNCHANGED <<devices, bySerial, endpoints>>
      BY <1>1 DEF TypeOK, Link, Goto, PC, boards
    <2>2. ASSUME NEW y \in Pass PROVE JobOk(y)'
      BY <1>1, <2>1 DEF TypeOK, Link, Goto, JobOk, Match
    <2> QED
      BY <2>1, <2>2, EndpointsLeftAlone
  <1>2. ASSUME NEW e \in EndpointsAt(job[x].loc),
               endpoints' = [endpoints EXCEPT ![e].available = TRUE, ![e].dev = job[x].dev,
                                              ![e].probed = job[x].board],
               job' = [job EXCEPT ![x].ep = e], Goto(x, "find")
        PROVE  IdentityInv'
    <2>1. /\ pc[x] = "link" /\ job[x] \in Job
          /\ job[x].dev \in DOMAIN devices /\ Match(devices[job[x].dev], job[x].board)
          /\ UNCHANGED <<boards, devices, bySerial, channels, lastSeen, todo, swallowed>>
      BY DEF Link, JobOk, TypeOK
    <2>2. e \in DOMAIN endpoints /\ e \in 0..MaxEndpoints
      <3>1. e \in DOMAIN endpoints
        BY DEF EndpointsAt
      <3>2. e \in 1..Len(endpoints) /\ Len(endpoints) \in Nat /\ Len(endpoints) <= MaxEndpoints
        BY <3>1, Entries DEF TypeOK
      <3> QED
        BY <3>1, <3>2, DiscoveryAssumption
    <2> DEFINE n == [endpoints[e] EXCEPT !.available = TRUE, !.dev = job[x].dev,
                                         !.probed = job[x].board]
    <2>3. n \in Endpoint /\ n.dev = job[x].dev /\ n.probed = job[x].board
      <3>1. endpoints[e] \in Endpoint
        BY <2>2, Entries
      <3>2. job[x].dev \in 1..MaxDevices /\ job[x].board \in Board
        <4>1. job[x].dev \in 1..Len(devices) /\ Len(devices) \in Nat /\ Len(devices) <= MaxDevices
          BY <2>1, Entries DEF TypeOK
        <4> QED
          BY <2>1, <4>1, DiscoveryAssumption DEF Job
      <3> QED
        BY <3>1, <3>2 DEF Endpoint
    <2>4. endpoints' = [endpoints EXCEPT ![e] = n]
      BY <1>2
    <2> HIDE DEF n
    <2>5. /\ endpoints' \in [DOMAIN endpoints -> Endpoint] /\ endpoints'[e] = n
          /\ \A f \in DOMAIN endpoints \ {e} : endpoints'[f] = endpoints[f]
      BY <2>2, <2>3, <2>4, Entries
    <2>6. /\ endpoints' \in Seq(Endpoint) /\ Len(endpoints') = Len(endpoints)
          /\ DOMAIN endpoints' = DOMAIN endpoints
      BY <2>5, SameLength DEF TypeOK
    <2>7. Grows
      BY <2>1 DEF Grows
    <2>8. TypeOK'
      <3>1. pc' \in [Pass -> PC] /\ job' \in [Pass -> Job]
        <4>1. [job[x] EXCEPT !.ep = e] \in Job
          BY <2>1, <2>2 DEF Job
        <4>2. job' = [job EXCEPT ![x] = [job[x] EXCEPT !.ep = e]]
          BY <1>2 DEF TypeOK
        <4> QED
          BY <1>2, <4>1, <4>2 DEF TypeOK, Goto, PC
      <3>2. \A f \in DOMAIN endpoints : endpoints'[f].dev <= Len(devices)
        BY <2>1, <2>3, <2>5, Entries
      <3> QED
        BY <2>1, <2>6, <3>1, <3>2 DEF TypeOK, boards
    <2>9. ASSUME NEW y \in Pass PROVE JobOk(y)'
      <3>1. CASE y = x
        BY <1>2, <2>1, <2>2, <2>6, <3>1 DEF TypeOK, JobOk, Goto, Job
      <3>2. CASE y # x
        BY <1>2, <2>6, <2>7, <3>2, OthersKeep DEF TypeOK, Goto
      <3> QED
        BY <3>1, <3>2
    <2>10. IndexOk' /\ IdentityKept'
      BY <2>1, <2>3, <2>5, <2>6 DEF IndexOk, IdentityKept, Match
    <2> QED
      BY <2>8, <2>9, <2>10
  <1> QED
    BY <1>1, <1>2 DEF Link

LEMMA AddEndpointKeeps ==
  ASSUME IdentityInv, NEW x \in Pass, AddEndpoint(x)
  PROVE  IdentityInv'
  <1> USE DEF IdentityInv
  <1> DEFINE n == Len(endpoints) + 1
             e == [loc |-> job[x].loc, dev |-> job[x].dev,
                   available |-> TRUE, probed |-> job[x].board]
  <1>1. /\ pc[x] = "add" /\ job[x] \in Job
        /\ job[x].dev \in DOMAIN devices /\ Match(devices[job[x].dev], job[x].board)
        /\ Len(endpoints) < MaxEndpoints
        /\ endpoints' = Append(endpoints, e)
        /\ job' = [job EXCEPT ![x].ep = n]
        /\ pc' = [pc EXCEPT ![x] = "find"]
        /\ UNCHANGED <<boards, devices, bySerial, channels, lastSeen, todo, swallowed>>
    BY DEF AddEndpoint, JobOk, TypeOK, Goto
  <1>2. e \in Endpoint /\ e.dev = job[x].dev /\ e.probed = job[x].board
    <2>1. job[x].dev \in 1..MaxDevices
      <3>1. job[x].dev \in 1..Len(devices) /\ Len(devices) \in Nat /\ Len(devices) <= MaxDevices
        BY <1>1, Entries DEF TypeOK
      <3> QED
        BY <3>1, DiscoveryAssumption
    <2> QED
      BY <1>1, <2>1 DEF Endpoint, Job
  <1> HIDE DEF e
  <1>3. /\ Append(endpoints, e) \in Seq(Endpoint) /\ Len(Append(endpoints, e)) = n
        /\ DOMAIN Append(endpoints, e) = DOMAIN endpoints \cup {n}
        /\ \A i \in DOMAIN endpoints : Append(endpoints, e)[i] = endpoints[i]
        /\ Append(endpoints, e)[n] = e
        /\ Len(endpoints) \in Nat /\ DOMAIN endpoints = 1..Len(endpoints)
    <2>1. endpoints \in Seq(Endpoint)
      BY DEF TypeOK
    <2> HIDE DEF IdentityInv
    <2> QED
      BY <1>2, <2>1, AppendKeeps
  <1>4. n \in 1..MaxEndpoints /\ n \in 0..MaxEndpoints
    <2>1. Len(endpoints) \in Nat /\ Len(endpoints) < MaxEndpoints /\ MaxEndpoints \in Nat
      BY <1>1, <1>3, DiscoveryAssumption
    <2> QED
      BY <2>1
  <1>5. Grows
    BY <1>1 DEF Grows
  <1> HIDE DEF n
  <1>6. TypeOK'
    <2>1. pc' \in [Pass -> PC] /\ job' \in [Pass -> Job]
      <3>1. [job[x] EXCEPT !.ep = n] \in Job
        BY <1>1, <1>4 DEF Job
      <3>2. job' = [job EXCEPT ![x] = [job[x] EXCEPT !.ep = n]]
        BY <1>1 DEF TypeOK
      <3> QED
        BY <1>1, <3>1, <3>2 DEF TypeOK, PC
    <2>2. \A f \in DOMAIN endpoints' : endpoints'[f].dev <= Len(devices)
      BY <1>1, <1>2, <1>3, Entries
    <2>3. Len(endpoints') <= MaxEndpoints
      BY <1>1, <1>3, <1>4
    <2>4. \A c \in DOMAIN channels : channels[c].ep <= Len(endpoints')
      <3>1. \A c \in DOMAIN channels : channels[c].ep \in 1..Len(endpoints)
        BY Entries
      <3>2. Len(endpoints') = Len(endpoints) + 1 /\ Len(endpoints) \in Nat
        BY <1>1, <1>3 DEF n
      <3> QED
        BY <3>1, <3>2
    <2> QED
      BY <1>1, <1>3, <2>1, <2>2, <2>3, <2>4 DEF TypeOK, boards
  <1>7. ASSUME NEW y \in Pass PROVE JobOk(y)'
    <2>1. CASE y = x
      BY <1>1, <1>3, <2>1 DEF TypeOK, JobOk, Job
    <2>2. CASE y # x
      BY <1>1, <1>3, <1>5, <2>2, OthersKeep DEF TypeOK
    <2> QED
      BY <2>1, <2>2
  <1>8. IndexOk' /\ IdentityKept'
    BY <1>1, <1>2, <1>3 DEF IndexOk, IdentityKept, Match
  <1> QED
    BY <1>6, <1>7, <1>8

LEMMA FindChannelKeeps ==
  ASSUME IdentityInv, NEW x \in Pass, FindChannel(x)
  PROVE  IdentityInv'
  <1> USE DEF IdentityInv
  <1>1. PICK c \in 0..MaxChannels : job' = [job EXCEPT ![x].ch = c]
    <2>1. ASSUME NEW c \in ChannelsOf(job[x].ep), job' = [job EXCEPT ![x].ch = c]
          PROVE  c \in 0..MaxChannels
      <3>1. c \in 1..Len(channels) /\ Len(channels) \in Nat /\ Len(channels) <= MaxChannels
        BY Entries DEF TypeOK, ChannelsOf
      <3> QED
        BY <3>1, DiscoveryAssumption
    <2>2. CASE ~UNCHANGED job
      BY <2>1, <2>2 DEF FindChannel
    <2>3. CASE UNCHANGED job
      <3>1. job[x] \in Job
        BY DEF TypeOK
      <3>2. job[x].ch \in 0..MaxChannels /\ job = [job EXCEPT ![x].ch = job[x].ch]
        BY <3>1 DEF TypeOK, Job
      <3> QED
        BY <2>3, <3>2
    <2> QED
      BY <2>2, <2>3
  <1>2. TypeOK' /\ UNCHANGED <<devices, bySerial, endpoints>>
    BY <1>1 DEF TypeOK, FindChannel, Goto, PC, boards, registry, Job
  <1>3. ASSUME NEW y \in Pass PROVE JobOk(y)'
    <2>1. job'[y].dev = job[y].dev /\ job'[y].ep = job[y].ep
      BY <1>1 DEF TypeOK, Job
    <2>2. pc[x] = "find" /\ (y = x => pc'[y] = "open") /\ (y # x => pc'[y] = pc[y])
      BY DEF TypeOK, FindChannel, Goto
    <2>3. JobOk(y) /\ job'[y].board = job[y].board
      BY <1>1 DEF TypeOK, Job
    <2> QED
      BY <1>2, <2>1, <2>2, <2>3 DEF JobOk, Match
  <1> QED
    BY <1>2, <1>3, EndpointsLeftAlone

\* Open makes a channel of the endpoint and the device the pass works on.
LEMMA OpenKeeps ==
  ASSUME IdentityInv, NEW x \in Pass, Open(x)
  PROVE  IdentityInv'
  <1> USE DEF IdentityInv
  <1> DEFINE s == OpenState(job[x].loc)
             c == job[x].ch
             new == [ep |-> job[x].ep, dev |-> job[x].dev, state |-> s]
  <1>1. /\ pc[x] = "open" /\ job[x] \in Job /\ s \in {"READY", "FAILED"}
        /\ job[x].dev \in DOMAIN devices /\ job[x].ep \in DOMAIN endpoints
        /\ UNCHANGED <<boards, devices, bySerial, endpoints, lastSeen, swallowed>>
    BY DEF Open, OpenState, JobOk, TypeOK
  <1>2. /\ pc' \in [Pass -> PC] /\ todo' \in [Pass -> SUBSET Locator] /\ job' \in [Pass -> Job]
        /\ pc'[x] = "loop"
        /\ \A y \in Pass \ {x} : pc'[y] = pc[y] /\ job'[y] = job[y]
    BY NextLocatorType DEF Open
  <1>3. /\ channels' \in Seq(Channel) /\ Len(channels') <= MaxChannels
        /\ \A k \in DOMAIN channels' : channels'[k].ep \in DOMAIN endpoints
    <2>1. CASE c = 0
      <3>1. channels' = Append(channels, new) /\ Len(channels) < MaxChannels
        BY <2>1 DEF Open, AddChannel
      <3>2. new \in Channel
        <4>1. job[x].dev \in 1..MaxDevices
          <5>1. job[x].dev \in 1..Len(devices) /\ Len(devices) \in Nat /\ Len(devices) <= MaxDevices
            BY <1>1, Entries DEF TypeOK
          <5> QED
            BY <5>1, DiscoveryAssumption
        <4>2. job[x].ep \in 1..MaxEndpoints
          <5>1. /\ job[x].ep \in 1..Len(endpoints) /\ Len(endpoints) \in Nat
                /\ Len(endpoints) <= MaxEndpoints
            BY <1>1, Entries DEF TypeOK
          <5> QED
            BY <5>1, DiscoveryAssumption
        <4> HIDE DEF s
        <4> QED
          BY <1>1, <4>1, <4>2 DEF Channel
      <3>3. new.ep = job[x].ep
        OBVIOUS
      <3> HIDE DEF new
      <3>4. channels \in Seq(Channel)
        BY DEF TypeOK
      <3>5. /\ channels' \in Seq(Channel) /\ Len(channels') = Len(channels) + 1
            /\ DOMAIN channels' = DOMAIN channels \cup {Len(channels) + 1}
            /\ \A i \in DOMAIN channels : channels'[i] = channels[i]
            /\ channels'[Len(channels) + 1] = new
            /\ Len(channels) \in Nat
        <4> HIDE DEF IdentityInv
        <4> QED
          BY <3>1, <3>2, <3>4, AppendKeeps
      <3>6. Len(channels') <= MaxChannels
        <4>1. MaxChannels \in Nat
          BY DiscoveryAssumption
        <4> QED
          BY <3>1, <3>5, <4>1
      <3> QED
        BY <1>1, <3>3, <3>5, <3>6, Entries
    <2>2. CASE c # 0
      <3> DEFINE old == [channels[c] EXCEPT !.state = s]
      <3>1. channels' = [channels EXCEPT ![c] = old]
        BY <2>2 DEF Open
      <3>2. \A k \in DOMAIN channels : channels[k] \in Channel
        BY Entries
      <3>3. c \in DOMAIN channels => old \in Channel /\ old.ep = channels[c].ep
        <4> SUFFICES ASSUME c \in DOMAIN channels
                     PROVE  old \in Channel /\ old.ep = channels[c].ep
          OBVIOUS
        <4> HIDE DEF s, c
        <4> QED
          BY <1>1, <3>2 DEF Channel
      <3> HIDE DEF old, c, s
      <3>4. /\ channels' \in [DOMAIN channels -> Channel]
            /\ \A k \in DOMAIN channels : channels'[k].ep = channels[k].ep
        <4>1. channels \in [DOMAIN channels -> Channel]
          BY <3>2, Entries, LenProperties DEF TypeOK
        <4> QED
          BY <3>1, <3>3, <4>1
      <3>5. /\ channels' \in Seq(Channel) /\ Len(channels') = Len(channels)
            /\ DOMAIN channels' = DOMAIN channels
        BY <3>4, SameLength DEF TypeOK
      <3> QED
        BY <3>4, <3>5, Entries DEF TypeOK
    <2> QED
      BY <2>1, <2>2
  <1>4. \A k \in DOMAIN channels' : channels'[k].ep <= Len(endpoints)
    BY <1>3, Entries
  <1>5. TypeOK'
    BY <1>1, <1>2, <1>3, <1>4 DEF TypeOK, boards
  <1>6. ASSUME NEW y \in Pass PROVE JobOk(y)'
    BY <1>1, <1>2 DEF JobOk, Match
  <1> QED
    BY <1>1, <1>5, <1>6, EndpointsLeftAlone

LEMMA FinishKeeps ==
  ASSUME IdentityInv, NEW x \in Pass, Finish(x)
  PROVE  IdentityInv'
  <1>1. pc' \in [Pass -> PC] /\ \A y \in Pass : pc'[y] = pc[y] \/ pc'[y] = "idle"
    BY DEF IdentityInv, TypeOK, Finish, Goto, PC
  <1> QED
    BY <1>1, RegistryLeftAlone DEF IdentityInv, TypeOK, Finish, boards

-----------------------------------------------------------------------------
(* Everybody else *)

LEMMA BoardsKeep ==
  ASSUME IdentityInv,
         \/ \E b \in Board : SwitchOn(b) \/ SwitchOff(b)
         \/ \E l \in Locator, b \in Board : Rewire(l, b)
  PROVE  IdentityInv'
  <1>1. /\ wired' \in [Locator -> Board] /\ online' \subseteq Board
        /\ UNCHANGED <<registry, lastSeen, pc, todo, job, swallowed>>
    BY DEF IdentityInv, TypeOK, SwitchOn, SwitchOff, Rewire
  <1> QED
    BY <1>1, RegistryLeftAlone DEF IdentityInv, TypeOK

LEMMA ChannelsKeep ==
  ASSUME IdentityInv, NEW c \in DOMAIN channels, Degrade(c) \/ Reconnect(c)
  PROVE  IdentityInv'
  <1> USE DEF IdentityInv
  <1>1. /\ channels' \in [DOMAIN channels -> Channel]
        /\ \A k \in DOMAIN channels : channels'[k].ep = channels[k].ep
    <2>1. \A k \in DOMAIN channels :
            channels[k] \in Channel /\ channels[k].ep \in DOMAIN endpoints
      BY Entries
    <2>2. channels \in [DOMAIN channels -> Channel]
      BY <2>1, Entries, LenProperties DEF TypeOK
    <2>3. PICK s \in {"READY", "DEGRADED", "RECONNECTING"} :
            channels' = [channels EXCEPT ![c] = [channels[c] EXCEPT !.state = s]]
      BY DEF Degrade, Reconnect
    <2>4. /\ [channels[c] EXCEPT !.state = s] \in Channel
          /\ [channels[c] EXCEPT !.state = s].ep = channels[c].ep
      BY <2>1 DEF Channel
    <2> QED
      BY <2>2, <2>3, <2>4
  <1>2. /\ channels' \in Seq(Channel) /\ Len(channels') = Len(channels)
        /\ DOMAIN channels' = DOMAIN channels
    BY <1>1, SameLength DEF TypeOK
  <1>3. TypeOK' /\ UNCHANGED <<devices, bySerial, endpoints>>
    BY <1>1, <1>2 DEF TypeOK, Degrade, Reconnect, boards
  <1>4. \A y \in Pass : JobOk(y)'
    BY <1>3 DEF JobOk, Match, Degrade, Reconnect
  <1> QED
    BY <1>3, <1>4, EndpointsLeftAlone

-----------------------------------------------------------------------------
(* The invariant *)

LEMMA InitIdentity == Init => IdentityInv
  <1> SUFFICES ASSUME Init PROVE IdentityInv
    OBVIOUS
  <1>1. /\ <<>> \in Seq(Device) /\ <<>> \in Seq(Endpoint) /\ <<>> \in Seq(Channel)
        /\ Len(<<>>) = 0 /\ DOMAIN <<>> = {}
    BY EmptySeq
  <1>2. TypeOK
    BY <1>1, AnyJobType, DiscoveryAssumption DEF Init, TypeOK, PC
  <1>3. IndexOk /\ IdentityKept /\ \A x \in Pass : JobOk(x)
    BY <1>1 DEF Init, IndexOk, IdentityKept, JobOk
  <1> QED
    BY <1>2, <1>3 DEF IdentityInv

LEMMA NextIdentity == IdentityInv /\ [Next]_vars => IdentityInv'
  <1> SUFFICES ASSUME IdentityInv, [Next]_vars PROVE IdentityInv'
    OBVIOUS
  <1>1. ASSUME NEW x \in Pass, NEW p \in {"record", "compare"}, Scan(x, p) \/ ScanFails(x, p)
        PROVE  IdentityInv'
    <2>1. PICK found \in SUBSET Locator : Start(x, p, found)
      BY <1>1 DEF Scan, ScanFails, Present
    <2> QED
      BY <2>1, StartKeeps
  <1>2. ASSUME NEW x \in Pass, PassStep(x)
        PROVE  IdentityInv'
    BY <1>2, RecordKeeps, CompareKeeps, ProbeKeeps, ProbeFailsKeeps, UpsertKeeps, LinkKeeps,
       AddEndpointKeeps, FindChannelKeeps, OpenKeeps, FinishKeeps DEF PassStep
  <1>3. CASE Disturbance
    BY <1>1, <1>3, BoardsKeep, ChannelsKeep DEF Disturbance
  <1>4. CASE UNCHANGED vars
    BY <1>4, RegistryLeftAlone DEF vars, boards, IdentityInv, TypeOK
  <1> QED
    BY <1>1, <1>2, <1>3, <1>4 DEF Next

\* What discovery maintains between any two steps, however many passes overlap:
\* types, an index that leads to the serial looked up, endpoints of matching
\* devices, and what each pass knows of the device it works on.
THEOREM DiscoveryInvariant == Spec => []IdentityInv
  BY InitIdentity, NextIdentity, PTL DEF Spec

\* The tables of the registry and the passes stay well-formed.
THEOREM DiscoveryTypeCorrect == Spec => []TypeOK
  <1>1. IdentityInv => TypeOK
    BY DEF IdentityInv
  <1> QED
    BY <1>1, DiscoveryInvariant, PTL

\* correlate never merges boards that can be told apart, for any number of
\* overlapping passes, boards and locators.
THEOREM IdentityHolds == Spec => []IdentityKept
  <1>1. IdentityInv => IdentityKept
    BY DEF IdentityInv
  <1> QED
    BY <1>1, DiscoveryInvariant, PTL

-----------------------------------------------------------------------------
(* Passes that do not overlap.  What one pass has read stays true while it    *)
(* works then, so a locator gets one endpoint, an endpoint one channel and a  *)
(* serial number one device, and lastSeen covers whatever is available.       *)

NoOverlap == \A x, y \in Pass : pc[x] # "idle" /\ pc[y] # "idle" => x = y

\* The index is complete, and a quarantined device has a rival.
Indexed ==
  \A d \in DOMAIN devices : devices[d].serial # "" => bySerial[devices[d].serial] # 0

QuarantineKept ==
  \A d \in DOMAIN devices : devices[d].state = "QUARANTINED" => Conflict

Clashes(d, b) == devices[d].hw # "" /\ HardwareOf[b] # "" /\ devices[d].hw # HardwareOf[b]

\* correlate's reasons for a new device still hold.
Fresh(x) ==
  LET b == job[x].board
      d == bySerial[SerialOf[b]]
  IN  /\ SerialOf[b] = "" \/ d = 0 \/ devices[d].state = "QUARANTINED" \/ Clashes(d, b)
      /\ job[x].state = "QUARANTINED" => SerialOf[b] # "" /\ d # 0 /\ Clashes(d, b)

TidyAt(x) ==
  /\ pc[x] \notin {"idle", "record", "compare"} => todo[x] \subseteq lastSeen
  /\ pc[x] \in {"upsert", "link", "add", "find", "open"} => job[x].loc \in todo[x]
  /\ pc[x] \in {"upsert", "link", "add", "find"} => job[x].ch = 0
  /\ pc[x] = "upsert" => Fresh(x)
  /\ pc[x] = "add" => EndpointsAt(job[x].loc) = {}
  /\ pc[x] = "open" /\ job[x].ch = 0 => ChannelsOf(job[x].ep) = {}

DevicesTidy == OneDevicePerSerial /\ Indexed /\ QuarantineKept

TidyInv ==
  /\ \A x \in Pass : TidyAt(x)
  /\ DevicesTidy
  /\ Idempotent
  /\ RemovalWillBeNoticed

LEMMA ConflictKept ==
  ASSUME Grows, Conflict
  PROVE  Conflict'
  <1>1. PICK c \in DOMAIN devices, d \in DOMAIN devices :
          Twins(c, d) /\ devices[c].hw # devices[d].hw
    BY DEF Conflict
  <1>2. /\ c \in DOMAIN devices' /\ d \in DOMAIN devices'
        /\ devices'[c].serial = devices[c].serial /\ devices'[c].hw = devices[c].hw
        /\ devices'[d].serial = devices[d].serial /\ devices'[d].hw = devices[d].hw
    BY <1>1 DEF Grows
  <1>3. Twins(c, d)' /\ devices'[c].hw # devices'[d].hw
    BY <1>1, <1>2 DEF Twins
  <1> QED
    BY <1>2, <1>3 DEF Conflict

\* A step that adds no device and puts none into quarantine.
LEMMA DevicesKeep ==
  ASSUME TidyInv, Grows, DOMAIN devices' = DOMAIN devices, bySerial' = bySerial,
         \A d \in DOMAIN devices : devices'[d].state \in {devices[d].state, "OFFLINE"}
  PROVE  DevicesTidy'
  <1>1. Conflict <=> Conflict'
    <2>1. ASSUME Conflict' PROVE Conflict
      <3>1. PICK c \in DOMAIN devices, d \in DOMAIN devices :
              Twins(c, d)' /\ devices'[c].hw # devices'[d].hw
        BY <2>1 DEF Conflict
      <3>2. Twins(c, d) /\ devices[c].hw # devices[d].hw
        BY <3>1 DEF Grows, Twins
      <3> QED
        BY <3>2 DEF Conflict
    <2> QED
      BY <2>1, ConflictKept
  <1>2. OneDevicePerSerial'
    BY <1>1 DEF TidyInv, DevicesTidy, OneDevicePerSerial, Twins, Grows
  <1>3. Indexed'
    BY DEF TidyInv, DevicesTidy, Indexed, Grows
  <1>4. QuarantineKept'
    BY <1>1 DEF TidyInv, DevicesTidy, QuarantineKept
  <1> QED
    BY <1>2, <1>3, <1>4 DEF DevicesTidy

LEMMA DevicesSame ==
  ASSUME TidyInv, UNCHANGED <<devices, bySerial>>
  PROVE  DevicesTidy'
  BY DevicesKeep DEF Grows

\* A pass that works is alone.
LEMMA Alone ==
  ASSUME NoOverlap, NEW x \in Pass, pc[x] # "idle",
         \A y \in Pass \ {x} : pc'[y] = pc[y], TidyAt(x)'
  PROVE  \A y \in Pass : TidyAt(y)'
  <1>1. \A y \in Pass \ {x} : pc'[y] = "idle"
    BY DEF NoOverlap
  <1>2. \A y \in Pass \ {x} : TidyAt(y)'
    BY <1>1 DEF TidyAt
  <1> QED
    BY <1>2

LEMMA PlaceOf ==
  ASSUME TypeOK, NEW x \in Pass, NEW p, Goto(x, p)
  PROVE  pc'[x] = p /\ \A y \in Pass \ {x} : pc'[y] = pc[y]
  BY DEF TypeOK, Goto

LEMMA JobOf ==
  ASSUME TypeOK, NEW x \in Pass, NEW j, job' = [job EXCEPT ![x] = j]
  PROVE  job'[x] = j
  BY DEF TypeOK

\* The tables of endpoints and channels, and what is known of removals.
LEMMA TablesSame ==
  ASSUME TidyInv, UNCHANGED <<endpoints, channels>>
  PROVE  Idempotent'
  BY DEF TidyInv, Idempotent

LEMMA NoticedSame ==
  ASSUME TidyInv, UNCHANGED <<endpoints, lastSeen, swallowed>>
  PROVE  RemovalWillBeNoticed'
  BY DEF TidyInv, RemovalWillBeNoticed

LEMMA StartTidy ==
  ASSUME IdentityInv, TidyInv, NEW x \in Pass, NEW next \in {"record", "compare"},
         NEW found, Start(x, next, found)
  PROVE  TidyInv'
  <1>1. TypeOK /\ UNCHANGED <<boards, registry, lastSeen, job, swallowed>> /\ Goto(x, next)
        /\ todo' = [todo EXCEPT ![x] = found]
    BY DEF IdentityInv, Start
  <1>2. pc'[x] = next /\ \A y \in Pass \ {x} : pc'[y] = pc[y] /\ todo'[y] = todo[y]
    BY <1>1, PlaceOf DEF TypeOK
  <1>3. ASSUME NEW y \in Pass PROVE TidyAt(y)'
    <2>1. CASE y = x
      BY <1>2, <2>1 DEF TidyAt
    <2>2. CASE y # x
      <3>1. TidyAt(y)
        BY DEF TidyInv
      <3> QED
        BY <1>1, <1>2, <2>2, <3>1 DEF TidyAt, Fresh, Clashes, EndpointsAt, ChannelsOf, registry
    <2> QED
      BY <2>1, <2>2
  <1> QED
    BY <1>1, <1>3, DevicesSame, TablesSame, NoticedSame DEF TidyInv, registry

LEMMA RecordTidy ==
  ASSUME IdentityInv, NoOverlap, TidyInv, NEW x \in Pass, Record(x)
  PROVE  TidyInv'
  <1>1. /\ TypeOK /\ UNCHANGED <<boards, registry, todo, job>> /\ Goto(x, "loop")
        /\ pc[x] = "record" /\ lastSeen' = todo[x]
        /\ swallowed' = (swallowed \cup lastSeen) \ todo[x]
    BY DEF IdentityInv, Record
  <1>2. TidyAt(x)'
    BY <1>1, PlaceOf DEF TidyAt
  <1>3. \A y \in Pass : TidyAt(y)'
    BY <1>1, <1>2, PlaceOf, Alone
  <1>4. RemovalWillBeNoticed'
    BY <1>1 DEF TidyInv, RemovalWillBeNoticed, registry
  <1> QED
    BY <1>1, <1>3, <1>4, DevicesSame, TablesSame DEF TidyInv, registry

LEMMA CompareTidy ==
  ASSUME IdentityInv, NoOverlap, TidyInv, NEW x \in Pass, Compare(x)
  PROVE  TidyInv'
  <1>1. /\ TypeOK /\ UNCHANGED <<boards, bySerial, todo, job>> /\ Goto(x, "loop")
        /\ pc[x] = "compare" /\ lastSeen' = todo[x] /\ swallowed' = swallowed \ todo[x]
    BY DEF IdentityInv, Compare
  <1>2. PICK E \in SUBSET DOMAIN endpoints :
          /\ \A e \in E : endpoints[e].loc \in lastSeen \ todo[x]
          /\ \A l \in lastSeen \ todo[x] : EndpointsAt(l) # {} =>
               \E e \in EndpointsAt(l) : E \cap EndpointsAt(l) = {e}
          /\ LET lost == {e \in E : endpoints[e].available}
             IN  /\ MarkUnavailable(lost)
                 /\ devices' = [d \in DOMAIN devices |->
                      IF \E e \in lost : endpoints[e].dev = d
                      THEN [devices[d] EXCEPT !.state = "OFFLINE"] ELSE devices[d]]
    BY DEF Compare
  <1> DEFINE lost == {e \in E : endpoints[e].available}
  <1>3. /\ \A d \in DOMAIN devices : devices[d] \in Device
        /\ \A e \in DOMAIN endpoints : endpoints[e] \in Endpoint
        /\ \A c \in DOMAIN channels : channels[c] \in Channel
    BY <1>1, Entries
  <1>4. /\ DOMAIN devices' = DOMAIN devices
        /\ \A d \in DOMAIN devices : /\ devices'[d].serial = devices[d].serial
                                     /\ devices'[d].hw = devices[d].hw
                                     /\ devices'[d].state \in {devices[d].state, "OFFLINE"}
    BY <1>2, <1>3 DEF Device
  <1>5. DevicesTidy'
    BY <1>1, <1>4, DevicesKeep DEF Grows
  <1>6. /\ DOMAIN endpoints' = DOMAIN endpoints
        /\ \A e \in DOMAIN endpoints :
             /\ endpoints'[e].loc = endpoints[e].loc
             /\ endpoints'[e].available = (endpoints[e].available /\ e \notin E)
    <2>1. endpoints' = [e \in DOMAIN endpoints |->
            IF e \in lost THEN [endpoints[e] EXCEPT !.available = FALSE] ELSE endpoints[e]]
      BY <1>2 DEF MarkUnavailable
    <2>2. ASSUME NEW e \in DOMAIN endpoints, e \in lost
          PROVE  endpoints'[e].loc = endpoints[e].loc /\ endpoints'[e].available = FALSE
      BY <1>3, <2>1, <2>2 DEF Endpoint
    <2>3. ASSUME NEW e \in DOMAIN endpoints, e \notin lost
          PROVE  endpoints'[e] = endpoints[e]
      BY <2>1, <2>3
    <2>4. \A e \in DOMAIN endpoints : endpoints[e].available \in BOOLEAN
      BY <1>3 DEF Endpoint
    <2> QED
      BY <2>1, <2>2, <2>3, <2>4
  <1>7. /\ DOMAIN channels' = DOMAIN channels
        /\ \A c \in DOMAIN channels : channels'[c].ep = channels[c].ep
    BY <1>2, <1>3 DEF MarkUnavailable, Channel
  <1>8. Idempotent'
    BY <1>6, <1>7 DEF TidyInv, Idempotent
  <1>9. RemovalWillBeNoticed'
    <2> SUFFICES ASSUME NEW e \in DOMAIN endpoints, endpoints[e].available, e \notin E
                 PROVE  endpoints[e].loc \in lastSeen' \cup swallowed'
      BY <1>6 DEF RemovalWillBeNoticed
    <2>1. endpoints[e].loc \in lastSeen \cup swallowed
      BY DEF TidyInv, RemovalWillBeNoticed
    <2>2. endpoints[e].loc \notin lastSeen \ todo[x]
      <3> SUFFICES ASSUME endpoints[e].loc \in lastSeen \ todo[x] PROVE FALSE
        OBVIOUS
      <3>1. e \in EndpointsAt(endpoints[e].loc)
        BY DEF EndpointsAt
      <3>2. PICK f \in EndpointsAt(endpoints[e].loc) :
              E \cap EndpointsAt(endpoints[e].loc) = {f}
        BY <1>2, <3>1
      <3>3. f \in E /\ f \in DOMAIN endpoints /\ endpoints[f].loc = endpoints[e].loc
        BY <3>2 DEF EndpointsAt
      <3>4. f = e
        BY <3>3 DEF TidyInv, Idempotent
      <3> QED
        BY <3>3, <3>4
    <2> QED
      BY <1>1, <2>1, <2>2
  <1>10. TidyAt(x)'
    BY <1>1, PlaceOf DEF TidyAt
  <1>11. \A y \in Pass : TidyAt(y)'
    BY <1>1, <1>10, PlaceOf, Alone
  <1> QED
    BY <1>5, <1>8, <1>9, <1>11 DEF TidyInv

LEMMA ProbeTidy ==
  ASSUME IdentityInv, NoOverlap, TidyInv, NEW x \in Pass, NEW l \in Locator, Probe(x, l)
  PROVE  TidyInv'
  <1> DEFINE b == wired[l]
             c == Correlate(b)
             j == [AnyJob EXCEPT !.loc = l, !.board = b, !.dev = c.dev, !.state = c.state]
  <1>1. /\ TypeOK /\ pc[x] = "loop" /\ l \in todo[x] /\ b \in Board
        /\ job' = [job EXCEPT ![x] = j]
        /\ Goto(x, IF c.dev = 0 THEN "upsert" ELSE "link")
        /\ UNCHANGED <<boards, registry, lastSeen, todo, swallowed>>
    BY DEF IdentityInv, TypeOK, Probe
  <1>2. /\ AnyJob \in Job /\ c.state \in {"ONLINE", "QUARANTINED"}
    BY <1>1, AnyJobType, CorrelateMatches
  <1>3. /\ j.loc = l /\ j.board = b /\ j.state = c.state /\ j.ch = 0
    <2> HIDE DEF c, b
    <2> QED
      BY <1>2 DEF AnyJob
  <1>4. c.dev = 0 =>
          LET d == bySerial[SerialOf[b]]
          IN  /\ SerialOf[b] = "" \/ d = 0 \/ devices[d].state = "QUARANTINED" \/ Clashes(d, b)
              /\ c.state = "QUARANTINED" => SerialOf[b] # "" /\ d # 0 /\ Clashes(d, b)
    <2> HIDE DEF b
    <2> QED
      BY DEF c, Correlate, Clashes
  <1> HIDE DEF j, c, b
  <1>5. job'[x] = j /\ pc'[x] = (IF c.dev = 0 THEN "upsert" ELSE "link")
    BY <1>1, JobOf, PlaceOf
  <1>6. pc'[x] = "upsert" => Fresh(x)'
    BY <1>1, <1>3, <1>4, <1>5 DEF Fresh, Clashes, registry
  <1>7. TidyAt(x)'
    BY <1>1, <1>3, <1>5, <1>6 DEF TidyInv, TidyAt
  <1>8. \A y \in Pass : TidyAt(y)'
    BY <1>1, <1>7, PlaceOf, Alone
  <1> QED
    BY <1>1, <1>8, DevicesSame, TablesSame, NoticedSame DEF TidyInv, registry

LEMMA ProbeFailsTidy ==
  ASSUME IdentityInv, NoOverlap, TidyInv, NEW x \in Pass, NEW l \in Locator, ProbeFails(x, l)
  PROVE  TidyInv'
  <1>1. /\ TypeOK /\ pc[x] = "loop" /\ todo' = [todo EXCEPT ![x] = @ \ {l}]
        /\ UNCHANGED <<boards, registry, lastSeen, pc, job, swallowed>>
    BY DEF IdentityInv, ProbeFails
  <1>2. todo'[x] \subseteq todo[x]
    BY <1>1 DEF TypeOK
  <1>3. TidyAt(x)'
    BY <1>1, <1>2 DEF TidyInv, TidyAt
  <1>4. \A y \in Pass : TidyAt(y)'
    BY <1>1, <1>3, Alone
  <1> QED
    BY <1>1, <1>4, DevicesSame, TablesSame, NoticedSame DEF TidyInv, registry

\* A new device has a serial number of its own, or an undisputed rival.
LEMMA UpsertTidy ==
  ASSUME IdentityInv, NoOverlap, TidyInv, NEW x \in Pass, Upsert(x)
  PROVE  TidyInv'
  <1> DEFINE b == job[x].board
             s == SerialOf[b]
             n == Len(devices) + 1
             new == [serial |-> s, hw |-> HardwareOf[b], state |-> job[x].state]
  <1>1. /\ TypeOK /\ pc[x] = "upsert" /\ devices' = Append(devices, new)
        /\ bySerial' = IF s = "" THEN bySerial ELSE [bySerial EXCEPT ![s] = n]
        /\ job' = [job EXCEPT ![x].dev = n] /\ Goto(x, "link")
        /\ UNCHANGED <<boards, endpoints, channels, lastSeen, todo, swallowed>>
    BY DEF IdentityInv, Upsert, AddDevice
  <1>2. b \in Board /\ s \in Serials /\ new \in Device
        /\ new.serial = s /\ new.hw = HardwareOf[b] /\ new.state = job[x].state
    BY <1>1, DiscoveryAssumption DEF TypeOK, Job, Device, Serials, Hardwares
  <1> HIDE DEF new
  <1>3. /\ DOMAIN devices' = DOMAIN devices \cup {n}
        /\ \A i \in DOMAIN devices : devices'[i] = devices[i]
        /\ devices'[n] = new
        /\ Len(devices) \in Nat /\ DOMAIN devices = 1..Len(devices)
    <2>1. devices \in Seq(Device)
      BY <1>1 DEF TypeOK
    <2>2. /\ DOMAIN Append(devices, new) = DOMAIN devices \cup {n}
          /\ \A i \in DOMAIN devices : Append(devices, new)[i] = devices[i]
          /\ Append(devices, new)[n] = new
          /\ Len(devices) \in Nat /\ DOMAIN devices = 1..Len(devices)
      BY <1>2, <2>1, AppendKeeps
    <2> QED
      BY <1>1, <2>2
  <1>4. n \notin DOMAIN devices /\ n # 0
    BY <1>3
  <1>5. Conflict => Conflict'
    BY <1>3, ConflictKept DEF Grows
  <1>6. Fresh(x) /\ TidyAt(x) /\ DevicesTidy
    BY <1>1 DEF TidyInv, TidyAt
  <1>7. bySerial[s] # 0 => bySerial[s] \in DOMAIN devices /\ devices[bySerial[s]].serial = s
    BY <1>2, IndexEntries
  <1> HIDE DEF n, s, b
  \* Other hardware under the serial number is a conflict.
  <1>8. ASSUME s # "", bySerial[s] # 0, Clashes(bySerial[s], b) PROVE Conflict'
    <2>1. PICK d \in DOMAIN devices :
            d = bySerial[s] /\ devices[d].serial = s /\ devices[d].hw # HardwareOf[b]
      BY <1>7, <1>8 DEF Clashes
    <2>2. PICK k \in DOMAIN devices' : k = n
      BY <1>3
    <2>3. /\ d \in DOMAIN devices' /\ devices'[d] = devices[d]
          /\ devices'[k].serial = s /\ devices'[k].hw = HardwareOf[b]
      BY <1>2, <1>3, <2>1, <2>2
    <2>4. Twins(d, k)' /\ devices'[d].hw # devices'[k].hw
      BY <1>8, <2>1, <2>3 DEF Twins
    <2> QED
      BY <2>2, <2>3, <2>4 DEF Conflict
  <1>9. \/ s = "" \/ bySerial[s] = 0 \/ Conflict'
    <2>1. \/ s = "" \/ bySerial[s] = 0 \/ devices[bySerial[s]].state = "QUARANTINED"
          \/ Clashes(bySerial[s], b)
      BY <1>6 DEF Fresh, s, b
    <2>2. bySerial[s] # 0 /\ devices[bySerial[s]].state = "QUARANTINED" => Conflict
      BY <1>6, <1>7 DEF DevicesTidy, QuarantineKept
    <2> QED
      BY <1>5, <1>8, <2>1, <2>2
  <1>10. OneDevicePerSerial'
    <2> SUFFICES ASSUME ~Conflict', NEW c \in DOMAIN devices', NEW d \in DOMAIN devices',
                        Twins(c, d)'
                 PROVE  c = d
      BY DEF OneDevicePerSerial
    <2>1. \A i \in DOMAIN devices : s # "" => devices[i].serial # s
      BY <1>6, <1>9 DEF DevicesTidy, Indexed
    <2>2. CASE c \in DOMAIN devices /\ d \in DOMAIN devices
      BY <1>3, <1>5, <1>6, <2>2 DEF DevicesTidy, OneDevicePerSerial, Twins
    <2>3. CASE ~(c \in DOMAIN devices /\ d \in DOMAIN devices)
      BY <1>2, <1>3, <2>1, <2>3 DEF Twins
    <2> QED
      BY <2>2, <2>3
  <1>11. Indexed'
    <2> SUFFICES ASSUME NEW d \in DOMAIN devices', devices'[d].serial # ""
                 PROVE  bySerial'[devices'[d].serial] # 0
      BY DEF Indexed
    <2>1. bySerial \in [Serials -> 0..Len(devices)]
      BY <1>1 DEF TypeOK
    <2>2. \A t \in Serials : bySerial[t] # 0 => bySerial'[t] # 0
      BY <1>1, <1>2, <1>4, <2>1
    <2>3. CASE d \in DOMAIN devices
      <3>1. devices[d].serial \in Serials
        BY <1>1, <2>3, Entries DEF Device
      <3> QED
        BY <1>3, <1>6, <2>2, <2>3, <3>1 DEF DevicesTidy, Indexed
    <2>4. CASE d = n
      BY <1>1, <1>2, <1>3, <1>4, <2>1, <2>4
    <2> QED
      BY <1>3, <2>3, <2>4
  <1>12. QuarantineKept'
    <2> SUFFICES ASSUME NEW d \in DOMAIN devices', devices'[d].state = "QUARANTINED"
                 PROVE  Conflict'
      BY DEF QuarantineKept
    <2>1. CASE d \in DOMAIN devices
      BY <1>3, <1>5, <1>6, <2>1 DEF DevicesTidy, QuarantineKept
    <2>2. CASE d = n
      <3>1. s # "" /\ bySerial[s] # 0 /\ Clashes(bySerial[s], b)
        BY <1>2, <1>3, <1>6, <2>2 DEF Fresh, s, b
      <3> QED
        BY <1>8, <3>1
    <2> QED
      BY <1>3, <2>1, <2>2
  <1>13. TidyAt(x)'
    <2>1. pc'[x] = "link"
      BY <1>1, PlaceOf
    <2>2. job'[x].loc = job[x].loc /\ job'[x].ch = job[x].ch
      BY <1>1 DEF TypeOK, Job
    <2> QED
      BY <1>1, <1>6, <2>1, <2>2 DEF TidyAt
  <1>14. \A y \in Pass : TidyAt(y)'
    BY <1>1, <1>13, PlaceOf, Alone
  <1> QED
    BY <1>1, <1>10, <1>11, <1>12, <1>14, TablesSame, NoticedSame DEF TidyInv, DevicesTidy

LEMMA LinkTidy ==
  ASSUME IdentityInv, NoOverlap, TidyInv, NEW x \in Pass, Link(x)
  PROVE  TidyInv'
  <1>1. /\ TypeOK /\ pc[x] = "link" /\ TidyAt(x)
        /\ UNCHANGED <<boards, devices, bySerial, channels, lastSeen, todo, swallowed>>
    BY DEF IdentityInv, Link, TidyInv
  <1>2. job[x].loc \in lastSeen /\ job[x] \in Job
    BY <1>1 DEF TidyAt, TypeOK
  <1>3. CASE EndpointsAt(job[x].loc) = {} /\ Goto(x, "add") /\ UNCHANGED <<endpoints, job>>
    <2>1. TidyAt(x)'
      BY <1>1, <1>3, PlaceOf DEF TidyAt, EndpointsAt
    <2>2. \A y \in Pass : TidyAt(y)'
      BY <1>1, <1>3, <2>1, PlaceOf, Alone
    <2> QED
      BY <1>1, <1>3, <2>2, DevicesSame, TablesSame, NoticedSame DEF TidyInv
  <1>4. ASSUME NEW e \in EndpointsAt(job[x].loc),
               endpoints' = [endpoints EXCEPT ![e].available = TRUE, ![e].dev = job[x].dev,
                                              ![e].probed = job[x].board],
               job' = [job EXCEPT ![x].ep = e], Goto(x, "find")
        PROVE  TidyInv'
    <2>1. e \in DOMAIN endpoints /\ endpoints[e].loc = job[x].loc /\ endpoints[e] \in Endpoint
      BY <1>1, Entries DEF EndpointsAt
    <2>2. /\ DOMAIN endpoints' = DOMAIN endpoints
          /\ endpoints'[e].loc = endpoints[e].loc
          /\ \A f \in DOMAIN endpoints \ {e} : endpoints'[f] = endpoints[f]
      BY <1>4, <2>1 DEF Endpoint
    <2>3. Idempotent'
      BY <1>1, <2>1, <2>2 DEF TidyInv, Idempotent
    <2>4. RemovalWillBeNoticed'
      BY <1>1, <1>2, <2>1, <2>2 DEF TidyInv, RemovalWillBeNoticed
    <2>5. TidyAt(x)'
      <3>1. pc'[x] = "find"
        BY <1>1, <1>4, PlaceOf
      <3>2. job'[x].loc = job[x].loc /\ job'[x].ch = job[x].ch
        BY <1>1, <1>2, <1>4 DEF TypeOK, Job
      <3> QED
        BY <1>1, <3>1, <3>2 DEF TidyAt
    <2>6. \A y \in Pass : TidyAt(y)'
      BY <1>1, <1>4, <2>5, PlaceOf, Alone
    <2> QED
      BY <1>1, <2>3, <2>4, <2>6, DevicesSame DEF TidyInv
  <1> QED
    BY <1>3, <1>4 DEF Link

LEMMA AddEndpointTidy ==
  ASSUME IdentityInv, NoOverlap, TidyInv, NEW x \in Pass, AddEndpoint(x)
  PROVE  TidyInv'
  <1> DEFINE n == Len(endpoints) + 1
             new == [loc |-> job[x].loc, dev |-> job[x].dev,
                     available |-> TRUE, probed |-> job[x].board]
  <1>1. /\ TypeOK /\ pc[x] = "add" /\ TidyAt(x) /\ job[x] \in Job
        /\ endpoints' = Append(endpoints, new) /\ job' = [job EXCEPT ![x].ep = n]
        /\ Goto(x, "find")
        /\ UNCHANGED <<boards, devices, bySerial, channels, lastSeen, todo, swallowed>>
    BY DEF IdentityInv, TypeOK, AddEndpoint, TidyInv
  <1>2. job[x].loc \in lastSeen /\ EndpointsAt(job[x].loc) = {}
    BY <1>1 DEF TidyAt
  <1>3. /\ DOMAIN endpoints' = DOMAIN endpoints \cup {n}
        /\ \A f \in DOMAIN endpoints : endpoints'[f] = endpoints[f]
        /\ endpoints'[n].loc = job[x].loc
    <2>1. endpoints \in Seq(Endpoint)
      BY <1>1 DEF TypeOK
    <2>2. job[x].dev \in 1..MaxDevices
      <3>1. job[x].dev \in DOMAIN devices
        BY <1>1 DEF IdentityInv, JobOk
      <3>2. Len(devices) \in Nat /\ Len(devices) <= MaxDevices /\ DOMAIN devices = 1..Len(devices)
        BY <1>1, Entries DEF TypeOK
      <3> QED
        BY <3>1, <3>2, DiscoveryAssumption
    <2>3. new \in Endpoint /\ new.loc = job[x].loc
      BY <1>1, <2>2 DEF Endpoint, Job
    <2> HIDE DEF new
    <2>4. /\ DOMAIN Append(endpoints, new) = DOMAIN endpoints \cup {n}
          /\ \A i \in DOMAIN endpoints : Append(endpoints, new)[i] = endpoints[i]
          /\ Append(endpoints, new)[n] = new
      BY <2>1, <2>3, AppendKeeps
    <2> QED
      BY <1>1, <2>3, <2>4
  <1> HIDE DEF n, new
  <1>4. Idempotent'
    <2>1. \A f \in DOMAIN endpoints : endpoints[f].loc # job[x].loc
      BY <1>2 DEF EndpointsAt
    <2> QED
      BY <1>1, <1>3, <2>1 DEF TidyInv, Idempotent
  <1>5. RemovalWillBeNoticed'
    BY <1>1, <1>2, <1>3 DEF TidyInv, RemovalWillBeNoticed
  <1>6. TidyAt(x)'
    <2>1. pc'[x] = "find"
      BY <1>1, PlaceOf
    <2>2. job'[x].loc = job[x].loc /\ job'[x].ch = job[x].ch
      BY <1>1 DEF TypeOK, Job
    <2> QED
      BY <1>1, <2>1, <2>2 DEF TidyAt
  <1>7. \A y \in Pass : TidyAt(y)'
    BY <1>1, <1>6, PlaceOf, Alone
  <1> QED
    BY <1>1, <1>4, <1>5, <1>7, DevicesSame DEF TidyInv

LEMMA FindChannelTidy ==
  ASSUME IdentityInv, NoOverlap, TidyInv, NEW x \in Pass, FindChannel(x)
  PROVE  TidyInv'
  <1>1. /\ TypeOK /\ pc[x] = "find" /\ TidyAt(x) /\ job[x] \in Job /\ Goto(x, "open")
        /\ UNCHANGED <<boards, registry, lastSeen, todo, swallowed>>
    BY DEF IdentityInv, TypeOK, FindChannel, TidyInv
  <1>2. /\ job'[x].loc = job[x].loc /\ job'[x].ep = job[x].ep
        /\ job'[x].ch = 0 => ChannelsOf(job[x].ep) = {}
    <2>1. CASE ChannelsOf(job[x].ep) = {} /\ UNCHANGED job
      BY <2>1
    <2>2. ASSUME NEW c \in ChannelsOf(job[x].ep), job' = [job EXCEPT ![x].ch = c]
          PROVE  job'[x].loc = job[x].loc /\ job'[x].ep = job[x].ep /\ job'[x].ch # 0
      <3>1. c # 0
        BY <1>1, Entries DEF ChannelsOf
      <3> QED
        BY <1>1, <2>2, <3>1 DEF TypeOK, Job
    <2> QED
      BY <2>1, <2>2 DEF FindChannel
  <1>3. pc'[x] = "open"
    BY <1>1, PlaceOf
  <1>4. ChannelsOf(job[x].ep)' = {} \/ job'[x].ch # 0
    BY <1>1, <1>2 DEF ChannelsOf, registry
  <1>5. TidyAt(x)'
    BY <1>1, <1>2, <1>3, <1>4 DEF TidyAt, ChannelsOf
  <1>6. \A y \in Pass : TidyAt(y)'
    BY <1>1, <1>5, PlaceOf, Alone
  <1> QED
    BY <1>1, <1>6, DevicesSame, TablesSame, NoticedSame DEF TidyInv, registry

LEMMA OpenTidy ==
  ASSUME IdentityInv, NoOverlap, TidyInv, NEW x \in Pass, Open(x)
  PROVE  TidyInv'
  <1> DEFINE st == OpenState(job[x].loc)
             new == [ep |-> job[x].ep, dev |-> job[x].dev, state |-> st]
             n == Len(channels) + 1
  <1>1. /\ TypeOK /\ pc[x] = "open" /\ TidyAt(x) /\ job[x] \in Job
        /\ NextLocator(x) /\ Goto(x, "loop") /\ todo' = [todo EXCEPT ![x] = @ \ {job[x].loc}]
        /\ UNCHANGED <<boards, devices, bySerial, endpoints, lastSeen, swallowed>>
    BY DEF IdentityInv, TypeOK, Open, NextLocator, TidyInv
  <1>2. Idempotent'
    <2>1. CASE job[x].ch = 0
      <3>1. channels' = Append(channels, new) /\ ChannelsOf(job[x].ep) = {}
        BY <1>1, <2>1 DEF Open, AddChannel, TidyAt
      <3>2. channels \in Seq(Channel) /\ new \in Channel /\ new.ep = job[x].ep
        <4>1. job[x].dev \in DOMAIN devices /\ job[x].ep \in DOMAIN endpoints
          BY <1>1 DEF IdentityInv, JobOk
        <4>2. /\ Len(devices) \in Nat /\ Len(devices) <= MaxDevices /\ DOMAIN devices = 1..Len(devices)
              /\ Len(endpoints) \in Nat /\ Len(endpoints) <= MaxEndpoints
              /\ DOMAIN endpoints = 1..Len(endpoints)
          BY <1>1, Entries DEF TypeOK
        <4>3. job[x].dev \in 1..MaxDevices /\ job[x].ep \in 1..MaxEndpoints
          BY <4>1, <4>2, DiscoveryAssumption
        <4>4. st \in {"READY", "FAILED"}
          BY DEF OpenState
        <4> HIDE DEF st
        <4> QED
          BY <1>1, <4>3, <4>4 DEF Channel, TypeOK
      <3> HIDE DEF new
      <3>3. /\ DOMAIN channels' = DOMAIN channels \cup {n}
            /\ \A k \in DOMAIN channels : channels'[k] = channels[k]
            /\ channels'[n] = new
        BY <3>1, <3>2, AppendKeeps
      <3>4. \A k \in DOMAIN channels : channels[k].ep # job[x].ep
        BY <3>1 DEF ChannelsOf
      <3> HIDE DEF n
      <3> QED
        BY <1>1, <3>2, <3>3, <3>4 DEF TidyInv, Idempotent
    <2>2. CASE job[x].ch # 0
      <3>1. channels' = [channels EXCEPT ![job[x].ch].state = st]
        BY <2>2 DEF Open
      <3>2. \A k \in DOMAIN channels : channels[k] \in Channel
        BY <1>1, Entries
      <3> HIDE DEF st
      <3>3. /\ DOMAIN channels' = DOMAIN channels
            /\ \A k \in DOMAIN channels : channels'[k].ep = channels[k].ep
        BY <3>1, <3>2 DEF Channel
      <3> QED
        BY <1>1, <3>3 DEF TidyInv, Idempotent
    <2> QED
      BY <2>1, <2>2
  <1>3. todo'[x] \subseteq todo[x] /\ pc'[x] = "loop"
    BY <1>1, PlaceOf DEF TypeOK
  <1>4. TidyAt(x)'
    BY <1>1, <1>3 DEF TidyAt
  <1>5. \A y \in Pass : TidyAt(y)'
    BY <1>1, <1>4, PlaceOf, Alone
  <1> QED
    BY <1>1, <1>2, <1>5, DevicesSame, NoticedSame DEF TidyInv

LEMMA FinishTidy ==
  ASSUME IdentityInv, NoOverlap, TidyInv, NEW x \in Pass, Finish(x)
  PROVE  TidyInv'
  <1>1. /\ TypeOK /\ pc[x] = "loop" /\ Goto(x, "idle")
        /\ UNCHANGED <<boards, registry, lastSeen, todo, job, swallowed>>
    BY DEF IdentityInv, Finish
  <1>2. TidyAt(x)'
    BY <1>1, PlaceOf DEF TidyAt
  <1>3. \A y \in Pass : TidyAt(y)'
    BY <1>1, <1>2, PlaceOf, Alone
  <1> QED
    BY <1>1, <1>3, DevicesSame, TablesSame, NoticedSame DEF TidyInv, registry

\* Boards that come and go, and channels that fail.
LEMMA DisturbedTidy ==
  ASSUME IdentityInv, TidyInv,
         UNCHANGED <<devices, bySerial, endpoints, lastSeen, pc, todo, job, swallowed>>,
         DOMAIN channels' = DOMAIN channels,
         \A k \in DOMAIN channels : channels'[k].ep = channels[k].ep
  PROVE  TidyInv'
  <1>1. ASSUME NEW y \in Pass PROVE TidyAt(y)'
    <2>1. ChannelsOf(job[y].ep)' = ChannelsOf(job[y].ep)
      BY DEF ChannelsOf
    <2>3. TidyAt(y)
      BY DEF TidyInv
    <2>4. Fresh(y) => Fresh(y)'
      BY DEF Fresh, Clashes
    <2>5. EndpointsAt(job[y].loc)' = EndpointsAt(job[y].loc)
      BY DEF EndpointsAt
    <2> QED
      BY <2>1, <2>3, <2>4, <2>5 DEF TidyAt
  <1>2. Idempotent'
    BY DEF TidyInv, Idempotent
  <1> QED
    BY <1>1, <1>2, DevicesSame, NoticedSame DEF TidyInv

LEMMA NextTidy == IdentityInv /\ NoOverlap /\ TidyInv /\ [Next]_vars => TidyInv'
  <1> SUFFICES ASSUME IdentityInv, NoOverlap, TidyInv, [Next]_vars PROVE TidyInv'
    OBVIOUS
  <1>1. ASSUME NEW x \in Pass, NEW p \in {"record", "compare"}, Scan(x, p) \/ ScanFails(x, p)
        PROVE  TidyInv'
    <2>1. PICK found : Start(x, p, found)
      BY <1>1 DEF Scan, ScanFails
    <2> QED
      BY <2>1, StartTidy
  <1>2. ASSUME NEW x \in Pass, PassStep(x) PROVE TidyInv'
    BY <1>2, RecordTidy, CompareTidy, ProbeTidy, ProbeFailsTidy, UpsertTidy, LinkTidy,
       AddEndpointTidy, FindChannelTidy, OpenTidy, FinishTidy DEF PassStep
  <1>3. ASSUME \/ \E b \in Board : SwitchOn(b) \/ SwitchOff(b)
               \/ \E l \in Locator, b \in Board : Rewire(l, b)
               \/ UNCHANGED vars
        PROVE  TidyInv'
    BY <1>3, DisturbedTidy DEF SwitchOn, SwitchOff, Rewire, vars, registry
  <1>4. ASSUME NEW c \in DOMAIN channels, Degrade(c) \/ Reconnect(c) PROVE TidyInv'
    <2>1. UNCHANGED <<devices, bySerial, endpoints, lastSeen, pc, todo, job, swallowed>>
      BY <1>4 DEF Degrade, Reconnect
    <2>2. PICK st : channels' = [channels EXCEPT ![c].state = st]
      BY <1>4 DEF Degrade, Reconnect
    <2>3. \A k \in DOMAIN channels : channels[k] \in Channel
      BY Entries DEF IdentityInv
    <2>4. DOMAIN channels' = DOMAIN channels
          /\ \A k \in DOMAIN channels : channels'[k].ep = channels[k].ep
      BY <2>2, <2>3 DEF Channel
    <2> QED
      BY <2>1, <2>4, DisturbedTidy
  <1> QED
    BY <1>1, <1>2, <1>3, <1>4 DEF Next, Disturbance

\* In every behaviour in which no two passes overlap, the tables stay tidy: the
\* invariant of the three theorems below.
THEOREM TidyInvariant == Spec /\ []NoOverlap => []TidyInv
  <1>1. Init => TidyInv
    <2> SUFFICES ASSUME Init PROVE TidyInv
      OBVIOUS
    <2>1. DOMAIN <<>> = {}
      BY EmptySeq
    <2> QED
      BY <2>1 DEF Init, TidyInv, TidyAt, DevicesTidy, OneDevicePerSerial, Indexed,
                  QuarantineKept, Idempotent, RemovalWillBeNoticed
  <1> QED
    BY <1>1, NextTidy, DiscoveryInvariant, PTL DEF Spec

\* Rediscovery is idempotent: as long as passes do not overlap no locator gets a
\* second endpoint and no endpoint a second channel, whatever is rewired meanwhile.
THEOREM RediscoveryIdempotent == Spec /\ []NoOverlap => []Idempotent
  <1>1. TidyInv => Idempotent
    BY DEF TidyInv
  <1> QED
    BY <1>1, TidyInvariant, PTL

\* A serial number has one device until other hardware claims it.
THEOREM SerialHasOneDevice == Spec /\ []NoOverlap => []OneDevicePerSerial
  <1>1. TidyInv => OneDevicePerSerial
    BY DEF TidyInv, DevicesTidy
  <1> QED
    BY <1>1, TidyInvariant, PTL

\* Where the board of an available endpoint goes, the next Refresh compares its
\* locator, unless a Discover has taken it out of lastSeen.
THEOREM RemovalNoticed == Spec /\ []NoOverlap => []RemovalWillBeNoticed
  <1>1. TidyInv => RemovalWillBeNoticed
    BY DEF TidyInv
  <1> QED
    BY <1>1, TidyInvariant, PTL
=============================================================================
