----------------------- MODULE OperationEventsProofs -----------------------
(***************************************************************************)
(* Proofs about OperationEvents, for any operations, subscriptions, filters*)
(* and pollers, and channels of any capacity.                              *)
(*                                                                         *)
(* Three invariants.  FeedInv is about the store: the sequence number of   *)
(* an event is its position, and each poller has read what is up to its    *)
(* cursor; EventFeed follows.  OrderInv is about the channels: what a      *)
(* Publish has still to send is the latest event of its operation, and the *)
(* subscriber has only older ones of that operation; hence the order.      *)
(* OutcomeInv follows an operation and its artifact through succeed and    *)
(* fail up to the event that concludes it, whenever the artifact is deleted*)
(* by somebody else.                                                       *)
(***************************************************************************)
EXTENDS OperationEvents, SequenceTheorems, FiniteSetTheorems, TLAPS

Numbered == \A i \in DOMAIN events : events[i].seq = i

CaughtUp ==
  \A q \in Poller : cursor[q] <= Len(events) /\ seen[q] = SubSeq(events, 1, cursor[q])

FeedInv == Numbered /\ CaughtUp

IsLatest(k, o) ==
  /\ events[k].op = o
  /\ \A j \in DOMAIN events : events[j].op = o => j <= k

\* All that a subscription was sent.
Sent(s) == got[s] \o channel[s]

FromStore == \A s \in Sub : \A i \in DOMAIN Sent(s) : Sent(s)[i].seq \in DOMAIN events

Undelivered ==
  \A o \in Op : \A s \in rest[o] :
    \E k \in DOMAIN events :
      /\ IsLatest(k, o)
      /\ \A i \in DOMAIN Sent(s) : Sent(s)[i].op = o => Sent(s)[i].seq < k

OrderInv == FromStore /\ Undelivered /\ OwnOrder

\* An operation that has an artifact names it, unless somebody deleted the artifact
\* before its checksum was there.
Accounted(o) == o \in Produces \ refs => artifact[o] = "DELETED" /\ o \notin verified

\* What is true of an artifact where Ingest stands.
Stage(o) ==
  /\ o \in refs => o \in verified
  /\ o \in verified => artifact[o] \in {"AVAILABLE", "DELETED"}
  /\ pc[o] = "created" => artifact[o] \in {"CREATED", "DELETED"}
  /\ pc[o] = "uploaded" => artifact[o] \in {"UPLOADING", "DELETED"}
  /\ pc[o] \in {"finalized", "found"} => o \in verified
  /\ pc[o] \in {"new", "audited", "started", "created", "uploaded"} => o \notin verified

Progress ==
  \A o \in Op :
    /\ Stage(o)
    /\ pc[o] = "ingested" => Accounted(o)
    /\ pc[o] \in {"resulted", "concluded", "over"} =>
         result[o] \in Terminal /\ (result[o] = "SUCCEEDED" => Accounted(o))
    /\ pc[o] \in {"concluded", "over"} => state[o] = result[o]

Outcomes ==
  \A i \in DOMAIN events :
    /\ events[i].type = "OperationSucceeded" =>
         pc[events[i].op] = "over" /\ result[events[i].op] = "SUCCEEDED"
    /\ events[i].type = "OperationFailed" =>
         pc[events[i].op] = "over" /\ result[events[i].op] = "FAILED"

OutcomeInv == Progress /\ Outcomes

EventsInv == TypeOK /\ FeedInv /\ OrderInv /\ OutcomeInv

-----------------------------------------------------------------------------
(* Sequences and the store *)

\* What Append adds and keeps.
LEMMA AppendKeeps ==
  ASSUME NEW S, NEW s \in Seq(S), NEW e \in S
  PROVE  /\ Append(s, e) \in Seq(S)
         /\ Len(Append(s, e)) = Len(s) + 1
         /\ DOMAIN Append(s, e) = 1..(Len(s) + 1)
         /\ DOMAIN s = 1..Len(s) /\ Len(s) \in Nat
         /\ \A i \in 1..Len(s) : Append(s, e)[i] = s[i]
         /\ Append(s, e)[Len(s) + 1] = e
  <1>1. Append(s, e) \in Seq(S)
    BY AppendProperties
  <1> QED
    BY <1>1, AppendProperties, LenProperties

\* A channel that gets an event: its consumer has one more to come.
LEMMA ConcatAppend ==
  \A g, c \in Seq(Event) : \A e \in Event : g \o Append(c, e) = Append(g \o c, e)
  <1> SUFFICES ASSUME NEW g \in Seq(Event), NEW c \in Seq(Event), NEW e \in Event
               PROVE  g \o Append(c, e) = Append(g \o c, e)
    OBVIOUS
  <1>1. <<e>> \in Seq(Event) /\ g \o c \in Seq(Event)
    BY ConcatProperties
  <1> QED
    BY <1>1, AppendIsConcat, ConcatAssociative

\* A consumer that takes the head of its channel has the same to come.
LEMMA ConcatHead ==
  ASSUME NEW S, NEW g \in Seq(S), NEW c \in Seq(S), c # <<>>
  PROVE  Append(g, Head(c)) \o Tail(c) = g \o c
  <1>1. Head(c) \in S /\ Tail(c) \in Seq(S) /\ <<Head(c)>> \in Seq(S)
    BY HeadTailProperties
  <1>2. Len(c) \in 1..Len(c) /\ 1 \in 1..Len(c)
    BY EmptySeq, LenProperties
  <1>3. c = <<Head(c)>> \o Tail(c)
    <2>1. SubSeq(c, 1, Len(c)) = <<c[1]>> \o SubSeq(c, 2, Len(c))
      BY <1>2, SubSeqRecursiveFirst, 1 + 1 = 2
    <2>2. Head(c) = c[1]
      BY <1>2, HeadTailOfSubSeq, SubSeqFull
    <2> QED
      BY <2>1, <2>2, SubSeqFull, TailIsSubSeq
  <1> QED
    BY <1>1, <1>3, AppendIsConcat, ConcatAssociative

\* What Publish does to the store.
LEMMA PublishGrows ==
  ASSUME TypeOK, NEW o \in Op, NEW type \in Type, Publish(o, type)
  PROVE  /\ events' \in Seq(Event)
         /\ Len(events') = Len(events) + 1 /\ Len(events) \in Nat
         /\ DOMAIN events = 1..Len(events)
         /\ DOMAIN events' = 1..(Len(events) + 1)
         /\ \A i \in DOMAIN events : events'[i] = events[i]
         /\ events'[Len(events) + 1] = [op |-> o, type |-> type, seq |-> Len(events) + 1]
  <1>1. events \in Seq(Event) /\ Len(events) \in Nat /\ DOMAIN events = 1..Len(events)
    BY LenProperties DEF TypeOK
  <1>2. PICK e : e = [op |-> o, type |-> type, seq |-> Len(events) + 1]
    OBVIOUS
  <1>3. e \in Event
    BY <1>1, <1>2 DEF Event
  <1>4. events' = Append(events, e)
    BY <1>2 DEF Publish
  <1> QED
    BY <1>1, <1>2, <1>3, <1>4, AppendKeeps

\* The index that SelectLastInSeq finds.
LEMMA LatestIsLatest ==
  ASSUME TypeOK, NEW o, NEW k \in DOMAIN events, IsLatest(k, o)
  PROVE  Latest(o) = k
  <1>1. DOMAIN events = 1..Len(events) /\ Len(events) \in Nat
    BY LenProperties DEF TypeOK
  <1>2. PICK I : I = {i \in 1..Len(events) : events[i].op = o}
    OBVIOUS
  <1>3. k \in I /\ I \subseteq Nat /\ \A i \in I : k >= i
    BY <1>1, <1>2 DEF IsLatest
  <1>4. Max(I) = k
    BY <1>3 DEF Max
  <1> QED
    BY <1>2, <1>3, <1>4 DEF Latest, SelectLastInSeq

\* The events after a cursor are the rest of the store.
LEMMA AfterIsRest ==
  ASSUME TypeOK, Numbered, NEW n \in 0..Len(events)
  PROVE  After(n) = [k \in 1..(Len(events) - n) |-> events[n + k]]
  <1>1. DOMAIN events = 1..Len(events) /\ Len(events) \in Nat /\ n \in Nat
    BY LenProperties DEF TypeOK
  <1>2. PICK I : I = (n + 1)..Len(events)
    OBVIOUS
  <1>3. {i \in DOMAIN events : events[i].seq > n} = I
    BY <1>1, <1>2 DEF Numbered
  <1>4. Cardinality(I) = Len(events) - n
    <2>1. n + 1 \in Int /\ Len(events) \in Int
      BY <1>1
    <2>2. Cardinality((n + 1)..Len(events)) = IF n + 1 > Len(events) THEN 0 ELSE Len(events) - (n + 1) + 1
      BY <2>1, FS_Interval
    <2> QED
      BY <1>1, <1>2, <2>2
  <1>5. ASSUME NEW i \in I PROVE Cardinality({j \in I : j <= i}) = i - n
    <2>1. {j \in I : j <= i} = (n + 1)..i /\ i \in Int /\ n + 1 \in Int /\ i >= n + 1
      BY <1>1, <1>2
    <2>2. Cardinality((n + 1)..i) = IF n + 1 > i THEN 0 ELSE i - (n + 1) + 1
      BY <2>1, FS_Interval
    <2>3. ~(n + 1 > i) /\ i - (n + 1) + 1 = i - n
      BY <1>1, <2>1
    <2> QED
      BY <2>1, <2>2, <2>3
  <1>6. ASSUME NEW k \in 1..(Len(events) - n)
        PROVE  (CHOOSE i \in I : Cardinality({j \in I : j <= i}) = k) = n + k
    <2>1. n + k \in I /\ \A i \in I : i - n = k <=> i = n + k
      BY <1>1, <1>2
    <2>2. \A i \in I : Cardinality({j \in I : j <= i}) = k <=> i = n + k
      BY <1>5, <2>1
    <2> QED
      BY <2>1, <2>2
  <1>7. Picked(I) = [k \in 1..(Len(events) - n) |-> events[n + k]]
    <2> DEFINE P(k) == CHOOSE i \in I : Cardinality({j \in I : j <= i}) = k
    <2>1. Picked(I) = [k \in 1..(Len(events) - n) |-> events[P(k)]]
      BY <1>4, Zenon DEF Picked
    <2>2. \A k \in 1..(Len(events) - n) : P(k) = n + k
      BY <1>6
    <2> HIDE DEF P
    <2> QED
      BY <2>1, <2>2
  <1> QED
    BY <1>3, <1>7 DEF After

-----------------------------------------------------------------------------
(* The steps *)

\* The steps of an operation that publish, and those that do not.
LEMMA AnnounceCases ==
  ASSUME NEW o \in Op, Audit(o) \/ Started(o) \/ Conclude(o)
  PROVE  \E type \in Type, place \in PC, next \in PC : Announce(o, place, type, next)
  BY DEF Audit, Started, Conclude, Type, PC

Ingesting(o) == Create(o) \/ Upload(o) \/ Finalize(o) \/ Get(o) \/ Reference(o)

Quiet(o) == Fail(o) \/ Ingesting(o) \/ SetResult(o) \/ Transition(o)

LEMMA QuietKeeps ==
  ASSUME NEW o \in Op, Quiet(o)
  PROVE  UNCHANGED <<busVars, readVars, rest>>
  BY DEF Quiet, Ingesting, Fail, Create, Upload, Finalize, Section, Get, Reference, SetResult, Transition

\* What Poll reads is all there is.
LEMMA PollCatchesUp ==
  ASSUME TypeOK, FeedInv, NEW q \in Poller, Poll(q)
  PROVE  /\ seen' = [seen EXCEPT ![q] = events]
         /\ cursor' = [cursor EXCEPT ![q] = Len(events)]
  <1> DEFINE n == cursor[q]
             page == After(n)
  <1>0. events \in Seq(Event) /\ Len(events) \in Nat /\ DOMAIN events = 1..Len(events)
    BY LenProperties DEF TypeOK
  <1>1. n \in Nat /\ n <= Len(events) /\ seen[q] = SubSeq(events, 1, n)
    BY DEF FeedInv, TypeOK, CaughtUp
  <1>2. page = [k \in 1..(Len(events) - n) |-> events[n + k]]
    <2>1. n \in 0..Len(events) /\ TypeOK /\ Numbered
      BY <1>0, <1>1 DEF FeedInv
    <2> HIDE DEF n
    <2>2. After(n) = [k \in 1..(Len(events) - n) |-> events[n + k]]
      BY <2>1, AfterIsRest
    <2> QED
      BY <2>2
  <1>3. /\ page # <<>>
        /\ seen' = [seen EXCEPT ![q] = seen[q] \o page]
        /\ cursor' = [cursor EXCEPT ![q] = page[Len(page)].seq]
    BY DEF Poll, Last
  <1> HIDE DEF page
  <1>4. n < Len(events)
    <2>1. ASSUME n = Len(events) PROVE page = <<>>
      BY <1>0, <1>2, <2>1
    <2> QED
      BY <1>0, <1>1, <1>3, <2>1 DEF n
  <1>5. Len(page) = Len(events) - n /\ page[Len(page)] = events[Len(events)]
    BY <1>0, <1>1, <1>2, <1>4
  <1>6. page = SubSeq(events, n + 1, Len(events))
    <2>0. \A k \in 1..(Len(events) - n) : n + k \in 1..Len(events) /\ events[n + k] \in Event
      BY <1>0, <1>1, ElementOfSeq
    <2>1. page \in Seq(Event)
      <3>1. page \in [1..(Len(events) - n) -> Event] /\ Len(events) - n \in Nat
        BY <1>0, <1>1, <1>2, <1>4, <2>0
      <3> QED
        BY <3>1
    <2>2. n + 1 \in Int /\ Len(events) \in Int /\ \A i \in (n + 1)..Len(events) : events[i] \in Event
      BY <1>0, <1>1, ElementOfSeq
    <2>3. /\ SubSeq(events, n + 1, Len(events)) \in Seq(Event)
          /\ Len(SubSeq(events, n + 1, Len(events))) =
               IF n + 1 <= Len(events) THEN Len(events) - (n + 1) + 1 ELSE 0
          /\ \A i \in 1..(Len(events) - (n + 1) + 1) :
               SubSeq(events, n + 1, Len(events))[i] = events[(n + 1) + i - 1]
      BY <2>2, SubSeqProperties
    <2>4. Len(SubSeq(events, n + 1, Len(events))) = Len(page)
      BY <1>0, <1>1, <1>4, <1>5, <2>3
    <2>5. \A i \in 1..Len(page) : SubSeq(events, n + 1, Len(events))[i] = page[i]
      <3> SUFFICES ASSUME NEW i \in 1..Len(page)
                   PROVE  SubSeq(events, n + 1, Len(events))[i] = page[i]
        OBVIOUS
      <3>1. i \in 1..(Len(events) - n) /\ i \in 1..(Len(events) - (n + 1) + 1) /\ (n + 1) + i - 1 = n + i
        BY <1>0, <1>1, <1>5
      <3>2. page[i] = events[n + i]
        BY <1>2, <3>1
      <3> QED
        BY <2>3, <3>1, <3>2
    <2> QED
      BY <2>1, <2>3, <2>4, <2>5, SeqEqual
  <1>7. seen[q] \o page = events
    <2>1. 1 \in 1..(Len(events) + 1) /\ n \in (1 - 1)..Len(events) /\ Len(events) \in n..Len(events)
      BY <1>0, <1>1
    <2>2. SubSeq(events, 1, n) \o SubSeq(events, n + 1, Len(events)) = SubSeq(events, 1, Len(events))
      BY <1>0, <2>1, ConcatAdjacentSubSeq
    <2>3. SubSeq(events, 1, Len(events)) = events
      BY <1>0, SubSeqFull
    <2> QED
      BY <1>1, <1>6, <2>2, <2>3
  <1>8. events[Len(events)].seq = Len(events)
    BY <1>0, <1>1, <1>4 DEF FeedInv, Numbered
  <1> QED
    BY <1>3, <1>5, <1>7, <1>8

LEMMA AnnounceTyped ==
  ASSUME TypeOK, NEW o \in Op, NEW type \in Type, NEW place \in PC, NEW next \in PC,
         Announce(o, place, type, next)
  PROVE  TypeOK'
  <1>1. events' \in Seq(Event)
    BY PublishGrows DEF Announce
  <1>2. rest' \in [Op -> SUBSET Sub]
    BY DEF Announce, Publish, TypeOK
  <1>3. pc' \in [Op -> PC]
    BY DEF Announce, TypeOK
  <1> QED
    BY <1>1, <1>2, <1>3 DEF Announce, TypeOK, readVars, opVars, artifactVars

LEMMA QuietTyped ==
  ASSUME TypeOK, Progress, NEW o \in Op, Quiet(o)
  PROVE  TypeOK'
  <1>1. UNCHANGED <<events, subs, subscribed, channel, got, cursor, seen, rest>>
    BY QuietKeeps DEF busVars, readVars
  <1>2. CASE Ingesting(o)
    <2>1. UNCHANGED <<result, state>>
      BY <1>2 DEF Ingesting, Create, Upload, Finalize, Section, Get, Reference, opVars
    <2>2. pc' \in [Op -> PC]
      BY <1>2 DEF Ingesting, Create, Upload, Finalize, Section, Get, Reference, GoTo, TypeOK, PC
    <2>3. refs' \subseteq Op /\ verified' \subseteq Op
      BY <1>2 DEF Ingesting, Create, Upload, Finalize, Section, Get, Reference, opVars, artifactVars, TypeOK
    <2>4. artifact' \in [Op -> Lifecycle \cup {"none"}]
      BY <1>2 DEF Ingesting, Create, Upload, Finalize, Section, Get, Reference, opVars, artifactVars,
                  TypeOK, Lifecycle
    <2> QED
      BY <1>1, <2>1, <2>2, <2>3, <2>4 DEF TypeOK
  <1>3. CASE Fail(o) \/ SetResult(o) \/ Transition(o)
    <2>1. pc' \in [Op -> PC] /\ UNCHANGED artifactVars
      BY <1>3 DEF Fail, SetResult, Transition, GoTo, TypeOK, PC
    <2>2. result' \in [Op -> Terminal \cup {"nil"}]
      BY <1>3 DEF Fail, SetResult, Transition, TypeOK, Terminal
    <2>3. state' \in [Op -> Terminal \cup {"RUNNING"}]
      <3>1. Transition(o) => result[o] \in Terminal
        BY DEF Transition, Progress
      <3> QED
        BY <1>3, <3>1 DEF Fail, SetResult, Transition, TypeOK
    <2> QED
      BY <1>1, <2>1, <2>2, <2>3 DEF TypeOK, artifactVars
  <1> QED
    BY <1>2, <1>3 DEF Quiet

\* One send of the loop: a channel gets the latest event of the operation, or
\* drops it.
LEMMA DeliverSends ==
  ASSUME TypeOK, Undelivered, NEW o \in Op, NEW s \in Sub, Deliver(o, s)
  PROVE  /\ TypeOK'
         /\ \A v \in Sub \ {s} : Sent(v)' = Sent(v)
         /\ \/ Sent(s)' = Sent(s)
            \/ \E k \in DOMAIN events :
                 /\ IsLatest(k, o)
                 /\ \A i \in DOMAIN Sent(s) : Sent(s)[i].op = o => Sent(s)[i].seq < k
                 /\ Sent(s)' = Append(Sent(s), events[k])
  <1>0. /\ s \in rest[o]
        /\ rest' = [rest EXCEPT ![o] = rest[o] \ {s}]
        /\ UNCHANGED <<events, subs, subscribed, got, cursor, seen, pc, artifact, refs, verified, result, state>>
    BY DEF Deliver, readVars, opVars, artifactVars
  <1>1. PICK k \in DOMAIN events :
          /\ IsLatest(k, o)
          /\ \A i \in DOMAIN Sent(s) : Sent(s)[i].op = o => Sent(s)[i].seq < k
    BY <1>0 DEF Undelivered
  <1>2. k = Latest(o) /\ events[k] \in Event
    <2>1. DOMAIN events = 1..Len(events) /\ events \in Seq(Event)
      BY LenProperties DEF TypeOK
    <2> QED
      BY <1>1, <2>1, LatestIsLatest, ElementOfSeq
  <1>3. rest' \in [Op -> SUBSET Sub]
    BY <1>0 DEF TypeOK
  <1>4. got[s] \in Seq(Event) /\ channel[s] \in Seq(Event) /\ Len(channel[s]) \in Nat /\ Capacity \in Nat
    BY LenProperties, EventsAssumption DEF TypeOK
  <1>5. CASE Len(channel[s]) < Capacity
    <2>1. channel' = [channel EXCEPT ![s] = Append(channel[s], events[k])]
      BY <1>2, <1>5 DEF Deliver
    <2>2. Append(channel[s], events[k]) \in Seq(Event) /\ Len(Append(channel[s], events[k])) = Len(channel[s]) + 1
      BY <1>2, <1>4, AppendKeeps
    <2>3. channel'[s] = Append(channel[s], events[k]) /\ \A v \in Sub \ {s} : channel'[v] = channel[v]
      BY <2>1 DEF TypeOK
    <2>4. channel' \in [Sub -> Seq(Event)] /\ \A v \in Sub : Len(channel'[v]) <= Capacity
      BY <1>4, <1>5, <2>1, <2>2, <2>3 DEF TypeOK
    <2>5. TypeOK'
      BY <1>0, <1>3, <2>4 DEF TypeOK
    <2>6. Sent(s)' = Append(Sent(s), events[k])
      <3>1. got[s] \o Append(channel[s], events[k]) = Append(got[s] \o channel[s], events[k])
        BY <1>2, <1>4, ConcatAppend, Zenon
      <3>2. got'[s] = got[s]
        BY <1>0
      <3> QED
        BY <2>3, <3>1, <3>2 DEF Sent
    <2>7. \A v \in Sub \ {s} : Sent(v)' = Sent(v)
      BY <1>0, <2>3 DEF Sent
    <2> QED
      BY <1>1, <2>5, <2>6, <2>7
  <1>6. CASE ~(Len(channel[s]) < Capacity)
    <2>1. UNCHANGED channel
      BY <1>6 DEF Deliver
    <2> QED
      BY <1>0, <1>3, <2>1 DEF TypeOK, Sent
  <1> QED
    BY <1>5, <1>6

\* What a consumer takes from its channel it has been sent before.
LEMMA ReceiveKeeps ==
  ASSUME TypeOK, NEW s \in Sub, Receive(s)
  PROVE  TypeOK' /\ \A v \in Sub : Sent(v)' = Sent(v)
  <1>1. /\ channel[s] # <<>>
        /\ got' = [got EXCEPT ![s] = Append(got[s], Head(channel[s]))]
        /\ channel' = [channel EXCEPT ![s] = Tail(channel[s])]
        /\ UNCHANGED <<events, subs, subscribed, cursor, seen, pc, rest, artifact, refs, verified, result, state>>
    BY DEF Receive, opVars, artifactVars
  <1>2. got[s] \in Seq(Event) /\ channel[s] \in Seq(Event) /\ Len(channel[s]) \in Nat /\ Capacity \in Nat
    BY LenProperties, EventsAssumption DEF TypeOK
  <1>3. /\ Head(channel[s]) \in Event /\ Tail(channel[s]) \in Seq(Event)
        /\ Len(Tail(channel[s])) = Len(channel[s]) - 1
    BY <1>1, <1>2, HeadTailProperties
  <1>4. Append(got[s], Head(channel[s])) \in Seq(Event)
    BY <1>2, <1>3, AppendProperties
  <1>5. /\ got' \in [Sub -> Seq(Event)] /\ channel' \in [Sub -> Seq(Event)]
        /\ \A v \in Sub : Len(channel'[v]) <= Capacity
    BY <1>1, <1>2, <1>3, <1>4 DEF TypeOK
  <1>6. TypeOK'
    BY <1>1, <1>5 DEF TypeOK
  <1>7. /\ got'[s] = Append(got[s], Head(channel[s])) /\ channel'[s] = Tail(channel[s])
        /\ \A v \in Sub \ {s} : got'[v] = got[v] /\ channel'[v] = channel[v]
    BY <1>1 DEF TypeOK
  <1>8. Append(got[s], Head(channel[s])) \o Tail(channel[s]) = got[s] \o channel[s]
    BY <1>1, <1>2, ConcatHead
  <1> QED
    BY <1>6, <1>7, <1>8 DEF Sent

-----------------------------------------------------------------------------
(* The three invariants *)

LEMMA InitEventsInv == Init => EventsInv
  <1> SUFFICES ASSUME Init PROVE EventsInv
    OBVIOUS
  <1>1. TypeOK
    BY EmptySeq, EventsAssumption DEF Init, TypeOK, PC, Terminal, Lifecycle
  <1>2. DOMAIN events = {} /\ \A s \in Sub : DOMAIN Sent(s) = {}
    <2>1. <<>> \o <<>> = <<>>
      BY EmptySeq, ConcatEmptySeq
    <2> QED
      BY <2>1 DEF Init, Sent
  <1>3. FeedInv
    <2>1. SubSeq(events, 1, 0) = <<>>
      BY SubSeqEmpty
    <2> QED
      BY <1>2, <2>1 DEF Init, FeedInv, Numbered, CaughtUp
  <1>4. OrderInv
    BY <1>2 DEF Init, OrderInv, FromStore, Undelivered, OwnOrder, Sent
  <1>5. OutcomeInv
    BY <1>2 DEF Init, OutcomeInv, Progress, Stage, Outcomes
  <1> QED
    BY <1>1, <1>3, <1>4, <1>5 DEF EventsInv

\* Publishing: FeedInv, OrderInv and OutcomeInv, but for the operation itself.
LEMMA AnnounceFeed ==
  ASSUME EventsInv, NEW o \in Op, NEW type \in Type, Publish(o, type), UNCHANGED readVars
  PROVE  FeedInv'
  <1>0. /\ events \in Seq(Event) /\ events' \in Seq(Event)
        /\ Len(events') = Len(events) + 1 /\ Len(events) \in Nat
        /\ DOMAIN events = 1..Len(events)
        /\ DOMAIN events' = 1..(Len(events) + 1)
        /\ \A i \in DOMAIN events : events'[i] = events[i]
        /\ events'[Len(events) + 1] = [op |-> o, type |-> type, seq |-> Len(events) + 1]
    BY PublishGrows DEF EventsInv, TypeOK
  <1>1. Numbered'
    BY <1>0 DEF EventsInv, FeedInv, Numbered
  <1>2. CaughtUp'
    <2> SUFFICES ASSUME NEW q \in Poller
                 PROVE  cursor'[q] <= Len(events') /\ seen'[q] = SubSeq(events', 1, cursor'[q])
      BY DEF CaughtUp
    <2>1. /\ cursor'[q] = cursor[q] /\ seen'[q] = seen[q] /\ cursor[q] \in Nat
          /\ cursor[q] <= Len(events) /\ seen[q] = SubSeq(events, 1, cursor[q])
      BY DEF EventsInv, FeedInv, CaughtUp, TypeOK, readVars
    <2>2. SubSeq(events', 1, cursor[q]) = SubSeq(events, 1, cursor[q])
      <3>1. PICK n \in Nat : n = cursor[q] /\ n <= Len(events)
        BY <2>1
      <3>2. 1 \in Int /\ n \in Int /\ n - 1 + 1 = n /\ \A i \in 1..n : 1 + i - 1 = i
        BY <3>1
      <3>3. \A i \in 1..n : events[i] \in Event /\ events'[i] = events[i]
        BY <1>0, <3>1, ElementOfSeq
      <3>4. /\ SubSeq(events, 1, n) \in Seq(Event) /\ SubSeq(events', 1, n) \in Seq(Event)
            /\ Len(SubSeq(events, 1, n)) = n /\ Len(SubSeq(events', 1, n)) = n
            /\ \A i \in 1..n : SubSeq(events, 1, n)[i] = events[i] /\ SubSeq(events', 1, n)[i] = events'[i]
        <4>1. /\ SubSeq(events, 1, n) \in Seq(Event)
              /\ Len(SubSeq(events, 1, n)) = IF 1 <= n THEN n - 1 + 1 ELSE 0
              /\ \A i \in 1..(n - 1 + 1) : SubSeq(events, 1, n)[i] = events[1 + i - 1]
          BY <3>2, <3>3, SubSeqProperties
        <4>2. /\ SubSeq(events', 1, n) \in Seq(Event)
              /\ Len(SubSeq(events', 1, n)) = IF 1 <= n THEN n - 1 + 1 ELSE 0
              /\ \A i \in 1..(n - 1 + 1) : SubSeq(events', 1, n)[i] = events'[1 + i - 1]
          BY <3>2, <3>3, SubSeqProperties
        <4> QED
          BY <3>1, <3>2, <4>1, <4>2
      <3> QED
        BY <3>1, <3>3, <3>4, SeqEqual
    <2> QED
      BY <1>0, <2>1, <2>2
  <1> QED
    BY <1>1, <1>2 DEF FeedInv

LEMMA AnnounceOrder ==
  ASSUME EventsInv, NEW o \in Op, NEW type \in Type, Publish(o, type), UNCHANGED <<got, channel>>
  PROVE  OrderInv'
  <1>0. /\ Len(events') = Len(events) + 1 /\ Len(events) \in Nat
        /\ DOMAIN events = 1..Len(events)
        /\ DOMAIN events' = 1..(Len(events) + 1)
        /\ \A i \in DOMAIN events : events'[i] = events[i]
        /\ events'[Len(events) + 1] = [op |-> o, type |-> type, seq |-> Len(events) + 1]
    BY PublishGrows DEF EventsInv
  <1>1. \A s \in Sub : Sent(s)' = Sent(s)
    BY DEF Sent
  <1>2. FromStore' /\ OwnOrder'
    <2>1. FromStore'
      BY <1>0, <1>1 DEF EventsInv, OrderInv, FromStore
    <2>2. OwnOrder'
      <3>1. got' = got /\ channel' = channel /\ OwnOrder
        BY DEF EventsInv, OrderInv
      <3> QED
        BY <3>1, Zenon DEF OwnOrder
    <2> QED
      BY <2>1, <2>2
  <1>3. Undelivered'
    <2> SUFFICES ASSUME NEW p \in Op, NEW s \in rest'[p]
                 PROVE  \E k \in DOMAIN events' :
                          /\ IsLatest(k, p)'
                          /\ \A i \in DOMAIN Sent(s)' : Sent(s)'[i].op = p => Sent(s)'[i].seq < k
      BY DEF Undelivered
    <2>1. CASE p = o
      <3>1. PICK k : k = Len(events) + 1
        OBVIOUS
      <3>2. k \in DOMAIN events' /\ IsLatest(k, p)'
        BY <1>0, <2>1, <3>1 DEF IsLatest
      <3>3. s \in Sub
        BY <2>1 DEF Publish, EventsInv, TypeOK
      <3>4. \A i \in DOMAIN Sent(s)' : Sent(s)'[i].seq < k
        BY <1>0, <1>1, <3>1, <3>3 DEF EventsInv, OrderInv, FromStore
      <3> QED
        BY <3>2, <3>4
    <2>2. CASE p # o
      <3>1. s \in rest[p] /\ s \in Sub
        BY <2>2 DEF Publish, EventsInv, TypeOK
      <3>2. PICK k \in DOMAIN events :
              /\ IsLatest(k, p)
              /\ \A i \in DOMAIN Sent(s) : Sent(s)[i].op = p => Sent(s)[i].seq < k
        BY <3>1 DEF EventsInv, OrderInv, Undelivered
      <3>3. k \in DOMAIN events' /\ IsLatest(k, p)'
        BY <1>0, <2>2, <3>2 DEF IsLatest
      <3> QED
        BY <1>1, <3>1, <3>2, <3>3
    <2> QED
      BY <2>1, <2>2
  <1> QED
    BY <1>2, <1>3 DEF OrderInv

LEMMA AnnounceOutcome ==
  ASSUME EventsInv, NEW o \in Op, Audit(o) \/ Started(o) \/ Conclude(o)
  PROVE  OutcomeInv'
  <1>1. PICK type \in Type, place \in PC, next \in PC :
          /\ Announce(o, place, type, next)
          /\ type = "OperationSucceeded" => place = "concluded" /\ next = "over" /\ result[o] = "SUCCEEDED"
          /\ type = "OperationFailed" => place = "concluded" /\ next = "over" /\ result[o] # "SUCCEEDED"
          /\ \/ place \in {"new", "audited"} /\ next \in {"audited", "started"}
             \/ place = "concluded" /\ next = "over"
          /\ place # "over"
    BY DEF Audit, Started, Conclude, Type, PC
  <1>2. /\ pc[o] = place /\ pc' = [pc EXCEPT ![o] = next]
        /\ UNCHANGED <<artifact, refs, verified, result, state>> /\ Publish(o, type)
    BY <1>1 DEF Announce, At, opVars, artifactVars
  <1>3. Progress'
    BY <1>1, <1>2 DEF EventsInv, OutcomeInv, Progress, Stage, Accounted, TypeOK
  <1>4. Outcomes'
    <2>0. /\ DOMAIN events = 1..Len(events) /\ Len(events) \in Nat
          /\ DOMAIN events' = 1..(Len(events) + 1)
          /\ \A i \in DOMAIN events : events'[i] = events[i]
          /\ events'[Len(events) + 1] = [op |-> o, type |-> type, seq |-> Len(events) + 1]
      BY <1>2, PublishGrows DEF EventsInv
    <2>1. ASSUME NEW i \in DOMAIN events
          PROVE  /\ events[i].type = "OperationSucceeded" =>
                      pc'[events[i].op] = "over" /\ result'[events[i].op] = "SUCCEEDED"
                 /\ events[i].type = "OperationFailed" =>
                      pc'[events[i].op] = "over" /\ result'[events[i].op] = "FAILED"
      <3>1. events[i].op \in Op
        <4>1. events \in Seq(Event)
          BY DEF EventsInv, TypeOK
        <4>2. events[i] \in Event
          BY <2>0, <4>1, ElementOfSeq
        <4> QED
          BY <4>2 DEF Event
      <3>2. pc[events[i].op] = "over" => pc'[events[i].op] = "over"
        BY <1>1, <1>2, <3>1 DEF EventsInv, TypeOK
      <3> QED
        BY <1>2, <3>2 DEF EventsInv, OutcomeInv, Outcomes
    <2>2. /\ type = "OperationSucceeded" => pc'[o] = "over" /\ result'[o] = "SUCCEEDED"
          /\ type = "OperationFailed" => pc'[o] = "over" /\ result'[o] = "FAILED"
      BY <1>1, <1>2 DEF EventsInv, TypeOK, OutcomeInv, Progress, Terminal
    <2>3. ASSUME NEW i \in DOMAIN events'
          PROVE  /\ events'[i].type = "OperationSucceeded" =>
                      pc'[events'[i].op] = "over" /\ result'[events'[i].op] = "SUCCEEDED"
                 /\ events'[i].type = "OperationFailed" =>
                      pc'[events'[i].op] = "over" /\ result'[events'[i].op] = "FAILED"
      <3>1. CASE i \in DOMAIN events
        BY <2>0, <2>1, <3>1
      <3>2. CASE i = Len(events) + 1
        BY <2>0, <2>2, <3>2
      <3> QED
        BY <2>0, <3>1, <3>2
    <2> QED
      BY <2>3 DEF Outcomes
  <1> QED
    BY <1>3, <1>4 DEF OutcomeInv

LEMMA AnnounceInv ==
  ASSUME EventsInv, NEW o \in Op, Audit(o) \/ Started(o) \/ Conclude(o)
  PROVE  EventsInv'
  <1>1. PICK type \in Type, place \in PC, next \in PC : Announce(o, place, type, next)
    BY AnnounceCases
  <1>2. Publish(o, type) /\ UNCHANGED readVars /\ UNCHANGED <<got, channel>>
    BY <1>1 DEF Announce, readVars
  <1>3. TypeOK'
    BY <1>1, AnnounceTyped DEF EventsInv
  <1>4. FeedInv' /\ OrderInv'
    BY <1>2, AnnounceFeed, AnnounceOrder
  <1> QED
    BY <1>3, <1>4, AnnounceOutcome DEF EventsInv

LEMMA QuietInv ==
  ASSUME EventsInv, NEW o \in Op, Quiet(o)
  PROVE  EventsInv'
  <1>1. UNCHANGED <<events, subs, subscribed, channel, got, cursor, seen, rest>>
    BY QuietKeeps DEF busVars, readVars
  <1>2. TypeOK'
    BY QuietTyped DEF EventsInv, OutcomeInv
  <1>3. FeedInv' /\ OrderInv'
    <2>1. FeedInv'
      BY <1>1 DEF EventsInv, FeedInv, Numbered, CaughtUp
    <2>2. FromStore' /\ Undelivered'
      BY <1>1 DEF EventsInv, OrderInv, FromStore, Undelivered, IsLatest, Sent
    <2>3. OwnOrder'
      <3>1. \A s \in Sub : Sent(s)' = Sent(s)
        BY <1>1 DEF Sent
      <3> QED
        BY <3>1 DEF EventsInv, OrderInv, OwnOrder, Sent
    <2> QED
      BY <2>1, <2>2, <2>3 DEF OrderInv
  <1>4. /\ pc[o] # "over"
        /\ \A p \in Op \ {o} : /\ pc'[p] = pc[p] /\ result'[p] = result[p]
                               /\ state'[p] = state[p] /\ artifact'[p] = artifact[p]
                               /\ p \in refs <=> p \in refs'
                               /\ p \in verified <=> p \in verified'
    <2>1. CASE Ingesting(o)
      BY <2>1 DEF Ingesting, Create, Upload, Finalize, Section, Get, Reference, At, GoTo, EventsInv, TypeOK,
                  opVars, artifactVars
    <2>2. CASE Fail(o) \/ SetResult(o) \/ Transition(o)
      BY <2>2 DEF Fail, SetResult, Transition, At, GoTo, EventsInv, TypeOK, artifactVars
    <2> QED
      BY <2>1, <2>2 DEF Quiet
  <1>5. Progress'
    <2> SUFFICES ASSUME NEW p \in Op
                 PROVE  /\ Stage(p)'
                        /\ pc'[p] = "ingested" => Accounted(p)'
                        /\ pc'[p] \in {"resulted", "concluded", "over"} =>
                             result'[p] \in Terminal /\ (result'[p] = "SUCCEEDED" => Accounted(p)')
                        /\ pc'[p] \in {"concluded", "over"} => state'[p] = result'[p]
      BY DEF Progress
    <2>0. /\ pc[o] \in PC /\ Stage(o)
          /\ pc[o] = "ingested" => Accounted(o)
          /\ pc[o] \in {"resulted", "concluded", "over"} =>
               result[o] \in Terminal /\ (result[o] = "SUCCEEDED" => Accounted(o))
      BY DEF EventsInv, TypeOK, OutcomeInv, Progress
    <2>1. CASE p # o
      BY <1>4, <2>1 DEF EventsInv, OutcomeInv, Progress, Stage, Accounted
    <2>2. CASE p = o /\ Fail(o)
      BY <2>0, <2>2 DEF Fail, At, GoTo, EventsInv, TypeOK, Terminal, Stage, artifactVars
    <2>3. CASE p = o /\ Create(o)
      BY <2>0, <2>3 DEF Create, At, GoTo, EventsInv, TypeOK, Stage
    <2>4. CASE p = o /\ Upload(o)
      BY <2>0, <2>4 DEF Upload, Section, GoTo, EventsInv, TypeOK, Stage, Accounted
    <2>5. CASE p = o /\ Finalize(o)
      BY <2>0, <2>5 DEF Finalize, Section, GoTo, EventsInv, TypeOK, Stage, Accounted
    <2>6. CASE p = o /\ Get(o)
      BY <2>0, <2>6 DEF Get, GoTo, EventsInv, TypeOK, Stage, opVars, artifactVars
    <2>7. CASE p = o /\ Reference(o)
      BY <2>0, <2>7 DEF Reference, GoTo, EventsInv, TypeOK, Stage, Accounted
    <2>8. CASE p = o /\ SetResult(o)
      BY <2>0, <2>8 DEF SetResult, At, GoTo, EventsInv, TypeOK, Terminal, Stage, Accounted, artifactVars
    <2>9. CASE p = o /\ Transition(o)
      BY <2>0, <2>9 DEF Transition, GoTo, EventsInv, TypeOK, Stage, Accounted, artifactVars
    <2> QED
      BY <2>1, <2>2, <2>3, <2>4, <2>5, <2>6, <2>7, <2>8, <2>9 DEF Quiet, Ingesting
  <1>6. Outcomes'
    <2> SUFFICES ASSUME NEW i \in DOMAIN events
                 PROVE  /\ events[i].type = "OperationSucceeded" =>
                             pc'[events[i].op] = "over" /\ result'[events[i].op] = "SUCCEEDED"
                        /\ events[i].type = "OperationFailed" =>
                             pc'[events[i].op] = "over" /\ result'[events[i].op] = "FAILED"
      BY <1>1 DEF Outcomes
    <2>1. events[i].op \in Op
      <3>1. events \in Seq(Event) /\ DOMAIN events = 1..Len(events)
        BY LenProperties DEF EventsInv, TypeOK
      <3>2. events[i] \in Event
        BY <3>1, ElementOfSeq
      <3> QED
        BY <3>2 DEF Event
    <2> QED
      BY <1>4, <2>1 DEF EventsInv, OutcomeInv, Outcomes
  <1> QED
    BY <1>2, <1>3, <1>5, <1>6 DEF EventsInv, OutcomeInv

\* A step that sends nothing new keeps what was sent and who is still to be sent.
LEMMA OrderKept ==
  ASSUME EventsInv, \A s \in Sub : Sent(s)' = Sent(s), UNCHANGED <<events, rest>>
  PROVE  OrderInv'
  <1>1. FromStore'
    BY DEF EventsInv, OrderInv, FromStore
  <1>2. Undelivered'
    <2> SUFFICES ASSUME NEW o \in Op, NEW s \in rest[o]
                 PROVE  \E k \in DOMAIN events :
                          /\ IsLatest(k, o)
                          /\ \A i \in DOMAIN Sent(s)' : Sent(s)'[i].op = o => Sent(s)'[i].seq < k
      BY DEF Undelivered, IsLatest
    <2>1. Sent(s)' = Sent(s)
      BY DEF EventsInv, TypeOK
    <2> QED
      BY <2>1 DEF EventsInv, OrderInv, Undelivered
  <1>3. OwnOrder'
    BY DEF EventsInv, OrderInv, OwnOrder, Sent
  <1> QED
    BY <1>1, <1>2, <1>3 DEF OrderInv

LEMMA SentKept ==
  ASSUME EventsInv, TypeOK', \A s \in Sub : Sent(s)' = Sent(s),
         UNCHANGED <<events, rest, pc, artifact, refs, verified, result, state>>
  PROVE  OrderInv' /\ OutcomeInv'
  <1>1. OutcomeInv'
    BY DEF EventsInv, OutcomeInv, Progress, Outcomes, Stage, Accounted
  <1> QED
    BY <1>1, OrderKept

LEMMA DeliverInv ==
  ASSUME EventsInv, NEW o \in Op, NEW s \in Sub, Deliver(o, s)
  PROVE  EventsInv'
  <1>1. /\ UNCHANGED <<events, cursor, seen, pc, artifact, refs, verified, result, state>>
        /\ rest' = [rest EXCEPT ![o] = rest[o] \ {s}]
    BY DEF Deliver, readVars, opVars, artifactVars
  <1>2. /\ TypeOK'
        /\ \A v \in Sub \ {s} : Sent(v)' = Sent(v)
        /\ \/ Sent(s)' = Sent(s)
           \/ \E k \in DOMAIN events :
                /\ IsLatest(k, o)
                /\ \A i \in DOMAIN Sent(s) : Sent(s)[i].op = o => Sent(s)[i].seq < k
                /\ Sent(s)' = Append(Sent(s), events[k])
    BY DeliverSends DEF EventsInv, OrderInv
  <1>3. FeedInv'
    BY <1>1 DEF EventsInv, FeedInv, Numbered, CaughtUp
  <1>4. OutcomeInv'
    BY <1>1 DEF EventsInv, OutcomeInv, Progress, Outcomes, Stage, Accounted
  <1>5. /\ \A p \in Op : rest'[p] \subseteq rest[p] /\ rest[p] \subseteq Sub
        /\ s \notin rest'[o]
    BY <1>1 DEF EventsInv, TypeOK
  <1>6. OrderInv'
    <2>1. CASE Sent(s)' = Sent(s)
      <3>1. \A v \in Sub : Sent(v)' = Sent(v)
        BY <1>2, <2>1
      <3>2. FromStore'
        BY <1>1, <3>1 DEF EventsInv, OrderInv, FromStore
      <3>3. OwnOrder'
        BY <3>1 DEF EventsInv, OrderInv, OwnOrder, Sent
      <3>4. Undelivered'
        BY <1>1, <1>5, <3>1 DEF EventsInv, OrderInv, Undelivered, IsLatest
      <3> QED
        BY <3>2, <3>3, <3>4 DEF OrderInv
    <2>2. ASSUME NEW k \in DOMAIN events, IsLatest(k, o),
                 \A i \in DOMAIN Sent(s) : Sent(s)[i].op = o => Sent(s)[i].seq < k,
                 Sent(s)' = Append(Sent(s), events[k])
          PROVE  OrderInv'
      <3>0. /\ events[k] \in Event /\ events[k].op = o /\ events[k].seq = k
            /\ Sent(s) \in Seq(Event)
        <4>1. events \in Seq(Event) /\ DOMAIN events = 1..Len(events)
              /\ got[s] \in Seq(Event) /\ channel[s] \in Seq(Event)
          BY LenProperties DEF EventsInv, TypeOK
        <4>2. Sent(s) \in Seq(Event)
          BY <4>1, ConcatProperties DEF Sent
        <4> QED
          BY <2>2, <4>1, <4>2, ElementOfSeq DEF IsLatest, EventsInv, FeedInv, Numbered
      <3> DEFINE old == Sent(s)
                 new == Sent(s)'
      <3>1. /\ DOMAIN new = 1..(Len(old) + 1) /\ DOMAIN old = 1..Len(old) /\ Len(old) \in Nat
            /\ \A i \in 1..Len(old) : new[i] = old[i]
            /\ new[Len(old) + 1] = events[k]
        BY <2>2, <3>0, AppendKeeps
      <3>2. FromStore'
        <4> SUFFICES ASSUME NEW v \in Sub, NEW i \in DOMAIN Sent(v)'
                     PROVE  Sent(v)'[i].seq \in DOMAIN events
          BY <1>1 DEF FromStore
        <4>1. CASE v # s
          BY <1>2, <4>1 DEF EventsInv, OrderInv, FromStore
        <4>2. CASE v = s
          BY <3>0, <3>1, <4>2 DEF EventsInv, OrderInv, FromStore
        <4> QED
          BY <4>1, <4>2
      <3>3. \A v \in Sub : \A i, j \in DOMAIN Sent(v)' :
              i < j /\ Sent(v)'[i].op = Sent(v)'[j].op => Sent(v)'[i].seq < Sent(v)'[j].seq
        <4>0. \A v \in Sub : \A i, j \in DOMAIN Sent(v) :
                i < j /\ Sent(v)[i].op = Sent(v)[j].op => Sent(v)[i].seq < Sent(v)[j].seq
          BY DEF EventsInv, OrderInv, OwnOrder, Sent
        <4> SUFFICES ASSUME NEW v \in Sub, NEW i \in DOMAIN Sent(v)', NEW j \in DOMAIN Sent(v)',
                            i < j, Sent(v)'[i].op = Sent(v)'[j].op
                     PROVE  Sent(v)'[i].seq < Sent(v)'[j].seq
          OBVIOUS
        <4>1. CASE v # s
          BY <1>2, <4>0, <4>1
        <4>2. CASE v = s
          <5>1. i \in 1..Len(old) /\ (j \in 1..Len(old) \/ j = Len(old) + 1)
            BY <3>1, <4>2
          <5>2. CASE j \in 1..Len(old)
            BY <3>1, <4>0, <4>2, <5>1, <5>2
          <5>3. CASE j = Len(old) + 1
            BY <2>2, <3>0, <3>1, <4>2, <5>1, <5>3
          <5> QED
            BY <5>1, <5>2, <5>3
        <4> QED
          BY <4>1, <4>2
      <3>4. OwnOrder'
        BY <3>3 DEF OwnOrder, Sent
      <3>5. Undelivered'
        <4> SUFFICES ASSUME NEW p \in Op, NEW v \in rest'[p]
                     PROVE  \E m \in DOMAIN events :
                              /\ IsLatest(m, p)
                              /\ \A i \in DOMAIN Sent(v)' : Sent(v)'[i].op = p => Sent(v)'[i].seq < m
          BY <1>1 DEF Undelivered, IsLatest
        <4>1. v \in rest[p] /\ v \in Sub
          BY <1>5
        <4>2. PICK m \in DOMAIN events :
                /\ IsLatest(m, p)
                /\ \A i \in DOMAIN Sent(v) : Sent(v)[i].op = p => Sent(v)[i].seq < m
          BY <4>1 DEF EventsInv, OrderInv, Undelivered
        <4>3. CASE v # s
          BY <1>2, <4>1, <4>2, <4>3
        <4>4. CASE v = s
          <5>1. p # o
            BY <1>5, <4>4
          <5>2. \A i \in DOMAIN Sent(v)' : Sent(v)'[i].op = p => Sent(v)'[i].seq < m
            BY <3>0, <3>1, <4>2, <4>4, <5>1
          <5> QED
            BY <4>2, <5>2
        <4> QED
          BY <4>3, <4>4
      <3> QED
        BY <3>2, <3>4, <3>5 DEF OrderInv
    <2> QED
      BY <1>2, <2>1, <2>2
  <1> QED
    BY <1>2, <1>3, <1>4, <1>6 DEF EventsInv

LEMMA ConsumerInv ==
  ASSUME EventsInv, NEW s \in Sub, Subscribe(s) \/ Close(s) \/ Receive(s)
  PROVE  EventsInv'
  <1>1. UNCHANGED <<events, cursor, seen, rest, pc, artifact, refs, verified, result, state>>
    BY DEF Subscribe, Close, Receive, readVars, opVars, artifactVars
  <1>2. TypeOK' /\ \A v \in Sub : Sent(v)' = Sent(v)
    <2>1. CASE Receive(s)
      BY <2>1, ReceiveKeeps DEF EventsInv
    <2>2. CASE Subscribe(s) \/ Close(s)
      BY <2>2 DEF Subscribe, Close, readVars, opVars, artifactVars, EventsInv, TypeOK, Sent
    <2> QED
      BY <2>1, <2>2
  <1>3. FeedInv'
    BY <1>1 DEF EventsInv, FeedInv, Numbered, CaughtUp
  <1> QED
    BY <1>1, <1>2, <1>3, SentKept DEF EventsInv

LEMMA PollInv ==
  ASSUME EventsInv, NEW q \in Poller, Poll(q)
  PROVE  EventsInv'
  <1>1. UNCHANGED <<events, subs, subscribed, channel, got, pc, rest, artifact, refs, verified, result, state>>
    BY DEF Poll, busVars, opVars, artifactVars
  <1>2. seen' = [seen EXCEPT ![q] = events] /\ cursor' = [cursor EXCEPT ![q] = Len(events)]
    BY PollCatchesUp DEF EventsInv
  <1>3. events \in Seq(Event) /\ Len(events) \in Nat
    BY LenProperties DEF EventsInv, TypeOK
  <1>4. TypeOK'
    BY <1>1, <1>2, <1>3 DEF EventsInv, TypeOK
  <1>5. FeedInv'
    <2>1. SubSeq(events, 1, Len(events)) = events
      BY <1>3, SubSeqFull
    <2>2. CaughtUp'
      BY <1>1, <1>2, <1>3, <2>1 DEF EventsInv, TypeOK, FeedInv, CaughtUp
    <2> QED
      BY <1>1, <2>2 DEF EventsInv, FeedInv, Numbered
  <1>6. \A v \in Sub : Sent(v)' = Sent(v)
    BY <1>1 DEF Sent
  <1> QED
    BY <1>1, <1>4, <1>5, <1>6, SentKept DEF EventsInv

\* Whoever deletes an artifact takes it from nobody who was told of it as new.
LEMMA DeleteInv ==
  ASSUME EventsInv, NEW o \in Deletable, Delete(o)
  PROVE  EventsInv'
  <1>1. /\ UNCHANGED <<events, subs, subscribed, channel, got, cursor, seen, pc, rest, refs, verified, result, state>>
        /\ artifact[o] # "DELETED" /\ artifact' = [artifact EXCEPT ![o] = "DELETED"]
    BY DEF Delete, busVars, readVars
  <1>2. TypeOK'
    BY <1>1 DEF EventsInv, TypeOK, Lifecycle
  <1>3. FeedInv'
    BY <1>1 DEF EventsInv, FeedInv, Numbered, CaughtUp
  <1>4. OrderInv'
    <2>1. \A s \in Sub : Sent(s)' = Sent(s)
      BY <1>1 DEF Sent
    <2> QED
      BY <1>1, <2>1, OrderKept
  <1>5. OutcomeInv'
    <2>1. Outcomes'
      BY <1>1 DEF EventsInv, OutcomeInv, Outcomes
    <2>2. Progress'
      BY <1>1 DEF EventsInv, TypeOK, OutcomeInv, Progress, Stage, Accounted
    <2> QED
      BY <2>1, <2>2 DEF OutcomeInv
  <1> QED
    BY <1>2, <1>3, <1>4, <1>5 DEF EventsInv

LEMMA NextEventsInv == EventsInv /\ [Next]_vars => EventsInv'
  <1> SUFFICES ASSUME EventsInv, [Next]_vars PROVE EventsInv'
    OBVIOUS
  <1>1. CASE UNCHANGED vars
    <2>1. UNCHANGED <<events, subs, subscribed, channel, got, cursor, seen, pc, rest, artifact, refs, verified, result, state>>
      BY <1>1 DEF vars, busVars, readVars, opVars, artifactVars
    <2>2. TypeOK' /\ FeedInv' /\ \A v \in Sub : Sent(v)' = Sent(v)
      BY <2>1 DEF EventsInv, TypeOK, FeedInv, Numbered, CaughtUp, Sent
    <2> QED
      BY <2>1, <2>2, SentKept DEF EventsInv
  <1>2. ASSUME NEW o \in Op, ExecuteStep(o) PROVE EventsInv'
    BY <1>2, AnnounceInv, QuietInv, DeliverInv DEF ExecuteStep, Quiet, Ingesting
  <1>3. ASSUME NEW s \in Sub, Subscribe(s) \/ Close(s) \/ Receive(s) PROVE EventsInv'
    BY <1>3, ConsumerInv
  <1>4. ASSUME NEW q \in Poller, Poll(q) PROVE EventsInv'
    BY <1>4, PollInv
  <1>5. ASSUME NEW o \in Deletable, Delete(o) PROVE EventsInv'
    BY <1>5, DeleteInv
  <1> QED
    BY <1>1, <1>2, <1>3, <1>4, <1>5 DEF Next

-----------------------------------------------------------------------------
(* The theorems *)

\* The inductive invariant of the events of operations (bus.go, engine.go:411).
THEOREM EventsInvariant == Spec => []EventsInv
  BY InitEventsInv, NextEventsInv, PTL DEF Spec

\* Type correctness of the bus, its consumers and the operations.
THEOREM EventsTypeCorrect == Spec => []TypeOK
  <1>1. EventsInv => TypeOK
    BY DEF EventsInv
  <1> QED
    BY <1>1, EventsInvariant, PTL

\* A subscriber gets the events of an operation in their order and none twice,
\* whatever the publishers do between unlock and send (bus.go:71).
THEOREM OperationsInOrder == Spec => []OwnOrder
  <1>1. EventsInv => OwnOrder
    BY DEF EventsInv, OrderInv
  <1> QED
    BY <1>1, EventsInvariant, PTL

\* An event that concludes an operation tells of a result and a state that are
\* there.  What is named as its artifact was verified; a success without its artifact
\* is one whose artifact was deleted before that (engine.go:411, 430).
THEOREM ConclusionsAreReal == Spec => []ConclusionIsReal
  <1>1. EventsInv => ConclusionIsReal
    <2> SUFFICES ASSUME EventsInv PROVE ConclusionIsReal
      OBVIOUS
    <2>1. ASSUME NEW o \in refs PROVE o \in verified /\ artifact[o] \in {"AVAILABLE", "DELETED"}
      BY <2>1 DEF EventsInv, TypeOK, OutcomeInv, Progress, Stage
    <2>2. ASSUME NEW i \in DOMAIN events
          PROVE  /\ events[i].type = "OperationSucceeded" =>
                      /\ state[events[i].op] = "SUCCEEDED" /\ result[events[i].op] = "SUCCEEDED"
                      /\ Accounted(events[i].op)
                 /\ events[i].type = "OperationFailed" =>
                      state[events[i].op] = "FAILED" /\ result[events[i].op] = "FAILED"
      <3>1. events \in Seq(Event) /\ DOMAIN events = 1..Len(events)
        BY LenProperties DEF EventsInv, TypeOK
      <3>2. events[i] \in Event
        BY <3>1, ElementOfSeq
      <3>3. events[i].op \in Op
        BY <3>2 DEF Event
      <3> QED
        BY <3>3 DEF EventsInv, OutcomeInv, Outcomes, Progress
    <2> QED
      BY <2>1, <2>2 DEF ConclusionIsReal, Accounted
  <1> QED
    BY <1>1, EventsInvariant, PTL

\* What a step does to the store and the pollers is what EventFeed allows.
LEMMA NextFeed == EventsInv /\ [Next]_vars => [Feed!Next]_<<events, seen>>
  <1> SUFFICES ASSUME EventsInv, [Next]_vars PROVE Feed!Next \/ UNCHANGED <<events, seen>>
    OBVIOUS
  <1>1. ASSUME NEW o \in Op, Audit(o) \/ Started(o) \/ Conclude(o) PROVE Feed!Next
    <2>1. PICK type \in Type, place \in PC, next \in PC : Announce(o, place, type, next)
      BY <1>1, AnnounceCases
    <2>2. Publish(o, type) /\ UNCHANGED seen
      BY <2>1 DEF Announce, readVars
    <2>3. /\ events \in Seq(Event) /\ events' \in Seq(Event)
          /\ Len(events') = Len(events) + 1 /\ Len(events) \in Nat
          /\ DOMAIN events = 1..Len(events)
          /\ \A i \in DOMAIN events : events'[i] = events[i]
      BY <2>2, PublishGrows DEF EventsInv, TypeOK
    <2>4. SubSeq(events', 1, Len(events)) = events
      <3>1. PICK n \in Nat : n = Len(events)
        BY <2>3
      <3>2. 1 \in Int /\ n \in Int /\ n - 1 + 1 = n /\ \A i \in 1..n : 1 + i - 1 = i
        BY <3>1
      <3>3. \A i \in 1..n : events'[i] \in Event /\ events'[i] = events[i]
        BY <2>3, <3>1, ElementOfSeq
      <3>4. /\ SubSeq(events', 1, n) \in Seq(Event)
            /\ Len(SubSeq(events', 1, n)) = IF 1 <= n THEN n - 1 + 1 ELSE 0
            /\ \A i \in 1..(n - 1 + 1) : SubSeq(events', 1, n)[i] = events'[1 + i - 1]
        BY <3>2, <3>3, SubSeqProperties
      <3>5. Len(SubSeq(events', 1, n)) = n /\ \A i \in 1..n : SubSeq(events', 1, n)[i] = events[i]
        BY <3>1, <3>2, <3>3, <3>4
      <3> QED
        BY <2>3, <3>1, <3>4, <3>5, SeqEqual
    <2> QED
      BY <2>2, <2>3, <2>4 DEF Feed!Next, Feed!Publish
  <1>2. ASSUME NEW o \in Op, Quiet(o) \/ \E s \in Sub : Deliver(o, s) PROVE UNCHANGED <<events, seen>>
    BY <1>2, QuietKeeps DEF busVars, readVars, Deliver
  <1>3. ASSUME NEW s \in Sub, Subscribe(s) \/ Close(s) \/ Receive(s) PROVE UNCHANGED <<events, seen>>
    BY <1>3 DEF Subscribe, Close, Receive, readVars
  <1>4. ASSUME NEW q \in Poller, Poll(q) PROVE Feed!Next
    BY <1>4, PollCatchesUp DEF EventsInv, Poll, busVars, Feed!Next, Feed!CatchUp
  <1>5. ASSUME NEW o \in Deletable, Delete(o) PROVE UNCHANGED <<events, seen>>
    BY <1>5 DEF Delete, busVars, readVars
  <1>6. CASE UNCHANGED vars
    BY <1>6 DEF vars, busVars, readVars
  <1> QED
    BY <1>1, <1>2, <1>3, <1>4, <1>5, <1>6 DEF Next, ExecuteStep, Quiet, Ingesting

\* The event store implements EventFeed: a consumer that resumes by cursor sees
\* every event once, in the order of publication (bus.go:3, 122).
THEOREM FeedImplemented == Spec => FeedKept
  <1>1. Init => Feed!Init
    BY DEF Init, Feed!Init
  <1> QED
    BY <1>1, NextFeed, InitEventsInv, NextEventsInv, PTL DEF Spec, FeedKept, Feed!Spec
=============================================================================
