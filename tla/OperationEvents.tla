--------------------------- MODULE OperationEvents ---------------------------
(***************************************************************************)
(* The events of operations: the bus and its store (core/event/bus.go),    *)
(* the audit record that precedes an operation (core/security/audit.go),   *)
(* and what Execute does with the artifact of an operation before it       *)
(* announces the result (succeed and fail of core/operation/engine.go,     *)
(* core/artifact/service.go).  The ID of an artifact is in List from its   *)
(* Create on, so that somebody may Delete it at any time, also while       *)
(* Ingest is still at work on it.                                          *)
(*                                                                         *)
(* Publish stores an event under b.mu together with the snapshot of the    *)
(* subscribers it matches, and sends it to them one by one after the       *)
(* unlock, so that publishers overtake each other.  Each operation has one *)
(* goroutine, whose calls of Publish follow one another.                   *)
(***************************************************************************)
EXTENDS Naturals, FiniteSets, SequencesExt

CONSTANTS Op,        \* the operations
          Sub,       \* the calls of Subscribe
          Poller,    \* the consumers that read the store with a cursor
          Filter,    \* the types each subscription matches
          Capacity,  \* of the channel of a subscription (64 in the code)
          Produces,  \* the operations whose plugin returns an artifact
          Deletable  \* those whose artifact somebody may delete

Type == {"Audit", "OperationStarted", "OperationSucceeded", "OperationFailed"}

ASSUME EventsAssumption ==
  /\ Filter \in [Sub -> SUBSET Type]
  /\ Capacity \in Nat
  /\ Produces \subseteq Op /\ Deletable \subseteq Produces

VARIABLES
  events,    \* b.events
  subs,      \* b.subs
  subscribed,\* the subscriptions there have been
  channel,   \* what the channel of each subscription holds
  got,       \* what its consumer has received, in this order
  cursor,    \* the cursor of each poller
  seen,      \* what its pages have contained
  pc,        \* where Execute of each operation stands
  rest,      \* the subscribers its current Publish has still to serve
  artifact,  \* Lifecycle of its artifact, or "none"; "DELETED" is not in s.meta
  refs,      \* the operations whose result and e.artifactRefs name an artifact
  result,    \* State of its result, or "nil"
  state,     \* of the operation
  verified   \* history: the operations whose artifact has been finalized

busVars == <<events, subs, subscribed, channel>>
readVars == <<got, cursor, seen>>
artifactVars == <<artifact, refs, verified>>
opVars == <<artifactVars, result, state>>
vars == <<busVars, readVars, pc, rest, opVars>>

PC == {"new", "audited", "started", "created", "uploaded", "finalized", "found",
       "ingested", "resulted", "concluded", "over", "panic"}
Lifecycle == {"CREATED", "UPLOADING", "AVAILABLE", "DELETED"}
Terminal == {"SUCCEEDED", "FAILED"}
Event == [op : Op, type : Type, seq : Nat]

Init ==
  /\ events = <<>> /\ subs = {} /\ subscribed = {}
  /\ channel = [s \in Sub |-> <<>>]
  /\ got = [s \in Sub |-> <<>>]
  /\ cursor = [q \in Poller |-> 0]
  /\ seen = [q \in Poller |-> <<>>]
  /\ pc = [o \in Op |-> "new"]
  /\ rest = [o \in Op |-> {}]
  /\ artifact = [o \in Op |-> "none"]
  /\ refs = {}
  /\ result = [o \in Op |-> "nil"]
  /\ state = [o \in Op |-> "RUNNING"]
  /\ verified = {}

-----------------------------------------------------------------------------
(* The bus *)

\* The section of b.mu in Publish: the next sequence number, the store, the
\* snapshot.
Publish(o, type) ==
  /\ events' = Append(events, [op |-> o, type |-> type, seq |-> Len(events) + 1])
  /\ rest' = [rest EXCEPT ![o] = {s \in subs : type \in Filter[s]}]

\* The event an operation published last.
Latest(o) == SelectLastInSeq(events, LAMBDA e : e.op = o)

\* It goes to the same subscriber again.
DeliverAgain(o, s) ==
  /\ s \in rest[o]
  /\ \/ rest' = [rest EXCEPT ![o] = @ \ {s}]
     \/ UNCHANGED rest
  /\ channel' = IF Len(channel[s]) < Capacity
                THEN [channel EXCEPT ![s] = Append(@, events[Latest(o)])]
                ELSE channel
  /\ UNCHANGED <<events, subs, subscribed, readVars, pc, opVars>>

\* The send waits for room.
DeliverBlocking(o, s) ==
  /\ s \in rest[o]
  /\ Len(channel[s]) < Capacity
  /\ rest' = [rest EXCEPT ![o] = @ \ {s}]
  /\ channel' = [channel EXCEPT ![s] = Append(@, events[Latest(o)])]
  /\ UNCHANGED <<events, subs, subscribed, readVars, pc, opVars>>

\* One send of the loop after the unlock, in any order (b.subs is a map); the
\* event is dropped where the channel is full.
Deliver(o, s) ==
  /\ s \in rest[o]
  /\ rest' = [rest EXCEPT ![o] = @ \ {s}]
  /\ channel' = IF Len(channel[s]) < Capacity
                THEN [channel EXCEPT ![s] = Append(@, events[Latest(o)])]
                ELSE channel
  /\ UNCHANGED <<events, subs, subscribed, readVars, pc, opVars>>

Subscribe(s) ==
  /\ s \notin subscribed
  /\ subs' = subs \cup {s}
  /\ subscribed' = subscribed \cup {s}
  /\ UNCHANGED <<events, channel, readVars, pc, rest, opVars>>

\* Subscription.Close; the channel stays open, a snapshot may still name it.
Close(s) ==
  /\ s \in subs
  /\ subs' = subs \ {s}
  /\ UNCHANGED <<events, subscribed, channel, readVars, pc, rest, opVars>>

Receive(s) ==
  /\ channel[s] # <<>>
  /\ got' = [got EXCEPT ![s] = Append(@, Head(channel[s]))]
  /\ channel' = [channel EXCEPT ![s] = Tail(@)]
  /\ UNCHANGED <<events, subs, subscribed, cursor, seen, pc, rest, opVars>>

\* The events at some positions of the store, in its order.
Picked(I) ==
  [k \in 1..Cardinality(I) |->
     events[CHOOSE i \in I : Cardinality({j \in I : j <= i}) = k]]

\* EventsAfter
After(n) == Picked({i \in DOMAIN events : events[i].seq > n})

\* A page starts with the event of the cursor.
PollFromCursor(q) ==
  LET page == Picked({i \in DOMAIN events : events[i].seq >= cursor[q]})
  IN  /\ page # <<>>
      /\ seen' = [seen EXCEPT ![q] = @ \o page]
      /\ cursor' = [cursor EXCEPT ![q] = Last(page).seq]
      /\ UNCHANGED <<busVars, got, pc, rest, opVars>>

\* A consumer asks for what follows its cursor, and moves it to the last event
\* of the page.
Poll(q) ==
  LET page == After(cursor[q])
  IN  /\ page # <<>>
      /\ seen' = [seen EXCEPT ![q] = @ \o page]
      /\ cursor' = [cursor EXCEPT ![q] = Last(page).seq]
      /\ UNCHANGED <<busVars, got, pc, rest, opVars>>

-----------------------------------------------------------------------------
(* An operation, as far as others learn of it *)

\* Its goroutine is through with its last Publish.
At(o, place) == pc[o] = place /\ rest[o] = {}

\* A step that reports something and goes on.
Announce(o, place, type, next) ==
  /\ At(o, place)
  /\ Publish(o, type)
  /\ pc' = [pc EXCEPT ![o] = next]
  /\ UNCHANGED <<subs, subscribed, channel, readVars, opVars>>

\* RecordAccess, with the decision of the policy.
Audit(o) == Announce(o, "new", "Audit", "audited")

\* The operation was let in and has its channel.
Started(o) == Announce(o, "audited", "OperationStarted", "started")

GoTo(o, place) == pc' = [pc EXCEPT ![o] = place]

\* fail: at any time before the plugin has succeeded the result is set ...
Fail(o) ==
  /\ At(o, "new") \/ At(o, "audited") \/ At(o, "started")
  /\ result' = [result EXCEPT ![o] = "FAILED"]
  /\ GoTo(o, "resulted")
  /\ UNCHANGED <<busVars, readVars, rest, artifactVars, state>>

\* A critical section of Ingest that finds the artifact as it has to be and
\* makes something of it; an error, of an artifact that is not found, is
\* swallowed by succeed, which goes on without this artifact.
Section(o, place, expected, made, next) ==
  /\ pc[o] = place
  /\ \/ /\ artifact[o] = expected
        /\ artifact' = [artifact EXCEPT ![o] = made]
        /\ GoTo(o, next)
     \/ artifact[o] # expected /\ GoTo(o, "ingested") /\ UNCHANGED artifact
  /\ UNCHANGED <<busVars, readVars, rest, refs, result, state>>

\* The checksum is computed later.
UploadIsEnough(o) ==
  /\ Section(o, "created", "CREATED", "UPLOADING", "found")
  /\ UNCHANGED verified

\* succeed: Ingest creates the artifact, ...
Create(o) ==
  /\ At(o, "started") /\ o \in Produces
  /\ artifact' = [artifact EXCEPT ![o] = "CREATED"]
  /\ GoTo(o, "created")
  /\ UNCHANGED <<busVars, readVars, rest, refs, verified, result, state>>

\* ... stores the bytes, ...
Upload(o) ==
  /\ Section(o, "created", "CREATED", "UPLOADING", "uploaded")
  /\ UNCHANGED verified

\* ... computes the checksum, ...
Finalize(o) ==
  /\ Section(o, "uploaded", "UPLOADING", "AVAILABLE", "finalized")
  /\ verified' = IF artifact[o] = "UPLOADING" THEN verified \cup {o} ELSE verified

\* ... and reads the metadata back.  If they are gone, Ingest returns nil without
\* an error, and succeed takes final.ID of it: the program ends.
Get(o) ==
  /\ pc[o] = "finalized"
  /\ GoTo(o, IF artifact[o] = "DELETED" THEN "panic" ELSE "found")
  /\ UNCHANGED <<busVars, readVars, rest, opVars>>

\* The artifact is named in e.artifactRefs, and in the result.
Reference(o) ==
  /\ pc[o] = "found"
  /\ refs' = refs \cup {o}
  /\ GoTo(o, "ingested")
  /\ UNCHANGED <<busVars, readVars, rest, artifact, verified, result, state>>

\* The result is set, ...
SetResult(o) ==
  /\ pc[o] = "ingested" \/ (At(o, "started") /\ o \notin Produces)
  /\ result' = [result EXCEPT ![o] = "SUCCEEDED"]
  /\ GoTo(o, "resulted")
  /\ UNCHANGED <<busVars, readVars, rest, artifactVars, state>>

\* ... then the terminal state, by success and failure alike, ...
Transition(o) ==
  /\ pc[o] = "resulted"
  /\ state' = [state EXCEPT ![o] = result[o]]
  /\ GoTo(o, "concluded")
  /\ UNCHANGED <<busVars, readVars, rest, artifactVars, result>>

\* ... and the event.
Conclude(o) ==
  Announce(o, "concluded",
           IF result[o] = "SUCCEEDED" THEN "OperationSucceeded" ELSE "OperationFailed", "over")

-----------------------------------------------------------------------------
(* Everybody else, and the specification *)

\* Service.Delete, by somebody who has found the ID in List.
Delete(o) ==
  /\ artifact[o] \in {"CREATED", "UPLOADING", "AVAILABLE"}
  /\ artifact' = [artifact EXCEPT ![o] = "DELETED"]
  /\ UNCHANGED <<busVars, readVars, pc, rest, refs, verified, result, state>>

ExecuteStep(o) ==
  \/ Audit(o) \/ Started(o) \/ Fail(o)
  \/ Create(o) \/ Upload(o) \/ Finalize(o) \/ Get(o) \/ Reference(o)
  \/ SetResult(o) \/ Transition(o) \/ Conclude(o)
  \/ \E s \in Sub : Deliver(o, s)

\* A panic in one goroutine, which nothing recovers, ends all of them.
Alive == \A o \in Op : pc[o] # "panic"

Next ==
  /\ Alive
  /\ \/ \E o \in Op : ExecuteStep(o)
     \/ \E s \in Sub : Subscribe(s) \/ Close(s) \/ Receive(s)
     \/ \E q \in Poller : Poll(q)
     \/ \E o \in Deletable : Delete(o)

Spec == Init /\ [][Next]_vars

\* Operations are executed, and pollers come back; no subscriber has to
\* receive anything.
FairSpec ==
  /\ Spec
  /\ \A o \in Op : WF_vars(Alive /\ ExecuteStep(o))
  /\ \A q \in Poller : WF_vars(Alive /\ Poll(q))

-----------------------------------------------------------------------------
(* Properties *)

TypeOK ==
  /\ events \in Seq(Event)
  /\ subs \subseteq Sub /\ subscribed \subseteq Sub
  /\ channel \in [Sub -> Seq(Event)]
  /\ \A s \in Sub : Len(channel[s]) <= Capacity
  /\ got \in [Sub -> Seq(Event)]
  /\ cursor \in [Poller -> Nat]
  /\ seen \in [Poller -> Seq(Event)]
  /\ pc \in [Op -> PC]
  /\ rest \in [Op -> SUBSET Sub]
  /\ artifact \in [Op -> Lifecycle \cup {"none"}]
  /\ refs \subseteq Op /\ verified \subseteq Op
  /\ result \in [Op -> Terminal \cup {"nil"}]
  /\ state \in [Op -> Terminal \cup {"RUNNING"}]

\* Publishers overtake each other between the unlock and the send, but what a
\* subscriber receives about one operation comes in the order in which it
\* happened, and nothing comes twice (bus.go:71).
OwnOrder ==
  \A s \in Sub :
    LET d == got[s] \o channel[s]
    IN  \A i, j \in DOMAIN d : i < j /\ d[i].op = d[j].op => d[i].seq < d[j].seq

\* Whoever learns that an operation succeeded finds its result and its terminal
\* state.  An artifact that is named anywhere had its checksum computed first, and
\* is available unless it was deleted since (engine.go:411).  A success may come
\* without its artifact, since succeed swallows the errors of Ingest (engine.go:432),
\* but only because somebody deleted that artifact before it was verified.
ConclusionIsReal ==
  /\ \A o \in refs : o \in verified /\ artifact[o] \in {"AVAILABLE", "DELETED"}
  /\ \A i \in DOMAIN events :
       LET o == events[i].op
       IN  /\ events[i].type = "OperationSucceeded" =>
                /\ state[o] = "SUCCEEDED" /\ result[o] = "SUCCEEDED"
                /\ o \in Produces \ refs => artifact[o] = "DELETED" /\ o \notin verified
           /\ events[i].type = "OperationFailed" => state[o] = "FAILED" /\ result[o] = "FAILED"

\* A consumer that resumes by cursor misses nothing and reads nothing twice
\* (bus.go:3).
Feed == INSTANCE EventFeed WITH log <- events
FeedKept == Feed!Spec

\* A subscriber that does not drain its channel holds up no operation, and
\* pollers learn the outcome of all (bus.go:71), unless the program panics.
OutcomesAreSeen ==
  \A o \in Op, q \in Poller :
    pc[o] # "new" ~> \/ ~Alive
                     \/ \E i \in DOMAIN seen[q] :
                          /\ seen[q][i].op = o
                          /\ seen[q][i].type \in {"OperationSucceeded", "OperationFailed"}
=============================================================================
