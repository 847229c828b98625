----------------------------- MODULE WireProofs -----------------------------
(***************************************************************************)
(* Proofs about the two protocols whose answers carry no number: a Modbus  *)
(* client, and a console.  Whose answer it is that one reads rests on what *)
(* else is on the way.                                                     *)
(*                                                                         *)
(* The first part is about ModbusChannel, for any operations, function     *)
(* codes, quantities and number of connections.  ModbusInv says: on a      *)
(* connection that has not broken there is traffic only for the operation  *)
(* that holds the mutex and reads, which is its request or its response;   *)
(* one that has broken takes no new request.  A write is then in at most   *)
(* one place: still to be sent, on the way, or done.                       *)
(*                                                                         *)
(* The second part is about Console, for any commands and streams.  A      *)
(* console has no mutex around a command, so that ConsoleInv speaks of two *)
(* regimes: as long as no two calls have overlapped and none has timed     *)
(* out, what is under way belongs to the call in Execute, and nothing is   *)
(* under way when there is none; from then on every call in Execute is in  *)
(* shared.                                                                 *)
(*                                                                         *)
(* The third part is about the streams of a console.  StreamInv says where *)
(* in the output each piece stands that a stream has delivered or holds,   *)
(* and that no piece was printed twice.  It rests on what FlattenSeq does  *)
(* to a sequence with one element more or less, which is proved here by a  *)
(* least counterexample: induction for a set in place of a predicate.      *)
(***************************************************************************)
EXTENDS ModbusChannel, Console, SequenceTheorems, WellFoundedInduction, TLAPS

\* Who uses a client has looked it up, and holds its mutex while it works.
MutexHeld ==
  /\ \A o \in Op : pc[o] \in {"lock", "send", "read"} => using[o] \in 1 .. bound
  /\ \A o \in Op : pc[o] \in {"send", "read"} => holder[using[o]] = o
  /\ \A c \in Conn : holder[c] # "none" =>
       holder[c] \in Op /\ pc[holder[c]] \in {"send", "read"} /\ using[holder[c]] = c

Dialled == \A c \in Conn : link[c] = "none" <=> c > bound

AnswerTo(r) == [of |-> r.of, code |-> r.code, count |-> CountOf(r)]

\* What an operation that reads may find on its connection.
Traffic(o) ==
  \/ inbox[using[o]] = <<RequestOf(o)>> /\ outbox[using[o]] = <<>>
  \/ inbox[using[o]] = <<>> /\ outbox[using[o]] = <<AnswerTo(RequestOf(o))>>
  \/ inbox[using[o]] = <<>> /\ outbox[using[o]] = <<>> /\ link[using[o]] = "down"

Reads(o, c) == pc[o] = "read" /\ using[o] = c

WireKept ==
  /\ \A o \in Op : pc[o] = "read" => Traffic(o)
  /\ \A c \in Conn : link[c] # "down" /\ (\A o \in Op : ~Reads(o, c)) =>
       inbox[c] = <<>> /\ outbox[c] = <<>>
  /\ \A c \in Conn : inbox[c] = <<>> \/ \E r \in Request : inbox[c] = <<r>>

\* A write of o has been sent over c and not been served yet.
Pending(o, c) == inbox[c] # <<>> /\ inbox[c][1].of = o /\ inbox[c][1].code = 6

BeforeSend(o) ==
  pc[o] \in {"new", "loop"} \/ (asks[o] # "observe" /\ pc[o] \in {"call", "lock", "send"})

WriteInOnePlace ==
  \A o \in Op :
    /\ BeforeSend(o) => applied[o] = 0 /\ \A c \in Conn : ~Pending(o, c)
    /\ \A c \in Conn : Pending(o, c) => applied[o] = 0 /\ \A d \in Conn : Pending(o, d) => d = c
    /\ applied[o] <= 1
    /\ pc[o] = "read" /\ asks[o] = "invoke" /\ Code[o] = 6 /\ outbox[using[o]] # <<>>
         => applied[o] = 1

OverHasOutcome == \A o \in Op : outcome[o] # "none" => pc[o] = "over"

ModbusInv ==
  /\ TypeOK
  /\ MutexHeld
  /\ Dialled
  /\ WireKept
  /\ WriteInOnePlace
  /\ OverHasOutcome
  /\ OwnReply
  /\ WritesOnce

-----------------------------------------------------------------------------
(* Lemmas on data *)

LEMMA OneElement ==
  ASSUME NEW r
  PROVE  /\ Head(<<r>>) = r /\ Tail(<<r>>) = <<>> /\ <<r>> # <<>> /\ <<r>>[1] = r
         /\ Append(<<>>, r) = <<r>>
  OBVIOUS

LEMMA QuantityNat == \A o \in Op : Quantity[o] \in Nat /\ Quantity[o] >= 1
  <1>1. LongestAnswer \in Nat
    BY DEF LongestAnswer
  <1>2. ASSUME NEW l \in Nat, NEW n \in 1 .. l PROVE n \in Nat /\ n >= 1
    OBVIOUS
  <1>3. \A o \in Op : Quantity[o] \in 1 .. LongestAnswer
    BY ModbusAssumption
  <1> QED
    BY <1>1, <1>2, <1>3

LEMMA RequestType ==
  ASSUME NEW o \in Op
  PROVE  RequestOf(o) \in Request /\ RequestOf(o).of = o
  <1>1. Code[o] \in {3, 4, 6}
    BY ModbusAssumption
  <1> QED
    BY <1>1, QuantityNat DEF RequestOf, Request

LEMMA CountNat == \A r \in Request : CountOf(r) \in Nat
  <1> SUFFICES ASSUME NEW r \in Request PROVE CountOf(r) \in Nat
    OBVIOUS
  <1>1. ASSUME NEW n \in Nat PROVE ((2 * n) % 256) \div 2 \in Nat
    OBVIOUS
  <1> QED
    BY <1>1 DEF CountOf, Request

LEMMA ByteKept ==
  ASSUME NEW n \in Nat, n <= 127
  PROVE  ((2 * n) % 256) \div 2 = n
  OBVIOUS

\* The byte of the count is enough for 127 registers.
LEMMA CountKept ==
  ASSUME NEW o \in Op, asks[o] = "invoke", Code[o] # 6, Quantity[o] <= 127
  PROVE  CountOf(RequestOf(o)) = Quantity[o]
  <1>1. RequestOf(o).code = Code[o] /\ RequestOf(o).quantity = Quantity[o]
    BY DEF RequestOf
  <1> QED
    BY <1>1, ByteKept, QuantityNat DEF CountOf

LEMMA AnswerType ==
  ASSUME NEW r \in Request
  PROVE  AnswerTo(r) \in Response
  BY CountNat DEF AnswerTo, Response, Request

LEMMA InitModbusInv == Init => ModbusInv
  <1> SUFFICES ASSUME Init PROVE ModbusInv
    OBVIOUS
  <1>1. TypeOK
    BY ModbusAssumption, EmptySeq DEF Init, TypeOK, Conn
  <1>2. MutexHeld /\ Dialled
    BY ModbusAssumption DEF Init, MutexHeld, Dialled, Conn
  <1>3. WireKept /\ WriteInOnePlace
    BY DEF Init, WireKept, WriteInOnePlace, Pending
  <1>4. OverHasOutcome /\ OwnReply /\ WritesOnce
    BY DEF Init, OverHasOutcome, OwnReply, WritesOnce
  <1> QED
    BY <1>1, <1>2, <1>3, <1>4 DEF ModbusInv

-----------------------------------------------------------------------------
(* Steps that leave the wires and the mutexes alone *)

Stays(q) ==
  pc'[q] = pc[q] /\ asks'[q] = asks[q] /\ using'[q] = using[q] /\ outcome'[q] = outcome[q]

\* q goes from a place where it does not use the client to another one, which
\* may be where it asks for the mutex.
MovesOutside(q) ==
  /\ pc[q] \notin {"send", "read", "over"}
  /\ pc'[q] \in {"loop", "call", "lock", "over"}
  /\ pc'[q] = "lock" => using'[q] \in 1 .. bound
  /\ BeforeSend(q)' => BeforeSend(q)
  /\ outcome'[q] # "SUCCEEDED"
  /\ outcome'[q] # "none" => pc'[q] = "over"

SameConnections == UNCHANGED <<bound, link>>

NewConnection ==
  /\ bound' = bound + 1 /\ bound' \in Conn
  /\ link' = [link EXCEPT ![bound + 1] = "up"]

LEMMA QuietInv ==
  ASSUME ModbusInv,
         UNCHANGED <<inbox, outbox, holder, got, applied>>,
         SameConnections \/ NewConnection,
         TypeOK',
         \A q \in Op : Stays(q) \/ MovesOutside(q)
  PROVE  ModbusInv'
  <1>1. bound \in Nat /\ bound' \in Nat /\ bound <= bound' /\ \A c \in Conn : c \in Nat
    BY ModbusAssumption DEF ModbusInv, TypeOK, Conn, SameConnections, NewConnection
  <1>2. \A c \in Conn : link'[c] # link[c] => link[c] = "none" /\ link'[c] = "up"
    <2>1. CASE SameConnections
      BY <2>1 DEF SameConnections
    <2>2. CASE NewConnection
      BY <2>2, <1>1 DEF NewConnection, ModbusInv, Dialled, TypeOK
    <2> QED
      BY <2>1, <2>2
  <1>3. \A q \in Op : pc[q] \in {"send", "read"} \/ pc'[q] \in {"send", "read"} => Stays(q)
    BY DEF MovesOutside, Stays
  <1>4. MutexHeld'
    <2>1. \A q \in Op : pc'[q] \in {"lock", "send", "read"} => using'[q] \in 1 .. bound'
      BY <1>1 DEF ModbusInv, MutexHeld, Stays, MovesOutside
    <2>2. \A q \in Op : pc'[q] \in {"send", "read"} => holder'[using'[q]] = q
      BY <1>3 DEF ModbusInv, MutexHeld, Stays
    <2>3. \A c \in Conn : holder'[c] # "none" =>
            holder'[c] \in Op /\ pc'[holder'[c]] \in {"send", "read"} /\ using'[holder'[c]] = c
      BY <1>3 DEF ModbusInv, MutexHeld, Stays
    <2> QED
      BY <2>1, <2>2, <2>3 DEF MutexHeld
  <1>5. Dialled'
    <2>1. CASE SameConnections
      BY <2>1 DEF SameConnections, ModbusInv, Dialled
    <2>2. CASE NewConnection
      BY <2>2, <1>1 DEF NewConnection, ModbusInv, Dialled, TypeOK
    <2> QED
      BY <2>1, <2>2
  <1>6. \A q \in Op : pc'[q] = "read" => Stays(q) /\ pc[q] = "read"
    BY <1>3 DEF Stays
  <1>7. \A q \in Op, c \in Conn : Reads(q, c)' <=> Reads(q, c)
    BY <1>3 DEF Reads, Stays
  <1>8. WireKept'
    <2>1. \A q \in Op : pc'[q] = "read" => Traffic(q)'
      <3> SUFFICES ASSUME NEW q \in Op, pc'[q] = "read" PROVE Traffic(q)'
        OBVIOUS
      <3>1. Traffic(q) /\ using'[q] = using[q] /\ RequestOf(q)' = RequestOf(q)
        BY <1>6 DEF ModbusInv, WireKept, Stays, RequestOf
      <3>2. AnswerTo(RequestOf(q))' = AnswerTo(RequestOf(q))
        BY <3>1 DEF AnswerTo, CountOf
      <3>3. using[q] \in Conn
        BY <1>6, ModbusAssumption DEF ModbusInv, MutexHeld, TypeOK, Conn
      <3>4. link[using[q]] = "down" => link'[using[q]] = "down"
        BY <1>2, <3>3
      <3> QED
        BY <3>1, <3>2, <3>4 DEF Traffic
    <2>2. \A c \in Conn : link'[c] # "down" /\ (\A q \in Op : ~Reads(q, c)') =>
            inbox'[c] = <<>> /\ outbox'[c] = <<>>
      BY <1>2, <1>7 DEF ModbusInv, WireKept
    <2>3. \A c \in Conn : inbox'[c] = <<>> \/ \E r \in Request : inbox'[c] = <<r>>
      BY DEF ModbusInv, WireKept
    <2> QED
      BY <2>1, <2>2, <2>3 DEF WireKept
  <1>9. \A q \in Op : /\ BeforeSend(q)' => BeforeSend(q)
                     /\ \A c \in Conn : Pending(q, c)' <=> Pending(q, c)
    BY DEF BeforeSend, Pending, Stays, MovesOutside
  <1>10. WriteInOnePlace'
    BY <1>6, <1>9 DEF ModbusInv, WriteInOnePlace, Stays
  <1>11. \A q \in Op : outcome'[q] = "SUCCEEDED" => outcome[q] = "SUCCEEDED"
    BY DEF Stays, MovesOutside
  <1>12. OverHasOutcome' /\ OwnReply' /\ WritesOnce'
    BY <1>11 DEF ModbusInv, OverHasOutcome, OwnReply, WritesOnce, Stays, MovesOutside
  <1> QED
    BY <1>4, <1>5, <1>8, <1>10, <1>12 DEF ModbusInv

LEMMA FinishMoves ==
  ASSUME ModbusInv, NEW o \in Op, pc[o] \notin {"send", "read", "over"},
         NEW s \in {"RESOLVE_FAILED", "RUN_FAILED", "UNKNOWN"}, Finish(o, s)
  PROVE  /\ \A q \in Op : Stays(q) \/ MovesOutside(q)
         /\ pc' \in [Op -> {"new", "loop", "call", "lock", "send", "read", "failed", "online",
                           "offline", "over"}]
         /\ asks' \in [Op -> {"none", "invoke", "observe"}]
         /\ using' \in [Op -> Conn \cup {0}]
         /\ outcome' \in [Op -> {"none", "SUCCEEDED", "RESOLVE_FAILED", "RUN_FAILED", "UNKNOWN"}]
  <1>1. MovesOutside(o)
    BY DEF MovesOutside, Finish, Goto, BeforeSend, ModbusInv, TypeOK
  <1>2. \A q \in Op \ {o} : Stays(q)
    BY DEF Stays, Finish, Goto, ModbusInv, TypeOK
  <1>3. TypeOK
    BY DEF ModbusInv
  <1> QED
    BY <1>1, <1>2, <1>3 DEF Finish, Goto, TypeOK

\* An operation moves, and neither its outcome nor any other one changes.
LEMMA GotoMoves ==
  ASSUME ModbusInv, NEW o \in Op, pc[o] \notin {"send", "read", "over"},
         NEW p \in {"loop", "call", "lock"}, Goto(o, p), outcome' = outcome,
         asks' \in [Op -> {"none", "invoke", "observe"}],
         using' \in [Op -> Conn \cup {0}],
         \A q \in Op \ {o} : asks'[q] = asks[q] /\ using'[q] = using[q],
         p = "lock" => using'[o] \in 1 .. bound,
         BeforeSend(o)' => BeforeSend(o)
  PROVE  /\ \A q \in Op : Stays(q) \/ MovesOutside(q)
         /\ pc' \in [Op -> {"new", "loop", "call", "lock", "send", "read", "failed", "online",
                           "offline", "over"}]
  <1>1. outcome[o] = "none"
    BY DEF ModbusInv, OverHasOutcome
  <1>2. MovesOutside(o)
    BY <1>1 DEF MovesOutside, Goto, ModbusInv, TypeOK
  <1>3. \A q \in Op \ {o} : Stays(q)
    BY DEF Stays, Goto, ModbusInv, TypeOK
  <1>4. TypeOK
    BY DEF ModbusInv
  <1> QED
    BY <1>2, <1>3, <1>4 DEF Goto, TypeOK

LEMMA DialConnects ==
  ASSUME ModbusInv, Dial
  PROVE  /\ NewConnection
         /\ link' \in [Conn -> {"none", "up", "down"}] /\ ready' \in BOOLEAN
         /\ UNCHANGED <<listening, inbox, outbox>>
  <1>1. bound + 1 \in Conn
    BY ModbusAssumption DEF Dial, ModbusInv, TypeOK, Conn
  <1> QED
    BY <1>1 DEF Dial, NewConnection, ModbusInv, TypeOK

LEMMA ResolveInv ==
  ASSUME ModbusInv, NEW o \in Op, Resolve(o)
  PROVE  ModbusInv'
  <1>0. /\ TypeOK /\ pc[o] = "new"
        /\ UNCHANGED <<listening, ready, bound, link, inbox, outbox, holder, got, applied>>
    BY DEF ModbusInv, Resolve, wireVars
  <1>1. CASE Goto(o, "loop") /\ UNCHANGED <<outcome, asks, using>>
    <2>1. BeforeSend(o)' => BeforeSend(o)
      BY <1>0 DEF BeforeSend
    <2>2. /\ \A q \in Op : Stays(q) \/ MovesOutside(q)
          /\ pc' \in [Op -> {"new", "loop", "call", "lock", "send", "read", "failed", "online",
                            "offline", "over"}]
      BY <1>0, <1>1, <2>1, GotoMoves DEF TypeOK
    <2> QED
      BY <1>0, <1>1, <2>2, QuietInv DEF TypeOK, SameConnections
  <1>2. CASE Finish(o, "RESOLVE_FAILED")
    <2>1. TypeOK' /\ \A q \in Op : Stays(q) \/ MovesOutside(q)
      BY <1>0, <1>2, FinishMoves DEF TypeOK
    <2> QED
      BY <1>0, <2>1, QuietInv DEF SameConnections
  <1> QED
    BY <1>1, <1>2 DEF Resolve

LEMMA LoopInv ==
  ASSUME ModbusInv, NEW o \in Op, Loop(o)
  PROVE  ModbusInv'
  <1>0. /\ TypeOK /\ pc[o] = "loop"
        /\ UNCHANGED <<inbox, outbox, holder, using, outcome, got, applied>>
    BY DEF ModbusInv, Loop, Dial, wireVars
  <1>1. asks' \in [Op -> {"none", "invoke", "observe"}]
    BY <1>0 DEF Loop, TypeOK
  <1>2. BeforeSend(o)' => BeforeSend(o)
    BY <1>0 DEF BeforeSend
  <1>3. \A q \in Op \ {o} : asks'[q] = asks[q] /\ using'[q] = using[q]
    BY <1>0 DEF Loop, TypeOK
  <1>4. Goto(o, "call")
    BY DEF Loop
  <1>5. /\ \A q \in Op : Stays(q) \/ MovesOutside(q)
        /\ pc' \in [Op -> {"new", "loop", "call", "lock", "send", "read", "failed", "online",
                          "offline", "over"}]
    BY <1>0, <1>1, <1>2, <1>3, <1>4, GotoMoves DEF TypeOK
  <1>6. CASE UNCHANGED <<listening, ready, bound, wireVars>>
    <2>1. TypeOK'
      BY <1>0, <1>1, <1>5, <1>6 DEF TypeOK, wireVars
    <2> QED
      BY <1>0, <1>5, <1>6, <2>1, QuietInv DEF SameConnections, wireVars
  <1>7. CASE Dial
    <2>1. NewConnection /\ link' \in [Conn -> {"none", "up", "down"}] /\ ready' \in BOOLEAN
          /\ UNCHANGED <<listening, inbox, outbox>>
      BY <1>7, DialConnects
    <2>2. bound' \in Conn
      BY <2>1 DEF NewConnection
    <2>3. TypeOK'
      BY <1>0, <1>1, <1>5, <2>1, <2>2 DEF TypeOK
    <2> QED
      BY <1>0, <1>5, <2>1, <2>3, QuietInv
  <1> QED
    BY <1>6, <1>7 DEF Loop

LEMMA OpenFailsInv ==
  ASSUME ModbusInv, NEW o \in Op, OpenFails(o)
  PROVE  ModbusInv'
  <1>0. /\ TypeOK /\ pc[o] = "loop" /\ Finish(o, "RUN_FAILED")
        /\ UNCHANGED <<listening, ready, bound, link, inbox, outbox, holder, got, applied>>
    BY DEF ModbusInv, OpenFails, wireVars
  <1>1. TypeOK' /\ \A q \in Op : Stays(q) \/ MovesOutside(q)
    BY <1>0, FinishMoves DEF TypeOK
  <1> QED
    BY <1>0, <1>1, QuietInv DEF SameConnections

LEMMA RecoverInv ==
  ASSUME ModbusInv, NEW o \in Op, Recover(o)
  PROVE  ModbusInv'
  <1>0. /\ TypeOK /\ pc[o] \in {"online", "offline"} /\ ready' \in BOOLEAN
        /\ UNCHANGED <<listening, bound, link, inbox, outbox, holder, got, applied>>
    BY DEF ModbusInv, Recover, wireVars, TypeOK
  <1>1. PICK s \in {"RUN_FAILED", "UNKNOWN"} : Finish(o, s)
    BY DEF Recover
  <1>2. TypeOK' /\ \A q \in Op : Stays(q) \/ MovesOutside(q)
    BY <1>0, <1>1, FinishMoves DEF TypeOK
  <1> QED
    BY <1>0, <1>2, QuietInv DEF SameConnections

LEMMA LookUpInv ==
  ASSUME ModbusInv, NEW o \in Op, LookUp(o)
  PROVE  ModbusInv'
  <1>0. /\ TypeOK /\ pc[o] = "call" /\ Goto(o, "lock")
        /\ using' = [using EXCEPT ![o] = bound]
        /\ UNCHANGED <<listening, ready, bound, link, inbox, outbox, holder, asks, outcome, got, applied>>
    BY DEF ModbusInv, LookUp, wireVars
  <1>1. using' \in [Op -> Conn \cup {0}] /\ using'[o] = bound /\ bound \in 1 .. bound
    BY <1>0, ModbusAssumption DEF TypeOK, Conn
  <1>2. BeforeSend(o)' => BeforeSend(o)
    BY <1>0 DEF BeforeSend, Goto, TypeOK
  <1>3. /\ \A q \in Op : Stays(q) \/ MovesOutside(q)
        /\ pc' \in [Op -> {"new", "loop", "call", "lock", "send", "read", "failed", "online",
                          "offline", "over"}]
    BY <1>0, <1>1, <1>2, GotoMoves DEF TypeOK
  <1>4. TypeOK'
    BY <1>0, <1>1, <1>3 DEF TypeOK
  <1> QED
    BY <1>0, <1>3, <1>4, QuietInv DEF SameConnections

LEMMA ObserveInv ==
  ASSUME ModbusInv, NEW o \in Op, Observe(o)
  PROVE  ModbusInv'
  <1>0. /\ TypeOK /\ pc[o] = "failed" /\ Goto(o, "call")
        /\ asks' = [asks EXCEPT ![o] = "observe"]
        /\ UNCHANGED <<listening, ready, bound, link, inbox, outbox, holder, using, outcome, got, applied>>
    BY DEF ModbusInv, Observe, wireVars
  <1>1. asks' \in [Op -> {"none", "invoke", "observe"}] /\ asks'[o] = "observe"
    BY <1>0 DEF TypeOK
  <1>2. ~BeforeSend(o)'
    BY <1>0, <1>1 DEF BeforeSend, Goto, TypeOK
  <1>3. /\ \A q \in Op : Stays(q) \/ MovesOutside(q)
        /\ pc' \in [Op -> {"new", "loop", "call", "lock", "send", "read", "failed", "online",
                          "offline", "over"}]
    BY <1>0, <1>1, <1>2, GotoMoves DEF TypeOK
  <1>4. TypeOK'
    BY <1>0, <1>1, <1>3 DEF TypeOK
  <1> QED
    BY <1>0, <1>3, <1>4, QuietInv DEF SameConnections

LEMMA EnvironmentInv ==
  ASSUME ModbusInv, Rediscover \/ Listen
  PROVE  ModbusInv'
  <1>0. /\ TypeOK /\ \A q \in Op : Stays(q)
        /\ UNCHANGED <<inbox, outbox, holder, pc, asks, using, outcome, got, applied>>
    BY DEF ModbusInv, Rediscover, Listen, Dial, wireVars, Stays
  <1>1. CASE Rediscover
    <2>1. NewConnection /\ link' \in [Conn -> {"none", "up", "down"}] /\ ready' \in BOOLEAN
          /\ listening' = listening
      BY <1>1, DialConnects DEF Rediscover
    <2>2. TypeOK'
      BY <1>0, <2>1 DEF TypeOK, NewConnection
    <2> QED
      BY <1>0, <2>1, <2>2, QuietInv
  <1>2. CASE Listen
    <2>1. SameConnections /\ TypeOK'
      BY <1>0, <1>2 DEF TypeOK, Listen, SameConnections, wireVars
    <2> QED
      BY <1>0, <2>1, QuietInv
  <1> QED
    BY <1>1, <1>2

-----------------------------------------------------------------------------
(* Steps on a client *)

LEMMA LockInv ==
  ASSUME ModbusInv, NEW o \in Op, Lock(o)
  PROVE  ModbusInv'
  <1> DEFINE u == using[o]
  <1>0. /\ TypeOK /\ pc[o] = "lock" /\ holder[u] = "none"
        /\ holder' = [holder EXCEPT ![u] = o]
        /\ pc' = [pc EXCEPT ![o] = "send"]
        /\ UNCHANGED <<listening, ready, bound, link, inbox, outbox, asks, using, outcome, got, applied>>
    BY DEF ModbusInv, Lock, Goto, wireVars
  <1>1. u \in 1 .. bound
    BY <1>0 DEF ModbusInv, MutexHeld
  <1>2. u \in Conn
    BY <1>0, <1>1, ModbusAssumption DEF TypeOK, Conn
  <1>3. /\ pc'[o] = "send" /\ \A q \in Op \ {o} : pc'[q] = pc[q]
        /\ holder'[u] = o /\ \A c \in Conn \ {u} : holder'[c] = holder[c]
    BY <1>0, <1>2 DEF TypeOK
  <1>4. TypeOK'
    BY <1>0 DEF TypeOK
  <1>5. MutexHeld'
    <2>1. \A q \in Op : pc'[q] \in {"lock", "send", "read"} => using'[q] \in 1 .. bound'
      BY <1>0, <1>1, <1>3 DEF ModbusInv, MutexHeld
    <2>2. \A q \in Op : pc'[q] \in {"send", "read"} => holder'[using'[q]] = q
      <3> SUFFICES ASSUME NEW q \in Op, q # o, pc[q] \in {"send", "read"}
                   PROVE  holder'[using[q]] = q
        BY <1>0, <1>3
      <3>1. holder[using[q]] = q /\ using[q] \in 1 .. bound
        BY DEF ModbusInv, MutexHeld
      <3>2. using[q] \in Conn
        BY <1>0, <3>1, ModbusAssumption DEF TypeOK, Conn
      <3>3. using[q] # u
        BY <1>0, <3>1, ModbusAssumption
      <3> QED
        BY <1>3, <3>1, <3>2, <3>3
    <2>3. \A c \in Conn : holder'[c] # "none" =>
            holder'[c] \in Op /\ pc'[holder'[c]] \in {"send", "read"} /\ using'[holder'[c]] = c
      BY <1>0, <1>3 DEF ModbusInv, MutexHeld
    <2> QED
      BY <2>1, <2>2, <2>3 DEF MutexHeld
  <1>6. Dialled'
    BY <1>0 DEF ModbusInv, Dialled
  <1>7. \A q \in Op, c \in Conn : Reads(q, c)' <=> Reads(q, c)
    BY <1>0, <1>3 DEF Reads
  <1>8. \A q \in Op : pc'[q] = "read" => pc[q] = "read" /\ (Traffic(q)' <=> Traffic(q))
    BY <1>0, <1>3 DEF Traffic, RequestOf, AnswerTo, CountOf
  <1>9. WireKept'
    BY <1>0, <1>7, <1>8 DEF ModbusInv, WireKept
  <1>10. \A q \in Op : /\ BeforeSend(q)' => BeforeSend(q)
                      /\ \A c \in Conn : Pending(q, c)' <=> Pending(q, c)
    BY <1>0, <1>3 DEF BeforeSend, Pending
  <1>11. WriteInOnePlace'
    BY <1>0, <1>8, <1>10 DEF ModbusInv, WriteInOnePlace
  <1>12. OverHasOutcome' /\ OwnReply' /\ WritesOnce'
    BY <1>0, <1>3 DEF ModbusInv, OverHasOutcome, OwnReply, WritesOnce
  <1> QED
    BY <1>4, <1>5, <1>6, <1>9, <1>11, <1>12 DEF ModbusInv

\* Who holds the mutex of a client is alone with its connection.
LEMMA Alone ==
  ASSUME ModbusInv, NEW o \in Op, pc[o] \in {"send", "read"}
  PROVE  /\ using[o] \in Conn /\ using[o] \in 1 .. bound
         /\ \A q \in Op : pc[q] \in {"send", "read"} /\ using[q] = using[o] => q = o
  BY ModbusAssumption DEF ModbusInv, MutexHeld, TypeOK, Conn

LEMMA SendInv ==
  ASSUME ModbusInv, NEW o \in Op, Send(o)
  PROVE  ModbusInv'
  <1> DEFINE u == using[o]
  <1>0. /\ TypeOK /\ pc[o] = "send" /\ link[u] = "up"
        /\ inbox' = [inbox EXCEPT ![u] = Append(inbox[u], RequestOf(o))]
        /\ pc' = [pc EXCEPT ![o] = "read"]
        /\ UNCHANGED <<listening, ready, bound, link, outbox, holder, asks, using, outcome, got, applied>>
    BY DEF ModbusInv, Send, Goto
  <1>1. u \in Conn
    BY <1>0, Alone
  <1>2. \A q \in Op : ~Reads(q, u)
    BY <1>0, Alone DEF Reads
  <1>3. inbox[u] = <<>> /\ outbox[u] = <<>>
    BY <1>0, <1>1, <1>2 DEF ModbusInv, WireKept
  <1>4. inbox'[u] = <<RequestOf(o)>> /\ \A c \in Conn \ {u} : inbox'[c] = inbox[c]
    <2>1. Append(inbox[u], RequestOf(o)) = <<RequestOf(o)>>
      BY <1>3, OneElement
    <2> QED
      BY <1>0, <1>1, <2>1 DEF TypeOK
  <1>5. pc'[o] = "read" /\ \A q \in Op \ {o} : pc'[q] = pc[q]
    BY <1>0 DEF TypeOK
  <1>6. \A q \in Op : RequestOf(q)' = RequestOf(q)
    BY <1>0 DEF RequestOf
  <1>7. TypeOK'
    <2>1. Append(inbox[u], RequestOf(o)) \in Seq(Request)
      BY <1>0, <1>1, RequestType DEF TypeOK
    <2> QED
      BY <1>0, <2>1 DEF TypeOK
  <1>8. MutexHeld' /\ Dialled'
    BY <1>0, <1>5 DEF ModbusInv, MutexHeld, Dialled
  <1>9. WireKept'
    <2>1. \A q \in Op : pc'[q] = "read" => Traffic(q)'
      <3> SUFFICES ASSUME NEW q \in Op, pc'[q] = "read" PROVE Traffic(q)'
        OBVIOUS
      <3>1. CASE q = o
        BY <1>0, <1>3, <1>4, <1>6, <3>1 DEF Traffic
      <3>2. CASE q # o
        <4>1. pc[q] = "read" /\ Traffic(q)
          BY <1>5, <3>2 DEF ModbusInv, WireKept
        <4>2. using[q] # u /\ using[q] \in Conn
          BY <1>0, <3>2, <4>1, Alone
        <4>3. AnswerTo(RequestOf(q))' = AnswerTo(RequestOf(q))
          BY <1>6 DEF AnswerTo, CountOf
        <4> QED
          BY <1>0, <1>4, <1>6, <4>1, <4>2, <4>3 DEF Traffic
      <3> QED
        BY <3>1, <3>2
    <2>2. \A c \in Conn : link'[c] # "down" /\ (\A q \in Op : ~Reads(q, c)') =>
            inbox'[c] = <<>> /\ outbox'[c] = <<>>
      <3> SUFFICES ASSUME NEW c \in Conn, link'[c] # "down", \A q \in Op : ~Reads(q, c)'
                   PROVE  inbox'[c] = <<>> /\ outbox'[c] = <<>>
        OBVIOUS
      <3>1. c # u
        BY <1>0, <1>5 DEF Reads
      <3>2. \A q \in Op : ~Reads(q, c)
        BY <1>0, <1>5 DEF Reads
      <3> QED
        BY <1>0, <1>4, <3>1, <3>2 DEF ModbusInv, WireKept
    <2>3. \A c \in Conn : inbox'[c] = <<>> \/ \E r \in Request : inbox'[c] = <<r>>
      BY <1>4, RequestType DEF ModbusInv, WireKept
    <2> QED
      BY <2>1, <2>2, <2>3 DEF WireKept
  <1>10. WriteInOnePlace'
    <2>1. \A q \in Op \ {o} : \A c \in Conn : Pending(q, c)' => Pending(q, c)
      <3> SUFFICES ASSUME NEW q \in Op \ {o}, NEW c \in Conn, Pending(q, c)' PROVE Pending(q, c)
        OBVIOUS
      <3>1. c # u
        BY <1>4, RequestType, OneElement DEF Pending
      <3> QED
        BY <1>4, <3>1 DEF Pending
    <2>2. \A q \in Op \ {o} : BeforeSend(q)' => BeforeSend(q)
      BY <1>0, <1>5 DEF BeforeSend
    <2>3. ~BeforeSend(o)'
      BY <1>5 DEF BeforeSend
    <2>4. \A c \in Conn : Pending(o, c)' => Pending(o, c) \/ (c = u /\ RequestOf(o).code = 6)
      BY <1>4, OneElement DEF Pending
    <2>5. RequestOf(o).code = 6 => BeforeSend(o)
      BY <1>0 DEF RequestOf, BeforeSend, TypeOK
    <2>6. \A c \in Conn : Pending(o, c)' => applied[o] = 0 /\ \A d \in Conn : Pending(o, d)' => d = c
      <3>1. CASE RequestOf(o).code = 6
        BY <2>4, <2>5, <3>1 DEF ModbusInv, WriteInOnePlace
      <3>2. CASE RequestOf(o).code # 6
        BY <2>4, <3>2 DEF ModbusInv, WriteInOnePlace
      <3> QED
        BY <3>1, <3>2
    <2>7. \A q \in Op : pc'[q] = "read" /\ asks'[q] = "invoke" /\ Code[q] = 6 /\ outbox'[using'[q]] # <<>>
            => applied'[q] = 1
      <3> SUFFICES ASSUME NEW q \in Op, pc'[q] = "read", asks[q] = "invoke", Code[q] = 6,
                          outbox[using[q]] # <<>>
                   PROVE  applied[q] = 1
        BY <1>0
      <3>1. q # o
        BY <1>3
      <3> QED
        BY <1>5, <3>1 DEF ModbusInv, WriteInOnePlace
    <2>8. \A q \in Op : applied'[q] <= 1
      BY <1>0 DEF ModbusInv, WriteInOnePlace
    <2>9. \A q \in Op : BeforeSend(q)' => applied'[q] = 0 /\ \A c \in Conn : ~Pending(q, c)'
      BY <1>0, <2>1, <2>2, <2>3 DEF ModbusInv, WriteInOnePlace
    <2>10. \A q \in Op : \A c \in Conn : Pending(q, c)' =>
             applied'[q] = 0 /\ \A d \in Conn : Pending(q, d)' => d = c
      BY <1>0, <2>1, <2>6 DEF ModbusInv, WriteInOnePlace
    <2> QED
      BY <2>7, <2>8, <2>9, <2>10 DEF WriteInOnePlace
  <1>11. OverHasOutcome' /\ OwnReply' /\ WritesOnce'
    BY <1>0, <1>5 DEF ModbusInv, OverHasOutcome, OwnReply, WritesOnce
  <1> QED
    BY <1>7, <1>8, <1>9, <1>10, <1>11 DEF ModbusInv

\* Somebody gives the mutex back: nothing is left for the next one on a
\* connection that has not broken.
LEMMA LeaveInv ==
  ASSUME ModbusInv, NEW o \in Op, pc[o] \in {"send", "read"},
         UNCHANGED <<bound, link, inbox, applied>>,
         holder' = [holder EXCEPT ![using[o]] = "none"],
         TypeOK',
         pc'[o] \in {"failed", "online", "offline", "over"},
         \A q \in Op \ {o} : Stays(q) /\ got'[q] = got[q],
         outcome'[o] # "none" => pc'[o] = "over",
         \A c \in Conn \ {using[o]} : outbox'[c] = outbox[c],
         \/ link[using[o]] = "down" /\ outbox'[using[o]] = outbox[using[o]]
         \/ inbox[using[o]] = <<>> /\ outbox'[using[o]] = <<>>,
         outcome'[o] = "SUCCEEDED" =>
           /\ got'[o].of = o
           /\ Code[o] # 6 /\ Quantity[o] <= 127 => got'[o].count = Quantity[o]
           /\ Code[o] = 6 => applied[o] = 1
  PROVE  ModbusInv'
  <1> DEFINE u == using[o]
  <1>0. TypeOK
    BY DEF ModbusInv
  <1>1. /\ u \in Conn /\ holder'[u] = "none"
        /\ \A c \in Conn \ {u} : holder'[c] = holder[c]
        /\ \A q \in Op : pc[q] \in {"send", "read"} /\ using[q] = u => q = o
    BY <1>0, Alone DEF TypeOK
  <1>2. MutexHeld'
    <2>1. \A q \in Op : pc'[q] \in {"lock", "send", "read"} => using'[q] \in 1 .. bound'
      BY DEF ModbusInv, MutexHeld, Stays
    <2>2. \A q \in Op : pc'[q] \in {"send", "read"} => holder'[using'[q]] = q
      <3> SUFFICES ASSUME NEW q \in Op, pc'[q] \in {"send", "read"} PROVE holder'[using'[q]] = q
        OBVIOUS
      <3>1. q # o /\ Stays(q)
        OBVIOUS
      <3>2. pc[q] \in {"send", "read"} /\ using'[q] = using[q]
        BY <3>1 DEF Stays
      <3>3. holder[using[q]] = q /\ using[q] \in Conn /\ using[q] # u
        BY <1>1, <3>1, <3>2, Alone DEF ModbusInv, MutexHeld
      <3> QED
        BY <1>1, <3>2, <3>3
    <2>3. \A c \in Conn : holder'[c] # "none" =>
            holder'[c] \in Op /\ pc'[holder'[c]] \in {"send", "read"} /\ using'[holder'[c]] = c
      <3> SUFFICES ASSUME NEW c \in Conn, holder'[c] # "none"
                   PROVE  holder'[c] \in Op /\ pc'[holder'[c]] \in {"send", "read"} /\ using'[holder'[c]] = c
        OBVIOUS
      <3>1. c # u /\ holder'[c] = holder[c]
        BY <1>1
      <3>2. holder[c] \in Op /\ pc[holder[c]] \in {"send", "read"} /\ using[holder[c]] = c
        BY <3>1 DEF ModbusInv, MutexHeld
      <3>3. holder[c] # o
        BY <3>1, <3>2
      <3> QED
        BY <3>1, <3>2, <3>3 DEF Stays
    <2> QED
      BY <2>1, <2>2, <2>3 DEF MutexHeld
  <1>3. Dialled'
    BY DEF ModbusInv, Dialled
  <1>4. \A q \in Op : pc'[q] = "read" =>
          q # o /\ Stays(q) /\ pc[q] = "read" /\ using[q] \in Conn /\ using[q] # u
    BY <1>1, Alone DEF Stays
  <1>5. WireKept'
    <2>1. \A q \in Op : pc'[q] = "read" => Traffic(q)'
      <3> SUFFICES ASSUME NEW q \in Op, pc'[q] = "read" PROVE Traffic(q)'
        OBVIOUS
      <3>1. Traffic(q) /\ using'[q] = using[q] /\ RequestOf(q)' = RequestOf(q)
        BY <1>4 DEF ModbusInv, WireKept, Stays, RequestOf
      <3>2. AnswerTo(RequestOf(q))' = AnswerTo(RequestOf(q))
        BY <3>1 DEF AnswerTo, CountOf
      <3> QED
        BY <1>4, <3>1, <3>2 DEF Traffic
    <2>2. \A c \in Conn : link'[c] # "down" /\ (\A q \in Op : ~Reads(q, c)') =>
            inbox'[c] = <<>> /\ outbox'[c] = <<>>
      <3> SUFFICES ASSUME NEW c \in Conn, link[c] # "down", \A q \in Op : ~Reads(q, c)'
                   PROVE  inbox[c] = <<>> /\ outbox'[c] = <<>>
        OBVIOUS
      <3>1. CASE c = u
        BY <3>1
      <3>2. CASE c # u
        <4>1. \A q \in Op : ~Reads(q, c)
          BY <3>2 DEF Reads, Stays
        <4> QED
          BY <3>2, <4>1 DEF ModbusInv, WireKept
      <3> QED
        BY <3>1, <3>2
    <2>3. \A c \in Conn : inbox'[c] = <<>> \/ \E r \in Request : inbox'[c] = <<r>>
      BY DEF ModbusInv, WireKept
    <2> QED
      BY <2>1, <2>2, <2>3 DEF WireKept
  <1>6. \A q \in Op : /\ BeforeSend(q)' => BeforeSend(q)
                     /\ \A c \in Conn : Pending(q, c)' <=> Pending(q, c)
    BY DEF BeforeSend, Pending, Stays
  <1>7. WriteInOnePlace'
    <2>1. \A q \in Op : pc'[q] = "read" /\ asks'[q] = "invoke" /\ Code[q] = 6 /\ outbox'[using'[q]] # <<>>
            => applied'[q] = 1
      BY <1>4 DEF ModbusInv, WriteInOnePlace, Stays
    <2> QED
      BY <1>6, <2>1 DEF ModbusInv, WriteInOnePlace
  <1>8. OverHasOutcome'
    BY DEF ModbusInv, OverHasOutcome, Stays
  <1>9. OwnReply' /\ WritesOnce'
    <2> SUFFICES ASSUME NEW q \in Op
                 PROVE  /\ outcome'[q] = "SUCCEEDED" =>
                             /\ got'[q].of = q
                             /\ Code[q] # 6 /\ Quantity[q] <= 127 => got'[q].count = Quantity[q]
                        /\ applied'[q] <= 1
                        /\ outcome'[q] = "SUCCEEDED" /\ Code[q] = 6 => applied'[q] = 1
      BY DEF OwnReply, WritesOnce
    <2>1. CASE q = o
      BY <2>1 DEF ModbusInv, WritesOnce
    <2>2. CASE q # o
      BY <2>2 DEF ModbusInv, OwnReply, WritesOnce, Stays
    <2> QED
      BY <2>1, <2>2
  <1> QED
    BY <1>2, <1>3, <1>5, <1>7, <1>8, <1>9 DEF ModbusInv

LEMMA ErrorInv ==
  ASSUME ModbusInv, NEW o \in Op, Error(o)
  PROVE  ModbusInv'
  <1>0. /\ TypeOK /\ pc[o] \in {"send", "read"} /\ link[using[o]] = "down"
        /\ holder' = [holder EXCEPT ![using[o]] = "none"]
        /\ UNCHANGED <<listening, ready, bound, link, inbox, outbox, asks, using, outcome, got, applied>>
    BY DEF ModbusInv, Error, Unlock, wireVars
  <1>1. PICK p \in {"failed", "offline"} : pc' = [pc EXCEPT ![o] = p]
    BY DEF Error, Goto
  <1>2. pc'[o] = p /\ \A q \in Op \ {o} : Stays(q)
    BY <1>0, <1>1 DEF Stays, TypeOK
  <1>3. outcome'[o] = "none"
    BY <1>0 DEF ModbusInv, OverHasOutcome
  <1>4. TypeOK'
    BY <1>0, <1>1 DEF TypeOK
  <1> QED
    BY <1>0, <1>2, <1>3, <1>4, LeaveInv

LEMMA ReadInv ==
  ASSUME ModbusInv, NEW o \in Op, Read(o)
  PROVE  ModbusInv'
  <1> DEFINE u == using[o]
             r == RequestOf(o)
  <1>0. /\ TypeOK /\ pc[o] = "read" /\ outbox[u] # <<>>
        /\ outbox' = [outbox EXCEPT ![u] = Tail(outbox[u])]
        /\ holder' = [holder EXCEPT ![u] = "none"]
        /\ UNCHANGED <<listening, ready, bound, link, inbox, applied>>
    BY DEF ModbusInv, Read, Unlock
  <1>1. u \in Conn
    BY <1>0, Alone
  <1>2. inbox[u] = <<>> /\ outbox[u] = <<AnswerTo(r)>>
    BY <1>0 DEF ModbusInv, WireKept, Traffic
  <1>3. Head(outbox[u]) = AnswerTo(r) /\ Tail(outbox[u]) = <<>>
    BY <1>2, OneElement
  <1>4. outbox'[u] = <<>> /\ \A c \in Conn \ {u} : outbox'[c] = outbox[c]
    BY <1>0, <1>1, <1>3 DEF TypeOK
  <1>5. r \in Request /\ r.of = o /\ CountOf(r) \in Nat
    BY RequestType, CountNat
  <1>6. AnswerTo(r).of = o /\ AnswerTo(r).code = r.code /\ AnswerTo(r).count = CountOf(r)
    BY <1>5 DEF AnswerTo
  <1>7. outcome[o] = "none"
    BY <1>0 DEF ModbusInv, OverHasOutcome
  <1>8. outbox' \in [Conn -> Seq(Response)] /\ holder' \in [Conn -> Op \cup {"none"}]
    BY <1>0, <1>3, EmptySeq DEF TypeOK
  <1>9. CASE /\ asks[o] = "invoke"
             /\ got' = [got EXCEPT ![o] = [of |-> o, count |-> CountOf(r)]]
             /\ Finish(o, "SUCCEEDED")
    <2>1. /\ pc'[o] = "over" /\ got'[o] = [of |-> o, count |-> CountOf(r)]
          /\ \A q \in Op \ {o} : Stays(q) /\ got'[q] = got[q]
      BY <1>0, <1>9 DEF Finish, Goto, Stays, TypeOK
    <2>2. got' \in [Op -> Response \cup {Nothing} \cup [of : Op, count : Nat]]
      BY <1>0, <1>5, <1>9 DEF TypeOK
    <2>3. TypeOK'
      BY <1>0, <1>8, <1>9, <2>2 DEF TypeOK, Finish, Goto
    <2>4. Code[o] # 6 /\ Quantity[o] <= 127 => got'[o].count = Quantity[o]
      BY <1>9, <2>1, CountKept
    <2>5. Code[o] = 6 => applied[o] = 1
      BY <1>0, <1>9 DEF ModbusInv, WriteInOnePlace
    <2>6. got'[o].of = o
      BY <2>1
    <2> QED
      BY <1>0, <1>2, <1>4, <2>1, <2>3, <2>4, <2>5, <2>6, LeaveInv
  <1>10. ASSUME NEW p \in {"failed", "online", "offline"}, Goto(o, p),
                UNCHANGED <<got, outcome, asks, using>>
         PROVE  ModbusInv'
    <2>1. pc'[o] = p /\ \A q \in Op \ {o} : Stays(q) /\ got'[q] = got[q]
      BY <1>0, <1>10 DEF Goto, Stays, TypeOK
    <2>2. TypeOK'
      BY <1>0, <1>8, <1>10 DEF TypeOK, Goto
    <2> QED
      BY <1>0, <1>2, <1>4, <1>7, <1>10, <2>1, <2>2, LeaveInv
  <1>11. \/ /\ asks[o] = "invoke"
            /\ got' = [got EXCEPT ![o] = [of |-> o, count |-> CountOf(r)]]
            /\ Finish(o, "SUCCEEDED")
         \/ \E p \in {"failed", "online", "offline"} :
              Goto(o, p) /\ UNCHANGED <<got, outcome, asks, using>>
    <2>1. CASE /\ Head(outbox[u]).code = r.code /\ asks[o] = "invoke"
               /\ got' = [got EXCEPT ![o] = [of |-> Head(outbox[u]).of, count |-> Head(outbox[u]).count]]
               /\ Finish(o, "SUCCEEDED")
      BY <1>3, <1>6, <2>1
    <2>2. CASE \E p \in {"failed", "online", "offline"} :
                 Goto(o, p) /\ UNCHANGED <<got, outcome, asks, using>>
      BY <2>2
    <2>3. \/ /\ Head(outbox[u]).code = r.code /\ asks[o] = "invoke"
             /\ got' = [got EXCEPT ![o] = [of |-> Head(outbox[u]).of, count |-> Head(outbox[u]).count]]
             /\ Finish(o, "SUCCEEDED")
          \/ Goto(o, "online") /\ UNCHANGED <<got, outcome, asks, using>>
          \/ Goto(o, IF asks[o] = "invoke" THEN "failed" ELSE "offline")
             /\ UNCHANGED <<got, outcome, asks, using>>
      BY DEF Read
    <2>4. (IF asks[o] = "invoke" THEN "failed" ELSE "offline") \in {"failed", "online", "offline"}
      OBVIOUS
    <2> QED
      BY <2>1, <2>2, <2>3, <2>4
  <1> QED
    BY <1>9, <1>10, <1>11

-----------------------------------------------------------------------------
(* The server and the network *)

\* A request that has arrived is that of the reader, or its connection has
\* broken.
LEMMA WhoseRequest ==
  ASSUME ModbusInv, NEW c \in Conn, inbox[c] # <<>>
  PROVE  /\ Head(inbox[c]) \in Request /\ inbox[c] = <<Head(inbox[c])>> /\ Tail(inbox[c]) = <<>>
         /\ \A o \in Op : Reads(o, c) => Head(inbox[c]) = RequestOf(o) /\ outbox[c] = <<>>
         /\ link[c] = "down" \/ \E o \in Op : Reads(o, c)
  <1>1. PICK r \in Request : inbox[c] = <<r>>
    BY DEF ModbusInv, WireKept
  <1>2. Head(inbox[c]) = r /\ Tail(inbox[c]) = <<>>
    BY <1>1, OneElement
  <1>3. \A o \in Op : Reads(o, c) => inbox[c] = <<RequestOf(o)>> /\ outbox[c] = <<>>
    BY DEF ModbusInv, WireKept, Traffic, Reads
  <1>4. \A o \in Op : Head(<<RequestOf(o)>>) = RequestOf(o)
    BY OneElement
  <1>5. link[c] = "down" \/ \E o \in Op : Reads(o, c)
    BY DEF ModbusInv, WireKept
  <1> QED
    BY <1>1, <1>2, <1>3, <1>4, <1>5

LEMMA ServeInv ==
  ASSUME ModbusInv, NEW c \in Conn, Serve(c)
  PROVE  ModbusInv'
  <1> DEFINE r == Head(inbox[c])
  <1>0. /\ TypeOK /\ inbox[c] # <<>>
        /\ inbox' = [inbox EXCEPT ![c] = Tail(inbox[c])]
        /\ UNCHANGED <<listening, ready, bound, link, holder, pc, asks, using, outcome, got>>
    BY DEF ModbusInv, Serve
  <1>1. /\ r \in Request /\ inbox[c] = <<r>> /\ Tail(inbox[c]) = <<>>
        /\ \A o \in Op : Reads(o, c) => r = RequestOf(o) /\ outbox[c] = <<>>
        /\ link[c] = "down" \/ \E o \in Op : Reads(o, c)
    BY <1>0, WhoseRequest
  <1>2. AnswerTo(r) \in Response /\ r.of \in Op
    BY <1>1, AnswerType DEF Request
  <1>3. outbox' = IF link[c] = "up" THEN [outbox EXCEPT ![c] = Append(outbox[c], AnswerTo(r))] ELSE outbox
    BY DEF Serve, AnswerTo
  <1>4. applied' = IF r.code = 6 THEN [applied EXCEPT ![r.of] = applied[r.of] + 1] ELSE applied
    BY DEF Serve
  <1>5. inbox'[c] = <<>> /\ \A d \in Conn \ {c} : inbox'[d] = inbox[d] /\ outbox'[d] = outbox[d]
    BY <1>0, <1>1, <1>3 DEF TypeOK
  <1>6. \A q \in Op : Reads(q, c) =>
          \/ link[c] = "down" /\ outbox'[c] = <<>>
          \/ link[c] = "up" /\ outbox'[c] = <<AnswerTo(RequestOf(q))>>
    <2> SUFFICES ASSUME NEW q \in Op, Reads(q, c)
                 PROVE  \/ link[c] = "down" /\ outbox'[c] = <<>>
                        \/ link[c] = "up" /\ outbox'[c] = <<AnswerTo(RequestOf(q))>>
      OBVIOUS
    <2>1. r = RequestOf(q) /\ outbox[c] = <<>>
      BY <1>1
    <2>2. CASE link[c] = "up"
      <3>1. outbox'[c] = Append(outbox[c], AnswerTo(r))
        BY <1>0, <1>3, <2>2 DEF TypeOK
      <3> QED
        BY <2>1, <2>2, <3>1, OneElement
    <2>3. CASE link[c] # "up"
      <3>1. link[c] # "none"
        BY <1>0, ModbusAssumption DEF Reads, ModbusInv, MutexHeld, Dialled, TypeOK, Conn
      <3> QED
        BY <1>0, <1>3, <2>1, <2>3, <3>1 DEF TypeOK
    <2> QED
      BY <2>2, <2>3
  <1>7. TypeOK'
    <2>1. inbox' \in [Conn -> Seq(Request)]
      BY <1>0, <1>1, EmptySeq DEF TypeOK
    <2>2. outbox' \in [Conn -> Seq(Response)]
      <3>1. Append(outbox[c], AnswerTo(r)) \in Seq(Response)
        BY <1>0, <1>2, AppendProperties DEF TypeOK
      <3> QED
        BY <1>0, <1>3, <3>1 DEF TypeOK
    <2>3. applied' \in [Op -> Nat]
      BY <1>0, <1>2, <1>4 DEF TypeOK
    <2> QED
      BY <1>0, <2>1, <2>2, <2>3 DEF TypeOK
  <1>8. MutexHeld' /\ Dialled' /\ OverHasOutcome' /\ OwnReply'
    BY <1>0 DEF ModbusInv, MutexHeld, Dialled, OverHasOutcome, OwnReply
  <1>9. \A q \in Op : RequestOf(q)' = RequestOf(q) /\ AnswerTo(RequestOf(q))' = AnswerTo(RequestOf(q))
    BY <1>0 DEF RequestOf, AnswerTo, CountOf
  <1>10. \A q \in Op : pc[q] = "read" => using[q] \in Conn
    BY Alone
  <1>11. WireKept'
    <2>1. \A q \in Op : pc'[q] = "read" => Traffic(q)'
      <3> SUFFICES ASSUME NEW q \in Op, pc[q] = "read" PROVE Traffic(q)'
        BY <1>0
      <3>1. CASE using[q] = c
        BY <1>0, <1>5, <1>6, <1>9, <3>1 DEF Traffic, Reads
      <3>2. CASE using[q] # c
        <4>1. Traffic(q)
          BY DEF ModbusInv, WireKept
        <4> QED
          BY <1>0, <1>5, <1>9, <1>10, <3>2, <4>1 DEF Traffic
      <3> QED
        BY <3>1, <3>2
    <2>2. \A d \in Conn : link'[d] # "down" /\ (\A q \in Op : ~Reads(q, d)') =>
            inbox'[d] = <<>> /\ outbox'[d] = <<>>
      <3> SUFFICES ASSUME NEW d \in Conn, link[d] # "down", \A q \in Op : ~Reads(q, d)
                   PROVE  inbox'[d] = <<>> /\ outbox'[d] = <<>>
        BY <1>0 DEF Reads
      <3>1. d # c
        BY <1>1
      <3> QED
        BY <1>5, <3>1 DEF ModbusInv, WireKept
    <2>3. \A d \in Conn : inbox'[d] = <<>> \/ \E x \in Request : inbox'[d] = <<x>>
      BY <1>5 DEF ModbusInv, WireKept
    <2> QED
      BY <2>1, <2>2, <2>3 DEF WireKept
  <1>12. \A q \in Op, d \in Conn : Pending(q, d)' => Pending(q, d) /\ d # c
    BY <1>5 DEF Pending
  <1>13. r.code = 6 => Pending(r.of, c)
    <2>1. inbox[c][1] = r
      BY <1>1, OneElement
    <2> QED
      BY <1>0, <2>1 DEF Pending
  <1>14. /\ \A q \in Op : q # r.of \/ r.code # 6 => applied'[q] = applied[q]
         /\ r.code = 6 => applied[r.of] = 0 /\ applied'[r.of] = 1
    BY <1>0, <1>2, <1>4, <1>13 DEF ModbusInv, WriteInOnePlace, TypeOK
  <1>15. WriteInOnePlace'
    <2>1. \A q \in Op : BeforeSend(q)' => BeforeSend(q)
      BY <1>0 DEF BeforeSend
    <2>2. \A q \in Op : BeforeSend(q)' => applied'[q] = 0 /\ \A d \in Conn : ~Pending(q, d)'
      BY <1>12, <1>13, <1>14, <2>1 DEF ModbusInv, WriteInOnePlace
    <2>3. \A q \in Op : \A d \in Conn : Pending(q, d)' =>
            applied'[q] = 0 /\ \A e \in Conn : Pending(q, e)' => e = d
      <3> SUFFICES ASSUME NEW q \in Op, NEW d \in Conn, Pending(q, d)'
                   PROVE  applied'[q] = 0 /\ \A e \in Conn : Pending(q, e)' => e = d
        OBVIOUS
      <3>1. Pending(q, d) /\ d # c
        BY <1>12
      <3>2. q # r.of \/ r.code # 6
        BY <1>13, <3>1 DEF ModbusInv, WriteInOnePlace
      <3> QED
        BY <1>12, <1>14, <3>1, <3>2 DEF ModbusInv, WriteInOnePlace
    <2>4. \A q \in Op : applied'[q] <= 1
      BY <1>14 DEF ModbusInv, WriteInOnePlace
    <2>5. \A q \in Op : pc'[q] = "read" /\ asks'[q] = "invoke" /\ Code[q] = 6 /\ outbox'[using'[q]] # <<>>
            => applied'[q] = 1
      <3> SUFFICES ASSUME NEW q \in Op, pc[q] = "read", asks[q] = "invoke", Code[q] = 6,
                          outbox'[using[q]] # <<>>
                   PROVE  applied'[q] = 1
        BY <1>0
      <3>1. CASE using[q] = c
        <4>1. r = RequestOf(q)
          BY <1>1, <3>1 DEF Reads
        <4>2. r.code = 6 /\ r.of = q
          BY <4>1 DEF RequestOf
        <4> QED
          BY <1>14, <4>2
      <3>2. CASE using[q] # c
        <4>1. applied[q] = 1
          BY <1>5, <1>10, <3>2 DEF ModbusInv, WriteInOnePlace
        <4> QED
          BY <1>14, <4>1
      <3> QED
        BY <3>1, <3>2
    <2> QED
      BY <2>2, <2>3, <2>4, <2>5 DEF WriteInOnePlace
  <1>16. WritesOnce'
    <2>1. \A q \in Op : applied'[q] <= 1
      BY <1>14 DEF ModbusInv, WritesOnce
    <2>2. \A q \in Op : outcome'[q] = "SUCCEEDED" /\ Code[q] = 6 => applied'[q] = 1
      BY <1>0, <1>14 DEF ModbusInv, WritesOnce
    <2> QED
      BY <2>1, <2>2 DEF WritesOnce
  <1> QED
    BY <1>7, <1>8, <1>11, <1>15, <1>16 DEF ModbusInv

LEMMA BreakInv ==
  ASSUME ModbusInv, NEW c \in Conn, Break(c)
  PROVE  ModbusInv'
  <1>0. /\ TypeOK /\ link[c] = "up" /\ link' = [link EXCEPT ![c] = "down"]
        /\ UNCHANGED <<listening, ready, bound, holder, pc, asks, using, outcome, got, applied>>
        /\ inbox' = inbox \/ inbox' = [inbox EXCEPT ![c] = <<>>]
        /\ outbox' = outbox \/ outbox' = [outbox EXCEPT ![c] = <<>>]
    BY DEF ModbusInv, Break
  <1>1. /\ link'[c] = "down" /\ \A d \in Conn \ {c} : link'[d] = link[d]
        /\ \A d \in Conn : inbox'[d] = inbox[d] \/ inbox'[d] = <<>>
        /\ \A d \in Conn : outbox'[d] = outbox[d] \/ outbox'[d] = <<>>
    BY <1>0 DEF TypeOK
  <1>2. TypeOK'
    <2>0. <<>> \in Seq(Request) /\ <<>> \in Seq(Response)
      BY EmptySeq
    <2>1. inbox' \in [Conn -> Seq(Request)]
      <3>1. inbox \in [Conn -> Seq(Request)]
        BY <1>0 DEF TypeOK
      <3>2. CASE inbox' = [inbox EXCEPT ![c] = <<>>]
        BY <2>0, <3>1, <3>2
      <3> QED
        BY <1>0, <3>1, <3>2
    <2>2. outbox' \in [Conn -> Seq(Response)]
      <3>1. outbox \in [Conn -> Seq(Response)]
        BY <1>0 DEF TypeOK
      <3>2. CASE outbox' = [outbox EXCEPT ![c] = <<>>]
        BY <2>0, <3>1, <3>2
      <3> QED
        BY <1>0, <3>1, <3>2
    <2>3. link' \in [Conn -> {"none", "up", "down"}]
      BY <1>0 DEF TypeOK
    <2> QED
      BY <1>0, <2>1, <2>2, <2>3 DEF TypeOK
  <1>3. MutexHeld' /\ Dialled' /\ OverHasOutcome' /\ OwnReply' /\ WritesOnce'
    BY <1>0, <1>1 DEF ModbusInv, MutexHeld, Dialled, OverHasOutcome, OwnReply, WritesOnce
  <1>4. \A q \in Op : RequestOf(q)' = RequestOf(q) /\ AnswerTo(RequestOf(q))' = AnswerTo(RequestOf(q))
    BY <1>0 DEF RequestOf, AnswerTo, CountOf
  <1>5. WireKept'
    <2>1. \A q \in Op : pc'[q] = "read" => Traffic(q)'
      <3> SUFFICES ASSUME NEW q \in Op, pc[q] = "read" PROVE Traffic(q)'
        BY <1>0
      <3>1. Traffic(q) /\ using[q] \in Conn
        BY Alone DEF ModbusInv, WireKept
      <3>2. CASE using[q] = c
        BY <1>0, <1>1, <1>4, <3>1, <3>2 DEF Traffic
      <3>3. CASE using[q] # c
        <4>1. inbox'[using[q]] = inbox[using[q]] /\ outbox'[using[q]] = outbox[using[q]]
          BY <1>0, <3>1, <3>3 DEF TypeOK
        <4> QED
          BY <1>0, <1>1, <1>4, <3>1, <3>3, <4>1 DEF Traffic
      <3> QED
        BY <3>2, <3>3
    <2>2. \A d \in Conn : link'[d] # "down" /\ (\A q \in Op : ~Reads(q, d)') =>
            inbox'[d] = <<>> /\ outbox'[d] = <<>>
      BY <1>0, <1>1 DEF ModbusInv, WireKept, Reads
    <2>3. \A d \in Conn : inbox'[d] = <<>> \/ \E r \in Request : inbox'[d] = <<r>>
      BY <1>1 DEF ModbusInv, WireKept
    <2> QED
      BY <2>1, <2>2, <2>3 DEF WireKept
  <1>6. \A q \in Op, d \in Conn : Pending(q, d)' => Pending(q, d)
    BY <1>1 DEF Pending
  <1>7. \A q \in Op : BeforeSend(q)' => BeforeSend(q)
    BY <1>0 DEF BeforeSend
  <1>8. \A q \in Op : pc'[q] = "read" /\ outbox'[using'[q]] # <<>> => outbox[using[q]] # <<>>
    BY <1>0, <1>1, Alone
  <1>9. WriteInOnePlace'
    <2>1. \A q \in Op : BeforeSend(q)' => applied'[q] = 0 /\ \A d \in Conn : ~Pending(q, d)'
      BY <1>0, <1>6, <1>7 DEF ModbusInv, WriteInOnePlace
    <2>2. \A q \in Op : \A d \in Conn : Pending(q, d)' =>
            applied'[q] = 0 /\ \A e \in Conn : Pending(q, e)' => e = d
      BY <1>0, <1>6 DEF ModbusInv, WriteInOnePlace
    <2>3. \A q \in Op : pc'[q] = "read" /\ asks'[q] = "invoke" /\ Code[q] = 6 /\ outbox'[using'[q]] # <<>>
            => applied'[q] = 1
      BY <1>0, <1>8 DEF ModbusInv, WriteInOnePlace
    <2>4. \A q \in Op : applied'[q] <= 1
      BY <1>0 DEF ModbusInv, WriteInOnePlace
    <2> QED
      BY <2>1, <2>2, <2>3, <2>4 DEF WriteInOnePlace
  <1> QED
    BY <1>2, <1>3, <1>5, <1>9 DEF ModbusInv

-----------------------------------------------------------------------------
LEMMA NextModbusInv == ModbusInv /\ [Next]_vars => ModbusInv'
  <1> SUFFICES ASSUME ModbusInv, [Next]_vars PROVE ModbusInv'
    OBVIOUS
  <1>1. ASSUME NEW o \in Op, Step(o) PROVE ModbusInv'
    BY <1>1, ResolveInv, LoopInv, OpenFailsInv, LookUpInv, LockInv, SendInv, ReadInv,
       ErrorInv, ObserveInv, RecoverInv DEF Step
  <1>2. ASSUME NEW c \in Conn, Serve(c) \/ Break(c) PROVE ModbusInv'
    BY <1>2, ServeInv, BreakInv
  <1>3. CASE Rediscover \/ Listen
    BY <1>3, EnvironmentInv
  <1>4. CASE UNCHANGED vars
    <2>1. UNCHANGED <<listening, ready, bound, link, inbox, outbox, holder, pc, asks, using,
                      outcome, got, applied>>
      BY <1>4 DEF vars, wireVars
    <2>2. TypeOK' /\ \A q \in Op : Stays(q)
      BY <2>1 DEF ModbusInv, TypeOK, Stays
    <2> QED
      BY <2>1, <2>2, QuietInv DEF SameConnections
  <1> QED
    BY <1>1, <1>2, <1>3, <1>4 DEF Next

\* The inductive invariant: traffic on a connection in use is that of the
\* operation that holds the mutex of its client (modbus/client.go:64).
THEOREM ModbusInvariant == Spec => []ModbusInv
  <1> QED
    BY InitModbusInv, NextModbusInv, PTL DEF Spec

\* The state of clients, connections and operations has the shape declared.
THEOREM ModbusTypeCorrect == Spec => []TypeOK
  <1>1. ModbusInv => TypeOK
    BY DEF ModbusInv
  <1> QED
    BY <1>1, ModbusInvariant, PTL

\* Every caller gets the response to its own request, whole as long as the
\* byte of the count suffices (modbus/client.go:67).
THEOREM OwnReplyHolds == Spec => []OwnReply
  <1>1. ModbusInv => OwnReply
    BY DEF ModbusInv
  <1> QED
    BY <1>1, ModbusInvariant, PTL

\* A write is done at most once, and has been done when that is said
\* (plugin/modbus/invoke.go:67).
THEOREM WritesOnceHold == Spec => []WritesOnce
  <1>1. ModbusInv => WritesOnce
    BY DEF ModbusInv
  <1> QED
    BY <1>1, ModbusInvariant, PTL

\* Who waits for a response has one coming or a connection that is down, and who
\* waits for a client waits for somebody who works with it, whatever broke
\* before (modbus/client.go:64-67): no error path keeps the mutex.
THEOREM NobodyIsStuck == Spec => []NobodyWaitsInVain
  <1>1. ASSUME ModbusInv PROVE NobodyWaitsInVain
    <2> SUFFICES ASSUME NEW o \in Op
                 PROVE  LET c == using[o] IN
                          /\ pc[o] = "read" =>
                               inbox[c] # <<>> \/ outbox[c] # <<>> \/ link[c] = "down"
                          /\ pc[o] = "lock" /\ holder[c] # "none" =>
                               using[holder[c]] = c /\ pc[holder[c]] \in {"send", "read"}
      BY DEF NobodyWaitsInVain
    <2>1. pc[o] = "read" => Traffic(o)
      BY <1>1 DEF ModbusInv, WireKept
    <2>2. ASSUME pc[o] = "lock", holder[using[o]] # "none"
          PROVE  using[holder[using[o]]] = using[o] /\ pc[holder[using[o]]] \in {"send", "read"}
      <3>1. using[o] \in Conn
        BY <1>1, <2>2, ModbusAssumption DEF ModbusInv, MutexHeld, TypeOK, Conn
      <3> QED
        BY <1>1, <2>2, <3>1 DEF ModbusInv, MutexHeld
    <2> QED
      BY <2>1, <2>2, OneElement DEF Traffic
  <1> QED
    BY <1>1, ModbusInvariant, PTL

-----------------------------------------------------------------------------
(* The console *)

\* No call has overlapped with another, and none has timed out.
Clean == shared = {} /\ TimedOut = {}

Quiet == hand = <<>> /\ wire = <<>> /\ input = <<>>

\* A command on its way, and its echo and prompt on their way back; raw is what
\* has arrived since the call began.
OnItsWay(c, raw) ==
  \/ raw = <<>> /\ hand = <<>> /\ wire = <<>> /\ input \in {<<>>, <<c>>}
  \/ /\ input = <<>>
     /\ \/ raw = <<>> /\ hand = <<>> /\ wire = <<Answer(c), Prompt(c)>>
        \/ raw = <<>> /\ hand = <<Answer(c), Prompt(c)>> /\ wire = <<>>
        \/ raw = <<>> /\ hand = <<Answer(c)>> /\ wire \in {<<>>, <<Prompt(c)>>}
        \/ raw = <<Answer(c)>> /\ hand = <<>> /\ wire \in {<<>>, <<Prompt(c)>>}
        \/ raw = <<Answer(c)>> /\ hand = <<Prompt(c)>> /\ wire = <<>>
        \/ raw = <<Answer(c), Prompt(c)>> /\ hand = <<>> /\ wire = <<>>

\* While every call has had the console to itself, what is under way is of the
\* call in Execute, and nothing is when there is none.
OneAtATime ==
  /\ InExecute = {} => Quiet
  /\ \A c \in InExecute :
       /\ InExecute = {c}
       /\ start[c] <= Len(buf)
       /\ at[c] = "writing" => Quiet /\ Raw(c) = <<>>
       /\ at[c] = "polling" => OnItsWay(c, Raw(c))

ConsoleInv ==
  /\ ConsoleTypeOK
  /\ Clean => OneAtATime
  /\ ~Clean => InExecute \subseteq shared
  /\ \A c \in Call : ended[c] # "none" => at[c] = "done"
  /\ pump # "append" => hand = <<>>
  /\ AnswerIsOwn

-----------------------------------------------------------------------------
(* The least and the largest place in a text *)

Less == {p \in Nat \X Nat : p[1] < p[2]}

LEMMA LessIsWellFounded == IsWellFoundedOn(Less, Nat)
  BY NatLessThanWellFounded DEF OpToRel, Less

LEMMA LeastOf ==
  ASSUME NEW S, S \subseteq Nat, S # {}
  PROVE  \E x \in S : \A y \in S : x <= y
  <1>1. PICK x \in S : \A y \in S : ~(<<y, x>> \in Less)
    BY LessIsWellFounded, WFMin
  <1>2. ASSUME NEW y \in S PROVE x <= y
    <2>1. x \in Nat /\ y \in Nat
      OBVIOUS
    <2>2. <<y, x>> \in Nat \X Nat /\ <<y, x>>[1] = y /\ <<y, x>>[2] = x
      BY <2>1
    <2>3. ~(y < x)
      BY <1>1, <2>2 DEF Less
    <2> QED
      BY <2>1, <2>3
  <1> QED
    BY <1>2

LEMMA LeastPlace ==
  ASSUME NEW S, S \subseteq Nat, S # {}
  PROVE  Min(S) \in S
  BY LeastOf DEF Min

LEMMA LargestPlace ==
  ASSUME NEW n \in Nat, NEW S, S \subseteq 1 .. n, S # {}
  PROVE  Max(S) \in S
  <1> DEFINE T == {n - x : x \in S}
  <1>1. T \subseteq Nat /\ T # {}
    <2>1. \A x \in S : n - x \in Nat
      OBVIOUS
    <2> QED
      BY <2>1
  <1>2. PICK t \in T : \A y \in T : t <= y
    BY <1>1, LeastOf
  <1>3. PICK x \in S : t = n - x
    OBVIOUS
  <1>4. \A y \in S : n - y \in T
    OBVIOUS
  <1>5. \A y \in S : n - x <= n - y
    BY <1>2, <1>3, <1>4
  <1>6. \A y \in S : x >= y
    BY <1>5
  <1> QED
    BY <1>6 DEF Max

LEMMA SubSeqTyped ==
  \A S : \A s \in Seq(S) : \A m, n \in Int :
    1 <= m /\ n <= Len(s) => SubSeq(s, m, n) \in Seq(S)
  <1> SUFFICES ASSUME NEW S, NEW s \in Seq(S), NEW m \in Int, NEW n \in Int,
                      1 <= m, n <= Len(s)
               PROVE  SubSeq(s, m, n) \in Seq(S)
    OBVIOUS
  <1>1. \A i \in m .. n : i \in 1 .. Len(s)
    OBVIOUS
  <1>2. \A i \in m .. n : s[i] \in S
    BY <1>1, ElementOfSeq
  <1> QED
    BY <1>2, SubSeqProperties

LEMMA RawTyped ==
  ASSUME ConsoleTypeOK, NEW c \in Call
  PROVE  Raw(c) \in Seq(Piece)
  BY SubSeqTyped DEF ConsoleTypeOK, Raw

LEMMA ResponseTyped ==
  ASSUME NEW text \in Seq(Piece)
  PROVE  CleanResponse(text) \in Seq(Piece)
  <1>1. CASE Prompts(text) = {}
    BY <1>1 DEF CleanResponse
  <1>2. CASE Prompts(text) # {}
    <2>1. Len(text) \in Nat /\ Prompts(text) \subseteq 1 .. Len(text)
      BY DEF Prompts
    <2>2. Max(Prompts(text)) \in 1 .. Len(text)
      BY <1>2, <2>1, LargestPlace
    <2> QED
      BY <1>2, <2>2, SubSeqTyped DEF CleanResponse
  <1> QED
    BY <1>1, <1>2

LEMMA EmptyTyped == <<>> \in Seq(Piece) /\ <<>> \in Seq(Call)
  BY EmptySeq

-----------------------------------------------------------------------------
(* Every step keeps the types *)

LEMMA ReturnTyped ==
  ASSUME ConsoleTypeOK, NEW c \in Call, NEW category \in Outcome, NEW text \in Seq(Piece),
         Return(c, category, text)
  PROVE  /\ at' \in [Call -> CallPC]
         /\ ended' \in [Call -> Outcome]
         /\ answer' \in [Call -> Seq(Piece)]
  <1>1. "done" \in CallPC
    BY DEF CallPC
  <1>2. /\ at' = [at EXCEPT ![c] = "done"]
        /\ ended' = [ended EXCEPT ![c] = category]
        /\ answer' = [answer EXCEPT ![c] = text]
    BY DEF Return
  <1> QED
    BY <1>1, <1>2 DEF ConsoleTypeOK

LEMMA ConsoleTyped ==
  ASSUME ConsoleTypeOK, [ConsoleNext]_consoleVars
  PROVE  ConsoleTypeOK'
  <1>1. CASE UNCHANGED consoleVars
    BY <1>1 DEF ConsoleTypeOK, consoleVars, callVars, deviceVars, streamVars
  <1>2. CASE Close
    BY <1>2 DEF Close, ConsoleTypeOK, callVars, deviceVars, streamVars
  <1>3. ASSUME NEW c \in Call, IsOnline(c) PROVE ConsoleTypeOK'
    <2>1. CASE open
      <3>1. at' = [at EXCEPT ![c] = "ready"] /\ UNCHANGED <<ended, answer>>
        BY <1>3, <2>1, Zenon DEF IsOnline
      <3>2. at' \in [Call -> CallPC]
        BY <3>1 DEF ConsoleTypeOK, CallPC
      <3> QED
        BY <1>3, <3>1, <3>2 DEF IsOnline, ConsoleTypeOK, deviceVars, streamVars
    <2>2. CASE ~open
      <3>1. Return(c, "DEVICE_STATE", <<>>) /\ "DEVICE_STATE" \in Outcome
        BY <1>3, <2>2 DEF IsOnline, Outcome
      <3>2. /\ at' \in [Call -> CallPC] /\ ended' \in [Call -> Outcome]
            /\ answer' \in [Call -> Seq(Piece)]
        BY <3>1, EmptyTyped, ReturnTyped
      <3> QED
        BY <1>3, <3>2 DEF IsOnline, ConsoleTypeOK, deviceVars, streamVars
    <2> QED
      BY <2>1, <2>2
  <1>4. ASSUME NEW c \in Call, Begin(c) PROVE ConsoleTypeOK'
    <2>1. Len(buf) \in Nat
      BY DEF ConsoleTypeOK
    <2>2. shared' \subseteq Call
      BY <1>4 DEF Begin, ConsoleTypeOK, InExecute
    <2>3. CASE open
      <3>1. /\ start' = [start EXCEPT ![c] = Len(buf)]
            /\ mu' = c
            /\ at' = [at EXCEPT ![c] = "writing"]
            /\ UNCHANGED <<ended, answer>>
        BY <1>4, <2>3, Zenon DEF Begin
      <3>2. start' \in [Call -> Nat] /\ at' \in [Call -> CallPC]
        BY <2>1, <3>1 DEF ConsoleTypeOK, CallPC
      <3> QED
        BY <1>4, <2>2, <3>1, <3>2 DEF Begin, ConsoleTypeOK, deviceVars, streamVars
    <2>4. CASE ~open
      <3>1. Return(c, "PROTOCOL", <<>>) /\ "PROTOCOL" \in Outcome
        BY <1>4, <2>4 DEF Begin, Outcome
      <3>2. /\ at' \in [Call -> CallPC] /\ ended' \in [Call -> Outcome]
            /\ answer' \in [Call -> Seq(Piece)]
        BY <3>1, EmptyTyped, ReturnTyped
      <3> QED
        BY <1>4, <2>4, <3>2 DEF Begin, ConsoleTypeOK, deviceVars, streamVars
    <2> QED
      BY <2>3, <2>4
  <1>5. ASSUME NEW c \in Call, Write(c) PROVE ConsoleTypeOK'
    <2>1. input' \in Seq(Call)
      <3>1. input' = Append(input, c) \/ input' = input
        BY <1>5 DEF Write
      <3>2. input \in Seq(Call) /\ Append(input, c) \in Seq(Call)
        BY DEF ConsoleTypeOK
      <3> QED
        BY <3>1, <3>2
    <2>2. CASE at' = [at EXCEPT ![c] = "polling"] /\ UNCHANGED <<ended, answer>>
      BY <1>5, <2>1, <2>2 DEF Write, ConsoleTypeOK, CallPC, streamVars
    <2>3. CASE Return(c, "PROTOCOL", <<>>)
      <3>1. "PROTOCOL" \in Outcome
        BY DEF Outcome
      <3>2. /\ at' \in [Call -> CallPC] /\ ended' \in [Call -> Outcome]
            /\ answer' \in [Call -> Seq(Piece)]
        BY <2>3, <3>1, EmptyTyped, ReturnTyped
      <3> QED
        BY <1>5, <2>1, <3>2 DEF Write, ConsoleTypeOK, streamVars
    <2> QED
      BY <1>5, <2>2, <2>3 DEF Write
  <1>6. ASSUME NEW c \in Call, Answered(c) PROVE ConsoleTypeOK'
    <2>1. CleanResponse(Raw(c)) \in Seq(Piece)
      BY RawTyped, ResponseTyped
    <2> QED
      BY <1>6, <2>1 DEF Answered, Return, ConsoleTypeOK, CallPC, Outcome,
         deviceVars, streamVars
  <1>7. ASSUME NEW c \in Call, Expire(c) PROVE ConsoleTypeOK'
    BY <1>7, RawTyped DEF Expire, Return, ConsoleTypeOK, CallPC, Outcome,
       deviceVars, streamVars
  <1>8. CASE PumpRead
    <2>1. \A n \in DOMAIN wire :
            SubSeq(wire, 1, n) \in Seq(Piece) /\ SubSeq(wire, n + 1, Len(wire)) \in Seq(Piece)
      <3> SUFFICES ASSUME NEW n \in DOMAIN wire
                   PROVE  /\ SubSeq(wire, 1, n) \in Seq(Piece)
                          /\ SubSeq(wire, n + 1, Len(wire)) \in Seq(Piece)
        OBVIOUS
      <3>1. wire \in Seq(Piece) /\ Len(wire) \in Nat /\ n \in 1 .. Len(wire)
        BY DEF ConsoleTypeOK
      <3> QED
        BY <3>1, SubSeqTyped
    <2>2. wire' \in Seq(Piece) /\ hand' \in Seq(Piece)
      BY <1>8, <2>1 DEF PumpRead, ConsoleTypeOK
    <2> QED
      BY <1>8, <2>2 DEF PumpRead, ConsoleTypeOK, callVars, streamVars
  <1>9. CASE PumpAppend
    <2>1. buf' \in Seq(Piece)
      BY <1>9 DEF PumpAppend, ConsoleTypeOK
    <2>2. \A s \in Stream : Append(ch[s], hand) \in Seq(Seq(Piece))
      BY DEF ConsoleTypeOK
    <2>3. ch' \in [Stream -> Seq(Seq(Piece))]
      BY <1>9, <2>2 DEF PumpAppend, ConsoleTypeOK
    <2>4. dropped' \in [Stream -> BOOLEAN]
      <3>1. \A s \in Stream : (dropped[s] \/ (s \in Subscribed /\ Full(s))) \in BOOLEAN
        BY DEF ConsoleTypeOK, Full
      <3> QED
        BY <1>9, <3>1 DEF PumpAppend
    <2> QED
      BY <1>9, <2>1, <2>3, <2>4 DEF PumpAppend, ConsoleTypeOK, callVars, deviceVars
  <1>10. ASSUME NEW s \in Stream, OpenStream(s) PROVE ConsoleTypeOK'
    <2>1. Len(buf) \in Nat
      BY DEF ConsoleTypeOK
    <2> QED
      BY <1>10, <2>1 DEF OpenStream, ConsoleTypeOK, callVars, deviceVars
  <1>11. ASSUME NEW s \in Stream, CloseStream(s) PROVE ConsoleTypeOK'
    BY <1>11 DEF CloseStream, ConsoleTypeOK, callVars, deviceVars
  <1>12. ASSUME NEW s \in Stream, ReadCheck(s) PROVE ConsoleTypeOK'
    <2>1. CASE LineEnds(pending[s]) # {}
      <3> DEFINE end == Min(LineEnds(pending[s]))
      <3>1. pending[s] \in Seq(Piece) /\ Len(pending[s]) \in Nat
        BY DEF ConsoleTypeOK
      <3>2. LineEnds(pending[s]) \subseteq 1 .. Len(pending[s])
        BY <3>1 DEF LineEnds
      <3>3. end \in 1 .. Len(pending[s])
        BY <2>1, <3>2, LeastPlace
      <3> HIDE DEF end
      <3>4. /\ SubSeq(pending[s], 1, end) \in Seq(Piece)
            /\ SubSeq(pending[s], end + 1, Len(pending[s])) \in Seq(Piece)
        BY <3>1, <3>3, SubSeqTyped
      <3>5. /\ lines' = [lines EXCEPT ![s] = Append(@, SubSeq(pending[s], 1, end))]
            /\ pending' = [pending EXCEPT ![s] = SubSeq(@, end + 1, Len(@))]
            /\ UNCHANGED reader
        BY <1>12, <2>1 DEF ReadCheck, end
      <3>6. lines[s] \in Seq(Seq(Piece))
        BY DEF ConsoleTypeOK
      <3>7. Append(lines[s], SubSeq(pending[s], 1, end)) \in Seq(Seq(Piece))
        BY <3>4, <3>6
      <3>8. lines' \in [Stream -> Seq(Seq(Piece))]
        BY <3>5, <3>7 DEF ConsoleTypeOK
      <3>9. pending' \in [Stream -> Seq(Piece)]
        BY <3>4, <3>5 DEF ConsoleTypeOK
      <3> QED
        BY <1>12, <3>5, <3>8, <3>9 DEF ReadCheck, ConsoleTypeOK, callVars, deviceVars
    <2>2. CASE LineEnds(pending[s]) = {}
      BY <1>12, <2>2 DEF ReadCheck, ConsoleTypeOK, callVars, deviceVars
    <2> QED
      BY <2>1, <2>2
  <1>13. ASSUME NEW s \in Stream, Take(s) PROVE ConsoleTypeOK'
    <2>1. /\ ch[s] \in Seq(Seq(Piece)) /\ ch[s] # <<>>
          /\ pending[s] \in Seq(Piece)
      BY <1>13 DEF Take, ConsoleTypeOK
    <2>2. Head(ch[s]) \in Seq(Piece) /\ Tail(ch[s]) \in Seq(Seq(Piece))
      BY <2>1
    <2>3. pending[s] \o Head(ch[s]) \in Seq(Piece)
      BY <2>1, <2>2
    <2> QED
      BY <1>13, <2>2, <2>3 DEF Take, ConsoleTypeOK, callVars, deviceVars
  <1>14. CASE Respond
    <2>1. input \in Seq(Call) /\ input # <<>> /\ wire \in Seq(Piece)
      BY <1>14 DEF Respond, ConsoleTypeOK
    <2>2. Head(input) \in Call /\ Tail(input) \in Seq(Call)
      BY <2>1
    <2>3. <<Answer(Head(input)), Prompt(Head(input))>> \in Seq(Piece)
      BY <2>2 DEF Piece
    <2>4. wire' \in Seq(Piece)
      BY <1>14, <2>1, <2>3 DEF Respond
    <2> QED
      BY <1>14, <2>2, <2>4 DEF Respond, ConsoleTypeOK, callVars, streamVars
  <1>15. CASE Die
    BY <1>15, EmptyTyped DEF Die, ConsoleTypeOK, callVars, streamVars
  <1> QED
    BY <1>1, <1>2, <1>3, <1>4, <1>5, <1>6, <1>7, <1>8, <1>9, <1>10, <1>11, <1>12, <1>13,
       <1>14, <1>15 DEF ConsoleNext, ExecuteStep, PumpStep, ReadStep

-----------------------------------------------------------------------------
(* The calls and the pump keep the console in order *)

LEMMA Undisturbed ==
  ASSUME ConsoleInv, ConsoleTypeOK',
         UNCHANGED <<buf, pump, hand, start, input, wire, at, ended, answer, shared>>
  PROVE  ConsoleInv'
  <1>1. InExecute' = InExecute /\ Clean' = Clean
    BY DEF InExecute, Clean, TimedOut
  <1>2. \A c : Raw(c)' = Raw(c)
    BY DEF Raw
  <1>3. OneAtATime => OneAtATime'
    BY <1>1, <1>2 DEF OneAtATime, Quiet, OnItsWay
  <1>4. AnswerIsOwn'
    BY DEF ConsoleInv, AnswerIsOwn
  <1> QED
    BY <1>1, <1>3, <1>4 DEF ConsoleInv

\* A call that returns leaves the console as if it had not been there, if it had
\* it to itself and has not timed out.
LEMMA ReturnKeepsOrder ==
  ASSUME ConsoleInv, ConsoleTypeOK',
         NEW c \in Call, at[c] # "done",
         NEW category \in Outcome \ {"none"}, NEW text,
         Return(c, category, text),
         UNCHANGED <<buf, pump, hand, start, input, wire, shared>>,
         category = "ok" /\ c \notin shared => text = <<Answer(c)>>,
         category = "partial" => c \in InExecute,
         Clean /\ c \in InExecute /\ category # "partial" => Quiet
  PROVE  ConsoleInv'
  <1>1. /\ ended[c] = "none"
        /\ at'[c] = "done" /\ \A d \in Call \ {c} : at'[d] = at[d]
        /\ ended'[c] = category /\ \A d \in Call \ {c} : ended'[d] = ended[d]
        /\ answer'[c] = text /\ \A d \in Call \ {c} : answer'[d] = answer[d]
    BY DEF ConsoleInv, ConsoleTypeOK, Return
  <1>2. InExecute' = InExecute \ {c}
    BY <1>1 DEF InExecute
  <1>3. TimedOut' = IF category = "partial" THEN TimedOut \cup {c} ELSE TimedOut
    BY <1>1 DEF TimedOut
  <1>4. ASSUME Clean' PROVE OneAtATime'
    <2>1. Clean /\ category # "partial"
      BY <1>3, <1>4 DEF Clean
    <2>2. OneAtATime
      BY <2>1 DEF ConsoleInv
    <2>3. CASE c \in InExecute
      <3>1. InExecute' = {} /\ Quiet
        BY <1>2, <2>1, <2>2, <2>3 DEF OneAtATime
      <3> QED
        BY <3>1 DEF OneAtATime, Quiet
    <2>4. CASE c \notin InExecute
      <3>1. InExecute' = InExecute /\ \A d \in InExecute : at'[d] = at[d] /\ Raw(d)' = Raw(d)
        BY <1>1, <1>2, <2>4 DEF InExecute, Raw
      <3>2. Quiet' = Quiet /\ \A d \in InExecute : OnItsWay(d, Raw(d))' = OnItsWay(d, Raw(d))
        BY <3>1 DEF Quiet, OnItsWay
      <3> QED
        BY <2>2, <3>1, <3>2 DEF OneAtATime
    <2> QED
      BY <2>3, <2>4
  <1>5. ASSUME ~Clean' PROVE InExecute' \subseteq shared'
    <2>1. CASE ~Clean
      BY <1>2, <2>1 DEF ConsoleInv
    <2>2. CASE Clean
      <3>1. category = "partial"
        BY <1>3, <1>5, <2>2 DEF Clean
      <3>2. InExecute = {c}
        BY <2>2, <3>1 DEF ConsoleInv, OneAtATime
      <3> QED
        BY <1>2, <3>2
    <2> QED
      BY <2>1, <2>2
  <1>6. \A d \in Call : ended'[d] # "none" => at'[d] = "done"
    BY <1>1 DEF ConsoleInv
  <1>7. AnswerIsOwn'
    <2> SUFFICES ASSUME NEW d \in Call, d \notin shared, ended'[d] = "ok"
                 PROVE  answer'[d] = <<Answer(d)>>
      BY DEF AnswerIsOwn, Answer
    <2>1. CASE d = c
      BY <1>1, <2>1
    <2>2. CASE d # c
      BY <1>1, <2>2 DEF ConsoleInv, AnswerIsOwn
    <2> QED
      BY <2>1, <2>2
  <1> QED
    BY <1>4, <1>5, <1>6, <1>7 DEF ConsoleInv

\* The parts of texts of one and two pieces.
LEMMA ShortTexts ==
  ASSUME NEW x, NEW y
  PROVE  /\ SubSeq(<<x>>, 1, 1) = <<x>> /\ SubSeq(<<x>>, 2, 1) = <<>>
         /\ SubSeq(<<x, y>>, 1, 1) = <<x>> /\ SubSeq(<<x, y>>, 2, 2) = <<y>>
         /\ SubSeq(<<x, y>>, 1, 2) = <<x, y>> /\ SubSeq(<<x, y>>, 3, 2) = <<>>
         /\ <<x>> \o <<y>> = <<x, y>>
  <1> DEFINE s == <<x>>
             t == <<x, y>>
             u == <<y>>
             S == {x, y}
  <1>1. /\ s \in Seq(S) /\ t \in Seq(S) /\ u \in Seq(S)
        /\ Len(s) = 1 /\ Len(t) = 2 /\ Len(u) = 1
        /\ s[1] = x /\ t[1] = x /\ t[2] = y /\ u[1] = y
    OBVIOUS
  <1> HIDE DEF s, t, u, S
  <1>2. SubSeq(s, 1, 1) = s /\ SubSeq(t, 1, 2) = t
    BY <1>1, SubSeqFull
  <1>3. SubSeq(s, 2, 1) = <<>> /\ SubSeq(t, 3, 2) = <<>>
    BY SubSeqEmpty
  <1>4. SubSeq(t, 1, 1) = s
    <2>1. /\ SubSeq(t, 1, 1) \in Seq(S) /\ Len(SubSeq(t, 1, 1)) = 1
          /\ SubSeq(t, 1, 1)[1] = t[1]
      BY <1>1, SubSeqProperties
    <2> QED
      BY <1>1, <2>1, SeqEqual
  <1>5. SubSeq(t, 2, 2) = u
    <2>1. /\ SubSeq(t, 2, 2) \in Seq(S) /\ Len(SubSeq(t, 2, 2)) = 1
          /\ SubSeq(t, 2, 2)[1] = t[2]
      BY <1>1, SubSeqProperties
    <2> QED
      BY <1>1, <2>1, SeqEqual
  <1>6. s \o u = t
    <2>1. /\ s \o u \in Seq(S) /\ Len(s \o u) = 2
          /\ (s \o u)[1] = x /\ (s \o u)[2] = y
      BY <1>1, ConcatProperties
    <2> QED
      BY <1>1, <2>1, SeqEqual
  <1> QED
    BY <1>2, <1>3, <1>4, <1>5, <1>6 DEF s, t, u

LEMMA PiecesDiffer ==
  ASSUME NEW c \in Call
  PROVE  /\ Prompts(<<>>) = {}
         /\ Prompts(<<Answer(c)>>) = {}
         /\ CleanResponse(<<Answer(c), Prompt(c)>>) = <<Answer(c)>>
  <1>1. Answer(c).kind = "answer" /\ Prompt(c).kind = "prompt"
    BY DEF Answer, Prompt
  <1> DEFINE text == <<Answer(c), Prompt(c)>>
  <1>2. DOMAIN text = {1, 2} /\ text[1] = Answer(c) /\ text[2] = Prompt(c)
    OBVIOUS
  <1>3. Prompts(text) = {2}
    BY <1>1, <1>2 DEF Prompts
  <1>4. Max({2}) = 2
    BY DEF Max
  <1>5. SubSeq(text, 1, 1) = <<Answer(c)>>
    BY ShortTexts
  <1>6. Prompts(<<Answer(c)>>) = {}
    BY <1>1 DEF Prompts
  <1>7. Prompts(<<>>) = {}
    BY DEF Prompts
  <1> HIDE DEF text
  <1>8. CleanResponse(text) = SubSeq(text, 1, 1)
    BY <1>3, <1>4 DEF CleanResponse
  <1> QED
    BY <1>5, <1>6, <1>7, <1>8 DEF text

LEMMA IsOnlineKeepsOrder ==
  ASSUME ConsoleInv, ConsoleTypeOK', NEW c \in Call, IsOnline(c)
  PROVE  ConsoleInv'
  <1>1. CASE Return(c, "DEVICE_STATE", <<>>)
    <2>1. at[c] = "idle" /\ c \notin InExecute
      BY DEF IsOnline, InExecute
    <2>2. "DEVICE_STATE" \in Outcome \ {"none"}
      BY DEF Outcome
    <2>3. UNCHANGED <<buf, pump, hand, start, input, wire, shared>>
      BY DEF IsOnline, deviceVars
    <2> QED
      BY <1>1, <2>1, <2>2, <2>3, ReturnKeepsOrder
  <1>2. CASE at' = [at EXCEPT ![c] = "ready"] /\ UNCHANGED <<ended, answer>>
    <2>1. UNCHANGED <<buf, pump, hand, start, input, wire, shared, ended, answer>>
      BY <1>2 DEF IsOnline, deviceVars
    <2>2. at[c] = "idle" /\ at'[c] = "ready" /\ \A d \in Call \ {c} : at'[d] = at[d]
      BY <1>2 DEF IsOnline, ConsoleInv, ConsoleTypeOK
    <2>3. InExecute' = InExecute /\ Clean' = Clean
      BY <2>1, <2>2 DEF InExecute, Clean, TimedOut
    <2>4. \A d : Raw(d)' = Raw(d)
      BY <2>1 DEF Raw
    <2>5. \A d \in InExecute : at'[d] = at[d]
      BY <2>2 DEF InExecute
    <2>6. Quiet' = Quiet /\ \A d : OnItsWay(d, Raw(d))' = OnItsWay(d, Raw(d))
      BY <2>1, <2>4 DEF Quiet, OnItsWay
    <2>7. OneAtATime => OneAtATime'
      BY <2>1, <2>3, <2>4, <2>5, <2>6 DEF OneAtATime
    <2>8. AnswerIsOwn'
      BY <2>1 DEF ConsoleInv, AnswerIsOwn
    <2>9. \A d \in Call : ended'[d] # "none" => at'[d] = "done"
      BY <2>1, <2>2 DEF ConsoleInv
    <2> QED
      BY <2>1, <2>3, <2>7, <2>8, <2>9 DEF ConsoleInv
  <1> QED
    BY <1>1, <1>2 DEF IsOnline

LEMMA BeginKeepsOrder ==
  ASSUME ConsoleInv, ConsoleTypeOK', NEW c \in Call, Begin(c)
  PROVE  ConsoleInv'
  <1>0. at[c] \in {"idle", "ready"} /\ c \notin InExecute
    BY DEF Begin, InExecute
  <1>1. UNCHANGED <<buf, pump, hand, input, wire>>
    BY DEF Begin, deviceVars
  <1>2. CASE ~open
    <2>1. Return(c, "PROTOCOL", <<>>) /\ UNCHANGED <<mu, start, shared>>
      BY <1>2, Zenon DEF Begin
    <2>2. "PROTOCOL" \in Outcome \ {"none"}
      BY DEF Outcome
    <2> QED
      BY <1>0, <1>1, <2>1, <2>2, ReturnKeepsOrder
  <1>3. CASE open
    <2>1. /\ start' = [start EXCEPT ![c] = Len(buf)]
          /\ at' = [at EXCEPT ![c] = "writing"]
          /\ shared' = shared \cup (IF InExecute = {} THEN {} ELSE InExecute \cup {c})
                              \cup (IF TimedOut \cup shared = {} THEN {} ELSE {c})
          /\ UNCHANGED <<ended, answer>>
      BY <1>3, Zenon DEF Begin
    <2>2. /\ start'[c] = Len(buf) /\ \A d \in Call \ {c} : start'[d] = start[d]
          /\ at'[c] = "writing" /\ \A d \in Call \ {c} : at'[d] = at[d]
      BY <2>1 DEF ConsoleInv, ConsoleTypeOK
    <2>3. InExecute' = InExecute \cup {c}
      BY <2>2 DEF InExecute
    <2>4. TimedOut' = TimedOut
      BY <2>1 DEF TimedOut
    <2>5. ASSUME Clean' PROVE OneAtATime'
      <3>1. shared = {} /\ TimedOut = {} /\ InExecute = {}
        BY <2>1, <2>4, <2>5 DEF Clean
      <3>2. Quiet /\ InExecute' = {c}
        BY <2>3, <3>1 DEF ConsoleInv, OneAtATime, Clean
      <3>3. Len(buf) \in Nat
        BY DEF ConsoleInv, ConsoleTypeOK
      <3>4. Raw(c)' = SubSeq(buf, Len(buf) + 1, Len(buf))
        BY <1>1, <2>2 DEF Raw
      <3>5. Raw(c)' = <<>>
        BY <3>3, <3>4, SubSeqEmpty
      <3>6. Quiet'
        BY <1>1, <3>2 DEF Quiet
      <3> QED
        BY <1>1, <2>2, <3>2, <3>3, <3>5, <3>6 DEF OneAtATime
    <2>6. ASSUME ~Clean' PROVE InExecute' \subseteq shared'
      <3>1. CASE Clean
        BY <2>1, <2>3, <2>4, <2>6, <3>1 DEF Clean
      <3>2. CASE ~Clean
        <4>1. TimedOut \cup shared # {} /\ InExecute \subseteq shared
          BY <3>2 DEF Clean, ConsoleInv
        <4> QED
          BY <2>1, <2>3, <4>1
      <3> QED
        BY <3>1, <3>2
    <2>7. \A d \in Call : ended'[d] # "none" => at'[d] = "done"
      BY <1>0, <2>1, <2>2 DEF ConsoleInv
    <2>8. AnswerIsOwn'
      <3>1. shared \subseteq shared'
        BY <2>1
      <3> QED
        BY <2>1, <3>1 DEF ConsoleInv, AnswerIsOwn, Answer
    <2> QED
      BY <1>1, <2>5, <2>6, <2>7, <2>8 DEF ConsoleInv
  <1> QED
    BY <1>2, <1>3

LEMMA WriteKeepsOrder ==
  ASSUME ConsoleInv, ConsoleTypeOK', NEW c \in Call, Write(c)
  PROVE  ConsoleInv'
  <1>1. at[c] = "writing" /\ c \in InExecute
    BY DEF Write, InExecute
  <1>2. UNCHANGED <<buf, pump, hand, start, wire, shared>>
    BY DEF Write
  <1>3. CASE at' = [at EXCEPT ![c] = "polling"] /\ UNCHANGED <<ended, answer>>
    <2>1. at'[c] = "polling" /\ \A d \in Call \ {c} : at'[d] = at[d]
      BY <1>3 DEF ConsoleInv, ConsoleTypeOK
    <2>2. InExecute' = InExecute /\ Clean' = Clean
      BY <1>1, <1>2, <1>3, <2>1 DEF InExecute, Clean, TimedOut
    <2>3. ASSUME Clean PROVE OneAtATime'
      <3>1. InExecute = {c} /\ start[c] <= Len(buf) /\ Quiet /\ Raw(c) = <<>>
        BY <1>1, <2>3 DEF ConsoleInv, OneAtATime
      <3>2. input' = <<>> \/ input' = <<c>>
        <4>1. input = <<>>
          BY <3>1 DEF Quiet
        <4>2. input' = input \/ input' = Append(input, c)
          BY DEF Write
        <4>3. Append(<<>>, c) = <<c>>
          OBVIOUS
        <4> QED
          BY <4>1, <4>2, <4>3
      <3>3. Raw(c)' = <<>>
        BY <1>2, <3>1 DEF Raw
      <3>4. OnItsWay(c, Raw(c))'
        BY <1>2, <3>1, <3>2, <3>3 DEF OnItsWay, Quiet
      <3> QED
        BY <1>2, <2>1, <2>2, <3>1, <3>4 DEF OneAtATime
    <2>4. \A d \in Call : ended'[d] # "none" => at'[d] = "done"
      BY <1>1, <1>3, <2>1 DEF ConsoleInv
    <2>5. AnswerIsOwn'
      BY <1>2, <1>3 DEF ConsoleInv, AnswerIsOwn
    <2> QED
      BY <1>2, <2>2, <2>3, <2>4, <2>5 DEF ConsoleInv
  <1>4. CASE Return(c, "PROTOCOL", <<>>) /\ UNCHANGED input
    <2>1. "PROTOCOL" \in Outcome \ {"none"}
      BY DEF Outcome
    <2>2. Clean => Quiet
      BY <1>1 DEF ConsoleInv, OneAtATime
    <2> QED
      BY <1>1, <1>2, <1>4, <2>1, <2>2, ReturnKeepsOrder
  <1> QED
    BY <1>3, <1>4 DEF Write

LEMMA AnsweredKeepsOrder ==
  ASSUME ConsoleInv, ConsoleTypeOK', NEW c \in Call, Answered(c)
  PROVE  ConsoleInv'
  <1>1. at[c] = "polling" /\ c \in InExecute /\ Prompts(Raw(c)) # {}
    BY DEF Answered, InExecute
  <1>2. UNCHANGED <<buf, pump, hand, start, input, wire, shared>>
    BY DEF Answered, deviceVars
  <1>3. Return(c, "ok", CleanResponse(Raw(c))) /\ "ok" \in Outcome \ {"none"}
    BY DEF Answered, Outcome
  <1>4. ASSUME Clean PROVE Quiet /\ Raw(c) = <<Answer(c), Prompt(c)>>
    <2>1. OnItsWay(c, Raw(c))
      BY <1>1, <1>4 DEF ConsoleInv, OneAtATime
    <2>2. Raw(c) # <<>> /\ Raw(c) # <<Answer(c)>>
      BY <1>1, PiecesDiffer
    <2> QED
      BY <2>1, <2>2 DEF OnItsWay, Quiet
  <1>5. c \notin shared => CleanResponse(Raw(c)) = <<Answer(c)>>
    BY <1>1, <1>4, PiecesDiffer DEF ConsoleInv
  <1> QED
    BY <1>1, <1>2, <1>3, <1>4, <1>5, ReturnKeepsOrder

LEMMA ExpireKeepsOrder ==
  ASSUME ConsoleInv, ConsoleTypeOK', NEW c \in Call, Expire(c)
  PROVE  ConsoleInv'
  <1>1. at[c] = "polling" /\ c \in InExecute
    BY DEF Expire, InExecute
  <1>2. UNCHANGED <<buf, pump, hand, start, input, wire, shared>>
    BY DEF Expire, deviceVars
  <1>3. Return(c, "partial", Raw(c)) /\ "partial" \in Outcome \ {"none"}
    BY DEF Expire, Outcome
  <1> QED
    BY <1>1, <1>2, <1>3, ReturnKeepsOrder

\* What the pump appends is what has arrived since, for a call that began before.
LEMMA SuffixGrows ==
  ASSUME NEW S, NEW b \in Seq(S), NEW h \in Seq(S), NEW k \in Nat, k <= Len(b)
  PROVE  SubSeq(b \o h, k + 1, Len(b \o h)) = SubSeq(b, k + 1, Len(b)) \o h
  <1> DEFINE all == b \o h
             m == Len(b)
             n == Len(b) + Len(h)
  <1>1. /\ all \in Seq(S) /\ Len(all) = n /\ m \in Nat /\ n \in Nat /\ m <= n
        /\ Len(h) \in Nat /\ n = m + Len(h)
    BY ConcatProperties
  <1>2. SubSeq(all, m + 1, n) = h
    <2>1. CASE Len(h) = 0
      <3>1. h = <<>>
        BY <2>1, EmptySeq
      <3>2. SubSeq(all, m + 1, n) = <<>>
        BY <1>1, <2>1, SubSeqEmpty
      <3> QED
        BY <3>1, <3>2
    <2>2. CASE Len(h) # 0
      BY <1>1, <2>2, SubSeqOfConcat2, SubSeqFull
    <2> QED
      BY <2>1, <2>2
  <1>3. SubSeq(all, k + 1, m) = SubSeq(b, k + 1, m)
    <2>1. CASE k = m
      BY <1>1, <2>1, SubSeqEmpty
    <2>2. CASE k # m
      <3>1. k + 1 \in 1 .. Len(b) /\ m \in 1 .. Len(b)
        BY <1>1, <2>2
      <3> QED
        BY <3>1, SubSeqOfConcat1
    <2> QED
      BY <2>1, <2>2
  <1>4. SubSeq(all, k + 1, m) \o SubSeq(all, m + 1, n) = SubSeq(all, k + 1, n)
    <2>1. k + 1 \in 1 .. n + 1 /\ m \in (k + 1) - 1 .. n /\ n \in m .. n
      BY <1>1
    <2> HIDE DEF all, m, n
    <2> QED
      BY <1>1, <2>1, ConcatAdjacentSubSeq
  <1> QED
    BY <1>1, <1>2, <1>3, <1>4

LEMMA RawGrows ==
  ASSUME ConsoleTypeOK, NEW c \in Call, start[c] <= Len(buf), start' = start, buf' = buf \o hand
  PROVE  Raw(c)' = Raw(c) \o hand
  <1>1. buf \in Seq(Piece) /\ hand \in Seq(Piece) /\ start[c] \in Nat
    BY DEF ConsoleTypeOK
  <1>2. Raw(c)' = SubSeq(buf \o hand, start[c] + 1, Len(buf \o hand))
    BY DEF Raw
  <1> QED
    BY <1>1, <1>2, SuffixGrows DEF Raw

\* A step of the pump or of the device: what is on its way moves on.
LEMMA MovesOn ==
  ASSUME ConsoleInv, ConsoleTypeOK', UNCHANGED callVars,
         Clean => OneAtATime', pump' # "append" => hand' = <<>>
  PROVE  ConsoleInv'
  <1>1. InExecute' = InExecute /\ Clean' = Clean
    BY DEF callVars, InExecute, Clean, TimedOut
  <1>2. AnswerIsOwn'
    BY DEF ConsoleInv, AnswerIsOwn, callVars
  <1> QED
    BY <1>1, <1>2 DEF ConsoleInv, callVars

LEMMA PumpReadKeepsOrder ==
  ASSUME ConsoleInv, ConsoleTypeOK', PumpRead
  PROVE  ConsoleInv'
  <1>1. UNCHANGED callVars /\ UNCHANGED <<buf, input>> /\ pump = "read"
    BY DEF PumpRead
  <1>2. hand = <<>>
    BY <1>1 DEF ConsoleInv
  <1>3. \A c : Raw(c)' = Raw(c)
    BY <1>1 DEF Raw, callVars
  <1>4. InExecute' = InExecute
    BY <1>1 DEF InExecute, callVars
  <1>5. CASE wire # <<>> /\ pump' = "append"
             /\ \E n \in DOMAIN wire : /\ hand' = SubSeq(wire, 1, n)
                                       /\ wire' = SubSeq(wire, n + 1, Len(wire))
    <2>1. ASSUME Clean PROVE OneAtATime'
      <3>1. OneAtATime /\ InExecute # {}
        BY <1>5, <2>1 DEF ConsoleInv, OneAtATime, Quiet
      <3>2. PICK c \in InExecute : InExecute = {c}
        BY <3>1 DEF OneAtATime
      <3>3. start[c] <= Len(buf) /\ at[c] = "polling" /\ OnItsWay(c, Raw(c))
        BY <1>5, <3>1 DEF OneAtATime, InExecute, Quiet
      <3>4. PICK n \in DOMAIN wire : hand' = SubSeq(wire, 1, n)
                                     /\ wire' = SubSeq(wire, n + 1, Len(wire))
        BY <1>5
      <3>5. /\ input = <<>>
            /\ \/ Raw(c) = <<>> /\ wire = <<Answer(c), Prompt(c)>>
               \/ Raw(c) = <<Answer(c)>> /\ wire = <<Prompt(c)>>
        BY <1>2, <1>5, <3>3 DEF OnItsWay
      <3>6. OnItsWay(c, Raw(c))'
        <4>1. CASE Raw(c) = <<>> /\ wire = <<Answer(c), Prompt(c)>>
          <5>1. Len(wire) = 2 /\ n \in {1, 2}
            BY <3>4, <4>1
          <5>2. \/ hand' = <<Answer(c)>> /\ wire' = <<Prompt(c)>>
                \/ hand' = <<Answer(c), Prompt(c)>> /\ wire' = <<>>
            <6>1. /\ SubSeq(wire, 1, 1) = <<Answer(c)>> /\ SubSeq(wire, 2, 2) = <<Prompt(c)>>
                  /\ SubSeq(wire, 1, 2) = <<Answer(c), Prompt(c)>> /\ SubSeq(wire, 3, 2) = <<>>
              BY <4>1, ShortTexts, Zenon
            <6>2. CASE n = 1
              BY <3>4, <5>1, <6>1, <6>2
            <6>3. CASE n = 2
              BY <3>4, <5>1, <6>1, <6>3
            <6> QED
              BY <5>1, <6>2, <6>3
          <5> QED
            BY <1>1, <1>3, <3>5, <4>1, <5>2 DEF OnItsWay
        <4>2. CASE Raw(c) = <<Answer(c)>> /\ wire = <<Prompt(c)>>
          <5>1. Len(wire) = 1 /\ n = 1
            BY <3>4, <4>2
          <5>2. hand' = <<Prompt(c)>> /\ wire' = <<>>
            <6>1. SubSeq(wire, 1, 1) = <<Prompt(c)>> /\ SubSeq(wire, 2, 1) = <<>>
              BY <4>2, ShortTexts, Zenon
            <6> QED
              BY <3>4, <5>1, <6>1
          <5> QED
            BY <1>1, <1>3, <3>5, <4>2, <5>2 DEF OnItsWay
        <4> QED
          BY <3>5, <4>1, <4>2
      <3> QED
        BY <1>1, <1>4, <3>2, <3>3, <3>6 DEF OneAtATime, callVars
    <2> QED
      BY <1>1, <1>5, <2>1, MovesOn
  <1>6. CASE pump' = "ended" /\ UNCHANGED <<hand, wire>>
    <2>1. OneAtATime => OneAtATime'
      BY <1>1, <1>3, <1>4, <1>6 DEF OneAtATime, Quiet, OnItsWay, callVars
    <2> QED
      BY <1>1, <1>2, <1>6, <2>1, MovesOn DEF ConsoleInv
  <1> QED
    BY <1>5, <1>6 DEF PumpRead

LEMMA PumpAppendKeepsOrder ==
  ASSUME ConsoleInv, ConsoleTypeOK', PumpAppend
  PROVE  ConsoleInv'
  <1>1. UNCHANGED callVars /\ UNCHANGED <<input, wire>> /\ hand' = <<>> /\ buf' = buf \o hand
    BY DEF PumpAppend, deviceVars
  <1>2. InExecute' = InExecute
    BY <1>1 DEF InExecute, callVars
  <1>3. ASSUME Clean PROVE OneAtATime'
    <2>1. OneAtATime
      BY <1>3 DEF ConsoleInv
    <2>2. CASE InExecute = {}
      BY <1>1, <1>2, <2>1, <2>2 DEF OneAtATime, Quiet
    <2>3. CASE InExecute # {}
      <3>1. PICK c \in InExecute : InExecute = {c}
        BY <2>1, <2>3 DEF OneAtATime
      <3>2. c \in Call /\ start[c] <= Len(buf) /\ start' = start /\ at' = at
        BY <1>1, <2>1 DEF OneAtATime, InExecute, callVars
      <3>3. Raw(c)' = Raw(c) \o hand
        BY <1>1, <3>2, RawGrows DEF ConsoleInv
      <3>4. start'[c] <= Len(buf')
        <4>1. Len(buf') = Len(buf) + Len(hand) /\ Len(buf) \in Nat /\ Len(hand) \in Nat
              /\ start[c] \in Nat
          BY <1>1, <3>2 DEF ConsoleInv, ConsoleTypeOK
        <4> QED
          BY <3>2, <4>1
      <3>5. CASE at[c] = "writing"
        <4>1. Quiet /\ Raw(c) = <<>>
          BY <2>1, <3>5 DEF OneAtATime
        <4>2. Quiet' /\ Raw(c)' = <<>>
          BY <1>1, <3>3, <4>1 DEF Quiet
        <4> QED
          BY <1>2, <3>1, <3>2, <3>4, <3>5, <4>2 DEF OneAtATime
      <3>6. CASE at[c] = "polling"
        <4>1. OnItsWay(c, Raw(c))
          BY <2>1, <3>6 DEF OneAtATime
        <4>2. CASE hand = <<>>
          <5>1. Raw(c) \in Seq(Piece)
            BY <3>2, RawTyped DEF ConsoleInv
          <5>2. Raw(c)' = Raw(c)
            BY <3>3, <4>2, <5>1, ConcatEmptySeq
          <5> QED
            BY <1>1, <1>2, <3>1, <3>2, <3>4, <3>6, <4>1, <4>2, <5>2 DEF OneAtATime,
               OnItsWay
        <4>3. CASE hand # <<>>
          <5>1. /\ input = <<>>
                /\ \/ Raw(c) = <<>> /\ hand = <<Answer(c), Prompt(c)>> /\ wire = <<>>
                   \/ Raw(c) = <<>> /\ hand = <<Answer(c)>> /\ wire \in {<<>>, <<Prompt(c)>>}
                   \/ Raw(c) = <<Answer(c)>> /\ hand = <<Prompt(c)>> /\ wire = <<>>
            BY <4>1, <4>3 DEF OnItsWay
          <5>2. <<Answer(c)>> \o <<Prompt(c)>> = <<Answer(c), Prompt(c)>>
            BY ShortTexts, Zenon
          <5>3. \A h \in Seq(Piece) : <<>> \o h = h
            BY ConcatEmptySeq
          <5>4. hand \in Seq(Piece)
            BY DEF ConsoleInv, ConsoleTypeOK
          <5>5. \/ Raw(c)' = <<Answer(c), Prompt(c)>> /\ wire = <<>>
                \/ Raw(c)' = <<Answer(c)>> /\ wire \in {<<>>, <<Prompt(c)>>}
            BY <3>3, <5>1, <5>2, <5>3, <5>4
          <5>6. OnItsWay(c, Raw(c))'
            BY <1>1, <5>1, <5>5 DEF OnItsWay
          <5> QED
            BY <1>2, <3>1, <3>2, <3>4, <3>6, <5>6 DEF OneAtATime
        <4> QED
          BY <4>2, <4>3
      <3> QED
        BY <3>1, <3>5, <3>6 DEF InExecute
    <2> QED
      BY <2>2, <2>3
  <1> QED
    BY <1>1, <1>3, MovesOn

LEMMA ServeKeepsOrder ==
  ASSUME ConsoleInv, ConsoleTypeOK', Respond
  PROVE  ConsoleInv'
  <1>1. /\ UNCHANGED callVars /\ UNCHANGED <<buf, hand, pump>> /\ input # <<>>
        /\ wire' = wire \o <<Answer(Head(input)), Prompt(Head(input))>>
        /\ input' = Tail(input)
    BY DEF Respond
  <1>2. InExecute' = InExecute /\ \A c : Raw(c)' = Raw(c)
    BY <1>1 DEF InExecute, Raw, callVars
  <1>3. ASSUME Clean PROVE OneAtATime'
    <2>1. OneAtATime /\ InExecute # {}
      BY <1>1, <1>3 DEF ConsoleInv, OneAtATime, Quiet
    <2>2. PICK c \in InExecute : InExecute = {c}
      BY <2>1 DEF OneAtATime
    <2>3. start[c] <= Len(buf) /\ at[c] = "polling" /\ OnItsWay(c, Raw(c)) /\ c \in Call
      BY <1>1, <2>1 DEF OneAtATime, InExecute, Quiet
    <2>4. Raw(c) = <<>> /\ hand = <<>> /\ wire = <<>> /\ input = <<c>>
      BY <1>1, <2>3 DEF OnItsWay
    <2>5. input' = <<>> /\ wire' = <<Answer(c), Prompt(c)>>
      <3>1. Head(<<c>>) = c /\ Tail(<<c>>) = <<>>
        OBVIOUS
      <3>2. <<Answer(c), Prompt(c)>> \in Seq(Piece)
        BY <2>3 DEF Piece
      <3>3. <<>> \o <<Answer(c), Prompt(c)>> = <<Answer(c), Prompt(c)>>
        BY <3>2, ConcatEmptySeq
      <3> QED
        BY <1>1, <2>4, <3>1, <3>3
    <2>6. OnItsWay(c, Raw(c))'
      BY <1>1, <1>2, <2>4, <2>5 DEF OnItsWay
    <2> QED
      BY <1>1, <1>2, <2>2, <2>3, <2>6 DEF OneAtATime, callVars
  <1> QED
    BY <1>1, <1>3, MovesOn DEF ConsoleInv

LEMMA DieKeepsOrder ==
  ASSUME ConsoleInv, ConsoleTypeOK', Die
  PROVE  ConsoleInv'
  <1>1. /\ UNCHANGED callVars /\ UNCHANGED <<buf, hand, pump>>
        /\ input' = <<>> /\ wire' \in {<<>>, wire}
    BY DEF Die
  <1>2. InExecute' = InExecute /\ \A c : Raw(c)' = Raw(c)
    BY <1>1 DEF InExecute, Raw, callVars
  <1>3. ASSUME Clean PROVE OneAtATime'
    <2>1. OneAtATime
      BY <1>3 DEF ConsoleInv
    <2>2. Quiet => Quiet'
      BY <1>1 DEF Quiet
    <2>3. ASSUME NEW c \in InExecute, at[c] = "polling" PROVE OnItsWay(c, Raw(c))'
      <3>1. OnItsWay(c, Raw(c))
        BY <2>1, <2>3 DEF OneAtATime
      <3>2. CASE wire' = wire
        BY <1>1, <1>2, <3>1, <3>2 DEF OnItsWay
      <3>3. CASE wire' = <<>>
        <4>1. \/ Raw(c) = <<>> /\ hand = <<>>
              \/ Raw(c) = <<>> /\ hand = <<Answer(c), Prompt(c)>>
              \/ Raw(c) = <<>> /\ hand = <<Answer(c)>>
              \/ Raw(c) = <<Answer(c)>> /\ hand = <<>>
              \/ Raw(c) = <<Answer(c)>> /\ hand = <<Prompt(c)>>
              \/ Raw(c) = <<Answer(c), Prompt(c)>> /\ hand = <<>>
          BY <3>1 DEF OnItsWay
        <4> QED
          BY <1>1, <1>2, <3>3, <4>1 DEF OnItsWay
      <3> QED
        BY <1>1, <3>2, <3>3
    <2> QED
      BY <1>1, <1>2, <2>1, <2>2, <2>3 DEF OneAtATime, callVars
  <1> QED
    BY <1>1, <1>3, MovesOn DEF ConsoleInv

LEMMA ConsoleInitTyped == ConsoleInit => ConsoleTypeOK
  <1>1. <<>> \in Seq(Seq(Piece))
    BY EmptySeq
  <1> QED
    BY <1>1, EmptyTyped DEF ConsoleInit, ConsoleTypeOK, CallPC, Outcome

\* The console keeps its order in every run.
THEOREM ConsoleInvariant == ConsoleSpec => []ConsoleInv
  <1>1. ConsoleInit => ConsoleInv
    <2> SUFFICES ASSUME ConsoleInit PROVE ConsoleInv
      OBVIOUS
    <2>1. ConsoleTypeOK
      BY ConsoleInitTyped
    <2>2. InExecute = {}
      BY DEF ConsoleInit, InExecute
    <2>3. OneAtATime
      BY <2>2 DEF OneAtATime, Quiet, ConsoleInit
    <2>4. AnswerIsOwn
      BY DEF ConsoleInit, AnswerIsOwn
    <2> QED
      BY <2>1, <2>2, <2>3, <2>4 DEF ConsoleInv, ConsoleInit
  <1>2. ConsoleInv /\ [ConsoleNext]_consoleVars => ConsoleInv'
    <2> SUFFICES ASSUME ConsoleInv, [ConsoleNext]_consoleVars PROVE ConsoleInv'
      OBVIOUS
    <2>1. ConsoleTypeOK'
      BY ConsoleTyped DEF ConsoleInv
    <2>2. ASSUME UNCHANGED <<buf, pump, hand, start, input, wire, at, ended, answer, shared>>
          PROVE  ConsoleInv'
      BY <2>1, <2>2, Undisturbed
    <2>3. CASE Close \/ UNCHANGED consoleVars
      BY <2>2, <2>3 DEF Close, consoleVars, callVars, deviceVars
    <2>4. ASSUME NEW s \in Stream, OpenStream(s) \/ CloseStream(s) \/ ReadStep(s)
          PROVE  ConsoleInv'
      BY <2>2, <2>4 DEF OpenStream, CloseStream, ReadStep, ReadCheck, Take,
         callVars, deviceVars
    <2>5. ASSUME NEW c \in Call, IsOnline(c) \/ ExecuteStep(c) PROVE ConsoleInv'
      BY <2>1, <2>5, IsOnlineKeepsOrder, BeginKeepsOrder, WriteKeepsOrder,
         AnsweredKeepsOrder,
         ExpireKeepsOrder DEF ExecuteStep
    <2>6. CASE PumpStep
      BY <2>1, <2>6, PumpReadKeepsOrder, PumpAppendKeepsOrder DEF PumpStep
    <2>7. CASE Respond \/ Die
      BY <2>1, <2>7, ServeKeepsOrder, DieKeepsOrder
    <2> QED
      BY <2>3, <2>4, <2>5, <2>6, <2>7 DEF ConsoleNext
  <1> QED
    BY <1>1, <1>2, PTL DEF ConsoleSpec

\* A call of Execute that has had the console to itself returns the answer to
\* its own command (console.go:119, 130).
THEOREM AnswersAreOwn == ConsoleSpec => []AnswerIsOwn
  <1>1. ConsoleInv => AnswerIsOwn
    BY DEF ConsoleInv
  <1> QED
    BY <1>1, ConsoleInvariant, PTL

-----------------------------------------------------------------------------
(* Sequences put end to end *)

\* Induction over Nat, for a set in place of a predicate.
LEMMA InductionOnNat ==
  ASSUME NEW S, 0 \in S, \A n \in Nat : n \in S => n + 1 \in S
  PROVE  Nat \subseteq S
  <1> SUFFICES ASSUME Nat \ S # {} PROVE FALSE
    OBVIOUS
  <1>1. PICK x \in Nat \ S : \A y \in Nat \ S : x <= y
    BY LeastOf
  <1>2. x # 0 /\ x - 1 \in Nat /\ ~(x <= x - 1) /\ (x - 1) + 1 = x
    OBVIOUS
  <1>3. x - 1 \in S
    BY <1>1, <1>2
  <1> QED
    BY <1>2, <1>3

\* f has at each place the first sequences of ss, up to that one, end to end.
EndToEnd(f, ss, n) ==
  f = [i \in 1 .. n |-> IF i = 1 THEN ss[i] ELSE f[i - 1] \o ss[i]]

LEMMA EndToEndUnfold ==
  ASSUME NEW f, NEW ss, NEW n \in Nat, EndToEnd(f, ss, n)
  PROVE  \A i \in 1 .. n : f[i] = IF i = 1 THEN ss[1] ELSE f[i - 1] \o ss[i]
  <1> DEFINE g == [i \in 1 .. n |-> IF i = 1 THEN ss[i] ELSE f[i - 1] \o ss[i]]
  <1>1. f = g
    BY DEF EndToEnd
  <1>2. \A i \in 1 .. n : g[i] = IF i = 1 THEN ss[1] ELSE f[i - 1] \o ss[i]
    OBVIOUS
  <1> HIDE DEF g
  <1> QED
    BY <1>1, <1>2

LEMMA EndToEndExists ==
  ASSUME NEW ss, NEW n \in Nat
  PROVE  \E f : EndToEnd(f, ss, n)
  <1> DEFINE S == {k \in Nat : \E f : EndToEnd(f, ss, k)}
  <1>1. 0 \in S
    <2> DEFINE f == [i \in 1 .. 0 |-> ss]
    <2>1. EndToEnd(f, ss, 0)
      BY DEF EndToEnd
    <2> QED
      BY <2>1
  <1>2. ASSUME NEW k \in Nat, k \in S PROVE k + 1 \in S
    <2>1. PICK f : EndToEnd(f, ss, k)
      BY <1>2
    <2> DEFINE g == [i \in 1 .. k + 1 |-> IF i = 1 THEN ss[i] ELSE f[i - 1] \o ss[i]]
    <2>2. \A i \in 1 .. k : f[i] = g[i]
      BY <2>1, EndToEndUnfold
    <2> HIDE DEF g
    <2>3. \A i \in 1 .. k + 1 : i # 1 => f[i - 1] = g[i - 1]
      <3> SUFFICES ASSUME NEW i \in 1 .. k + 1, i # 1 PROVE f[i - 1] = g[i - 1]
        OBVIOUS
      <3>1. i - 1 \in 1 .. k
        OBVIOUS
      <3> QED
        BY <2>2, <3>1
    <2> DEFINE h == [i \in 1 .. k + 1 |-> IF i = 1 THEN ss[i] ELSE g[i - 1] \o ss[i]]
    <2>4. \A i \in 1 .. k + 1 : g[i] = h[i]
      <3> SUFFICES ASSUME NEW i \in 1 .. k + 1 PROVE g[i] = h[i]
        OBVIOUS
      <3>1. g[i] = IF i = 1 THEN ss[i] ELSE f[i - 1] \o ss[i]
        BY DEF g
      <3>2. h[i] = IF i = 1 THEN ss[i] ELSE g[i - 1] \o ss[i]
        OBVIOUS
      <3> HIDE DEF h
      <3> QED
        BY <2>3, <3>1, <3>2
    <2>5. g = h
      <3>1. g = [i \in 1 .. k + 1 |-> g[i]]
        BY DEF g
      <3>2. h = [i \in 1 .. k + 1 |-> h[i]]
        OBVIOUS
      <3> HIDE DEF h
      <3> QED
        BY <3>1, <3>2, <2>4, Zenon
    <2>6. EndToEnd(g, ss, k + 1)
      BY <2>5, Zenon DEF EndToEnd
    <2> QED
      BY <2>6
  <1> HIDE DEF S
  <1>3. Nat \subseteq S
    BY <1>1, <1>2, InductionOnNat
  <1> QED
    BY <1>3 DEF S

\* Where two sequences of sequences agree, so does what is end to end.
Agree(f, g, m) == \A i \in 1 .. m : f[i] = g[i]

LEMMA EndToEndAgree ==
  ASSUME NEW ss, NEW tt, NEW m \in Nat, NEW n \in Nat, m <= n, Agree(ss, tt, m),
         NEW f, EndToEnd(f, ss, m), NEW g, EndToEnd(g, tt, n)
  PROVE  Agree(f, g, m)
  <1> DEFINE S == {k \in Nat : k \in 1 .. m => f[k] = g[k]}
  <1>1. 0 \in S
    OBVIOUS
  <1>2. ASSUME NEW k \in Nat, k \in S PROVE k + 1 \in S
    <2>1. \A i \in 1 .. m : f[i] = IF i = 1 THEN ss[1] ELSE f[i - 1] \o ss[i]
      BY EndToEndUnfold
    <2>2. \A i \in 1 .. n : g[i] = IF i = 1 THEN tt[1] ELSE g[i - 1] \o tt[i]
      BY EndToEndUnfold
    <2> SUFFICES ASSUME k + 1 \in 1 .. m PROVE f[k + 1] = g[k + 1]
      OBVIOUS
    <2>3. CASE k = 0
      BY <2>1, <2>2, <2>3 DEF Agree
    <2>4. CASE k # 0
      <3>1. k \in 1 .. m /\ (k + 1) - 1 = k /\ k + 1 # 1 /\ k + 1 \in 1 .. n
        BY <2>4
      <3>2. f[k] = g[k]
        BY <1>2, <3>1
      <3>3. f[k + 1] = f[k] \o ss[k + 1] /\ g[k + 1] = g[k] \o tt[k + 1]
        BY <2>1, <2>2, <3>1
      <3> QED
        BY <3>2, <3>3, <3>1 DEF Agree
    <2> QED
      BY <2>3, <2>4
  <1> HIDE DEF S
  <1>3. Nat \subseteq S
    BY <1>1, <1>2, InductionOnNat
  <1> QED
    BY <1>3 DEF S, Agree

LEMMA FlattenIs ==
  ASSUME NEW ss, Len(ss) # 0, Len(ss) \in Nat
  PROVE  \E f : EndToEnd(f, ss, Len(ss)) /\ FlattenSeq(ss) = f[Len(ss)]
  <1> DEFINE f == CHOOSE g : g = [i \in 1 .. Len(ss) |->
                                    IF i = 1 THEN ss[i] ELSE g[i - 1] \o ss[i]]
  <1>1. FlattenSeq(ss) = f[Len(ss)]
    BY DEF FlattenSeq
  <1>2. \E g : g = [i \in 1 .. Len(ss) |-> IF i = 1 THEN ss[i] ELSE g[i - 1] \o ss[i]]
    <2>1. \E g : EndToEnd(g, ss, Len(ss))
      BY EndToEndExists
    <2> QED
      BY <2>1, Zenon DEF EndToEnd
  <1>3. f = [i \in 1 .. Len(ss) |-> IF i = 1 THEN ss[i] ELSE f[i - 1] \o ss[i]]
    BY <1>2
  <1> QED
    BY <1>1, <1>3 DEF EndToEnd

LEMMA FlattenEmpty == FlattenSeq(<<>>) = <<>>
  BY DEF FlattenSeq

LEMMA FlattenTyped ==
  ASSUME NEW E, NEW ss \in Seq(Seq(E))
  PROVE  FlattenSeq(ss) \in Seq(E)
  <1>1. CASE ss = <<>>
    BY <1>1, FlattenEmpty, EmptySeq
  <1>2. CASE ss # <<>>
    <2>1. Len(ss) \in Nat /\ Len(ss) # 0
      BY <1>2, EmptySeq
    <2>2. PICK f : EndToEnd(f, ss, Len(ss)) /\ FlattenSeq(ss) = f[Len(ss)]
      BY <2>1, FlattenIs
    <2>3. \A i \in 1 .. Len(ss) : f[i] = IF i = 1 THEN ss[1] ELSE f[i - 1] \o ss[i]
      BY <2>1, <2>2, EndToEndUnfold
    <2>4. \A i \in 1 .. Len(ss) : ss[i] \in Seq(E)
      BY ElementOfSeq
    <2> DEFINE S == {k \in Nat : k \in 1 .. Len(ss) => f[k] \in Seq(E)}
    <2>5. 0 \in S
      OBVIOUS
    <2>6. ASSUME NEW k \in Nat, k \in S PROVE k + 1 \in S
      <3> SUFFICES ASSUME k + 1 \in 1 .. Len(ss) PROVE f[k + 1] \in Seq(E)
        OBVIOUS
      <3>1. CASE k = 0
        BY <2>3, <2>4, <3>1
      <3>2. CASE k # 0
        <4>1. k \in 1 .. Len(ss) /\ (k + 1) - 1 = k /\ k + 1 # 1
          BY <2>1, <3>2
        <4>2. f[k] \in Seq(E) /\ ss[k + 1] \in Seq(E)
          BY <2>4, <2>6, <4>1
        <4>3. f[k + 1] = f[k] \o ss[k + 1]
          BY <2>3, <4>1
        <4> QED
          BY <4>2, <4>3, ConcatProperties
      <3> QED
        BY <3>1, <3>2
    <2> HIDE DEF S
    <2>7. Nat \subseteq S
      BY <2>5, <2>6, InductionOnNat
    <2> QED
      BY <2>1, <2>2, <2>7 DEF S
  <1> QED
    BY <1>1, <1>2

LEMMA FlattenAppend ==
  ASSUME NEW E, NEW ss \in Seq(Seq(E)), NEW x \in Seq(E)
  PROVE  FlattenSeq(Append(ss, x)) = FlattenSeq(ss) \o x
  <1> DEFINE tt == Append(ss, x)
  <1>1. /\ tt \in Seq(Seq(E)) /\ Len(tt) = Len(ss) + 1 /\ Len(ss) \in Nat
        /\ \A i \in 1 .. Len(ss) : ss[i] = tt[i]
        /\ tt[Len(ss) + 1] = x
    BY AppendProperties
  <1> HIDE DEF tt
  <1>2. PICK g : EndToEnd(g, tt, Len(tt)) /\ FlattenSeq(tt) = g[Len(tt)]
    <2>1. Len(tt) # 0 /\ Len(tt) \in Nat
      BY <1>1
    <2> QED
      BY <2>1, FlattenIs
  <1>3. \A i \in 1 .. Len(tt) : g[i] = IF i = 1 THEN tt[1] ELSE g[i - 1] \o tt[i]
    <2>1. Len(tt) \in Nat /\ EndToEnd(g, tt, Len(tt))
      BY <1>1, <1>2
    <2> QED
      BY <2>1, EndToEndUnfold
  <1>4. CASE ss = <<>>
    <2>1. Len(ss) = 0
      BY <1>4
    <2>2. FlattenSeq(tt) = x
      BY <1>1, <1>2, <1>3, <2>1
    <2> QED
      BY <1>4, <2>2, FlattenEmpty, ConcatEmptySeq DEF tt
  <1>5. CASE ss # <<>>
    <2>1. Len(ss) # 0
      BY <1>5, EmptySeq
    <2>2. PICK f : EndToEnd(f, ss, Len(ss)) /\ FlattenSeq(ss) = f[Len(ss)]
      BY <1>1, <2>1, FlattenIs
    <2>3. f[Len(ss)] = g[Len(ss)]
      <3>1. Len(tt) \in Nat /\ Len(ss) <= Len(tt) /\ Len(ss) \in 1 .. Len(ss)
        BY <1>1, <2>1
      <3>2. Agree(f, g, Len(ss))
        <4>1. Agree(ss, tt, Len(ss))
          BY <1>1 DEF Agree
        <4>2. EndToEnd(f, ss, Len(ss)) /\ EndToEnd(g, tt, Len(tt))
          BY <1>2, <2>2
        <4>3. Len(ss) \in Nat
          OBVIOUS
        <4> QED
          BY <3>1, <4>1, <4>2, <4>3, EndToEndAgree
      <3> QED
        BY <3>1, <3>2 DEF Agree
    <2>4. g[Len(ss) + 1] = g[Len(ss)] \o x
      <3>1. Len(ss) + 1 \in 1 .. Len(tt) /\ Len(ss) + 1 # 1 /\ (Len(ss) + 1) - 1 = Len(ss)
        BY <1>1, <2>1
      <3> QED
        BY <1>1, <1>3, <3>1
    <2> QED
      BY <1>1, <1>2, <2>2, <2>3, <2>4 DEF tt
  <1> QED
    BY <1>4, <1>5

Joined(s, t) == s \o t

LEMMA Regroup ==
  ASSUME NEW E, NEW s \in Seq(E), NEW t \in Seq(E), NEW u \in Seq(E)
  PROVE  Joined(Joined(s, t), u) = Joined(s, Joined(t, u))
  BY ConcatAssociative DEF Joined

LEMMA FlattenHead ==
  ASSUME NEW E, NEW ss \in Seq(Seq(E)), ss # <<>>
  PROVE  FlattenSeq(ss) = Head(ss) \o FlattenSeq(Tail(ss))
  <1> DEFINE S == {k \in Nat : \A tt \in Seq(Seq(E)) :
                     Len(tt) = k + 1 => FlattenSeq(tt) = Head(tt) \o FlattenSeq(Tail(tt))}
  <1>1. 0 \in S
    <2> SUFFICES ASSUME NEW tt \in Seq(Seq(E)), Len(tt) = 1
                 PROVE  FlattenSeq(tt) = Head(tt) \o FlattenSeq(Tail(tt))
      OBVIOUS
    <2>1. PICK t \in Seq(Seq(E)), x \in Seq(E) : tt = Append(t, x)
      <3>1. tt # <<>>
        <4>1. Len(tt) # 0 /\ Len(<<>>) = 0
          OBVIOUS
        <4> QED
          BY <4>1
      <3> HIDE DEF S
      <3> QED
        BY <3>1, SequenceEmptyOrAppend
    <2>2. t = <<>>
      BY <2>1, AppendProperties, EmptySeq
    <2>3. Head(tt) = x /\ Tail(tt) = <<>>
      BY <2>1, <2>2, HeadTailAppend
    <2>4. FlattenSeq(tt) = <<>> \o x
      BY <2>1, <2>2, FlattenAppend, FlattenEmpty
    <2> QED
      BY <2>3, <2>4, FlattenEmpty, ConcatEmptySeq
  <1>2. ASSUME NEW k \in Nat, k \in S PROVE k + 1 \in S
    <2> SUFFICES ASSUME NEW tt \in Seq(Seq(E)), Len(tt) = (k + 1) + 1
                 PROVE  FlattenSeq(tt) = Head(tt) \o FlattenSeq(Tail(tt))
      OBVIOUS
    <2>1. PICK t \in Seq(Seq(E)), x \in Seq(E) : tt = Append(t, x)
      <3>1. tt # <<>>
        <4>1. Len(tt) # 0 /\ Len(<<>>) = 0
          OBVIOUS
        <4> QED
          BY <4>1
      <3> HIDE DEF S
      <3> QED
        BY <3>1, SequenceEmptyOrAppend
    <2>2. Len(t) = k + 1 /\ t # <<>>
      BY <2>1, AppendProperties, EmptySeq
    <2>3. Head(tt) = Head(t) /\ Tail(tt) = Append(Tail(t), x)
      BY <2>1, <2>2, HeadTailAppend
    <2>4. Head(t) \in Seq(E) /\ Tail(t) \in Seq(Seq(E)) /\ FlattenSeq(Tail(t)) \in Seq(E)
      BY <2>2, HeadTailProperties, FlattenTyped
    <2>5. FlattenSeq(t) = Head(t) \o FlattenSeq(Tail(t))
      BY <1>2, <2>2
    <2>6. FlattenSeq(tt) = (Head(t) \o FlattenSeq(Tail(t))) \o x
      BY <2>1, <2>5, FlattenAppend
    <2>7. FlattenSeq(Tail(tt)) = FlattenSeq(Tail(t)) \o x
      BY <2>3, <2>4, FlattenAppend
    <2> HIDE DEF S
    <2>8. x \in Seq(E)
      BY <2>1
    <2>9. FlattenSeq(tt) = Head(t) \o FlattenSeq(Tail(tt))
      <3>1. /\ FlattenSeq(tt) = Joined(Joined(Head(t), FlattenSeq(Tail(t))), x)
            /\ FlattenSeq(Tail(tt)) = Joined(FlattenSeq(Tail(t)), x)
        BY <2>6, <2>7 DEF Joined
      <3>2. FlattenSeq(tt) = Joined(Head(t), FlattenSeq(Tail(tt)))
        BY <2>4, <2>8, <3>1, Regroup
      <3> QED
        BY <3>2 DEF Joined
    <2> QED
      BY <2>3, <2>9
  <1> HIDE DEF S
  <1>3. Nat \subseteq S
    BY <1>1, <1>2, InductionOnNat
  <1>4. Len(ss) \in Nat \ {0} /\ Len(ss) - 1 \in Nat /\ (Len(ss) - 1) + 1 = Len(ss)
    BY EmptySeq
  <1> QED
    BY <1>3, <1>4 DEF S
-----------------------------------------------------------------------------
(* The streams of the console.  Delivered(s) is found in buf, in order and after
   the place at which the stream was opened; that nothing is printed twice makes
   the place of each piece unique.  Nothing is printed twice because a command
   is in one place only: still to be written, on its way, or answered. *)

\* What has been printed and not lost, in the order in which it was.
Printed == buf \o hand \o wire

BeforeWrite == {"idle", "ready", "writing"}

\* A command is written once and served once.
PrintedOnce ==
  /\ pump # "append" => hand = <<>>
  /\ IsInjective(Printed) /\ IsInjective(input)
  /\ \A c \in Range(input) : Answer(c) \notin Range(Printed) /\ Prompt(c) \notin Range(Printed)
  /\ \A c \in Call : at[c] \in BeforeWrite =>
       /\ c \notin Range(input)
       /\ Answer(c) \notin Range(Printed) /\ Prompt(c) \notin Range(Printed)

\* d is found in b after place n, in the same order.
InOrder(d, b, n) ==
  \E place \in [DOMAIN d -> DOMAIN b] :
    /\ \A i \in DOMAIN d : d[i] = b[place[i]] /\ n < place[i]
    /\ \A i, j \in DOMAIN d : i < j => place[i] < place[j]

StreamKept(s) ==
  /\ from[s] <= Len(buf)
  /\ InOrder(Delivered(s), buf, from[s])
  /\ phase[s] = "open" /\ ~dropped[s] => Delivered(s) = SubSeq(buf, from[s] + 1, Len(buf))
  /\ phase[s] = "none" => lines[s] = <<>> /\ pending[s] = <<>> /\ ch[s] = <<>>

StreamInv ==
  /\ ConsoleTypeOK
  /\ PrintedOnce
  /\ \A s \in Stream : StreamKept(s)

-----------------------------------------------------------------------------
(* Texts found in order in another, and texts in which nothing comes twice *)

LEMMA InOrderEmpty ==
  ASSUME NEW b, NEW n PROVE InOrder(<<>>, b, n)
  <1> DEFINE place == [i \in {} |-> 0]
  <1>1. DOMAIN <<>> = {}
    OBVIOUS
  <1>2. place \in [DOMAIN <<>> -> DOMAIN b]
    BY <1>1
  <1> QED
    BY <1>1, <1>2 DEF InOrder

LEMMA InOrderKept ==
  ASSUME NEW E, NEW d \in Seq(E), NEW b \in Seq(E), NEW h \in Seq(E), NEW n \in Nat,
         InOrder(d, b, n)
  PROVE  InOrder(d, b \o h, n)
  <1>1. PICK place \in [DOMAIN d -> DOMAIN b] :
          /\ \A i \in DOMAIN d : d[i] = b[place[i]] /\ n < place[i]
          /\ \A i, j \in DOMAIN d : i < j => place[i] < place[j]
    BY DEF InOrder
  <1>2. /\ DOMAIN b \subseteq DOMAIN (b \o h)
        /\ \A k \in DOMAIN b : (b \o h)[k] = b[k]
    BY ConcatProperties
  <1>3. place \in [DOMAIN d -> DOMAIN (b \o h)]
    BY <1>2
  <1>4. \A i \in DOMAIN d : d[i] = (b \o h)[place[i]] /\ n < place[i]
    BY <1>1, <1>2
  <1> QED
    BY <1>1, <1>3, <1>4 DEF InOrder

LEMMA InOrderGrows ==
  ASSUME NEW E, NEW d \in Seq(E), NEW b \in Seq(E), NEW h \in Seq(E), NEW n \in Nat,
         n <= Len(b), InOrder(d, b, n)
  PROVE  InOrder(d \o h, b \o h, n)
  <1>1. PICK place \in [DOMAIN d -> DOMAIN b] :
          /\ \A i \in DOMAIN d : d[i] = b[place[i]] /\ n < place[i]
          /\ \A i, j \in DOMAIN d : i < j => place[i] < place[j]
    BY DEF InOrder
  <1> DEFINE p == Len(d)
             q == Len(b)
             r == Len(h)
             e == d \o h
             c == b \o h
             new == [i \in DOMAIN e |-> IF i <= p THEN place[i] ELSE q + (i - p)]
  <1>2. p \in Nat /\ q \in Nat /\ r \in Nat /\ DOMAIN d = 1 .. p /\ DOMAIN b = 1 .. q
    OBVIOUS
  <1>3. /\ DOMAIN e = 1 .. p + r
        /\ \A i \in 1 .. p + r : e[i] = IF i <= p THEN d[i] ELSE h[i - p]
    BY ConcatProperties
  <1>4. /\ DOMAIN c = 1 .. q + r
        /\ \A i \in 1 .. q + r : c[i] = IF i <= q THEN b[i] ELSE h[i - q]
    BY ConcatProperties
  <1>5. \A i \in 1 .. p : place[i] \in 1 .. q
    BY <1>2
  <1>6. n <= q
    OBVIOUS
  <1>7. \A i \in 1 .. p : d[i] = b[place[i]] /\ n < place[i]
    BY <1>1, <1>2
  <1>8. \A i, j \in 1 .. p : i < j => place[i] < place[j]
    BY <1>1, <1>2
  <1>9. \A i \in 1 .. p + r : new[i] = IF i <= p THEN place[i] ELSE q + (i - p)
    BY <1>3
  <1>10. new = [i \in DOMAIN e |-> new[i]]
    OBVIOUS
  <1> HIDE DEF new, e, c, p, q, r
  <1>11. \A i \in 1 .. p + r : new[i] \in 1 .. q + r
    <2> SUFFICES ASSUME NEW i \in 1 .. p + r PROVE new[i] \in 1 .. q + r
      OBVIOUS
    <2>1. CASE i <= p
      <3>1. i \in 1 .. p /\ new[i] = place[i]
        BY <1>2, <1>9, <2>1
      <3>2. place[i] \in 1 .. q
        BY <1>5, <3>1
      <3> QED
        BY <1>2, <3>1, <3>2
    <2>2. CASE ~(i <= p)
      BY <1>2, <1>9, <2>2
    <2> QED
      BY <2>1, <2>2
  <1>12. new \in [DOMAIN e -> DOMAIN c]
    BY <1>3, <1>4, <1>10, <1>11
  <1>13. \A i \in DOMAIN e : e[i] = c[new[i]] /\ n < new[i]
    <2> SUFFICES ASSUME NEW i \in 1 .. p + r
                 PROVE  e[i] = c[new[i]] /\ n < new[i]
      BY <1>3
    <2>1. CASE i <= p
      <3>1. i \in 1 .. p /\ new[i] = place[i] /\ place[i] \in 1 .. q
        BY <1>2, <1>3, <1>5, <1>9, <2>1
      <3>2. e[i] = d[i] /\ c[place[i]] = b[place[i]]
        BY <1>2, <1>3, <1>4, <2>1, <3>1
      <3> QED
        BY <1>7, <3>1, <3>2
    <2>2. CASE ~(i <= p)
      <3>1. new[i] = q + (i - p) /\ e[i] = h[i - p]
        BY <1>3, <1>9, <2>2
      <3>2. /\ q + (i - p) \in 1 .. q + r /\ ~(q + (i - p) <= q)
            /\ (q + (i - p)) - q = i - p /\ n < q + (i - p)
        BY <1>2, <1>6, <2>2
      <3>3. c[q + (i - p)] = h[i - p]
        BY <1>4, <3>2
      <3> QED
        BY <3>1, <3>2, <3>3
    <2> QED
      BY <2>1, <2>2
  <1>14. \A i, j \in DOMAIN e : i < j => new[i] < new[j]
    <2> SUFFICES ASSUME NEW i \in 1 .. p + r, NEW j \in 1 .. p + r, i < j
                 PROVE  new[i] < new[j]
      BY <1>3
    <2>1. CASE j <= p
      BY <1>2, <1>3, <1>8, <1>9, <2>1
    <2>2. CASE ~(j <= p) /\ i <= p
      <3>1. new[i] = place[i] /\ new[j] = q + (j - p) /\ i \in 1 .. p
        BY <1>2, <1>3, <1>9, <2>2
      <3> QED
        BY <1>2, <1>5, <2>2, <3>1
    <2>3. CASE ~(j <= p) /\ ~(i <= p)
      BY <1>2, <1>3, <1>9, <2>3
    <2> QED
      BY <2>1, <2>2, <2>3
  <1>15. InOrder(e, c, n)
    BY <1>12, <1>13, <1>14, Zenon DEF InOrder
  <1> QED
    BY <1>15 DEF e, c

LEMMA InjectiveGrows ==
  ASSUME NEW E, NEW t \in Seq(E), NEW u \in Seq(E),
         IsInjective(t), IsInjective(u), \A x \in Range(u) : x \notin Range(t)
  PROVE  IsInjective(t \o u)
  <1>1. /\ DOMAIN (t \o u) = 1 .. Len(t) + Len(u)
        /\ \A i \in 1 .. Len(t) + Len(u) : (t \o u)[i] = IF i <= Len(t) THEN t[i] ELSE u[i - Len(t)]
    BY ConcatProperties
  <1> SUFFICES ASSUME NEW i \in 1 .. Len(t) + Len(u), NEW j \in 1 .. Len(t) + Len(u),
                      (t \o u)[i] = (t \o u)[j]
               PROVE  i = j
    BY <1>1 DEF IsInjective
  <1>2. \A k \in 1 .. Len(t) : t[k] \in Range(t)
    BY DEF Range
  <1>3. \A k \in 1 .. Len(u) : u[k] \in Range(u)
    BY DEF Range
  <1>4. Len(t) \in Nat /\ Len(u) \in Nat /\ DOMAIN t = 1 .. Len(t) /\ DOMAIN u = 1 .. Len(u)
    OBVIOUS
  <1>5. CASE i <= Len(t) /\ j <= Len(t)
    BY <1>1, <1>4, <1>5 DEF IsInjective
  <1>6. CASE ~(i <= Len(t)) /\ ~(j <= Len(t))
    <2>1. i - Len(t) \in 1 .. Len(u) /\ j - Len(t) \in 1 .. Len(u)
      BY <1>4, <1>6
    <2>2. u[i - Len(t)] = u[j - Len(t)]
      BY <1>1, <1>6
    <2>3. i - Len(t) = j - Len(t)
      BY <1>4, <2>1, <2>2 DEF IsInjective
    <2> QED
      BY <1>4, <2>3
  <1>7. CASE i <= Len(t) /\ ~(j <= Len(t))
    <2>1. i \in 1 .. Len(t) /\ j - Len(t) \in 1 .. Len(u)
      BY <1>4, <1>7
    <2>2. t[i] = u[j - Len(t)]
      BY <1>1, <1>7
    <2> QED
      BY <1>2, <1>3, <2>1, <2>2
  <1>8. CASE ~(i <= Len(t)) /\ j <= Len(t)
    <2>1. j \in 1 .. Len(t) /\ i - Len(t) \in 1 .. Len(u)
      BY <1>4, <1>8
    <2>2. t[j] = u[i - Len(t)]
      BY <1>1, <1>8
    <2> QED
      BY <1>2, <1>3, <2>1, <2>2
  <1> QED
    BY <1>5, <1>6, <1>7, <1>8

LEMMA RangeOfConcat ==
  ASSUME NEW E, NEW t \in Seq(E), NEW u \in Seq(E)
  PROVE  Range(t \o u) = Range(t) \cup Range(u)
  <1>1. /\ DOMAIN (t \o u) = 1 .. Len(t) + Len(u)
        /\ \A i \in 1 .. Len(t) + Len(u) : (t \o u)[i] = IF i <= Len(t) THEN t[i] ELSE u[i - Len(t)]
    BY ConcatProperties
  <1>2. Len(t) \in Nat /\ Len(u) \in Nat /\ DOMAIN t = 1 .. Len(t) /\ DOMAIN u = 1 .. Len(u)
    OBVIOUS
  <1>3. ASSUME NEW i \in 1 .. Len(t) + Len(u) PROVE (t \o u)[i] \in Range(t) \cup Range(u)
    <2>1. CASE i <= Len(t)
      BY <1>1, <1>2, <2>1 DEF Range
    <2>2. CASE ~(i <= Len(t))
      <3>1. i - Len(t) \in 1 .. Len(u)
        BY <1>2, <2>2
      <3> QED
        BY <1>1, <1>2, <2>2, <3>1 DEF Range
    <2> QED
      BY <2>1, <2>2
  <1>4. ASSUME NEW i \in 1 .. Len(t) PROVE t[i] \in Range(t \o u)
    <2>1. i \in DOMAIN (t \o u) /\ (t \o u)[i] = t[i]
      BY <1>1, <1>2
    <2> QED
      BY <2>1 DEF Range
  <1>5. ASSUME NEW i \in 1 .. Len(u) PROVE u[i] \in Range(t \o u)
    <2>1. i + Len(t) \in DOMAIN (t \o u) /\ (t \o u)[i + Len(t)] = u[i]
      BY <1>1, <1>2
    <2> QED
      BY <2>1 DEF Range
  <1>6. Range(t \o u) \subseteq Range(t) \cup Range(u)
    BY <1>1, <1>3 DEF Range
  <1>7. Range(t) \subseteq Range(t \o u) /\ Range(u) \subseteq Range(t \o u)
    BY <1>2, <1>4, <1>5 DEF Range
  <1> QED
    BY <1>6, <1>7

LEMMA InjectivePrefix ==
  ASSUME NEW E, NEW t \in Seq(E), NEW u \in Seq(E), IsInjective(t \o u)
  PROVE  IsInjective(t)
  <1>1. /\ DOMAIN t \subseteq DOMAIN (t \o u)
        /\ \A k \in DOMAIN t : (t \o u)[k] = t[k]
    BY ConcatProperties
  <1> QED
    BY <1>1 DEF IsInjective

LEMMA InjectiveTail ==
  ASSUME NEW E, NEW t \in Seq(E), t # <<>>, IsInjective(t)
  PROVE  /\ Head(t) \in Range(t)
         /\ IsInjective(Tail(t)) /\ Range(Tail(t)) \subseteq Range(t)
         /\ Head(t) \notin Range(Tail(t))
  <1>1. Len(t) \in Nat /\ Len(t) # 0 /\ DOMAIN t = 1 .. Len(t)
    BY EmptySeq
  <1>2. /\ Head(t) = t[1] /\ DOMAIN Tail(t) = 1 .. Len(t) - 1
        /\ \A i \in 1 .. Len(t) - 1 : Tail(t)[i] = t[i + 1]
    BY <1>1, HeadTailProperties
  <1>3. \A i \in 1 .. Len(t) - 1 : i + 1 \in 1 .. Len(t) /\ i + 1 # 1
    BY <1>1
  <1>4. \A i, j \in 1 .. Len(t) : t[i] = t[j] => i = j
    BY <1>1 DEF IsInjective
  <1>5. \A i, j \in 1 .. Len(t) - 1 : Tail(t)[i] = Tail(t)[j] => i = j
    BY <1>1, <1>2, <1>3, <1>4
  <1>6. \A i \in 1 .. Len(t) - 1 : Tail(t)[i] # t[1]
    BY <1>1, <1>2, <1>3, <1>4
  <1>7. 1 \in 1 .. Len(t)
    BY <1>1
  <1> QED
    BY <1>1, <1>2, <1>3, <1>5, <1>6, <1>7 DEF IsInjective, Range

-----------------------------------------------------------------------------
(* A command is written once and served once *)

LEMMA PrintedTyped ==
  ASSUME ConsoleTypeOK
  PROVE  Printed \in Seq(Piece) /\ buf \o hand \in Seq(Piece)
  BY DEF ConsoleTypeOK, Printed

\* Nothing new is written or printed.
LEMMA NothingNew ==
  ASSUME PrintedOnce,
         pump' # "append" => hand' = <<>>,
         IsInjective(Printed'), Range(Printed') \subseteq Range(Printed),
         IsInjective(input'), Range(input') \subseteq Range(input),
         \A c \in Call : at'[c] \in BeforeWrite => at[c] \in BeforeWrite
  PROVE  PrintedOnce'
  BY DEF PrintedOnce, Answer, Prompt

\* Nothing moves on the wire, the calls may.
LEMMA NothingMoves ==
  ASSUME PrintedOnce, UNCHANGED <<buf, hand, wire, pump, input>>,
         \A c \in Call : at'[c] \in BeforeWrite => at[c] \in BeforeWrite
  PROVE  PrintedOnce'
  BY DEF PrintedOnce, Printed, Answer, Prompt

LEMMA WritePrints ==
  ASSUME ConsoleTypeOK, PrintedOnce, NEW c \in Call, Write(c)
  PROVE  PrintedOnce'
  <1>1. UNCHANGED <<buf, hand, wire, pump>>
    BY DEF Write
  <1>2. \A d \in Call : at'[d] \in BeforeWrite => at[d] \in BeforeWrite /\ d # c
    BY DEF Write, Return, ConsoleTypeOK, BeforeWrite
  <1>3. CASE input' = input
    BY <1>1, <1>2, <1>3, NothingMoves
  <1>4. CASE input' = Append(input, c)
    <2>1. /\ c \notin Range(input)
          /\ Answer(c) \notin Range(Printed) /\ Prompt(c) \notin Range(Printed)
      BY DEF Write, PrintedOnce, BeforeWrite
    <2>2. input \in Seq(Call) /\ <<c>> \in Seq(Call) /\ input' = input \o <<c>>
      BY <1>4 DEF ConsoleTypeOK
    <2>3. IsInjective(<<c>>) /\ Range(<<c>>) = {c}
      BY DEF IsInjective, Range
    <2>4. IsInjective(input')
      <3>1. \A x \in Range(<<c>>) : x \notin Range(input)
        BY <2>1, <2>3
      <3> QED
        BY <2>2, <2>3, <3>1, InjectiveGrows DEF PrintedOnce
    <2>5. Range(input') = Range(input) \cup {c}
      <3>1. Range(input \o <<c>>) = Range(input) \cup Range(<<c>>)
        BY <2>2, RangeOfConcat
      <3> QED
        BY <2>2, <2>3, <3>1
    <2>6. Printed' = Printed
      BY <1>1 DEF Printed
    <2> QED
      BY <1>1, <1>2, <2>1, <2>4, <2>5, <2>6 DEF PrintedOnce, Answer, Prompt
  <1> QED
    BY <1>3, <1>4 DEF Write

LEMMA SplitText ==
  ASSUME NEW E, NEW t \in Seq(E), NEW n \in 1 .. Len(t)
  PROVE  /\ SubSeq(t, 1, n) \in Seq(E) /\ SubSeq(t, n + 1, Len(t)) \in Seq(E)
         /\ t = SubSeq(t, 1, n) \o SubSeq(t, n + 1, Len(t))
  <1>1. Len(t) \in Nat
    OBVIOUS
  <1>2. t = SubSeq(t, 1, Len(t))
    BY SubSeqFull
  <1>3. SubSeq(t, 1, n) \o SubSeq(t, n + 1, Len(t)) = SubSeq(t, 1, Len(t))
    BY <1>1, ConcatAdjacentSubSeq
  <1>4. 1 \in Int /\ n \in Int /\ n + 1 \in Int /\ Len(t) \in Int /\ n <= Len(t) /\ 1 <= n + 1
    BY <1>1
  <1>5. SubSeq(t, 1, n) \in Seq(E)
    BY <1>4, SubSeqTyped
  <1>6. SubSeq(t, n + 1, Len(t)) \in Seq(E)
    BY <1>4, SubSeqTyped
  <1> QED
    BY <1>2, <1>3, <1>5, <1>6

LEMMA PumpReadPrints ==
  ASSUME ConsoleTypeOK, PrintedOnce, PumpRead
  PROVE  PrintedOnce'
  <1>1. UNCHANGED <<buf, input, at>> /\ hand = <<>>
    BY DEF PumpRead, callVars, PrintedOnce
  <1>2. CASE pump' = "ended"
    BY <1>1, <1>2, NothingMoves DEF PumpRead, PrintedOnce, Printed
  <1>3. CASE pump' # "ended"
    <2>1. PICK n \in DOMAIN wire :
            hand' = SubSeq(wire, 1, n) /\ wire' = SubSeq(wire, n + 1, Len(wire))
      BY <1>3 DEF PumpRead
    <2>2. wire \in Seq(Piece) /\ buf \in Seq(Piece) /\ n \in 1 .. Len(wire)
      BY DEF ConsoleTypeOK
    <2>3. hand' \in Seq(Piece) /\ wire' \in Seq(Piece) /\ wire = hand' \o wire'
      BY <2>1, <2>2, SplitText
    <2>4. (buf \o hand') \o wire' = buf \o (hand' \o wire')
      BY <2>2, <2>3, ConcatAssociative
    <2>5. buf \o <<>> = buf
      BY <2>2, ConcatEmptySeq
    <2>6. Printed' = Printed
      BY <1>1, <2>3, <2>4, <2>5 DEF Printed
    <2>7. pump' = "append"
      BY <1>3 DEF PumpRead
    <2> QED
      BY <1>1, <2>6, <2>7, NothingNew DEF PrintedOnce
  <1> QED
    BY <1>2, <1>3

LEMMA PumpAppendPrints ==
  ASSUME ConsoleTypeOK, PrintedOnce, PumpAppend
  PROVE  PrintedOnce'
  <1>1. UNCHANGED <<wire, input, at>> /\ buf' = buf \o hand /\ hand' = <<>> /\ pump' = "read"
    BY DEF PumpAppend, callVars, deviceVars
  <1>2. (buf \o hand) \o <<>> = buf \o hand
    BY PrintedTyped, ConcatEmptySeq
  <1>3. Printed' = Printed
    BY <1>1, <1>2 DEF Printed
  <1> QED
    BY <1>1, <1>3, NothingNew DEF PrintedOnce

LEMMA RespondPrints ==
  ASSUME ConsoleTypeOK, PrintedOnce, Respond
  PROVE  PrintedOnce'
  <1> DEFINE c == Head(input)
             two == <<Answer(c), Prompt(c)>>
  <1>1. /\ UNCHANGED <<buf, hand, pump, at>>
        /\ input # <<>> /\ input' = Tail(input) /\ wire' = wire \o two
    BY DEF Respond, callVars
  <1>2. input \in Seq(Call) /\ wire \in Seq(Piece) /\ buf \o hand \in Seq(Piece)
    BY PrintedTyped DEF ConsoleTypeOK
  <1>3. /\ c \in Range(input) /\ c \in Call
        /\ IsInjective(input') /\ Range(input') \subseteq Range(input)
        /\ c \notin Range(input')
    BY <1>1, <1>2, InjectiveTail, HeadTailProperties DEF PrintedOnce
  <1>4. two \in Seq(Piece)
    BY <1>3 DEF Piece
  <1>5. Range(two) = {Answer(c), Prompt(c)} /\ IsInjective(two)
    BY DEF Range, IsInjective, Answer, Prompt
  <1> HIDE DEF c, two
  <1>6. Printed' = Printed \o two
    <2>1. ((buf \o hand) \o wire) \o two = (buf \o hand) \o (wire \o two)
      BY <1>2, <1>4, ConcatAssociative
    <2> QED
      BY <1>1, <2>1 DEF Printed
  <1>7. Range(Printed') = Range(Printed) \cup {Answer(c), Prompt(c)}
    BY <1>4, <1>5, <1>6, PrintedTyped, RangeOfConcat
  <1>8. IsInjective(Printed')
    <2>1. \A x \in Range(two) : x \notin Range(Printed)
      BY <1>3, <1>5 DEF PrintedOnce
    <2> QED
      BY <1>4, <1>5, <1>6, <2>1, PrintedTyped, InjectiveGrows DEF PrintedOnce
  <1>9. \A d \in Call : d # c => \/ Answer(d) \in Range(Printed')
                                  \/ Prompt(d) \in Range(Printed')
                                  => \/ Answer(d) \in Range(Printed)
                                     \/ Prompt(d) \in Range(Printed)
    BY <1>7 DEF Answer, Prompt
  <1>10. \A d \in Call : at[d] \in BeforeWrite => d # c
    BY <1>3 DEF PrintedOnce
  <1>11. Range(input) \subseteq Call
    BY <1>2 DEF Range
  <1> QED
    BY <1>1, <1>3, <1>8, <1>9, <1>10, <1>11 DEF PrintedOnce, Answer, Prompt

LEMMA DiePrints ==
  ASSUME ConsoleTypeOK, PrintedOnce, Die
  PROVE  PrintedOnce'
  <1>1. UNCHANGED <<buf, hand, pump, at>> /\ input' = <<>> /\ wire' \in {wire, <<>>}
    BY DEF Die, callVars
  <1>2. IsInjective(<<>>) /\ Range(<<>>) = {}
    BY DEF IsInjective, Range
  <1>3. buf \o hand \in Seq(Piece) /\ wire \in Seq(Piece)
    BY PrintedTyped DEF ConsoleTypeOK
  <1>4. IsInjective(Printed') /\ Range(Printed') \subseteq Range(Printed)
    <2>1. CASE wire' = wire
      BY <1>1, <2>1 DEF Printed, PrintedOnce
    <2>2. CASE wire' = <<>>
      <3>1. Printed' = buf \o hand
        BY <1>1, <1>3, <2>2, ConcatEmptySeq DEF Printed
      <3>2. IsInjective((buf \o hand) \o wire)
        BY DEF Printed, PrintedOnce
      <3>3. IsInjective(buf \o hand)
        BY <1>3, <3>2, InjectivePrefix
      <3>4. Range((buf \o hand) \o wire) = Range(buf \o hand) \cup Range(wire)
        BY <1>3, RangeOfConcat
      <3> QED
        BY <3>1, <3>3, <3>4 DEF Printed
    <2> QED
      BY <1>1, <2>1, <2>2
  <1> QED
    BY <1>1, <1>2, <1>4, NothingNew DEF PrintedOnce

LEMMA PrintedKept ==
  ASSUME ConsoleTypeOK, PrintedOnce, [ConsoleNext]_consoleVars
  PROVE  PrintedOnce'
  <1>1. CASE UNCHANGED consoleVars
    BY <1>1, NothingMoves DEF consoleVars, callVars, deviceVars
  <1>2. CASE Close
    BY <1>2, NothingMoves DEF Close, callVars, deviceVars
  <1>3. ASSUME NEW c \in Call, IsOnline(c) PROVE PrintedOnce'
    BY <1>3, NothingMoves
       DEF IsOnline, Return, ConsoleTypeOK, BeforeWrite, deviceVars
  <1>4. ASSUME NEW c \in Call, Begin(c) PROVE PrintedOnce'
    BY <1>4, NothingMoves
       DEF Begin, Return, ConsoleTypeOK, BeforeWrite, deviceVars
  <1>5. ASSUME NEW c \in Call, Write(c) PROVE PrintedOnce'
    BY <1>5, WritePrints
  <1>6. ASSUME NEW c \in Call, Answered(c) PROVE PrintedOnce'
    BY <1>6, NothingMoves
       DEF Answered, Return, ConsoleTypeOK, BeforeWrite, deviceVars
  <1>7. ASSUME NEW c \in Call, Expire(c) PROVE PrintedOnce'
    BY <1>7, NothingMoves
       DEF Expire, Return, ConsoleTypeOK, BeforeWrite, deviceVars
  <1>8. CASE PumpStep
    BY <1>8, PumpReadPrints, PumpAppendPrints DEF PumpStep
  <1>9. ASSUME NEW s \in Stream, OpenStream(s) \/ CloseStream(s) \/ ReadStep(s)
        PROVE  PrintedOnce'
    <2>1. UNCHANGED <<buf, pump, hand, at, input, wire>>
      BY <1>9, Zenon
         DEF OpenStream, CloseStream, ReadStep, ReadCheck, Take, callVars, deviceVars
    <2> QED
      BY <2>1, NothingMoves
  <1>10. CASE Respond \/ Die
    BY <1>10, RespondPrints, DiePrints
  <1> QED
    BY <1>1, <1>2, <1>3, <1>4, <1>5, <1>6, <1>7, <1>8, <1>9, <1>10
       DEF ConsoleNext, ExecuteStep

-----------------------------------------------------------------------------
(* The steps on a stream *)

LEMMA StreamTyped ==
  ASSUME ConsoleTypeOK, NEW s \in Stream
  PROVE  /\ ch[s] \in Seq(Seq(Piece)) /\ lines[s] \in Seq(Seq(Piece))
         /\ pending[s] \in Seq(Piece) /\ from[s] \in Nat
         /\ FlattenSeq(ch[s]) \in Seq(Piece) /\ FlattenSeq(lines[s]) \in Seq(Piece)
         /\ Delivered(s) \in Seq(Piece)
  <1>1. /\ ch[s] \in Seq(Seq(Piece)) /\ lines[s] \in Seq(Seq(Piece))
        /\ pending[s] \in Seq(Piece) /\ from[s] \in Nat
    BY DEF ConsoleTypeOK
  <1>2. FlattenSeq(ch[s]) \in Seq(Piece) /\ FlattenSeq(lines[s]) \in Seq(Piece)
    BY <1>1, FlattenTyped
  <1>3. FlattenSeq(lines[s]) \o pending[s] \in Seq(Piece)
    BY <1>1, <1>2, ConcatProperties
  <1> QED
    BY <1>1, <1>2, <1>3, ConcatProperties DEF Delivered

\* The same text in other hands.
LEMMA SameText ==
  ASSUME NEW s \in Stream, StreamKept(s), buf' = buf, from'[s] = from[s],
         dropped'[s] = dropped[s], Delivered(s)' = Delivered(s),
         phase'[s] = phase[s] \/ phase'[s] = "closed",
         phase'[s] = "none" => UNCHANGED <<lines[s], pending[s], ch[s]>>
  PROVE  StreamKept(s)'
  BY DEF StreamKept, InOrder

LEMMA UntouchedStream ==
  ASSUME NEW s \in Stream, StreamKept(s), buf' = buf, from'[s] = from[s],
         dropped'[s] = dropped[s], phase'[s] = phase[s] \/ phase'[s] = "closed",
         lines'[s] = lines[s], pending'[s] = pending[s], ch'[s] = ch[s]
  PROVE  StreamKept(s)'
  <1>1. Delivered(s)' = Delivered(s)
    BY DEF Delivered
  <1> QED
    BY <1>1, SameText

LEMMA OpenKeeps ==
  ASSUME ConsoleTypeOK, NEW s \in Stream, StreamKept(s), OpenStream(s)
  PROVE  StreamKept(s)'
  <1>1. /\ UNCHANGED <<buf, lines, pending, ch>> /\ phase'[s] = "open" /\ from'[s] = Len(buf)
        /\ lines[s] = <<>> /\ pending[s] = <<>> /\ ch[s] = <<>>
    BY DEF OpenStream, ConsoleTypeOK, StreamKept
  <1>2. Len(buf) \in Nat /\ buf \in Seq(Piece)
    BY DEF ConsoleTypeOK
  <1>3. Delivered(s)' = <<>>
    BY <1>1, FlattenEmpty DEF Delivered
  <1>4. SubSeq(buf, Len(buf) + 1, Len(buf)) = <<>>
    BY <1>2, SubSeqProperties
  <1>5. InOrder(<<>>, buf, Len(buf))
    BY InOrderEmpty
  <1> QED
    BY <1>1, <1>2, <1>3, <1>4, <1>5 DEF StreamKept

LEMMA ReadCheckKeeps ==
  ASSUME ConsoleTypeOK, NEW s \in Stream, StreamKept(s), ReadCheck(s)
  PROVE  StreamKept(s)'
  <1>1. UNCHANGED <<buf, phase, from, ch, dropped>> /\ phase[s] = "open"
    BY DEF ReadCheck
  <1>2. CASE LineEnds(pending[s]) = {}
    BY <1>1, <1>2, UntouchedStream DEF ReadCheck
  <1>3. CASE LineEnds(pending[s]) # {}
    <2> DEFINE p == pending[s]
               end == Min(LineEnds(p))
               line == SubSeq(p, 1, end)
               rest == SubSeq(p, end + 1, Len(p))
    <2>1. lines'[s] = Append(lines[s], line) /\ pending'[s] = rest
      BY <1>3 DEF ReadCheck, ConsoleTypeOK
    <2>2. p \in Seq(Piece) /\ end \in 1 .. Len(p)
      <3>1. p \in Seq(Piece) /\ LineEnds(p) \subseteq 1 .. Len(p) /\ Len(p) \in Nat
        BY DEF ConsoleTypeOK, LineEnds
      <3> QED
        BY <1>3, <3>1, LeastPlace
    <2> HIDE DEF end
    <2>3. line \in Seq(Piece) /\ rest \in Seq(Piece) /\ p = line \o rest
      BY <2>2, SplitText
    <2> DEFINE f == FlattenSeq(lines[s])
    <2>4. FlattenSeq(Append(lines[s], line)) = f \o line
      BY <2>3, StreamTyped, FlattenAppend
    <2> HIDE DEF line, rest
    <2>5. (f \o line) \o rest = f \o (line \o rest)
      <3>1. f \in Seq(Piece)
        BY StreamTyped
      <3>2. Joined(Joined(f, line), rest) = Joined(f, Joined(line, rest))
        BY <2>3, <3>1, Regroup
      <3> QED
        BY <3>2 DEF Joined
    <2> HIDE DEF p, f
    <2>6. Delivered(s)' = Delivered(s)
      BY <1>1, <2>1, <2>3, <2>4, <2>5 DEF Delivered, p, f
    <2> QED
      BY <1>1, <2>6, SameText
  <1> QED
    BY <1>2, <1>3

LEMMA TakeKeeps ==
  ASSUME ConsoleTypeOK, NEW s \in Stream, StreamKept(s), Take(s)
  PROVE  StreamKept(s)'
  <1>1. /\ UNCHANGED <<buf, phase, from, lines, dropped>> /\ ch[s] # <<>>
        /\ pending'[s] = pending[s] \o Head(ch[s]) /\ ch'[s] = Tail(ch[s])
    BY DEF Take, ConsoleTypeOK
  <1>2. phase[s] # "none"
    BY <1>1 DEF StreamKept
  <1> DEFINE f == FlattenSeq(lines[s])
             p == pending[s]
             h == Head(ch[s])
             t == FlattenSeq(Tail(ch[s]))
  <1>3. FlattenSeq(ch[s]) = h \o t
    BY <1>1, StreamTyped, FlattenHead
  <1>4. f \in Seq(Piece) /\ p \in Seq(Piece) /\ h \in Seq(Piece) /\ t \in Seq(Piece)
    <2>1. h \in Seq(Piece) /\ Tail(ch[s]) \in Seq(Seq(Piece))
      BY <1>1, StreamTyped, HeadTailProperties
    <2> QED
      BY <2>1, StreamTyped, FlattenTyped
  <1> HIDE DEF f, p, h, t
  <1>5. (f \o p) \o (h \o t) = (f \o (p \o h)) \o t
    <2>1. Joined(f, p) \in Seq(Piece)
      BY <1>4, ConcatProperties DEF Joined
    <2>2. Joined(Joined(f, p), Joined(h, t)) = Joined(Joined(Joined(f, p), h), t)
      BY <1>4, <2>1, Regroup
    <2>3. Joined(Joined(f, p), h) = Joined(f, Joined(p, h))
      BY <1>4, Regroup
    <2> QED
      BY <2>2, <2>3 DEF Joined
  <1>6. Delivered(s)' = Delivered(s)
    BY <1>1, <1>3, <1>5 DEF Delivered, f, p, h, t
  <1> QED
    BY <1>1, <1>2, <1>6, SameText

LEMMA PumpAppendKeeps ==
  ASSUME ConsoleTypeOK, NEW s \in Stream, StreamKept(s), PumpAppend
  PROVE  StreamKept(s)'
  <1>1. /\ UNCHANGED <<phase, from, pending, lines>> /\ buf' = buf \o hand
        /\ ch'[s] = IF s \in Subscribed /\ ~Full(s) THEN Append(ch[s], hand) ELSE ch[s]
        /\ dropped'[s] = (dropped[s] \/ (s \in Subscribed /\ Full(s)))
    BY DEF PumpAppend
  <1>2. /\ buf \in Seq(Piece) /\ hand \in Seq(Piece)
        /\ Len(buf) \in Nat /\ Len(hand) \in Nat /\ from[s] \in Nat
    BY DEF ConsoleTypeOK
  <1>3. from'[s] <= Len(buf')
    <2>1. Len(buf') = Len(buf) + Len(hand)
      BY <1>1, <1>2, ConcatProperties
    <2> QED
      BY <1>1, <1>2, <2>1 DEF StreamKept
  <1>4. phase'[s] = "none" => lines'[s] = <<>> /\ pending'[s] = <<>> /\ ch'[s] = <<>>
    BY <1>1 DEF StreamKept, Subscribed
  <1>5. CASE s \in Subscribed /\ ~Full(s)
    <2> DEFINE f == FlattenSeq(lines[s]) \o pending[s]
               g == FlattenSeq(ch[s])
    <2>1. f \in Seq(Piece) /\ g \in Seq(Piece)
      BY StreamTyped, ConcatProperties
    <2>2. FlattenSeq(Append(ch[s], hand)) = g \o hand
      BY <1>2, StreamTyped, FlattenAppend
    <2> HIDE DEF f, g
    <2>3. f \o (g \o hand) = (f \o g) \o hand
      <3>1. Joined(Joined(f, g), hand) = Joined(f, Joined(g, hand))
        BY <1>2, <2>1, Regroup
      <3> QED
        BY <3>1 DEF Joined
    <2>4. Delivered(s)' = Delivered(s) \o hand
      BY <1>1, <1>5, <2>2, <2>3 DEF Delivered, f, g
    <2>5. InOrder(Delivered(s)', buf', from'[s])
      BY <1>1, <1>2, <2>4, StreamTyped, InOrderGrows DEF StreamKept
    <2>6. ASSUME phase'[s] = "open", ~dropped'[s]
          PROVE  Delivered(s)' = SubSeq(buf', from'[s] + 1, Len(buf'))
      <3>1. Delivered(s) = SubSeq(buf, from[s] + 1, Len(buf))
        BY <1>1, <2>6 DEF StreamKept
      <3>2. SubSeq(buf, from[s] + 1, Len(buf)) \o hand
              = SubSeq(buf \o hand, from[s] + 1, Len(buf \o hand))
        BY <1>2, SuffixGrows DEF StreamKept
      <3> QED
        BY <1>1, <2>4, <3>1, <3>2
    <2> QED
      BY <1>3, <1>4, <2>5, <2>6 DEF StreamKept
  <1>6. CASE ~(s \in Subscribed /\ ~Full(s))
    <2>1. Delivered(s)' = Delivered(s)
      BY <1>1, <1>6 DEF Delivered
    <2>2. InOrder(Delivered(s)', buf', from'[s])
      BY <1>1, <1>2, <2>1, StreamTyped, InOrderKept DEF StreamKept
    <2>3. ~(phase'[s] = "open" /\ ~dropped'[s])
      BY <1>1, <1>6 DEF Subscribed
    <2> QED
      BY <1>3, <1>4, <2>2, <2>3 DEF StreamKept
  <1> QED
    BY <1>5, <1>6

LEMMA StreamInvKept ==
  ASSUME StreamInv, [ConsoleNext]_consoleVars
  PROVE  StreamInv'
  <1>1. ConsoleTypeOK'
    BY ConsoleTyped DEF StreamInv
  <1>2. PrintedOnce'
    BY PrintedKept DEF StreamInv
  <1>3. ASSUME NEW s \in Stream PROVE StreamKept(s)'
    <2> USE DEF StreamInv
    <2>1. CASE UNCHANGED <<buf, streamVars>>
      BY <2>1, UntouchedStream DEF streamVars
    <2>2. CASE PumpAppend
      BY <2>2, PumpAppendKeeps
    <2>3. ASSUME NEW t \in Stream, OpenStream(t) \/ CloseStream(t) \/ ReadStep(t)
          PROVE  StreamKept(s)'
      <3>1. CASE t # s
        <4>1. /\ buf' = buf /\ from'[s] = from[s] /\ dropped'[s] = dropped[s]
              /\ phase'[s] = phase[s] /\ lines'[s] = lines[s]
              /\ pending'[s] = pending[s] /\ ch'[s] = ch[s]
          BY <2>3, <3>1
             DEF OpenStream, CloseStream, ReadStep, ReadCheck, Take, ConsoleTypeOK
        <4> QED
          BY <4>1, UntouchedStream
      <3>2. CASE t = s /\ OpenStream(s)
        BY <3>2, OpenKeeps
      <3>3. CASE t = s /\ CloseStream(s)
        BY <3>3, UntouchedStream DEF CloseStream, ConsoleTypeOK
      <3>4. CASE t = s /\ ReadCheck(s)
        BY <3>4, ReadCheckKeeps
      <3>5. CASE t = s /\ Take(s)
        BY <3>5, TakeKeeps
      <3> QED
        BY <2>3, <3>1, <3>2, <3>3, <3>4, <3>5 DEF ReadStep
    <2>4. CASE UNCHANGED consoleVars
      BY <2>1, <2>4, Zenon DEF consoleVars
    <2>5. CASE Close
      BY <2>1, <2>5, Zenon DEF Close
    <2>6. ASSUME NEW c \in Call, IsOnline(c) \/ ExecuteStep(c) PROVE StreamKept(s)'
      BY <2>1, <2>6, Zenon DEF IsOnline, ExecuteStep, Begin, Write, Answered, Expire
    <2>7. CASE PumpRead \/ Respond \/ Die
      BY <2>1, <2>7, Zenon DEF PumpRead, Respond, Die
    <2> QED
      BY <2>2, <2>3, <2>4, <2>5, <2>6, <2>7 DEF ConsoleNext, PumpStep
  <1> QED
    BY <1>1, <1>2, <1>3 DEF StreamInv

\* In a text in which nothing comes twice the place of a piece is the only one.
LEMMA InOrderIsFaithful ==
  ASSUME NEW d, NEW n, IsInjective(buf), InOrder(d, buf, n)
  PROVE  /\ Range(d) \subseteq Range(buf)
         /\ \A i, j \in DOMAIN d : i < j => PlaceInBuf(d[i]) < PlaceInBuf(d[j])
         /\ \A i \in DOMAIN d : n < PlaceInBuf(d[i])
  <1>1. PICK place \in [DOMAIN d -> DOMAIN buf] :
          /\ \A i \in DOMAIN d : d[i] = buf[place[i]] /\ n < place[i]
          /\ \A i, j \in DOMAIN d : i < j => place[i] < place[j]
    BY DEF InOrder
  <1>2. ASSUME NEW i \in DOMAIN d PROVE PlaceInBuf(d[i]) = place[i]
    <2>1. place[i] \in DOMAIN buf /\ buf[place[i]] = d[i]
      BY <1>1
    <2>2. \A k \in DOMAIN buf : buf[k] = d[i] => k = place[i]
      BY <2>1 DEF IsInjective
    <2> QED
      BY <2>1, <2>2 DEF PlaceInBuf
  <1>3. \A i \in DOMAIN d : d[i] \in Range(buf)
    BY <1>1 DEF Range
  <1> QED
    BY <1>1, <1>2, <1>3 DEF Range

\* What a stream has taken is a part of the output, in order, and what it lacks
\* was dropped (stream.go:36, 44).
THEOREM StreamInvariant == ConsoleSpec => []StreamInv
  <1>1. ConsoleInit => StreamInv
    <2> SUFFICES ASSUME ConsoleInit PROVE StreamInv
      OBVIOUS
    <2>1. ConsoleTypeOK
      BY ConsoleInitTyped
    <2>2. PrintedOnce
      <3>1. Printed = <<>>
        BY DEF ConsoleInit, Printed
      <3> QED
        BY <3>1 DEF ConsoleInit, PrintedOnce, IsInjective, Range
    <2>3. ASSUME NEW s \in Stream PROVE StreamKept(s)
      <3>1. buf = <<>> /\ from[s] = 0 /\ lines[s] = <<>> /\ pending[s] = <<>> /\ ch[s] = <<>> /\ phase[s] = "none"
        BY DEF ConsoleInit
      <3>2. Delivered(s) = <<>>
        BY <3>1, FlattenEmpty DEF Delivered
      <3> QED
        BY <3>1, <3>2, InOrderEmpty DEF StreamKept
    <2> QED
      BY <2>1, <2>2, <2>3 DEF StreamInv
  <1> QED
    BY <1>1, StreamInvKept, PTL DEF ConsoleSpec

\* A stream never repeats, invents or reorders output, and while it is open and
\* nothing was dropped it has all of it (console.go:173-175; stream.go:36, 44).
THEOREM StreamsAreFaithful == ConsoleSpec => []StreamFaithful
  <1>1. StreamInv => StreamFaithful
    <2> SUFFICES ASSUME StreamInv PROVE StreamFaithful
      OBVIOUS
    <2>1. IsInjective(buf)
      <3>1. buf \in Seq(Piece) /\ hand \in Seq(Piece) /\ wire \in Seq(Piece)
            /\ buf \o hand \in Seq(Piece)
        BY PrintedTyped DEF StreamInv, ConsoleTypeOK
      <3>2. IsInjective(buf \o hand)
        BY <3>1, InjectivePrefix DEF StreamInv, PrintedOnce, Printed
      <3> QED
        BY <3>1, <3>2, InjectivePrefix
    <2>2. \A s \in Stream : StreamKept(s)
      BY DEF StreamInv
    <2> QED
      BY <2>1, <2>2, InOrderIsFaithful DEF StreamFaithful, StreamKept
  <1> QED
    BY <1>1, StreamInvariant, PTL
=============================================================================
