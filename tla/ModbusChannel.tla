---------------------------- MODULE ModbusChannel ----------------------------
(***************************************************************************)
(* Operations over one Modbus channel: the plugin and its client           *)
(* (plugin/modbus), the server at the other end (fake/modbus.go) and what  *)
(* the engine (core/operation/engine.go) does with an error of theirs.     *)
(* A client writes a request and reads the response under its own mutex,   *)
(* without a deadline; the answers carry no number that would tell whose   *)
(* they are.  The table of the plugin is replaced when the channel is      *)
(* opened again, while older clients may still be in use.                  *)
(*                                                                         *)
(* Every capability is without ResourceRequirements: the operations run at *)
(* the same time.  Every error of a client is of category PROTOCOL, for    *)
(* which the recovery ladder has L3 only, and there is one channel.        *)
(* Requests whose parameters do not parse are left out, and quantities so  *)
(* large that the length of the response wraps.                            *)
(***************************************************************************)
EXTENDS Naturals, Sequences

CONSTANTS Op,        \* the operations on the channel
          Code,      \* the function code of each: 3 and 4 read, 6 writes
          Quantity,  \* how many registers it asks for
          MaxDials   \* bound: connections made

\* 2 * quantity + 3 bytes of a response are counted by sixteen bits.
LongestAnswer == 32766

ASSUME ModbusAssumption ==
  /\ Code \in [Op -> {3, 4, 6}]
  /\ Quantity \in [Op -> 1 .. LongestAnswer]
  /\ MaxDials \in Nat \ {0}
  /\ "none" \notin Op

Conn == 1 .. MaxDials

VARIABLES
  listening,  \* the server accepts connections
  ready,      \* the channel is READY
  bound,      \* Plugin.channels: the client it stands for, the latest connection
  link,       \* of each connection
  inbox,      \* what the server has not read of it
  outbox,     \* what the client has not read of it
  holder,     \* who holds the mutex of the client
  pc,         \* where each operation stands
  asks,       \* what for it uses the client: "invoke" or "observe"
  using,      \* the client that it has looked up
  outcome,    \* the terminal state
  got,        \* what its response was: for whom, how many registers
  \* history, read by properties only
  applied     \* how often the server has done what it asks for

wireVars == <<link, inbox, outbox>>
vars == <<listening, ready, bound, wireVars, holder, pc, asks, using, outcome, got, applied>>

Request == [of : Op, code : {3, 4, 6}, quantity : Nat]
Response == [of : Op, code : {3, 4, 6}, count : Nat]
Nothing == [of |-> "none", count |-> 0]

Init ==
  /\ listening = TRUE /\ ready = TRUE /\ bound = 1
  /\ link = [c \in Conn |-> IF c = 1 THEN "up" ELSE "none"]
  /\ inbox = [c \in Conn |-> <<>>]
  /\ outbox = [c \in Conn |-> <<>>]
  /\ holder = [c \in Conn |-> "none"]
  /\ pc = [o \in Op |-> "new"]
  /\ asks = [o \in Op |-> "none"]
  /\ using = [o \in Op |-> 0]
  /\ outcome = [o \in Op |-> "none"]
  /\ got = [o \in Op |-> Nothing]
  /\ applied = [o \in Op |-> 0]

Goto(o, place) == pc' = [pc EXCEPT ![o] = place]

Finish(o, s) ==
  /\ Goto(o, "over")
  /\ outcome' = [outcome EXCEPT ![o] = s]
  /\ asks' = [asks EXCEPT ![o] = "none"]
  /\ using' = [using EXCEPT ![o] = 0]

-----------------------------------------------------------------------------
(* Open and Recover dial; the client that the table had is left as it is. *)

Dial ==
  /\ listening /\ bound < MaxDials
  /\ bound' = bound + 1
  /\ link' = [link EXCEPT ![bound + 1] = "up"]
  /\ ready' = TRUE
  /\ UNCHANGED <<listening, inbox, outbox>>

\* The head of the loop, after the channel was resolved: it must be READY for
\* ResolveChannel, and is opened when it is no longer.
Resolve(o) ==
  /\ pc[o] = "new"
  /\ \/ ready /\ Goto(o, "loop") /\ UNCHANGED <<outcome, asks, using>>
     \/ ~ready /\ Finish(o, "RESOLVE_FAILED")
  /\ UNCHANGED <<listening, ready, bound, wireVars, holder, got, applied>>

Loop(o) ==
  /\ pc[o] = "loop"
  /\ asks' = [asks EXCEPT ![o] = "invoke"]
  /\ Goto(o, "call")
  /\ \/ ready /\ UNCHANGED <<listening, ready, bound, wireVars>>
     \/ ~ready /\ Dial
  /\ UNCHANGED <<holder, using, outcome, got, applied>>

OpenFails(o) ==
  /\ pc[o] = "loop" /\ ~ready /\ ~listening
  /\ Finish(o, "RUN_FAILED")
  /\ UNCHANGED <<listening, ready, bound, wireVars, holder, got, applied>>

\* Discovery opens the channel that is no longer READY.
Rediscover ==
  /\ ~ready
  /\ Dial
  /\ UNCHANGED <<holder, pc, asks, using, outcome, got, applied>>

-----------------------------------------------------------------------------
(* A transaction: transact, WriteRegister *)

\* Plugin.client.
LookUp(o) ==
  /\ pc[o] = "call"
  /\ using' = [using EXCEPT ![o] = bound]
  /\ Goto(o, "lock")
  /\ UNCHANGED <<listening, ready, bound, wireVars, holder, asks, outcome, got, applied>>

\* The mutex is forgotten.
LockNothing(o) ==
  /\ pc[o] = "lock"
  /\ Goto(o, "send")
  /\ UNCHANGED <<listening, ready, bound, wireVars, holder, asks, using, outcome, got, applied>>

Lock(o) ==
  /\ pc[o] = "lock" /\ holder[using[o]] = "none"
  /\ holder' = [holder EXCEPT ![using[o]] = o]
  /\ Goto(o, "send")
  /\ UNCHANGED <<listening, ready, bound, wireVars, asks, using, outcome, got, applied>>

Unlock(o) == holder' = [holder EXCEPT ![using[o]] = "none"]

\* Observe reads one input register.
RequestOf(o) ==
  IF asks[o] = "observe" THEN [of |-> o, code |-> 4, quantity |-> 1]
  ELSE [of |-> o, code |-> Code[o], quantity |-> Quantity[o]]

Send(o) ==
  /\ pc[o] = "send" /\ link[using[o]] = "up"
  /\ inbox' = [inbox EXCEPT ![using[o]] = Append(@, RequestOf(o))]
  /\ Goto(o, "read")
  /\ UNCHANGED <<listening, ready, bound, link, outbox, holder, asks, using, outcome, got, applied>>

\* A response with the code of the request is the answer.
Read(o) ==
  LET c == using[o]
      response == Head(outbox[c]) IN
  /\ pc[o] = "read" /\ outbox[c] # <<>>
  /\ outbox' = [outbox EXCEPT ![c] = Tail(@)]
  /\ Unlock(o)
  /\ \/ /\ response.code = RequestOf(o).code /\ asks[o] = "invoke"
        /\ got' = [got EXCEPT ![o] = [of |-> response.of, count |-> response.count]]
        /\ Finish(o, "SUCCEEDED")
     \/ /\ response.code = RequestOf(o).code /\ asks[o] = "observe"
        /\ Goto(o, "online")
        /\ UNCHANGED <<got, outcome, asks, using>>
     \/ /\ response.code # RequestOf(o).code
        /\ Goto(o, IF asks[o] = "invoke" THEN "failed" ELSE "offline")
        /\ UNCHANGED <<got, outcome, asks, using>>
  /\ UNCHANGED <<listening, ready, bound, link, inbox, applied>>

\* conn.Write or io.ReadFull fail; the mutex is given back all the same.
ErrorKeepingLock(o) ==
  /\ pc[o] \in {"send", "read"} /\ link[using[o]] = "down"
  /\ Goto(o, IF asks[o] = "invoke" THEN "failed" ELSE "offline")
  /\ UNCHANGED <<listening, ready, bound, wireVars, holder, asks, using, outcome, got, applied>>

Error(o) ==
  /\ pc[o] \in {"send", "read"} /\ link[using[o]] = "down"
  /\ Unlock(o)
  /\ Goto(o, IF asks[o] = "invoke" THEN "failed" ELSE "offline")
  /\ UNCHANGED <<listening, ready, bound, wireVars, asks, using, outcome, got, applied>>

-----------------------------------------------------------------------------
(* After an error *)

Observe(o) ==
  /\ pc[o] = "failed"
  /\ asks' = [asks EXCEPT ![o] = "observe"]
  /\ Goto(o, "call")
  /\ UNCHANGED <<listening, ready, bound, wireVars, holder, using, outcome, got, applied>>

\* As if the error were of category CONNECTION: L2 dials again, and the loop
\* goes on.
RecoverByDialling(o) ==
  /\ pc[o] \in {"online", "offline"}
  /\ \/ /\ Dial
        /\ Goto(o, "loop")
        /\ UNCHANGED <<asks, using, outcome>>
     \/ /\ ready' = FALSE
        /\ Finish(o, IF pc[o] = "online" THEN "RUN_FAILED" ELSE "UNKNOWN")
        /\ UNCHANGED <<listening, bound, wireVars>>
  /\ UNCHANGED <<holder, got, applied>>

\* L3 degrades the channel and finds no other; the state that is left follows
\* the observation.  The budget may be spent already: nothing is degraded then.
Recover(o) ==
  /\ pc[o] \in {"online", "offline"}
  /\ ready' \in {ready, FALSE}
  /\ Finish(o, IF pc[o] = "online" THEN "RUN_FAILED" ELSE "UNKNOWN")
  /\ UNCHANGED <<listening, bound, wireVars, holder, got, applied>>

-----------------------------------------------------------------------------
(* The server *)

\* The byte count of a response is one byte: it says 2 * quantity modulo 256.
CountOf(r) == IF r.code = 6 THEN 1 ELSE ((2 * r.quantity) % 256) \div 2

\* handle and handlePDU: a request that has arrived is served, even when the
\* answer cannot be written any more.
Serve(c) ==
  LET r == Head(inbox[c]) IN
  /\ inbox[c] # <<>>
  /\ inbox' = [inbox EXCEPT ![c] = Tail(@)]
  /\ outbox' = IF link[c] = "up"
               THEN [outbox EXCEPT ![c] = Append(@, [of |-> r.of, code |-> r.code, count |-> CountOf(r)])]
               ELSE outbox
  /\ applied' = IF r.code = 6 THEN [applied EXCEPT ![r.of] = @ + 1] ELSE applied
  /\ UNCHANGED <<listening, ready, bound, link, holder, pc, asks, using, outcome, got>>

\* A connection breaks: what was under way may be lost or not.
Break(c) ==
  /\ link[c] = "up"
  /\ link' = [link EXCEPT ![c] = "down"]
  /\ \E lost \in SUBSET {"request", "response"} :
       /\ inbox' = IF "request" \in lost THEN [inbox EXCEPT ![c] = <<>>] ELSE inbox
       /\ outbox' = IF "response" \in lost THEN [outbox EXCEPT ![c] = <<>>] ELSE outbox
  /\ UNCHANGED <<listening, ready, bound, holder, pc, asks, using, outcome, got, applied>>

\* ModbusServer.Close and a new server at the same address: connections that
\* exist are served on.
Listen ==
  /\ listening' = ~listening
  /\ UNCHANGED <<ready, bound, wireVars, holder, pc, asks, using, outcome, got, applied>>

Step(o) ==
  \/ Resolve(o) \/ Loop(o) \/ OpenFails(o) \/ LookUp(o) \/ Lock(o) \/ Send(o) \/ Read(o)
  \/ Error(o) \/ Observe(o) \/ Recover(o)

Next ==
  \/ \E o \in Op : Step(o)
  \/ \E c \in Conn : Serve(c) \/ Break(c)
  \/ Rediscover \/ Listen

\* The goroutines run.  The server answers what it has received, or the
\* connection breaks: the client has no deadline of its own.
Fairness ==
  /\ \A o \in Op : WF_vars(Step(o))
  /\ \A c \in Conn : WF_vars(Serve(c))

Spec == Init /\ [][Next]_vars
FairSpec == Spec /\ Fairness

-----------------------------------------------------------------------------
(* Properties *)

TypeOK ==
  /\ listening \in BOOLEAN /\ ready \in BOOLEAN
  /\ bound \in Conn
  /\ link \in [Conn -> {"none", "up", "down"}]
  /\ inbox \in [Conn -> Seq(Request)]
  /\ outbox \in [Conn -> Seq(Response)]
  /\ holder \in [Conn -> Op \cup {"none"}]
  /\ pc \in [Op -> {"new", "loop", "call", "lock", "send", "read", "failed", "online",
                    "offline", "over"}]
  /\ asks \in [Op -> {"none", "invoke", "observe"}]
  /\ using \in [Op -> Conn \cup {0}]
  /\ outcome \in [Op -> {"none", "SUCCEEDED", "RESOLVE_FAILED", "RUN_FAILED", "UNKNOWN"}]
  /\ got \in [Op -> Response \cup {Nothing} \cup [of : Op, count : Nat]]
  /\ applied \in [Op -> Nat]

\* A caller gets the response to its own request, with as many registers as it
\* has asked for as long as twice their number fits the byte of the count: the
\* mutex of the client is held until the response is read, and a response that
\* somebody has stopped waiting for dies with its connection.
OwnReply ==
  \A o \in Op :
    outcome[o] = "SUCCEEDED" =>
      /\ got[o].of = o
      /\ Code[o] # 6 /\ Quantity[o] <= 127 => got[o].count = Quantity[o]

\* A write whose response is lost is not repeated: the server does it at most
\* once, and has done it when the caller is told so.
WritesOnce ==
  \A o \in Op :
    /\ applied[o] <= 1
    /\ outcome[o] = "SUCCEEDED" /\ Code[o] = 6 => applied[o] = 1

\* Nobody waits in vain: who reads without a deadline has its request or its
\* response under way, or the read fails, and who waits for the mutex of a client
\* waits for an operation that works with this client.
NobodyWaitsInVain ==
  \A o \in Op :
    LET c == using[o] IN
    /\ pc[o] = "read" => inbox[c] # <<>> \/ outbox[c] # <<>> \/ link[c] = "down"
    /\ pc[o] = "lock" /\ holder[c] # "none" =>
         using[holder[c]] = c /\ pc[holder[c]] \in {"send", "read"}

\* Whoever has begun to use a client comes back, whatever happens to the
\* connections: an error gives the mutex back, so nobody waits for it for ever.
EveryCallReturns == \A o \in Op : pc[o] = "call" ~> pc[o] = "over"
=============================================================================
