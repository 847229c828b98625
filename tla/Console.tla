------------------------------ MODULE Console ------------------------------
(***************************************************************************)
(* A console device behind a byte stream: transport/console (the reader    *)
(* pump, Execute and the streams of one Console), the calls that the uart  *)
(* and tcp plugins make of it, and the far device, which reads commands    *)
(* and prints answers like fake/tcpdevice.go.                              *)
(*                                                                         *)
(* The text is abstracted to pieces: the echo and the answer of a command  *)
(* (a line) and the prompt (no line end).  The pump reads any number of    *)
(* pieces at once.  The 5 seconds of Execute may pass at any moment.       *)
(*                                                                         *)
(* An action that needs c.mu is enabled while mu is free; a call holds mu  *)
(* over several steps only for its Write.  On a link that buffers (socket, *)
(* serial port) a Write returns at once; without (net.Pipe) each side      *)
(* waits for the other to read.                                            *)
(***************************************************************************)
EXTENDS Naturals, FiniteSets, SequencesExt

CONSTANTS Call,      \* the commands: Execute by Invoke, or ...
          Resets,    \* ... by PowerCycle, which asks nothing before
          Stream,    \* the streams that may be opened
          Capacity,  \* of s.ch, in chunks (256 in the code)
          Buffered,  \* whether the link buffers what is written
          Nobody

ASSUME ConsoleAssumption ==
  /\ Resets \subseteq Call
  /\ Capacity \in Nat
  /\ Buffered \in BOOLEAN
  /\ Nobody \notin Call

VARIABLES
  open,      \* c.rwc # nil; Close clears it together with setting c.closed
  mu,        \* the call that holds c.mu while it writes
  buf,       \* c.buf
  pump,      \* where readLoop stands
  hand,      \* what it has read and not yet appended
  at,        \* where each call stands
  start,     \* len(c.buf) when the call began
  ended,     \* the category of its error, "ok", or "partial": no error, but no prompt
  answer,    \* what it returned
  cable,     \* the connection: "up", "eof" (peer closed), "reset"
  input,     \* the commands the device has still to read
  wire,      \* what it has printed and the pump has still to read
  phase,     \* the life of each stream
  from,      \* len(c.buf) when it was opened
  ch,        \* s.ch: the chunks pushed and not taken
  pending,   \* s.pending
  lines,     \* what Read has returned, the line number i has Sequence i
  reader,    \* where its only reader stands
  dropped,   \* history: a chunk was dropped
  shared     \* history: calls that overlapped with others, or came after such
             \* a call or after one that timed out

callVars == <<at, start, ended, answer, shared>>
deviceVars == <<cable, input, wire>>
streamVars == <<phase, from, ch, pending, lines, reader, dropped>>
consoleVars == <<open, mu, buf, pump, hand, callVars, deviceVars, streamVars>>

Answer(c) == [kind |-> "answer", of |-> c]
Prompt(c) == [kind |-> "prompt", of |-> c]
Piece == {Answer(c) : c \in Call} \cup {Prompt(c) : c \in Call}

CallPC == {"idle", "ready", "writing", "polling", "done"}
Outcome == {"none", "CONNECTION", "DEVICE_STATE", "PROTOCOL", "ok", "partial"}

ConsoleInit ==
  /\ open = TRUE /\ mu = Nobody /\ buf = <<>> /\ pump = "read" /\ hand = <<>>
  /\ at = [c \in Call |-> "idle"]
  /\ start = [c \in Call |-> 0]
  /\ ended = [c \in Call |-> "none"]
  /\ answer = [c \in Call |-> <<>>]
  /\ shared = {}
  /\ cable = "up" /\ input = <<>> /\ wire = <<>>
  /\ phase = [s \in Stream |-> "none"]
  /\ from = [s \in Stream |-> 0]
  /\ ch = [s \in Stream |-> <<>>]
  /\ pending = [s \in Stream |-> <<>>]
  /\ lines = [s \in Stream |-> <<>>]
  /\ reader = [s \in Stream |-> "check"]
  /\ dropped = [s \in Stream |-> FALSE]

MuFree == mu = Nobody

-----------------------------------------------------------------------------
(* Execute, and the question that Invoke of the plugin asks before it. *)

Return(c, category, text) ==
  /\ at' = [at EXCEPT ![c] = "done"]
  /\ ended' = [ended EXCEPT ![c] = category]
  /\ answer' = [answer EXCEPT ![c] = text]

\* Invoke asks whether the console is online.
IsOnline(c) ==
  /\ at[c] = "idle" /\ c \notin Resets /\ MuFree
  /\ \/ /\ open
        /\ at' = [at EXCEPT ![c] = "ready"]
        /\ UNCHANGED <<ended, answer>>
     \/ ~open /\ Return(c, "DEVICE_STATE", <<>>)
  /\ UNCHANGED <<open, mu, buf, pump, hand, start, shared, deviceVars, streamVars>>

InExecute == {c \in Call : at[c] \in {"writing", "polling"}}

Raw(c) == SubSeq(buf, start[c] + 1, Len(buf))

Prompts(text) == {i \in DOMAIN text : text[i].kind = "prompt"}

TimedOut == {c \in Call : ended[c] = "partial"}

\* The first section of c.mu, up to the Write.
Begin(c) ==
  /\ at[c] = "ready" \/ (at[c] = "idle" /\ c \in Resets)
  /\ MuFree
  /\ \/ /\ open
        /\ start' = [start EXCEPT ![c] = Len(buf)]
        /\ mu' = c
        /\ at' = [at EXCEPT ![c] = "writing"]
        /\ shared' = shared \cup (IF InExecute = {} THEN {} ELSE InExecute \cup {c})
                            \cup (IF TimedOut \cup shared = {} THEN {} ELSE {c})
        /\ UNCHANGED <<ended, answer>>
     \/ ~open /\ Return(c, "PROTOCOL", <<>>) /\ UNCHANGED <<mu, start, shared>>
  /\ UNCHANGED <<open, buf, pump, hand, deviceVars, streamVars>>

\* The Write.  Of a connection that is gone it may report an error, or not yet.
Write(c) ==
  /\ at[c] = "writing"
  /\ mu' = Nobody
  /\ \/ /\ cable = "up"
        /\ Buffered \/ (input = <<>> /\ wire = <<>>)
        /\ input' = Append(input, c)
        /\ at' = [at EXCEPT ![c] = "polling"]
        /\ UNCHANGED <<ended, answer>>
     \/ /\ cable # "up"
        /\ \/ at' = [at EXCEPT ![c] = "polling"] /\ UNCHANGED <<ended, answer>>
           \/ Return(c, "PROTOCOL", <<>>)
        /\ UNCHANGED input
  /\ UNCHANGED <<open, buf, pump, hand, start, shared, cable, wire, streamVars>>

\* CleanResponse: what precedes the last prompt.
CleanResponse(text) ==
  IF Prompts(text) = {} THEN text ELSE SubSeq(text, 1, Max(Prompts(text)) - 1)

\* A prompt anywhere in the buffer ends the wait.
AnsweredByAny(c) ==
  /\ at[c] = "polling" /\ MuFree
  /\ Prompts(buf) # {}
  /\ Return(c, "ok", CleanResponse(Raw(c)))
  /\ UNCHANGED <<open, mu, buf, pump, hand, start, shared, deviceVars, streamVars>>

\* A prompt has come since the call began.
Answered(c) ==
  /\ at[c] = "polling" /\ MuFree
  /\ Prompts(Raw(c)) # {}
  /\ Return(c, "ok", CleanResponse(Raw(c)))
  /\ UNCHANGED <<open, mu, buf, pump, hand, start, shared, deviceVars, streamVars>>

\* Only what the pump has read ends the wait.
ExpireOnOutput(c) ==
  /\ at[c] = "polling" /\ MuFree
  /\ Prompts(Raw(c)) = {}
  /\ Raw(c) # <<>>
  /\ Return(c, "partial", Raw(c))
  /\ UNCHANGED <<open, mu, buf, pump, hand, start, shared, deviceVars, streamVars>>

\* The deadline has passed: what has come so far is the answer, without error.
Expire(c) ==
  /\ at[c] = "polling" /\ MuFree
  /\ Prompts(Raw(c)) = {}
  /\ Return(c, "partial", Raw(c))
  /\ UNCHANGED <<open, mu, buf, pump, hand, start, shared, deviceVars, streamVars>>

-----------------------------------------------------------------------------
(* The pump, and Close *)

\* rwc.Read: some of what has arrived; io.EOF; or the error of a connection
\* closed by Close, with which the loop sees c.closed.  After any other error
\* the loop tries again at once.
PumpRead ==
  /\ pump = "read"
  /\ \/ /\ open /\ wire # <<>>
        /\ \E n \in DOMAIN wire :
             /\ hand' = SubSeq(wire, 1, n)
             /\ wire' = SubSeq(wire, n + 1, Len(wire))
        /\ pump' = "append"
     \/ /\ ~open \/ (wire = <<>> /\ cable = "eof")
        /\ pump' = "ended"
        /\ UNCHANGED <<hand, wire>>
  /\ UNCHANGED <<open, mu, buf, callVars, cable, input, streamVars>>

Subscribed == {s \in Stream : phase[s] = "open"}
Full(s) == Len(ch[s]) >= Capacity

\* The buffer and, by push, every stream get the bytes in one section of c.mu.
PumpAppend ==
  /\ pump = "append" /\ MuFree
  /\ buf' = buf \o hand
  /\ ch' = [s \in Stream |-> IF s \in Subscribed /\ ~Full(s) THEN Append(ch[s], hand)
                                                          ELSE ch[s]]
  /\ dropped' = [s \in Stream |-> dropped[s] \/ (s \in Subscribed /\ Full(s))]
  /\ hand' = <<>> /\ pump' = "read"
  /\ UNCHANGED <<open, mu, callVars, deviceVars, phase, from, pending, lines, reader>>

\* Console.Close; the connection is closed too, so that a Read returns.
Close ==
  /\ MuFree /\ open
  /\ open' = FALSE
  /\ UNCHANGED <<mu, buf, pump, hand, callVars, deviceVars, streamVars>>

-----------------------------------------------------------------------------
(* The streams *)

\* Plugin.Stream and OpenStream: in c.subs from here on.
OpenStream(s) ==
  /\ phase[s] = "none"
  /\ MuFree /\ open
  /\ phase' = [phase EXCEPT ![s] = "open"]
  /\ from' = [from EXCEPT ![s] = Len(buf)]
  /\ UNCHANGED <<open, mu, buf, pump, hand, callVars, deviceVars,
                 ch, pending, lines, reader, dropped>>

\* Stream.Close: out of c.subs under c.mu, then s.closed under s.mu; no push
\* falls in between.
CloseStream(s) ==
  /\ phase[s] = "open" /\ MuFree
  /\ phase' = [phase EXCEPT ![s] = "closed"]
  /\ UNCHANGED <<open, mu, buf, pump, hand, callVars, deviceVars,
                 from, ch, pending, lines, reader, dropped>>

LineEnds(text) == {i \in DOMAIN text : text[i].kind # "prompt"}

\* The line stays in s.pending.
ReadCheckKeeping(s) ==
  /\ phase[s] = "open" /\ reader[s] = "check"
  /\ \/ /\ LineEnds(pending[s]) # {}
        /\ lines' = [lines EXCEPT ![s] =
                       Append(@, SubSeq(pending[s], 1, Min(LineEnds(pending[s]))))]
        /\ reader' = [reader EXCEPT ![s] = "select"]
     \/ /\ LineEnds(pending[s]) = {}
        /\ reader' = [reader EXCEPT ![s] = "select"]
        /\ UNCHANGED lines
  /\ UNCHANGED <<open, mu, buf, pump, hand, callVars, deviceVars,
                 phase, from, ch, pending, dropped>>

\* Read under s.mu: the first whole line, or to the select.  After CloseStream
\* it returns the Closed chunk, again and again.
ReadCheck(s) ==
  /\ phase[s] = "open" /\ reader[s] = "check"
  /\ \/ /\ LineEnds(pending[s]) # {}
        /\ LET end == Min(LineEnds(pending[s]))
           IN  /\ lines' = [lines EXCEPT ![s] = Append(@, SubSeq(pending[s], 1, end))]
               /\ pending' = [pending EXCEPT ![s] = SubSeq(@, end + 1, Len(@))]
        /\ UNCHANGED reader
     \/ /\ LineEnds(pending[s]) = {}
        /\ reader' = [reader EXCEPT ![s] = "select"]
        /\ UNCHANGED <<pending, lines>>
  /\ UNCHANGED <<open, mu, buf, pump, hand, callVars, deviceVars,
                 phase, from, ch, dropped>>

\* A chunk arrives at the select of Read.  A reader whose ctx ends, or that
\* does not call Read again, stays where it is: nothing makes it go on.
Take(s) ==
  /\ reader[s] = "select" /\ ch[s] # <<>>
  /\ pending' = [pending EXCEPT ![s] = @ \o Head(ch[s])]
  /\ ch' = [ch EXCEPT ![s] = Tail(@)]
  /\ reader' = [reader EXCEPT ![s] = "check"]
  /\ UNCHANGED <<open, mu, buf, pump, hand, callVars, deviceVars,
                 phase, from, lines, dropped>>

-----------------------------------------------------------------------------
(* The far device *)

\* It reads a command, prints its echo, its answer and the prompt.
Respond ==
  /\ cable = "up" /\ input # <<>>
  /\ Buffered \/ wire = <<>>
  /\ wire' = wire \o <<Answer(Head(input)), Prompt(Head(input))>>
  /\ input' = Tail(input)
  /\ UNCHANGED <<open, mu, buf, pump, hand, callVars, cable, streamVars>>

\* It closes the connection, or crashes, in which case what is under way is lost.
Die ==
  /\ cable = "up"
  /\ \/ cable' = "eof" /\ UNCHANGED wire
     \/ cable' = "reset" /\ wire' = <<>>
  /\ input' = <<>>
  /\ UNCHANGED <<open, mu, buf, pump, hand, callVars, streamVars>>

-----------------------------------------------------------------------------
ExecuteStep(c) == Begin(c) \/ Write(c) \/ Answered(c) \/ Expire(c)
PumpStep == PumpRead \/ PumpAppend
ReadStep(s) == ReadCheck(s) \/ Take(s)

ConsoleNext ==
  \/ Close
  \/ \E c \in Call : IsOnline(c) \/ ExecuteStep(c)
  \/ PumpStep
  \/ \E s \in Stream : OpenStream(s) \/ CloseStream(s) \/ ReadStep(s)
  \/ Respond \/ Die

ConsoleSpec == ConsoleInit /\ [][ConsoleNext]_consoleVars

\* The goroutines run: the pump, and every call that has been made (its
\* deadline passes).  Nobody has to call, close or answer.
FairConsoleSpec ==
  /\ ConsoleSpec
  /\ WF_consoleVars(PumpStep)
  /\ \A c \in Call : WF_consoleVars(ExecuteStep(c))

-----------------------------------------------------------------------------
(* Properties *)

ConsoleTypeOK ==
  /\ open \in BOOLEAN
  /\ mu \in Call \cup {Nobody}
  /\ buf \in Seq(Piece) /\ hand \in Seq(Piece) /\ wire \in Seq(Piece)
  /\ pump \in {"read", "append", "ended"}
  /\ at \in [Call -> CallPC]
  /\ start \in [Call -> Nat]
  /\ ended \in [Call -> Outcome]
  /\ answer \in [Call -> Seq(Piece)]
  /\ shared \subseteq Call
  /\ cable \in {"up", "eof", "reset"}
  /\ input \in Seq(Call)
  /\ phase \in [Stream -> {"none", "open", "closed"}]
  /\ from \in [Stream -> Nat]
  /\ ch \in [Stream -> Seq(Seq(Piece))]
  /\ pending \in [Stream -> Seq(Piece)]
  /\ lines \in [Stream -> Seq(Seq(Piece))]
  /\ reader \in [Stream -> {"check", "select"}]
  /\ dropped \in [Stream -> BOOLEAN]

\* A command that had the console to itself, after commands that had it to
\* themselves and did not time out, returns its own answer, unless its deadline
\* passed: neither the rest of an earlier answer nor a prompt that is already in
\* the buffer ends its wait (console.go:119, 130).  After two that overlapped
\* this is not so: the prompt of the first ends both, and the answer to the
\* second is still to come.
AnswerIsOwn ==
  \A c \in Call \ shared :
    ended[c] = "ok" => answer[c] = <<Answer(c)>>

\* What a stream has delivered, is about to deliver, or has buffered.
Delivered(s) == FlattenSeq(lines[s]) \o pending[s] \o FlattenSeq(ch[s])

PlaceInBuf(p) == CHOOSE i \in DOMAIN buf : buf[i] = p

\* A stream never repeats, invents or reorders output, and while no chunk was
\* dropped its lines are all that was printed since it was opened
\* (stream.go:36, 44).
StreamFaithful ==
  \A s \in Stream :
    LET d == Delivered(s)
    IN  /\ Range(d) \subseteq Range(buf)
        /\ \A i, j \in DOMAIN d : i < j => PlaceInBuf(d[i]) < PlaceInBuf(d[j])
        /\ \A i \in DOMAIN d : from[s] < PlaceInBuf(d[i])
        /\ phase[s] = "open" /\ ~dropped[s] => d = SubSeq(buf, from[s] + 1, Len(buf))

\* Execute waits for the prompt to return, or a timeout (console.go:117).
ExecuteReturns == \A c \in Call : at[c] = "writing" ~> at[c] = "done"
=============================================================================
