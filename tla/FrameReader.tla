----------------------------- MODULE FrameReader ------------------------------
(***************************************************************************)
(* How the server turns the frames of one connection into messages:        *)
(* read_message and read_message_content, each a chain of async_reads whose *)
(* handlers run on the server thread one after the other.                  *)
(*                                                                         *)
(* The client follows the protocol in the order of its frames (it may put  *)
(* control frames between the fragments of a message) but may forget the   *)
(* mask.  A payload is an identity and a length; a message is the sequence *)
(* of the payloads of its fragments.  Timeouts are SendQueue's business.   *)
(*                                                                         *)
(* Lengths have the width of the code's: 8 bytes on the wire and in a      *)
(* size_t, whose sums wrap.  A byte has Radix values, 256 in the code.     *)
(***************************************************************************)
EXTENDS Naturals, Sequences, SequencesExt, FiniteSetsExt

CONSTANTS Radix,             \* how many values a byte has
          Lengths,           \* payload lengths a client uses
          max_message_size,  \* Config::max_message_size
          MaxFrames,         \* frames the client sends at most (bound)
          None

VARIABLES wire,       \* frames sent and not yet read
          frames,     \* how many frames the client sent; names payloads
          part,       \* fragments of the message the client is amid
          sent,       \* history: the messages it completed
          stage,      \* which async_read is outstanding, or how the end is told
          frame,      \* the frame being read: fin, opcode, length found so far
          fragmented, \* fragmented_in_message
          delivered,  \* history: messages on_message got
          pongs,      \* history: pongs queued
          closes,     \* history: status of the close frames queued
          reports     \* history: on_close and on_error calls

clientVars == <<frames, part, sent>>
readVars   == <<stage, frame, fragmented>>
outVars    == <<delivered, pongs, closes, reports>>
vars       == <<wire, clientVars, readVars, outVars>>

Ids      == 1 .. MaxFrames
Opcodes  == {"data", "continue", "close", "ping", "pong"}
Payloads == Ids \X Lengths
Byte     == 0 .. Radix - 1

\* What a bit counts that is shifted left by k bytes: 256^k in the code.
Place[k \in 0 .. 8] == IF k = 0 THEN 1 ELSE Radix * Place[k - 1]

\* A sum of two size_t.
Plus(m, n) == (m + n) % Place[8]

\* An async_read is outstanding.
Reading == stage \in {"header", "length", "content"}

\* As on the wire: a 7-bit length, and 0, 2 or 8 more bytes.
Frames == [fin : BOOLEAN, op : Opcodes, masked : BOOLEAN, short : 0 .. 127, bytes : Seq(Byte),
           payload : Payloads]

TypeOK ==
  /\ wire \in Seq(Frames) /\ frames \in 0 .. MaxFrames
  /\ part \in Seq(Payloads) /\ sent \in Seq(Seq(Payloads))
  /\ stage \in {"header", "length", "content", "toobig", "closed", "done"}
  /\ frame \in {None} \cup [f : Frames, length : Lengths \cup {0}] /\ (stage \in {"length", "content"} <=> frame # None)
  /\ fragmented \in {None} \cup [length : 0 .. max_message_size, body : Seq(Payloads)]
  /\ delivered \in Seq(Seq(Payloads)) /\ pongs \in Seq(Payloads)
  /\ closes \in Seq({0, 1002, 1009}) /\ reports \in Seq({"close", "error"})

Init ==
  /\ wire = << >> /\ frames = 0 /\ part = << >> /\ sent = << >>
  /\ stage = "header" /\ frame = None /\ fragmented = None
  /\ delivered = << >> /\ pongs = << >> /\ closes = << >> /\ reports = << >>

--------------------------------------------------------------------------------
(* The client (external). *)

\* Big-endian bytes of a length, n of them.
BytesOf(l, n) == [c \in 1 .. n |-> (l \div Place[n - c]) % Radix]

Encode(l) == CASE l < 126 -> [short |-> l, bytes |-> << >>]
               [] l >= 126 /\ l < Place[2] -> [short |-> 126, bytes |-> BytesOf(l, 2)]
               [] l >= 126 /\ l >= Place[2] -> [short |-> 127, bytes |-> BytesOf(l, 8)]

Put(fin, op, l, masked) ==
  /\ frames < MaxFrames /\ stage # "done"
  /\ frames' = frames + 1
  /\ wire' = Append(wire, [fin |-> fin, op |-> op, masked |-> masked, short |-> Encode(l).short,
                           bytes |-> Encode(l).bytes, payload |-> <<frames + 1, l>>])

\* A fragment of a message, or a whole one: "data" starts it, "continue" goes on.
ClientSendsData(fin, l, masked) ==
  /\ Put(fin, IF part = << >> THEN "data" ELSE "continue", l, masked)
  /\ IF fin THEN sent' = Append(sent, Append(part, <<frames', l>>)) /\ part' = << >>
            ELSE part' = Append(part, <<frames', l>>) /\ UNCHANGED sent
  /\ UNCHANGED <<readVars, outVars>>

ClientSendsControl(op) ==
  /\ Put(TRUE, op, Min(Lengths), TRUE)
  /\ UNCHANGED <<part, sent, readVars, outVars>>

--------------------------------------------------------------------------------
(* The reader. *)

\* connection_close and connection_error end the chain of reads: each takes
\* the connection out of the endpoint and calls on_close, on_error.
EndReading(calls) == stage' = "done" /\ frame' = None /\ reports' = reports \o calls

\* The size is checked against what is already collected, for control frames too.
TooBig(length) == Plus(length, IF fragmented = None THEN 0 ELSE fragmented.length) > max_message_size

StartRead(f, length) == stage' = "content" /\ frame' = [f |-> f, length |-> length] /\ UNCHANGED reports

\* A message that is too big: connection_error first; the rest is EndTooBig.
ReportTooBig == stage' = "toobig" /\ frame' = None /\ reports' = Append(reports, "error")

\* Mutant: no return after a message that is too big.
ReadContent_GoesOn(f, length) ==
  /\ IF TooBig(length)
     THEN stage' = "content" /\ frame' = [f |-> f, length |-> length] /\ reports' = Append(reports, "error")
     ELSE StartRead(f, length)
  /\ UNCHANGED closes

\* read_message_content, up to its async_read.
ReadContent(f, length) ==
  /\ IF TooBig(length) THEN ReportTooBig ELSE StartRead(f, length)
  /\ UNCHANGED closes

\* The calls after that of connection_error: send_close, then connection_close,
\* which tells the end a second time.
EndTooBig ==
  /\ \/ /\ stage = "toobig"
        /\ closes' = Append(closes, 1009) /\ stage' = "closed" /\ UNCHANGED <<frame, reports>>
     \/ /\ stage = "closed"
        /\ EndReading(<<"close">>) /\ UNCHANGED closes
  /\ UNCHANGED <<wire, clientVars, fragmented, delivered, pongs>>

\* Mutant: the connection is closed and nobody told.
Unmasked_Silent == closes' = Append(closes, 1002) /\ EndReading(<< >>)

\* "Close connection if unmasked message from client (protocol error)".
Unmasked == closes' = Append(closes, 1002) /\ EndReading(<<"close">>)

\* The handler of the first two bytes.
HeaderRead ==
  /\ stage = "header" /\ wire # << >>
  /\ wire' = Tail(wire)
  /\ LET f == Head(wire)
     IN \/ ~f.masked /\ Unmasked
        \/ f.masked /\ f.short < 126 /\ ReadContent(f, f.short)
        \/ /\ f.masked /\ f.short >= 126
           /\ stage' = "length" /\ frame' = [f |-> f, length |-> 0]
           /\ UNCHANGED <<closes, reports>>
  /\ UNCHANGED <<clientVars, fragmented, delivered, pongs>>

\* The sum of the bytes, each shifted by its place.
LengthOf(bytes) == MapThenSumSet(LAMBDA c : bytes[c] * Place[Len(bytes) - c], DOMAIN bytes)

\* The handler of the 2 or 8 length bytes.
LengthRead ==
  /\ stage = "length"
  /\ ReadContent(frame.f, LengthOf(frame.f.bytes))
  /\ UNCHANGED <<wire, clientVars, fragmented, delivered, pongs>>

IsFragment(f) == ~f.fin \/ f.op = "continue"
IsControl(f)  == f.op \in {"close", "ping", "pong"}

\* Mutant: the length stays that of the first fragment.
Collect_FirstLength(f, length) ==
  IF fragmented = None THEN [length |-> length, body |-> <<f.payload>>]
  ELSE [length |-> fragmented.length, body |-> Append(fragmented.body, f.payload)]

\* The message a fragment is put into.
Collect(f, length) ==
  IF fragmented = None THEN [length |-> length, body |-> <<f.payload>>]
  ELSE [length |-> Plus(fragmented.length, length), body |-> Append(fragmented.body, f.payload)]

ReadOn == stage' = "header" /\ frame' = None /\ UNCHANGED reports

\* Mutant: a control frame also resets what has been collected.
KeptByControl_Nothing == None

\* "Only reset fragmented_in_message for non-control frames".
KeptByControl == fragmented

\* A close frame is answered, and is the end.
CloseRead(f) == /\ f.op = "close"
                /\ closes' = Append(closes, 0) /\ EndReading(<<"close">>)
                /\ UNCHANGED <<delivered, pongs>>

\* A pong with the ping's payload, then the next message.
PingRead(f) == /\ f.op = "ping"
               /\ pongs' = Append(pongs, f.payload) /\ ReadOn
               /\ UNCHANGED <<delivered, closes>>

PongRead(f) == f.op = "pong" /\ ReadOn /\ UNCHANGED <<delivered, pongs, closes>>

ControlRead(f) == fragmented' = KeptByControl /\ (CloseRead(f) \/ PingRead(f) \/ PongRead(f))

\* A fragment is collected; the last one, or a whole message, is delivered,
\* and nothing stays collected.
DataRead(f, length) ==
  /\ IF f.fin
     THEN /\ delivered' = Append(delivered, IF IsFragment(f) THEN Collect(f, length).body ELSE <<f.payload>>)
          /\ fragmented' = None
     ELSE fragmented' = Collect(f, length) /\ UNCHANGED delivered
  /\ ReadOn
  /\ UNCHANGED <<pongs, closes>>

\* The handler of the mask and the payload.
ContentRead ==
  /\ stage = "content"
  /\ \/ IsControl(frame.f) /\ ControlRead(frame.f)
     \/ ~IsControl(frame.f) /\ DataRead(frame.f, frame.length)
  /\ UNCHANGED <<wire, clientVars>>

\* Any of the reads fails: the client is gone, or the server closed the socket.
ReadFails ==
  /\ Reading
  /\ EndReading(<<"error">>)
  /\ UNCHANGED <<wire, clientVars, fragmented, delivered, pongs, closes>>

Read   == HeaderRead \/ LengthRead \/ ContentRead \/ EndTooBig
Client == \/ \E fin \in BOOLEAN, l \in Lengths, m \in BOOLEAN : ClientSendsData(fin, l, m)
          \/ \E op \in {"close", "ping", "pong"} : ClientSendsControl(op)

--------------------------------------------------------------------------------
(* Properties. *)

\* on_message gets the messages the client sent, each with all its fragments
\* in order, none lost or torn by the control frames between them
\* (server_ws.hpp:774: "control frames can be in between a fragmented message");
\* with the types, the length bytes' value among them.
MessagesInOrder == TypeOK /\ IsPrefix(delivered, sent)

\* max_message_size bounds the whole message, not a fragment of it; the sum that is
\* compared with it (server_ws.hpp:691) does not wrap for the lengths of a client.
SizeOf(body)  == FoldSeq(LAMBDA p, n : p[2] + n, 0, body)
SizeRespected == \A k \in DOMAIN delivered : SizeOf(delivered[k]) <= max_message_size

\* Once its end is reported, nothing of a connection reaches the game any more,
\* whatever the client still sends, and no pong is queued.  Only a message that
\* is too big has more to come (server_ws.hpp:692-696): after on_error one close
\* frame, and after that on_close for the same end; then nothing more.
QuietAfterEnd ==
  [][reports # << >> =>
       /\ UNCHANGED <<delivered, pongs>>
       /\ \/ UNCHANGED <<closes, reports>>
          \/ /\ reports = <<"error">> /\ UNCHANGED reports
             /\ closes = << >> /\ closes' = <<1009>>
          \/ /\ reports = <<"error">> /\ reports' = <<"error", "close">>
             /\ closes = <<1009>> /\ UNCHANGED closes]_vars

\* Every message that is sent is delivered, or the end of the connection is
\* reported: no path of the handlers drops the chain of reads.
EveryMessageRead == Len(sent) > Len(delivered) ~> (Len(delivered) = Len(sent) \/ reports # << >>)
==============================================================================
