-------------------------------- MODULE Incoming -------------------------------
(***************************************************************************)
(* What comes in on one connection of the server: first the text of the    *)
(* handshake (Handshake), then the frames (FrameReader), read from the one *)
(* streambuf of the Connection.  A client sends its first frame when it is *)
(* open, perhaps before the server's handler of the answer has run; only   *)
(* that handler begins to read frames.                                     *)
(***************************************************************************)
EXTENDS Naturals, Sequences

CONSTANTS Codes, Asked, PortNumber, default_port, EndpointPaths, LowerCase, Requests, Answers(_),
          Radix, Lengths, max_message_size, MaxFrames, None,
          MaxEarly      \* bound: frames sent before the server's connection is open

VARIABLES target, asked, cl, inClient, sv, inServer, understood, answer,
          wire, frames, part, sent, stage, frame, fragmented, delivered, pongs, closes, reports

H == INSTANCE Handshake
R == INSTANCE FrameReader

\* The protocol leaves the first bit of a length 0 (RFC 6455, 5.2); a limit is any size_t.
ASSUME IncomingAssumption ==
  /\ Radix \in Nat \ {0, 1}
  /\ Lengths \subseteq Nat /\ Lengths # {} /\ \A l \in Lengths : 2 * l < R!Place[8]
  /\ max_message_size \in 0 .. R!Place[8] - 1 /\ MaxFrames \in Nat /\ MaxEarly \in Nat
  /\ default_port \in 0 .. 2^16 - 1 /\ \A d \in DOMAIN PortNumber : PortNumber[d] \in Nat
  /\ \A c \in DOMAIN Codes : Len(Codes[c]) = 2

handshakeVars == <<target, asked, cl, inClient, sv, inServer, understood, answer>>
frameVars     == <<wire, frames, part, sent, stage, frame, fragmented, delivered, pongs, closes,
                   reports>>
vars          == <<handshakeVars, frameVars>>

Init == H!Init /\ R!Init

\* The handshake, up to connection_open on either side.
ClientHandshake == H!Client /\ UNCHANGED frameVars
ServerHandshake == H!Server /\ UNCHANGED frameVars
Stranger        == H!StrangerAnswers /\ UNCHANGED frameVars
HandshakeFails  == H!Fails /\ UNCHANGED frameVars

\* An accepted connection whose answer cannot be written ends with an error.
WriteFails == H!ServerWriteFails /\ IF answer.accepts THEN R!ReadFails ELSE UNCHANGED frameVars

\* The client may send as soon as it has read the answer.
Frames ==
  /\ cl = "open"
  /\ sv = "open" \/ (sv = "writing" /\ frames < MaxEarly)
  /\ R!Client /\ UNCHANGED handshakeVars

Read      == sv = "open" /\ R!Read /\ UNCHANGED handshakeVars
ReadFails == sv = "open" /\ R!ReadFails /\ UNCHANGED handshakeVars

Next == \/ ClientHandshake \/ ServerHandshake \/ Stranger \/ HandshakeFails \/ WriteFails
        \/ Frames \/ Read \/ ReadFails

\* Each end runs the handlers that are ready; nobody has to send, and any read or
\* write may fail.
Spec == /\ Init /\ [][Next]_vars
        /\ WF_vars(ClientHandshake) /\ WF_vars(ServerHandshake) /\ WF_vars(Read)

-------------------------------------------------------------------------------
(* Properties. *)

\* What a client's owner asks for is what the server's Connection says
\* (utility.hpp:247): URL, request, parsers and percent coding undo each other.
AskedIsUnderstood == H!AskedIsUnderstood

\* The client opens on the answers that accept its request and on no other, and nothing
\* of the texts is left before the first frame (client_ws.hpp:458, 464).
OpensOnAcceptance == H!OpensOnAcceptance

\* A request for the game's endpoint opens both ends, unless the connection breaks.
RightRequestOpens ==
  (asked # None /\ asked.path \in EndpointPaths /\ sv = "reading")
    ~> (cl = "open" /\ sv = "open") \/ "failed" \in {cl, sv}

\* on_message gets the messages the client sent, each with all its fragments
\* in order (server_ws.hpp:774), none lost that was sent before the server was open.
MessagesInOrder == R!MessagesInOrder

\* max_message_size bounds the whole message, not a fragment of it.
SizeRespected == R!SizeRespected

\* Once its end is reported, nothing of a connection reaches the game any more; only a
\* message that is too big still sends its close frame and is told as a close as well.
QuietAfterEnd == R!QuietAfterEnd

\* Every message that is sent is delivered, or the end of the connection reported.
EveryMessageRead == R!EveryMessageRead
===============================================================================
