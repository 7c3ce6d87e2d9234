------------------------------- MODULE WsClient -------------------------------
(***************************************************************************)
(* The web socket client: SocketClientBase, SocketClient<WS> and            *)
(* SocketClient<WSS>.  Its owner calls start, perhaps stop, and destroys    *)
(* it; a thread inside run(), the owner's own io_service's or the one start *)
(* made, runs the handlers: name, connection, with TLS the tunnel through a *)
(* proxy and the TLS handshake, upgrade, and then frame after frame.        *)
(*                                                                         *)
(* Every handler but a timer's cancels the timer, asks the ScopeRunner for  *)
(* leave and only then touches the client: its beginning and its body are   *)
(* two steps, with the gate of ScopeGate between them.                      *)
(*                                                                         *)
(* Bytes are counted: the server's answer may bring bytes of the frames     *)
(* behind it, and num_additional_bytes has to tell each read how many are   *)
(* here already.  The value of the length bytes is FrameReader's business,  *)
(* what the client sends is SendQueue's, and so is the timer a write sets:  *)
(* the server has the same code.  close() from another thread comes before  *)
(* or after a step of the io thread.                                        *)
(***************************************************************************)
EXTENDS Naturals, Sequences, SequencesExt, FiniteSetsExt

CONSTANTS Scripts,           \* the frames a server sends behind its answer
          Configs,           \* own_io, timeout_request, timeout_idle: are they set? layer
          Endpoints,         \* how many addresses the name has
          max_message_size,  \* Config::max_message_size
          MaxEager,          \* bytes that come along with the answer (bound)
          None

\* No TLS (a proxy is then the server to connect to), TLS, TLS through a proxy.
Layers == {"plain", "tls", "tunnel"}

\* A frame: its kind, how many more length bytes it has, its length.
Kinds  == {"data", "more", "ping", "pong", "close", "masked"}
Frames == [kind : Kinds, ext : {0, 2, 8}, len : Nat]

ASSUME ClientAssumption ==
  /\ Scripts \subseteq Seq(Frames)
  /\ Configs \subseteq [own_io : BOOLEAN, timeout_request : BOOLEAN, timeout_idle : BOOLEAN, layer : Layers]
  /\ Endpoints \in Nat \ {0} /\ max_message_size \in Nat /\ MaxEager \in Nat

VARIABLES script, config,
          owner,       \* where the owner is
          inside,      \* {"io"} while a handler has the runner's lock
          stopped,     \* handler_runner is stopped
          run,         \* a thread is inside run()
          io_stopped,  \* the internal io_service is stopped
          stage,       \* the asynchronous operation under way
          ready,       \* its result, once it has one
          tries,       \* the address being tried
          broken,      \* the socket is shut down or reset
          timer, due,  \* the timer's kind; that of an expiry already queued
          closed,      \* Connection::closed
          at, size,    \* in_message's streambuf: place in the stream, bytes held
          num,         \* num_additional_bytes
          frame,       \* the header that was read
          fragmented,  \* fragmented_in_message: the spans it collected
          delivered,   \* history: messages on_message got, as spans
          reports      \* history: on_open, on_close and on_error calls

fixed    == <<script, config>>
ownVars  == <<owner, run, io_stopped>>
gateVars == <<inside, stopped>>
opVars   == <<stage, ready, tries, broken>>
timeVars == <<timer, due, closed>>
byteVars == <<at, size, num, frame, fragmented>>
outVars  == <<delivered, reports>>
vars     == <<fixed, ownVars, gateVars, opVars, timeVars, byteVars, outVars>>

Gate == INSTANCE ScopeGate WITH Threads <- {"io"}, closed <- stopped

Securing  == {"proxy_write", "proxy_response", "tls"}
Upgrading == {"write", "response"} \cup Securing
Reading   == {"header", "length", "content"}
Spans     == Nat \X Nat  \* the first byte's place, and how many

TypeOK ==
  /\ script \in Scripts /\ config \in Configs
  /\ owner \in {"new", "started", "stopping", "stopped", "closing", "leaving", "gone"}
  /\ inside \subseteq {"io"} /\ stopped \in BOOLEAN /\ run \in BOOLEAN /\ io_stopped \in BOOLEAN
  /\ stage \in {"none", "resolve", "connect", "ended"} \cup Upgrading \cup Reading
  /\ ready \in {"none", "ok", "error"} /\ tries \in 1 .. Endpoints /\ broken \in BOOLEAN
  /\ timer \in {"none", "request", "idle"} /\ due \in {"none", "request", "idle"} /\ closed \in BOOLEAN
  /\ at \in Nat /\ size \in Nat /\ num \in Nat
  /\ frame \in {None} \cup Frames /\ (stage \in {"length", "content"} => frame # None)
  /\ fragmented \in Seq(Spans) /\ delivered \in Seq(Seq(Spans))
  /\ reports \in Seq({"open", "close", "error"})

Init ==
  /\ script \in Scripts /\ config \in Configs
  /\ owner = "new" /\ run = config.own_io /\ io_stopped = FALSE
  /\ Gate!Init
  /\ stage = "none" /\ ready = "none" /\ tries = 1 /\ broken = FALSE
  /\ timer = "none" /\ due = "none" /\ closed = FALSE
  /\ at = 0 /\ size = 0 /\ num = 0 /\ frame = None
  /\ fragmented = << >> /\ delivered = << >> /\ reports = << >>

\* set_timeout(config.timeout_request) and set_timeout(); a timeout of 0 is none.
SetTimeoutRequest == timer' = IF config.timeout_request THEN "request" ELSE "none"
SetTimeoutIdle    == timer' = IF config.timeout_idle THEN "idle" ELSE "none"

--------------------------------------------------------------------------------
(* The network and the clock (external). *)

SizeOf(f)  == 2 + f.ext + f.len
BytesIn(s) == FoldLeft(LAMBDA n, f : n + SizeOf(f), 0, s)

\* transfer_exactly's argument, and what is left of the additional bytes
\* behind a read of k.
Missing(k) == IF num > k THEN 0 ELSE k - num

\* Mutant: the bytes just read are counted once more.
Rest_Uncut(k) == IF num > k THEN num ELSE 0
Rest(k)       == IF num > k THEN num - k ELSE 0

Wanted == CASE stage = "header" -> 2 [] stage = "length" -> frame.ext [] stage = "content" -> frame.len

Waiting == run /\ stage \notin {"none", "ended"} /\ ready = "none"

\* A try to connect fails: the next address, or none is left.
NextAddress == IF tries < Endpoints THEN tries' = tries + 1 /\ UNCHANGED ready
                                    ELSE ready' = "error" /\ UNCHANGED tries

\* The answer comes with any number of the bytes behind it; a read of
\* nothing completes by itself, also on a socket that is shut down.
Arrive ==
  /\ Waiting /\ ready' = "ok"
  /\ \/ stage \in {"resolve", "connect"} /\ UNCHANGED <<at, size>>
     \/ stage \in {"write"} \cup Securing /\ ~broken /\ UNCHANGED <<at, size>>
     \/ stage = "response" /\ ~broken /\ at' = 0 /\ size' \in 0 .. Min({MaxEager, BytesIn(script)})
     \/ /\ stage \in Reading /\ at + size + Missing(Wanted) <= BytesIn(script)
        /\ size' = size + Missing(Wanted) /\ UNCHANGED at
  /\ UNCHANGED <<fixed, ownVars, gateVars, stage, tries, broken, timeVars, num, frame, fragmented, outVars>>

\* No such name, no such server, the connection breaks, or close() cancels.
Fail ==
  /\ Waiting
  /\ \/ stage = "connect" /\ NextAddress /\ UNCHANGED broken
     \/ stage # "connect" /\ (stage \in Reading => Missing(Wanted) > 0)
        /\ ready' = "error" /\ broken' = TRUE /\ UNCHANGED tries
  /\ UNCHANGED <<fixed, ownVars, gateVars, stage, timeVars, byteVars, outVars>>

TimerExpires ==
  /\ run /\ timer # "none"
  /\ due' = (IF due = "request" THEN due ELSE timer) /\ timer' = "none"
  /\ UNCHANGED <<fixed, ownVars, gateVars, opVars, closed, byteVars, outVars>>

--------------------------------------------------------------------------------
(* The owner. *)

\* Connection::close(): shutdown and cancel.  A socket that is not open yet
\* ignores both; a try to connect is cancelled, and the next one opens it anew.
CloseSocket ==
  CASE stage = "connect" /\ ready = "none" -> NextAddress /\ UNCHANGED broken
    [] stage \in {"none", "resolve", "ended"} -> UNCHANGED <<ready, tries, broken>>
    [] OTHER -> broken' = TRUE /\ UNCHANGED <<ready, tries>>

\* start(): an internal io_service is run by the caller's thread.
Start ==
  /\ owner = "new" /\ owner' = "started"
  /\ run' = TRUE
  /\ stage' = "resolve" /\ SetTimeoutRequest
  /\ UNCHANGED <<fixed, io_stopped, gateVars, ready, tries, broken, due, closed, byteVars, outVars>>

\* stop(), by itself or at the end of the destructor, closes the connection ...
StopClose ==
  /\ \/ owner = "started" /\ owner' = "stopping"
     \/ owner = "closing" /\ owner' = "leaving"
  /\ CloseSocket
  /\ UNCHANGED <<fixed, run, io_stopped, gateVars, stage, timeVars, byteVars, outVars>>

\* ... and stops an io_service of its own.
StopIo ==
  /\ \/ owner = "stopping" /\ owner' = "stopped"
     \/ owner = "leaving" /\ owner' = "gone"
  /\ io_stopped' = ~config.own_io
  /\ UNCHANGED <<fixed, run, gateVars, opVars, timeVars, byteVars, outVars>>

\* Mutant: the destructor only stops.
Destroy_NoWait ==
  /\ owner \in {"new", "started", "stopped"} /\ (config.own_io \/ ~run)
  /\ owner' = "closing"
  /\ UNCHANGED <<fixed, run, io_stopped, gateVars, opVars, timeVars, byteVars, outVars>>

\* The destructor waits in handler_runner->stop() for the handler that has a
\* lock, then stops as above.  A thread inside start() has to leave it first.
Destroy ==
  /\ owner \in {"new", "started", "stopped"} /\ (config.own_io \/ ~run)
  /\ owner' = "closing"
  /\ Gate!Close
  /\ UNCHANGED <<fixed, run, io_stopped, opVars, timeVars, byteVars, outVars>>

--------------------------------------------------------------------------------
(* The io thread. *)

OutOfWork == stage = "ended" /\ timer = "none" /\ due = "none"

\* run() of an internal io_service returns.
RunReturns ==
  /\ run /\ ~config.own_io /\ inside = {} /\ (io_stopped \/ OutOfWork)
  /\ run' = FALSE
  /\ UNCHANGED <<fixed, owner, io_stopped, gateVars, opVars, timeVars, byteVars, outVars>>

Free == run /\ ~io_stopped /\ inside = {}

\* The timer's handler: the request timer closes, the idle timer sends a close
\* frame, once.  It does not ask the runner: it touches the connection only.
TimerHandler ==
  /\ Free /\ due # "none"
  /\ due' = "none"
  /\ \/ due = "request" /\ CloseSocket /\ UNCHANGED closed
     \/ due = "idle" /\ closed' = TRUE /\ UNCHANGED <<ready, tries, broken>>
  /\ UNCHANGED <<fixed, ownVars, gateVars, stage, timer, byteVars, outVars>>

\* Every other handler begins with cancel_timeout() and continue_lock(); when
\* it gets no lock it returns, and nothing comes after it.
HandlerBegins ==
  /\ Free /\ ready # "none"
  /\ timer' = "none"
  /\ \/ Gate!Enter("io") /\ UNCHANGED <<stage, ready>>
     \/ stopped /\ stage' = "ended" /\ ready' = "none" /\ UNCHANGED gateVars
  /\ UNCHANGED <<fixed, ownVars, tries, broken, due, closed, byteVars, outVars>>

\* The rest of the handler of an operation, up to the release of the lock.
Handles(s, result) ==
  /\ inside = {"io"} /\ stage = s /\ ready = result
  /\ Gate!Leave("io")
  /\ ready' = "none"
  /\ UNCHANGED <<fixed, ownVars, broken, due>>

\* connection_error, connection_close: nothing is read any more.
Ends(calls) == stage' = "ended" /\ reports' = reports \o calls /\ UNCHANGED timer

HandlerFails ==
  /\ \E s \in {"resolve", "connect"} \cup Upgrading \cup Reading : Handles(s, "error")
  /\ Ends(<<"error">>)
  /\ UNCHANGED <<tries, closed, byteVars, delivered>>

Resolved ==
  /\ Handles("resolve", "ok")
  /\ stage' = "connect" /\ SetTimeoutRequest
  /\ UNCHANGED <<tries, closed, byteVars, outVars>>

\* no_delay, and what comes before upgrade()'s request is written.
Connected ==
  /\ Handles("connect", "ok")
  /\ stage' = CASE config.layer = "plain"  -> "write"
                [] config.layer = "tls"    -> "tls"
                [] config.layer = "tunnel" -> "proxy_write"
  /\ SetTimeoutRequest
  /\ UNCHANGED <<tries, closed, byteVars, outVars>>

\* CONNECT has been written; its answer is "200", or it is an error.
ProxyWritten ==
  /\ Handles("proxy_write", "ok")
  /\ stage' = "proxy_response" /\ SetTimeoutRequest
  /\ UNCHANGED <<tries, closed, byteVars, outVars>>

ProxyAnswered ==
  /\ Handles("proxy_response", "ok")
  /\ \/ stage' = "tls" /\ SetTimeoutRequest /\ UNCHANGED reports
     \/ Ends(<<"error">>)
  /\ UNCHANGED <<tries, closed, byteVars, delivered>>

\* The TLS handshake is done: upgrade().
Secured ==
  /\ Handles("tls", "ok")
  /\ stage' = "write" /\ SetTimeoutRequest
  /\ UNCHANGED <<tries, closed, byteVars, outVars>>

\* Mutant: only the request is timed, not its answer.
Written_Untimed ==
  /\ Handles("write", "ok")
  /\ stage' = "response" /\ UNCHANGED timer
  /\ UNCHANGED <<tries, closed, byteVars, outVars>>

Written ==
  /\ Handles("write", "ok")
  /\ stage' = "response" /\ SetTimeoutRequest
  /\ UNCHANGED <<tries, closed, byteVars, outVars>>

\* read_message(n), and the reads of length bytes and content behind it.
ReadNext(s, n) == stage' = s /\ num' = n /\ SetTimeoutIdle

\* The answer is "101" with the key's hash, or it is an error.
Answered ==
  /\ Handles("response", "ok")
  /\ \/ ReadNext("header", size) /\ reports' = Append(reports, "open")
     \/ Ends(<<"error">>) /\ UNCHANGED num
  /\ UNCHANGED <<tries, closed, at, size, frame, fragmented, delivered>>

--------------------------------------------------------------------------------
(* The io thread: frames. *)

StartOf(k) == BytesIn(SubSeq(script, 1, k - 1))
FrameAt(p) == script[CHOOSE k \in DOMAIN script : StartOf(k) = p]

Consume(n) == at' = at + n /\ size' = size - n

LengthOf(spans) == FoldLeft(LAMBDA n, span : n + span[2], 0, spans)

\* read_message_content, up to its async_read.
ReadContent(n, length) ==
  IF LengthOf(fragmented) + length > max_message_size
  THEN Ends(<<"error", "close">>) /\ closed' = TRUE /\ UNCHANGED num
  ELSE ReadNext("content", n) /\ UNCHANGED <<closed, reports>>

HeaderRead ==
  /\ Handles("header", "ok")
  /\ Consume(2) /\ frame' = FrameAt(at)
  /\ \/ /\ frame'.kind = "masked"
        /\ Ends(<<"close">>) /\ closed' = TRUE /\ UNCHANGED num
     \/ /\ frame'.kind # "masked" /\ frame'.ext > 0
        /\ ReadNext("length", Rest(2)) /\ UNCHANGED <<closed, reports>>
     \/ /\ frame'.kind # "masked" /\ frame'.ext = 0
        /\ ReadContent(Rest(2), frame'.len)
  /\ UNCHANGED <<tries, fragmented, delivered>>

LengthRead ==
  /\ Handles("length", "ok")
  /\ Consume(frame.ext)
  /\ ReadContent(Rest(frame.ext), frame.len)
  /\ UNCHANGED <<tries, frame, fragmented, delivered>>

\* The message is all the streambuf holds, unless bytes of the next frame are
\* known to be in it: then it is cut, and they move on.
Content == IF Rest(frame.len) > 0 THEN <<at, frame.len>> ELSE <<at, size>>

NextMessage == ReadNext("header", Rest(frame.len)) /\ UNCHANGED <<closed, reports>>

ContentRead ==
  /\ Handles("content", "ok")
  /\ Consume(Content[2])
  /\ \/ /\ frame.kind = "close"  \* answered, at most once
        /\ Ends(<<"close">>) /\ closed' = TRUE
        /\ UNCHANGED <<num, fragmented, delivered>>
     \/ /\ frame.kind \in {"ping", "pong"}  \* the answer to a ping is queued
        /\ NextMessage
        /\ UNCHANGED <<fragmented, delivered>>
     \/ /\ frame.kind = "more"
        /\ fragmented' = Append(fragmented, Content)
        /\ NextMessage /\ UNCHANGED delivered
     \/ /\ frame.kind = "data"
        /\ delivered' = Append(delivered, Append(fragmented, Content))
        /\ fragmented' = << >>
        /\ NextMessage
  /\ UNCHANGED <<tries, frame>>

HandlerBody == \/ HandlerFails \/ Resolved \/ Connected \/ ProxyWritten \/ ProxyAnswered
               \/ Secured \/ Written \/ Answered
               \/ HeaderRead \/ LengthRead \/ ContentRead

IoThread == TimerHandler \/ HandlerBegins \/ HandlerBody
Next == \/ Start \/ StopClose \/ StopIo \/ Destroy
        \/ IoThread \/ RunReturns
        \/ Arrive \/ Fail \/ TimerExpires

\* Ready handlers run, an expired timer is served although others are ready,
\* clocks run; stop() goes on.  What is cancelled ends; a server answers, or
\* fails, when it likes.
Spec == /\ Init /\ [][Next]_vars
        /\ WF_vars(HandlerBegins) /\ WF_vars(HandlerBody) /\ SF_vars(TimerHandler)
        /\ WF_vars(TimerExpires) /\ WF_vars(StopIo)
        /\ WF_vars(broken /\ (Arrive \/ Fail))

--------------------------------------------------------------------------------
(* Properties. *)

\* The messages of the script, each as the spans of its fragments.
Messages ==
  FoldLeft(LAMBDA m, f :
             LET span == <<m.at + 2 + f.ext, f.len>>
             IN [at   |-> m.at + SizeOf(f),
                 part |-> CASE f.kind = "more" -> Append(m.part, span)
                            [] f.kind = "data" -> << >>
                            [] OTHER -> m.part,
                 done |-> IF f.kind = "data" THEN Append(m.done, Append(m.part, span)) ELSE m.done],
           [at |-> 0, part |-> << >>, done |-> << >>], script).done

\* Where a read that is under way begins: at a frame, at its length bytes or
\* at its content.
InStep(k) == CASE stage = "header"  -> at = StartOf(k)
               [] stage = "length"  -> at = StartOf(k) + 2 /\ frame = script[k]
               [] stage = "content" -> at = StartOf(k) + 2 + frame.ext /\ frame = script[k]

\* However many bytes came along with the server's answer, each read begins
\* where its part of a frame does, num_additional_bytes is what the buffer
\* holds, and on_message gets the server's messages, byte for byte (with the
\* types).  client_ws.hpp:456: "What is left of the streambuf (maybe some bytes
\* of a message) is appended to in the next async_read-function".
BytesInStep ==
  /\ TypeOK
  /\ stage \in Reading => \E k \in 1 .. Len(script) + 1 : InStep(k)
  /\ stage \in Reading /\ ready = "none" => num = size
  /\ IsPrefix(delivered, Messages)

\* utility.hpp:455: "a potential destructor call is delayed until all locks are
\* released".  Once the client is gone no handler is inside it and none calls
\* back, on whichever io_service its operations end.
QuietAfterDestruction ==
  [][owner = "gone" => inside = {} /\ UNCHANGED <<outVars, inside>>]_vars

\* With its timeouts a connection does not hang: the upgrade, with the tunnel and the
\* TLS handshake before it, ends; a server
\* that falls silent is sent a close frame; and when an open connection breaks
\* or is closed, by stop() for one, its end is reported.
ConnectionSettles ==
  /\ config.timeout_request /\ stage \in Upgrading ~> stage \notin Upgrading \/ io_stopped
  /\ config.timeout_idle /\ stage \in Reading ~> closed \/ stage \notin Reading \/ io_stopped
  /\ broken /\ stage \in Reading ~> Len(reports) > 1 \/ stopped \/ io_stopped

\* "Stop client, and close current connection" (client_ws.hpp:321): once stop has
\* returned there is no open connection, until the owner starts anew.
StopClosesConnection ==
  owner = "stopped" => stage \notin Upgrading \cup Reading \/ broken
==============================================================================
