------------------------------- MODULE WsServer -------------------------------
(***************************************************************************)
(* The life of the server and of its connections: SocketServerBase::start, *)
(* stop, accept, the handshake, the endpoint's set of connections and its  *)
(* callbacks, and the game mode that owns them: initWS starts the thread,  *)
(* on_message feeds message_queue, Tick drains it, Broadcast sends to a    *)
(* snapshot of the set, EndPlay stops the server and joins its thread.     *)
(*                                                                         *)
(* Two threads: the game thread, and one server thread (thread_pool_size   *)
(* is 1) that runs the handlers one after the other.  A handler touches    *)
(* each piece of state shared with the game thread once, so it is one      *)
(* step.  Outgoing frames are SendQueue's business, incoming bytes are     *)
(* FrameReader's: here a frame is a whole command.                         *)
(*                                                                         *)
(* The game runs a SocketServer<WS>; SocketServer<WSS> differs in accept,  *)
(* which puts a TLS handshake before the web socket's.                     *)
(***************************************************************************)
EXTENDS Naturals, Sequences, FiniteSets, SequencesExt

CONSTANTS Conns,      \* the connections that clients open
          MaxCmds,    \* commands a client sends at most (bound)
          MaxCasts,   \* broadcasts of the game thread (bound)
          EarlyStop,  \* may EndPlay overtake the start of the server thread?
          Servers,    \* of "WS", "WSS": the specialisations of SocketServer
          None

ASSUME ServerAssumption == /\ {"aborted", "failed", None} \cap Conns = {}
                           /\ None \notin {"aborted", "failed"}
                           /\ MaxCmds \in Nat /\ MaxCasts \in Nat
                           /\ EarlyStop \in BOOLEAN /\ Servers \subseteq {"WS", "WSS"}

VARIABLES server,         \* which SocketServer this is
          game,           \* where the game thread is
          srv,            \* where the server thread is
          start_stop,     \* holder of start_stop_mutex
          acceptor,       \* null, open or closed
          io,             \* the io_service: null, ready or stopped
          accept_op,      \* an async_accept is outstanding
          accept_done,    \* result whose handler is ready: a connection, aborted, failed
          conn,           \* the stage of each connection
          broken,         \* its socket is shut down or reset
          timer,          \* its handshake timer; due is an expiry already queued
          connections,    \* Endpoint::connections
          received,       \* commands on_message got per connection
          message_queue,  \* AReadingTrackerGameMode::message_queue
          targets,        \* the snapshot a Broadcast still has to send to
          casts,          \* broadcasts begun (bound)
          sent_to         \* history: connections that were sent a frame

threadVars == <<server, game, srv, start_stop>>
listenVars == <<acceptor, io, accept_op, accept_done>>
connVars   == <<conn, broken, timer, connections>>
queueVars  == <<received, message_queue>>
castVars   == <<targets, casts, sent_to>>
vars       == <<threadVars, listenVars, connVars, queueVars, castVars>>

Handshaking == {"securing", "reading", "writing", "refusing"}
Stages      == {"away", "backlog", "accepted", "open", "ended"} \cup Handshaking

TypeOK ==
  /\ server \in Servers
  /\ game \in {"loading", "playing", "stop", "stop_accept", "stop_close", "stop_io", "join", "ended"}
  /\ srv \in {"none", "start", "setup", "run", "relock", "done"}
  /\ start_stop \in {"game", "server", None}
  /\ acceptor \in {"null", "open", "closed"} /\ io \in {"null", "ready", "stopped"}
  /\ accept_op \in BOOLEAN /\ accept_done \in Conns \cup {"aborted", "failed", None}
  /\ conn \in [Conns -> Stages]
  /\ broken \in [Conns -> BOOLEAN]
  /\ timer \in [Conns -> {"none", "armed", "due"}]
  /\ connections \subseteq Conns
  /\ received \in [Conns -> 0 .. MaxCmds]
  /\ message_queue \in Seq(Conns \X (1 .. MaxCmds))
  /\ targets \subseteq Conns /\ sent_to \subseteq Conns /\ casts \in 0 .. MaxCasts

Init ==
  /\ server \in Servers
  /\ game = "loading" /\ srv = "none" /\ start_stop = None
  /\ acceptor = "null" /\ io = "null"
  /\ accept_op = FALSE /\ accept_done = None
  /\ conn = [c \in Conns |-> "away"]
  /\ broken = [c \in Conns |-> FALSE]
  /\ timer = [c \in Conns |-> "none"]
  /\ connections = {}
  /\ received = [c \in Conns |-> 0]
  /\ message_queue = << >>
  /\ targets = {} /\ casts = 0 /\ sent_to = {}

--------------------------------------------------------------------------------
(* The server thread: start(). *)

\* accept(): on a closed acceptor the operation fails at once.
Accept == IF acceptor = "closed" THEN accept_op' = FALSE /\ accept_done' = "failed"
                                 ELSE accept_op' = TRUE /\ accept_done' = None

StartLock ==
  /\ srv = "start" /\ start_stop = None
  /\ start_stop' = "server"
  /\ srv' = "setup"
  /\ UNCHANGED <<server, game, listenVars, connVars, queueVars, castVars>>

\* io_service, acceptor, open, bind, listen, accept, unlock, run.
StartSetup ==
  /\ srv = "setup"
  /\ io' = "ready" /\ acceptor' = "open"
  /\ Accept
  /\ start_stop' = None
  /\ srv' = "run"
  /\ UNCHANGED <<server, game, connVars, queueVars, castVars>>

\* run() returns: stopped, or out of work.
Idle == /\ ~accept_op /\ accept_done = None
        /\ \A c \in Conns : conn[c] \notin {"accepted", "open"} \cup Handshaking /\ timer[c] = "none"

RunReturns ==
  /\ srv = "run" /\ (io = "stopped" \/ Idle)
  /\ srv' = "relock"
  /\ UNCHANGED <<server, game, start_stop, listenVars, connVars, queueVars, castVars>>

\* lock.lock() and the end of its scope; there are no further threads to join.
StartReturns ==
  /\ srv = "relock" /\ start_stop = None
  /\ srv' = "done"
  /\ UNCHANGED <<server, game, start_stop, listenVars, connVars, queueVars, castVars>>

--------------------------------------------------------------------------------
(* The server thread: handlers.  Each runs inside run(). *)

Running == srv = "run" /\ io = "ready"

\* What an accepted connection does first: read_handshake(), or behind TLS
\* async_handshake(); timeout_request bounds either.
FirstStage == IF server = "WSS" THEN "securing" ELSE "reading"

\* Mutant: the accept handler does not accept again.
AcceptHandler_Once ==
  /\ Running /\ accept_done # None
  /\ accept_done' = None
  /\ IF accept_done \in Conns
     THEN /\ conn' = [conn EXCEPT ![accept_done] = FirstStage]
          /\ timer' = [timer EXCEPT ![accept_done] = "armed"]
     ELSE UNCHANGED <<conn, timer>>
  /\ UNCHANGED <<threadVars, acceptor, io, accept_op, broken, connections, queueVars, castVars>>

\* accept()'s handler: "Immediately start accepting a new connection", then
\* the connection's first stage with its timeout.
AcceptHandler ==
  /\ Running /\ accept_done # None
  /\ IF accept_done = "aborted"
     THEN accept_done' = None /\ UNCHANGED accept_op
     ELSE Accept
  /\ IF accept_done \in Conns
     THEN /\ conn' = [conn EXCEPT ![accept_done] = FirstStage]
          /\ timer' = [timer EXCEPT ![accept_done] = "armed"]
     ELSE UNCHANGED <<conn, timer>>
  /\ UNCHANGED <<threadVars, acceptor, io, broken, connections, queueVars, castVars>>

\* cancel_timeout(): too late for an expiry that is already queued.  A queued
\* expiry stands for the timers armed after it, too: it closes the socket, and
\* they can do no more.
Cancelled(c) == IF timer[c] = "due" THEN "due" ELSE "none"

\* async_handshake()'s handler: read_handshake(), under a new timeout.
Secured(c) ==
  /\ Running /\ conn[c] = "securing" /\ ~broken[c]
  /\ conn' = [conn EXCEPT ![c] = "reading"]
  /\ timer' = [timer EXCEPT ![c] = IF @ = "due" THEN "due" ELSE "armed"]
  /\ UNCHANGED <<threadVars, listenVars, broken, connections, queueVars, castVars>>

\* Mutant: the connection joins the set when its answer is begun.
HandshakeRead_Joins(c) ==
  /\ Running /\ conn[c] = "reading" /\ ~broken[c]
  /\ conn' = [conn EXCEPT ![c] = "writing"]
  /\ timer' = [timer EXCEPT ![c] = IF @ = "due" THEN "due" ELSE "armed"]
  /\ connections' = connections \cup {c}
  /\ UNCHANGED <<threadVars, listenVars, broken, queueVars, castVars>>

\* Mutant: the answer is written without a timeout.
HandshakeRead_Untimed(c) ==
  /\ Running /\ conn[c] = "reading" /\ ~broken[c]
  /\ conn' = [conn EXCEPT ![c] = "writing"]
  /\ timer' = [timer EXCEPT ![c] = Cancelled(c)]
  /\ UNCHANGED <<threadVars, listenVars, broken, connections, queueVars, castVars>>

\* read_handshake()'s handler with a request: one to the endpoint is answered, under
\* a new timeout, with an upgrade or a refusal; any other drops the connection.
HandshakeRead(c) ==
  /\ Running /\ conn[c] = "reading" /\ ~broken[c]
  /\ \/ /\ \E answer \in {"writing", "refusing"} : conn' = [conn EXCEPT ![c] = answer]
        /\ timer' = [timer EXCEPT ![c] = IF @ = "due" THEN "due" ELSE "armed"]
     \/ /\ conn' = [conn EXCEPT ![c] = "ended"]
        /\ timer' = [timer EXCEPT ![c] = Cancelled(c)]
  /\ UNCHANGED <<threadVars, listenVars, broken, connections, queueVars, castVars>>

\* These two with an error, or a refusal not written: the connection is dropped
\* without a word.
HandshakeReadError(c) ==
  /\ Running /\ conn[c] \in {"securing", "reading", "refusing"} /\ broken[c]
  /\ conn' = [conn EXCEPT ![c] = "ended"]
  /\ timer' = [timer EXCEPT ![c] = Cancelled(c)]
  /\ UNCHANGED <<threadVars, listenVars, broken, connections, queueVars, castVars>>

\* write_handshake()'s handler after a refusal: nothing more is done.
RefusalWritten(c) ==
  /\ Running /\ conn[c] = "refusing" /\ ~broken[c]
  /\ conn' = [conn EXCEPT ![c] = "ended"]
  /\ timer' = [timer EXCEPT ![c] = Cancelled(c)]
  /\ UNCHANGED <<threadVars, listenVars, broken, connections, queueVars, castVars>>

\* write_handshake()'s handler: connection_open(), read_message().
HandshakeWritten(c) ==
  /\ Running /\ conn[c] = "writing" /\ ~broken[c]
  /\ conn' = [conn EXCEPT ![c] = "open"]
  /\ timer' = [timer EXCEPT ![c] = Cancelled(c)]
  /\ connections' = connections \cup {c}
  /\ UNCHANGED <<threadVars, listenVars, broken, queueVars, castVars>>

\* Mutant: the connection is not taken out of the set.
ConnectionError_Kept(c) ==
  /\ Running /\ conn[c] \in {"writing", "open"} /\ broken[c]
  /\ conn' = [conn EXCEPT ![c] = "ended"]
  /\ timer' = [timer EXCEPT ![c] = Cancelled(c)]
  /\ UNCHANGED <<threadVars, listenVars, broken, connections, queueVars, castVars>>

\* A read or the handshake's write fails: connection_error().
ConnectionError(c) ==
  /\ Running /\ conn[c] \in {"writing", "open"} /\ broken[c]
  /\ conn' = [conn EXCEPT ![c] = "ended"]
  /\ timer' = [timer EXCEPT ![c] = Cancelled(c)]
  /\ connections' = connections \ {c}
  /\ UNCHANGED <<threadVars, listenVars, broken, queueVars, castVars>>

\* The peer's close frame, or one that breaks the protocol: connection_close().
ConnectionClose(c) ==
  /\ Running /\ conn[c] = "open"
  /\ conn' = [conn EXCEPT ![c] = "ended"]
  /\ connections' = connections \ {c}
  /\ UNCHANGED <<threadVars, listenVars, broken, timer, queueVars, castVars>>

\* A data frame: on_message enqueues it, and the connection is read again.
OnMessage(c) ==
  /\ Running /\ conn[c] = "open"
  /\ received[c] < MaxCmds
  /\ received' = [received EXCEPT ![c] = @ + 1]
  /\ message_queue' = Append(message_queue, <<c, received[c] + 1>>)
  /\ UNCHANGED <<threadVars, listenVars, connVars, castVars>>

\* The expiry of a handshake timer: close(), whatever has happened meanwhile.
TimerHandler(c) ==
  /\ Running /\ timer[c] = "due"
  /\ timer' = [timer EXCEPT ![c] = "none"]
  /\ broken' = [broken EXCEPT ![c] = TRUE]
  /\ UNCHANGED <<threadVars, listenVars, conn, connections, queueVars, castVars>>
--------------------------------------------------------------------------------
(* The game thread. *)

Playing == game = "playing" /\ targets = {}   \* not inside a Broadcast

\* NotifyInformantSpawned() ends with initWS(): the server thread starts.
InitWS ==
  /\ game = "loading"
  /\ game' = "playing" /\ srv' = "start"
  /\ UNCHANGED <<server, start_stop, listenVars, connVars, queueVars, castVars>>

\* Tick(): at most one message per frame.
Tick ==
  /\ Playing /\ message_queue # << >>
  /\ message_queue' = Tail(message_queue)
  /\ UNCHANGED <<threadVars, listenVars, connVars, received, castVars>>

\* Broadcast(): get_connections() copies the set, then one send per element.
Broadcast ==
  /\ Playing /\ casts < MaxCasts
  /\ casts' = casts + 1
  /\ targets' = connections
  /\ UNCHANGED <<threadVars, listenVars, connVars, queueVars, sent_to>>

BroadcastSend(c) ==
  /\ game = "playing" /\ c \in targets
  /\ targets' = targets \ {c}
  /\ sent_to' = sent_to \cup {c}
  /\ UNCHANGED <<threadVars, listenVars, connVars, queueVars, casts>>

\* EndPlay(): m_server.stop(), m_serverThread->join().  Without EarlyStop the
\* level is played until the server thread has come to listen.
EndPlay ==
  /\ Playing /\ (EarlyStop \/ srv = "run")
  /\ game' = "stop"
  /\ UNCHANGED <<server, srv, start_stop, listenVars, connVars, queueVars, castVars>>

\* stop(): under start_stop_mutex; without an acceptor it does nothing.
StopLock ==
  /\ game = "stop" /\ start_stop = None
  /\ IF acceptor = "null"
     THEN game' = "join" /\ UNCHANGED start_stop
     ELSE game' = "stop_accept" /\ start_stop' = "game"
  /\ UNCHANGED <<server, srv, listenVars, connVars, queueVars, castVars>>

\* acceptor->close(): an outstanding accept ends with operation_aborted; a
\* result that is already there stays, so its handler finds a closed acceptor.
StopAccept ==
  /\ game = "stop_accept"
  /\ acceptor' = "closed"
  /\ accept_op' = FALSE
  /\ accept_done' = IF accept_op THEN "aborted" ELSE accept_done
  /\ game' = "stop_close"
  /\ UNCHANGED <<server, srv, start_stop, io, connVars, queueVars, castVars>>

\* Each connection of the set is closed, and the set cleared.
StopClose ==
  /\ game = "stop_close"
  /\ broken' = [c \in Conns |-> broken[c] \/ c \in connections]
  /\ connections' = {}
  /\ game' = "stop_io"
  /\ UNCHANGED <<server, srv, start_stop, listenVars, conn, timer, queueVars, castVars>>

\* Mutant: io_service->stop() is forgotten.
StopIo_Forgotten ==
  /\ game = "stop_io"
  /\ start_stop' = None
  /\ game' = "join"
  /\ UNCHANGED <<server, srv, listenVars, connVars, queueVars, castVars>>

StopIo ==
  /\ game = "stop_io"
  /\ io' = "stopped"
  /\ start_stop' = None
  /\ game' = "join"
  /\ UNCHANGED <<server, srv, acceptor, accept_op, accept_done, connVars, queueVars, castVars>>

\* Mutant: the thread is not waited for.
Join_NoWait ==
  /\ game = "join"
  /\ game' = "ended"
  /\ UNCHANGED <<server, srv, start_stop, listenVars, connVars, queueVars, castVars>>

Join ==
  /\ game = "join" /\ srv = "done"
  /\ game' = "ended"
  /\ UNCHANGED <<server, srv, start_stop, listenVars, connVars, queueVars, castVars>>

--------------------------------------------------------------------------------
(* The peers, the kernel and the clock; external. *)

\* The listening socket takes a connection into its backlog.
PeerConnects(c) ==
  /\ acceptor = "open" /\ conn[c] = "away"
  /\ conn' = [conn EXCEPT ![c] = "backlog"]
  /\ UNCHANGED <<threadVars, listenVars, broken, timer, connections, queueVars, castVars>>

\* The outstanding async_accept completes.
Accepted(c) ==
  /\ accept_op /\ conn[c] = "backlog"
  /\ accept_op' = FALSE /\ accept_done' = c
  /\ conn' = [conn EXCEPT ![c] = "accepted"]
  /\ UNCHANGED <<threadVars, acceptor, io, broken, timer, connections, queueVars, castVars>>

\* It fails though the acceptor is open: the peer is gone, or no descriptor is left.
AcceptFails ==
  /\ accept_op
  /\ accept_op' = FALSE /\ accept_done' = "failed"
  /\ UNCHANGED <<threadVars, acceptor, io, connVars, queueVars, castVars>>

PeerBreaks(c) ==
  /\ conn[c] \in {"accepted", "open"} \cup Handshaking /\ ~broken[c]
  /\ broken' = [broken EXCEPT ![c] = TRUE]
  /\ UNCHANGED <<threadVars, listenVars, conn, timer, connections, queueVars, castVars>>

\* timeout_request has passed.
TimerExpires(c) ==
  /\ timer[c] = "armed"
  /\ timer' = [timer EXCEPT ![c] = "due"]
  /\ UNCHANGED <<threadVars, listenVars, conn, broken, connections, queueVars, castVars>>

--------------------------------------------------------------------------------
ServerThread == StartLock \/ StartSetup \/ RunReturns \/ StartReturns

Handler(c) == \/ Secured(c) \/ HandshakeRead(c) \/ HandshakeReadError(c) \/ RefusalWritten(c)
              \/ HandshakeWritten(c) \/ ConnectionError(c) \/ ConnectionClose(c)
              \/ OnMessage(c) \/ TimerHandler(c)

Stopping == StopLock \/ StopAccept \/ StopClose \/ StopIo \/ Join

Next == \/ ServerThread \/ AcceptHandler \/ AcceptFails
        \/ InitWS \/ Tick \/ Broadcast \/ EndPlay \/ Stopping
        \/ \E c \in Conns : \/ Handler(c) \/ BroadcastSend(c)
                            \/ PeerConnects(c) \/ Accepted(c) \/ PeerBreaks(c) \/ TimerExpires(c)

\* The threads run; asio runs every ready handler (none of them is disabled
\* again while the server runs, so weak fairness is what its queue gives);
\* clocks run and the kernel accepts.  What only a peer can do (a request, a
\* message, a close) is not asked for, nor does the game have to end.
Spec == /\ Init /\ [][Next]_vars
        /\ WF_vars(ServerThread) /\ WF_vars(AcceptHandler)
        /\ WF_vars(InitWS) /\ WF_vars(Tick) /\ WF_vars(Stopping)
        /\ WF_vars(\E c \in Conns : Accepted(c))
        /\ WF_vars(\E c \in Conns : BroadcastSend(c))
        /\ \A c \in Conns : /\ WF_vars(TimerExpires(c)) /\ WF_vars(TimerHandler(c))
                            /\ WF_vars(HandshakeReadError(c) \/ ConnectionError(c))

--------------------------------------------------------------------------------
(* Properties. *)

\* Endpoint::connections holds the open connections, until stop() clears it
\* (with the types, which hold in every state).
SetIsOpen == TypeOK /\ (game \in {"playing", "stop", "stop_accept", "stop_close"} =>
               connections = {c \in Conns : conn[c] = "open"})

\* No frame before the handshake's answer: whoever Broadcast sends to has been
\* open, however the snapshot and the server thread interleave.
FramesAfterHandshake == \A c \in targets \cup sent_to : conn[c] \in {"open", "ended"}

\* While the server listens it does accept: no path of the accept handler ends
\* the chain of asynchronous accepts, also when an accept fails.
KeepsAccepting == acceptor = "open" /\ srv = "run" => accept_op \/ accept_done # None

\* Once EndPlay's join has returned, no handler runs on members that are about
\* to be destroyed: nothing of the server's state changes any more.
QuietAfterJoin ==
  [][game = "ended" => UNCHANGED <<srv, connections, message_queue, received, accept_op,
                                   {c \in Conns : conn[c] \in Handshaking \cup {"open"}}>>]_vars

\* EndPlay comes to its end when the server had come to listen: the handlers
\* that are left, the accept chain and the stop itself do not keep the server
\* thread in run().
EndPlayReturns == game = "stop" /\ acceptor = "open" ~> game = "ended"

\* A handshake does not last: it is finished, or closed by its timeout,
\* while the server runs.
HandshakeEnds ==
  \A c \in Conns : conn[c] \in Handshaking ~> conn[c] \notin Handshaking \/ io = "stopped"

\* Comment of stop(): "Stop accepting new connections, and close current
\* connections".
StopStopsAccepting == game \in {"join", "ended"} => acceptor # "open"
================================================================================
