---------------------------- MODULE WsServerProofs ----------------------------
(***************************************************************************)
(* Safety of the server's life for any number of connections, commands and *)
(* broadcasts, for both servers and however early EndPlay comes.  The      *)
(* invariant says, beside the types, how far the acceptor and the          *)
(* io_service have got when a thread is somewhere, that a connection whose *)
(* accept has completed is not yet in its handshake, and what the set of   *)
(* connections and those that were sent a frame have to do with the stages.*)
(***************************************************************************)
EXTENDS WsServer, TLAPS

\* start and stop in the order of their steps: the acceptor is opened by the
\* first one and closed by the second, which ends the accept under way.
Listening ==
  /\ game = "loading" => srv = "none"
  /\ srv \in {"none", "start", "setup"} => acceptor = "null"
  /\ game = "stop_accept" => acceptor # "null"
  /\ game \in {"stop_close", "stop_io"} \/ io = "stopped" => acceptor = "closed"
  /\ accept_done = "aborted" => acceptor = "closed"
  /\ acceptor = "closed" \/ srv \in {"relock", "done"} => ~accept_op
  /\ game = "ended" => srv = "done"

AcceptedWaits == accept_done \in Conns => conn[accept_done] = "accepted"

OpenInSet ==
  game \in {"loading", "playing", "stop", "stop_accept", "stop_close"} =>
    \A c \in Conns : c \in connections <=> conn[c] = "open"

IInv == TypeOK /\ Listening /\ KeepsAccepting /\ AcceptedWaits /\ OpenInSet /\ FramesAfterHandshake

--------------------------------------------------------------------------------
LEMMA InitHolds == Init => IInv
<1> SUFFICES ASSUME Init PROVE IInv
  OBVIOUS
<1>1. TypeOK
  <2>1. 0 \in 0 .. MaxCmds /\ 0 \in 0 .. MaxCasts
    BY ServerAssumption
  <2>2. /\ conn \in [Conns -> Stages] /\ broken \in [Conns -> BOOLEAN]
        /\ timer \in [Conns -> {"none", "armed", "due"}] /\ received \in [Conns -> 0 .. MaxCmds]
    BY <2>1 DEF Init, Stages
  <2>3. message_queue \in Seq(Conns \X (1 .. MaxCmds))
    BY DEF Init
  <2> QED
    BY <2>1, <2>2, <2>3 DEF Init, TypeOK
<1>2. Listening /\ KeepsAccepting
  BY ServerAssumption DEF Init, Listening, KeepsAccepting
<1>3. AcceptedWaits /\ OpenInSet /\ FramesAfterHandshake
  BY ServerAssumption DEF Init, AcceptedWaits, OpenInSet, FramesAfterHandshake
<1> QED
  BY <1>1, <1>2, <1>3 DEF IInv

\* What a step of the server thread outside its handlers leaves alone.
LEMMA ServerThreadKeeps == IInv /\ ServerThread => IInv'
<1> SUFFICES ASSUME IInv, ServerThread PROVE IInv'
  OBVIOUS
<1> USE DEF IInv, TypeOK, Listening, KeepsAccepting, AcceptedWaits, OpenInSet, FramesAfterHandshake,
            threadVars, listenVars, connVars, queueVars, castVars
<1>1. CASE StartLock
  BY <1>1 DEF StartLock
<1>2. CASE StartSetup
  BY <1>2, ServerAssumption DEF StartSetup, Accept
<1>3. CASE RunReturns
  BY <1>3 DEF RunReturns, Idle
<1>4. CASE StartReturns
  BY <1>4 DEF StartReturns
<1> QED
  BY <1>1, <1>2, <1>3, <1>4 DEF ServerThread

\* The accept handler accepts again unless the acceptor was closed, and starts the
\* connection that was accepted.
LEMMA AcceptHandlerKeeps == IInv /\ AcceptHandler => IInv'
<1> SUFFICES ASSUME IInv, AcceptHandler PROVE IInv'
  OBVIOUS
<1> USE ServerAssumption DEF IInv, AcceptHandler, Accept, Running, threadVars, queueVars, castVars
<1>1. UNCHANGED <<server, game, srv, start_stop, acceptor, io, broken, connections, received,
                  message_queue, targets, casts, sent_to>>
  OBVIOUS
<1>2. /\ accept_op' \in BOOLEAN /\ accept_done' \in {"failed", None}
      /\ accept_op' => acceptor # "closed"
      /\ acceptor = "open" => accept_op'
  BY DEF TypeOK, Listening
<1>3. \A c \in Conns : conn[c] # conn'[c] => conn[c] = "accepted" /\ conn'[c] \in Handshaking
  BY DEF TypeOK, AcceptedWaits, FirstStage, Handshaking
<1>4. conn' \in [Conns -> Stages] /\ timer' \in [Conns -> {"none", "armed", "due"}]
  BY DEF TypeOK, FirstStage, Stages, Handshaking
<1>5. TypeOK'
  BY <1>1, <1>2, <1>4 DEF TypeOK
<1>6. Listening' /\ KeepsAccepting'
  BY <1>1, <1>2 DEF Listening, KeepsAccepting
<1>7. AcceptedWaits'
  BY <1>2 DEF AcceptedWaits
<1>8. OpenInSet' /\ FramesAfterHandshake'
  BY <1>1, <1>3 DEF TypeOK, OpenInSet, FramesAfterHandshake, Handshaking
<1> QED
  BY <1>5, <1>6, <1>7, <1>8

\* A handler of a connection moves that connection on, and leaves the set as
\* the stage of its connection says.
LEMMA HandlerKeeps == ASSUME IInv, NEW c \in Conns, Handler(c) PROVE IInv'
<1> USE ServerAssumption DEF IInv
<1>1. /\ UNCHANGED <<threadVars, listenVars, castVars>>
      /\ \A d \in Conns : d # c => conn'[d] = conn[d] /\ (d \in connections' <=> d \in connections)
      /\ conn[c] = "accepted" => conn'[c] = "accepted"
      /\ conn[c] \in {"open", "ended"} => conn'[c] \in {"open", "ended"}
      /\ (c \in connections <=> conn[c] = "open") => (c \in connections' <=> conn'[c] = "open")
  BY DEF Handler, Secured, HandshakeRead, HandshakeReadError, RefusalWritten, HandshakeWritten, ConnectionError,
         ConnectionClose, OnMessage, TimerHandler, TypeOK, connVars
<1>2. conn' \in [Conns -> Stages] /\ connections' \subseteq Conns
  BY DEF Handler, Secured, HandshakeRead, HandshakeReadError, RefusalWritten, HandshakeWritten, ConnectionError,
         ConnectionClose, OnMessage, TimerHandler, TypeOK, connVars, Stages, Handshaking
<1>3. timer' \in [Conns -> {"none", "armed", "due"}] /\ broken' \in [Conns -> BOOLEAN]
  BY DEF Handler, Secured, HandshakeRead, HandshakeReadError, RefusalWritten, HandshakeWritten, ConnectionError,
         ConnectionClose, OnMessage, TimerHandler, TypeOK, connVars, Cancelled
<1>4. received' \in [Conns -> 0 .. MaxCmds] /\ message_queue' \in Seq(Conns \X (1 .. MaxCmds))
  <2>1. CASE OnMessage(c)
    <3>1. received[c] \in 0 .. MaxCmds /\ received[c] + 1 \in 1 .. MaxCmds
      BY <2>1 DEF OnMessage, TypeOK
    <3>2. <<c, received[c] + 1>> \in Conns \X (1 .. MaxCmds)
      BY <3>1
    <3> QED
      BY <2>1, <3>1, <3>2 DEF OnMessage, TypeOK
  <2>2. CASE UNCHANGED queueVars
    BY <2>2 DEF queueVars, TypeOK
  <2> QED
    BY <2>1, <2>2 DEF Handler, Secured, HandshakeRead, HandshakeReadError, RefusalWritten, HandshakeWritten,
                      ConnectionError, ConnectionClose, TimerHandler
<1>5. TypeOK'
  BY <1>1, <1>2, <1>3, <1>4 DEF TypeOK, threadVars, listenVars, castVars
<1>6. Listening' /\ KeepsAccepting'
  BY <1>1 DEF Listening, KeepsAccepting, threadVars, listenVars
<1>7. AcceptedWaits' /\ OpenInSet' /\ FramesAfterHandshake'
  BY ZenonT(40), <1>1, <1>5 DEF AcceptedWaits, OpenInSet, FramesAfterHandshake, TypeOK, threadVars, listenVars, castVars
<1> QED
  BY <1>5, <1>6, <1>7

\* The game thread; Broadcast's snapshot is taken of a set of open connections.
LEMMA GameKeeps ==
  IInv /\ (InitWS \/ Tick \/ Broadcast \/ EndPlay \/ \E c \in Conns : BroadcastSend(c)) => IInv'
<1> SUFFICES ASSUME IInv, InitWS \/ Tick \/ Broadcast \/ EndPlay \/ \E c \in Conns : BroadcastSend(c)
             PROVE  IInv'
  OBVIOUS
<1> USE ServerAssumption
    DEF IInv, TypeOK, Listening, KeepsAccepting, AcceptedWaits, OpenInSet, FramesAfterHandshake,
        threadVars, listenVars, connVars, queueVars, castVars
<1>1. CASE InitWS
  BY <1>1 DEF InitWS
<1>2. CASE Tick
  BY <1>2 DEF Tick, Playing
<1>3. CASE Broadcast
  BY <1>3 DEF Broadcast, Playing
<1>4. CASE EndPlay
  BY <1>4 DEF EndPlay, Playing
<1>5. ASSUME NEW c \in Conns, BroadcastSend(c) PROVE IInv'
  BY <1>5 DEF BroadcastSend
<1> QED
  BY <1>1, <1>2, <1>3, <1>4, <1>5

\* stop() and the join; only its last step but one lets go of the set.
LEMMA StoppingKeeps == IInv /\ Stopping => IInv'
<1> SUFFICES ASSUME IInv, Stopping PROVE IInv'
  OBVIOUS
<1> USE ServerAssumption
    DEF IInv, TypeOK, Listening, KeepsAccepting, AcceptedWaits, OpenInSet, FramesAfterHandshake,
        threadVars, listenVars, connVars, queueVars, castVars
<1>1. CASE StopLock
  BY <1>1 DEF StopLock
<1>2. CASE StopAccept
  BY <1>2 DEF StopAccept
<1>3. CASE StopClose
  BY <1>3 DEF StopClose
<1>4. CASE StopIo
  BY <1>4 DEF StopIo
<1>5. CASE Join
  BY <1>5 DEF Join
<1> QED
  BY <1>1, <1>2, <1>3, <1>4, <1>5 DEF Stopping

\* Peers, kernel and clock.
LEMMA WorldKeeps ==
  ASSUME IInv, NEW c \in Conns, PeerConnects(c) \/ Accepted(c) \/ PeerBreaks(c) \/ TimerExpires(c)
  PROVE  IInv'
<1> USE ServerAssumption
    DEF IInv, TypeOK, Listening, KeepsAccepting, AcceptedWaits, OpenInSet, FramesAfterHandshake,
        threadVars, listenVars, connVars, queueVars, castVars, Stages, Handshaking
<1>1. CASE PeerConnects(c)
  BY <1>1 DEF PeerConnects
<1>2. CASE Accepted(c)
  BY ZenonT(40), <1>2 DEF Accepted
<1>3. CASE PeerBreaks(c)
  BY <1>3 DEF PeerBreaks
<1>4. CASE TimerExpires(c)
  BY <1>4 DEF TimerExpires
<1> QED
  BY <1>1, <1>2, <1>3, <1>4

LEMMA AcceptFailsKeeps == IInv /\ AcceptFails => IInv'
  BY ServerAssumption
  DEF AcceptFails, IInv, TypeOK, Listening, KeepsAccepting, AcceptedWaits, OpenInSet, FramesAfterHandshake,
      threadVars, connVars, queueVars, castVars

LEMMA NextKeeps == IInv /\ [Next]_vars => IInv'
<1>1. IInv /\ UNCHANGED vars => IInv'
  BY DEF vars, threadVars, listenVars, connVars, queueVars, castVars, IInv, TypeOK, Listening,
         KeepsAccepting, AcceptedWaits, OpenInSet, FramesAfterHandshake
<1> QED
  BY <1>1, ServerThreadKeeps, AcceptHandlerKeeps, HandlerKeeps, GameKeeps, StoppingKeeps, WorldKeeps,
     AcceptFailsKeeps
  DEF Next

\* The inductive invariant of the server and the game mode (server_ws.hpp:388-470,
\* 834-846, ReadingTrackerGameMode.cpp:168-172).
THEOREM Invariance == Spec => []IInv
  BY InitHolds, NextKeeps, PTL DEF Spec

--------------------------------------------------------------------------------
\* Until stop() clears it the endpoint's set is the set of the connections that
\* are open (connection_open, connection_close, connection_error).
THEOREM OpenConnectionsInSet == Spec => []SetIsOpen
<1>1. IInv => SetIsOpen
  BY DEF IInv, OpenInSet, SetIsOpen, TypeOK
<1> QED
  BY <1>1, Invariance, PTL

\* Broadcast sends to nobody whose handshake is not answered, however its copy
\* of the set and the server thread interleave (ReadingTrackerGameMode.cpp:466).
THEOREM BroadcastAfterHandshake == Spec => []FramesAfterHandshake
<1>1. IInv => FramesAfterHandshake
  BY DEF IInv
<1> QED
  BY <1>1, Invariance, PTL

\* The chain of asynchronous accepts does not break while the server listens
\* (server_ws.hpp:832-836).
THEOREM AcceptChain == Spec => []KeepsAccepting
<1>1. IInv => KeepsAccepting
  BY DEF IInv
<1> QED
  BY <1>1, Invariance, PTL

\* After EndPlay's join no handler runs on what is about to be destroyed, even
\* if the server was never stopped (ReadingTrackerGameMode.cpp:171).
THEOREM QuietWhenJoined == Spec => QuietAfterJoin
<1> DEFINE Live == {c \in Conns : conn[c] \in Handshaking \cup {"open"}}
           Quiet == UNCHANGED <<srv, connections, message_queue, received, accept_op, Live>>
<1>1. IInv /\ [Next]_vars => [game = "ended" => Quiet]_vars
  <2> SUFFICES ASSUME IInv, game = "ended", Next PROVE Quiet
    BY DEF vars
  <2>1. srv = "done" /\ ~accept_op
    BY DEF IInv, Listening
  <2>2. ~Running /\ ~Playing
    BY <2>1 DEF Running, Playing
  <2>3. ~(ServerThread \/ AcceptHandler \/ AcceptFails \/ InitWS \/ Tick \/ Broadcast \/ EndPlay \/ Stopping)
    BY <2>1, <2>2 DEF AcceptFails, ServerThread, StartLock, StartSetup, RunReturns, StartReturns, AcceptHandler,
       InitWS, Tick, Broadcast, EndPlay, Stopping, StopLock, StopAccept, StopClose, StopIo, Join
  <2>4. ASSUME NEW c \in Conns PROVE ~(Handler(c) \/ BroadcastSend(c) \/ Accepted(c))
    BY <2>1, <2>2 DEF Handler, Secured, HandshakeRead, HandshakeReadError, RefusalWritten, HandshakeWritten,
       ConnectionError, ConnectionClose, OnMessage, TimerHandler, BroadcastSend, Accepted
  <2>5. ASSUME NEW c \in Conns, PeerConnects(c) PROVE Quiet
    <3>1. \A d \in Conns : conn'[d] \in Handshaking \cup {"open"} <=> conn[d] \in Handshaking \cup {"open"}
      BY <2>5 DEF PeerConnects, IInv, TypeOK, Handshaking
    <3> QED
      BY <2>5, <3>1 DEF PeerConnects, threadVars, listenVars, queueVars
  <2>6. ASSUME NEW c \in Conns, PeerBreaks(c) \/ TimerExpires(c) PROVE Quiet
    BY <2>6 DEF PeerBreaks, TimerExpires, threadVars, listenVars, queueVars
  <2> QED
    BY <2>3, <2>4, <2>5, <2>6 DEF Next
<1> QED
  BY <1>1, Invariance, PTL DEF Spec, QuietAfterJoin
================================================================================
