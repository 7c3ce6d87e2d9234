------------------------------ MODULE SendQueue ------------------------------
(***************************************************************************)
(* The outgoing half of SocketServerBase::Connection (server_ws.hpp):      *)
(* send(), send_from_queue() and its completion handler, send_close(), the *)
(* timer that reads and writes share, and the parts of the read handlers   *)
(* that send or that touch the timer.  App threads call send() from        *)
(* outside; Workers run the io_service.  A thread is preemptible between   *)
(* any two of the steps below, and the critical sections under             *)
(* send_queue_mutex are split where the code touches shared state, so the  *)
(* mutex earns its place.                                                  *)
(*                                                                         *)
(* The server's handler_runner is never stopped (its destructor is empty), *)
(* so the continue_lock() at the head of each handler always succeeds and  *)
(* is not modelled here; ScopeRunner models it on its own.                 *)
(***************************************************************************)
EXTENDS Naturals, Sequences, FiniteSets, SequencesExt

CONSTANTS App,           \* threads outside the io_service (the game thread)
          Workers,       \* threads in io_service->run()
          Closers,       \* App threads that also call send_close()
          Messages,      \* frames the application sends
          Pongs,         \* answers to pings
          Closes,        \* frames with the close opcode (136)
          WithCallback,  \* frames sent with a callback
          TimeoutIdle,   \* Config::timeout_idle; 0 is "no timeout"
          None           \* no thread

Threads == App \cup Workers
Frames  == Messages \cup Pongs \cup Closes

ASSUME ThreadAssumption  == App \cap Workers = {} /\ Closers \subseteq App /\ None \notin Threads
ASSUME FrameAssumption   == /\ Frames # {}
                            /\ Messages \cap (Pongs \cup Closes) = {}
                            /\ Pongs \cap Closes = {}
                            /\ WithCallback \subseteq Frames
ASSUME TimeoutAssumption == TimeoutIdle \in Nat

VARIABLES pc,           \* where each thread is
          frame,        \* the frame a thread is sending
          ret,          \* where a thread goes on after send()
          result,       \* the completion a worker is handling
          callbacks,    \* the callbacks a worker still has to call
          mutex,        \* holder of send_queue_mutex
          send_queue,   \* the queue itself
          writing,      \* frames under an outstanding async_write
          completions,  \* completion handlers ready to run
          broken,       \* the socket is shut down or reset; sticky
          reading,      \* a read of the connection is outstanding
          timer,        \* the shared steady_timer
          expired,      \* an expiry handler is ready to run
          closed,       \* Connection::closed
          accepted,     \* history: frames in the order they entered the queue
          left,         \* history: how many of them have left it
          wire,         \* history: frames completely written, in order
          called        \* history: what the callbacks were told, in order

threadVars == <<pc, frame, ret, result, callbacks>>
queueVars  == <<mutex, send_queue, writing, completions>>
connVars   == <<broken, reading, timer, expired, closed>>
histVars   == <<accepted, left, wire, called>>
vars       == <<threadVars, queueVars, connVars, histVars>>

NoFrame    == CHOOSE f \in Frames : TRUE   \* what a dead local variable holds
Completion == [frame : Frames, ok : BOOLEAN]
Outcome(f, ok) == [frame |-> f, ok |-> ok]
Returns    == {"idle", "callback", "reread"}                \* where send() may return to
SendPcs    == {"send", "push", "start"}
ClosePcs   == {"close", "set_closed"}
HandlePcs  == {"complete", "pop", "next"}
Pcs        == Returns \cup SendPcs \cup ClosePcs \cup HandlePcs
Locked     == {"push", "start", "pop", "next"}             \* inside a critical section

ThreadTypes == /\ pc \in [Threads -> Pcs]
               /\ frame \in [Threads -> Frames]
               /\ ret \in [Threads -> Returns]
               /\ result \in [Workers -> Completion]
               /\ callbacks \in [Workers -> Seq(Completion)]
QueueTypes  == /\ mutex \in Threads \cup {None}
               /\ send_queue \in Seq(Frames)
               /\ writing \subseteq Frames
               /\ completions \subseteq Completion
ConnTypes   == /\ broken \in BOOLEAN /\ reading \in BOOLEAN
               /\ timer \in IF TimeoutIdle = 0 THEN {"none"} ELSE {"armed", "cancelled", "fired"}
               /\ expired \in BOOLEAN /\ closed \in BOOLEAN
HistTypes   == /\ accepted \in Seq(Frames)
               /\ left \in Nat
               /\ wire \in Seq(Frames)
               /\ called \in Seq(Completion)

TypeOK == ThreadTypes /\ QueueTypes /\ ConnTypes /\ HistTypes

Init ==
  /\ pc = [t \in Threads |-> "idle"]
  /\ frame = [t \in Threads |-> NoFrame]
  /\ ret = [t \in Threads |-> "idle"]
  /\ result = [w \in Workers |-> Outcome(NoFrame, TRUE)]
  /\ callbacks = [w \in Workers |-> << >>]
  /\ mutex = None
  /\ send_queue = << >>
  /\ writing = {}
  /\ completions = {}
  /\ broken = FALSE
  /\ reading = TRUE
  /\ timer = IF TimeoutIdle = 0 THEN "none" ELSE "armed"
  /\ expired = FALSE
  /\ closed = FALSE
  /\ accepted = << >>
  /\ left = 0
  /\ wire = << >>
  /\ called = << >>

--------------------------------------------------------------------------------
(* Pieces the handlers share. *)

\* Mutant: the test for "no timeout" is the wrong way round.
SetTimeout_Inverted == timer' = IF TimeoutIdle = 0 THEN "armed" ELSE "none"

\* set_timeout() with the default argument; a replaced timer's handler is
\* called with operation_aborted, unless its expiry is already queued.
SetTimeout == timer' = IF TimeoutIdle = 0 THEN "none" ELSE "armed"

\* cancel_timeout(): the timer object stays, its wait does not.
CancelTimeout == timer' = IF timer = "none" THEN "none" ELSE "cancelled"

\* send_from_queue(): async_write on the buffers of the first element.
SendFromQueue == /\ SetTimeout
                 /\ writing' = writing \cup {Head(send_queue)}

Acquire(t) == mutex = None /\ mutex' = t
Release    == mutex' = None

Goto(t, l) == pc' = [pc EXCEPT ![t] = l]

\* A frame nobody is sending and nobody has sent: each send() is a new message.
Fresh == Frames \ (ToSet(accepted) \cup {frame[t] : t \in {u \in Threads : pc[u] \in SendPcs \cup ClosePcs}})

\* Enter send() or send_close() from where the thread stands.
CallOf(t, f, l, r) == /\ Goto(t, l)
                      /\ frame' = [frame EXCEPT ![t] = f]
                      /\ ret' = [ret EXCEPT ![t] = r]

--------------------------------------------------------------------------------
(* send(): an application thread at any time, a worker inside a callback. *)

CallSend(t) ==
  /\ \/ t \in App /\ pc[t] = "idle"
     \/ t \in Workers /\ pc[t] = "callback"
  /\ \E f \in Messages \cap Fresh : CallOf(t, f, "send", pc[t])
  /\ UNCHANGED <<result, callbacks, queueVars, connVars, histVars>>

\* LockGuard lock(send_queue_mutex)
SendLock(t) ==
  /\ pc[t] = "send"
  /\ Acquire(t)
  /\ Goto(t, "push")
  /\ UNCHANGED <<frame, ret, result, callbacks, send_queue, writing, completions, connVars, histVars>>

\* Mutant: control frames jump the queue.
SendPush_Front(t) ==
  /\ pc[t] = "push"
  /\ send_queue' = IF frame[t] \in Messages \/ send_queue = << >>
                   THEN Append(send_queue, frame[t])
                   ELSE <<Head(send_queue), frame[t]>> \o Tail(send_queue)
  /\ accepted' = Append(accepted, frame[t])
  /\ Goto(t, "start")
  /\ UNCHANGED <<frame, ret, result, callbacks, mutex, writing, completions, connVars, left, wire, called>>

\* send_queue.emplace_back(...)
SendPush(t) ==
  /\ pc[t] = "push"
  /\ send_queue' = Append(send_queue, frame[t])
  /\ accepted' = Append(accepted, frame[t])
  /\ Goto(t, "start")
  /\ UNCHANGED <<frame, ret, result, callbacks, mutex, writing, completions, connVars, left, wire, called>>

\* Mutant: every send() starts a write of its own.
SendStart_Always(t) ==
  /\ pc[t] = "start"
  /\ SendFromQueue
  /\ Release
  /\ Goto(t, ret[t])
  /\ frame' = [frame EXCEPT ![t] = NoFrame]
  /\ ret' = [ret EXCEPT ![t] = "idle"]
  /\ UNCHANGED <<result, callbacks, send_queue, completions, broken, reading, expired, closed, histVars>>

\* if(send_queue.size() == 1) send_from_queue(), and the end of the scope.
SendStart(t) ==
  /\ pc[t] = "start"
  /\ IF Len(send_queue) = 1
     THEN SendFromQueue
     ELSE UNCHANGED <<timer, writing>>
  /\ Release
  /\ Goto(t, ret[t])
  /\ frame' = [frame EXCEPT ![t] = NoFrame]
  /\ ret' = [ret EXCEPT ![t] = "idle"]
  /\ UNCHANGED <<result, callbacks, send_queue, completions, broken, reading, expired, closed, histVars>>

--------------------------------------------------------------------------------
(* send_close(): the test of closed and its assignment are two accesses. *)

CallClose(t) ==
  /\ t \in Closers /\ pc[t] = "idle"
  /\ \E f \in Closes \cap Fresh : CallOf(t, f, "close", "idle")
  /\ UNCHANGED <<result, callbacks, queueVars, connVars, histVars>>

TestClosed(t) ==
  /\ pc[t] = "close"
  /\ IF closed
     THEN /\ Goto(t, ret[t])
          /\ frame' = [frame EXCEPT ![t] = NoFrame]
          /\ ret' = [ret EXCEPT ![t] = "idle"]
     ELSE Goto(t, "set_closed") /\ UNCHANGED <<frame, ret>>
  /\ UNCHANGED <<result, callbacks, queueVars, connVars, histVars>>

SetClosed(t) ==
  /\ pc[t] = "set_closed"
  /\ closed' = TRUE
  /\ Goto(t, "send")
  /\ UNCHANGED <<frame, ret, result, callbacks, queueVars, broken, reading, timer, expired, histVars>>

--------------------------------------------------------------------------------
(* The network and the timer, external to the code. *)

\* async_write has put the whole frame on the wire.
WriteDone ==
  /\ ~broken
  /\ \E f \in writing :
       /\ writing' = writing \ {f}
       /\ wire' = Append(wire, f)
       /\ completions' = completions \cup {Outcome(f, TRUE)}
  /\ UNCHANGED <<threadVars, mutex, send_queue, connVars, accepted, left, called>>

\* On a broken socket the outstanding write ends with an error.
WriteFails ==
  /\ broken
  /\ \E f \in writing :
       /\ writing' = writing \ {f}
       /\ completions' = completions \cup {Outcome(f, FALSE)}
  /\ UNCHANGED <<threadVars, mutex, send_queue, connVars, histVars>>

PeerReset ==
  /\ ~broken
  /\ broken' = TRUE
  /\ UNCHANGED <<threadVars, queueVars, reading, timer, expired, closed, histVars>>

TimerFires ==
  /\ timer = "armed"
  /\ timer' = "fired"
  /\ expired' = TRUE
  /\ UNCHANGED <<threadVars, queueVars, broken, reading, closed, histVars>>
--------------------------------------------------------------------------------
(* The completion handler of async_write, on a worker. *)

\* The handler starts: "Set timeout for next send".
PickCompletion(w) ==
  /\ pc[w] = "idle"
  /\ \E c \in completions :
       /\ completions' = completions \ {c}
       /\ result' = [result EXCEPT ![w] = c]
  /\ SetTimeout
  /\ Goto(w, "complete")
  /\ UNCHANGED <<frame, ret, callbacks, mutex, send_queue, writing, broken, reading, expired, closed, histVars>>

CompleteLock(w) ==
  /\ pc[w] = "complete"
  /\ Acquire(w)
  /\ Goto(w, "pop")
  /\ UNCHANGED <<frame, ret, result, callbacks, send_queue, writing, completions, connVars, histVars>>

\* Mutant: the error code is not passed on.
CallbacksOf_NoError(queue, ok) == [i \in 1 .. Len(queue) |-> Outcome(queue[i], TRUE)]

\* What the callbacks of these queue elements are going to be told.
CallbacksOf(queue, ok) == [i \in 1 .. Len(queue) |-> Outcome(queue[i], ok)]

\* Success: the first element is taken out, its callback kept.
CompletePop(w) ==
  /\ pc[w] = "pop" /\ result[w].ok
  /\ send_queue' = Tail(send_queue)
  /\ left' = left + 1
  /\ callbacks' = [callbacks EXCEPT ![w] = CallbacksOf(<<Head(send_queue)>>, TRUE)]
  /\ Goto(w, "next")
  /\ UNCHANGED <<frame, ret, result, mutex, writing, completions, connVars, accepted, wire, called>>

\* Mutant: off by one, the last element is left for the next send().
CompleteNext_OffByOne(w) ==
  /\ pc[w] = "next"
  /\ IF Len(send_queue) > 1
     THEN SendFromQueue
     ELSE UNCHANGED <<timer, writing>>
  /\ Release
  /\ Goto(w, "callback")
  /\ UNCHANGED <<frame, ret, result, callbacks, send_queue, completions, broken, reading, expired, closed, histVars>>

\* if(send_queue.size() > 0) send_from_queue(); lock.unlock()
CompleteNext(w) ==
  /\ pc[w] = "next"
  /\ IF Len(send_queue) > 0
     THEN SendFromQueue
     ELSE UNCHANGED <<timer, writing>>
  /\ Release
  /\ Goto(w, "callback")
  /\ UNCHANGED <<frame, ret, result, callbacks, send_queue, completions, broken, reading, expired, closed, histVars>>

\* Mutant: the queue is cleared before the callbacks are collected.
CompleteError_Forgotten(w) ==
  /\ pc[w] = "pop" /\ ~result[w].ok
  /\ send_queue' = << >>
  /\ left' = left + Len(send_queue)
  /\ callbacks' = [callbacks EXCEPT ![w] = << >>]
  /\ Release
  /\ Goto(w, "callback")
  /\ UNCHANGED <<frame, ret, result, writing, completions, connVars, accepted, wire, called>>

\* Error: every callback in the queue is collected and the queue cleared.
CompleteError(w) ==
  /\ pc[w] = "pop" /\ ~result[w].ok
  /\ send_queue' = << >>
  /\ left' = left + Len(send_queue)
  /\ callbacks' = [callbacks EXCEPT ![w] = CallbacksOf(send_queue, FALSE)]
  /\ Release
  /\ Goto(w, "callback")
  /\ UNCHANGED <<frame, ret, result, writing, completions, connVars, accepted, wire, called>>

\* The callbacks run after the unlock, so they may call send() themselves;
\* an element that came without one is passed over.
RunCallback(w) ==
  /\ pc[w] = "callback" /\ callbacks[w] # << >>
  /\ called' = IF Head(callbacks[w]).frame \in WithCallback
               THEN Append(called, Head(callbacks[w]))
               ELSE called
  /\ callbacks' = [callbacks EXCEPT ![w] = Tail(@)]
  /\ UNCHANGED <<pc, frame, ret, result, queueVars, connVars, accepted, left, wire>>

EndHandler(w) ==
  /\ pc[w] = "callback" /\ callbacks[w] = << >>
  /\ Goto(w, "idle")
  /\ result' = [result EXCEPT ![w] = Outcome(NoFrame, TRUE)]
  /\ UNCHANGED <<frame, ret, callbacks, queueVars, connVars, histVars>>

--------------------------------------------------------------------------------
(* The read handlers, as far as they send or touch the timer.  Data that   *)
(* is already buffered can be read from a broken socket, and a half-closed *)
(* one can still be written to, so neither asks for the state of broken.   *)

ReadHandler(w) == /\ pc[w] = "idle" /\ reading
                  /\ reading' = FALSE
                  /\ CancelTimeout

\* A data frame or a pong: the application's handler, then read again.
ReadMessage(w) ==
  /\ ReadHandler(w)
  /\ Goto(w, "reread")
  /\ UNCHANGED <<frame, ret, result, callbacks, queueVars, broken, expired, closed, histVars>>

\* A ping is answered before the connection is read again.
ReadPing(w) ==
  /\ ReadHandler(w)
  /\ \E f \in Pongs \cap Fresh : CallOf(w, f, "send", "reread")
  /\ UNCHANGED <<result, callbacks, queueVars, broken, expired, closed, histVars>>

\* A close frame, or one that breaks the protocol: send_close(), no more reads.
ReadClose(w) ==
  /\ ReadHandler(w)
  /\ \E f \in Closes \cap Fresh : CallOf(w, f, "close", "idle")
  /\ UNCHANGED <<result, callbacks, queueVars, broken, expired, closed, histVars>>

\* connection_error(): the connection is forgotten, nothing is sent.
ReadError(w) ==
  /\ ReadHandler(w)
  /\ UNCHANGED <<threadVars, queueVars, broken, expired, closed, histVars>>

\* read_message() again: set_timeout(), async_read.
Reread(w) ==
  /\ pc[w] = "reread"
  /\ SetTimeout
  /\ reading' = TRUE
  /\ Goto(w, "idle")
  /\ UNCHANGED <<frame, ret, result, callbacks, queueVars, broken, expired, closed, histVars>>

\* Mutant: cancel() without shutdown(): the socket stays usable.
TimerHandler_NoShutdown(w) ==
  /\ pc[w] = "idle" /\ expired
  /\ expired' = FALSE
  /\ UNCHANGED <<threadVars, queueVars, broken, reading, timer, closed, histVars>>

\* The expiry handler: close() shuts the socket down both ways.
TimerHandler(w) ==
  /\ pc[w] = "idle" /\ expired
  /\ expired' = FALSE
  /\ broken' = TRUE
  /\ UNCHANGED <<threadVars, queueVars, reading, timer, closed, histVars>>

--------------------------------------------------------------------------------
Sending(t) == \/ SendLock(t) \/ SendPush(t) \/ SendStart(t)
              \/ TestClosed(t) \/ SetClosed(t)

Handling(w) == \/ CompleteLock(w) \/ CompletePop(w) \/ CompleteNext(w) \/ CompleteError(w)
               \/ RunCallback(w) \/ EndHandler(w)
               \/ Reread(w)

Network == WriteDone \/ WriteFails

Next ==
  \/ \E t \in Threads : CallSend(t) \/ CallClose(t) \/ Sending(t)
  \/ \E w \in Workers : \/ PickCompletion(w) \/ Handling(w)
                        \/ ReadMessage(w) \/ ReadPing(w) \/ ReadClose(w) \/ ReadError(w)
                        \/ TimerHandler(w)
  \/ Network \/ PeerReset \/ TimerFires

\* Threads keep running; the io_service queues its handlers in FIFO order, so
\* a ready handler is not passed over for ever, whatever else is handled.
Scheduling == /\ \A t \in Threads : WF_vars(Sending(t))
              /\ \A w \in Workers : /\ WF_vars(Handling(w))
                                    /\ SF_vars(PickCompletion(w))
                                    /\ SF_vars(TimerHandler(w))

SafeSpec == Init /\ [][Next]_vars

\* The peer may stall for ever; the clock runs, and a write on a socket that
\* was shut down ends.
Spec == SafeSpec /\ Scheduling /\ WF_vars(WriteFails) /\ WF_vars(TimerFires)
--------------------------------------------------------------------------------
(* Properties. *)

Handlers == {w \in Workers : pc[w] \in {"complete", "pop"}}

\* At most one write operation is under way on the socket (asio forbids two),
\* counting its completion handler up to the pop, and its buffers are those of
\* the first element, which therefore must not leave the queue before it ends
\* (with the types).
OneWritePinned ==
  /\ TypeOK
  /\ Cardinality(writing) + Cardinality(completions) + Cardinality(Handlers) <= 1
  /\ \A f \in writing \cup {c.frame : c \in completions} \cup {result[w].frame : w \in Handlers} :
       send_queue # << >> /\ Head(send_queue) = f

\* No frame is stranded: whenever the lock is free, a non-empty queue has a
\* write under way whose completion will send the next element.
NoStrandedFrame ==
  mutex = None /\ send_queue # << >> => writing # {} \/ completions # {} \/ Handlers # {}

\* What reaches the wire is, frame for frame, what was accepted first: no
\* reordering, duplicate or gap, even around a failure with sends going on.
FifoOnWire == IsPrefix(wire, accepted)

\* Frames given up: gone from the queue, never on the wire.
LostFrames == {accepted[i] : i \in Len(wire) + 1 .. left}

\* Comment in send_close(): "Send close only once (in case close is initiated
\* by server)".
CloseFrameOnce == Cardinality(ToSet(accepted) \cap Closes) <= 1

\* With an idle timeout, a peer that stops both reading and sending cannot
\* hold a write for ever: the timer that each read cancels is armed again.
StalledWriteEnds == TimeoutIdle > 0 => (<>[]reading => []<>(writing = {}))

Told(f) == IF \E i \in 1 .. Len(called) : called[i] = Outcome(f, TRUE) THEN "ok"
           ELSE IF \E i \in 1 .. Len(called) : called[i].frame = f THEN "failed" ELSE "nothing"

Stream == INSTANCE OutStream WITH sent <- accepted,
                                  lost <- LostFrames,
                                  reported <- [f \in WithCallback |-> Told(f)]

\* Every step of the connection is a step of the abstract stream, or changes
\* nothing in it: frames leave in order, a failure loses the whole rest, and a
\* callback is told once, of its own frame, and the truth.
ImplementsOutStream == Stream!SafeSpec

\* While the peer takes data, each accepted frame is delivered or given up and
\* each callback is called, whatever failed before.
StreamProgresses == WF_vars(WriteDone) => Stream!Progress
================================================================================
