--------------------------- MODULE SendQueueProofs ---------------------------
(***************************************************************************)
(* TLAPS proofs about SendQueue, for every number of threads and frames    *)
(* and every idle timeout: type correctness, the single pinned write, no   *)
(* stranded frame, first-in first-out on the wire; and, in the second half, *)
(* that it implements OutStream.                                           *)
(***************************************************************************)
EXTENDS SendQueue, FiniteSetTheorems, SequenceTheorems, TLAPS

\* The holder of send_queue_mutex is the thread inside a critical section.
MutexInv == \A t \in Threads : pc[t] \in Locked <=> mutex = t

\* Only workers handle completions and reads.
WorkerInv == /\ \A t \in Threads : pc[t] \in HandlePcs \cup {"callback", "reread"} => t \in Workers
             /\ \A t \in Threads : ret[t] # "idle" => t \in Workers

\* The queue is what was accepted and has not left.
QueueInv == /\ Len(accepted) = left + Len(send_queue)
            /\ \A i \in 1 .. Len(send_queue) : send_queue[i] = accepted[left + i]

\* A write under way is one of: an outstanding operation, a ready completion,
\* a handler that has not popped yet.
Token == writing # {} \/ completions # {} \/ Handlers # {}

TokenInv == /\ writing # {} => completions = {} /\ Handlers = {}
            /\ completions # {} => Handlers = {}
            /\ \A f, g \in writing : f = g
            /\ \A c, d \in completions : c = d
            /\ \A v, w \in Handlers : v = w

PinnedInv == /\ Token => send_queue # << >>
             /\ \A f \in writing : f = Head(send_queue)
             /\ \A c \in completions : c.frame = Head(send_queue)
             /\ \A w \in Handlers : result[w].frame = Head(send_queue)

\* When a non-empty queue has a write under way: always, but for the thread
\* in the critical section that is about to start one.
DriverInv == /\ \A t \in Threads : pc[t] = "next" => ~Token
             /\ \A t \in Threads : pc[t] = "start" => send_queue # << >> /\ (Token <=> Len(send_queue) > 1)
             /\ (\A t \in Threads : pc[t] \notin {"start", "next"}) => (send_queue # << >> => Token)

\* The write under way has succeeded, its frame not been popped.
OkToken == (\E c \in completions : c.ok) \/ (\E w \in Handlers : result[w].ok)

WireInv == /\ Len(wire) <= Len(accepted)
           /\ \A i \in 1 .. Len(wire) : wire[i] = accepted[i]
           /\ ~broken => Len(wire) = IF OkToken THEN left + 1 ELSE left
           /\ ~broken => \A c \in completions : c.ok
           /\ ~broken => \A w \in Handlers : result[w].ok

IInv == TypeOK /\ MutexInv /\ WorkerInv /\ QueueInv /\ TokenInv /\ PinnedInv /\ DriverInv /\ WireInv
--------------------------------------------------------------------------------
(* Facts about the constants. *)

LEMMA Sets == /\ Workers \subseteq Threads /\ App \subseteq Threads /\ Closers \subseteq Threads
              /\ None \notin Threads
              /\ Messages \subseteq Frames /\ Pongs \subseteq Frames /\ Closes \subseteq Frames
              /\ NoFrame \in Frames
<1>1. NoFrame \in Frames
  BY FrameAssumption DEF NoFrame
<1> QED
  BY <1>1, ThreadAssumption DEF Threads, Frames

LEMMA PcsFact == /\ Returns \subseteq Pcs /\ SendPcs \subseteq Pcs
                 /\ ClosePcs \subseteq Pcs /\ HandlePcs \subseteq Pcs
                 /\ Returns = {"idle", "callback", "reread"}
                 /\ SendPcs = {"send", "push", "start"}
                 /\ ClosePcs = {"close", "set_closed"}
                 /\ HandlePcs = {"complete", "pop", "next"}
  BY DEF Pcs, Returns, SendPcs, ClosePcs, HandlePcs

LEMMA CompletionFact == /\ \A f \in Frames, ok \in BOOLEAN : Outcome(f, ok) \in Completion
                        /\ \A f \in Frames, ok \in BOOLEAN : Outcome(f, ok).frame = f /\ Outcome(f, ok).ok = ok
                        /\ \A c \in Completion : c.frame \in Frames /\ c.ok \in BOOLEAN
  BY DEF Completion, Outcome

\* What the callbacks of a queue are told has the right type.
LEMMA CallbacksOfType ==
  ASSUME NEW q \in Seq(Frames), NEW ok \in BOOLEAN
  PROVE  CallbacksOf(q, ok) \in Seq(Completion)
<1>1. \A i \in 1 .. Len(q) : Outcome(q[i], ok) \in Completion
  BY CompletionFact, ElementOfSeq
<1>2. CallbacksOf(q, ok) \in [1 .. Len(q) -> Completion] /\ Len(q) \in Nat
  BY <1>1 DEF CallbacksOf
<1> QED
  BY <1>2, SeqDef

\* A jump of one thread keeps the type of pc.
LEMMA GotoType ==
  ASSUME pc \in [Threads -> Pcs], NEW t \in Threads, NEW l \in Pcs, Goto(t, l)
  PROVE  pc' \in [Threads -> Pcs]
  BY DEF Goto

--------------------------------------------------------------------------------
(* Types. *)

LEMMA TypeInit == Init => TypeOK
<1> SUFFICES ASSUME Init PROVE TypeOK
  OBVIOUS
<1>1. ThreadTypes
  <2>1. "idle" \in Pcs /\ "idle" \in Returns
    BY PcsFact
  <2>2. \A w \in Workers : result[w] \in Completion
    BY Sets, CompletionFact DEF Init
  <2>3. result \in [Workers -> Completion]
    BY <2>2 DEF Init
  <2>4. callbacks \in [Workers -> Seq(Completion)]
    BY DEF Init
  <2> QED
    BY <2>1, <2>3, <2>4, Sets DEF Init, ThreadTypes
<1>2. QueueTypes /\ ConnTypes /\ HistTypes
  <2>1. << >> \in Seq(Frames) /\ << >> \in Seq(Completion)
    OBVIOUS
  <2> QED
    BY <2>1 DEF Init, QueueTypes, ConnTypes, HistTypes
<1> QED
  BY <1>1, <1>2 DEF TypeOK

LEMMA TypeStep == TypeOK /\ PinnedInv /\ [Next]_vars => TypeOK'
<1> SUFFICES ASSUME TypeOK, PinnedInv, [Next]_vars PROVE TypeOK'
  OBVIOUS
<1> USE Sets DEF TypeOK
<1>1. ASSUME NEW t \in Threads, CallSend(t) PROVE TypeOK'
  <2>1. ThreadTypes'
    BY <1>1, GotoType, PcsFact DEF CallSend, CallOf, Fresh, ThreadTypes
  <2>2. QueueTypes' /\ ConnTypes' /\ HistTypes'
    BY <1>1 DEF CallSend, queueVars, connVars, histVars, QueueTypes, ConnTypes, HistTypes
  <2> QED
    BY <2>1, <2>2
<1>2. ASSUME NEW t \in Threads, CallClose(t) PROVE TypeOK'
  <2>1. ThreadTypes'
    BY <1>2, GotoType, PcsFact DEF CallClose, CallOf, Fresh, ThreadTypes
  <2>2. QueueTypes' /\ ConnTypes' /\ HistTypes'
    BY <1>2 DEF CallClose, queueVars, connVars, histVars, QueueTypes, ConnTypes, HistTypes
  <2> QED
    BY <2>1, <2>2
<1>3. ASSUME NEW t \in Threads, SendLock(t) PROVE TypeOK'
  <2>1. ThreadTypes'
    BY <1>3, GotoType, PcsFact DEF SendLock, Acquire, ThreadTypes
  <2>2. QueueTypes'
    BY <1>3 DEF SendLock, Acquire, QueueTypes, ThreadTypes
  <2>3. ConnTypes' /\ HistTypes'
    BY <1>3 DEF SendLock, connVars, histVars, ConnTypes, HistTypes
  <2> QED
    BY <2>1, <2>2, <2>3
<1>4. ASSUME NEW t \in Threads, SendPush(t) PROVE TypeOK'
  <2>1. ThreadTypes'
    BY <1>4, GotoType, PcsFact DEF SendPush, ThreadTypes
  <2>2. QueueTypes'
    BY <1>4, AppendProperties DEF SendPush, QueueTypes, ThreadTypes
  <2>3. HistTypes'
    BY <1>4, AppendProperties DEF SendPush, HistTypes, ThreadTypes, QueueTypes
  <2>4. ConnTypes'
    BY <1>4 DEF SendPush, connVars, ConnTypes
  <2> QED
    BY <2>1, <2>2, <2>3, <2>4
<1>5. ASSUME NEW t \in Threads, SendStart(t) PROVE TypeOK'
  <2>1. ThreadTypes'
    BY <1>5, GotoType, PcsFact DEF SendStart, Release, SendFromQueue, SetTimeout, ThreadTypes
  <2>2. QueueTypes'
    BY <1>5, HeadTailProperties DEF SendStart, Release, SendFromQueue, SetTimeout, QueueTypes, ThreadTypes
  <2>3. ConnTypes'
    BY <1>5 DEF SendStart, Release, SendFromQueue, SetTimeout, ConnTypes
  <2>4. HistTypes'
    BY <1>5 DEF SendStart, histVars, HistTypes
  <2> QED
    BY <2>1, <2>2, <2>3, <2>4
<1>6. ASSUME NEW t \in Threads, TestClosed(t) PROVE TypeOK'
  <2>1. ThreadTypes'
    BY ZenonT(40), <1>6, GotoType, PcsFact DEF TestClosed, ThreadTypes
  <2>2. QueueTypes' /\ ConnTypes' /\ HistTypes'
    BY <1>6 DEF TestClosed, queueVars, connVars, histVars, QueueTypes, ConnTypes, HistTypes
  <2> QED
    BY <2>1, <2>2
<1>7. ASSUME NEW t \in Threads, SetClosed(t) PROVE TypeOK'
  <2>1. ThreadTypes'
    BY <1>7, GotoType, PcsFact DEF SetClosed, ThreadTypes
  <2>2. ConnTypes'
    BY <1>7 DEF SetClosed, ConnTypes
  <2>3. QueueTypes' /\ HistTypes'
    BY <1>7 DEF SetClosed, queueVars, histVars, QueueTypes, HistTypes
  <2> QED
    BY <2>1, <2>2, <2>3
<1>8. ASSUME NEW w \in Workers, PickCompletion(w) PROVE TypeOK'
  <2>1. ThreadTypes'
    BY <1>8, GotoType, PcsFact, CompletionFact DEF PickCompletion, SetTimeout, ThreadTypes, QueueTypes
  <2>2. QueueTypes'
    BY <1>8 DEF PickCompletion, SetTimeout, QueueTypes, ThreadTypes
  <2>3. ConnTypes'
    BY <1>8 DEF PickCompletion, SetTimeout, ConnTypes
  <2>4. HistTypes'
    BY <1>8 DEF PickCompletion, histVars, HistTypes
  <2> QED
    BY <2>1, <2>2, <2>3, <2>4
<1>9. ASSUME NEW w \in Workers, CompleteLock(w) PROVE TypeOK'
  <2>1. ThreadTypes'
    BY <1>9, GotoType, PcsFact DEF CompleteLock, Acquire, ThreadTypes
  <2>2. QueueTypes'
    BY <1>9 DEF CompleteLock, Acquire, QueueTypes, ThreadTypes
  <2>3. ConnTypes' /\ HistTypes'
    BY <1>9 DEF CompleteLock, connVars, histVars, ConnTypes, HistTypes
  <2> QED
    BY <2>1, <2>2, <2>3
<1>10. ASSUME NEW w \in Workers, CompletePop(w) PROVE TypeOK'
  <2> send_queue # << >> /\ Head(send_queue) \in Frames /\ Tail(send_queue) \in Seq(Frames)
    BY <1>10, HeadTailProperties DEF CompletePop, PinnedInv, Token, Handlers, QueueTypes
  <2> <<Head(send_queue)>> \in Seq(Frames)
    OBVIOUS
  <2>1. ThreadTypes'
    BY <1>10, GotoType, PcsFact, CallbacksOfType DEF CompletePop, ThreadTypes
  <2>2. QueueTypes'
    BY <1>10 DEF CompletePop, QueueTypes
  <2>3. HistTypes'
    BY <1>10, HeadTailProperties DEF CompletePop, HistTypes, ThreadTypes, QueueTypes
  <2>4. ConnTypes'
    BY <1>10 DEF CompletePop, connVars, ConnTypes
  <2> QED
    BY <2>1, <2>2, <2>3, <2>4
<1>11. ASSUME NEW w \in Workers, CompleteNext(w) PROVE TypeOK'
  <2>1. ThreadTypes'
    BY <1>11, GotoType, PcsFact DEF CompleteNext, Release, SendFromQueue, SetTimeout, ThreadTypes
  <2>2. QueueTypes'
    BY <1>11, HeadTailProperties DEF CompleteNext, Release, SendFromQueue, SetTimeout, QueueTypes, ThreadTypes
  <2>3. ConnTypes'
    BY <1>11 DEF CompleteNext, Release, SendFromQueue, SetTimeout, ConnTypes
  <2>4. HistTypes'
    BY <1>11 DEF CompleteNext, histVars, HistTypes
  <2> QED
    BY <2>1, <2>2, <2>3, <2>4
<1>12. ASSUME NEW w \in Workers, CompleteError(w) PROVE TypeOK'
  <2>1. ThreadTypes'
    BY <1>12, GotoType, PcsFact, CallbacksOfType DEF CompleteError, ThreadTypes, QueueTypes
  <2>2. QueueTypes'
    BY <1>12 DEF CompleteError, Release, QueueTypes, ThreadTypes
  <2>3. HistTypes'
    BY <1>12 DEF CompleteError, Release, HistTypes, ThreadTypes, QueueTypes
  <2>4. ConnTypes'
    BY <1>12 DEF CompleteError, connVars, ConnTypes
  <2> QED
    BY <2>1, <2>2, <2>3, <2>4
<1>13. ASSUME NEW w \in Workers, RunCallback(w) PROVE TypeOK'
  <2>1. ThreadTypes'
    BY <1>13, GotoType, PcsFact, CallbacksOfType DEF RunCallback, ThreadTypes, QueueTypes
  <2>2. HistTypes'
    BY <1>13, AppendProperties DEF RunCallback, HistTypes, ThreadTypes, QueueTypes
  <2>3. QueueTypes' /\ ConnTypes'
    BY <1>13 DEF RunCallback, queueVars, connVars, QueueTypes, ConnTypes
  <2> QED
    BY <2>1, <2>2, <2>3
<1>14. ASSUME NEW w \in Workers, EndHandler(w) PROVE TypeOK'
  <2>1. ThreadTypes'
    BY <1>14, GotoType, PcsFact, CompletionFact DEF EndHandler, ThreadTypes, QueueTypes
  <2>2. QueueTypes' /\ ConnTypes' /\ HistTypes'
    BY <1>14 DEF EndHandler, queueVars, connVars, histVars, QueueTypes, ConnTypes, HistTypes
  <2> QED
    BY <2>1, <2>2
<1>15. ASSUME NEW w \in Workers, Reread(w) PROVE TypeOK'
  <2>1. ThreadTypes'
    BY <1>15, GotoType, PcsFact DEF Reread, SetTimeout, ThreadTypes
  <2>2. ConnTypes'
    BY <1>15 DEF Reread, SetTimeout, ConnTypes
  <2>3. QueueTypes' /\ HistTypes'
    BY <1>15 DEF Reread, queueVars, histVars, QueueTypes, HistTypes
  <2> QED
    BY <2>1, <2>2, <2>3
<1>16. ASSUME NEW w \in Workers, ReadMessage(w) PROVE TypeOK'
  <2>1. ThreadTypes'
    BY <1>16, GotoType, PcsFact DEF ReadMessage, ReadHandler, CancelTimeout, ThreadTypes
  <2>2. ConnTypes'
    BY <1>16 DEF ReadMessage, ReadHandler, CancelTimeout, ConnTypes
  <2>3. QueueTypes' /\ HistTypes'
    BY <1>16 DEF ReadMessage, queueVars, histVars, QueueTypes, HistTypes
  <2> QED
    BY <2>1, <2>2, <2>3
<1>17. ASSUME NEW w \in Workers, ReadPing(w) PROVE TypeOK'
  <2>1. ThreadTypes'
    BY <1>17, GotoType, PcsFact DEF ReadPing, CallOf, ReadHandler, Fresh, CancelTimeout, ThreadTypes
  <2>2. ConnTypes'
    BY <1>17 DEF ReadPing, CallOf, ReadHandler, Fresh, CancelTimeout, ConnTypes
  <2>3. QueueTypes' /\ HistTypes'
    BY <1>17 DEF ReadPing, queueVars, histVars, QueueTypes, HistTypes
  <2> QED
    BY <2>1, <2>2, <2>3
<1>18. ASSUME NEW w \in Workers, ReadClose(w) PROVE TypeOK'
  <2>1. ThreadTypes'
    BY <1>18, GotoType, PcsFact DEF ReadClose, CallOf, ReadHandler, Fresh, CancelTimeout, ThreadTypes
  <2>2. ConnTypes'
    BY <1>18 DEF ReadClose, CallOf, ReadHandler, Fresh, CancelTimeout, ConnTypes
  <2>3. QueueTypes' /\ HistTypes'
    BY <1>18 DEF ReadClose, queueVars, histVars, QueueTypes, HistTypes
  <2> QED
    BY <2>1, <2>2, <2>3
<1>19. ASSUME NEW w \in Workers, ReadError(w) PROVE TypeOK'
  <2>1. ConnTypes'
    BY <1>19 DEF ReadError, ReadHandler, CancelTimeout, ConnTypes
  <2>2. ThreadTypes' /\ QueueTypes' /\ HistTypes'
    BY <1>19 DEF ReadError, threadVars, queueVars, histVars, ThreadTypes, QueueTypes, HistTypes
  <2> QED
    BY <2>1, <2>2
<1>20. ASSUME NEW w \in Workers, TimerHandler(w) PROVE TypeOK'
  <2>1. ConnTypes'
    BY <1>20 DEF TimerHandler, ConnTypes
  <2>2. ThreadTypes' /\ QueueTypes' /\ HistTypes'
    BY <1>20 DEF TimerHandler, threadVars, queueVars, histVars, ThreadTypes, QueueTypes, HistTypes
  <2> QED
    BY <2>1, <2>2
<1>21. CASE WriteDone
  <2>1. QueueTypes'
    BY <1>21, CompletionFact DEF WriteDone, QueueTypes
  <2>2. HistTypes'
    BY <1>21, CompletionFact, AppendProperties DEF WriteDone, HistTypes, ThreadTypes, QueueTypes
  <2>3. ThreadTypes' /\ ConnTypes'
    BY <1>21 DEF WriteDone, threadVars, connVars, ThreadTypes, ConnTypes
  <2> QED
    BY <2>1, <2>2, <2>3
<1>22. CASE WriteFails
  <2>1. QueueTypes'
    BY ZenonT(40), <1>22, CompletionFact DEF WriteFails, QueueTypes, ThreadTypes
  <2>2. ThreadTypes' /\ ConnTypes' /\ HistTypes'
    BY <1>22 DEF WriteFails, threadVars, connVars, histVars, ThreadTypes, ConnTypes, HistTypes
  <2> QED
    BY <2>1, <2>2
<1>23. CASE PeerReset
  <2>1. ConnTypes'
    BY <1>23 DEF PeerReset, ConnTypes
  <2>2. ThreadTypes' /\ QueueTypes' /\ HistTypes'
    BY <1>23 DEF PeerReset, threadVars, queueVars, histVars, ThreadTypes, QueueTypes, HistTypes
  <2> QED
    BY <2>1, <2>2
<1>24. CASE TimerFires
  <2>1. ConnTypes'
    BY <1>24 DEF TimerFires, ConnTypes
  <2>2. ThreadTypes' /\ QueueTypes' /\ HistTypes'
    BY <1>24 DEF TimerFires, threadVars, queueVars, histVars, ThreadTypes, QueueTypes, HistTypes
  <2> QED
    BY <2>1, <2>2
<1>25. CASE UNCHANGED vars
  BY <1>25 DEF vars, threadVars, queueVars, connVars, histVars, ThreadTypes, QueueTypes, ConnTypes, HistTypes
<1> QED
  BY <1>1, <1>2, <1>3, <1>4, <1>5, <1>6, <1>7, <1>8, <1>9, <1>10, <1>11, <1>12, <1>13, <1>14, <1>15, <1>16, <1>17, <1>18, <1>19, <1>20, <1>21, <1>22, <1>23, <1>24, <1>25 DEF Next, Sending, Handling, Network
--------------------------------------------------------------------------------
(* The mutex and the roles of the threads. *)

LEMMA MutexStep == TypeOK /\ MutexInv /\ [Next]_vars => MutexInv'
<1> SUFFICES ASSUME TypeOK, MutexInv, [Next]_vars PROVE MutexInv'
  OBVIOUS
<1> USE Sets, PcsFact DEF TypeOK, ThreadTypes, QueueTypes, MutexInv, Locked
<1>1. ASSUME NEW t \in Threads, CallSend(t) PROVE MutexInv'
  BY <1>1 DEF CallSend, CallOf, Goto, queueVars, connVars, histVars
<1>2. ASSUME NEW t \in Threads, CallClose(t) PROVE MutexInv'
  BY <1>2 DEF CallClose, CallOf, Goto, queueVars, connVars, histVars
<1>3. ASSUME NEW t \in Threads, SendLock(t) PROVE MutexInv'
  BY <1>3 DEF SendLock, Goto, Acquire, connVars, histVars
<1>4. ASSUME NEW t \in Threads, SendPush(t) PROVE MutexInv'
  BY <1>4 DEF SendPush, Goto, connVars
<1>5. ASSUME NEW t \in Threads, SendStart(t) PROVE MutexInv'
  BY <1>5 DEF SendStart, Goto, Release, SendFromQueue, histVars
<1>6. ASSUME NEW t \in Threads, TestClosed(t) PROVE MutexInv'
  BY SMTT(30), <1>6 DEF TestClosed, Goto, queueVars, connVars, histVars
<1>7. ASSUME NEW t \in Threads, SetClosed(t) PROVE MutexInv'
  BY <1>7 DEF SetClosed, Goto, queueVars, histVars
<1>8. ASSUME NEW w \in Workers, PickCompletion(w) PROVE MutexInv'
  BY <1>8 DEF PickCompletion, Goto, histVars
<1>9. ASSUME NEW w \in Workers, CompleteLock(w) PROVE MutexInv'
  BY <1>9 DEF CompleteLock, Goto, Acquire, connVars, histVars
<1>10. ASSUME NEW w \in Workers, CompletePop(w) PROVE MutexInv'
  BY <1>10 DEF CompletePop, Goto, connVars
<1>11. ASSUME NEW w \in Workers, CompleteNext(w) PROVE MutexInv'
  BY <1>11 DEF CompleteNext, Goto, Release, SendFromQueue, histVars
<1>12. ASSUME NEW w \in Workers, CompleteError(w) PROVE MutexInv'
  BY <1>12 DEF CompleteError, Goto, Release, connVars
<1>13. ASSUME NEW w \in Workers, RunCallback(w) PROVE MutexInv'
  BY <1>13 DEF RunCallback, queueVars, connVars
<1>14. ASSUME NEW w \in Workers, EndHandler(w) PROVE MutexInv'
  BY <1>14 DEF EndHandler, Goto, queueVars, connVars, histVars
<1>15. ASSUME NEW w \in Workers, Reread(w) PROVE MutexInv'
  BY <1>15 DEF Reread, Goto, queueVars, histVars
<1>16. ASSUME NEW w \in Workers, ReadMessage(w) PROVE MutexInv'
  BY <1>16 DEF ReadMessage, Goto, ReadHandler, queueVars, histVars
<1>17. ASSUME NEW w \in Workers, ReadPing(w) PROVE MutexInv'
  BY <1>17 DEF ReadPing, CallOf, ReadHandler, Goto, queueVars, histVars
<1>18. ASSUME NEW w \in Workers, ReadClose(w) PROVE MutexInv'
  BY <1>18 DEF ReadClose, CallOf, ReadHandler, Goto, queueVars, histVars
<1>19. ASSUME NEW w \in Workers, ReadError(w) PROVE MutexInv'
  BY <1>19 DEF ReadError, ReadHandler, threadVars, queueVars, histVars
<1>20. ASSUME NEW w \in Workers, TimerHandler(w) PROVE MutexInv'
  BY <1>20 DEF TimerHandler, threadVars, queueVars, histVars
<1>21. CASE WriteDone
  BY <1>21 DEF WriteDone, threadVars, connVars
<1>22. CASE WriteFails
  BY <1>22 DEF WriteFails, threadVars, connVars, histVars
<1>23. CASE PeerReset
  BY <1>23 DEF PeerReset, threadVars, queueVars, histVars
<1>24. CASE TimerFires
  BY <1>24 DEF TimerFires, threadVars, queueVars, histVars
<1>25. CASE UNCHANGED vars
  BY <1>25 DEF vars, threadVars, queueVars, connVars, histVars
<1> QED
  BY <1>1, <1>2, <1>3, <1>4, <1>5, <1>6, <1>7, <1>8, <1>9, <1>10, <1>11, <1>12, <1>13, <1>14, <1>15, <1>16, <1>17, <1>18, <1>19, <1>20, <1>21, <1>22, <1>23, <1>24, <1>25 DEF Next, Sending, Handling, Network

LEMMA WorkerStep == TypeOK /\ WorkerInv /\ [Next]_vars => WorkerInv'
<1> SUFFICES ASSUME TypeOK, WorkerInv, [Next]_vars PROVE WorkerInv'
  OBVIOUS
<1> USE Sets, PcsFact, ThreadAssumption DEF TypeOK, ThreadTypes, WorkerInv
<1>1. ASSUME NEW t \in Threads, CallSend(t) PROVE WorkerInv'
  BY <1>1 DEF CallSend, CallOf, Goto, queueVars, connVars, histVars
<1>2. ASSUME NEW t \in Threads, CallClose(t) PROVE WorkerInv'
  BY <1>2 DEF CallClose, CallOf, Goto, queueVars, connVars, histVars
<1>3. ASSUME NEW t \in Threads, SendLock(t) PROVE WorkerInv'
  BY <1>3 DEF SendLock, Goto, Acquire, connVars, histVars
<1>4. ASSUME NEW t \in Threads, SendPush(t) PROVE WorkerInv'
  BY <1>4 DEF SendPush, Goto, connVars
<1>5. ASSUME NEW t \in Threads, SendStart(t) PROVE WorkerInv'
  BY <1>5 DEF SendStart, Goto, Release, SendFromQueue, histVars
<1>6. ASSUME NEW t \in Threads, TestClosed(t) PROVE WorkerInv'
  BY <1>6 DEF TestClosed, Goto, queueVars, connVars, histVars
<1>7. ASSUME NEW t \in Threads, SetClosed(t) PROVE WorkerInv'
  BY <1>7 DEF SetClosed, Goto, queueVars, histVars
<1>8. ASSUME NEW w \in Workers, PickCompletion(w) PROVE WorkerInv'
  BY <1>8 DEF PickCompletion, Goto, histVars
<1>9. ASSUME NEW w \in Workers, CompleteLock(w) PROVE WorkerInv'
  BY <1>9 DEF CompleteLock, Goto, Acquire, connVars, histVars
<1>10. ASSUME NEW w \in Workers, CompletePop(w) PROVE WorkerInv'
  BY <1>10 DEF CompletePop, Goto, connVars
<1>11. ASSUME NEW w \in Workers, CompleteNext(w) PROVE WorkerInv'
  BY <1>11 DEF CompleteNext, Goto, Release, SendFromQueue, histVars
<1>12. ASSUME NEW w \in Workers, CompleteError(w) PROVE WorkerInv'
  BY <1>12 DEF CompleteError, Goto, Release, connVars
<1>13. ASSUME NEW w \in Workers, RunCallback(w) PROVE WorkerInv'
  BY <1>13 DEF RunCallback, queueVars, connVars
<1>14. ASSUME NEW w \in Workers, EndHandler(w) PROVE WorkerInv'
  BY <1>14 DEF EndHandler, Goto, queueVars, connVars, histVars
<1>15. ASSUME NEW w \in Workers, Reread(w) PROVE WorkerInv'
  BY <1>15 DEF Reread, Goto, queueVars, histVars
<1>16. ASSUME NEW w \in Workers, ReadMessage(w) PROVE WorkerInv'
  BY <1>16 DEF ReadMessage, Goto, ReadHandler, queueVars, histVars
<1>17. ASSUME NEW w \in Workers, ReadPing(w) PROVE WorkerInv'
  BY <1>17 DEF ReadPing, CallOf, ReadHandler, Goto, queueVars, histVars
<1>18. ASSUME NEW w \in Workers, ReadClose(w) PROVE WorkerInv'
  BY <1>18 DEF ReadClose, CallOf, ReadHandler, Goto, queueVars, histVars
<1>19. ASSUME NEW w \in Workers, ReadError(w) PROVE WorkerInv'
  BY <1>19 DEF ReadError, ReadHandler, threadVars, queueVars, histVars
<1>20. ASSUME NEW w \in Workers, TimerHandler(w) PROVE WorkerInv'
  BY <1>20 DEF TimerHandler, threadVars, queueVars, histVars
<1>21. CASE WriteDone
  BY <1>21 DEF WriteDone, threadVars, connVars
<1>22. CASE WriteFails
  BY <1>22 DEF WriteFails, threadVars, connVars, histVars
<1>23. CASE PeerReset
  BY <1>23 DEF PeerReset, threadVars, queueVars, histVars
<1>24. CASE TimerFires
  BY <1>24 DEF TimerFires, threadVars, queueVars, histVars
<1>25. CASE UNCHANGED vars
  BY <1>25 DEF vars, threadVars, queueVars, connVars, histVars
<1> QED
  BY <1>1, <1>2, <1>3, <1>4, <1>5, <1>6, <1>7, <1>8, <1>9, <1>10, <1>11, <1>12, <1>13, <1>14, <1>15, <1>16, <1>17, <1>18, <1>19, <1>20, <1>21, <1>22, <1>23, <1>24, <1>25 DEF Next, Sending, Handling, Network

LEMMA QueueStep == TypeOK /\ PinnedInv /\ QueueInv /\ [Next]_vars => QueueInv'
<1> SUFFICES ASSUME TypeOK, PinnedInv, QueueInv, [Next]_vars PROVE QueueInv'
  OBVIOUS
<1> USE Sets DEF TypeOK, QueueTypes, HistTypes, QueueInv
<1>1. ASSUME NEW t \in Threads, CallSend(t) PROVE QueueInv'
  BY <1>1 DEF CallSend, CallOf, Goto, queueVars, connVars, histVars
<1>2. ASSUME NEW t \in Threads, CallClose(t) PROVE QueueInv'
  BY <1>2 DEF CallClose, CallOf, Goto, queueVars, connVars, histVars
<1>3. ASSUME NEW t \in Threads, SendLock(t) PROVE QueueInv'
  BY <1>3 DEF SendLock, Goto, Acquire, connVars, histVars
<1>4. ASSUME NEW t \in Threads, SendPush(t) PROVE QueueInv'
  BY <1>4 DEF SendPush, Goto, connVars
<1>5. ASSUME NEW t \in Threads, SendStart(t) PROVE QueueInv'
  BY <1>5 DEF SendStart, Goto, Release, SendFromQueue, histVars
<1>6. ASSUME NEW t \in Threads, TestClosed(t) PROVE QueueInv'
  BY <1>6 DEF TestClosed, Goto, queueVars, connVars, histVars
<1>7. ASSUME NEW t \in Threads, SetClosed(t) PROVE QueueInv'
  BY <1>7 DEF SetClosed, Goto, queueVars, histVars
<1>8. ASSUME NEW w \in Workers, PickCompletion(w) PROVE QueueInv'
  BY <1>8 DEF PickCompletion, Goto, histVars
<1>9. ASSUME NEW w \in Workers, CompleteLock(w) PROVE QueueInv'
  BY <1>9 DEF CompleteLock, Goto, Acquire, connVars, histVars
<1>10. ASSUME NEW w \in Workers, CompletePop(w) PROVE QueueInv'
  <2>1. send_queue # << >>
    BY <1>10 DEF CompletePop, PinnedInv, Token, Handlers
  <2>2. Len(send_queue') = Len(send_queue) - 1 /\ \A i \in 1 .. Len(send_queue') : send_queue'[i] = send_queue[i + 1]
    BY <1>10, <2>1, HeadTailProperties DEF CompletePop
  <2>3. Len(send_queue) \in Nat /\ Len(send_queue') \in Nat /\ left \in Nat
    BY <1>10, <2>1, HeadTailProperties DEF CompletePop
  <2>4. accepted' = accepted /\ left' = left + 1
    BY <1>10 DEF CompletePop
  <2>5. Len(accepted') = left' + Len(send_queue')
    BY <2>2, <2>3, <2>4
  <2>6. ASSUME NEW i \in 1 .. Len(send_queue') PROVE send_queue'[i] = accepted'[left' + i]
    <3>1. i + 1 \in 1 .. Len(send_queue) /\ left + (i + 1) = left' + i
      BY <2>2, <2>3, <2>4
    <3> QED
      BY <2>2, <2>4, <3>1
  <2> QED
    BY <2>5, <2>6
<1>11. ASSUME NEW w \in Workers, CompleteNext(w) PROVE QueueInv'
  BY <1>11 DEF CompleteNext, Goto, Release, SendFromQueue, histVars
<1>12. ASSUME NEW w \in Workers, CompleteError(w) PROVE QueueInv'
  BY <1>12 DEF CompleteError, Goto, Release, connVars
<1>13. ASSUME NEW w \in Workers, RunCallback(w) PROVE QueueInv'
  BY <1>13 DEF RunCallback, queueVars, connVars
<1>14. ASSUME NEW w \in Workers, EndHandler(w) PROVE QueueInv'
  BY <1>14 DEF EndHandler, Goto, queueVars, connVars, histVars
<1>15. ASSUME NEW w \in Workers, Reread(w) PROVE QueueInv'
  BY <1>15 DEF Reread, Goto, queueVars, histVars
<1>16. ASSUME NEW w \in Workers, ReadMessage(w) PROVE QueueInv'
  BY <1>16 DEF ReadMessage, Goto, ReadHandler, queueVars, histVars
<1>17. ASSUME NEW w \in Workers, ReadPing(w) PROVE QueueInv'
  BY <1>17 DEF ReadPing, CallOf, ReadHandler, Goto, queueVars, histVars
<1>18. ASSUME NEW w \in Workers, ReadClose(w) PROVE QueueInv'
  BY <1>18 DEF ReadClose, CallOf, ReadHandler, Goto, queueVars, histVars
<1>19. ASSUME NEW w \in Workers, ReadError(w) PROVE QueueInv'
  BY <1>19 DEF ReadError, ReadHandler, threadVars, queueVars, histVars
<1>20. ASSUME NEW w \in Workers, TimerHandler(w) PROVE QueueInv'
  BY <1>20 DEF TimerHandler, threadVars, queueVars, histVars
<1>21. CASE WriteDone
  BY <1>21 DEF WriteDone, threadVars, connVars
<1>22. CASE WriteFails
  BY <1>22 DEF WriteFails, threadVars, connVars, histVars
<1>23. CASE PeerReset
  BY <1>23 DEF PeerReset, threadVars, queueVars, histVars
<1>24. CASE TimerFires
  BY <1>24 DEF TimerFires, threadVars, queueVars, histVars
<1>25. CASE UNCHANGED vars
  BY <1>25 DEF vars, threadVars, queueVars, connVars, histVars
<1> QED
  BY <1>1, <1>2, <1>3, <1>4, <1>5, <1>6, <1>7, <1>8, <1>9, <1>10, <1>11, <1>12, <1>13, <1>14, <1>15, <1>16, <1>17, <1>18, <1>19, <1>20, <1>21, <1>22, <1>23, <1>24, <1>25 DEF Next, Sending, Handling, Network
--------------------------------------------------------------------------------
(* The write under way. *)

\* A step that leaves the queue and the write under way alone.
Still == /\ UNCHANGED <<send_queue, writing, completions>>
         /\ \A w \in Workers : w \in Handlers' <=> w \in Handlers
         /\ \A w \in Handlers : result'[w] = result[w]

LEMMA StillToken == Still => /\ Token' <=> Token
                             /\ TokenInv => TokenInv'
                             /\ PinnedInv => PinnedInv'
<1> SUFFICES ASSUME Still PROVE /\ Token' <=> Token
                                /\ TokenInv => TokenInv'
                                /\ PinnedInv => PinnedInv'
  OBVIOUS
<1>1. Handlers' = Handlers /\ Handlers \subseteq Workers
  BY DEF Still, Handlers
<1>2. Token' <=> Token
  BY <1>1 DEF Still, Token
<1>3. TokenInv => TokenInv'
  BY <1>1 DEF Still, TokenInv
<1>4. PinnedInv => PinnedInv'
  BY <1>1, <1>2 DEF Still, PinnedInv
<1> QED
  BY <1>2, <1>3, <1>4

LEMMA TokenStep == TypeOK /\ MutexInv /\ WorkerInv /\ TokenInv /\ PinnedInv /\ DriverInv /\ [Next]_vars => TokenInv'
<1> SUFFICES ASSUME TypeOK, MutexInv, WorkerInv, TokenInv, PinnedInv, DriverInv, [Next]_vars PROVE TokenInv'
  OBVIOUS
<1> USE Sets, PcsFact DEF TypeOK, ThreadTypes, QueueTypes, MutexInv, WorkerInv, Locked, TokenInv, PinnedInv, DriverInv, Token, Handlers
<1>1. ASSUME NEW t \in Threads, CallSend(t) PROVE TokenInv'
  BY <1>1 DEF CallSend, CallOf, Goto, queueVars, connVars, histVars
<1>2. ASSUME NEW t \in Threads, CallClose(t) PROVE TokenInv'
  BY <1>2 DEF CallClose, CallOf, Goto, queueVars, connVars, histVars
<1>3. ASSUME NEW t \in Threads, SendLock(t) PROVE TokenInv'
  BY <1>3 DEF SendLock, Goto, Acquire, connVars, histVars
<1>4. ASSUME NEW t \in Threads, SendPush(t) PROVE TokenInv'
  BY <1>4 DEF SendPush, Goto, connVars
<1>5. ASSUME NEW t \in Threads, SendStart(t) PROVE TokenInv'
  <2>1. Handlers' = Handlers /\ completions' = completions
    BY <1>5 DEF SendStart, Goto, histVars
  <2>2. CASE Len(send_queue) = 1
    <3>1. writing = {} /\ completions = {} /\ Handlers = {}
      BY <1>5, <2>2 DEF SendStart
    <3>2. writing' = {Head(send_queue)}
      BY <1>5, <2>2, <3>1 DEF SendStart, SendFromQueue
    <3> QED
      BY <2>1, <3>1, <3>2
  <2>3. CASE Len(send_queue) # 1
    BY <1>5, <2>1, <2>3 DEF SendStart
  <2> QED
    BY <2>2, <2>3
<1>6. ASSUME NEW t \in Threads, TestClosed(t) PROVE TokenInv'
  BY SMTT(30), <1>6 DEF TestClosed, Goto, queueVars, connVars, histVars
<1>7. ASSUME NEW t \in Threads, SetClosed(t) PROVE TokenInv'
  BY <1>7 DEF SetClosed, Goto, queueVars, histVars
<1>8. ASSUME NEW w \in Workers, PickCompletion(w) PROVE TokenInv'
  BY <1>8 DEF PickCompletion, Goto, histVars
<1>9. ASSUME NEW w \in Workers, CompleteLock(w) PROVE TokenInv'
  BY <1>9 DEF CompleteLock, Goto, Acquire, connVars, histVars
<1>10. ASSUME NEW w \in Workers, CompletePop(w) PROVE TokenInv'
  BY <1>10 DEF CompletePop, Goto, connVars
<1>11. ASSUME NEW w \in Workers, CompleteNext(w) PROVE TokenInv'
  BY <1>11 DEF CompleteNext, Goto, Release, SendFromQueue, histVars
<1>12. ASSUME NEW w \in Workers, CompleteError(w) PROVE TokenInv'
  BY <1>12 DEF CompleteError, Goto, Release, connVars
<1>13. ASSUME NEW w \in Workers, RunCallback(w) PROVE TokenInv'
  BY <1>13 DEF RunCallback, queueVars, connVars
<1>14. ASSUME NEW w \in Workers, EndHandler(w) PROVE TokenInv'
  BY <1>14 DEF EndHandler, Goto, queueVars, connVars, histVars
<1>15. ASSUME NEW w \in Workers, Reread(w) PROVE TokenInv'
  BY <1>15 DEF Reread, Goto, queueVars, histVars
<1>16. ASSUME NEW w \in Workers, ReadMessage(w) PROVE TokenInv'
  BY <1>16 DEF ReadMessage, Goto, ReadHandler, queueVars, histVars
<1>17. ASSUME NEW w \in Workers, ReadPing(w) PROVE TokenInv'
  BY <1>17 DEF ReadPing, CallOf, ReadHandler, Goto, queueVars, histVars
<1>18. ASSUME NEW w \in Workers, ReadClose(w) PROVE TokenInv'
  BY <1>18 DEF ReadClose, CallOf, ReadHandler, Goto, queueVars, histVars
<1>19. ASSUME NEW w \in Workers, ReadError(w) PROVE TokenInv'
  BY <1>19 DEF ReadError, ReadHandler, threadVars, queueVars, histVars
<1>20. ASSUME NEW w \in Workers, TimerHandler(w) PROVE TokenInv'
  BY <1>20 DEF TimerHandler, threadVars, queueVars, histVars
<1>21. CASE WriteDone
  BY <1>21 DEF WriteDone, threadVars, connVars
<1>22. CASE WriteFails
  BY <1>22 DEF WriteFails, threadVars, connVars, histVars
<1>23. CASE PeerReset
  BY <1>23 DEF PeerReset, threadVars, queueVars, histVars
<1>24. CASE TimerFires
  BY <1>24 DEF TimerFires, threadVars, queueVars, histVars
<1>25. CASE UNCHANGED vars
  BY <1>25 DEF vars, threadVars, queueVars, connVars, histVars
<1> QED
  BY <1>1, <1>2, <1>3, <1>4, <1>5, <1>6, <1>7, <1>8, <1>9, <1>10, <1>11, <1>12, <1>13, <1>14, <1>15, <1>16, <1>17, <1>18, <1>19, <1>20, <1>21, <1>22, <1>23, <1>24, <1>25 DEF Next, Sending, Handling, Network

LEMMA PinnedStep == TypeOK /\ MutexInv /\ WorkerInv /\ TokenInv /\ PinnedInv /\ DriverInv /\ [Next]_vars => PinnedInv'
<1> SUFFICES ASSUME TypeOK, MutexInv, WorkerInv, TokenInv, PinnedInv, DriverInv, [Next]_vars PROVE PinnedInv'
  OBVIOUS
<1> USE Sets, PcsFact DEF TypeOK, ThreadTypes, QueueTypes, MutexInv, WorkerInv, Locked, TokenInv, PinnedInv, DriverInv, Token, Handlers
<1>1. ASSUME NEW t \in Threads, CallSend(t) PROVE PinnedInv'
  BY <1>1 DEF CallSend, CallOf, Goto, queueVars, connVars, histVars
<1>2. ASSUME NEW t \in Threads, CallClose(t) PROVE PinnedInv'
  BY <1>2 DEF CallClose, CallOf, Goto, queueVars, connVars, histVars
<1>3. ASSUME NEW t \in Threads, SendLock(t) PROVE PinnedInv'
  BY <1>3 DEF SendLock, Goto, Acquire, connVars, histVars
<1>4. ASSUME NEW t \in Threads, SendPush(t) PROVE PinnedInv'
  BY <1>4 DEF SendPush, Goto, connVars
<1>5. ASSUME NEW t \in Threads, SendStart(t) PROVE PinnedInv'
  BY ZenonT(40), <1>5 DEF SendStart, Goto, Release, SendFromQueue, histVars
<1>6. ASSUME NEW t \in Threads, TestClosed(t) PROVE PinnedInv'
  <2>1. Still
    BY <1>6 DEF Still, Handlers, TestClosed, Goto, queueVars, connVars, histVars
  <2> QED
    BY <2>1, StillToken
<1>7. ASSUME NEW t \in Threads, SetClosed(t) PROVE PinnedInv'
  BY <1>7 DEF SetClosed, Goto, queueVars, histVars
<1>8. ASSUME NEW w \in Workers, PickCompletion(w) PROVE PinnedInv'
  BY <1>8 DEF PickCompletion, Goto, histVars
<1>9. ASSUME NEW w \in Workers, CompleteLock(w) PROVE PinnedInv'
  BY <1>9 DEF CompleteLock, Goto, Acquire, connVars, histVars
<1>10. ASSUME NEW w \in Workers, CompletePop(w) PROVE PinnedInv'
  BY <1>10 DEF CompletePop, Goto, connVars
<1>11. ASSUME NEW w \in Workers, CompleteNext(w) PROVE PinnedInv'
  BY <1>11 DEF CompleteNext, Goto, Release, SendFromQueue, histVars
<1>12. ASSUME NEW w \in Workers, CompleteError(w) PROVE PinnedInv'
  BY <1>12 DEF CompleteError, Goto, Release, connVars
<1>13. ASSUME NEW w \in Workers, RunCallback(w) PROVE PinnedInv'
  BY <1>13 DEF RunCallback, queueVars, connVars
<1>14. ASSUME NEW w \in Workers, EndHandler(w) PROVE PinnedInv'
  <2>1. Still
    BY <1>14 DEF Still, Handlers, EndHandler, Goto, queueVars, connVars, histVars
  <2> QED
    BY <2>1, StillToken
<1>15. ASSUME NEW w \in Workers, Reread(w) PROVE PinnedInv'
  BY <1>15 DEF Reread, Goto, queueVars, histVars
<1>16. ASSUME NEW w \in Workers, ReadMessage(w) PROVE PinnedInv'
  BY <1>16 DEF ReadMessage, Goto, ReadHandler, queueVars, histVars
<1>17. ASSUME NEW w \in Workers, ReadPing(w) PROVE PinnedInv'
  BY <1>17 DEF ReadPing, CallOf, ReadHandler, Goto, queueVars, histVars
<1>18. ASSUME NEW w \in Workers, ReadClose(w) PROVE PinnedInv'
  BY <1>18 DEF ReadClose, CallOf, ReadHandler, Goto, queueVars, histVars
<1>19. ASSUME NEW w \in Workers, ReadError(w) PROVE PinnedInv'
  BY <1>19 DEF ReadError, ReadHandler, threadVars, queueVars, histVars
<1>20. ASSUME NEW w \in Workers, TimerHandler(w) PROVE PinnedInv'
  BY <1>20 DEF TimerHandler, threadVars, queueVars, histVars
<1>21. CASE WriteDone
  <2>1. PICK f \in writing : /\ writing' = writing \ {f}
                            /\ completions' = completions \cup {Outcome(f, TRUE)}
    BY <1>21 DEF WriteDone
  <2>2. f = Head(send_queue) /\ Outcome(f, TRUE).frame = f
    BY <2>1, CompletionFact
  <2>3. Handlers' = Handlers /\ result' = result /\ send_queue' = send_queue
    BY <1>21 DEF WriteDone, threadVars
  <2>4. \A c \in completions' : c.frame = Head(send_queue')
    BY <2>1, <2>2, <2>3
  <2>5. send_queue' # << >> /\ Handlers' = {}
    BY <2>1, <2>3
  <2> QED
    BY <2>1, <2>3, <2>4, <2>5
<1>22. CASE WriteFails
  <2>1. PICK f \in writing : /\ writing' = writing \ {f}
                            /\ completions' = completions \cup {Outcome(f, FALSE)}
    BY <1>22 DEF WriteFails
  <2>2. f = Head(send_queue) /\ Outcome(f, FALSE).frame = f
    BY <2>1, CompletionFact
  <2>3. Handlers' = Handlers /\ result' = result /\ send_queue' = send_queue
    BY <1>22 DEF WriteFails, threadVars
  <2>4. \A c \in completions' : c.frame = Head(send_queue')
    BY <2>1, <2>2, <2>3
  <2>5. send_queue' # << >> /\ Handlers' = {}
    BY <2>1, <2>3
  <2> QED
    BY <2>1, <2>3, <2>4, <2>5
<1>23. CASE PeerReset
  BY <1>23 DEF PeerReset, threadVars, queueVars, histVars
<1>24. CASE TimerFires
  BY <1>24 DEF TimerFires, threadVars, queueVars, histVars
<1>25. CASE UNCHANGED vars
  BY <1>25 DEF vars, threadVars, queueVars, connVars, histVars
<1> QED
  BY <1>1, <1>2, <1>3, <1>4, <1>5, <1>6, <1>7, <1>8, <1>9, <1>10, <1>11, <1>12, <1>13, <1>14, <1>15, <1>16, <1>17, <1>18, <1>19, <1>20, <1>21, <1>22, <1>23, <1>24, <1>25 DEF Next, Sending, Handling, Network

LEMMA DriverStep == TypeOK /\ MutexInv /\ WorkerInv /\ TokenInv /\ PinnedInv /\ DriverInv /\ [Next]_vars => DriverInv'
<1> SUFFICES ASSUME TypeOK, MutexInv, WorkerInv, TokenInv, PinnedInv, DriverInv, [Next]_vars PROVE DriverInv'
  OBVIOUS
<1> USE Sets, PcsFact DEF TypeOK, ThreadTypes, QueueTypes, MutexInv, WorkerInv, Locked, TokenInv, PinnedInv, DriverInv, Token, Handlers
<1>1. ASSUME NEW t \in Threads, CallSend(t) PROVE DriverInv'
  BY <1>1 DEF CallSend, CallOf, Goto, queueVars, connVars, histVars
<1>2. ASSUME NEW t \in Threads, CallClose(t) PROVE DriverInv'
  BY <1>2 DEF CallClose, CallOf, Goto, queueVars, connVars, histVars
<1>3. ASSUME NEW t \in Threads, SendLock(t) PROVE DriverInv'
  BY <1>3 DEF SendLock, Goto, Acquire, connVars, histVars
<1>4. ASSUME NEW t \in Threads, SendPush(t) PROVE DriverInv'
  BY <1>4 DEF SendPush, Goto, connVars
<1>5. ASSUME NEW t \in Threads, SendStart(t) PROVE DriverInv'
  <2>1. \A u \in Threads : pc'[u] \notin {"start", "next"}
    BY <1>5 DEF SendStart, Goto
  <2>2. send_queue' = send_queue /\ completions' = completions
    BY <1>5 DEF SendStart
  <2>3. Handlers' = Handlers
    BY <1>5 DEF SendStart, Goto
  <2>4. send_queue # << >> /\ Len(send_queue) \in Nat \ {0} /\ (Token <=> Len(send_queue) > 1)
    BY <1>5 DEF SendStart
  <2>5. Token'
    <3>1. CASE Len(send_queue) = 1
      BY <1>5, <3>1 DEF SendStart, SendFromQueue
    <3>2. CASE Len(send_queue) # 1
      <4>1. writing' = writing
        BY <1>5, <3>2 DEF SendStart
      <4>2. Token
        <5> HIDE DEF Token
        <5>1. \A n \in Nat \ {0} : n # 1 => n > 1
          OBVIOUS
        <5>2. Len(send_queue) > 1
          BY <2>4, <3>2, <5>1
        <5> QED
          BY <2>4, <5>2
      <4> QED
        BY <4>1, <4>2, <2>2, <2>3
    <3> QED
      BY <3>1, <3>2
  <2> HIDE DEF Token
  <2> QED
    BY <2>1, <2>5
<1>6. ASSUME NEW t \in Threads, TestClosed(t) PROVE DriverInv'
  <2>1. Still
    BY <1>6 DEF Still, Handlers, TestClosed, Goto, queueVars, connVars, histVars
  <2>2. \A u \in Threads : pc'[u] \in {"start", "next"} <=> pc[u] \in {"start", "next"}
    BY SMTT(30), <1>6 DEF TestClosed, Goto, queueVars, connVars, histVars
  <2>3. \A u \in Threads : pc[u] \in {"start", "next"} => pc'[u] = pc[u]
    BY <1>6 DEF TestClosed, Goto, queueVars, connVars, histVars
  <2>4. Token' <=> Token
    BY <2>1, StillToken
  <2> HIDE DEF Token
  <2> QED
    BY <2>1, <2>2, <2>3, <2>4 DEF Still
<1>7. ASSUME NEW t \in Threads, SetClosed(t) PROVE DriverInv'
  BY <1>7 DEF SetClosed, Goto, queueVars, histVars
<1>8. ASSUME NEW w \in Workers, PickCompletion(w) PROVE DriverInv'
  BY <1>8 DEF PickCompletion, Goto, histVars
<1>9. ASSUME NEW w \in Workers, CompleteLock(w) PROVE DriverInv'
  BY <1>9 DEF CompleteLock, Goto, Acquire, connVars, histVars
<1>10. ASSUME NEW w \in Workers, CompletePop(w) PROVE DriverInv'
  BY <1>10 DEF CompletePop, Goto, connVars
<1>11. ASSUME NEW w \in Workers, CompleteNext(w) PROVE DriverInv'
  <2>1. \A u \in Threads : pc'[u] \notin {"start", "next"}
    BY <1>11 DEF CompleteNext, Goto
  <2>2. ASSUME send_queue' # << >> PROVE Token'
    <3>1. send_queue' = send_queue
      BY <1>11 DEF CompleteNext
    <3>2. Len(send_queue) > 0
      BY <2>2, <3>1, EmptySeq
    <3>3. writing' # {}
      BY <1>11, <3>2 DEF CompleteNext, SendFromQueue
    <3> QED
      BY <3>3
  <2> HIDE DEF Token
  <2> QED
    BY <2>1, <2>2
<1>12. ASSUME NEW w \in Workers, CompleteError(w) PROVE DriverInv'
  BY <1>12 DEF CompleteError, Goto, Release, connVars
<1>13. ASSUME NEW w \in Workers, RunCallback(w) PROVE DriverInv'
  BY <1>13 DEF RunCallback, queueVars, connVars
<1>14. ASSUME NEW w \in Workers, EndHandler(w) PROVE DriverInv'
  BY SMTT(30), <1>14 DEF EndHandler, Goto, queueVars, connVars, histVars
<1>15. ASSUME NEW w \in Workers, Reread(w) PROVE DriverInv'
  BY SMTT(30), <1>15 DEF Reread, Goto, queueVars, histVars
<1>16. ASSUME NEW w \in Workers, ReadMessage(w) PROVE DriverInv'
  BY SMTT(30), <1>16 DEF ReadMessage, Goto, ReadHandler, queueVars, histVars
<1>17. ASSUME NEW w \in Workers, ReadPing(w) PROVE DriverInv'
  BY SMTT(30), <1>17 DEF ReadPing, CallOf, ReadHandler, Goto, queueVars, histVars
<1>18. ASSUME NEW w \in Workers, ReadClose(w) PROVE DriverInv'
  <2>1. Still
    BY <1>18 DEF Still, Handlers, ReadClose, CallOf, ReadHandler, Goto, queueVars, histVars
  <2>2. \A u \in Threads : pc'[u] \in {"start", "next"} <=> pc[u] \in {"start", "next"}
    BY <1>18 DEF ReadClose, CallOf, ReadHandler, Goto, queueVars, histVars
  <2>3. \A u \in Threads : pc[u] \in {"start", "next"} => pc'[u] = pc[u]
    BY <1>18 DEF ReadClose, CallOf, ReadHandler, Goto, queueVars, histVars
  <2>4. Token' <=> Token
    BY <2>1, StillToken
  <2> HIDE DEF Token
  <2> QED
    BY <2>1, <2>2, <2>3, <2>4 DEF Still
<1>19. ASSUME NEW w \in Workers, ReadError(w) PROVE DriverInv'
  BY <1>19 DEF ReadError, ReadHandler, threadVars, queueVars, histVars
<1>20. ASSUME NEW w \in Workers, TimerHandler(w) PROVE DriverInv'
  BY <1>20 DEF TimerHandler, threadVars, queueVars, histVars
<1>21. CASE WriteDone
  BY <1>21 DEF WriteDone, threadVars, connVars
<1>22. CASE WriteFails
  BY <1>22 DEF WriteFails, threadVars, connVars, histVars
<1>23. CASE PeerReset
  BY <1>23 DEF PeerReset, threadVars, queueVars, histVars
<1>24. CASE TimerFires
  BY <1>24 DEF TimerFires, threadVars, queueVars, histVars
<1>25. CASE UNCHANGED vars
  BY <1>25 DEF vars, threadVars, queueVars, connVars, histVars
<1> QED
  BY <1>1, <1>2, <1>3, <1>4, <1>5, <1>6, <1>7, <1>8, <1>9, <1>10, <1>11, <1>12, <1>13, <1>14, <1>15, <1>16, <1>17, <1>18, <1>19, <1>20, <1>21, <1>22, <1>23, <1>24, <1>25 DEF Next, Sending, Handling, Network

--------------------------------------------------------------------------------
(* The wire. *)

\* A step that completes no write, starts or ends no handler before its pop
\* and only appends to what was accepted.
Quiet == /\ UNCHANGED <<completions, wire, left>>
         /\ broken => broken'
         /\ \A w \in Workers : w \in Handlers' <=> w \in Handlers
         /\ \A w \in Handlers : result'[w] = result[w]
         /\ accepted' = accepted \/ \E f \in Frames : accepted' = Append(accepted, f)

LEMMA QuietWire == TypeOK /\ TypeOK' /\ WireInv /\ Quiet => WireInv'
<1> SUFFICES ASSUME TypeOK, TypeOK', WireInv, Quiet PROVE WireInv'
  OBVIOUS
<1>1. Handlers \subseteq Workers /\ Handlers' \subseteq Workers /\ Handlers' = Handlers
  BY DEF Quiet, Handlers
<1>2. OkToken' <=> OkToken
  BY <1>1 DEF Quiet, OkToken
<1>3. wire \in Seq(Frames) /\ accepted \in Seq(Frames) /\ broken \in BOOLEAN /\ broken' \in BOOLEAN
  BY DEF TypeOK, HistTypes, ConnTypes
<1>4. /\ Len(accepted') >= Len(accepted)
      /\ \A i \in 1 .. Len(accepted) : accepted'[i] = accepted[i]
  BY <1>3, AppendProperties DEF Quiet
<1>5. Len(wire') <= Len(accepted') /\ \A i \in 1 .. Len(wire') : wire'[i] = accepted'[i]
  <2> Len(wire) \in Nat /\ Len(accepted) \in Nat /\ Len(accepted') \in Nat
    BY <1>3 DEF TypeOK, HistTypes
  <2> QED
    BY <1>4 DEF WireInv, Quiet
<1>6. ~broken' => Len(wire') = IF OkToken' THEN left' + 1 ELSE left'
  BY <1>2, <1>3 DEF WireInv, Quiet
<1>7. /\ ~broken' => \A c \in completions' : c.ok
      /\ ~broken' => \A w \in Handlers' : result'[w].ok
  BY <1>1, <1>3 DEF WireInv, Quiet
<1> QED
  BY <1>5, <1>6, <1>7 DEF WireInv

LEMMA WireStep ==
  /\ TypeOK /\ WorkerInv /\ QueueInv /\ TokenInv /\ PinnedInv /\ WireInv
  /\ [Next]_vars /\ TypeOK'
  => WireInv'
<1> SUFFICES ASSUME TypeOK, WorkerInv, QueueInv, TokenInv, PinnedInv, WireInv, [Next]_vars, TypeOK'
             PROVE  WireInv'
  OBVIOUS
<1> USE Sets
<1>1. ASSUME NEW t \in Threads, CallSend(t) PROVE WireInv'
  <2>1. Quiet
    BY <1>1, PcsFact DEF Quiet, Handlers, TypeOK, ThreadTypes, CallSend, CallOf, Goto, queueVars, connVars, histVars
  <2> QED
    BY <2>1, QuietWire
<1>2. ASSUME NEW t \in Threads, CallClose(t) PROVE WireInv'
  <2>1. Quiet
    BY <1>2, PcsFact DEF Quiet, Handlers, TypeOK, ThreadTypes, CallClose, CallOf, Goto, queueVars, connVars, histVars
  <2> QED
    BY <2>1, QuietWire
<1>3. ASSUME NEW t \in Threads, SendLock(t) PROVE WireInv'
  <2>1. Quiet
    BY <1>3, PcsFact DEF Quiet, Handlers, TypeOK, ThreadTypes, SendLock, Goto, Acquire, connVars, histVars
  <2> QED
    BY <2>1, QuietWire
<1>4. ASSUME NEW t \in Threads, SendPush(t) PROVE WireInv'
  <2>1. Quiet
    BY <1>4, PcsFact DEF Quiet, Handlers, TypeOK, ThreadTypes, SendPush, Goto, connVars
  <2> QED
    BY <2>1, QuietWire
<1>5. ASSUME NEW t \in Threads, SendStart(t) PROVE WireInv'
  <2>1. Quiet
    BY <1>5, PcsFact DEF Quiet, Handlers, TypeOK, ThreadTypes, SendStart, Goto, Release, SendFromQueue, histVars
  <2> QED
    BY <2>1, QuietWire
<1>6. ASSUME NEW t \in Threads, TestClosed(t) PROVE WireInv'
  <2>1. Quiet
    BY <1>6, PcsFact DEF Quiet, Handlers, TypeOK, ThreadTypes, TestClosed, Goto, queueVars, connVars, histVars
  <2> QED
    BY <2>1, QuietWire
<1>7. ASSUME NEW t \in Threads, SetClosed(t) PROVE WireInv'
  <2>1. Quiet
    BY <1>7, PcsFact DEF Quiet, Handlers, TypeOK, ThreadTypes, SetClosed, Goto, queueVars, histVars
  <2> QED
    BY <2>1, QuietWire
<1>8. ASSUME NEW w \in Workers, PickCompletion(w) PROVE WireInv'
  BY <1>8 DEF PickCompletion, Goto, histVars, TypeOK, ThreadTypes, QueueTypes, HistTypes, ConnTypes, QueueInv, TokenInv, PinnedInv, WireInv, OkToken, Token, Handlers
<1>9. ASSUME NEW w \in Workers, CompleteLock(w) PROVE WireInv'
  <2>1. Quiet
    BY <1>9, PcsFact DEF Quiet, Handlers, TypeOK, ThreadTypes, CompleteLock, Goto, Acquire, connVars, histVars
  <2> QED
    BY <2>1, QuietWire
<1>10. ASSUME NEW w \in Workers, CompletePop(w) PROVE WireInv'
  BY <1>10 DEF CompletePop, Goto, connVars, TypeOK, ThreadTypes, QueueTypes, HistTypes, ConnTypes, QueueInv, TokenInv, PinnedInv, WireInv, OkToken, Token, Handlers
<1>11. ASSUME NEW w \in Workers, CompleteNext(w) PROVE WireInv'
  <2>1. Quiet
    BY <1>11, PcsFact DEF Quiet, Handlers, TypeOK, ThreadTypes, CompleteNext, Goto, Release, SendFromQueue, histVars
  <2> QED
    BY <2>1, QuietWire
<1>12. ASSUME NEW w \in Workers, CompleteError(w) PROVE WireInv'
  BY <1>12 DEF CompleteError, Goto, Release, connVars, TypeOK, ThreadTypes, QueueTypes, HistTypes, ConnTypes, QueueInv, TokenInv, PinnedInv, WireInv, OkToken, Token, Handlers
<1>13. ASSUME NEW w \in Workers, RunCallback(w) PROVE WireInv'
  <2>1. Quiet
    BY <1>13, PcsFact DEF Quiet, Handlers, TypeOK, ThreadTypes, RunCallback, queueVars, connVars
  <2> QED
    BY <2>1, QuietWire
<1>14. ASSUME NEW w \in Workers, EndHandler(w) PROVE WireInv'
  <2>1. Quiet
    BY <1>14, PcsFact DEF Quiet, Handlers, TypeOK, ThreadTypes, EndHandler, Goto, queueVars, connVars, histVars
  <2> QED
    BY <2>1, QuietWire
<1>15. ASSUME NEW w \in Workers, Reread(w) PROVE WireInv'
  <2>1. Quiet
    BY <1>15, PcsFact DEF Quiet, Handlers, TypeOK, ThreadTypes, Reread, Goto, queueVars, histVars
  <2> QED
    BY <2>1, QuietWire
<1>16. ASSUME NEW w \in Workers, ReadMessage(w) PROVE WireInv'
  <2>1. Quiet
    BY <1>16, PcsFact DEF Quiet, Handlers, TypeOK, ThreadTypes, ReadMessage, Goto, ReadHandler, queueVars, histVars
  <2> QED
    BY <2>1, QuietWire
<1>17. ASSUME NEW w \in Workers, ReadPing(w) PROVE WireInv'
  <2>1. Quiet
    BY <1>17, PcsFact DEF Quiet, Handlers, TypeOK, ThreadTypes, ReadPing, CallOf, ReadHandler, Goto, queueVars, histVars
  <2> QED
    BY <2>1, QuietWire
<1>18. ASSUME NEW w \in Workers, ReadClose(w) PROVE WireInv'
  <2>1. Quiet
    BY <1>18, PcsFact DEF Quiet, Handlers, TypeOK, ThreadTypes, ReadClose, CallOf, ReadHandler, Goto, queueVars, histVars
  <2> QED
    BY <2>1, QuietWire
<1>19. ASSUME NEW w \in Workers, ReadError(w) PROVE WireInv'
  <2>1. Quiet
    BY <1>19, PcsFact DEF Quiet, Handlers, TypeOK, ThreadTypes, ReadError, ReadHandler, threadVars, queueVars, histVars
  <2> QED
    BY <2>1, QuietWire
<1>20. ASSUME NEW w \in Workers, TimerHandler(w) PROVE WireInv'
  <2>1. Quiet
    BY <1>20, PcsFact DEF Quiet, Handlers, TypeOK, ThreadTypes, TimerHandler, threadVars, queueVars, histVars
  <2> QED
    BY <2>1, QuietWire
<1>21. CASE WriteDone
  <2>1. PICK f \in writing : /\ completions' = completions \cup {Outcome(f, TRUE)}
                            /\ wire' = Append(wire, f)
    BY <1>21 DEF WriteDone
  <2>2. /\ ~broken /\ broken' = broken /\ left' = left /\ accepted' = accepted
        /\ Handlers' = {} /\ completions = {} /\ Handlers = {}
    BY <1>21 DEF WriteDone, threadVars, connVars, TokenInv, Handlers
  <2>3. ~OkToken /\ Len(wire) = left
    BY <2>2 DEF WireInv, OkToken
  <2>4. /\ f \in Frames /\ wire \in Seq(Frames) /\ accepted \in Seq(Frames)
        /\ send_queue \in Seq(Frames) /\ left \in Nat
    BY DEF TypeOK, QueueTypes, HistTypes
  <2>5. send_queue # << >> /\ f = send_queue[1] /\ Len(send_queue) >= 1
    BY <2>4 DEF PinnedInv, Token
  <2>6. f = accepted[left + 1] /\ Len(accepted) >= left + 1
    BY <2>4, <2>5 DEF QueueInv
  <2>7. /\ Len(wire') = left + 1 /\ wire'[left + 1] = f
        /\ \A i \in 1 .. left : wire'[i] = wire[i]
    BY <2>1, <2>3, <2>4, AppendProperties
  <2>8. \A i \in 1 .. Len(wire') : wire'[i] = accepted'[i]
    BY <2>2, <2>3, <2>4, <2>6, <2>7 DEF WireInv
  <2>9. \A c \in completions' : c.ok
    BY <2>1, <2>2, <2>4, CompletionFact
  <2>10. OkToken'
    BY <2>1, <2>4, CompletionFact DEF OkToken
  <2> QED
    BY <2>2, <2>6, <2>7, <2>8, <2>9, <2>10 DEF WireInv
<1>22. CASE WriteFails
  BY <1>22 DEF WriteFails, threadVars, connVars, histVars, TypeOK, ThreadTypes, QueueTypes, HistTypes, ConnTypes, QueueInv, TokenInv, PinnedInv, WireInv, OkToken, Token, Handlers
<1>23. CASE PeerReset
  <2>1. Quiet
    BY <1>23, PcsFact DEF Quiet, Handlers, TypeOK, ThreadTypes, PeerReset, threadVars, queueVars, histVars
  <2> QED
    BY <2>1, QuietWire
<1>24. CASE TimerFires
  <2>1. Quiet
    BY <1>24, PcsFact DEF Quiet, Handlers, TypeOK, ThreadTypes, TimerFires, threadVars, queueVars, histVars
  <2> QED
    BY <2>1, QuietWire
<1>25. CASE UNCHANGED vars
  <2>1. Quiet
    BY <1>25 DEF Quiet, Handlers, vars, threadVars, queueVars, connVars, histVars
  <2> QED
    BY <2>1, QuietWire
<1> QED
  BY <1>1, <1>2, <1>3, <1>4, <1>5, <1>6, <1>7, <1>8, <1>9, <1>10, <1>11, <1>12, <1>13, <1>14, <1>15, <1>16, <1>17, <1>18, <1>19, <1>20, <1>21, <1>22, <1>23, <1>24, <1>25 DEF Next, Sending, Handling, Network
--------------------------------------------------------------------------------
(* The inductive invariant and what follows from it. *)

LEMMA InvInit == Init => IInv
<1> SUFFICES ASSUME Init PROVE IInv
  OBVIOUS
<1>1. TypeOK
  BY TypeInit
<1>2. \A t \in Threads : pc[t] = "idle" /\ ret[t] = "idle"
  BY DEF Init
<1>3. Handlers = {} /\ ~Token
  BY <1>2, Sets DEF Init, Handlers, Token
<1>4. MutexInv /\ WorkerInv
  BY <1>2, Sets, PcsFact DEF Init, MutexInv, WorkerInv, Locked
<1>5. QueueInv /\ TokenInv /\ PinnedInv /\ DriverInv
  BY <1>2, <1>3 DEF Init, QueueInv, TokenInv, PinnedInv, DriverInv
<1>6. WireInv
  BY <1>3 DEF Init, WireInv, OkToken, Token
<1> QED
  BY <1>1, <1>4, <1>5, <1>6 DEF IInv

LEMMA InvStep == IInv /\ [Next]_vars => IInv'
  BY TypeStep, MutexStep, WorkerStep, QueueStep, TokenStep, PinnedStep, DriverStep, WireStep DEF IInv

THEOREM Invariance == SafeSpec => []IInv
  BY InvInit, InvStep, PTL DEF SafeSpec

\* Every variable keeps its type, in every instance.
THEOREM TypeCorrect == SafeSpec => []TypeOK
<1>1. IInv => TypeOK
  BY DEF IInv
<1> QED
  BY <1>1, Invariance, PTL

\* Whatever the number of threads, send_queue_mutex and the size test keep one
\* write under way, on the buffers of the first element.
THEOREM WritePinned == SafeSpec => []OneWritePinned
<1>1. IInv => OneWritePinned
  <2> SUFFICES ASSUME IInv PROVE OneWritePinned
    OBVIOUS
  <2> USE DEF IInv, TokenInv
  <2>1. ASSUME NEW S, \A x, y \in S : x = y
        PROVE  IsFiniteSet(S) /\ Cardinality(S) = IF S = {} THEN 0 ELSE 1
    <3>1. CASE S = {}
      BY <3>1, FS_EmptySet
    <3>2. CASE S # {}
      <4>1. PICK x : S = {x}
        BY <2>1, <3>2
      <4> QED
        BY <4>1, <3>2, FS_Singleton
    <3> QED
      BY <3>1, <3>2
  <2>2. /\ Cardinality(writing) = IF writing = {} THEN 0 ELSE 1
        /\ Cardinality(completions) = IF completions = {} THEN 0 ELSE 1
        /\ Cardinality(Handlers) = IF Handlers = {} THEN 0 ELSE 1
    BY <2>1
  <2>3. Cardinality(writing) + Cardinality(completions) + Cardinality(Handlers) <= 1
    BY <2>2
  <2>4. \A f \in writing \cup {c.frame : c \in completions} \cup {result[w].frame : w \in Handlers} :
           send_queue # << >> /\ Head(send_queue) = f
    BY DEF PinnedInv, Token
  <2> QED
    BY <2>3, <2>4 DEF OneWritePinned, IInv
<1> QED
  BY <1>1, Invariance, PTL

\* Whatever the number of threads, no accepted frame is left without a write
\* under way that will lead to its own.
THEOREM NothingStranded == SafeSpec => []NoStrandedFrame
<1>1. IInv => NoStrandedFrame
  <2> SUFFICES ASSUME IInv, mutex = None, send_queue # << >> PROVE Token
    BY DEF NoStrandedFrame, Token
  <2>1. \A t \in Threads : pc[t] \notin {"start", "next"}
    BY Sets DEF IInv, MutexInv, Locked
  <2> QED
    BY <2>1 DEF IInv, DriverInv
<1> QED
  BY <1>1, Invariance, PTL

\* Frames reach the wire in the order in which send() accepted them.
THEOREM WireFifo == SafeSpec => []FifoOnWire
<1>1. IInv => FifoOnWire
  <2> SUFFICES ASSUME IInv PROVE IsPrefix(wire, accepted)
    BY DEF FifoOnWire
  <2>1. wire \in Seq(Frames) /\ accepted \in Seq(Frames) /\ Len(wire) <= Len(accepted)
    BY DEF IInv, TypeOK, HistTypes, WireInv
  <2>2. \A i \in 1 .. Len(wire) : wire[i] = accepted[i]
    BY DEF IInv, WireInv
  <2>3. SubSeq(wire, 1, Len(wire)) = SubSeq(accepted, 1, Len(wire))
    BY <2>1, <2>2
  <2> QED
    BY <2>1, <2>3 DEF IsPrefix
<1> QED
  BY <1>1, Invariance, PTL
--------------------------------------------------------------------------------
(***************************************************************************)
(* SendQueue implements OutStream, for every number of threads and frames  *)
(* and every idle timeout: whatever the interleaving, accepted frames      *)
(* leave in order, a failure loses the whole rest, and a callback is       *)
(* called once, of its own frame, and told the truth.                      *)
(***************************************************************************)

\* A thread that has a frame and has not put it into the queue.
Ahead == {"send", "push", "close", "set_closed"}

\* Each send() is a new message: it was not accepted before, and no two threads
\* are about to send the same one.
NewInv == /\ \A i, j \in 1 .. Len(accepted) : accepted[i] = accepted[j] => i = j
          /\ \A t \in Threads : pc[t] \in Ahead =>
               /\ \A i \in 1 .. Len(accepted) : accepted[i] # frame[t]
               /\ \A u \in Threads : u # t /\ pc[u] \in Ahead => frame[u] # frame[t]

\* Also on a broken socket the wire is ahead of what left the queue by the frame
\* whose successful write has not been popped, and by no other.
AheadInv == IF OkToken THEN Len(wire) = left + 1 ELSE Len(wire) <= left

\* What a worker is going to tell a callback is true, and of a frame that has left.
TruthInv == \A w \in Workers : \A k \in 1 .. Len(callbacks[w]) :
              \E i \in 1 .. left : /\ accepted[i] = callbacks[w][k].frame
                                   /\ callbacks[w][k].ok <=> i <= Len(wire)

\* No callback is waiting twice, nor is one that was called; those were of frames
\* that had left.
OnceInv ==
  /\ \A v, w \in Workers : \A k \in 1 .. Len(callbacks[v]), l \in 1 .. Len(callbacks[w]) :
       callbacks[v][k].frame = callbacks[w][l].frame => v = w /\ k = l
  /\ \A w \in Workers : \A k \in 1 .. Len(callbacks[w]), n \in 1 .. Len(called) :
       called[n].frame # callbacks[w][k].frame
  /\ \A n \in 1 .. Len(called) : \E i \in 1 .. left : accepted[i] = called[n].frame

StreamInv == NewInv /\ AheadInv /\ TruthInv /\ OnceInv

--------------------------------------------------------------------------------
(* The steps that change what the abstract stream can see. *)

Unseen == UNCHANGED <<accepted, left, wire, called, callbacks>>

LEMMA Kinds ==
  ASSUME [Next]_vars
  PROVE  \/ Unseen \/ WriteDone \/ \E t \in Threads : SendPush(t)
         \/ \E w \in Workers : CompletePop(w) \/ CompleteError(w) \/ RunCallback(w)
<1> USE DEF Unseen, threadVars, queueVars, connVars, histVars
<1>1. ASSUME NEW t \in Threads, CallSend(t) \/ CallClose(t) PROVE Unseen
  BY <1>1 DEF CallSend, CallClose, CallOf
<1>2. ASSUME NEW t \in Threads, SendLock(t) \/ SendStart(t) \/ TestClosed(t) \/ SetClosed(t) PROVE Unseen
  BY <1>2 DEF SendLock, SendStart, TestClosed, SetClosed
<1>3. ASSUME NEW w \in Workers, PickCompletion(w) \/ TimerHandler(w) PROVE Unseen
  BY <1>3 DEF PickCompletion, TimerHandler
<1>4. ASSUME NEW w \in Workers,
             CompleteLock(w) \/ CompleteNext(w) \/ EndHandler(w) \/ Reread(w)
      PROVE  Unseen
  BY <1>4 DEF CompleteLock, CompleteNext, EndHandler, Reread
<1>5. ASSUME NEW w \in Workers, ReadMessage(w) \/ ReadPing(w) \/ ReadClose(w) \/ ReadError(w)
      PROVE  Unseen
  BY <1>5 DEF ReadMessage, ReadPing, ReadClose, ReadError, CallOf
<1>6. CASE WriteFails \/ PeerReset \/ TimerFires \/ UNCHANGED vars
  BY <1>6 DEF WriteFails, PeerReset, TimerFires, vars
<1> QED
  BY <1>1, <1>2, <1>3, <1>4, <1>5, <1>6 DEF Next, Sending, Handling, Network

\* What the wire, the threads' callbacks and the histories have to do with the queue.
LEMMA Facts ==
  ASSUME IInv
  PROVE  /\ accepted \in Seq(Frames) /\ wire \in Seq(Frames) /\ send_queue \in Seq(Frames)
         /\ called \in Seq(Completion) /\ \A w \in Workers : callbacks[w] \in Seq(Completion)
         /\ left \in Nat /\ Len(wire) \in Nat /\ Len(send_queue) \in Nat
         /\ Len(accepted) = left + Len(send_queue)
         /\ \A i \in 1 .. Len(send_queue) : send_queue[i] = accepted[left + i]
         /\ Len(wire) <= Len(accepted) /\ \A i \in 1 .. Len(wire) : wire[i] = accepted[i]
  BY DEF IInv, TypeOK, ThreadTypes, QueueTypes, HistTypes, QueueInv, WireInv

--------------------------------------------------------------------------------
(* New frames. *)

\* A thread takes up a fresh frame.
LEMMA NewOfCall ==
  ASSUME TypeOK, NewInv, UNCHANGED accepted,
         NEW t \in Threads, NEW f \in Fresh, NEW l, NEW r, CallOf(t, f, l, r)
  PROVE  NewInv'
<1>1. \A i \in 1 .. Len(accepted) : accepted[i] # f
  BY DEF Fresh, ToSet
<1>2. \A u \in Threads : pc[u] \in Ahead => frame[u] # f
  BY DEF Fresh, Ahead, SendPcs, ClosePcs
<1>3. \A u \in Threads : frame'[u] = IF u = t THEN f ELSE frame[u]
  BY DEF CallOf, TypeOK, ThreadTypes
<1>4. \A u \in Threads : u # t => pc'[u] = pc[u]
  BY DEF CallOf, Goto, TypeOK, ThreadTypes
<1> QED
  BY <1>1, <1>2, <1>3, <1>4 DEF NewInv

\* A step after which no other thread is ahead, and those with the frames they had.
LEMMA NewKept ==
  ASSUME NewInv, UNCHANGED accepted,
         \A t \in Threads : pc'[t] \in Ahead => pc[t] \in Ahead /\ frame'[t] = frame[t]
  PROVE  NewInv'
  BY DEF NewInv

LEMMA NewStep == IInv /\ NewInv /\ [Next]_vars => NewInv'
<1> SUFFICES ASSUME IInv, NewInv, [Next]_vars PROVE NewInv'
  OBVIOUS
<1> DEFINE Kept == /\ UNCHANGED accepted
                   /\ \A t \in Threads : pc'[t] \in Ahead => pc[t] \in Ahead /\ frame'[t] = frame[t]
<1> TypeOK
  BY DEF IInv
<1> USE Sets DEF threadVars, queueVars, connVars, histVars
<1>1. ASSUME NEW t \in Threads, CallSend(t) \/ CallClose(t) PROVE NewInv'
  BY <1>1, NewOfCall DEF CallSend, CallClose
<1>2. ASSUME NEW w \in Workers, ReadPing(w) \/ ReadClose(w) PROVE NewInv'
  BY <1>2, NewOfCall DEF ReadPing, ReadClose
<1>3. ASSUME NEW t \in Threads, SendLock(t) \/ SendStart(t) \/ TestClosed(t) \/ SetClosed(t) PROVE Kept
  BY <1>3, PcsFact DEF SendLock, SendStart, TestClosed, SetClosed, Goto, TypeOK, ThreadTypes, Ahead, IInv, WorkerInv
<1>4. ASSUME NEW w \in Workers, PickCompletion(w) \/ Handling(w) \/ ReadMessage(w) \/ ReadError(w) \/ TimerHandler(w)
      PROVE  Kept
  BY <1>4 DEF PickCompletion, Handling, CompleteLock, CompletePop, CompleteNext, CompleteError, RunCallback,
              EndHandler, Reread, ReadMessage, ReadError, TimerHandler, Goto, TypeOK, ThreadTypes, Ahead
<1>5. ASSUME Network \/ PeerReset \/ TimerFires \/ UNCHANGED vars PROVE Kept
  BY <1>5 DEF Network, WriteDone, WriteFails, PeerReset, TimerFires, vars
<1>6. ASSUME NEW t \in Threads, SendPush(t) PROVE NewInv'
  <2>1. /\ Len(accepted') = Len(accepted) + 1 /\ accepted'[Len(accepted) + 1] = frame[t]
        /\ \A i \in 1 .. Len(accepted) : accepted'[i] = accepted[i]
        /\ Len(accepted) \in Nat
    BY <1>6, AppendProperties DEF SendPush, TypeOK, ThreadTypes, HistTypes
  <2>2. /\ pc[t] \in Ahead /\ pc'[t] \notin Ahead /\ frame' = frame
        /\ \A u \in Threads : u # t => pc'[u] = pc[u]
    BY <1>6 DEF SendPush, Goto, TypeOK, ThreadTypes, Ahead
  <2>3. \A i \in 1 .. Len(accepted') : i \in 1 .. Len(accepted) \/ i = Len(accepted) + 1
    BY <2>1
  <2>4. \A i, j \in 1 .. Len(accepted') : accepted'[i] = accepted'[j] => i = j
    BY <2>1, <2>2, <2>3 DEF NewInv
  <2> QED
    BY SMTT(30), <2>1, <2>2, <2>3, <2>4 DEF NewInv
<1> QED
  BY <1>1, <1>2, <1>3, <1>4, <1>5, <1>6, NewKept DEF Next, Sending

--------------------------------------------------------------------------------
(* How far the wire is. *)

LEMMA AheadStep == IInv /\ IInv' /\ AheadInv /\ [Next]_vars => AheadInv'
<1> SUFFICES ASSUME IInv, IInv', AheadInv, [Next]_vars PROVE AheadInv'
  OBVIOUS
<1> USE Sets DEF threadVars, queueVars, connVars, histVars
<1> DEFINE Same == UNCHANGED <<wire, left>> /\ (OkToken' <=> OkToken)
<1>1. ASSUME NEW t \in Threads, CallSend(t) \/ CallClose(t) \/ Sending(t) PROVE Same
  BY <1>1, PcsFact DEF CallSend, CallClose, CallOf, Sending, SendLock, SendPush, SendStart, TestClosed, SetClosed,
                       Goto, IInv, TypeOK, ThreadTypes, WorkerInv, OkToken, Handlers
<1>2. ASSUME NEW w \in Workers, CompleteLock(w) \/ CompleteNext(w) \/ RunCallback(w) \/ EndHandler(w) \/ Reread(w)
      PROVE  Same
  BY <1>2 DEF CompleteLock, CompleteNext, RunCallback, EndHandler, Reread, Goto, IInv, TypeOK, ThreadTypes,
              OkToken, Handlers
<1>3. ASSUME NEW w \in Workers,
             ReadMessage(w) \/ ReadPing(w) \/ ReadClose(w) \/ ReadError(w) \/ TimerHandler(w)
      PROVE  Same
  BY <1>3 DEF ReadMessage, ReadPing, ReadClose, ReadError, ReadHandler, TimerHandler, CallOf, Goto,
              IInv, TypeOK, ThreadTypes, OkToken, Handlers
<1>4. ASSUME NEW w \in Workers, PickCompletion(w) PROVE Same
  BY <1>4 DEF PickCompletion, Goto, IInv, TypeOK, ThreadTypes, TokenInv, OkToken, Handlers
<1>5. ASSUME PeerReset \/ TimerFires \/ UNCHANGED vars PROVE Same
  BY <1>5 DEF PeerReset, TimerFires, vars, OkToken, Handlers
<1>6. CASE WriteFails
  <2>1. UNCHANGED <<wire, left>> /\ ~OkToken /\ ~OkToken'
    BY <1>6, CompletionFact DEF WriteFails, IInv, TokenInv, TypeOK, QueueTypes, OkToken, Handlers
  <2> QED
    BY <2>1 DEF AheadInv
<1>7. CASE WriteDone
  <2>1. ~broken' /\ left \in Nat /\ left' = left
    BY <1>7 DEF WriteDone, IInv, TypeOK, HistTypes
  <2> QED
    BY <2>1 DEF IInv, WireInv, AheadInv
<1>8. ASSUME NEW w \in Workers, CompletePop(w) PROVE AheadInv'
  <2>1. OkToken /\ ~OkToken' /\ wire' = wire /\ left' = left + 1
    BY <1>8 DEF CompletePop, Goto, IInv, TypeOK, ThreadTypes, TokenInv, OkToken, Handlers
  <2> QED
    BY <2>1, Facts DEF AheadInv
<1>9. ASSUME NEW w \in Workers, CompleteError(w) PROVE AheadInv'
  <2>1. ~OkToken /\ ~OkToken' /\ wire' = wire /\ left' = left + Len(send_queue)
    BY <1>9 DEF CompleteError, Goto, IInv, TypeOK, ThreadTypes, TokenInv, OkToken, Handlers
  <2> QED
    BY <2>1, Facts DEF AheadInv
<1>10. ASSUME Same PROVE AheadInv'
  BY <1>10 DEF AheadInv
<1> QED
  BY <1>1, <1>2, <1>3, <1>4, <1>5, <1>6, <1>7, <1>8, <1>9, <1>10 DEF Next, Handling, Network

--------------------------------------------------------------------------------
(* What the callbacks are told. *)

\* A push leaves the places of the frames before it.
LEMMA PushKeeps ==
  ASSUME IInv, NEW t \in Threads, SendPush(t)
  PROVE  /\ UNCHANGED <<left, wire, called, callbacks>> /\ frame[t] \in Frames
         /\ accepted' = Append(accepted, frame[t])
         /\ \A i \in 1 .. Len(accepted) : accepted'[i] = accepted[i]
  BY Facts, AppendProperties DEF SendPush, IInv, TypeOK, ThreadTypes

LEMMA OneCallback ==
  ASSUME NEW f \in Frames, NEW ok \in BOOLEAN
  PROVE  Len(CallbacksOf(<<f>>, ok)) = 1 /\ CallbacksOf(<<f>>, ok)[1] = Outcome(f, ok)
<1>1. <<f>> \in Seq(Frames) /\ Len(<<f>>) = 1 /\ <<f>>[1] = f
  OBVIOUS
<1>2. ASSUME NEW q \in Seq(Frames), Len(q) = 1
      PROVE  Len(CallbacksOf(q, ok)) = 1 /\ CallbacksOf(q, ok)[1] = Outcome(q[1], ok)
  BY <1>2 DEF CallbacksOf
<1> QED
  BY <1>1, <1>2

\* The first of the queue is told of its success.
LEMMA PopTells ==
  ASSUME IInv, AheadInv, NEW w \in Workers, CompletePop(w)
  PROVE  /\ UNCHANGED <<accepted, wire, called>> /\ left' = left + 1
         /\ Len(wire) = left + 1 /\ Len(accepted) >= left + 1
         /\ \A v \in Workers : v # w => callbacks'[v] = callbacks[v]
         /\ Len(callbacks'[w]) = 1
         /\ callbacks'[w][1] = Outcome(accepted[left + 1], TRUE)
<1>1. OkToken /\ send_queue # << >>
  BY DEF CompletePop, IInv, PinnedInv, Token, OkToken, Handlers
<1>2. Len(send_queue) >= 1 /\ Head(send_queue) = accepted[left + 1]
  BY <1>1, Facts
<1>3. callbacks \in [Workers -> Seq(Completion)]
  BY DEF IInv, TypeOK, ThreadTypes
<1>4. callbacks'[w] = CallbacksOf(<<accepted[left + 1]>>, TRUE)
  BY <1>2, <1>3 DEF CompletePop
<1>5. accepted[left + 1] \in Frames
  BY <1>1, <1>2, Facts, HeadTailProperties
<1>6. Len(callbacks'[w]) = 1 /\ callbacks'[w][1] = Outcome(accepted[left + 1], TRUE)
  BY <1>4, <1>5, OneCallback
<1>7. \A v \in Workers : v # w => callbacks'[v] = callbacks[v]
  BY <1>3 DEF CompletePop
<1>8. UNCHANGED <<accepted, wire, called>> /\ left' = left + 1 /\ Len(wire) = left + 1
  BY <1>1 DEF CompletePop, AheadInv
<1> QED
  BY <1>2, <1>6, <1>7, <1>8, Facts

\* All of the queue are told of the failure.
LEMMA ErrorTells ==
  ASSUME IInv, AheadInv, NEW w \in Workers, CompleteError(w)
  PROVE  /\ UNCHANGED <<accepted, wire, called>> /\ left' = Len(accepted)
         /\ Len(wire) <= left /\ Len(accepted) >= left + 1
         /\ \A v \in Workers : v # w => callbacks'[v] = callbacks[v]
         /\ Len(callbacks'[w]) = Len(send_queue)
         /\ \A k \in 1 .. Len(callbacks'[w]) : callbacks'[w][k] = Outcome(accepted[left + k], FALSE)
<1>1. ~OkToken /\ send_queue # << >>
  BY DEF CompleteError, IInv, TokenInv, PinnedInv, Token, OkToken, Handlers
<1>2. Len(send_queue) >= 1
  BY <1>1, Facts
<1>3. callbacks \in [Workers -> Seq(Completion)]
  BY DEF IInv, TypeOK, ThreadTypes
<1>4. callbacks'[w] = [i \in 1 .. Len(send_queue) |-> Outcome(send_queue[i], FALSE)]
  BY <1>3 DEF CompleteError, CallbacksOf
<1>5. Len(callbacks'[w]) = Len(send_queue)
  BY <1>4, Facts
<1> QED
  <2>1. \A v \in Workers : v # w => callbacks'[v] = callbacks[v]
    BY <1>3 DEF CompleteError
  <2>2. UNCHANGED <<accepted, wire, called>> /\ left' = left + Len(send_queue) /\ Len(wire) <= left
    BY <1>1 DEF CompleteError, AheadInv
  <2>3. ASSUME NEW k \in 1 .. Len(callbacks'[w]) PROVE callbacks'[w][k] = Outcome(accepted[left + k], FALSE)
    <3>1. k \in 1 .. Len(send_queue) /\ send_queue[k] = accepted[left + k]
      BY <1>5, Facts
    <3> QED
      BY <1>4, <3>1
  <2>4. left' = Len(accepted) /\ Len(accepted) >= left + 1
    BY <1>2, <2>2, Facts
  <2> QED
    BY <1>5, <2>1, <2>2, <2>3, <2>4

\* A callback is taken from the front of those a worker has.
LEMMA RunPops ==
  ASSUME IInv, NEW w \in Workers, RunCallback(w)
  PROVE  /\ UNCHANGED <<accepted, left, wire>>
         /\ Len(callbacks[w]) >= 1
         /\ called' = IF callbacks[w][1].frame \in WithCallback
                      THEN Append(called, callbacks[w][1]) ELSE called
         /\ \A v \in Workers : v # w => callbacks'[v] = callbacks[v]
         /\ \A k \in 1 .. Len(callbacks'[w]) :
              k + 1 \in 1 .. Len(callbacks[w]) /\ callbacks'[w][k] = callbacks[w][k + 1]
<1>1. callbacks \in [Workers -> Seq(Completion)] /\ callbacks[w] # << >>
  BY DEF RunCallback, IInv, TypeOK, ThreadTypes
<1>2. callbacks'[w] = Tail(callbacks[w]) /\ \A v \in Workers : v # w => callbacks'[v] = callbacks[v]
  BY <1>1 DEF RunCallback
<1>3. PICK q \in Seq(Completion) : q = callbacks[w] /\ q # << >>
  BY <1>1
<1>4. /\ Len(q) \in Nat /\ Len(q) >= 1 /\ Head(q) = q[1]
      /\ Len(Tail(q)) = Len(q) - 1 /\ \A k \in 1 .. Len(Tail(q)) : Tail(q)[k] = q[k + 1]
  BY <1>3, HeadTailProperties
<1>5. UNCHANGED <<accepted, left, wire>>
  BY DEF RunCallback
<1>6. called' = IF callbacks[w][1].frame \in WithCallback
                THEN Append(called, callbacks[w][1]) ELSE called
  BY <1>3, <1>4 DEF RunCallback
<1> QED
  BY <1>2, <1>3, <1>4, <1>5, <1>6

LEMMA TruthStep == IInv /\ NewInv /\ AheadInv /\ TruthInv /\ [Next]_vars => TruthInv'
<1> SUFFICES ASSUME IInv, NewInv, AheadInv, TruthInv, [Next]_vars PROVE TruthInv'
  OBVIOUS
<1>1. CASE Unseen
  BY <1>1 DEF Unseen, TruthInv
<1>2. CASE WriteDone
  <2>1. /\ UNCHANGED <<accepted, left, callbacks>> /\ Len(wire') = Len(wire) + 1
        /\ Len(wire) >= left
    BY <1>2, Facts, AppendProperties DEF WriteDone, threadVars, IInv, TypeOK, QueueTypes, WireInv
  <2> QED
    BY <2>1, Facts DEF TruthInv
<1>3. ASSUME NEW t \in Threads, SendPush(t) PROVE TruthInv'
  <2>1. UNCHANGED <<left, wire, callbacks>> /\ \A i \in 1 .. Len(accepted) : accepted'[i] = accepted[i]
    BY <1>3, PushKeeps
  <2>2. \A i \in 1 .. left : i \in 1 .. Len(accepted)
    BY Facts
  <2> QED
    BY <2>1, <2>2 DEF TruthInv
<1>4. ASSUME NEW w \in Workers, CompletePop(w) PROVE TruthInv'
  <2>1. /\ UNCHANGED <<accepted, wire>> /\ left' = left + 1 /\ Len(wire) = left + 1
        /\ \A v \in Workers : v # w => callbacks'[v] = callbacks[v]
        /\ Len(callbacks'[w]) = 1 /\ callbacks'[w][1] = Outcome(accepted[left + 1], TRUE)
    BY <1>4, PopTells
  <2>2. \A i \in 1 .. left : i \in 1 .. left'
    BY <2>1, Facts
  <2>3. \A v \in Workers \ {w} : \A k \in 1 .. Len(callbacks'[v]) :
           \E i \in 1 .. left' : /\ accepted'[i] = callbacks'[v][k].frame
                                 /\ callbacks'[v][k].ok <=> i <= Len(wire')
    BY <2>1, <2>2 DEF TruthInv
  <2>4. callbacks'[w][1].frame = accepted[left + 1] /\ callbacks'[w][1].ok /\ left + 1 \in 1 .. left'
    BY <2>1, Facts DEF Outcome
  <2>5. left + 1 <= Len(wire')
    BY <2>1, Facts
  <2>6. \A k \in 1 .. Len(callbacks'[w]) : k = 1
    BY <2>1
  <2>7. \A k \in 1 .. Len(callbacks'[w]) :
           \E i \in 1 .. left' : /\ accepted'[i] = callbacks'[w][k].frame
                                 /\ callbacks'[w][k].ok <=> i <= Len(wire')
    BY <2>1, <2>4, <2>5, <2>6
  <2> QED
    BY <2>3, <2>7 DEF TruthInv
<1>5. ASSUME NEW w \in Workers, CompleteError(w) PROVE TruthInv'
  <2>1. /\ UNCHANGED <<accepted, wire>> /\ left' = Len(accepted) /\ Len(wire) <= left
        /\ \A v \in Workers : v # w => callbacks'[v] = callbacks[v]
        /\ Len(callbacks'[w]) = Len(send_queue)
        /\ \A k \in 1 .. Len(callbacks'[w]) : callbacks'[w][k] = Outcome(accepted[left + k], FALSE)
    BY <1>5, ErrorTells
  <2>2. \A i \in 1 .. left : i \in 1 .. left'
    BY <2>1, Facts
  <2>3. \A v \in Workers \ {w} : \A k \in 1 .. Len(callbacks'[v]) :
           \E i \in 1 .. left' : /\ accepted'[i] = callbacks'[v][k].frame
                                 /\ callbacks'[v][k].ok <=> i <= Len(wire')
    BY <2>1, <2>2 DEF TruthInv
  <2>4. ASSUME NEW k \in 1 .. Len(callbacks'[w])
        PROVE  \E i \in 1 .. left' : /\ accepted'[i] = callbacks'[w][k].frame
                                     /\ callbacks'[w][k].ok <=> i <= Len(wire')
    <3>1. callbacks'[w][k].frame = accepted[left + k] /\ callbacks'[w][k].ok = FALSE
      <4>1. callbacks'[w][k] = Outcome(accepted[left + k], FALSE)
        BY <2>1
      <4> QED
        BY <4>1 DEF Outcome
    <3>2. k \in 1 .. Len(send_queue) /\ left' = left + Len(send_queue)
      BY <2>1, Facts
    <3>3. left + k \in 1 .. left' /\ ~(left + k <= Len(wire'))
      BY <2>1, <3>2, Facts
    <3>4. callbacks'[w][k].ok <=> left + k <= Len(wire')
      BY <3>1, <3>3, Zenon
    <3> QED
      BY <2>1, <3>1, <3>3, <3>4, Zenon
  <2> QED
    BY <2>3, <2>4 DEF TruthInv
<1>6. ASSUME NEW w \in Workers, RunCallback(w) PROVE TruthInv'
  <2>1. /\ UNCHANGED <<accepted, left, wire>>
        /\ \A v \in Workers : v # w => callbacks'[v] = callbacks[v]
        /\ \A k \in 1 .. Len(callbacks'[w]) :
             k + 1 \in 1 .. Len(callbacks[w]) /\ callbacks'[w][k] = callbacks[w][k + 1]
    BY <1>6, RunPops
  <2>2. \A v \in Workers \ {w} : \A k \in 1 .. Len(callbacks'[v]) :
           \E i \in 1 .. left' : /\ accepted'[i] = callbacks'[v][k].frame
                                 /\ callbacks'[v][k].ok <=> i <= Len(wire')
    BY <2>1 DEF TruthInv
  <2>3. \A k \in 1 .. Len(callbacks'[w]) :
           \E i \in 1 .. left' : /\ accepted'[i] = callbacks'[w][k].frame
                                 /\ callbacks'[w][k].ok <=> i <= Len(wire')
    BY <2>1 DEF TruthInv
  <2> QED
    BY <2>2, <2>3 DEF TruthInv
<1> QED
  BY <1>1, <1>2, <1>3, <1>4, <1>5, <1>6, Kinds

\* The callbacks that a completion collects are those of the frames that leave with it.
LEMMA Collected ==
  ASSUME IInv, AheadInv, NEW w \in Workers, CompletePop(w) \/ CompleteError(w)
  PROVE  /\ UNCHANGED <<accepted, called>> /\ \A v \in Workers : v # w => callbacks'[v] = callbacks[v]
         /\ left' \in Nat /\ left' >= left /\ left' <= Len(accepted)
         /\ \A k \in 1 .. Len(callbacks'[w]) :
              left + k \in left + 1 .. left' /\ callbacks'[w][k].frame = accepted[left + k]
<1>1. \A f : Outcome(f, TRUE).frame = f /\ Outcome(f, FALSE).frame = f
  BY DEF Outcome
<1>2. CASE CompletePop(w)
  <2>1. /\ UNCHANGED <<accepted, called>> /\ left' = left + 1 /\ Len(accepted) >= left + 1
        /\ \A v \in Workers : v # w => callbacks'[v] = callbacks[v]
        /\ Len(callbacks'[w]) = 1 /\ callbacks'[w][1] = Outcome(accepted[left + 1], TRUE)
    BY <1>2, PopTells
  <2>2. ASSUME NEW k \in 1 .. Len(callbacks'[w])
        PROVE  left + k \in left + 1 .. left' /\ callbacks'[w][k].frame = accepted[left + k]
    <3>1. k = 1
      BY <2>1
    <3>2. left + k \in left + 1 .. left'
      BY <2>1, <3>1, Facts
    <3> QED
      BY <1>1, <2>1, <3>1, <3>2
  <2>3. left' \in Nat /\ left' >= left /\ left' <= Len(accepted)
    BY <2>1, Facts
  <2> QED
    BY <2>1, <2>2, <2>3
<1>3. CASE CompleteError(w)
  <2>1. /\ UNCHANGED <<accepted, called>> /\ left' = Len(accepted)
        /\ \A v \in Workers : v # w => callbacks'[v] = callbacks[v]
        /\ Len(callbacks'[w]) = Len(send_queue)
        /\ \A k \in 1 .. Len(callbacks'[w]) : callbacks'[w][k] = Outcome(accepted[left + k], FALSE)
    BY <1>3, ErrorTells
  <2>2. ASSUME NEW k \in 1 .. Len(callbacks'[w])
        PROVE  left + k \in left + 1 .. left' /\ callbacks'[w][k].frame = accepted[left + k]
    <3>1. k \in 1 .. Len(send_queue) /\ left' = left + Len(send_queue)
      BY <2>1, Facts
    <3>2. callbacks'[w][k] = Outcome(accepted[left + k], FALSE)
      BY <2>1
    <3>3. left + k \in left + 1 .. left'
      BY <3>1, Facts
    <3> QED
      BY <1>1, <3>2, <3>3
  <2>3. left' \in Nat /\ left' >= left /\ left' <= Len(accepted)
    BY <2>1, Facts
  <2> QED
    BY <2>1, <2>2, <2>3
<1> QED
  BY <1>2, <1>3

LEMMA OnceStep == IInv /\ NewInv /\ AheadInv /\ TruthInv /\ OnceInv /\ [Next]_vars => OnceInv'
<1> SUFFICES ASSUME IInv, NewInv, AheadInv, TruthInv, OnceInv, [Next]_vars PROVE OnceInv'
  OBVIOUS
<1>1. CASE Unseen
  BY <1>1 DEF Unseen, OnceInv
<1>2. CASE WriteDone
  BY <1>2 DEF WriteDone, threadVars, OnceInv
<1>3. ASSUME NEW t \in Threads, SendPush(t) PROVE OnceInv'
  <2>1. /\ UNCHANGED <<left, called, callbacks>>
        /\ \A i \in 1 .. Len(accepted) : accepted'[i] = accepted[i]
    BY <1>3, PushKeeps
  <2>2. \A i \in 1 .. left : i \in 1 .. Len(accepted)
    BY Facts
  <2> QED
    BY <2>1, <2>2 DEF OnceInv
<1>4. ASSUME NEW w \in Workers, CompletePop(w) \/ CompleteError(w) PROVE OnceInv'
  <2>1. /\ UNCHANGED <<accepted, called>> /\ \A v \in Workers : v # w => callbacks'[v] = callbacks[v]
        /\ left' \in Nat /\ left' >= left /\ left' <= Len(accepted)
        /\ \A k \in 1 .. Len(callbacks'[w]) :
             left + k \in left + 1 .. left' /\ callbacks'[w][k].frame = accepted[left + k]
    BY <1>4, Collected
  <2>2. \A k \in 1 .. Len(callbacks'[w]), i \in 1 .. left : accepted[i] # callbacks'[w][k].frame
    <3> SUFFICES ASSUME NEW k \in 1 .. Len(callbacks'[w]), NEW i \in 1 .. left
                 PROVE  accepted[i] # callbacks'[w][k].frame
      OBVIOUS
    <3>1. left + k \in left + 1 .. left' /\ callbacks'[w][k].frame = accepted[left + k]
      BY <2>1
    <3>2. left + k \in 1 .. Len(accepted) /\ i \in 1 .. Len(accepted) /\ i # left + k
      BY <2>1, <3>1, Facts
    <3>3. accepted[i] # accepted[left + k]
      BY <3>2 DEF NewInv
    <3> QED
      BY <3>1, <3>3
  <2>3. ASSUME NEW k \in 1 .. Len(callbacks'[w]), NEW l \in 1 .. Len(callbacks'[w]),
               callbacks'[w][k].frame = callbacks'[w][l].frame
        PROVE  k = l
    <3>1. left + k \in 1 .. Len(accepted) /\ left + l \in 1 .. Len(accepted)
      BY SMTT(30), <2>1, Facts
    <3>2. accepted[left + k] = accepted[left + l]
      BY <2>1, <2>3
    <3>3. left + k = left + l
      BY <3>1, <3>2 DEF NewInv
    <3> QED
      BY <3>3, Facts
  <2>4. \A v \in Workers \ {w} : \A k \in 1 .. Len(callbacks'[v]) :
           \E i \in 1 .. left : accepted[i] = callbacks'[v][k].frame
    BY <2>1 DEF TruthInv
  <2>5. \A n \in 1 .. Len(called) : \E i \in 1 .. left : accepted[i] = called[n].frame
    BY DEF OnceInv
  <2>6. \A u, v \in Workers : \A k \in 1 .. Len(callbacks'[u]), l \in 1 .. Len(callbacks'[v]) :
           callbacks'[u][k].frame = callbacks'[v][l].frame => u = v /\ k = l
    <3>1. ASSUME NEW u \in Workers \ {w}, NEW v \in Workers \ {w},
                 NEW k \in 1 .. Len(callbacks'[u]), NEW l \in 1 .. Len(callbacks'[v]),
                 callbacks'[u][k].frame = callbacks'[v][l].frame
          PROVE  u = v /\ k = l
      BY <2>1, <3>1 DEF OnceInv
    <3>2. ASSUME NEW v \in Workers \ {w}, NEW k \in 1 .. Len(callbacks'[w]), NEW l \in 1 .. Len(callbacks'[v])
          PROVE  callbacks'[w][k].frame # callbacks'[v][l].frame
      BY <2>2, <2>4
    <3> QED
      BY SMTT(30), <2>3, <3>1, <3>2
  <2>7. \A v \in Workers : \A k \in 1 .. Len(callbacks'[v]), n \in 1 .. Len(called') :
           called'[n].frame # callbacks'[v][k].frame
    <3>1. ASSUME NEW v \in Workers \ {w}, NEW k \in 1 .. Len(callbacks'[v]), NEW n \in 1 .. Len(called)
          PROVE  called[n].frame # callbacks'[v][k].frame
      BY <2>1 DEF OnceInv
    <3>2. ASSUME NEW k \in 1 .. Len(callbacks'[w]), NEW n \in 1 .. Len(called)
          PROVE  called[n].frame # callbacks'[w][k].frame
      BY <2>2, <2>5
    <3> QED
      BY <2>1, <3>1, <3>2
  <2>8. \A i \in 1 .. left : i \in 1 .. left'
    BY <2>1, Facts
  <2>9. \A n \in 1 .. Len(called') : \E i \in 1 .. left' : accepted'[i] = called'[n].frame
    BY <2>1, <2>5, <2>8
  <2> QED
    BY <2>6, <2>7, <2>9 DEF OnceInv
<1>5. ASSUME NEW w \in Workers, RunCallback(w) PROVE OnceInv'
  <2>1. /\ UNCHANGED <<accepted, left>>
        /\ Len(callbacks[w]) >= 1
        /\ called' = IF callbacks[w][1].frame \in WithCallback
                     THEN Append(called, callbacks[w][1]) ELSE called
        /\ \A v \in Workers : v # w => callbacks'[v] = callbacks[v]
        /\ \A k \in 1 .. Len(callbacks'[w]) :
             k + 1 \in 1 .. Len(callbacks[w]) /\ callbacks'[w][k] = callbacks[w][k + 1]
    BY <1>5, RunPops
  \* Where a callback still to be called was before.
  <2> DEFINE Was(v, k) == IF v = w THEN k + 1 ELSE k
  <2>2. ASSUME NEW v \in Workers, NEW k \in 1 .. Len(callbacks'[v])
        PROVE  /\ Was(v, k) \in 1 .. Len(callbacks[v]) /\ callbacks'[v][k] = callbacks[v][Was(v, k)]
               /\ v = w => Was(v, k) # 1
               /\ \A l \in 1 .. Len(callbacks'[v]) : Was(v, k) = Was(v, l) => k = l
    BY <2>1
  <2>3. 1 \in 1 .. Len(callbacks[w]) /\ callbacks[w][1] \in Completion
    BY <2>1, Facts
  <2> HIDE DEF Was
  <2>4. ASSUME NEW u \in Workers, NEW v \in Workers,
               NEW k \in 1 .. Len(callbacks'[u]), NEW l \in 1 .. Len(callbacks'[v]),
               callbacks'[u][k].frame = callbacks'[v][l].frame
        PROVE  u = v /\ k = l
    <3>1. Was(u, k) \in 1 .. Len(callbacks[u]) /\ Was(v, l) \in 1 .. Len(callbacks[v])
      BY <2>2
    <3>2. callbacks[u][Was(u, k)].frame = callbacks[v][Was(v, l)].frame
      BY <2>2, <2>4
    <3>3. u = v /\ Was(u, k) = Was(v, l)
      BY <3>1, <3>2 DEF OnceInv
    <3> QED
      BY <2>2, <3>3
  <2>5. ASSUME NEW v \in Workers, NEW k \in 1 .. Len(callbacks'[v])
        PROVE  callbacks'[v][k].frame # callbacks[w][1].frame
    BY SMTT(30), <2>2, <2>3 DEF OnceInv
  <2>6. ASSUME NEW v \in Workers, NEW k \in 1 .. Len(callbacks'[v]), NEW n \in 1 .. Len(called)
        PROVE  called[n].frame # callbacks'[v][k].frame
    <3>1. Was(v, k) \in 1 .. Len(callbacks[v]) /\ callbacks'[v][k] = callbacks[v][Was(v, k)]
      BY <2>2
    <3> QED
      BY <3>1 DEF OnceInv
  <2>7. \E i \in 1 .. left : accepted[i] = callbacks[w][1].frame
    BY <2>3 DEF TruthInv
  <2>8. \A n \in 1 .. Len(called') : (n \in 1 .. Len(called) /\ called'[n] = called[n]) \/ called'[n] = callbacks[w][1]
    BY <2>1, <2>3, Facts, AppendProperties
  <2>9. \A n \in 1 .. Len(called') : \E i \in 1 .. left' : accepted'[i] = called'[n].frame
    BY <2>1, <2>7, <2>8 DEF OnceInv
  <2>10. \A v \in Workers : \A k \in 1 .. Len(callbacks'[v]), n \in 1 .. Len(called') :
            called'[n].frame # callbacks'[v][k].frame
    BY <2>5, <2>6, <2>8
  <2> QED
    BY <2>4, <2>9, <2>10 DEF OnceInv
<1> QED
  BY <1>1, <1>2, <1>3, <1>4, <1>5, Kinds

LEMMA StreamInvInit == Init => StreamInv
<1> SUFFICES ASSUME Init PROVE StreamInv
  OBVIOUS
<1>1. /\ \A t \in Threads : pc[t] = "idle"
      /\ accepted = << >> /\ wire = << >> /\ called = << >> /\ left = 0 /\ completions = {}
      /\ \A w \in Workers : callbacks[w] = << >>
  BY DEF Init
<1>2. NewInv /\ TruthInv /\ OnceInv
  BY <1>1 DEF NewInv, TruthInv, OnceInv, Ahead
<1>3. AheadInv
  BY <1>1, Sets DEF AheadInv, OkToken, Handlers
<1> QED
  BY <1>2, <1>3 DEF StreamInv

\* What the refinement needs of the connection, in every state.
THEOREM StreamInvariance == SafeSpec => [](IInv /\ StreamInv)
<1>1. Init => IInv /\ StreamInv
  BY InvInit, StreamInvInit
<1>2. IInv /\ StreamInv /\ [Next]_vars => (IInv /\ StreamInv)'
  BY InvStep, NewStep, AheadStep, TruthStep, OnceStep DEF StreamInv
<1> QED
  BY <1>1, <1>2, PTL DEF SafeSpec

--------------------------------------------------------------------------------
(* Each step is a step of the stream, or changes nothing in it. *)

Reported == [f \in WithCallback |-> Told(f)]
StreamSame == UNCHANGED <<accepted, wire, LostFrames, Reported>>

LEMMA InitImplements == Init => Stream!Init
  BY DEF Init, Stream!Init, LostFrames, Told

LEMMA UnseenImplements == Unseen => StreamSame
  BY DEF Unseen, StreamSame, LostFrames, Reported, Told

LEMMA PushImplements ==
  ASSUME IInv, StreamInv, NEW t \in Threads, SendPush(t)
  PROVE  frame[t] \in Frames /\ Stream!Accept(frame[t])
<1>1. /\ UNCHANGED <<left, wire, called>> /\ frame[t] \in Frames
      /\ accepted' = Append(accepted, frame[t])
      /\ \A i \in 1 .. Len(accepted) : accepted'[i] = accepted[i]
  BY PushKeeps
<1>2. frame[t] \notin Stream!ToSet(accepted)
  <2>1. pc[t] \in Ahead
    BY DEF SendPush, Ahead
  <2> QED
    BY <2>1, Facts DEF StreamInv, NewInv, Stream!ToSet
<1>3. LostFrames' = LostFrames
  <2>1. \A i \in Len(wire) + 1 .. left : i \in 1 .. Len(accepted)
    BY Facts
  <2> QED
    BY <1>1, <2>1 DEF LostFrames
<1>4. Reported' = Reported
  BY <1>1 DEF Reported, Told
<1> QED
  BY <1>1, <1>2, <1>3, <1>4 DEF Stream!Accept, Reported

LEMMA WriteImplements ==
  ASSUME IInv, StreamInv, WriteDone
  PROVE  Stream!Deliver
<1>1. /\ UNCHANGED <<accepted, left, called>> /\ \E f \in writing : wire' = Append(wire, f)
      /\ ~broken /\ completions = {} /\ Handlers = {}
  BY DEF WriteDone, IInv, TokenInv
<1>2. Len(wire) = left
  BY <1>1 DEF IInv, WireInv, OkToken
<1>3. send_queue # << >> /\ wire' = Append(wire, Head(send_queue))
  BY <1>1 DEF IInv, PinnedInv, Token
<1>4. Len(wire) < Len(accepted) /\ wire' = Append(wire, accepted[Len(wire) + 1])
  BY <1>2, <1>3, Facts
<1>5. Len(wire') = left + 1
  BY <1>2, <1>4, Facts, AppendProperties DEF IInv, TypeOK, QueueTypes
<1>6. LostFrames = {} /\ LostFrames' = {}
  BY <1>1, <1>2, <1>5, Facts DEF LostFrames
<1>7. Reported' = Reported
  BY <1>1 DEF Reported, Told
<1> QED
  BY <1>1, <1>4, <1>6, <1>7 DEF Stream!Deliver, Reported

LEMMA PopImplements ==
  ASSUME IInv, StreamInv, NEW w \in Workers, CompletePop(w)
  PROVE  StreamSame
<1>1. UNCHANGED <<accepted, wire, called>> /\ left' = left + 1 /\ Len(wire) = left + 1
  BY PopTells DEF StreamInv
<1>2. LostFrames = {} /\ LostFrames' = {}
  BY <1>1, Facts DEF LostFrames
<1>3. Reported' = Reported
  BY <1>1 DEF Reported, Told
<1> QED
  BY <1>1, <1>2, <1>3 DEF StreamSame

LEMMA ErrorImplements ==
  ASSUME IInv, StreamInv, NEW w \in Workers, CompleteError(w)
  PROVE  Stream!Lose
<1>1. /\ UNCHANGED <<accepted, wire, called>> /\ left' = Len(accepted)
      /\ Len(wire) <= left /\ Len(accepted) >= left + 1
  BY ErrorTells DEF StreamInv
<1>2. /\ Len(accepted) \in Nat /\ Len(wire) \in Nat /\ left \in Nat /\ Len(wire) <= Len(accepted)
      /\ \A i \in 1 .. Len(wire) : wire[i] = accepted[i]
      /\ \A i, j \in 1 .. Len(accepted) : accepted[i] = accepted[j] => i = j
      /\ Stream!ToSet(accepted) = {accepted[i] : i \in 1 .. Len(accepted)}
      /\ Stream!ToSet(wire) = {wire[i] : i \in 1 .. Len(wire)}
  <2>1. \A s \in Seq(Frames) : Stream!ToSet(s) = {s[i] : i \in 1 .. Len(s)}
    BY DEF Stream!ToSet
  <2> QED
    BY <2>1, Facts DEF StreamInv, NewInv
<1>3. \A i \in 1 .. Len(accepted) : i > Len(wire) => accepted[i] \notin Stream!ToSet(wire)
  BY <1>2
<1>4. /\ accepted[left + 1] \in Stream!ToSet(accepted)
      /\ accepted[left + 1] \notin Stream!ToSet(wire) \cup LostFrames
  <2>1. left + 1 \in 1 .. Len(accepted) /\ left + 1 > Len(wire)
    BY <1>1, <1>2
  <2>2. \A i \in Len(wire) + 1 .. left : i \in 1 .. Len(accepted) /\ i # left + 1
    BY <1>1, <1>2
  <2>3. accepted[left + 1] \notin LostFrames
    BY <1>2, <2>1, <2>2 DEF LostFrames
  <2> QED
    BY <1>2, <1>3, <2>1, <2>3
<1>5. LostFrames' = Stream!ToSet(accepted) \ Stream!ToSet(wire)
  <2>1. LostFrames' = {accepted[i] : i \in Len(wire) + 1 .. Len(accepted)}
    BY <1>1 DEF LostFrames
  <2>2. \A i \in Len(wire) + 1 .. Len(accepted) : i \in 1 .. Len(accepted) /\ i > Len(wire)
    BY <1>2
  <2>3. \A i \in 1 .. Len(accepted) : i \in 1 .. Len(wire) \/ i \in Len(wire) + 1 .. Len(accepted)
    BY <1>2
  <2>4. ASSUME NEW f \in LostFrames' PROVE f \in Stream!ToSet(accepted) \ Stream!ToSet(wire)
    BY <1>2, <1>3, <2>1, <2>2
  <2>5. ASSUME NEW f \in Stream!ToSet(accepted) \ Stream!ToSet(wire) PROVE f \in LostFrames'
    BY <1>2, <2>1, <2>3
  <2> QED
    BY <2>4, <2>5
<1>6. Reported' = Reported
  BY <1>1 DEF Reported, Told
<1> QED
  BY <1>1, <1>4, <1>5, <1>6 DEF Stream!Lose, Reported

LEMMA ReportImplements ==
  ASSUME IInv, StreamInv, NEW w \in Workers, RunCallback(w)
  PROVE  StreamSame \/ \E f \in WithCallback : Stream!Report(f)
<1>0. PICK c : c = callbacks[w][1]
  OBVIOUS
<1>1. /\ UNCHANGED <<accepted, left, wire>> /\ Len(callbacks[w]) >= 1
      /\ called' = IF c.frame \in WithCallback THEN Append(called, c) ELSE called
  BY <1>0, RunPops
<1>2. LostFrames' = LostFrames
  BY <1>1 DEF LostFrames
<1>3. CASE c.frame \notin WithCallback
  <2>1. Reported' = Reported
    BY <1>1, <1>3 DEF Reported, Told
  <2> QED
    BY <1>1, <1>2, <2>1 DEF StreamSame
<1>4. CASE c.frame \in WithCallback
  <2>1. 1 \in 1 .. Len(callbacks[w]) /\ c \in Completion
    BY <1>0, <1>1, Facts
  <2>2. /\ Len(called) \in Nat /\ Len(called') = Len(called) + 1 /\ called'[Len(called) + 1] = c
        /\ \A n \in 1 .. Len(called) : called'[n] = called[n]
    BY <1>1, <1>4, <2>1, Facts, AppendProperties
  \* Only what the frame's own callback was told changes, and it was told nothing yet.
  <2>3. \A n \in 1 .. Len(called) : called[n].frame # c.frame
    BY <1>0, <2>1 DEF StreamInv, OnceInv
  <2>4. \A n \in 1 .. Len(called') : n \in 1 .. Len(called) \/ n = Len(called) + 1
    BY <2>2
  <2>5. \A f, ok : c = Outcome(f, ok) <=> f = c.frame /\ ok = c.ok
    BY <2>1 DEF Completion, Outcome
  <2>6. ASSUME NEW f \in WithCallback, f # c.frame PROVE Told(f)' = Told(f)
    <3>1. (\E i \in 1 .. Len(called') : called'[i] = Outcome(f, TRUE))
          <=> \E i \in 1 .. Len(called) : called[i] = Outcome(f, TRUE)
      <4>1. c # Outcome(f, TRUE)
        BY <2>5, <2>6
      <4>2. \A i \in 1 .. Len(called) : i \in 1 .. Len(called') /\ called'[i] = called[i]
        BY <2>2
      <4>3. \A i \in 1 .. Len(called') : i \in 1 .. Len(called) \/ called'[i] = c
        BY <2>2, <2>4
      <4> QED
        BY <4>1, <4>2, <4>3
    <3>2. (\E i \in 1 .. Len(called') : called'[i].frame = f) <=> \E i \in 1 .. Len(called) : called[i].frame = f
      BY <2>2, <2>4, <2>6
    <3> QED
      BY <3>1, <3>2 DEF Told
  <2>7. Told(c.frame) = "nothing"
    <3>1. \A n \in 1 .. Len(called) : called[n] # Outcome(c.frame, TRUE)
      BY <2>3, CompletionFact DEF Outcome
    <3> QED
      BY <2>3, <3>1 DEF Told
  <2>8. /\ c.ok = TRUE => Told(c.frame)' = "ok"
        /\ c.ok = FALSE => Told(c.frame)' = "failed"
    <3>1. Len(called) + 1 \in 1 .. Len(called') /\ called'[Len(called) + 1] = c
      BY <2>2
    <3>2. ASSUME c.ok = TRUE PROVE Told(c.frame)' = "ok"
      <4>1. c = Outcome(c.frame, TRUE)
        BY <2>5, <3>2
      <4>2. \E i \in 1 .. Len(called') : called'[i] = Outcome(c.frame, TRUE)
        BY <3>1, <4>1
      <4> QED
        BY <4>2 DEF Told
    <3>3. ASSUME c.ok = FALSE PROVE Told(c.frame)' = "failed"
      <4>1. c # Outcome(c.frame, TRUE)
        BY <3>3, <2>5
      <4>2. \A n \in 1 .. Len(called) : called[n] # Outcome(c.frame, TRUE)
        BY <2>3 DEF Outcome
      <4>3. \A n \in 1 .. Len(called') : called'[n] # Outcome(c.frame, TRUE)
        BY <2>2, <2>4, <4>1, <4>2
      <4>4. \E i \in 1 .. Len(called') : called'[i].frame = c.frame
        BY <3>1
      <4> QED
        BY <4>3, <4>4 DEF Told
    <3> QED
      BY <3>2, <3>3
  <2>9. c.ok = TRUE => c.frame \in Stream!ToSet(wire)
    <3>1. PICK i \in 1 .. left : accepted[i] = c.frame /\ (c.ok <=> i <= Len(wire))
      BY <1>0, <2>1 DEF StreamInv, TruthInv
    <3>2. ASSUME c.ok = TRUE PROVE i \in 1 .. Len(wire) /\ wire[i] = c.frame
      <4>1. i <= Len(wire)
        BY <3>1, <3>2
      <4> QED
        BY <3>1, <4>1, Facts
    <3>3. \A s \in Seq(Frames) : \A j \in 1 .. Len(s) : s[j] \in Stream!ToSet(s)
      BY DEF Stream!ToSet
    <3> QED
      BY <3>2, <3>3, Facts
  <2>10. c.ok = FALSE => c.frame \in LostFrames
    <3>1. PICK i \in 1 .. left : accepted[i] = c.frame /\ (c.ok <=> i <= Len(wire))
      BY <1>0, <2>1 DEF StreamInv, TruthInv
    <3>2. ASSUME c.ok = FALSE PROVE i \in Len(wire) + 1 .. left
      <4>1. ~(i <= Len(wire))
        BY <3>1, <3>2
      <4> QED
        BY <4>1, Facts
    <3> QED
      BY <3>1, <3>2 DEF LostFrames
  <2>11. c.ok = TRUE \/ c.ok = FALSE
    BY <2>1, CompletionFact
  <2>12. Reported' = [Reported EXCEPT ![c.frame] = Told(c.frame)'] /\ Reported[c.frame] = "nothing"
    BY <1>4, <2>6, <2>7 DEF Reported
  <2>13. Stream!Report(c.frame)
    BY <1>1, <1>2, <2>8, <2>9, <2>10, <2>11, <2>12 DEF Stream!Report, Reported
  <2> QED
    BY <1>4, <2>13
<1> QED
  BY <1>3, <1>4

\* The connection keeps the promise to whoever calls send(): order, at most one
\* frame of each, no gap before the end, truthful callbacks; for any number of threads.
THEOREM Refinement == SafeSpec => ImplementsOutStream
<1>1. Init => Stream!Init
  BY InitImplements
<1>2. IInv /\ StreamInv /\ [Next]_vars
      => [Stream!Next]_<<accepted, wire, LostFrames, Reported>>
  <2> SUFFICES ASSUME IInv, StreamInv, [Next]_vars PROVE Stream!Next \/ StreamSame
    BY DEF StreamSame
  <2>1. CASE Unseen
    BY <2>1, UnseenImplements
  <2>2. CASE WriteDone
    BY <2>2, WriteImplements DEF Stream!Next
  <2>3. ASSUME NEW t \in Threads, SendPush(t) PROVE Stream!Next
    BY <2>3, PushImplements DEF Stream!Next
  <2>4. ASSUME NEW w \in Workers, CompletePop(w) PROVE StreamSame
    BY <2>4, PopImplements
  <2>5. ASSUME NEW w \in Workers, CompleteError(w) PROVE Stream!Next
    BY <2>5, ErrorImplements DEF Stream!Next
  <2>6. ASSUME NEW w \in Workers, RunCallback(w) PROVE Stream!Next \/ StreamSame
    BY <2>6, ReportImplements DEF Stream!Next
  <2> QED
    BY <2>1, <2>2, <2>3, <2>4, <2>5, <2>6, Kinds
<1>3. IInv /\ StreamInv /\ [Next]_vars => [Stream!Next]_(Stream!vars)
  BY <1>2 DEF Reported, Stream!vars
<1> QED
  BY <1>1, <1>3, StreamInvariance, PTL DEF SafeSpec, ImplementsOutStream, Stream!SafeSpec
================================================================================
