---------------------------- MODULE InformantProofs ----------------------------
(***************************************************************************)
(* A controller in use stays visible, for any hands, poses, timeout and    *)
(* times between two frames, whatever the recorder does in the same frames.*)
(* And of what the recorder captured and had room for nothing is lost and  *)
(* only the tails the releases leave behind are queued twice, as long as   *)
(* the threads do not overlap, for chunks and buffers of any size, however *)
(* often the button is pressed.  Each of the two has an                    *)
(* invariant of its own; a step of Informant is a step of the one, of the  *)
(* other or of both.                                                       *)
(***************************************************************************)
EXTENDS Informant, FiniteSetTheorems, SequenceTheorems, TLAPS

\* The time the code counts never runs ahead of the truth: where it was not set back
\* by a move the controller has been seen at the place BeginPlay stored.
TimeHonest ==
  \A h \in Hands : /\ NoActionTime[h] <= still[h]
                   /\ seen[h] # old_Direction[h] => NoActionTime[h] = 0

IInv == C!TypeOK /\ TimeHonest

LEMMA Later ==
  ASSUME NEW t \in Nat, NEW dt \in Nat
  PROVE  C!Later(t, dt) = IF t + dt <= MCNoActionTimeout THEN t + dt ELSE MCNoActionTimeout
<1>1. MCNoActionTimeout \in Nat
  BY InformantAssumption
<1> DEFINE m == IF t + dt <= MCNoActionTimeout THEN t + dt ELSE MCNoActionTimeout
<1>2. m \in {t + dt, MCNoActionTimeout} /\ \A y \in {t + dt, MCNoActionTimeout} : m <= y
  BY <1>1
<1>3. \A x \in {t + dt, MCNoActionTimeout} :
         (\A y \in {t + dt, MCNoActionTimeout} : x <= y) => x = m
  BY <1>1
<1>4. C!Min({t + dt, MCNoActionTimeout}) = m
  BY <1>2, <1>3 DEF C!Min
<1> QED
  BY <1>4 DEF C!Later

\* What a frame does to the times of a hand.
LEMMA TickTimes ==
  ASSUME IInv, NEW dt \in DeltaTimes, C!Tick(dt), NEW h \in Hands
  PROVE  /\ NoActionTime'[h] \in C!Time /\ still'[h] \in C!Time
         /\ NoActionTime'[h] <= still'[h]
         /\ pose[h] # old_Direction[h] => NoActionTime'[h] = 0
         /\ pose[h] = old_Direction[h] => NoActionTime'[h] = C!Later(NoActionTime[h], dt)
<1> USE InformantAssumption DEF IInv, C!TypeOK, C!Time
<1>1. NoActionTime[h] \in Nat /\ still[h] \in Nat /\ dt \in Nat /\ 0 \in Nat /\ MCNoActionTimeout \in Nat
  OBVIOUS
<1>2. /\ NoActionTime'[h] = IF pose[h] # old_Direction[h] THEN 0 ELSE C!Later(NoActionTime[h], dt)
      /\ still'[h] = IF pose[h] # seen[h] THEN C!Later(0, dt) ELSE C!Later(still[h], dt)
  BY DEF C!Tick, C!TimeAfter, C!Moved
<1>3. /\ NoActionTime[h] <= still[h]
      /\ seen[h] # old_Direction[h] => NoActionTime[h] = 0
  BY DEF TimeHonest
<1>4. \A t \in Nat : C!Later(t, dt) = IF t + dt <= MCNoActionTimeout THEN t + dt ELSE MCNoActionTimeout
  BY <1>1, Later
<1> QED
  BY <1>1, <1>2, <1>3, <1>4

LEMMA InitHolds == Init => IInv
<1> SUFFICES ASSUME Init PROVE IInv
  OBVIOUS
<1>1. 0 \in C!Time
  BY InformantAssumption DEF C!Time
<1>2. C!TypeOK
  BY <1>1 DEF Init, C!Init, C!TypeOK
<1>3. \A h \in Hands : NoActionTime[h] = 0 /\ still[h] = 0 /\ seen[h] = old_Direction[h]
  BY DEF Init, C!Init
<1>4. TimeHonest
  <2>1. ASSUME NEW h \in Hands PROVE NoActionTime[h] <= still[h]
    <3>1. NoActionTime[h] = 0 /\ still[h] = 0
      BY <1>3
    <3> QED
      BY <3>1
  <2> QED
    BY <1>3, <2>1 DEF TimeHonest
<1> QED
  BY <1>2, <1>4 DEF IInv

LEMMA StepKeeps == IInv /\ [Next]_vars => IInv'
<1> SUFFICES ASSUME IInv, [Next]_vars PROVE IInv'
  OBVIOUS
<1>1. CASE UNCHANGED controllerVars
  BY <1>1 DEF controllerVars, IInv, C!TypeOK, TimeHonest
<1>2. ASSUME NEW dt \in DeltaTimes, Tick(dt) PROVE IInv'
  <2>1. C!Tick(dt)
    BY <1>2 DEF Tick
  <2>2. \A h \in Hands : /\ NoActionTime'[h] \in C!Time /\ still'[h] \in C!Time
                         /\ NoActionTime'[h] <= still'[h]
                         /\ pose[h] # old_Direction[h] => NoActionTime'[h] = 0
    BY <2>1, TickTimes
  <2>3. C!TypeOK'
    BY <2>1, <2>2 DEF IInv, C!TypeOK, C!Tick, C!TimeAfter, C!ShownAfter, C!Moved
  <2>4. TimeHonest'
    BY <2>1, <2>2 DEF TimeHonest, C!Tick
  <2> QED
    BY <2>3, <2>4 DEF IInv
<1>3. ASSUME NEW h \in Hands, C!Move(h) PROVE IInv'
  BY <1>3 DEF C!Move, IInv, C!TypeOK, TimeHonest
<1>4. ASSUME NEW b \in BOOLEAN, C!SciViSetsVisibility(b) PROVE IInv'
  BY <1>4 DEF C!SciViSetsVisibility, IInv, C!TypeOK, TimeHonest
<1>5. CASE C!OnRTriggerPressed
  <2>1. 0 \in C!Time
    BY InformantAssumption DEF C!Time
  <2> QED
    BY <1>5, <2>1, InformantAssumption DEF C!OnRTriggerPressed, IInv, C!TypeOK, TimeHonest
<1> QED
  BY <1>1, <1>2, <1>3, <1>4, <1>5 DEF Next, Frame, Between, TriggerPressed, TriggerReleased, AudioThread, Captures, vars

\* The times counted and the true ones, in every state.
THEOREM Invariance == Spec => []IInv
  BY InitHolds, StepKeeps, PTL DEF Spec

\* A frame hides a controller only after MCNoActionTimeout without a move or the
\* trigger: BaseInformant.cpp:121, 165.
THEOREM StaysInUse == Spec => NotHiddenInUse
<1> DEFINE Honest == \A dt \in DeltaTimes : C!Tick(dt) =>
                       \A h \in Hands : visible[h] /\ ~visible'[h] => still'[h] = MCNoActionTimeout
<1>1. IInv => Honest
  <2> SUFFICES ASSUME IInv, NEW dt \in DeltaTimes, C!Tick(dt), NEW h \in Hands, visible[h], ~visible'[h]
               PROVE  still'[h] = MCNoActionTimeout
    OBVIOUS
  <2>1. pose[h] = old_Direction[h] /\ ~(C!Later(NoActionTime[h], dt) < MCNoActionTimeout)
    BY DEF C!Tick, C!ShownAfter, C!TimeAfter, C!Moved
  <2> QED
    BY <2>1, TickTimes, InformantAssumption DEF C!Time
<1>2. IInv => [Honest]_(C!vars)
  BY <1>1
<1> QED
  BY <1>2, Invariance, PTL DEF NotHiddenInUse, C!NotHiddenInUse

--------------------------------------------------------------------------------
(* The recorder.  What a buffer of the history has to do with the one being filled: *)
(* it is a beginning of it, which a release queued, or all of it is older.          *)

Hist == V!History

Begins(g, h) == g.n <= h.n /\ \A i \in 1 .. g.n : g.data[i] = h.data[i]
Older(g, h)  == g.data[g.n] < h.data[1]

\* Older than what is being filled and what is to come.
Past(g) == /\ g.data[g.n] <= captured
           /\ \A i \in 1 .. new_batch.n : g.data[g.n] < new_batch.data[i]
           /\ \A i \in DOMAIN arriving : g.data[g.n] < arriving[i]

\* Where the threads stand and what they hold there.
ThreadsInv ==
  /\ audio \notin {"called", "appending"} => arriving = << >>
  /\ audio = "called" => /\ Len(arriving) <= captured
                         /\ \A i \in DOMAIN arriving : arriving[i] = captured - Len(arriving) + i
  /\ \A i \in 1 .. MaxSamples : new_batch.data[i] <= captured
  /\ racing => /\ overlap /\ (audio = "enqueue" \/ game = "enqueue")
               /\ audio # "enqueue" \/ game # "enqueue" => RecordingRawData # << >>
  /\ game = "enqueue" /\ ~overlap => audio \notin {"appending", "enqueue"}
  /\ game # "idle" => ~bIsRecording
  /\ bIsRecording \/ game # "idle" => presses >= 1

TypesInv == V!TypeOK /\ ThreadsInv

\* Every sample captured is on its way, cut off, or in a buffer.
Filling   == {new_batch.data[i] : i \in 1 .. new_batch.n}
Queued    == {Hist[j] : j \in DOMAIN Hist}
SampleInv ==
  /\ \A c \in 1 .. captured : \/ c \in cut \/ c \in Filling \/ \E i \in DOMAIN arriving : c = arriving[i]
                              \/ \E b \in Queued : \E i \in 1 .. b.n : c = b.data[i]
  /\ audio = "queued" => new_batch \in Queued

\* The buffers that repeat an older one; a release pays for each, and for the one that
\* the tail it left in new_batch will become.
Repeated == {j \in DOMAIN Hist : \E i \in 1 .. j - 1 :
               Hist[i].n > 0 /\ Hist[j].n > 0 /\ ~Older(Hist[i], Hist[j])}
Owed     == audio # "queued" /\ \E j \in DOMAIN Hist : Hist[j].n > 0 /\ Begins(Hist[j], new_batch)
Released == IF bIsRecording \/ game # "idle" THEN presses - 1 ELSE presses

OrderInv ==
  /\ \A j \in DOMAIN Hist : Hist[j].n > 0 => Past(Hist[j]) \/ Begins(Hist[j], new_batch)
  /\ \A j \in DOMAIN Hist : \A i \in 1 .. j - 1 :
       Hist[i].n > 0 /\ Hist[j].n > 0 => Older(Hist[i], Hist[j]) \/ Begins(Hist[i], Hist[j])
  /\ Cardinality(Repeated) + (IF Owed THEN 1 ELSE 0) <= Released

VoiceInv == TypesInv /\ (overlap \/ (SampleInv /\ OrderInv))

VoiceStep == \/ V!Tick \/ V!StartRecording \/ V!StopRecording \/ V!AudioNext \/ V!StopNext
             \/ (\E k \in Chunks : V!OnNewSubmixBuffer(k)) \/ UNCHANGED voiceVars

LEMMA VoiceMoves == [Next]_vars => VoiceStep
  BY DEF Next, Frame, Tick, ProcessVoice, Between, TriggerPressed, TriggerReleased, AudioThread, Captures,
         vars, VoiceStep

--------------------------------------------------------------------------------
(* Types, and where the threads stand. *)

LEMMA RoomIs ==
  ASSUME V!TypeOK
  PROVE  /\ V!Room = IF MaxSamples - new_batch.n <= Len(arriving) THEN MaxSamples - new_batch.n ELSE Len(arriving)
         /\ V!Room \in Nat /\ V!Room <= Len(arriving) /\ V!Room + new_batch.n <= MaxSamples
<1> DEFINE a == MaxSamples - new_batch.n
           l == Len(arriving)
           m == IF a <= l THEN a ELSE l
<1>1. a \in Nat /\ l \in Nat /\ new_batch.n \in Nat
  BY InformantAssumption, LenProperties DEF V!TypeOK, V!Batches
<1>2. V!Room = V!Min({a, l})
  BY DEF V!Room
<1> HIDE DEF a, l
<1>3. m \in {a, l} /\ \A y \in {a, l} : m <= y
  BY <1>1
<1>4. \A x \in {a, l} : (\A y \in {a, l} : x <= y) => x = m
  BY <1>1
<1>5. V!Room = m
  BY <1>2, <1>3, <1>4 DEF V!Min
<1>6. a + new_batch.n = MaxSamples
  BY <1>1, InformantAssumption DEF a
<1> QED
  BY <1>1, <1>5, <1>6 DEF a, l

\* What Append leaves in the buffer.
LEMMA FilledIs ==
  ASSUME V!TypeOK, audio = "appending"
  PROVE  LET b == V!Filled(new_batch) IN
         /\ b \in V!Batches /\ b.n = new_batch.n + Len(arriving)
         /\ \A i \in 1 .. MaxSamples :
              b.data[i] = IF i - new_batch.n \in DOMAIN arriving THEN arriving[i - new_batch.n] ELSE new_batch.data[i]
<1> DEFINE b == V!Filled(new_batch)
<1>1. /\ new_batch.n \in 0 .. MaxSamples /\ new_batch.data \in [1 .. MaxSamples -> 0 .. MaxCaptured]
      /\ arriving \in Seq(1 .. captured) /\ captured \in 0 .. MaxCaptured
      /\ Len(arriving) \in Nat /\ new_batch.n + Len(arriving) <= MaxSamples
  BY LenProperties DEF V!TypeOK, V!Batches
<1>2. \A i \in DOMAIN arriving : arriving[i] \in 0 .. MaxCaptured
  <2>1. \A i \in DOMAIN arriving : arriving[i] \in 1 .. captured
    BY <1>1, ElementOfSeq, LenProperties
  <2> QED
    BY <1>1, <2>1, InformantAssumption
<1>3. /\ b.n = new_batch.n + Len(arriving)
      /\ b = [n |-> b.n, data |-> b.data]
      /\ b.data = [i \in 1 .. MaxSamples |-> IF i - new_batch.n \in DOMAIN arriving THEN arriving[i - new_batch.n]
                                                                                  ELSE new_batch.data[i]]
  BY DEF V!Filled
<1> HIDE DEF b
<1>4. b.n \in 0 .. MaxSamples /\ b.data \in [1 .. MaxSamples -> 0 .. MaxCaptured]
  BY SMTT(30), <1>1, <1>2, <1>3, InformantAssumption
<1>5. b \in V!Batches
  BY <1>3, <1>4 DEF V!Batches
<1> QED
  BY <1>3, <1>5 DEF b

LEMMA CopyType ==
  ASSUME V!TypeOK, NEW b \in V!Copies
  PROVE  b \in V!Batches
<1>1. V!Written.n \in 0 .. MaxSamples
  <2>1. CASE audio = "appending"
    BY <2>1, FilledIs DEF V!Written, V!Batches
  <2>2. CASE audio # "appending"
    BY <2>2 DEF V!Written, V!TypeOK, V!Batches
  <2> QED
    BY <2>1, <2>2
<1> QED
  BY <1>1 DEF V!Copies, V!TypeOK, V!Batches

\* Whatever the race leaves is a queue of buffers, and not empty.
LEMMA EnqueuedType ==
  ASSUME V!TypeOK, NEW b \in V!Batches, NEW other \in BOOLEAN,
         racing /\ ~other => RecordingRawData # << >>, NEW q \in V!Enqueued(b, other)
  PROVE  q \in Seq(V!Batches) /\ q # << >>
<1> DEFINE r == RecordingRawData
           f == V!Front(r)
<1>1. r \in Seq(V!Batches) /\ V!Unwritten \in V!Batches
  BY InformantAssumption DEF V!TypeOK, V!Unwritten, V!Batches
<1> HIDE DEF V!Batches
<1>2. CASE ~(racing /\ ~other)
  <2>1. q = Append(r, b)
    BY <1>2 DEF V!Enqueued
  <2> QED
    BY <1>1, <2>1, AppendProperties
<1>3. CASE racing /\ ~other
  <2>1. r # << >> /\ Len(r) \in Nat /\ Len(r) >= 1 /\ DOMAIN r = 1 .. Len(r)
    BY <1>1, <1>3, LenProperties, EmptySeq
  <2>2. f \in Seq(V!Batches)
    <3>1. \A i \in 1 .. Len(r) - 1 : r[i] \in V!Batches
      BY <1>1, <2>1, ElementOfSeq
    <3>2. 1 \in Int /\ Len(r) - 1 \in Int
      BY <2>1
    <3> QED
      BY <3>1, <3>2, SubSeqProperties DEF V!Front
  <2>3. V!Last(r) \in V!Batches
    BY <1>1, <2>1, ElementOfSeq DEF V!Last
  <2>4. \/ q = Append(r, b) \/ q = Append(f, b) \/ q = r
        \/ q = Append(Append(f, b), V!Unwritten) \/ q = Append(Append(f, V!Last(r)), V!Unwritten)
    BY <1>3 DEF V!Enqueued, V!Raced
  <2> HIDE DEF r, f
  <2>5. \A s \in Seq(V!Batches), x \in V!Batches : Append(s, x) \in Seq(V!Batches) /\ Append(s, x) # << >>
    BY AppendProperties
  <2>6. Append(f, b) \in Seq(V!Batches) /\ Append(f, V!Last(r)) \in Seq(V!Batches)
    BY <2>2, <2>3, <2>5
  <2> QED
    BY <1>1, <2>1, <2>2, <2>4, <2>5, <2>6
<1> QED
  BY <1>2, <1>3

LEMMA CaptureTypes ==
  ASSUME TypesInv, NEW k \in Chunks, V!OnNewSubmixBuffer(k)
  PROVE  TypesInv'
<1>1. captured \in Nat /\ k \in Nat /\ captured' = captured + k /\ captured' \in 0 .. MaxCaptured
  BY InformantAssumption DEF TypesInv, V!TypeOK, V!OnNewSubmixBuffer
<1>2. arriving' = [i \in 1 .. k |-> captured + i] /\ audio = "idle" /\ audio' = "called"
  BY DEF V!OnNewSubmixBuffer
<1>3. arriving' \in Seq(1 .. captured') /\ Len(arriving') = k
  <2>1. \A i \in 1 .. k : captured + i \in 1 .. captured'
    BY <1>1
  <2>2. arriving' \in [1 .. k -> 1 .. captured']
    BY <1>2, <2>1
  <2> HIDE DEF V!OnNewSubmixBuffer
  <2> QED
    BY <1>1, <2>2, SeqDef, LenProperties
<1>4. \A i \in DOMAIN arriving' : arriving'[i] = captured' - Len(arriving') + i
  BY <1>1, <1>2, <1>3
<1>5. cut \subseteq 1 .. captured'
  BY <1>1 DEF TypesInv, V!TypeOK
<1>6. \A i \in 1 .. MaxSamples : new_batch.data[i] <= captured'
  <2>1. \A i \in 1 .. MaxSamples : new_batch.data[i] \in Nat /\ new_batch.data[i] <= captured
    BY SMTT(30), InformantAssumption DEF TypesInv, V!TypeOK, ThreadsInv, V!Batches
  <2> QED
    BY <1>1, <2>1
<1>7. V!TypeOK'
  BY <1>1, <1>2, <1>3, <1>5 DEF TypesInv, V!TypeOK, V!OnNewSubmixBuffer
<1>8. ThreadsInv'
  BY <1>1, <1>2, <1>3, <1>4, <1>6 DEF TypesInv, ThreadsInv, V!OnNewSubmixBuffer
<1> QED
  BY <1>7, <1>8 DEF TypesInv

\* What Append keeps of what arrived and what it cuts off.
LEMMA CutIs ==
  ASSUME TypesInv, V!AppendBegins
  PROVE  /\ arriving' \in Seq(1 .. captured) /\ Len(arriving') = V!Room
         /\ \A i \in 1 .. V!Room : arriving'[i] = arriving[i]
         /\ Len(arriving) <= captured /\ \A i \in 1 .. Len(arriving) : arriving[i] = captured - Len(arriving) + i
         /\ cut' = cut \cup (captured - Len(arriving) + V!Room + 1 .. captured) /\ cut' \subseteq 1 .. captured
<1>1. /\ captured \in Nat /\ arriving \in Seq(1 .. captured) /\ Len(arriving) \in Nat
      /\ DOMAIN arriving = 1 .. Len(arriving) /\ \A i \in 1 .. Len(arriving) : arriving[i] \in 1 .. captured
  BY LenProperties, ElementOfSeq DEF TypesInv, V!TypeOK
<1>2. V!Room \in Nat /\ V!Room <= Len(arriving)
  BY RoomIs DEF TypesInv
<1> HIDE DEF V!Room
<1>3. /\ 1 \in Int /\ V!Room \in Int /\ \A i \in 1 .. V!Room : arriving[i] \in 1 .. captured
      /\ arriving' = SubSeq(arriving, 1, V!Room)
  BY <1>1, <1>2 DEF V!AppendBegins
<1>4. /\ arriving' \in Seq(1 .. captured)
      /\ Len(arriving') = IF 1 <= V!Room THEN V!Room - 1 + 1 ELSE 0
      /\ \A i \in 1 .. V!Room - 1 + 1 : arriving'[i] = arriving[1 + i - 1]
  BY <1>3, SubSeqProperties
<1>5. Len(arriving') = V!Room /\ \A i \in 1 .. V!Room : arriving'[i] = arriving[i]
  BY <1>2, <1>4
<1>6. Len(arriving) <= captured /\ \A i \in 1 .. Len(arriving) : arriving[i] = captured - Len(arriving) + i
  BY <1>1 DEF TypesInv, ThreadsInv, V!AppendBegins
<1>7. cut' = cut \cup (captured - Len(arriving) + V!Room + 1 .. captured) /\ cut \subseteq 1 .. captured
  BY DEF V!AppendBegins, TypesInv, V!TypeOK
<1>8. cut' \subseteq 1 .. captured
  <2>1. captured - Len(arriving) + V!Room + 1 \in Nat /\ captured - Len(arriving) + V!Room + 1 >= 1
    BY <1>1, <1>2, <1>6
  <2> DEFINE c == captured - Len(arriving) + V!Room + 1
  <2>2. c \in Nat /\ c >= 1
    BY <2>1
  <2>3. cut' = cut \cup (c .. captured)
    BY <1>7
  <2> HIDE DEF c
  <2>4. c .. captured \subseteq 1 .. captured
    BY <1>1, <2>2
  <2> QED
    BY <1>7, <2>3, <2>4
<1> QED
  BY <1>4, <1>5, <1>6, <1>7, <1>8

LEMMA AppendBeginsTypes ==
  ASSUME TypesInv, V!AppendBegins
  PROVE  TypesInv'
<1>1. /\ arriving' \in Seq(1 .. captured) /\ Len(arriving') = V!Room /\ cut' \subseteq 1 .. captured
      /\ new_batch.n + Len(arriving') <= MaxSamples
  <2>1. V!Room \in Nat /\ V!Room + new_batch.n <= MaxSamples /\ new_batch.n \in 0 .. MaxSamples
    BY RoomIs DEF TypesInv, V!TypeOK, V!Batches
  <2> QED
    BY <2>1, CutIs
<1>2. V!TypeOK'
  BY <1>1 DEF TypesInv, V!TypeOK, V!AppendBegins
<1>3. ThreadsInv'
  BY DEF TypesInv, V!TypeOK, ThreadsInv, V!AppendBegins
<1> QED
  BY <1>2, <1>3 DEF TypesInv

LEMMA AppendEndsTypes ==
  ASSUME TypesInv, V!AppendEnds
  PROVE  TypesInv'
<1>1. audio = "appending" /\ new_batch' = V!Filled(new_batch) /\ arriving' = << >>
  BY DEF V!AppendEnds
<1>2. /\ new_batch' \in V!Batches /\ new_batch'.n = new_batch.n + Len(arriving)
      /\ \A i \in 1 .. MaxSamples : new_batch'.data[i] = IF i - new_batch.n \in DOMAIN arriving
                                                         THEN arriving[i - new_batch.n] ELSE new_batch.data[i]
  BY <1>1, FilledIs DEF TypesInv
<1>3. /\ audio' \in {"full", "idle"} /\ (audio' = "full" => new_batch'.n = MaxSamples)
      /\ << >> \in Seq(1 .. captured)
  BY <1>1, <1>2, InformantAssumption DEF V!AppendEnds, V!Batches
<1>4. V!TypeOK'
  BY <1>1, <1>2, <1>3 DEF TypesInv, V!TypeOK, V!AppendEnds
<1>5. \A i \in 1 .. MaxSamples : new_batch'.data[i] <= captured
  <2>1. \A i \in DOMAIN arriving : arriving[i] \in 1 .. captured
    BY ElementOfSeq, LenProperties DEF TypesInv, V!TypeOK
  <2>2. captured \in Nat /\ \A i \in 1 .. MaxSamples : new_batch.data[i] <= captured
    BY DEF TypesInv, V!TypeOK, ThreadsInv
  <2> QED
    BY <1>2, <2>1, <2>2
<1>6. ThreadsInv'
  BY <1>1, <1>3, <1>5 DEF TypesInv, V!TypeOK, ThreadsInv, V!AppendEnds
<1> QED
  BY <1>4, <1>6 DEF TypesInv

LEMMA EnqueueTypes ==
  ASSUME TypesInv, V!EnqueueBegins \/ V!EnqueueEnds \/ V!ResetBatch
  PROVE  TypesInv'
<1>1. CASE V!EnqueueBegins
  BY <1>1 DEF TypesInv, V!TypeOK, ThreadsInv, V!EnqueueBegins
<1>2. CASE V!EnqueueEnds
  <2>1. RecordingRawData' \in V!Enqueued(new_batch, game = "enqueue") /\ new_batch \in V!Batches
    BY <1>2 DEF V!EnqueueEnds, TypesInv, V!TypeOK
  <2>2. racing /\ game # "enqueue" => RecordingRawData # << >>
    BY DEF TypesInv, ThreadsInv
  <2>3. RecordingRawData' \in Seq(V!Batches) /\ RecordingRawData' # << >>
    BY <2>1, <2>2, EnqueuedType DEF TypesInv
  <2> HIDE DEF V!Batches
  <2>4. V!TypeOK'
    BY <1>2, <2>3 DEF TypesInv, V!TypeOK, V!EnqueueEnds
  <2>5. ThreadsInv'
    BY <1>2, <2>3 DEF TypesInv, V!TypeOK, ThreadsInv, V!EnqueueEnds
  <2> QED
    BY <2>4, <2>5 DEF TypesInv
<1>3. CASE V!ResetBatch
  <2>1. new_batch' \in V!Batches /\ new_batch'.data = new_batch.data
    <3>1. new_batch = [n |-> new_batch.n, data |-> new_batch.data] /\ new_batch \in V!Batches
      BY DEF TypesInv, V!TypeOK, V!Batches
    <3>2. new_batch' = [n |-> 0, data |-> new_batch.data]
      BY <1>3, <3>1 DEF V!ResetBatch
    <3> QED
      BY <3>1, <3>2, InformantAssumption DEF V!Batches
  <2> HIDE DEF V!Batches
  <2>2. V!TypeOK'
    BY <1>3, <2>1 DEF TypesInv, V!TypeOK, V!ResetBatch
  <2>3. ThreadsInv'
    BY <1>3, <2>1 DEF TypesInv, V!TypeOK, ThreadsInv, V!ResetBatch
  <2> QED
    BY <2>2, <2>3 DEF TypesInv
<1> QED
  BY <1>1, <1>2, <1>3

LEMMA GameTypes ==
  ASSUME TypesInv, V!StartRecording \/ V!StopRecording \/ V!StopNext \/ V!Tick
  PROVE  TypesInv'
<1>1. CASE V!StartRecording \/ V!StopRecording
  <2> HIDE DEF V!Batches
  <2>1. presses' \in 0 .. MaxPresses /\ (bIsRecording' \/ game' # "idle" => presses' >= 1)
    BY <1>1, InformantAssumption DEF TypesInv, V!TypeOK, ThreadsInv, V!StartRecording, V!StopRecording
  <2>2. V!TypeOK'
    BY <1>1, <2>1 DEF TypesInv, V!TypeOK, V!StartRecording, V!StopRecording
  <2>3. ThreadsInv'
    BY <1>1, <2>1 DEF TypesInv, ThreadsInv, V!StartRecording, V!StopRecording
  <2> QED
    BY <2>2, <2>3 DEF TypesInv
<1>2. CASE V!StopEnqueueBegins
  BY <1>2 DEF TypesInv, V!TypeOK, ThreadsInv, V!StopEnqueueBegins
<1>3. CASE V!StopEnqueueEnds
  <2>1. PICK b \in V!Copies : RecordingRawData' \in V!Enqueued(b, audio = "enqueue")
    BY <1>3 DEF V!StopEnqueueEnds
  <2>2. b \in V!Batches
    BY CopyType DEF TypesInv
  <2>3. racing /\ audio # "enqueue" => RecordingRawData # << >>
    BY DEF TypesInv, ThreadsInv
  <2>4. RecordingRawData' \in Seq(V!Batches) /\ RecordingRawData' # << >>
    BY <2>1, <2>2, <2>3, EnqueuedType DEF TypesInv
  <2> HIDE DEF V!Batches
  <2>5. V!TypeOK'
    BY <1>3, <2>4 DEF TypesInv, V!TypeOK, V!StopEnqueueEnds
  <2>6. ThreadsInv'
    BY <1>3, <2>4 DEF TypesInv, V!TypeOK, ThreadsInv, V!StopEnqueueEnds
  <2> QED
    BY <2>5, <2>6 DEF TypesInv
<1>4. CASE V!Tick
  <2> HIDE DEF V!Batches
  <2>1. RecordingRawData \in Seq(V!Batches) /\ RecordingRawData # << >> /\ popped \in Seq(V!Batches)
    BY <1>4 DEF TypesInv, V!TypeOK, V!Tick
  <2>2. Head(RecordingRawData) \in V!Batches /\ Tail(RecordingRawData) \in Seq(V!Batches)
    BY <2>1, HeadTailProperties
  <2>3. popped' \in Seq(V!Batches) /\ RecordingRawData' \in Seq(V!Batches)
    BY <1>4, <2>1, <2>2, AppendProperties DEF V!Tick
  <2>4. V!TypeOK'
    BY <1>4, <2>3 DEF TypesInv, V!TypeOK, V!Tick
  <2>5. ThreadsInv'
    BY <1>4 DEF TypesInv, ThreadsInv, V!Tick
  <2> QED
    BY <2>4, <2>5 DEF TypesInv
<1> QED
  BY <1>1, <1>2, <1>3, <1>4 DEF V!StopNext

LEMMA TypesStep == TypesInv /\ VoiceStep => TypesInv'
<1> SUFFICES ASSUME TypesInv, VoiceStep PROVE TypesInv'
  OBVIOUS
<1>1. CASE UNCHANGED voiceVars
  BY <1>1 DEF voiceVars, TypesInv, V!TypeOK, ThreadsInv
<1> QED
  BY <1>1, CaptureTypes, AppendBeginsTypes, AppendEndsTypes, EnqueueTypes, GameTypes DEF VoiceStep, V!AudioNext

--------------------------------------------------------------------------------
(* The history. *)

LEMMA HistType ==
  ASSUME TypesInv
  PROVE  /\ Hist \in Seq(V!Batches) /\ Len(Hist) \in Nat /\ DOMAIN Hist = 1 .. Len(Hist)
         /\ \A j \in DOMAIN Hist : Hist[j] \in V!Batches
<1>1. popped \in Seq(V!Batches) /\ RecordingRawData \in Seq(V!Batches)
  BY DEF TypesInv, V!TypeOK
<1> HIDE DEF V!Batches
<1>2. Hist \in Seq(V!Batches)
  BY <1>1, ConcatProperties DEF Hist, V!History
<1> HIDE DEF Hist
<1> QED
  BY <1>2, LenProperties, ElementOfSeq

\* b was queued.
Grown(b) == /\ Len(Hist') = Len(Hist) + 1 /\ DOMAIN Hist' = 1 .. Len(Hist) + 1
            /\ \A j \in 1 .. Len(Hist) : Hist'[j] = Hist[j]
            /\ Hist'[Len(Hist) + 1] = b

LEMMA HistGrows ==
  ASSUME TypesInv, NEW b \in V!Batches, RecordingRawData' = Append(RecordingRawData, b), UNCHANGED popped
  PROVE  Grown(b)
<1> DEFINE p == popped
           q == RecordingRawData
           r == Append(q, b)
<1>1. p \in Seq(V!Batches) /\ q \in Seq(V!Batches)
  BY DEF TypesInv, V!TypeOK
<1> HIDE DEF V!Batches
<1>2. /\ r \in Seq(V!Batches) /\ Len(r) = Len(q) + 1 /\ r[Len(q) + 1] = b
      /\ \A i \in 1 .. Len(q) : r[i] = q[i]
  BY <1>1, AppendProperties
<1>3. Hist = p \o q /\ Hist' = p \o r
  BY DEF Hist, V!History
<1> HIDE DEF p, q, r, Hist
<1>4. /\ Len(Hist) = Len(p) + Len(q)
      /\ \A i \in 1 .. Len(p) + Len(q) : Hist[i] = IF i <= Len(p) THEN p[i] ELSE q[i - Len(p)]
  BY <1>1, <1>3, ConcatProperties
<1>5. /\ Hist' \in Seq(V!Batches) /\ Len(Hist') = Len(p) + Len(r)
      /\ \A i \in 1 .. Len(p) + Len(r) : Hist'[i] = IF i <= Len(p) THEN p[i] ELSE r[i - Len(p)]
  <2>1. /\ p \o r \in Seq(V!Batches) /\ Len(p \o r) = Len(p) + Len(r)
        /\ \A i \in 1 .. Len(p) + Len(r) : (p \o r)[i] = IF i <= Len(p) THEN p[i] ELSE r[i - Len(p)]
    BY <1>1, <1>2, ConcatProperties
  <2> QED
    BY <1>3, <2>1
<1>6. Len(p) \in Nat /\ Len(q) \in Nat
  BY <1>1, LenProperties
<1>7. Len(Hist') = Len(Hist) + 1 /\ DOMAIN Hist' = 1 .. Len(Hist) + 1
  <2>1. Len(Hist') = Len(Hist) + 1
    BY <1>2, <1>4, <1>5, <1>6
  <2> QED
    BY <1>5, <2>1, LenProperties
<1>8. ASSUME NEW j \in 1 .. Len(Hist) PROVE Hist'[j] = Hist[j]
  <2>1. j \in 1 .. Len(p) + Len(q) /\ j \in 1 .. Len(p) + Len(r) /\ j - Len(p) <= Len(q)
    BY <1>2, <1>4, <1>6, <1>8
  <2>2. CASE j <= Len(p)
    BY <1>4, <1>5, <2>1, <2>2
  <2>3. CASE ~(j <= Len(p))
    <3>1. j - Len(p) \in 1 .. Len(q)
      BY <1>6, <2>1, <2>3
    <3> QED
      BY <1>2, <1>4, <1>5, <2>1, <2>3, <3>1
  <2> QED
    BY <2>2, <2>3
<1>9. Hist'[Len(Hist) + 1] = b
  <2>1. /\ Len(Hist) + 1 \in 1 .. Len(p) + Len(r) /\ ~(Len(Hist) + 1 <= Len(p))
        /\ Len(Hist) + 1 - Len(p) = Len(q) + 1
    BY <1>2, <1>4, <1>6
  <2> QED
    BY <1>2, <1>5, <2>1
<1> QED
  BY <1>7, <1>8, <1>9 DEF Grown

\* What the game thread takes stays in the history, at its place.
LEMMA HistStays ==
  ASSUME TypesInv, V!Tick
  PROVE  Hist' = Hist
<1> DEFINE p == popped
           q == RecordingRawData
           h == Head(q)
           t == Tail(q)
           a == Append(p, h)
<1>1. /\ p \in Seq(V!Batches) /\ q \in Seq(V!Batches) /\ q # << >>
      /\ Hist = p \o q /\ Hist' = a \o t
  BY DEF TypesInv, V!TypeOK, V!Tick, Hist, V!History
<1> HIDE DEF V!Batches, Hist
<1>2. /\ h \in V!Batches /\ t \in Seq(V!Batches) /\ Len(t) = Len(q) - 1 /\ h = q[1]
      /\ \A i \in 1 .. Len(t) : t[i] = q[i + 1]
  BY <1>1, HeadTailProperties
<1> HIDE DEF h, t
<1>3. /\ a \in Seq(V!Batches) /\ Len(a) = Len(p) + 1 /\ a[Len(p) + 1] = h
      /\ \A i \in 1 .. Len(p) : a[i] = p[i]
  BY <1>1, <1>2, AppendProperties
<1> HIDE DEF a
<1>4. /\ p \o q \in Seq(V!Batches) /\ Len(p \o q) = Len(p) + Len(q)
      /\ \A i \in 1 .. Len(p) + Len(q) : (p \o q)[i] = IF i <= Len(p) THEN p[i] ELSE q[i - Len(p)]
  BY <1>1, ConcatProperties
<1>5. /\ a \o t \in Seq(V!Batches) /\ Len(a \o t) = Len(a) + Len(t)
      /\ \A i \in 1 .. Len(a) + Len(t) : (a \o t)[i] = IF i <= Len(a) THEN a[i] ELSE t[i - Len(a)]
  BY <1>2, <1>3, ConcatProperties
<1>6. Len(p) \in Nat /\ Len(q) \in Nat /\ Len(a) + Len(t) = Len(p) + Len(q)
  <2>1. Len(p) \in Nat /\ Len(q) \in Nat
    BY <1>1, LenProperties
  <2> QED
    BY <1>2, <1>3, <2>1
<1>7. ASSUME NEW i \in 1 .. Len(p) + Len(q) PROVE (p \o q)[i] = (a \o t)[i]
  <2>1. CASE i <= Len(p)
    <3>1. i \in 1 .. Len(p) /\ i <= Len(a)
      BY <1>3, <1>6, <2>1
    <3> QED
      BY <1>3, <1>4, <1>5, <1>6, <2>1, <3>1
  <2>2. CASE i = Len(p) + 1
    <3>1. ~(i <= Len(p)) /\ i - Len(p) = 1 /\ i <= Len(a)
      BY <1>3, <1>6, <2>2
    <3> QED
      BY <1>2, <1>3, <1>4, <1>5, <1>6, <2>2, <3>1
  <2>3. CASE i > Len(p) + 1
    <3>1. /\ ~(i <= Len(p)) /\ ~(i <= Len(a)) /\ i - Len(a) \in 1 .. Len(t)
          /\ i - Len(a) + 1 = i - Len(p)
      BY <1>2, <1>3, <1>6, <2>3
    <3> QED
      BY <1>2, <1>4, <1>5, <1>6, <3>1
  <2> QED
    BY <1>6, <2>1, <2>2, <2>3
<1> QED
  BY <1>1, <1>4, <1>5, <1>6, <1>7, SeqEqual

LEMMA SameFunction ==
  ASSUME NEW S, NEW T, NEW f \in [S -> T], NEW g \in [S -> T], \A x \in S : f[x] = g[x]
  PROVE  f = g
  OBVIOUS

\* Where the threads did not run into each other a whole buffer is queued, at the end.
LEMMA QueuesOne ==
  ASSUME TypesInv, ~overlap', V!EnqueueEnds \/ V!StopEnqueueEnds
  PROVE  Grown(new_batch)
<1>1. ~overlap /\ ~racing /\ UNCHANGED popped /\ new_batch \in V!Batches
  BY DEF TypesInv, ThreadsInv, V!TypeOK, V!EnqueueEnds, V!StopEnqueueEnds
<1>2. CASE V!EnqueueEnds
  <2>1. RecordingRawData' = Append(RecordingRawData, new_batch)
    BY <1>1, <1>2 DEF V!EnqueueEnds, V!Enqueued
  <2> QED
    BY <1>1, <2>1, HistGrows
<1>3. CASE V!StopEnqueueEnds
  <2>1. PICK b \in V!Copies : RecordingRawData' = Append(RecordingRawData, b)
    BY <1>1, <1>3 DEF V!StopEnqueueEnds, V!Enqueued
  <2>2. V!Written = new_batch
    BY <1>1, <1>3 DEF TypesInv, ThreadsInv, V!StopEnqueueEnds, V!Written
  <2>3. /\ b.n = new_batch.n /\ b.data \in [1 .. MaxSamples -> 0 .. MaxCaptured]
        /\ \A i \in 1 .. MaxSamples : b.data[i] = new_batch.data[i]
        /\ b = [n |-> b.n, data |-> b.data]
    BY <2>2 DEF V!Copies
  <2>4. new_batch.data \in [1 .. MaxSamples -> 0 .. MaxCaptured] /\ new_batch = [n |-> new_batch.n, data |-> new_batch.data]
    BY <1>1 DEF V!Batches
  <2>5. b.data = new_batch.data
    <3> DEFINE S == 1 .. MaxSamples
               T == 0 .. MaxCaptured
               f == b.data
               g == new_batch.data
    <3>1. f \in [S -> T] /\ g \in [S -> T] /\ \A i \in S : f[i] = g[i]
      BY <2>3, <2>4
    <3> HIDE DEF f, g, S, T
    <3>2. f = g
      BY <3>1, SameFunction
    <3> QED
      BY <3>2 DEF f, g
  <2>6. b = new_batch
    BY <2>3, <2>4, <2>5
  <2> QED
    BY <1>1, <2>1, <2>6, HistGrows
<1> QED
  BY <1>2, <1>3

--------------------------------------------------------------------------------
(* No sample is lost. *)

LEMMA SampleStays ==
  ASSUME SampleInv, Hist' = Hist, UNCHANGED <<new_batch, arriving, captured, cut>>,
         audio' = "queued" => audio = "queued"
  PROVE  SampleInv'
  BY DEF SampleInv, Filling, Queued

LEMMA SampleQueued ==
  ASSUME TypesInv, SampleInv, Grown(new_batch), UNCHANGED <<new_batch, arriving, captured, cut>>
  PROVE  SampleInv'
<1>1. Len(Hist) \in Nat /\ DOMAIN Hist = 1 .. Len(Hist)
  BY HistType
<1>2. Queued \subseteq Queued' /\ new_batch \in Queued'
  <2>1. Queued' = {Hist'[j] : j \in DOMAIN Hist'}
    BY DEF Queued
  <2>2. \A j \in DOMAIN Hist : j \in DOMAIN Hist' /\ Hist'[j] = Hist[j]
    BY <1>1 DEF Grown
  <2>3. Len(Hist) + 1 \in DOMAIN Hist' /\ Hist'[Len(Hist) + 1] = new_batch
    BY <1>1 DEF Grown
  <2> QED
    BY <2>1, <2>2, <2>3 DEF Queued
<1> HIDE DEF Queued
<1> QED
  BY <1>2 DEF SampleInv, Filling

LEMMA SampleStep ==
  ASSUME TypesInv, VoiceStep, ~overlap', SampleInv
  PROVE  SampleInv'
<1>1. CASE V!StartRecording \/ V!StopRecording \/ V!StopEnqueueBegins \/ V!EnqueueBegins \/ UNCHANGED voiceVars
  BY <1>1, SampleStays
     DEF V!StartRecording, V!StopRecording, V!StopEnqueueBegins, V!EnqueueBegins, voiceVars, Hist, V!History
<1>2. CASE V!Tick
  BY <1>2, SampleStays, HistStays DEF V!Tick
<1>3. CASE V!EnqueueEnds \/ V!StopEnqueueEnds
  BY <1>3, QueuesOne, SampleQueued DEF V!EnqueueEnds, V!StopEnqueueEnds
<1>4. CASE V!ResetBatch
  <2>1. /\ audio = "queued" /\ audio' = "idle" /\ Queued' = Queued
        /\ UNCHANGED <<arriving, captured, cut>>
    BY <1>4 DEF V!ResetBatch, Queued, Hist, V!History
  <2>2. new_batch.n \in 0 .. MaxSamples /\ new_batch \in Queued
    BY <2>1 DEF SampleInv, TypesInv, V!TypeOK, V!Batches
  <2>3. \A c \in Filling : \E b \in Queued : \E i \in 1 .. b.n : c = b.data[i]
    BY <2>2 DEF Filling
  <2> HIDE DEF Queued, Filling
  <2> QED
    BY <2>1, <2>3 DEF SampleInv
<1>5. ASSUME NEW k \in Chunks, V!OnNewSubmixBuffer(k) PROVE SampleInv'
  <2>1. /\ captured \in Nat /\ k \in Nat /\ captured' = captured + k /\ audio' = "called"
        /\ arriving' = [i \in 1 .. k |-> captured + i] /\ arriving = << >>
        /\ Queued' = Queued /\ Filling' = Filling /\ cut' = cut
    BY <1>5, InformantAssumption
       DEF V!OnNewSubmixBuffer, TypesInv, ThreadsInv, V!TypeOK, Queued, Filling, Hist, V!History
  <2>2. ASSUME NEW c \in 1 .. captured', c \notin 1 .. captured PROVE \E i \in DOMAIN arriving' : c = arriving'[i]
    <3>1. c - captured \in 1 .. k /\ c = captured + (c - captured)
      BY <2>1, <2>2
    <3> QED
      BY <2>1, <3>1
  <2>3. DOMAIN arriving = {}
    BY <2>1
  <2> HIDE DEF Queued, Filling
  <2> QED
    BY <2>1, <2>2, <2>3 DEF SampleInv
<1>6. CASE V!AppendBegins
  <2>1. audio' = "appending" /\ Queued' = Queued /\ Filling' = Filling /\ captured' = captured
    BY <1>6 DEF V!AppendBegins, Queued, Filling, Hist, V!History
  <2>2. /\ DOMAIN arriving = 1 .. Len(arriving) /\ Len(arriving) \in Nat /\ captured \in Nat
        /\ V!Room \in Nat /\ V!Room <= Len(arriving)
        /\ arriving' \in Seq(1 .. captured) /\ Len(arriving') = V!Room
    BY <1>6, CutIs, RoomIs, LenProperties DEF TypesInv, V!TypeOK
  <2>3. DOMAIN arriving' = 1 .. V!Room
    BY <2>2, LenProperties
  <2>4. ASSUME NEW i \in DOMAIN arriving
        PROVE  arriving[i] \in cut' \/ \E j \in DOMAIN arriving' : arriving[i] = arriving'[j]
    <3>1. CASE i <= V!Room
      <4>1. i \in 1 .. V!Room
        BY <2>2, <3>1
      <4> QED
        BY <1>6, <2>3, <4>1, CutIs
    <3>2. CASE ~(i <= V!Room)
      <4>1. /\ arriving[i] = captured - Len(arriving) + i /\ Len(arriving) <= captured
            /\ cut' = cut \cup (captured - Len(arriving) + V!Room + 1 .. captured)
        BY <1>6, <2>2, CutIs
      <4> HIDE DEF V!Room
      <4>2. arriving[i] \in captured - Len(arriving) + V!Room + 1 .. captured
        BY <2>2, <3>2, <4>1
      <4> QED
        BY <4>1, <4>2
    <3> QED
      BY <3>1, <3>2
  <2>5. cut \subseteq cut'
    BY <1>6, CutIs
  <2> HIDE DEF Queued, Filling
  <2> QED
    BY <2>1, <2>4, <2>5 DEF SampleInv
<1>7. CASE V!AppendEnds
  <2>1. /\ audio' # "queued" /\ Queued' = Queued /\ captured' = captured /\ cut' = cut
        /\ new_batch' = V!Filled(new_batch) /\ audio = "appending"
    BY <1>7 DEF V!AppendEnds, Queued, Hist, V!History
  <2>2. /\ new_batch'.n = new_batch.n + Len(arriving)
        /\ \A i \in 1 .. MaxSamples : new_batch'.data[i] = IF i - new_batch.n \in DOMAIN arriving
                                                           THEN arriving[i - new_batch.n] ELSE new_batch.data[i]
        /\ new_batch.n \in Nat /\ Len(arriving) \in Nat /\ DOMAIN arriving = 1 .. Len(arriving)
        /\ new_batch.n + Len(arriving) <= MaxSamples
    BY <2>1, FilledIs, LenProperties DEF TypesInv, V!TypeOK, V!Batches
  <2>3. ASSUME NEW c \in Filling PROVE c \in Filling'
    <3>1. PICK i \in 1 .. new_batch.n : c = new_batch.data[i]
      BY DEF Filling
    <3>2. /\ i \in 1 .. MaxSamples /\ i \in 1 .. new_batch.n + Len(arriving)
          /\ i - new_batch.n \notin 1 .. Len(arriving)
      BY <2>2, <3>1, InformantAssumption
    <3>3. new_batch'.data[i] = c /\ i \in 1 .. new_batch'.n
      BY <2>2, <3>1, <3>2
    <3> QED
      BY <3>3 DEF Filling
  <2>4. ASSUME NEW i \in DOMAIN arriving PROVE arriving[i] \in Filling'
    <3>1. /\ new_batch.n + i \in 1 .. MaxSamples /\ new_batch.n + i \in 1 .. new_batch.n + Len(arriving)
          /\ (new_batch.n + i) - new_batch.n = i
      BY <2>2, InformantAssumption
    <3>2. new_batch'.data[new_batch.n + i] = arriving[i] /\ new_batch.n + i \in 1 .. new_batch'.n
      BY <2>2, <3>1
    <3> QED
      BY <3>2 DEF Filling
  <2> HIDE DEF Queued, Filling
  <2> QED
    BY <2>1, <2>3, <2>4 DEF SampleInv
<1> QED
  BY <1>1, <1>2, <1>3, <1>4, <1>5, <1>6, <1>7 DEF VoiceStep, V!AudioNext, V!StopNext

--------------------------------------------------------------------------------
(* The order of the sound. *)

LEMMA BatchIs ==
  ASSUME NEW b \in V!Batches
  PROVE  b.n \in Nat /\ b.n <= MaxSamples /\ \A i \in 1 .. MaxSamples : b.data[i] \in Nat
  BY InformantAssumption DEF V!Batches

LEMMA RepeatedType ==
  ASSUME TypesInv
  PROVE  Repeated \subseteq 1 .. Len(Hist) /\ IsFiniteSet(Repeated) /\ Cardinality(Repeated) \in Nat
<1>1. Repeated \subseteq 1 .. Len(Hist) /\ Len(Hist) \in Nat
  BY HistType DEF Repeated
<1>2. IsFiniteSet(1 .. Len(Hist))
  BY <1>1, FS_Interval
<1>3. IsFiniteSet(Repeated)
  BY <1>1, <1>2, FS_Subset
<1> QED
  BY <1>1, <1>3, FS_CardinalityType

\* A step that queues nothing and after which every buffer is still a beginning of what
\* is being filled, or older.
LEMMA OrderStays ==
  ASSUME TypesInv, OrderInv, Hist' = Hist, Owed' => Owed, Released' = Released,
         \A j \in DOMAIN Hist : Hist[j].n > 0 => Past(Hist[j])' \/ Begins(Hist[j], new_batch)'
  PROVE  OrderInv'
<1>1. Repeated' = Repeated
  BY DEF Repeated, Older
<1>2. \A j \in DOMAIN Hist' : Hist'[j].n > 0 => Past(Hist[j])' \/ Begins(Hist[j], new_batch)'
  OBVIOUS
<1>3. \A j \in DOMAIN Hist' : \A i \in 1 .. j - 1 :
        Hist'[i].n > 0 /\ Hist'[j].n > 0 => Older(Hist'[i], Hist'[j]) \/ Begins(Hist'[i], Hist'[j])
  BY DEF OrderInv
<1>4. Cardinality(Repeated) + (IF Owed' THEN 1 ELSE 0) <= Released
  <2>1. Cardinality(Repeated) \in Nat /\ Cardinality(Repeated) + (IF Owed THEN 1 ELSE 0) <= Released
    BY RepeatedType DEF OrderInv
  <2>2. Released \in Int
    BY InformantAssumption DEF Released, TypesInv, V!TypeOK
  <2> QED
    BY <2>1, <2>2
<1> QED
  BY <1>1, <1>2, <1>3, <1>4 DEF OrderInv, Begins, Older

\* What is queued repeats an older buffer only if that is a beginning of it.
LEMMA RepeatedGrows ==
  ASSUME TypesInv, OrderInv, Grown(new_batch)
  PROVE  /\ Cardinality(Repeated') \in Nat
         /\ Cardinality(Repeated') <= Cardinality(Repeated) + 1
         /\ ~(\E j \in DOMAIN Hist : Hist[j].n > 0 /\ Begins(Hist[j], new_batch))
              => Cardinality(Repeated') = Cardinality(Repeated)
<1> DEFINE n == Len(Hist)
           Some == \E j \in DOMAIN Hist : Hist[j].n > 0 /\ Begins(Hist[j], new_batch)
<1>1. n \in Nat /\ DOMAIN Hist = 1 .. n
  BY HistType
<1>2. /\ DOMAIN Hist' = 1 .. n + 1
      /\ \A j \in 1 .. n : Hist'[j] = Hist[j]
      /\ Hist'[n + 1] = new_batch
  BY DEF Grown
<1> HIDE DEF n
<1>3. ASSUME NEW j \in 1 .. n PROVE j \in Repeated' <=> j \in Repeated
  <2>1. j \in DOMAIN Hist /\ j \in DOMAIN Hist' /\ Hist'[j] = Hist[j]
    BY <1>1, <1>2
  <2>2. \A i \in 1 .. j - 1 : Hist'[i] = Hist[i]
    BY <1>1, <1>2
  <2> QED
    BY <2>1, <2>2 DEF Repeated, Older
<1>4. Repeated' \subseteq 1 .. n + 1 /\ Repeated \subseteq 1 .. n
  BY <1>1, <1>2 DEF Repeated
<1>5. ASSUME n + 1 \in Repeated' PROVE Some
  <2>1. PICK i \in 1 .. (n + 1) - 1 : Hist'[i].n > 0 /\ Hist'[n + 1].n > 0 /\ ~Older(Hist'[i], Hist'[n + 1])
    BY <1>5 DEF Repeated, Older
  <2>2. i \in 1 .. n /\ Hist[i].n > 0 /\ new_batch.n > 0 /\ ~Older(Hist[i], new_batch)
    BY <1>1, <1>2, <2>1
  <2>3. ~Past(Hist[i])
    <3>1. 1 \in 1 .. new_batch.n
      BY <2>2, BatchIs DEF TypesInv, V!TypeOK
    <3> QED
      BY <2>2, <3>1 DEF Past, Older
  <2> QED
    BY <1>1, <2>2, <2>3 DEF OrderInv
<1>6. Repeated' = Repeated \/ (Some /\ Repeated' = Repeated \cup {n + 1})
  <2>1. \A j \in 1 .. n + 1 : j \in 1 .. n \/ j = n + 1
    BY <1>1
  <2> HIDE DEF Some
  <2> QED
    BY <1>3, <1>4, <1>5, <2>1
<1>7. n + 1 \notin Repeated
  BY <1>1, <1>4
<1>8. /\ IsFiniteSet(Repeated) /\ Cardinality(Repeated) \in Nat
      /\ Cardinality(Repeated \cup {n + 1}) = Cardinality(Repeated) + 1
  BY <1>7, RepeatedType, FS_AddElement
<1> HIDE DEF Some
<1>9. /\ Cardinality(Repeated') \in Nat /\ Cardinality(Repeated') <= Cardinality(Repeated) + 1
      /\ ~Some => Cardinality(Repeated') = Cardinality(Repeated)
  BY <1>6, <1>8
<1> QED
  BY <1>9 DEF Some

LEMMA OrderQueued ==
  ASSUME TypesInv, OrderInv, Grown(new_batch), UNCHANGED <<new_batch, arriving, captured>>,
         Cardinality(Repeated') + (IF Owed' THEN 1 ELSE 0) <= Released'
  PROVE  OrderInv'
<1> DEFINE n == Len(Hist)
<1>1. n \in Nat /\ DOMAIN Hist = 1 .. n /\ new_batch.n \in Nat
  BY HistType, BatchIs DEF TypesInv, V!TypeOK
<1>2. /\ DOMAIN Hist' = 1 .. n + 1
      /\ \A j \in 1 .. n : Hist'[j] = Hist[j]
      /\ Hist'[n + 1] = new_batch
  BY DEF Grown
<1> HIDE DEF n
<1>3. \A j \in 1 .. n + 1 : j \in 1 .. n \/ j = n + 1
  BY <1>1
<1>4. ASSUME NEW j \in DOMAIN Hist', Hist'[j].n > 0 PROVE Past(Hist[j])' \/ Begins(Hist[j], new_batch)'
  <2>1. CASE j \in 1 .. n
    <3>1. Hist'[j] = Hist[j] /\ (Past(Hist[j]) \/ Begins(Hist[j], new_batch))
      BY <1>1, <1>2, <1>4, <2>1 DEF OrderInv
    <3> QED
      BY <3>1 DEF Past, Begins
  <2>2. CASE j = n + 1
    BY <1>1, <1>2, <2>2 DEF Begins
  <2> QED
    BY <1>2, <1>3, <2>1, <2>2
<1>5. ASSUME NEW j \in DOMAIN Hist', NEW i \in 1 .. j - 1, Hist'[i].n > 0, Hist'[j].n > 0
      PROVE  Older(Hist'[i], Hist'[j]) \/ Begins(Hist'[i], Hist'[j])
  <2>1. i \in 1 .. n /\ Hist'[i] = Hist[i]
    BY <1>1, <1>2
  <2>2. CASE j \in 1 .. n
    BY <1>1, <1>2, <1>5, <2>1, <2>2 DEF OrderInv
  <2>3. CASE j = n + 1
    <3>1. Hist'[j] = new_batch /\ 1 \in 1 .. new_batch.n
      BY <1>1, <1>2, <1>5, <2>3
    <3>2. Past(Hist[i]) \/ Begins(Hist[i], new_batch)
      BY <1>1, <1>5, <2>1 DEF OrderInv
    <3> QED
      BY <2>1, <3>1, <3>2 DEF Past, Older
  <2> QED
    BY <1>2, <1>3, <2>2, <2>3
<1> QED
  BY <1>4, <1>5 DEF OrderInv, Begins, Older

\* A step that touches neither the history nor the buffer being filled nor what arrives.
LEMMA OrderUntouched ==
  ASSUME TypesInv, OrderInv, Hist' = Hist, UNCHANGED <<new_batch, arriving, captured>>,
         audio' = "queued" <=> audio = "queued", Released' = Released
  PROVE  OrderInv'
<1>1. Owed' => Owed
  BY DEF Owed, Begins
<1>2. \A j \in DOMAIN Hist : Hist[j].n > 0 => Past(Hist[j])' \/ Begins(Hist[j], new_batch)'
  BY DEF OrderInv, Past, Begins
<1> QED
  BY <1>1, <1>2, OrderStays

\* What Append does to the buffer being filled: what it held it holds still, what is
\* new was arriving.
LEMMA FillingGrows ==
  ASSUME TypesInv, V!AppendEnds
  PROVE  /\ new_batch.n \in Nat /\ new_batch'.n \in Nat /\ new_batch.n <= new_batch'.n
         /\ \A i \in 1 .. new_batch.n : new_batch'.data[i] = new_batch.data[i]
         /\ \A i \in 1 .. new_batch'.n : \/ i \in 1 .. new_batch.n
                                         \/ \E l \in DOMAIN arriving : new_batch'.data[i] = arriving[l]
<1>1. /\ new_batch'.n = new_batch.n + Len(arriving)
      /\ \A i \in 1 .. MaxSamples : new_batch'.data[i] = IF i - new_batch.n \in DOMAIN arriving
                                                         THEN arriving[i - new_batch.n] ELSE new_batch.data[i]
  BY FilledIs DEF V!AppendEnds, TypesInv
<1>2. /\ new_batch.n \in Nat /\ Len(arriving) \in Nat /\ DOMAIN arriving = 1 .. Len(arriving)
      /\ new_batch.n + Len(arriving) <= MaxSamples /\ MaxSamples \in Nat
  BY LenProperties, InformantAssumption DEF TypesInv, V!TypeOK, V!Batches, V!AppendEnds
<1>3. ASSUME NEW i \in 1 .. new_batch.n PROVE new_batch'.data[i] = new_batch.data[i]
  <2>1. i \in 1 .. MaxSamples /\ i - new_batch.n \notin 1 .. Len(arriving)
    BY <1>2
  <2> QED
    BY <1>1, <1>2, <2>1
<1>4. ASSUME NEW i \in 1 .. new_batch'.n, i \notin 1 .. new_batch.n
      PROVE  \E l \in DOMAIN arriving : new_batch'.data[i] = arriving[l]
  <2>1. i \in 1 .. MaxSamples /\ i - new_batch.n \in 1 .. Len(arriving)
    BY <1>1, <1>2, <1>4
  <2> QED
    BY <1>1, <1>2, <2>1
<1> QED
  BY <1>1, <1>2, <1>3, <1>4

LEMMA OrderStep ==
  ASSUME TypesInv, TypesInv', VoiceStep, ~overlap', OrderInv
  PROVE  OrderInv'
<1>0. captured \in Nat /\ presses \in Nat /\ \A j \in DOMAIN Hist : Hist[j] \in V!Batches
  BY HistType, InformantAssumption DEF TypesInv, V!TypeOK
<1>1. CASE V!StartRecording \/ V!StopRecording \/ V!StopEnqueueBegins \/ V!EnqueueBegins \/ UNCHANGED voiceVars
  <2>1. /\ Hist' = Hist /\ UNCHANGED <<new_batch, arriving, captured>>
        /\ audio' = "queued" <=> audio = "queued"
    BY <1>1 DEF V!StartRecording, V!StopRecording, V!StopEnqueueBegins, V!EnqueueBegins, voiceVars,
                Hist, V!History
  <2>2. Released' = Released
    BY <1>0, <1>1 DEF V!StartRecording, V!StopRecording, V!StopEnqueueBegins, V!EnqueueBegins, voiceVars, Released
  <2> QED
    BY <2>1, <2>2, OrderUntouched
<1>2. CASE V!Tick
  <2>1. UNCHANGED <<new_batch, arriving, captured, audio, bIsRecording, game, presses>>
    BY <1>2 DEF V!Tick
  <2>2. Released' = Released
    BY <2>1 DEF Released
  <2> QED
    BY <1>2, <2>1, <2>2, HistStays, OrderUntouched
<1>3. CASE V!EnqueueEnds \/ V!StopEnqueueEnds
  <2>1. Grown(new_batch) /\ UNCHANGED <<new_batch, arriving, captured>>
    BY <1>3, QueuesOne DEF V!EnqueueEnds, V!StopEnqueueEnds
  <2> DEFINE before == Cardinality(Repeated)
             after  == Cardinality(Repeated')
             Some   == \E j \in DOMAIN Hist : Hist[j].n > 0 /\ Begins(Hist[j], new_batch)
  <2>2. /\ before \in Nat /\ after \in Nat /\ after <= before + 1 /\ (~Some => after = before)
        /\ before + (IF Owed THEN 1 ELSE 0) <= Released
    BY <2>1, RepeatedType, RepeatedGrows DEF OrderInv
  <2>3. Owed <=> audio # "queued" /\ Some
    BY DEF Owed
  <2> HIDE DEF before, after, Some
  <2>4. after + (IF Owed' THEN 1 ELSE 0) <= Released'
    <3>1. CASE V!EnqueueEnds
      <4>1. ~Owed' /\ audio # "queued" /\ Released' = Released
        BY <3>1 DEF V!EnqueueEnds, Owed, Released
      <4>2. Released \in Int
        BY <1>0 DEF Released
      <4> QED
        BY <2>2, <2>3, <4>1, <4>2
    <3>2. CASE V!StopEnqueueEnds
      <4>1. Released' = Released + 1 /\ Released \in Int /\ audio' = audio
        BY <1>0, <3>2 DEF V!StopEnqueueEnds, Released, TypesInv, ThreadsInv
      <4>2. audio = "queued" => ~Owed'
        BY <4>1 DEF Owed
      <4> QED
        BY <2>2, <2>3, <4>1, <4>2
    <3> QED
      BY <1>3, <3>1, <3>2
  <2> QED
    BY <2>1, <2>4, OrderQueued DEF after
<1>4. CASE V!ResetBatch
  <2>1. /\ audio = "queued" /\ Hist' = Hist /\ Released' = Released /\ new_batch'.n = 0
        /\ arriving' = << >> /\ captured' = captured
    BY <1>4 DEF V!ResetBatch, Hist, V!History, Released, TypesInv, ThreadsInv, V!TypeOK, V!Batches
  <2>2. ~Owed'
    <3>1. \A j \in DOMAIN Hist : Hist[j].n \in Nat
      BY <1>0, BatchIs
    <3> QED
      BY <2>1, <3>1 DEF Owed, Begins
  <2>3. ASSUME NEW j \in DOMAIN Hist, Hist[j].n > 0 PROVE Past(Hist[j])'
    <3> DEFINE g == Hist[j]
    <3>1. g \in V!Batches /\ (Past(g) \/ Begins(g, new_batch))
      BY <1>0, <2>3 DEF OrderInv
    <3>2. g.n \in 1 .. g.n /\ g.n \in 1 .. MaxSamples
      BY <1>0, <2>3, BatchIs
    <3>3. g.data[g.n] <= captured
      <4>1. CASE Past(g)
        BY <4>1 DEF Past
      <4>2. CASE Begins(g, new_batch)
        BY <3>2, <4>2 DEF Begins, TypesInv, ThreadsInv
      <4> QED
        BY <3>1, <4>1, <4>2
    <3>4. /\ g' = g /\ DOMAIN arriving' = {}
          /\ \A i \in 1 .. new_batch'.n : FALSE
      BY <2>1
    <3> HIDE DEF g
    <3>5. Past(g)'
      BY <2>1, <3>3, <3>4 DEF Past
    <3> QED
      BY <3>5 DEF g
  <2> QED
    BY <2>1, <2>2, <2>3, OrderStays
<1>5. ASSUME NEW k \in Chunks, V!OnNewSubmixBuffer(k) PROVE OrderInv'
  <2>1. /\ Hist' = Hist /\ Released' = Released /\ new_batch' = new_batch
        /\ audio = "idle" /\ audio' = "called" /\ k \in Nat
        /\ captured' = captured + k /\ arriving' = [i \in 1 .. k |-> captured + i]
    BY <1>5, InformantAssumption DEF V!OnNewSubmixBuffer, Hist, V!History, Released
  <2>2. Owed' => Owed
    BY <2>1 DEF Owed, Begins
  <2>3. ASSUME NEW j \in DOMAIN Hist, Hist[j].n > 0, Past(Hist[j]) PROVE Past(Hist[j])'
    <3>1. /\ Hist[j].data[Hist[j].n] \in Nat
      <4>1. Hist[j].n \in 1 .. MaxSamples
        BY <1>0, <2>3, BatchIs
      <4> QED
        BY <1>0, <4>1, BatchIs
    <3>2. /\ Hist[j].data[Hist[j].n] <= captured + k
          /\ \A i \in DOMAIN arriving' : Hist[j].data[Hist[j].n] < arriving'[i]
      BY <1>0, <2>1, <2>3, <3>1 DEF Past
    <3> QED
      BY <2>1, <2>3, <3>2 DEF Past
  <2>4. \A j \in DOMAIN Hist : Hist[j].n > 0 => Past(Hist[j])' \/ Begins(Hist[j], new_batch)'
    BY <2>1, <2>3 DEF OrderInv, Begins
  <2> QED
    BY <2>1, <2>2, <2>4, OrderStays
<1>6. CASE V!AppendBegins
  <2>1. /\ Hist' = Hist /\ Released' = Released /\ UNCHANGED <<new_batch, captured>>
        /\ audio = "called" /\ audio' = "appending"
    BY <1>6 DEF V!AppendBegins, Hist, V!History, Released
  <2>2. \A i \in DOMAIN arriving' : i \in DOMAIN arriving /\ arriving'[i] = arriving[i]
    <3>1. /\ DOMAIN arriving' = 1 .. V!Room /\ DOMAIN arriving = 1 .. Len(arriving)
          /\ \A i \in 1 .. V!Room : arriving'[i] = arriving[i]
      BY <1>6, CutIs, LenProperties DEF TypesInv, V!TypeOK
    <3>2. V!Room \in Nat /\ V!Room <= Len(arriving) /\ Len(arriving) \in Nat
      BY RoomIs, LenProperties DEF TypesInv, V!TypeOK
    <3> HIDE DEF V!Room
    <3> QED
      BY <3>1, <3>2
  <2>3. Owed' => Owed
    BY <2>1 DEF Owed, Begins
  <2>4. \A j \in DOMAIN Hist : Hist[j].n > 0 => Past(Hist[j])' \/ Begins(Hist[j], new_batch)'
    BY <2>1, <2>2 DEF OrderInv, Past, Begins
  <2> QED
    BY <2>1, <2>3, <2>4, OrderStays
<1>7. CASE V!AppendEnds
  <2>1. /\ Hist' = Hist /\ Released' = Released /\ captured' = captured /\ arriving' = << >>
        /\ audio = "appending" /\ audio' # "queued"
    BY <1>7 DEF V!AppendEnds, Hist, V!History, Released
  <2>2. /\ new_batch.n \in Nat /\ new_batch'.n \in Nat /\ new_batch.n <= new_batch'.n
        /\ \A i \in 1 .. new_batch.n : new_batch'.data[i] = new_batch.data[i]
        /\ \A i \in 1 .. new_batch'.n : \/ i \in 1 .. new_batch.n
                                        \/ \E l \in DOMAIN arriving : new_batch'.data[i] = arriving[l]
    BY <1>7, FillingGrows
  <2>3. ASSUME NEW j \in DOMAIN Hist, Hist[j].n > 0
        PROVE  /\ Past(Hist[j]) => Past(Hist[j])'
               /\ Begins(Hist[j], new_batch) => Begins(Hist[j], new_batch)'
               /\ Past(Hist[j])' => ~Begins(Hist[j], new_batch)'
    <3> DEFINE g == Hist[j]
    <3>1. g' = g /\ g \in V!Batches /\ DOMAIN arriving' = {}
      BY <1>0, <2>1
    <3> HIDE DEF g
    <3>2. g.n \in Nat /\ g.n > 0 /\ g.data[g.n] \in Nat
      <4>1. g.n \in Nat /\ g.n \in 1 .. MaxSamples
        BY <2>3, <3>1, BatchIs DEF g
      <4> QED
        BY <3>1, <4>1, BatchIs
    <3>3. Past(g) => Past(g)'
      BY <2>1, <2>2, <3>1 DEF Past
    <3>4. Begins(g, new_batch) => Begins(g, new_batch)'
      BY <2>2, <3>1, <3>2 DEF Begins
    <3>5. Past(g)' => ~Begins(g, new_batch)'
      <4> SUFFICES ASSUME Past(g)', Begins(g, new_batch)' PROVE FALSE
        OBVIOUS
      <4>1. g.n \in 1 .. g.n /\ g.n \in 1 .. new_batch'.n
        BY <2>2, <3>1, <3>2 DEF Begins
      <4>2. g.data[g.n] < new_batch'.data[g.n] /\ g.data[g.n] = new_batch'.data[g.n]
        BY <3>1, <4>1 DEF Past, Begins
      <4> QED
        BY <3>2, <4>2
    <3> QED
      BY <3>3, <3>4, <3>5 DEF g
  <2>4. \A j \in DOMAIN Hist : Hist[j].n > 0 => Past(Hist[j])' \/ Begins(Hist[j], new_batch)'
    BY <2>3 DEF OrderInv
  <2>5. Owed' => Owed
    <3> SUFFICES ASSUME NEW j \in DOMAIN Hist, Hist[j].n > 0, Begins(Hist[j], new_batch)' PROVE Owed
      BY <2>1 DEF Owed, Begins
    <3>1. Past(Hist[j]) \/ Begins(Hist[j], new_batch)
      BY DEF OrderInv
    <3>2. Begins(Hist[j], new_batch)
      BY <2>3, <3>1
    <3> QED
      BY <2>1, <3>2 DEF Owed
  <2> QED
    BY <2>1, <2>4, <2>5, OrderStays
<1> QED
  BY <1>1, <1>2, <1>3, <1>4, <1>5, <1>6, <1>7 DEF VoiceStep, V!AudioNext, V!StopNext

--------------------------------------------------------------------------------

LEMMA VoiceInit == Init => VoiceInv
<1> SUFFICES ASSUME Init PROVE VoiceInv
  OBVIOUS
<1>1. /\ popped = << >> /\ RecordingRawData = << >> /\ arriving = << >> /\ new_batch = V!Unwritten
      /\ captured = 0 /\ presses = 0 /\ audio = "idle" /\ game = "idle"
      /\ ~bIsRecording /\ ~racing /\ ~overlap /\ cut = {}
      /\ bIsRecording \in BOOLEAN /\ racing \in BOOLEAN /\ overlap \in BOOLEAN
  BY DEF Init, V!Init
<1>2. V!Unwritten \in V!Batches /\ \A i \in 1 .. MaxSamples : V!Unwritten.data[i] = 0
  BY InformantAssumption DEF V!Unwritten, V!Batches
<1>3. << >> \in Seq(V!Batches) /\ << >> \in Seq(1 .. captured) /\ << >> \o << >> = << >>
  OBVIOUS
<1> HIDE DEF V!Batches, V!Unwritten
<1>4. V!TypeOK
  BY <1>1, <1>2, <1>3, InformantAssumption DEF V!TypeOK
<1>5. ThreadsInv
  BY <1>1, <1>2 DEF ThreadsInv
<1>6. Hist = << >> /\ DOMAIN Hist = {}
  BY <1>1, <1>3 DEF Hist, V!History
<1>7. SampleInv
  BY <1>1 DEF SampleInv
<1>8. OrderInv
  <2>1. Repeated = {}
    BY <1>6 DEF Repeated
  <2>2. Cardinality(Repeated) = 0
    BY <2>1, FS_EmptySet
  <2>3. ~Owed /\ Released = 0
    BY <1>1, <1>6 DEF Owed, Released
  <2> QED
    BY <1>6, <2>2, <2>3 DEF OrderInv
<1> QED
  BY <1>4, <1>5, <1>7, <1>8 DEF VoiceInv, TypesInv

\* What the recorder relies on in every state, the properties below among it.
THEOREM VoiceInvariance == Spec => []VoiceInv
<1>1. Init => VoiceInv
  BY VoiceInit
<1>2. VoiceInv /\ [Next]_vars => VoiceInv'
  <2> SUFFICES ASSUME VoiceInv, [Next]_vars PROVE VoiceInv'
    OBVIOUS
  <2>1. VoiceStep
    BY VoiceMoves
  <2>2. TypesInv /\ TypesInv'
    BY <2>1, TypesStep DEF VoiceInv, TypesInv
  <2>3. overlap => overlap'
    BY <2>1 DEF VoiceStep, V!Tick, V!StartRecording, V!StopRecording, V!AudioNext, V!AppendBegins, V!AppendEnds,
                V!EnqueueBegins, V!EnqueueEnds, V!ResetBatch, V!StopNext, V!StopEnqueueBegins, V!StopEnqueueEnds,
                V!OnNewSubmixBuffer, voiceVars
  <2>4. ~overlap' => SampleInv' /\ OrderInv'
    BY <2>1, <2>2, <2>3, SampleStep, OrderStep DEF VoiceInv
  <2> QED
    BY <2>2, <2>4 DEF VoiceInv, TypesInv
<1> QED
  BY <1>1, <1>2, PTL DEF Spec

\* What of a buffer was written, as a sequence.
LEMMA ValidIs ==
  ASSUME NEW b \in V!Batches
  PROVE  /\ V!Valid(b) \in Seq(0 .. MaxCaptured) /\ Len(V!Valid(b)) = b.n /\ b.n \in Nat
         /\ \A i \in 1 .. b.n : V!Valid(b)[i] = b.data[i] /\ b.data[i] \in 0 .. MaxCaptured
<1> DEFINE s == SubSeq(b.data, 1, b.n)
<1>1. b.n \in Nat /\ b.n <= MaxSamples /\ 1 \in Int /\ b.n \in Int /\ \A i \in 1 .. b.n : b.data[i] \in 0 .. MaxCaptured
  BY InformantAssumption DEF V!Batches
<1>2. /\ s \in Seq(0 .. MaxCaptured) /\ Len(s) = IF 1 <= b.n THEN b.n - 1 + 1 ELSE 0
      /\ \A i \in 1 .. b.n - 1 + 1 : s[i] = b.data[1 + i - 1]
  BY <1>1, SubSeqProperties
<1> HIDE DEF s
<1>3. Len(s) = b.n /\ \A i \in 1 .. b.n : s[i] = b.data[i]
  BY <1>1, <1>2
<1>4. V!Valid(b) = s
  BY DEF V!Valid, s
<1> QED
  BY <1>1, <1>2, <1>3, <1>4

\* In a run where the two threads never overlapped a captured sample is among those a queued
\* buffer holds or in the one being filled, or was cut off; and whatever the race, a buffer
\* holds no more than it has room for (SubmixRecorder.cpp:74, 83-101), for chunks and
\* buffers of any size.
THEOREM NothingIsLost == Spec => []NothingLost
<1>1. VoiceInv => NothingLost
  <2> SUFFICES ASSUME VoiceInv PROVE NothingLost
    OBVIOUS
  <2>1. V!TypeOK /\ TypesInv
    BY DEF VoiceInv, TypesInv
  <2>2. ASSUME SampleInv, NEW c \in 1 .. captured
        PROVE  c \in cut \cup V!ToSet(arriving) \cup V!ToSet(V!Valid(new_batch))
                     \cup UNION {V!ToSet(V!Valid(V!History[j])) : j \in DOMAIN V!History}
    <3>1. CASE c \in cut
      BY <3>1
    <3>2. CASE c \in Filling
      <4>1. PICK i \in 1 .. new_batch.n : c = new_batch.data[i]
        BY <3>2 DEF Filling
      <4>2. i \in DOMAIN V!Valid(new_batch) /\ V!Valid(new_batch)[i] = c
        BY <2>1, <4>1, ValidIs, LenProperties DEF V!TypeOK
      <4> HIDE DEF V!Valid
      <4>3. c \in V!ToSet(V!Valid(new_batch))
        BY <4>2 DEF V!ToSet
      <4> QED
        BY <4>3
    <3>3. CASE \E i \in DOMAIN arriving : c = arriving[i]
      <4>1. c \in V!ToSet(arriving)
        BY <3>3 DEF V!ToSet
      <4> QED
        BY <4>1
    <3>4. CASE \E b \in Queued : \E i \in 1 .. b.n : c = b.data[i]
      <4>1. PICK j \in DOMAIN Hist : \E i \in 1 .. Hist[j].n : c = Hist[j].data[i]
        BY <3>4 DEF Queued
      <4>2. PICK i \in 1 .. Hist[j].n : c = Hist[j].data[i]
        BY <4>1
      <4>3. Hist[j] \in V!Batches
        BY <2>1, HistType
      <4>4. i \in DOMAIN V!Valid(Hist[j]) /\ V!Valid(Hist[j])[i] = c
        BY <4>2, <4>3, ValidIs, LenProperties
      <4> HIDE DEF V!Valid
      <4>5. c \in V!ToSet(V!Valid(Hist[j]))
        BY <4>4 DEF V!ToSet
      <4> HIDE DEF V!ToSet
      <4>6. c \in UNION {V!ToSet(V!Valid(Hist[l])) : l \in DOMAIN Hist}
        BY <4>5
      <4> QED
        BY <4>6 DEF Hist
    <3> QED
      BY <2>2, <3>1, <3>2, <3>3, <3>4 DEF SampleInv
  <2> QED
    BY <2>1, <2>2 DEF VoiceInv, NothingLost, V!NothingLost
<1> QED
  BY <1>1, VoiceInvariance, PTL

\* In a run where the two threads never overlapped sound is queued in the order of its
\* capture and once, but for the tail that a release queues, full or not, and leaves in
\* new_batch: the buffers that begin with it again are no more than the recordings
\* (SubmixRecorder.cpp:74).
THEOREM OnlyTailsAreTwice == Spec => []OnlyTailsTwice
<1>1. VoiceInv => OnlyTailsTwice
  <2> SUFFICES ASSUME VoiceInv, OrderInv PROVE V!OnlyTailsTwice
    BY DEF VoiceInv, OnlyTailsTwice, V!OnlyTailsTwice
  <2>1. TypesInv /\ \A j \in DOMAIN Hist : Hist[j] \in V!Batches
    BY HistType DEF VoiceInv, TypesInv
  <2>2. ASSUME NEW g \in V!Batches, NEW h \in V!Batches
        PROVE  /\ V!Valid(g) # << >> <=> g.n > 0
               /\ g.n > 0 /\ h.n > 0 => (V!Follows(V!Valid(g), V!Valid(h)) <=> Older(g, h))
               /\ Begins(g, h) => V!IsPrefix(V!Valid(g), V!Valid(h))
    <3> DEFINE s == V!Valid(g)
               t == V!Valid(h)
    <3>1. /\ s \in Seq(0 .. MaxCaptured) /\ Len(s) = g.n /\ g.n \in Nat
          /\ \A i \in 1 .. g.n : s[i] = g.data[i] /\ g.data[i] \in 0 .. MaxCaptured
          /\ t \in Seq(0 .. MaxCaptured) /\ Len(t) = h.n /\ h.n \in Nat /\ \A i \in 1 .. h.n : t[i] = h.data[i]
      BY ValidIs
    <3> HIDE DEF s, t
    <3>2. s # << >> <=> g.n > 0
      BY <3>1, EmptySeq
    <3>3. ASSUME g.n > 0, h.n > 0 PROVE V!Follows(s, t) <=> Older(g, h)
      <4>1. s[g.n] = g.data[g.n] /\ t[1] = h.data[1] /\ t # << >>
        BY <3>1, <3>3
      <4>2. Head(t) = t[1]
        BY <4>1, <3>1
      <4> QED
        BY <3>1, <4>1, <4>2 DEF V!Follows, V!Last, Older
    <3>4. ASSUME Begins(g, h) PROVE V!IsPrefix(s, t)
      <4> DEFINE a == SubSeq(s, 1, g.n)
                 b == SubSeq(t, 1, g.n)
      <4>1. /\ g.n <= h.n /\ 1 \in Int /\ g.n \in Int
            /\ \A i \in 1 .. g.n : s[i] \in 0 .. MaxCaptured /\ t[i] = s[i]
        <5>1. g.n <= h.n /\ \A i \in 1 .. g.n : g.data[i] = h.data[i]
          BY <3>4 DEF Begins
        <5>2. \A i \in 1 .. g.n : s[i] \in 0 .. MaxCaptured /\ i \in 1 .. h.n
          BY <3>1, <5>1
        <5> QED
          BY <3>1, <5>1, <5>2
      <4>2. /\ a \in Seq(0 .. MaxCaptured) /\ Len(a) = IF 1 <= g.n THEN g.n - 1 + 1 ELSE 0
            /\ \A i \in 1 .. g.n - 1 + 1 : a[i] = s[1 + i - 1]
        BY <4>1, SubSeqProperties
      <4>3. /\ b \in Seq(0 .. MaxCaptured) /\ Len(b) = IF 1 <= g.n THEN g.n - 1 + 1 ELSE 0
            /\ \A i \in 1 .. g.n - 1 + 1 : b[i] = t[1 + i - 1]
        BY <4>1, SubSeqProperties
      <4> HIDE DEF a, b
      <4>4. Len(a) = Len(b) /\ Len(a) = g.n /\ \A i \in 1 .. g.n : a[i] = s[i] /\ b[i] = t[i]
        BY <3>1, <4>2, <4>3
      <4>5. a = b
        BY <4>1, <4>2, <4>3, <4>4, SeqEqual
      <4> QED
        BY <3>1, <4>1, <4>5 DEF V!IsPrefix, a, b
    <3> QED
      BY <3>2, <3>3, <3>4 DEF s, t
  <2> HIDE DEF V!Valid, V!Follows, V!IsPrefix, V!Batches
  <2>3. \A j \in DOMAIN Hist : \A i \in 1 .. j - 1 : i \in DOMAIN Hist
    BY <2>1, HistType
  <2>4. V!Repeats = Repeated
    BY <2>1, <2>2, <2>3 DEF V!Repeats, Repeated, Hist
  <2>5. Cardinality(Repeated) <= presses
    <3>1. Cardinality(Repeated) \in Nat /\ presses \in Nat
      BY <2>1, RepeatedType, InformantAssumption DEF TypesInv, V!TypeOK
    <3> QED
      BY <3>1 DEF OrderInv, Released
  <2>6. V!Cardinality(Repeated) = Cardinality(Repeated)
    BY DEF V!Cardinality, Cardinality, V!IsFiniteSet, IsFiniteSet
  <2>7. ASSUME NEW j \in Repeated, NEW i \in 1 .. j - 1, V!Valid(Hist[i]) # << >>
        PROVE  V!Follows(V!Valid(Hist[i]), V!Valid(Hist[j])) \/ V!IsPrefix(V!Valid(Hist[i]), V!Valid(Hist[j]))
    <3>1. j \in DOMAIN Hist /\ i \in DOMAIN Hist /\ Hist[j].n > 0
      BY <2>3 DEF Repeated
    <3>2. Hist[i].n > 0
      BY <2>1, <2>2, <2>7, <3>1
    <3>3. Older(Hist[i], Hist[j]) \/ Begins(Hist[i], Hist[j])
      BY <3>1, <3>2 DEF OrderInv
    <3> QED
      BY <2>1, <2>2, <3>1, <3>2, <3>3
  <2> QED
    BY <2>4, <2>5, <2>6, <2>7 DEF V!OnlyTailsTwice, Hist
<1> QED
  BY <1>1, VoiceInvariance, PTL
================================================================================
