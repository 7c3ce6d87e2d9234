----------------------------- MODULE VoiceRecorder ----------------------------
(***************************************************************************)
(* The informant's voice.  The audio thread calls OnNewSubmixBuffer, which *)
(* fills new_batch and queues it when it is full; the game thread starts   *)
(* and stops the recording (the Record button of the recording menu) and   *)
(* pops one queued buffer per tick to send it to SciVi.  use_queue guards  *)
(* the queue, but not the Enqueue of StopRecording, and nothing guards     *)
(* new_batch.                                                              *)
(*                                                                         *)
(* A sample is its number in the order of capture, 0 a place not written   *)
(* yet.  popped, cut and overlap are the specification's own: the buffers  *)
(* the game thread took, the samples Append had no room for, and whether   *)
(* StopRecording ever ran into the audio thread's own work.                *)
(***************************************************************************)
EXTENDS Naturals, SequencesExt

CONSTANTS MaxSamples,       \* BufferLength, AudioSampleBuffer_MaxSamplesCount
          Chunks,           \* how many samples one callback may bring
          MaxCaptured,      \* bound: samples captured
          MaxPresses        \* bound: recordings

VARIABLES bIsRecording,
          new_batch,            \* NumSamples and RawPCMData
          RecordingRawData,     \* the queue
          audio,                \* where the audio thread is
          arriving,             \* the samples Append is copying
          game,                 \* where the game thread is, in StopRecording
          racing,               \* the two threads' Enqueues ran into each other
          captured, presses, popped, cut, overlap

Batches == [n : 0 .. MaxSamples, data : [1 .. MaxSamples -> 0 .. MaxCaptured]]
Unwritten == [n |-> 0, data |-> [i \in 1 .. MaxSamples |-> 0]]

TypeOK ==
  /\ bIsRecording \in BOOLEAN /\ overlap \in BOOLEAN /\ racing \in BOOLEAN
  /\ new_batch \in Batches
  /\ RecordingRawData \in Seq(Batches) /\ popped \in Seq(Batches)
  /\ audio \in {"idle", "called", "appending", "full", "enqueue", "queued"}
  /\ game \in {"idle", "stopping", "enqueue"}
  /\ captured \in 0 .. MaxCaptured /\ presses \in 0 .. MaxPresses
  /\ cut \subseteq 1 .. captured
  /\ arriving \in Seq(1 .. captured) 
  /\ audio = "appending" => new_batch.n + Len(arriving) <= MaxSamples
  /\ audio \in {"full", "enqueue", "queued"} => new_batch.n = MaxSamples

Init ==
  /\ bIsRecording = FALSE /\ new_batch = Unwritten /\ RecordingRawData = <<>>
  /\ audio = "idle" /\ arriving = <<>> /\ game = "idle"
  /\ captured = 0 /\ presses = 0 /\ popped = <<>> /\ cut = {} /\ overlap = FALSE /\ racing = FALSE

-------------------------------------------------------------------------------
(* The audio thread.                                                       *)

\* The flag is seen set.
OnNewSubmixBuffer(k) ==
  /\ audio = "idle" /\ bIsRecording /\ captured + k <= MaxCaptured
  /\ audio' = "called"
  /\ captured' = captured + k
  /\ arriving' = [i \in 1 .. k |-> captured + i]
  /\ UNCHANGED <<bIsRecording, new_batch, RecordingRawData, game, presses, racing, popped, cut,
                 overlap>>

Room == Min({MaxSamples - new_batch.n, Len(arriving)})

\* Append copies what fits and cuts off the rest.
AppendBegins ==
  /\ audio = "called" /\ audio' = "appending"
  /\ arriving' = SubSeq(arriving, 1, Room)
  /\ cut' = cut \cup (captured - Len(arriving) + Room + 1 .. captured)
  /\ overlap' = (overlap \/ game = "enqueue")
  /\ UNCHANGED <<bIsRecording, new_batch, RecordingRawData, game, captured, presses, racing,
                 popped>>

Filled(b) ==
  [n |-> b.n + Len(arriving),
   data |-> [i \in 1 .. MaxSamples |-> IF i - b.n \in DOMAIN arriving THEN arriving[i - b.n]
                                                                     ELSE b.data[i]]]

AppendEnds ==
  /\ audio = "appending"
  /\ new_batch' = Filled(new_batch)
  /\ arriving' = <<>>
  /\ audio' = IF Filled(new_batch).n >= MaxSamples THEN "full" ELSE "idle"
  /\ UNCHANGED <<bIsRecording, RecordingRawData, game, captured, presses, racing, popped, cut,
                 overlap>>

\* use_queue is taken; the game thread holds it for no longer than a pop.
EnqueueBegins ==
  /\ audio = "full" /\ audio' = "enqueue"
  /\ racing' = (racing \/ game = "enqueue") /\ overlap' = (overlap \/ racing')
  /\ UNCHANGED <<bIsRecording, new_batch, RecordingRawData, arriving, game, captured, presses,
                 popped, cut>>

\* Two Enqueues at a time write one slot or two, and move the head by one or two:
\* the second to end may find its buffer beside the first, in its place, or
\* overwritten by it, or leave a slot behind that nobody wrote.
Raced(q, b) ==
  {Append(q, b), Append(Front(q), b), q} \cup
  {Append(Append(Front(q), w), Unwritten) : w \in {b, Last(q)}}

\* Mutant: the buffer is emptied although it was not queued.
Enqueued_Lost(b, other) == {RecordingRawData}

Enqueued(b, other) ==
  IF racing /\ ~other THEN Raced(RecordingRawData, b) ELSE {Append(RecordingRawData, b)}

EnqueueEnds ==
  /\ audio = "enqueue" /\ audio' = "queued"
  /\ RecordingRawData' \in Enqueued(new_batch, game = "enqueue")
  /\ racing' = (racing /\ game = "enqueue")
  /\ UNCHANGED <<bIsRecording, new_batch, arriving, game, captured, presses, popped, cut, overlap>>

\* Mutant: the buffer is not emptied: the next samples are cut off, the old queued again.
ResetBatch_Forgotten ==
  /\ audio = "queued" /\ audio' = "idle"
  /\ UNCHANGED <<bIsRecording, new_batch, RecordingRawData, arriving, game, captured, presses,
                 racing, popped, cut, overlap>>

ResetBatch ==
  /\ audio = "queued" /\ audio' = "idle"
  /\ new_batch' = [new_batch EXCEPT !.n = 0]
  /\ UNCHANGED <<bIsRecording, RecordingRawData, arriving, game, captured, presses, racing,
                 popped, cut, overlap>>

-------------------------------------------------------------------------------
(* The game thread.                                                        *)

StartRecording ==
  /\ game = "idle" /\ ~bIsRecording /\ presses < MaxPresses
  /\ bIsRecording' = TRUE /\ presses' = presses + 1
  /\ UNCHANGED <<new_batch, RecordingRawData, audio, arriving, game, captured, racing, popped,
                 cut, overlap>>

StopRecording ==
  /\ game = "idle" /\ bIsRecording
  /\ bIsRecording' = FALSE /\ game' = "stopping"
  /\ UNCHANGED <<new_batch, RecordingRawData, audio, arriving, captured, presses, racing, popped,
                 cut, overlap>>

\* It takes no lock, so nothing keeps it from the audio thread's Append or Enqueue.
StopEnqueueBegins ==
  /\ game = "stopping" /\ game' = "enqueue"
  /\ racing' = (racing \/ audio = "enqueue")
  /\ overlap' = (overlap \/ audio \in {"appending", "enqueue"})
  /\ UNCHANGED <<bIsRecording, new_batch, RecordingRawData, audio, arriving, captured, presses,
                 popped, cut>>

Written == IF audio = "appending" THEN Filled(new_batch) ELSE new_batch

\* The copy of new_batch, taken while Append writes: old or new, place by place.
Copies ==
  {[n |-> k, data |-> d] :
     k \in {new_batch.n, Written.n},
     d \in {e \in [1 .. MaxSamples -> 0 .. MaxCaptured] :
              \A i \in 1 .. MaxSamples : e[i] \in {new_batch.data[i], Written.data[i]}}}

StopEnqueueEnds ==
  /\ game = "enqueue" /\ game' = "idle"
  /\ \E b \in Copies : RecordingRawData' \in Enqueued(b, audio = "enqueue")
  /\ racing' = (racing /\ audio = "enqueue")
  /\ UNCHANGED <<bIsRecording, new_batch, audio, arriving, captured, presses, popped, cut,
                 overlap>>

\* One buffer a tick, and only while a recording goes on.
Tick ==
  /\ game = "idle" /\ audio # "enqueue" /\ bIsRecording /\ RecordingRawData # <<>>
  /\ popped' = Append(popped, Head(RecordingRawData))
  /\ RecordingRawData' = Tail(RecordingRawData)
  /\ UNCHANGED <<bIsRecording, new_batch, audio, arriving, game, captured, presses, racing, cut,
                 overlap>>

AudioNext == AppendBegins \/ AppendEnds \/ EnqueueBegins \/ EnqueueEnds \/ ResetBatch
StopNext  == StopEnqueueBegins \/ StopEnqueueEnds
-------------------------------------------------------------------------------
History  == popped \o RecordingRawData
Valid(b) == SubSeq(b.data, 1, b.n)

\* A captured sample is among the ones a queued buffer holds, or in the one being filled,
\* unless Append had no room for it, however often the button is pressed and whenever it is
\* released.  (As long as StopRecording never overlapped the audio thread's Append or
\* Enqueue; when a buffer is sent is not said: nothing sends it between two recordings.)
\* With the types: whatever the race, a buffer never holds more than it has room for.
NothingLost ==
  TypeOK /\ (overlap \/ 1 .. captured \subseteq
    cut \cup ToSet(arriving) \cup ToSet(Valid(new_batch))
        \cup UNION {ToSet(Valid(History[i])) : i \in DOMAIN History})

\* Sound is queued in the order of its capture and once, but for one buffer a release:
\* StopRecording leaves the tail it queues in new_batch, and the next recording begins
\* its first buffer with it, or releases it again.  (Unless the threads overlapped, as above.)
Follows(old, new) == Last(old) < Head(new)
Repeats == {j \in DOMAIN History : \E i \in 1 .. j - 1 :
              /\ Valid(History[i]) # <<>> /\ Valid(History[j]) # <<>>
              /\ ~Follows(Valid(History[i]), Valid(History[j]))}
OnlyTailsTwice ==
  overlap \/ /\ Cardinality(Repeats) <= presses
             /\ \A j \in Repeats : \A i \in 1 .. j - 1 :
                  LET old == Valid(History[i])  new == Valid(History[j]) IN
                    old # <<>> => Follows(old, new) \/ IsPrefix(old, new)

\* While the button is held the queue empties: a buffer is sent in the recording that
\* filled it, and what an earlier one left over before it.
QueueDrains == RecordingRawData # <<>> ~> RecordingRawData = <<>> \/ ~bIsRecording
===============================================================================
