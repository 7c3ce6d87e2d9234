------------------------------- MODULE Informant ------------------------------
(***************************************************************************)
(* ABaseInformant: what one frame of the game does to the informant.  Tick *)
(* looks at the controllers, then sends one recorded buffer; the trigger   *)
(* uses the controller and, over the Record button, starts the recording,  *)
(* whose end is its release.  The gaze of the frame is Board's and         *)
(* Calibration's business.                                                 *)
(***************************************************************************)
EXTENDS Naturals, Sequences

CONSTANTS Hands, Poses, MCNoActionTimeout, DeltaTimes,  \* of Controllers
          MaxSamples, Chunks, MaxCaptured, MaxPresses   \* of VoiceRecorder

ASSUME InformantAssumption ==
  /\ Hands \subseteq {"left", "right"} /\ "right" \in Hands /\ Poses # {}
  /\ MCNoActionTimeout \in Nat \ {0} /\ DeltaTimes \subseteq Nat \ {0}
  /\ MaxSamples \in Nat \ {0} /\ Chunks \subseteq Nat \ {0}
  /\ MaxCaptured \in Nat /\ MaxPresses \in Nat

VARIABLES pose, old_Direction, visible, NoActionTime, seen, still,
          bIsRecording, new_batch, RecordingRawData, audio, arriving, game, racing,
          captured, presses, popped, cut, overlap

C == INSTANCE Controllers
V == INSTANCE VoiceRecorder

controllerVars == <<pose, old_Direction, visible, NoActionTime, seen, still>>
voiceVars == <<bIsRecording, new_batch, RecordingRawData, audio, arriving, game, racing,
               captured, presses, popped, cut, overlap>>
vars == <<controllerVars, voiceVars>>

Init == C!Init /\ V!Init

NothingToSend == ~bIsRecording \/ RecordingRawData = << >>

\* Mutant: "process voice" stands in the branch of a controller that moved.
ProcessVoice_IfMoved ==
  \/ C!Moved("right") /\ V!Tick
  \/ (NothingToSend \/ ~C!Moved("right")) /\ UNCHANGED voiceVars

\* The count and the pop take use_queue, which the audio thread holds as it enqueues.
ProcessVoice == V!Tick \/ (NothingToSend /\ UNCHANGED voiceVars)

Tick(dt) ==
  /\ game = "idle" /\ audio # "enqueue"
  /\ C!Tick(dt)
  /\ ProcessVoice

\* The trigger is pressed, perhaps on the Record button, and let go.
TriggerPressed  == C!OnRTriggerPressed /\ (V!StartRecording \/ UNCHANGED voiceVars)
TriggerReleased == V!StopRecording /\ UNCHANGED controllerVars

\* What happens between two frames, or beside them on the audio thread.
Between ==
  \/ (\E h \in Hands : C!Move(h)) /\ UNCHANGED voiceVars
  \/ game = "idle" /\ (\E b \in BOOLEAN : C!SciViSetsVisibility(b)) /\ UNCHANGED voiceVars
  \/ game = "idle" /\ (TriggerPressed \/ TriggerReleased)
  \/ V!StopNext /\ UNCHANGED controllerVars

AudioThread == V!AudioNext /\ UNCHANGED controllerVars
Captures    == (\E k \in Chunks : V!OnNewSubmixBuffer(k)) /\ UNCHANGED controllerVars

Frame == \E dt \in DeltaTimes : Tick(dt)
Next  == Frame \/ Between \/ AudioThread \/ Captures

\* The audio device calls back, the game ticks; nobody has to press or to release.
Spec == /\ Init /\ [][Next]_vars
        /\ WF_vars(AudioThread) /\ WF_vars(V!StopNext /\ UNCHANGED controllerVars) /\ WF_vars(Frame)

-------------------------------------------------------------------------------
(* Properties. *)

\* The game by itself hides a controller only when it has neither moved nor
\* been used for MCNoActionTimeout (BaseInformant.cpp:121, 165), whatever the
\* recorder does in the same frames.
NotHiddenInUse == C!NotHiddenInUse

\* SubmixRecorder.cpp:74, 83-101: a captured sample is in a buffer that was queued, or
\* in the one being filled, unless Append had no room for it or the threads overlapped.
NothingLost == V!NothingLost

\* SubmixRecorder.cpp:74: sound is queued in the order of its capture and once, but
\* for the tail that each release queues and leaves in new_batch.
OnlyTailsTwice == V!OnlyTailsTwice

\* BaseInformant.cpp:139: while the button is held every frame sends a buffer, so
\* the queue empties, whatever the controllers do (callbacks are bounded: MaxCaptured).
\* What is queued after a release waits for the next press, and may wait for ever.
QueueDrains == V!QueueDrains
===============================================================================
