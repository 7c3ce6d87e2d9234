------------------------------ MODULE Controllers -----------------------------
(***************************************************************************)
(* When the motion controllers are shown: ABaseInformant::Tick compares    *)
(* each controller's direction with the one BeginPlay stored, the trigger  *)
(* shows the right one, and SciVi's setMotionControllerVisibility shows or *)
(* hides it.  Only a visible right controller can select AOIs.             *)
(*                                                                         *)
(* seen and still are the specification's own: where a controller was at   *)
(* the last tick, and for how long it has not moved nor been used.         *)
(***************************************************************************)
EXTENDS Naturals, FiniteSetsExt

CONSTANTS Hands,                \* the controllers, "right" among them
          Poses,                \* what location plus forward vector may be
          MCNoActionTimeout,    \* in seconds
          DeltaTimes            \* positive seconds from one tick to the next

VARIABLES pose,           \* the tracked direction of each controller
          old_Direction,  \* old_MC_Left_Direction, old_MC_Right_Direction
          visible,
          NoActionTime,   \* saturates at the timeout: it is only compared with it
          seen, still

vars == <<pose, old_Direction, visible, NoActionTime, seen, still>>

Time == 0 .. MCNoActionTimeout
TypeOK ==
  /\ pose \in [Hands -> Poses] /\ old_Direction \in [Hands -> Poses] /\ seen \in [Hands -> Poses]
  /\ visible \in [Hands -> BOOLEAN]
  /\ NoActionTime \in [Hands -> Time] /\ still \in [Hands -> Time]

\* BeginPlay.
Init ==
  /\ pose \in [Hands -> Poses] /\ old_Direction = pose /\ seen = pose
  /\ visible = [h \in Hands |-> FALSE]
  /\ NoActionTime = [h \in Hands |-> 0] /\ still = NoActionTime

\* The hand moves (external).
Move(h) ==
  /\ \E p \in Poses \ {pose[h]} : pose' = [pose EXCEPT ![h] = p]
  /\ UNCHANGED <<old_Direction, visible, NoActionTime, seen, still>>

Later(t, dt) == Min({t + dt, MCNoActionTimeout})
Moved(h)     == pose[h] # old_Direction[h]

TimeAfter(dt) == [h \in Hands |-> IF Moved(h) THEN 0 ELSE Later(NoActionTime[h], dt)]

ShownAfter(dt) == [h \in Hands |-> \/ Moved(h)
                                   \/ visible[h] /\ TimeAfter(dt)[h] < MCNoActionTimeout]

\* The two checks of Tick.
Tick(dt) ==
  /\ NoActionTime' = TimeAfter(dt)
  /\ visible' = ShownAfter(dt)
  /\ seen' = pose
  /\ still' = [h \in Hands |-> IF pose[h] # seen[h] THEN Later(0, dt) ELSE Later(still[h], dt)]
  /\ UNCHANGED <<pose, old_Direction>>

\* Mutant: the trigger does not restart the time.
OnRTriggerPressed_NoReset ==
  /\ visible' = [visible EXCEPT !["right"] = TRUE]
  /\ still' = [still EXCEPT !["right"] = 0]
  /\ UNCHANGED <<pose, old_Direction, NoActionTime, seen>>

OnRTriggerPressed ==
  /\ NoActionTime' = [NoActionTime EXCEPT !["right"] = 0]
  /\ visible' = [visible EXCEPT !["right"] = TRUE]
  /\ still' = [still EXCEPT !["right"] = 0]
  /\ UNCHANGED <<pose, old_Direction, seen>>

\* setMotionControllerVisibility: SetVisibility_MC_Right.
SciViSetsVisibility(b) ==
  /\ visible' = [visible EXCEPT !["right"] = b]
  /\ UNCHANGED <<pose, old_Direction, NoActionTime, seen, still>>

Next == \/ \E h \in Hands : Move(h)
        \/ \E dt \in DeltaTimes : Tick(dt)
        \/ OnRTriggerPressed
        \/ \E b \in BOOLEAN : SciViSetsVisibility(b)
Spec == Init /\ [][Next]_vars

--------------------------------------------------------------------------------
(* Properties. *)

\* The game by itself hides a controller only when it has neither moved nor
\* been used, by a press of the trigger, for MCNoActionTimeout
\* (BaseInformant.cpp:121, 165): the player does not lose the pointer amid a
\* selection.  To hold the trigger is no use: while a recording goes on the
\* time runs.
NotHiddenInUse ==
  [][\A dt \in DeltaTimes : Tick(dt) =>
       \A h \in Hands : visible[h] /\ ~visible'[h] => still'[h] = MCNoActionTimeout]_vars

\* "check if Right controller has moved" (BaseInformant.cpp:112): a tick shows a
\* hidden controller only if it moved since the tick before.
ShownOnlyIfMoved ==
  [][\A dt \in DeltaTimes : Tick(dt) =>
       \A h \in Hands : ~visible[h] /\ visible'[h] => pose[h] # seen[h]]_vars
==============================================================================
