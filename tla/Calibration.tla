------------------------------ MODULE Calibration -----------------------------
(***************************************************************************)
(* The custom calibration of the eye tracker: AStimulus::applyCustomCalib, *)
(* called with one gaze sample at a time, shows a target at nine places in *)
(* turn and takes one calibration point at each, from the samples of a     *)
(* gaze that stays close to the target.  SciVi's customCalibrate may start *)
(* it again at any time.  (No code calls applyCustomCalib yet: GetGaze of  *)
(* the informant says where to.)                                           *)
(*                                                                         *)
(* A place is its column and row in the pattern.  The accumulated gazes    *)
(* are abstracted to how many samples are in them, a sample to whether it  *)
(* is closer to the target than OUTLIER_THRESHOLD.  good is the            *)
(* specification's own: how many close samples came in a row.  When the    *)
(* calibration is done each sample's gaze gets its basis (GazeBasis).      *)
(***************************************************************************)
EXTENDS GazeBasis

CONSTANTS ROWS_IN_PATTERN,
          SAMPLES_TO_START, SAMPLES_TO_START_MOVE, SAMPLES_TO_DECREASE, SAMPLES_TO_MOVE,
          SAMPLES_TO_REJECT,
          Measured(_),              \* the mean gazes that may come from the samples at a place
          Gazes                     \* the gazes that are corrected

ASSUME CalibrationAssumption ==
  /\ ROWS_IN_PATTERN = POINTS_PER_ROW /\ POINTS_PER_ROW % 2 = 1
  /\ {POINTS_PER_ROW, ROWS_IN_PATTERN, SAMPLES_TO_START, SAMPLES_TO_START_MOVE,
      SAMPLES_TO_DECREASE, SAMPLES_TO_MOVE} \subseteq Nat \ {0}
  /\ SAMPLES_TO_REJECT \in 0 .. SAMPLES_TO_DECREASE - 2
  /\ {One, InvEpsilon} \subseteq Nat \ {0}

VARIABLES m_needsCustomCalib, m_customCalibPhase, m_customCalibSamples,
          m_customCalibTarget,      \* where the target is
          accumulated,              \* m_customCalibAccum...Gaze
          m_customCalibPoints,
          board,                    \* the stimulus: where it was placed, carried before the camera
                                    \* or given the relative transform of its canvas
          corrected,                \* the last gaze whose basis was looked for, or <<>>
          good

vars == <<m_needsCustomCalib, m_customCalibPhase, m_customCalibSamples, m_customCalibTarget,
          accumulated, m_customCalibPoints, board, corrected, good>>

NPoints == POINTS_PER_ROW * ROWS_IN_PATTERN
PosForIdx(idx) == <<idx % POINTS_PER_ROW, idx \div POINTS_PER_ROW>>
Places == {PosForIdx(idx) : idx \in 0 .. NPoints - 1}
Elsewhere == <<-1, -1>>     \* in the centre or between two places
Point == [at : Places, gaze : UNION {Measured(p) : p \in Places}, from : Nat, good : Nat]

\* How many samples each phase lasts.
Limit == [None |-> 1, StartDecreases |-> SAMPLES_TO_START, StartMoves |-> SAMPLES_TO_START_MOVE,
          TargetDecreases |-> SAMPLES_TO_DECREASE, TargetMoves |-> SAMPLES_TO_MOVE, Done |-> 1]
Phases == DOMAIN Limit
Running == m_customCalibPhase \notin {"None", "Done"}

TypeOK ==
  /\ m_needsCustomCalib \in BOOLEAN /\ m_customCalibPhase \in Phases
  /\ m_customCalibSamples \in 0 .. Limit[m_customCalibPhase] - 1
  /\ m_customCalibTarget \in Places \cup {Elsewhere}
  /\ accumulated \in 0 .. SAMPLES_TO_DECREASE - SAMPLES_TO_REJECT
  /\ m_customCalibPoints \in Seq(Point)
  /\ Len(m_customCalibPoints) <= NPoints
  /\ board \in {"placed", "carried", "relative"} /\ corrected \in Gazes \cup {<<>>} /\ good \in 0 .. SAMPLES_TO_DECREASE

Init ==
  /\ m_needsCustomCalib = FALSE /\ m_customCalibPhase = "None" /\ m_customCalibSamples = 0
  /\ m_customCalibTarget = PosForIdx(0) /\ accumulated = 0 /\ m_customCalibPoints = <<>>
  /\ board = "placed" /\ corrected = <<>> /\ good = 0

CustomCalibrate ==
  /\ m_needsCustomCalib' = TRUE
  /\ UNCHANGED <<m_customCalibPhase, m_customCalibSamples, m_customCalibTarget, accumulated,
                 m_customCalibPoints, board, corrected, good>>

-------------------------------------------------------------------------------
(* The phases, each a part of one call.  phase and points are what the     *)
(* start of the call left: a restart takes effect in the same call.        *)

Goto(phase) == m_customCalibPhase' = phase /\ m_customCalibSamples' = 0
Stay(phase, samples) == m_customCalibPhase' = phase /\ m_customCalibSamples' = samples

Rest(phase) ==
  /\ phase \in {"None", "Done"}
  /\ Stay(phase, m_customCalibSamples)
  /\ UNCHANGED <<m_customCalibTarget, accumulated, m_customCalibPoints, good, board>>

\* The last phase: the basis of the gaze is looked for among the points.
Correct(phase) == IF phase = "Done" THEN corrected' \in Gazes ELSE corrected' = <<>>
Basis == FindBasis(m_customCalibPoints, corrected)

StartDecreases(phase, samples, points) ==
  /\ phase = "StartDecreases"
  /\ m_customCalibTarget' = Elsewhere
  /\ IF samples + 1 = SAMPLES_TO_START THEN Goto("StartMoves") ELSE Stay(phase, samples + 1)
  /\ m_customCalibPoints' = points /\ board' = "carried"
  /\ UNCHANGED <<accumulated, good>>

StartMoves(phase, samples, points) ==
  /\ phase = "StartMoves"
  /\ IF samples + 1 = SAMPLES_TO_START_MOVE
     THEN /\ Goto("TargetDecreases")
          /\ m_customCalibTarget' = PosForIdx(0) /\ accumulated' = 0 /\ good' = 0
     ELSE /\ Stay(phase, samples + 1)
          /\ m_customCalibTarget' = Elsewhere /\ UNCHANGED <<accumulated, good>>
  /\ m_customCalibPoints' = points /\ board' = "carried"

\* Mutant: an outlier only stops the count.
AfterSample_Forgiving(close, samples) ==
  LET n == IF close THEN 1 ELSE 0 IN
  [samples |-> samples + n,
   accumulated |-> accumulated + IF samples > SAMPLES_TO_REJECT THEN n ELSE 0]

\* A close sample counts, after the first ones also for the mean; an outlier starts again.
AfterSample(close, samples) ==
  IF close THEN [samples |-> samples + 1,
                 accumulated |-> accumulated + IF samples > SAMPLES_TO_REJECT THEN 1 ELSE 0]
           ELSE [samples |-> 0, accumulated |-> 0]

TargetDecreases(phase, samples, points, close) ==
  LET after == AfterSample(close, samples)
      inRow == IF close THEN Min({good + 1, SAMPLES_TO_DECREASE}) ELSE 0 IN
  /\ phase = "TargetDecreases"
  /\ accumulated' = after.accumulated /\ good' = inRow
  /\ IF after.samples = SAMPLES_TO_DECREASE
     THEN /\ \E mean \in Measured(m_customCalibTarget) :
               m_customCalibPoints' = Append(points, [at |-> m_customCalibTarget, gaze |-> mean,
                                                      from |-> after.accumulated, good |-> inRow])
          /\ Goto("TargetMoves")
     ELSE m_customCalibPoints' = points /\ Stay(phase, after.samples)
  /\ board' = "carried"
  /\ UNCHANGED m_customCalibTarget

Arrive(idx) ==
  /\ Goto("TargetDecreases")
  /\ m_customCalibTarget' = PosForIdx(idx) /\ accumulated' = 0 /\ good' = 0

\* Mutant: the stimulus stays where the calibration took it.
Finish_Carried ==
  /\ Stay("Done", m_customCalibSamples)
  /\ board' = "carried" /\ UNCHANGED <<m_customCalibTarget, accumulated, good>>

\* Mutant: the last phase is not left.
Finish_Waits ==
  UNCHANGED <<m_customCalibPhase, m_customCalibSamples, m_customCalibTarget, accumulated, good, board>>

\* The actor gets the transform its component has relative to it, and not its own again.
Finish ==
  /\ Stay("Done", m_customCalibSamples)
  /\ board' = "relative" /\ UNCHANGED <<m_customCalibTarget, accumulated, good>>

TargetMoves(phase, samples, points) ==
  /\ phase = "TargetMoves"
  /\ \/ Len(points) = NPoints /\ Finish
     \/ /\ Len(points) # NPoints /\ board' = "carried"
        /\ IF samples + 1 = SAMPLES_TO_MOVE
           THEN Arrive(Len(points))
           ELSE /\ Stay(phase, samples + 1)
                /\ m_customCalibTarget' = Elsewhere /\ UNCHANGED <<accumulated, good>>
  /\ m_customCalibPoints' = points

Started ==
  IF m_needsCustomCalib
  THEN [phase |-> "StartDecreases", samples |-> 0, points |-> <<>>]
  ELSE [phase |-> m_customCalibPhase, samples |-> m_customCalibSamples,
        points |-> m_customCalibPoints]

ApplyCustomCalib(close) ==
  LET s == Started IN
  /\ m_needsCustomCalib' = FALSE
  /\ Correct(s.phase)
  /\ \/ Rest(s.phase)
     \/ StartDecreases(s.phase, s.samples, s.points)
     \/ StartMoves(s.phase, s.samples, s.points)
     \/ TargetDecreases(s.phase, s.samples, s.points, close)
     \/ TargetMoves(s.phase, s.samples, s.points)

Next == CustomCalibrate \/ \E close \in BOOLEAN : ApplyCustomCalib(close)

\* Samples keep coming.
Spec == Init /\ [][Next]_vars /\ WF_vars(\E close \in BOOLEAN : ApplyCustomCalib(close))

-------------------------------------------------------------------------------
\* Every point belongs to the place it is looked up for, and comes from as many close
\* samples in a row as the code asks for, none of them from another place, from before an
\* outlier or from an earlier calibration (with the types).
IsPointAt(point, k) ==
  /\ point.at = PosForIdx(k - 1)
  /\ point.from = SAMPLES_TO_DECREASE - SAMPLES_TO_REJECT - 1 /\ point.good = SAMPLES_TO_DECREASE
PointsInPlace ==
  TypeOK /\ \A k \in DOMAIN m_customCalibPoints : IsPointAt(m_customCalibPoints[k], k)

\* findBasis reads the middle point without a test: there are all of them when the
\* calibration is done.  And the stimulus is before the camera just while one is going on.
DoneIsComplete ==
  /\ m_customCalibPhase = "Done" => Len(m_customCalibPoints) = NPoints
  /\ Running <=> board = "carried"

\* Whatever the means measured: a gaze that is not straight ahead gets three points that
\* surround it, but for the tolerance of the weights, or the nearest point.
OutsideIsNearest ==
  corrected # <<>> /\ ~Ahead(corrected) =>
    \/ Surround(m_customCalibPoints, Basis, corrected)
    \/ \A i \in DOMAIN m_customCalibPoints :
         Dot(corrected, m_customCalibPoints[Basis.points[1]].gaze) >= Dot(corrected, m_customCalibPoints[i].gaze)

\* A calibration asked for comes to an end if the gaze follows the target from some time on.
CalibrationEnds ==
  <>[][ApplyCustomCalib(TRUE)]_vars => <>[](~m_needsCustomCalib /\ ~Running)
===============================================================================
