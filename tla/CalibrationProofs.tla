--------------------------- MODULE CalibrationProofs ---------------------------
(***************************************************************************)
(* What a calibration has collected, for a pattern of any size, any counts *)
(* of samples and any gazes, however often it is started again: every      *)
(* point is where it is looked up, and none is missing when it is done.    *)
(* And what findBasis makes of the points, whatever means were measured: a *)
(* gaze that is not straight ahead lies between the three points it gets,  *)
(* but for the tolerance of the weights, or these are the nearest one.     *)
(***************************************************************************)
EXTENDS Calibration, NaturalsInduction, WellFoundedInduction, TLAPS

\* How many samples are in the mean after n close ones in a row.
Kept(n) == IF n > SAMPLES_TO_REJECT THEN n - SAMPLES_TO_REJECT - 1 ELSE 0

\* What a phase may rely on when a sample comes: the target stands at the place of the
\* next point, and the sums hold what was seen there since the last outlier.
Consistent(phase, samples, points) ==
  /\ phase \in Phases /\ samples \in 0 .. Limit[phase] - 1
  /\ points \in Seq(Point) /\ Len(points) <= NPoints
  /\ \A k \in 1 .. Len(points) : IsPointAt(points[k], k)
  /\ phase \in {"StartDecreases", "StartMoves"} => points = <<>>
  /\ phase = "TargetDecreases" => /\ Len(points) < NPoints /\ m_customCalibTarget = PosForIdx(Len(points))
                                  /\ good = samples /\ accumulated = Kept(samples)
  /\ phase = "TargetMoves" /\ Len(points) = NPoints => samples = 0
  /\ phase = "Done" => Len(points) = NPoints

IInv == /\ TypeOK
        /\ Consistent(m_customCalibPhase, m_customCalibSamples, m_customCalibPoints)
        /\ (Running <=> board = "carried")

--------------------------------------------------------------------------------
LEMMA Sizes ==
  /\ NPoints \in Nat \ {0}
  /\ SAMPLES_TO_START \in Nat \ {0} /\ SAMPLES_TO_START_MOVE \in Nat \ {0}
  /\ SAMPLES_TO_DECREASE \in Nat \ {0} /\ SAMPLES_TO_MOVE \in Nat \ {0}
  /\ SAMPLES_TO_REJECT \in Nat /\ SAMPLES_TO_REJECT + 2 <= SAMPLES_TO_DECREASE
<1>1. POINTS_PER_ROW \in Nat \ {0} /\ ROWS_IN_PATTERN \in Nat \ {0}
  BY CalibrationAssumption
<1>2. NPoints \in Nat \ {0}
  BY <1>1 DEF NPoints
<1> QED
  BY <1>2, CalibrationAssumption

LEMMA Limits ==
  /\ Phases = {"None", "StartDecreases", "StartMoves", "TargetDecreases", "TargetMoves", "Done"}
  /\ Limit["None"] = 1 /\ Limit["Done"] = 1
  /\ Limit["StartDecreases"] = SAMPLES_TO_START /\ Limit["StartMoves"] = SAMPLES_TO_START_MOVE
  /\ Limit["TargetDecreases"] = SAMPLES_TO_DECREASE /\ Limit["TargetMoves"] = SAMPLES_TO_MOVE
  BY DEF Phases, Limit

LEMMA PlaceOf == ASSUME NEW i \in 0 .. NPoints - 1 PROVE PosForIdx(i) \in Places
  BY DEF Places

LEMMA LesserOf ==
  ASSUME NEW m \in Nat, NEW n \in Nat
  PROVE  Min({m, n}) = IF m <= n THEN m ELSE n
<1> DEFINE l == IF m <= n THEN m ELSE n
<1>1. l \in {m, n} /\ \A y \in {m, n} : l <= y
  OBVIOUS
<1>2. \A x \in {m, n} : (\A y \in {m, n} : x <= y) => x = l
  OBVIOUS
<1> QED
  BY <1>1, <1>2 DEF Min

\* A restart takes effect in the call that finds it asked for.
LEMMA StartedConsistent == IInv => Consistent(Started.phase, Started.samples, Started.points)
<1> SUFFICES ASSUME IInv PROVE Consistent(Started.phase, Started.samples, Started.points)
  OBVIOUS
<1>1. CASE m_needsCustomCalib
  <2>1. Started.phase = "StartDecreases" /\ Started.samples = 0 /\ Started.points = <<>>
    BY <1>1 DEF Started
  <2>2. 0 \in 0 .. SAMPLES_TO_START - 1 /\ <<>> \in Seq(Point) /\ Len(<<>>) = 0
    BY Sizes
  <2> QED
    BY <2>1, <2>2, Sizes, Limits DEF Consistent
<1>2. CASE ~m_needsCustomCalib
  BY <1>2 DEF Started, IInv
<1> QED
  BY <1>1, <1>2

\* The sums after a sample: all or nothing.
LEMMA AfterOf ==
  ASSUME NEW samples \in 0 .. SAMPLES_TO_DECREASE - 1, NEW close \in BOOLEAN,
         accumulated = Kept(samples), good = samples
  PROVE  /\ AfterSample(close, samples).samples = IF close THEN samples + 1 ELSE 0
         /\ AfterSample(close, samples).accumulated = Kept(IF close THEN samples + 1 ELSE 0)
         /\ (IF close THEN Min({good + 1, SAMPLES_TO_DECREASE}) ELSE 0) = IF close THEN samples + 1 ELSE 0
<1>1. samples \in Nat /\ samples + 1 <= SAMPLES_TO_DECREASE
  BY Sizes
<1>2. AfterSample(close, samples).samples = IF close THEN samples + 1 ELSE 0
  BY DEF AfterSample
<1>3. AfterSample(close, samples).accumulated
        = IF close THEN accumulated + IF samples > SAMPLES_TO_REJECT THEN 1 ELSE 0 ELSE 0
  BY DEF AfterSample
<1>4. AfterSample(close, samples).accumulated = Kept(IF close THEN samples + 1 ELSE 0)
  BY <1>1, <1>3, Sizes DEF Kept
<1>5. Min({samples + 1, SAMPLES_TO_DECREASE}) = samples + 1
  BY <1>1, Sizes, LesserOf
<1> QED
  BY <1>2, <1>4, <1>5

\* Taking a point at the place of the next index keeps all in their places.
LEMMA Taken ==
  ASSUME NEW points \in Seq(Point), Len(points) < NPoints,
         \A k \in 1 .. Len(points) : IsPointAt(points[k], k),
         NEW point \in Point, IsPointAt(point, Len(points) + 1)
  PROVE  LET more == Append(points, point) IN
         /\ more \in Seq(Point) /\ Len(more) = Len(points) + 1
         /\ \A k \in 1 .. Len(more) : IsPointAt(more[k], k)
  OBVIOUS

--------------------------------------------------------------------------------
LEMMA InitHolds == Init => IInv
<1> SUFFICES ASSUME Init PROVE IInv
  OBVIOUS
<1>1. PosForIdx(0) \in Places
  BY Sizes, PlaceOf
<1>2. <<>> \in Seq(Point) /\ Len(<<>>) = 0
  OBVIOUS
<1>3. TypeOK
  <2>1. /\ m_needsCustomCalib \in BOOLEAN /\ board \in {"placed", "carried", "relative"} /\ corrected \in Gazes \cup {<<>>}
        /\ m_customCalibTarget \in Places \cup {Elsewhere}
    BY <1>1 DEF Init
  <2>2. /\ m_customCalibPhase \in Phases /\ m_customCalibSamples \in 0 .. Limit[m_customCalibPhase] - 1
        /\ good \in 0 .. SAMPLES_TO_DECREASE /\ accumulated \in 0 .. SAMPLES_TO_DECREASE - SAMPLES_TO_REJECT
    BY Sizes, Limits DEF Init
  <2>3. m_customCalibPoints \in Seq(Point) /\ Len(m_customCalibPoints) <= NPoints
    BY <1>2, Sizes DEF Init
  <2> QED
    BY <2>1, <2>2, <2>3 DEF TypeOK
<1>4. Consistent(m_customCalibPhase, m_customCalibSamples, m_customCalibPoints)
  BY <1>2, Sizes, Limits DEF Init, Consistent
<1> QED
  BY <1>3, <1>4 DEF Init, IInv, Running

\* What every part of a call has to establish of the state after it.
LEMMA Established ==
  ASSUME IInv, NEW close \in BOOLEAN, ApplyCustomCalib(close),
         Consistent(m_customCalibPhase, m_customCalibSamples, m_customCalibPoints)',
         m_customCalibTarget' \in Places \cup {Elsewhere},
         accumulated' \in 0 .. SAMPLES_TO_DECREASE - SAMPLES_TO_REJECT,
         good' \in 0 .. SAMPLES_TO_DECREASE,
         board' \in {"placed", "carried", "relative"}, (Running <=> board = "carried")'
  PROVE  IInv'
<1>1. m_needsCustomCalib' \in BOOLEAN /\ corrected' \in Gazes \cup {<<>>}
  <2>1. m_needsCustomCalib' = FALSE /\ Correct(Started.phase)
    BY DEF ApplyCustomCalib
  <2> QED
    BY <2>1 DEF IInv, TypeOK, Correct
<1>2. TypeOK'
  BY <1>1 DEF TypeOK, Consistent
<1> QED
  BY <1>2 DEF IInv

LEMMA StepKeeps == IInv /\ [Next]_vars => IInv'
<1> SUFFICES ASSUME IInv, [Next]_vars PROVE IInv'
  OBVIOUS
<1>1. CASE UNCHANGED vars
  BY <1>1 DEF vars, IInv, TypeOK, Consistent, Running
<1>2. CASE CustomCalibrate
  BY <1>2 DEF CustomCalibrate, IInv, TypeOK, Consistent, Running
<1>3. ASSUME NEW close \in BOOLEAN, ApplyCustomCalib(close) PROVE IInv'
  <2> DEFINE phase == Started.phase  samples == Started.samples  points == Started.points
  <2>1. Consistent(phase, samples, points)
    BY StartedConsistent
  <2>2. /\ m_customCalibTarget \in Places \cup {Elsewhere}
        /\ accumulated \in 0 .. SAMPLES_TO_DECREASE - SAMPLES_TO_REJECT
        /\ good \in 0 .. SAMPLES_TO_DECREASE
        /\ 0 \in 0 .. SAMPLES_TO_DECREASE - SAMPLES_TO_REJECT /\ 0 \in 0 .. SAMPLES_TO_DECREASE
    BY Sizes DEF IInv, TypeOK
  <2>3. PosForIdx(0) \in Places
    BY Sizes, PlaceOf
  <2>4. CASE Rest(phase)
    <3>1. ~m_needsCustomCalib
      BY <2>4 DEF Started, Rest
    <3>2. /\ phase = m_customCalibPhase /\ samples = m_customCalibSamples /\ points = m_customCalibPoints
      BY <3>1 DEF Started
    <3>3. UNCHANGED <<m_customCalibPhase, m_customCalibSamples, m_customCalibTarget, accumulated,
                      m_customCalibPoints, good, board>>
      BY <2>4, <3>2 DEF Rest, Stay
    <3>4. m_needsCustomCalib' \in BOOLEAN /\ corrected' \in Gazes \cup {<<>>}
      BY <1>3 DEF ApplyCustomCalib, Correct, IInv, TypeOK
    <3> QED
      BY <3>3, <3>4 DEF IInv, TypeOK, Consistent, Running
  <2>5. CASE StartDecreases(phase, samples, points)
    <3>1. /\ phase = "StartDecreases" /\ points = <<>> /\ samples \in 0 .. SAMPLES_TO_START - 1
      BY <2>1, <2>5, Limits DEF StartDecreases, Consistent
    <3>2. Consistent(m_customCalibPhase, m_customCalibSamples, m_customCalibPoints)'
      BY <2>1, <2>5, <3>1, Sizes, Limits DEF StartDecreases, Goto, Stay, Consistent
    <3>3. m_customCalibPhase' \in {"StartDecreases", "StartMoves"}
      BY <2>5, <3>1 DEF StartDecreases, Goto, Stay
    <3> QED
      BY <1>3, <2>2, <2>5, <3>2, <3>3, Established DEF StartDecreases, Running
  <2>6. CASE StartMoves(phase, samples, points)
    <3>1. /\ phase = "StartMoves" /\ points = <<>> /\ samples \in 0 .. SAMPLES_TO_START_MOVE - 1
      BY <2>1, <2>6, Limits DEF StartMoves, Consistent
    <3>2. CASE samples + 1 = SAMPLES_TO_START_MOVE
      <4>1. /\ m_customCalibPhase' = "TargetDecreases" /\ m_customCalibSamples' = 0
            /\ m_customCalibTarget' = PosForIdx(0) /\ accumulated' = 0 /\ good' = 0
            /\ m_customCalibPoints' = <<>> /\ board' = "carried"
        BY <2>6, <3>1, <3>2 DEF StartMoves, Goto
      <4>2. Kept(0) = 0 /\ Len(<<>>) = 0 /\ <<>> \in Seq(Point)
        BY Sizes DEF Kept
      <4>3. Consistent(m_customCalibPhase, m_customCalibSamples, m_customCalibPoints)'
        BY <4>1, <4>2, Sizes, Limits DEF Consistent
      <4> QED
        BY <1>3, <2>2, <2>3, <4>1, <4>3, Established DEF Running
    <3>3. CASE samples + 1 # SAMPLES_TO_START_MOVE
      <4>1. /\ m_customCalibPhase' = "StartMoves" /\ m_customCalibSamples' = samples + 1
            /\ m_customCalibTarget' = Elsewhere /\ accumulated' = accumulated /\ good' = good
            /\ m_customCalibPoints' = points /\ board' = "carried"
        BY <2>6, <3>1, <3>3 DEF StartMoves, Stay
      <4>2. Consistent(m_customCalibPhase, m_customCalibSamples, m_customCalibPoints)'
        BY <2>1, <3>1, <3>3, <4>1, Sizes, Limits DEF Consistent
      <4> QED
        BY <1>3, <2>2, <4>1, <4>2, Established DEF Running
    <3> QED
      BY <3>2, <3>3
  <2>7. CASE TargetDecreases(phase, samples, points, close)
    <3> DEFINE n == IF close THEN samples + 1 ELSE 0
    <3>1. /\ phase = "TargetDecreases" /\ samples \in 0 .. SAMPLES_TO_DECREASE - 1
          /\ points \in Seq(Point) /\ \A k \in 1 .. Len(points) : IsPointAt(points[k], k)
          /\ Len(points) < NPoints /\ m_customCalibTarget = PosForIdx(Len(points))
          /\ good = samples /\ accumulated = Kept(samples)
      BY <2>1, <2>7, Limits DEF TargetDecreases, Consistent
    <3>2. n \in 0 .. SAMPLES_TO_DECREASE /\ Kept(n) \in 0 .. SAMPLES_TO_DECREASE - SAMPLES_TO_REJECT
      BY <3>1, Sizes DEF Kept
    <3>3. /\ AfterSample(close, samples).samples = n /\ AfterSample(close, samples).accumulated = Kept(n)
          /\ (IF close THEN Min({good + 1, SAMPLES_TO_DECREASE}) ELSE 0) = n
      BY <3>1, AfterOf
    <3>4. accumulated' = Kept(n) /\ good' = n /\ m_customCalibTarget' = m_customCalibTarget /\ board' = "carried"
      BY <2>7, <3>3 DEF TargetDecreases
    <3>5. CASE n = SAMPLES_TO_DECREASE
      <4>1. m_customCalibPhase' = "TargetMoves" /\ m_customCalibSamples' = 0
        BY <2>7, <3>3, <3>5 DEF TargetDecreases, Goto
      <4>2. PICK mean \in Measured(m_customCalibTarget) :
              m_customCalibPoints' = Append(points, [at |-> m_customCalibTarget, gaze |-> mean,
                                                     from |-> Kept(n), good |-> n])
        BY <2>7, <3>3, <3>5 DEF TargetDecreases
      <4> DEFINE point == [at |-> m_customCalibTarget, gaze |-> mean, from |-> Kept(n), good |-> n]
      <4>3. point \in Point /\ IsPointAt(point, Len(points) + 1)
        <5>1. Len(points) \in 0 .. NPoints - 1 /\ Len(points) + 1 - 1 = Len(points)
          BY <3>1, Sizes
        <5>2. m_customCalibTarget \in Places /\ m_customCalibTarget = PosForIdx(Len(points) + 1 - 1)
          BY <3>1, <5>1, PlaceOf
        <5>3. Kept(n) = SAMPLES_TO_DECREASE - SAMPLES_TO_REJECT - 1 /\ Kept(n) \in Nat /\ n \in Nat
          BY <3>5, Sizes DEF Kept
        <5>4. mean \in UNION {Measured(p) : p \in Places}
          BY <5>2
        <5>5. point.at = m_customCalibTarget /\ point.from = Kept(n) /\ point.good = n
          OBVIOUS
        <5>6. point \in Point
          BY <5>2, <5>3, <5>4 DEF Point
        <5> QED
          BY <3>5, <5>2, <5>3, <5>5, <5>6 DEF IsPointAt
      <4> HIDE DEF point
      <4>4. /\ m_customCalibPoints' \in Seq(Point) /\ Len(m_customCalibPoints') = Len(points) + 1
            /\ \A k \in 1 .. Len(m_customCalibPoints') : IsPointAt(m_customCalibPoints'[k], k)
        <5>1. m_customCalibPoints' = Append(points, point)
          BY <4>2 DEF point
        <5> QED
          BY <3>1, <4>3, <5>1, Taken
      <4>5. Consistent(m_customCalibPhase, m_customCalibSamples, m_customCalibPoints)'
        BY <3>1, <4>1, <4>4, Sizes, Limits DEF Consistent
      <4> QED
        BY <1>3, <2>2, <3>2, <3>4, <4>1, <4>5, Established DEF Running
    <3>6. CASE n # SAMPLES_TO_DECREASE
      <4>1. /\ m_customCalibPhase' = "TargetDecreases" /\ m_customCalibSamples' = n
            /\ m_customCalibPoints' = points
        BY <2>7, <3>1, <3>3, <3>6 DEF TargetDecreases, Stay
      <4>2. Consistent(m_customCalibPhase, m_customCalibSamples, m_customCalibPoints)'
        BY SMTT(30), <3>1, <3>2, <3>4, <3>6, <4>1, Sizes, Limits DEF Consistent
      <4> QED
        BY <1>3, <2>2, <3>2, <3>4, <4>1, <4>2, Established DEF Running
    <3> QED
      BY <3>5, <3>6
  <2>8. CASE TargetMoves(phase, samples, points)
    <3>1. /\ phase = "TargetMoves" /\ samples \in 0 .. SAMPLES_TO_MOVE - 1
          /\ points \in Seq(Point) /\ Len(points) <= NPoints
          /\ \A k \in 1 .. Len(points) : IsPointAt(points[k], k)
          /\ Len(points) = NPoints => samples = 0
          /\ m_customCalibPoints' = points
      BY <2>1, <2>8, Limits DEF TargetMoves, Consistent
    <3>2. CASE Len(points) = NPoints /\ Finish
      <4>1. ~m_needsCustomCalib
        BY <3>1 DEF Started
      <4>2. samples = m_customCalibSamples
        BY <4>1 DEF Started
      <4>3. /\ m_customCalibPhase' = "Done" /\ m_customCalibSamples' = 0 /\ board' = "relative"
            /\ UNCHANGED <<m_customCalibTarget, accumulated, good>>
        BY <3>1, <3>2, <4>2 DEF Finish, Stay
      <4>4. Consistent(m_customCalibPhase, m_customCalibSamples, m_customCalibPoints)'
        BY <3>1, <3>2, <4>3, Sizes, Limits DEF Consistent
      <4> QED
        BY <1>3, <2>2, <4>3, <4>4, Established DEF Running
    <3>3. CASE Len(points) # NPoints /\ samples + 1 = SAMPLES_TO_MOVE
      <4>1. /\ m_customCalibPhase' = "TargetDecreases" /\ m_customCalibSamples' = 0
            /\ m_customCalibTarget' = PosForIdx(Len(points)) /\ accumulated' = 0 /\ good' = 0
            /\ board' = "carried"
        BY <2>8, <3>3 DEF TargetMoves, Arrive, Goto
      <4>2. Len(points) \in 0 .. NPoints - 1 /\ Kept(0) = 0
        BY <3>1, <3>3, Sizes DEF Kept
      <4>3. PosForIdx(Len(points)) \in Places
        BY <4>2, PlaceOf
      <4>4. Consistent(m_customCalibPhase, m_customCalibSamples, m_customCalibPoints)'
        BY <3>1, <4>1, <4>2, Sizes, Limits DEF Consistent
      <4> QED
        BY <1>3, <2>2, <4>1, <4>3, <4>4, Established DEF Running
    <3>4. CASE Len(points) # NPoints /\ samples + 1 # SAMPLES_TO_MOVE
      <4>1. /\ m_customCalibPhase' = "TargetMoves" /\ m_customCalibSamples' = samples + 1
            /\ m_customCalibTarget' = Elsewhere /\ board' = "carried" /\ UNCHANGED <<accumulated, good>>
        BY <2>8, <3>1, <3>4 DEF TargetMoves, Stay
      <4>2. Consistent(m_customCalibPhase, m_customCalibSamples, m_customCalibPoints)'
        BY <3>1, <3>4, <4>1, Sizes, Limits DEF Consistent
      <4> QED
        BY <1>3, <2>2, <4>1, <4>2, Established DEF Running
    <3> QED
      BY <2>8, <3>2, <3>3, <3>4 DEF TargetMoves
  <2> QED
    BY <1>3, <2>4, <2>5, <2>6, <2>7, <2>8 DEF ApplyCustomCalib
<1> QED
  BY <1>1, <1>2, <1>3 DEF Next

\* The types, what each phase may rely on and where the stimulus is, in every state.
THEOREM Invariance == Spec => []IInv
  BY InitHolds, StepKeeps, PTL DEF Spec

\* Every point comes from SAMPLES_TO_DECREASE close samples in a row at the place it is
\* looked up for: Stimulus.cpp:586-615.
THEOREM PointsWhereLookedUp == Spec => []PointsInPlace
<1>1. IInv => PointsInPlace
  <2> SUFFICES ASSUME IInv PROVE PointsInPlace
    OBVIOUS
  <2>1. DOMAIN m_customCalibPoints = 1 .. Len(m_customCalibPoints)
    BY DEF IInv, Consistent
  <2> QED
    BY <2>1 DEF IInv, Consistent, PointsInPlace
<1> QED
  BY <1>1, Invariance, PTL

\* findBasis has all the points it reads without a test when a calibration is done, and the
\* stimulus is before the camera just while one is going on: Stimulus.cpp:446, 520-529, 626.
THEOREM CompleteWhenDone == Spec => []DoneIsComplete
<1>1. IInv => DoneIsComplete
  BY DEF IInv, Consistent, DoneIsComplete
<1> QED
  BY <1>1, Invariance, PTL


--------------------------------------------------------------------------------
(* The basis of a gaze (Stimulus.cpp:434). *)

Vectors == Int \X Int \X Int

\* What findBasis takes for granted of the gazes: they are vectors, no coordinate of a
\* measured one is beyond the length of a unit vector, and there are points beside the
\* middle one.
GazesAreDirections ==
  /\ POINTS_PER_ROW > 1
  /\ \A p \in Places : Measured(p) \subseteq (-One .. One) \X (-One .. One) \X (-One .. One)
  /\ Gazes \subseteq Vectors

\* Every set of naturals that is not empty has a least member.
LEMMA Least ==
  ASSUME NEW T \in SUBSET Nat, T # {}
  PROVE  Min(T) \in T
<1>1. PICK n \in T : \A m \in T : <<m, n>> \notin OpToRel(<, Nat)
  BY NatLessThanWellFounded, WFMin
<1>2. \A m \in T : ~(m < n)
  BY <1>1 DEF OpToRel
<1>3. \A m \in T : n =< m
  BY <1>2
<1> QED
  BY <1>3 DEF Min

\* Of finitely many numbers one is the largest.
LEMMA LargestExists ==
  ASSUME NEW n \in Nat, NEW f, \A i \in 1 .. n : f[i] \in Int
  PROVE  \A I \in SUBSET (1 .. n) : I # {} => \E i \in I : \A j \in I : f[j] <= f[i]
<1> DEFINE Has(I) == I # {} => \E i \in I : \A j \in I : f[j] <= f[i]
           Bad    == {k \in 0 .. n : ~ \A I \in SUBSET (1 .. k) : Has(I)}
<1>1. 0 \notin Bad
  <2>1. 1 .. 0 = {}
    OBVIOUS
  <2> QED
    BY <2>1
<1>2. ASSUME NEW k \in 1 .. n, k - 1 \notin Bad PROVE k \notin Bad
  <2> SUFFICES ASSUME NEW I \in SUBSET (1 .. k) PROVE Has(I)
    OBVIOUS
  <2> DEFINE J == I \ {k}
  <2>1. J \in SUBSET (1 .. k - 1) /\ k - 1 \in 0 .. n /\ I \subseteq 1 .. n
    OBVIOUS
  <2>2. Has(J)
    BY <1>2, <2>1
  <2>3. CASE J = {}
    <3>1. \A i, j \in I : i = j
      BY <2>3
    <3>2. \A i \in I : f[i] \in Int /\ f[i] <= f[i]
      BY <2>1
    <3> QED
      BY <3>1, <3>2
  <2>4. CASE J # {}
    <3>1. PICK i \in J : \A j \in J : f[j] <= f[i]
      BY <2>2, <2>4
    <3>2. \A j \in I : f[j] \in Int /\ (j \in J \/ j = k)
      BY <2>1
    <3>3. i \in I
      OBVIOUS
    <3>4. CASE k \in I /\ f[i] <= f[k]
      BY <3>1, <3>2, <3>3, <3>4
    <3>5. CASE k \in I /\ ~(f[i] <= f[k])
      BY <3>1, <3>2, <3>3, <3>5
    <3>6. CASE k \notin I
      BY <3>1, <3>2, <3>3, <3>6
    <3> QED
      BY <3>4, <3>5, <3>6
  <2> QED
    BY <2>3, <2>4
<1>3. Bad = {}
  <2> SUFFICES ASSUME Bad # {} PROVE FALSE
    OBVIOUS
  <2>1. Bad \in SUBSET Nat
    OBVIOUS
  <2> HIDE DEF Has, Bad
  <2>2. PICK k \in Bad : \A i \in Bad : ~(i < k)
    <3>1. PICK k \in Bad : \A i \in Bad : <<i, k>> \notin OpToRel(<, Nat)
      BY <2>1, NatLessThanWellFounded, WFMin
    <3> QED
      BY <2>1, <3>1 DEF OpToRel
  <2>3. k \in 1 .. n /\ k - 1 < k
    <3>1. k \in 0 .. n /\ k # 0
      BY <1>1, <2>2 DEF Bad
    <3> QED
      BY <3>1
  <2> QED
    BY <1>2, <2>2, <2>3
<1>4. n \notin Bad
  BY <1>3
<1> QED
  BY <1>4

\* The loops over the points find the nearest one.
LEMMA NearestIs ==
  ASSUME NEW n \in Nat, NEW P, \A i \in 1 .. n : P[i].gaze \in Vectors, NEW g \in Vectors,
         NEW I \in SUBSET (1 .. n), I # {}
  PROVE  /\ Nearest(P, g, I) \in I
         /\ \A j \in I : Dot(g, P[j].gaze) <= Dot(g, P[Nearest(P, g, I)].gaze)
<1> DEFINE f == [i \in 1 .. n |-> Dot(g, P[i].gaze)]
           S == {i \in I : \A j \in I : Dot(g, P[j].gaze) <= Dot(g, P[i].gaze)}
<1>1. \A i \in 1 .. n : f[i] \in Int
  <2> SUFFICES ASSUME NEW i \in 1 .. n PROVE Dot(g, P[i].gaze) \in Int
    OBVIOUS
  <2>1. P[i].gaze \in Vectors
    OBVIOUS
  <2> QED
    BY <2>1 DEF Dot, Vectors
<1>2. \A i \in I : f[i] = Dot(g, P[i].gaze)
  OBVIOUS
<1> HIDE DEF f
<1>3. PICK i \in I : \A j \in I : f[j] <= f[i]
  BY <1>1, LargestExists
<1>4. S # {} /\ S \in SUBSET Nat
  <2>1. I \in SUBSET Nat
    OBVIOUS
  <2>2. \A j \in I : Dot(g, P[j].gaze) <= Dot(g, P[i].gaze)
    BY <1>2, <1>3
  <2>3. i \in S
    BY <2>2
  <2> QED
    BY <2>1, <2>3
<1>5. Nearest(P, g, I) = Min(S)
  BY DEF Nearest
<1> HIDE DEF S
<1>6. Nearest(P, g, I) \in S
  BY <1>4, <1>5, Least
<1> QED
  BY <1>6 DEF S

\* The weighted points give the gaze back, times the determinant.
Solves(a, b, c, g) ==
  /\ Det(a, b, c) \in Int /\ Det(g, b, c) \in Int /\ Det(a, g, c) \in Int /\ Det(a, b, g) \in Int
  /\ \A k \in 1 .. 3 : Det(g, b, c) * a[k] + Det(a, g, c) * b[k] + Det(a, b, g) * c[k] = Det(a, b, c) * g[k]

LEMMA Cramer ==
  ASSUME NEW a1 \in Int, NEW a2 \in Int, NEW a3 \in Int, NEW b1 \in Int, NEW b2 \in Int, NEW b3 \in Int,
         NEW c1 \in Int, NEW c2 \in Int, NEW c3 \in Int, NEW g1 \in Int, NEW g2 \in Int, NEW g3 \in Int
  PROVE  Solves(<<a1, a2, a3>>, <<b1, b2, b3>>, <<c1, c2, c3>>, <<g1, g2, g3>>)
  BY DEF Solves, Det, Dot, Cross

\* Turned to the side where the determinant is not negative.
Turned(s, a, b, c, g, k) ==
  (s * Det(g, b, c)) * a[k] + (s * Det(a, g, c)) * b[k] + (s * Det(a, b, g)) * c[k] = (s * Det(a, b, c)) * g[k]

LEMMA GivesBack ==
  ASSUME NEW a \in Vectors, NEW b \in Vectors, NEW c \in Vectors, NEW g \in Vectors, NEW s \in {-1, 1},
         NEW k \in 1 .. 3
  PROVE  Det(a, b, c) \in Int /\ Turned(s, a, b, c, g, k)
<1>1. PICK a1 \in Int, a2 \in Int, a3 \in Int : a = <<a1, a2, a3>>
  BY DEF Vectors
<1>2. PICK b1 \in Int, b2 \in Int, b3 \in Int : b = <<b1, b2, b3>>
  BY DEF Vectors
<1>3. PICK c1 \in Int, c2 \in Int, c3 \in Int : c = <<c1, c2, c3>>
  BY DEF Vectors
<1>4. PICK g1 \in Int, g2 \in Int, g3 \in Int : g = <<g1, g2, g3>>
  BY DEF Vectors
<1>5. Solves(a, b, c, g)
  <2>1. Solves(<<a1, a2, a3>>, <<b1, b2, b3>>, <<c1, c2, c3>>, <<g1, g2, g3>>)
    BY Cramer
  <2> QED
    BY <1>1, <1>2, <1>3, <1>4, <2>1
<1>6. a[k] \in Int /\ b[k] \in Int /\ c[k] \in Int /\ g[k] \in Int
  BY <1>1, <1>2, <1>3, <1>4
<1>7. ASSUME NEW u \in Int, NEW v \in Int, NEW w \in Int, NEW d \in Int,
             NEW x \in Int, NEW y \in Int, NEW z \in Int, NEW t \in Int, u * x + v * y + w * z = d * t
      PROVE  (s * u) * x + (s * v) * y + (s * w) * z = (s * d) * t
  <2>1. CASE s = 1
    BY <1>7, <2>1
  <2>2. CASE s = -1
    BY <1>7, <2>2
  <2> QED
    BY <2>1, <2>2
<1>8. PICK u \in Int, v \in Int, w \in Int, d \in Int :
        u = Det(g, b, c) /\ v = Det(a, g, c) /\ w = Det(a, b, g) /\ d = Det(a, b, c)
  BY <1>5 DEF Solves
<1>9. u * a[k] + v * b[k] + w * c[k] = d * g[k]
  BY <1>5, <1>8 DEF Solves
<1>10. (s * u) * a[k] + (s * v) * b[k] + (s * w) * c[k] = (s * d) * g[k]
  <2>1. PICK x \in Int, y \in Int, z \in Int, t \in Int : x = a[k] /\ y = b[k] /\ z = c[k] /\ t = g[k]
    BY <1>6
  <2>2. u * x + v * y + w * z = d * t
    BY <1>9, <2>1
  <2>3. (s * u) * x + (s * v) * y + (s * w) * z = (s * d) * t
    BY <1>7, <2>2
  <2> QED
    BY <2>1, <2>3
<1> QED
  BY <1>8, <1>10 DEF Turned

\* The middle point is one of them, and there are three more.
LEMMA MiddleIsIn ==
  ASSUME POINTS_PER_ROW > 1
  PROVE  NPoints \in Nat /\ NPoints >= 4 /\ Middle \in 1 .. NPoints
<1>1. /\ POINTS_PER_ROW \in Nat /\ ROWS_IN_PATTERN = POINTS_PER_ROW
  BY CalibrationAssumption
<1>2. ASSUME NEW p \in Nat, p > 1 PROVE p * p \in Nat /\ p * p >= 4
  BY <1>2
<1>3. ASSUME NEW n \in Nat, n >= 4 PROVE n \div 2 + 1 \in 1 .. n
  BY <1>3
<1> QED
  BY <1>1, <1>2, <1>3 DEF NPoints, Middle

\* The three points tried are points.
LEMMA TriedAreIn ==
  ASSUME GazesAreDirections, NEW P \in Seq(Point), Len(P) = NPoints,
         \A i \in 1 .. NPoints : P[i].gaze \in Vectors, NEW g \in Vectors
  PROVE  \E i, j, k \in 1 .. NPoints : Tried(P, g) = <<i, j, k>>
<1>1. NPoints \in Nat /\ NPoints >= 4 /\ Middle \in 1 .. NPoints
  BY MiddleIsIn DEF GazesAreDirections
<1> DEFINE Others == DOMAIN P \ {Middle}
           p2 == Nearest(P, g, Others)
           p3 == Nearest(P, g, Others \ {p2})
<1>2. DOMAIN P = 1 .. NPoints
  OBVIOUS
<1>3. \A m, k \in 1 .. NPoints : \E i \in 1 .. NPoints : i # m /\ i # k
  <2> SUFFICES ASSUME NEW m \in 1 .. NPoints, NEW k \in 1 .. NPoints
               PROVE  \E i \in 1 .. NPoints : i # m /\ i # k
    OBVIOUS
  <2>1. 1 \in 1 .. NPoints /\ 2 \in 1 .. NPoints /\ 3 \in 1 .. NPoints
    BY <1>1
  <2> QED
    BY <2>1
<1>4. Others \in SUBSET (1 .. NPoints) /\ Others # {}
  <2>1. PICK i \in 1 .. NPoints : i # Middle
    BY <1>1, <1>3
  <2>2. i \in Others
    BY <1>2, <2>1
  <2> QED
    BY <1>2, <2>2
<1> HIDE DEF Others
<1>5. p2 \in Others
  BY <1>1, <1>4, NearestIs
<1> HIDE DEF p2
<1>6. Others \ {p2} \in SUBSET (1 .. NPoints) /\ Others \ {p2} # {}
  <2>1. p2 \in 1 .. NPoints
    BY <1>4, <1>5
  <2>2. PICK i \in 1 .. NPoints : i # Middle /\ i # p2
    BY <1>1, <1>3, <2>1
  <2>3. i \in Others
    BY <1>2, <2>2 DEF Others
  <2> QED
    BY <1>4, <2>2, <2>3
<1>7. p3 \in Others \ {p2}
  BY <1>1, <1>6, NearestIs
<1> HIDE DEF p3
<1>8. Tried(P, g) = <<Middle, p2, p3>>
  BY DEF Tried, Others, p2, p3
<1> QED
  BY <1>1, <1>4, <1>5, <1>7, <1>8

\* What cutting the weight n to zero changes of its part p of the sum.
LEMMA CutIsSmall ==
  ASSUME NEW n \in Int, NEW p \in -One .. One, NEW d \in Nat, Below(n, d)
  PROVE  InvEpsilon * (n * p) <= d * One /\ -(InvEpsilon * (n * p)) <= d * One
<1>1. One \in Nat /\ InvEpsilon \in Nat
  BY CalibrationAssumption
<1> DEFINE e == InvEpsilon * n
<1>2. e \in Int /\ e <= d /\ -e <= d
  <2>1. InvEpsilon * n \in Int /\ InvEpsilon * n < d /\ -InvEpsilon * n < d /\ -InvEpsilon * n = -(InvEpsilon * n)
    BY <1>1 DEF Below
  <2> QED
    BY <2>1
<1>3. InvEpsilon * (n * p) = e * p
  BY <1>1
<1> HIDE DEF e
<1>4. ASSUME NEW x \in Int, NEW y \in Nat, NEW u \in Nat, x <= y, -x <= y, NEW v \in Int, v <= u, -v <= u
      PROVE  x * v <= y * u /\ -(x * v) <= y * u
  <2>1. ASSUME NEW i \in Nat, NEW j \in Nat, NEW k \in Nat, NEW l \in Nat, i <= k, j <= l PROVE i * j <= k * l
    <3>1. i * j <= k * j /\ k * j <= k * l /\ i * j \in Nat /\ k * j \in Nat /\ k * l \in Nat
      BY <2>1
    <3> QED
      BY <3>1
  <2>2. ASSUME NEW i \in Nat, NEW j \in Nat PROVE i * j >= 0 /\ -(i * j) <= i * j /\ -i * j = -(i * j) /\ (-i) * (-j) = i * j /\ i * (-j) = -(i * j)
    BY <2>2
  <2>3. CASE x \in Nat /\ v \in Nat
    BY <1>4, <2>1, <2>2, <2>3
  <2>4. CASE x \in Nat /\ v \notin Nat
    <3>1. PICK j \in Nat : v = -j /\ j <= u
      BY <1>4, <2>4
    <3> QED
      BY <1>4, <2>1, <2>2, <2>4, <3>1
  <2>5. CASE x \notin Nat /\ v \in Nat
    <3>1. PICK i \in Nat : x = -i /\ i <= y
      BY <1>4, <2>5
    <3> QED
      BY <1>4, <2>1, <2>2, <2>5, <3>1
  <2>6. CASE x \notin Nat /\ v \notin Nat
    <3>1. PICK i \in Nat, j \in Nat : x = -i /\ i <= y /\ v = -j /\ j <= u
      BY <1>4, <2>6
    <3> QED
      BY <1>4, <2>1, <2>2, <2>6, <3>1
  <2> QED
    BY <2>3, <2>4, <2>5, <2>6
<1>5. e * p <= d * One /\ -(e * p) <= d * One
  BY <1>1, <1>2, <1>4
<1> QED
  BY <1>3, <1>5

\* So a sum of three parts is changed by no more than three times as much.
LEMMA SumIsNear ==
  ASSUME NEW d \in Nat, NEW t \in Int, NEW u \in Int, NEW v \in Int, NEW w \in Int,
         NEW x \in -One .. One, NEW y \in -One .. One, NEW z \in -One .. One,
         u * x + v * y + w * z = d * t
  PROVE  LET Cut(n) == IF Below(n, d) THEN 0 ELSE n
             off == InvEpsilon * ((Cut(u) * x + Cut(v) * y + Cut(w) * z) - d * t) IN
         off <= 3 * (d * One) /\ -off <= 3 * (d * One)
<1> DEFINE Cut(n) == IF Below(n, d) THEN 0 ELSE n
           off == InvEpsilon * ((Cut(u) * x + Cut(v) * y + Cut(w) * z) - d * t)
<1>1. One \in Nat /\ InvEpsilon \in Nat /\ d * One \in Nat
  BY CalibrationAssumption
<1> DEFINE Lost(n, p, q) == /\ Cut(n) * p = n * p - q /\ n * p \in Int
                            /\ InvEpsilon * q <= d * One /\ -(InvEpsilon * q) <= d * One
<1>2. ASSUME NEW n \in Int, NEW p \in -One .. One PROVE \E q \in Int : Lost(n, p, q)
  <2>1. CASE Below(n, d)
    <3>1. n * p \in Int /\ Cut(n) * p = n * p - n * p
      BY <1>1, <2>1
    <3>2. Lost(n, p, n * p)
      BY <2>1, <3>1, CutIsSmall
    <3> QED
      BY <3>1, <3>2
  <2>2. CASE ~Below(n, d)
    <3>1. Cut(n) * p = n * p - 0 /\ n * p \in Int /\ InvEpsilon * 0 = 0
      BY <1>1, <2>2
    <3>2. Lost(n, p, 0)
      BY <1>1, <3>1
    <3> QED
      BY <3>2
  <2> QED
    BY <2>1, <2>2
<1> HIDE DEF Cut, Lost
<1>3. PICK q \in Int : Lost(u, x, q)
  BY <1>2
<1>4. PICK r \in Int : Lost(v, y, r)
  BY <1>2
<1>5. PICK s \in Int : Lost(w, z, s)
  BY <1>2
<1>6. (Cut(u) * x + Cut(v) * y + Cut(w) * z) - d * t = -(q + r + s)
  <2>1. PICK i \in Int, j \in Int, k \in Int : i = u * x /\ j = v * y /\ k = w * z
    BY <1>3, <1>4, <1>5 DEF Lost
  <2>2. Cut(u) * x = i - q /\ Cut(v) * y = j - r /\ Cut(w) * z = k - s
    BY <1>3, <1>4, <1>5, <2>1, Zenon DEF Lost
  <2>3. i + j + k = d * t
    BY <2>1, Zenon
  <2>4. ((i - q) + (j - r) + (k - s)) - (i + j + k) = -(q + r + s)
    OBVIOUS
  <2> QED
    BY <2>2, <2>3, <2>4, Zenon
<1>7. off = -(InvEpsilon * q + InvEpsilon * r + InvEpsilon * s)
  <2>1. InvEpsilon * (-(q + r + s)) = -(InvEpsilon * q + InvEpsilon * r + InvEpsilon * s)
    BY <1>1
  <2> QED
    BY <1>6, <2>1
<1>8. InvEpsilon * q \in Int /\ InvEpsilon * r \in Int /\ InvEpsilon * s \in Int
  BY <1>1
<1> HIDE DEF off
<1>9. off <= 3 * (d * One) /\ -off <= 3 * (d * One)
  BY <1>1, <1>3, <1>4, <1>5, <1>7, <1>8 DEF Lost
<1> QED
  BY <1>9 DEF off, Cut

\* Three points the code finds a gaze between surround it.
LEMMA OctantSurrounds ==
  ASSUME NEW P, NEW i, NEW j, NEW k, NEW g \in Vectors,
         \A l \in {i, j, k} : P[l].gaze \in (-One .. One) \X (-One .. One) \X (-One .. One),
         PositiveOctant(P, g, <<i, j, k>>)
  PROVE  Surround(P, [points |-> <<i, j, k>>, weights |-> Coords(P, g, <<i, j, k>>)], g)
<1> DEFINE a == P[i].gaze  b == P[j].gaze  c == P[k].gaze
           s == Sign(Det(a, b, c))
           d == s * Det(a, b, c)
           Cut(n) == IF Below(n, d) THEN 0 ELSE n
           basis == [points |-> <<i, j, k>>, weights |-> Coords(P, g, <<i, j, k>>)]
<1>1. One \in Nat \ {0} /\ InvEpsilon \in Nat \ {0}
  BY CalibrationAssumption
<1>2. /\ a \in (-One .. One) \X (-One .. One) \X (-One .. One)
      /\ b \in (-One .. One) \X (-One .. One) \X (-One .. One)
      /\ c \in (-One .. One) \X (-One .. One) \X (-One .. One)
  OBVIOUS
<1>3. a \in Vectors /\ b \in Vectors /\ c \in Vectors
  BY <1>1, <1>2 DEF Vectors
<1>4. Volume(P, <<i, j, k>>) = Det(a, b, c)
  BY DEF Volume
<1>5. Coords(P, g, <<i, j, k>>) = <<Cut(s * Det(g, b, c)), Cut(s * Det(a, g, c)), Cut(s * Det(a, b, g))>>
  BY <1>4 DEF Coords
<1>6. /\ ~Below(Det(a, b, c), One * One * One)
      /\ \A l \in 1 .. 3 : Coords(P, g, <<i, j, k>>)[l] >= 0
  BY <1>4 DEF PositiveOctant
<1>7. basis.points = <<i, j, k>> /\ basis.weights = Coords(P, g, <<i, j, k>>)
  OBVIOUS
<1> HIDE DEF basis
<1>8. Weighted(P, basis)
        = <<Cut(s * Det(g, b, c)) * a[1] + Cut(s * Det(a, g, c)) * b[1] + Cut(s * Det(a, b, g)) * c[1],
            Cut(s * Det(g, b, c)) * a[2] + Cut(s * Det(a, g, c)) * b[2] + Cut(s * Det(a, b, g)) * c[2],
            Cut(s * Det(g, b, c)) * a[3] + Cut(s * Det(a, g, c)) * b[3] + Cut(s * Det(a, b, g)) * c[3]>>
  BY <1>5, <1>7 DEF Weighted
<1>9. s \in {-1, 1}
  BY DEF Sign
<1>10. Sign(Volume(P, basis.points)) * Volume(P, basis.points) = d
  BY <1>4, <1>7
<1> HIDE DEF a, b, c
<1>11. \A l \in 1 .. 3 : /\ Det(a, b, c) \in Int /\ Turned(s, a, b, c, g, l)
  BY <1>3, <1>9, GivesBack
<1>12. d \in Nat /\ d > 0
  <2>1. Det(a, b, c) \in Int
    BY <1>11
  <2>2. Det(a, b, c) # 0
    <3>1. One * One * One > 0
      <4>1. ASSUME NEW m \in Nat \ {0}, NEW n \in Nat \ {0} PROVE m * n \in Nat \ {0}
        BY <4>1
      <4>2. One * One \in Nat \ {0}
        BY <1>1, <4>1
      <4>3. One * One * One \in Nat \ {0}
        BY <1>1, <4>1, <4>2
      <4> QED
        BY <4>3
    <3>2. InvEpsilon * 0 = 0 /\ -InvEpsilon * 0 = 0
      BY <1>1
    <3>3. Below(0, One * One * One)
      BY <3>1, <3>2 DEF Below
    <3> QED
      BY <1>6, <3>3
  <2>3. ASSUME NEW n \in Int, n # 0 PROVE Sign(n) * n \in Nat /\ Sign(n) * n > 0
    BY <2>3 DEF Sign
  <2> QED
    BY <2>1, <2>2, <2>3
<1>13. PICK u \in Int, v \in Int, w \in Int :
         u = s * Det(g, b, c) /\ v = s * Det(a, g, c) /\ w = s * Det(a, b, g)
  <2>1. ASSUME NEW x \in Vectors, NEW y \in Vectors, NEW z \in Vectors PROVE Det(x, y, z) \in Int
    <3>1. 1 \in 1 .. 3
      OBVIOUS
    <3> QED
      BY <1>9, <3>1, GivesBack
  <2>2. Det(g, b, c) \in Int /\ Det(a, g, c) \in Int /\ Det(a, b, g) \in Int
    BY <1>3, <2>1
  <2>3. ASSUME NEW n \in Int PROVE s * n \in Int
    BY <1>9
  <2> QED
    BY <2>2, <2>3
<1> HIDE DEF s, d
<1>14. ASSUME NEW l \in 1 .. 3
       PROVE  LET off == InvEpsilon * ((Cut(u) * a[l] + Cut(v) * b[l] + Cut(w) * c[l]) - d * g[l]) IN
              off <= 3 * (d * One) /\ -off <= 3 * (d * One)
  <2>1. a[l] \in -One .. One /\ b[l] \in -One .. One /\ c[l] \in -One .. One /\ g[l] \in Int
    BY <1>2 DEF Vectors
  <2>2. u * a[l] + v * b[l] + w * c[l] = d * g[l]
    BY <1>11, <1>13 DEF Turned, d
  <2> QED
    BY <1>12, <2>1, <2>2, SumIsNear
<1> DEFINE W(l) == Cut(u) * a[l] + Cut(v) * b[l] + Cut(w) * c[l]
<1>15. \A l \in 1 .. 3 : Weighted(P, basis)[l] = W(l)
  <2>1. Weighted(P, basis) = <<W(1), W(2), W(3)>>
    BY <1>8, <1>13
  <2> HIDE DEF W
  <2> QED
    BY <2>1
<1>16. \A l \in 1 .. 3 : /\ InvEpsilon * (W(l) - d * g[l]) <= 3 * (d * One)
                         /\ -(InvEpsilon * (W(l) - d * g[l])) <= 3 * (d * One)
  BY <1>14
<1> HIDE DEF W
<1>17. Surround(P, basis, g)
  BY <1>6, <1>7, <1>10, <1>12, <1>15, <1>16 DEF Surround
<1> QED
  BY <1>17 DEF basis

\* A gaze is corrected only when the calibration is done.
CorrectsWhenDone == corrected # <<>> => m_customCalibPhase = "Done"

LEMMA CorrectsStep == CorrectsWhenDone /\ [Next]_vars => CorrectsWhenDone'
<1> SUFFICES ASSUME CorrectsWhenDone, [Next]_vars PROVE CorrectsWhenDone'
  OBVIOUS
<1>1. CASE UNCHANGED vars
  BY <1>1 DEF vars, CorrectsWhenDone
<1>2. CASE CustomCalibrate
  BY <1>2 DEF CustomCalibrate, CorrectsWhenDone
<1>3. ASSUME NEW close \in BOOLEAN, ApplyCustomCalib(close) PROVE CorrectsWhenDone'
  <2>1. CASE Started.phase # "Done"
    BY <1>3, <2>1 DEF ApplyCustomCalib, Correct, CorrectsWhenDone
  <2>2. CASE Started.phase = "Done"
    BY <1>3, <2>2 DEF ApplyCustomCalib, Rest, Stay, StartDecreases, StartMoves, TargetDecreases, TargetMoves,
                      CorrectsWhenDone
  <2> QED
    BY <2>1, <2>2
<1> QED
  BY <1>1, <1>2, <1>3 DEF Next

LEMMA Corrected ==
  ASSUME GazesAreDirections, IInv, CorrectsWhenDone
  PROVE  OutsideIsNearest
<1> SUFFICES ASSUME corrected # <<>>, ~Ahead(corrected)
             PROVE  \/ Surround(m_customCalibPoints, Basis, corrected)
                    \/ \A i \in DOMAIN m_customCalibPoints :
                         Dot(corrected, m_customCalibPoints[Basis.points[1]].gaze)
                           >= Dot(corrected, m_customCalibPoints[i].gaze)
  BY DEF OutsideIsNearest
<1> DEFINE P == m_customCalibPoints
           g == corrected
<1>1. g \in Vectors
  BY DEF IInv, TypeOK, GazesAreDirections
<1>2. P \in Seq(Point) /\ Len(P) = NPoints /\ DOMAIN P = 1 .. NPoints
  BY DEF IInv, Consistent, CorrectsWhenDone
<1>3. NPoints \in Nat /\ NPoints >= 4 /\ Middle \in 1 .. NPoints
  BY MiddleIsIn DEF GazesAreDirections
<1>4. \A i \in 1 .. NPoints : P[i].gaze \in (-One .. One) \X (-One .. One) \X (-One .. One)
  <2> SUFFICES ASSUME NEW i \in 1 .. NPoints
               PROVE  P[i].gaze \in (-One .. One) \X (-One .. One) \X (-One .. One)
    OBVIOUS
  <2>1. P[i] \in Point
    BY <1>2
  <2>2. PICK p \in Places : P[i].gaze \in Measured(p)
    BY <2>1 DEF Point
  <2> QED
    BY <2>2 DEF GazesAreDirections
<1>5. \A i \in 1 .. NPoints : P[i].gaze \in Vectors
  <2>1. (-One .. One) \X (-One .. One) \X (-One .. One) \subseteq Vectors
    BY CalibrationAssumption DEF Vectors
  <2> QED
    BY <1>4, <2>1
<1>6. ~Ahead(g)
  OBVIOUS
<1> HIDE DEF P, g
<1>7. CASE PositiveOctant(P, g, Tried(P, g))
  <2>1. PICK i \in 1 .. NPoints, j \in 1 .. NPoints, k \in 1 .. NPoints : Tried(P, g) = <<i, j, k>>
    BY <1>1, <1>2, <1>5, TriedAreIn
  <2>2. FindBasis(P, g) = [points |-> <<i, j, k>>, weights |-> Coords(P, g, <<i, j, k>>)]
    BY <1>6, <1>7, <2>1 DEF FindBasis
  <2>3. Surround(P, FindBasis(P, g), g)
    <3>1. \A l \in {i, j, k} : P[l].gaze \in (-One .. One) \X (-One .. One) \X (-One .. One)
      BY <1>4
    <3> QED
      BY <1>1, <1>7, <2>1, <2>2, <3>1, OctantSurrounds
  <2> QED
    BY <2>3 DEF Basis, P, g
<1>8. CASE ~PositiveOctant(P, g, Tried(P, g))
  <2> DEFINE near == Nearest(P, g, 1 .. NPoints)
  <2>1. FindBasis(P, g) = Alone(near)
    BY <1>2, <1>6, <1>8 DEF FindBasis
  <2>2. FindBasis(P, g).points[1] = near
    BY <2>1 DEF Alone
  <2>3. near \in 1 .. NPoints /\ \A j \in 1 .. NPoints : Dot(g, P[j].gaze) <= Dot(g, P[near].gaze)
    <3>1. 1 .. NPoints \in SUBSET (1 .. NPoints) /\ 1 .. NPoints # {}
      BY <1>3
    <3> QED
      BY <1>1, <1>3, <1>5, <3>1, NearestIs
  <2>4. \A i \in 1 .. NPoints : Dot(g, P[near].gaze) \in Int /\ Dot(g, P[i].gaze) \in Int
    <3>1. ASSUME NEW u \in Vectors, NEW v \in Vectors PROVE Dot(u, v) \in Int
      BY DEF Dot, Vectors
    <3> QED
      BY <1>1, <1>5, <2>3, <3>1
  <2> HIDE DEF near
  <2>5. \A i \in 1 .. NPoints : Dot(g, P[near].gaze) >= Dot(g, P[i].gaze)
    BY <2>3, <2>4
  <2> QED
    BY <1>2, <2>2, <2>5 DEF Basis, P, g
<1> QED
  BY <1>7, <1>8

\* A gaze that is not straight ahead gets three points that surround it, but for the
\* tolerance of the weights, or the nearest point: Stimulus.cpp:412-505.
THEOREM OutsideGetsNearest == ASSUME GazesAreDirections PROVE Spec => []OutsideIsNearest
<1>1. Init => CorrectsWhenDone
  BY DEF Init, CorrectsWhenDone
<1>2. IInv /\ CorrectsWhenDone => OutsideIsNearest
  BY Corrected
<1> QED
  BY <1>1, <1>2, CorrectsStep, Invariance, PTL DEF Spec
================================================================================
