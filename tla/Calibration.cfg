SPECIFICATION Spec
CONSTANTS
  POINTS_PER_ROW = 3
  ROWS_IN_PATTERN = 3
  SAMPLES_TO_START = 3
  SAMPLES_TO_START_MOVE = 2
  SAMPLES_TO_DECREASE = 5
  SAMPLES_TO_MOVE = 2
  SAMPLES_TO_REJECT = 2
  One = 89
  InvEpsilon = 12
  Measured <- MCMeasured
  Gazes <- MCGazes
INVARIANTS PointsInPlace  OutsideIsNearest
PROPERTIES CalibrationEnds
