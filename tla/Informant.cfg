SPECIFICATION Spec
CONSTANTS
  home = home
  away = away
  Hands <- MCHands
  Poses <- MCPoses
  DeltaTimes <- MCDeltas
  MCNoActionTimeout = 2
  MaxSamples = 2
  Chunks <- MCChunks
  MaxCaptured = 4
  MaxPresses = 2
INVARIANTS NothingLost OnlyTailsTwice
PROPERTIES NotHiddenInUse QueueDrains
