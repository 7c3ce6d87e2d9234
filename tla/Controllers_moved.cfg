SPECIFICATION Spec
CONSTANTS
  home = home
  away = away
  Hands <- MCHands
  Poses <- MCPoses
  DeltaTimes <- MCDeltas
  MCNoActionTimeout = 10
PROPERTY ShownOnlyIfMoved
