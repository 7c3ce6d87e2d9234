SPECIFICATION Spec
CONSTANTS
  i1 = i1
  i2 = i2
  x1 = x1
  Images <- MCImages
  AOINames <- MCAOINames
  Words <- MCWords
  MaxWallsCount = 3
  MaxQueue = 1
  MaxWords = 2
  UniqueNames = TRUE
  None = None
INVARIANTS SelectionFresh SelectionMirror WallMirror ListsOfImage
PROPERTIES NearestFirst
