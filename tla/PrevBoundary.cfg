CONSTANTS
  north = north
  south = south
  Points <- MCPoints
  NoPoint = NoPoint
  NumBpms = 4
  NumObs = 2
  SetsKept = 2
  ImportFiles <- MCImportFiles
  LongBytes = 8
SPECIFICATION LongSpec
PROPERTIES
  SetsComeBack
