CONSTANTS
  north = north
  south = south
  Points <- MCPoints
  NoPoint = NoPoint
  NumBpms = 4
  NumObs = 2
  SetsKept = 2
  ImportFiles <- MCImportFiles
  LongBytes = 4
VIEW Shape
CONSTRAINT FewSaved
SPECIFICATION Spec
INVARIANTS
  ListsIntact
PROPERTIES
  ButtonsKeepPromises
