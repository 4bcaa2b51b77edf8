CONSTANTS
  InitDir <- MCInitDir
  InitFiles <- MCInitFiles
  Missing <- MCMissing
  Scale = 2
  ShortValues = 64
  Interval = 4
  AircraftVel = 1
  NewValues <- MCNewValues
  Operations <- MCOperations
  FoldsMissing = FALSE
  MaxChanges = 3
  MaxCommits = 1
VIEW Shape
CONSTRAINT BeforeLast
SPECIFICATION Spec
INVARIANTS
  ListIntact
  TakenBackIsUntouched
PROPERTIES
  WrittenAsShown
