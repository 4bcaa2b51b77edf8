SPECIFICATION Spec
CONSTANTS
  LastTime = 3
  RaysPerSweep = 2
  MaxGen = 1
  Dgis = {view, editor}
  Writers = {editor}
  InitFiles <- MCFiles
  Names <- MCNames
  Requests <- MCRequests
  Sought <- MCSought
  MaxRays = 1
  MaxWrites = 1
INVARIANTS
  TypeOK
  ReadsInBounds
  OneImagePerPass
  LastWrittenOnDisk
CHECK_DEADLOCK FALSE
