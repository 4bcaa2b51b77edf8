SPECIFICATION FairSpec
CONSTANTS
  LastTime = 4
  RaysPerSweep = 2
  MaxGen = 2
  Frames = {0, 1}
  SE_FRAME = 2
  Lock <- AllLinked
  Link <- AllLinked
  EditFrames = {1}
  InitDir <- TwoFiles
  InitFiles <- InTwoFiles
  Commands = {"edit"}
  PlotCommands = {}
  Gestures = {}
  WriteResults = {TRUE}
  SE_UNDO_DEPTH = 2
  MaxDoIts = 2
INVARIANTS
  EveryEditUndoable
CHECK_DEADLOCK FALSE
