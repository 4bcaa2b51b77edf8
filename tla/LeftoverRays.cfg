SPECIFICATION FairSpec
CONSTANTS
  LastTime = 4
  RaysPerSweep = 2
  MaxGen = 2
  Frames = {0}
  SE_FRAME = 2
  Lock <- AllLinked
  Link <- AllLinked
  EditFrames = {0}
  InitDir <- TwoFiles
  InitFiles <- InTwoFiles
  Commands = {"use_then_drop"}
  PlotCommands = {}
  Gestures = {}
  WriteResults = {TRUE}
  SE_UNDO_DEPTH = 2
  MaxDoIts = 2
INVARIANTS
  FreshVolumePerSweep
CHECK_DEADLOCK FALSE
