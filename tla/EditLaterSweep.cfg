SPECIFICATION FairSpec
CONSTANTS
  LastTime = 4
  RaysPerSweep = 2
  MaxGen = 2
  Frames = {0}
  SE_FRAME = 2
  Lock <- AllLinked
  Link <- AllLinked
  EditFrames = {0}
  InitDir <- Volume
  InitFiles <- InVolume
  Commands = {"edit"}
  PlotCommands = {"forward_once"}
  Gestures = {}
  WriteResults = {TRUE}
  SE_UNDO_DEPTH = 2
  MaxDoIts = 2
INVARIANTS
  EditsPlottedSweep
CHECK_DEADLOCK FALSE
