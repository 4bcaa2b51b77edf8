SPECIFICATION FairSpec
CONSTANTS
  LastTime = 8
  RaysPerSweep = 2
  MaxGen = 2
  Frames = {0}
  SE_FRAME = 2
  Lock <- AllLinked
  Link <- AllLinked
  EditFrames = {0}
  InitDir <- FileVolumeFile
  InitFiles <- InFileVolumeFile
  Commands = {}
  PlotCommands = {"forward_once", "backwards_once"}
  Gestures = {}
  WriteResults = {TRUE}
  SE_UNDO_DEPTH = 2
  MaxDoIts = 2
PROPERTIES
  BackwardStepsWithin
CHECK_DEADLOCK FALSE
