SPECIFICATION FairSpec
CONSTANTS
  LastTime = 6
  RaysPerSweep = 2
  MaxGen = 2
  Frames = {0}
  SE_FRAME = 2
  Lock <- AllLinked
  Link <- AllLinked
  EditFrames = {0}
  InitDir <- VolumeAndFile
  InitFiles <- InVolumeAndFile
  Commands = {"edit", "no_such_field", "use_then_drop"}
  PlotCommands = {"replot_lock_step", "forward_once"}
  Gestures = {"escape", "reset_times", "first_sweep", "last_sweep"}
  WriteResults = {TRUE, FALSE}
  SE_UNDO_DEPTH = 2
  MaxDoIts = 2
INVARIANTS
  VolumesUntouched
PROPERTIES
  FrameFollowsEdit
  DoItReturns
  ForwardShowsNext
  NewFileFromItsStart
  OnlyGivingUpLeavesRays
CHECK_DEADLOCK FALSE
