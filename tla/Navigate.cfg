SPECIFICATION Spec
CONSTANTS
  LastTime = 8
  RaysPerSweep = 2
  MaxGen = 2
  Frames = {0, 1}
  SE_FRAME = 2
  Lock <- AllLinked
  Link <- NoneLinked
  EditFrames = {0}
  InitDir <- FileVolumeFile
  InitFiles <- InFileVolumeFile
  Commands = {}
  PlotCommands = {"replot_lock_step", "replot_this_frame", "forward_once", "backwards_once"}
  Gestures = {"escape", "click", "reset_times", "first_sweep", "last_sweep"}
  WriteResults = {TRUE}
  SE_UNDO_DEPTH = 2
  MaxDoIts = 2
PROPERTIES
  ForwardShowsNext
  NewFileFromItsStart
CHECK_DEADLOCK FALSE
