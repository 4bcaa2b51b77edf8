SPECIFICATION Spec
CONSTANTS
  LastTime = 4
  RaysPerSweep = 2
  MaxGen = 2
  Frames = {0}
  SE_FRAME = 2
  Lock <- AllLinked
  Link <- AllLinked
  EditFrames = {0}
  InitDir <- TwoFiles
  InitFiles <- InTwoFiles
  Commands = {"edit", "survey", "no_such_field", "no_such_const", "empty"}
  PlotCommands = {"replot_lock_step", "forward_once", "backwards_once"}
  Gestures = {"escape", "click", "select", "last_sweep"}
  WriteResults = {TRUE, FALSE}
  SE_UNDO_DEPTH = 1
  MaxDoIts = 2
INVARIANTS
  WholeSweeps
  CachesFresh
CHECK_DEADLOCK FALSE
