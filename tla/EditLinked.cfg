SPECIFICATION Spec
CONSTANTS
  LastTime = 4
  RaysPerSweep = 2
  MaxGen = 3
  Frames = {0, 1}
  SE_FRAME = 2
  Lock <- AllLinked
  Link <- AllLinked
  EditFrames = {0}
  InitDir <- TwoFiles
  InitFiles <- InTwoFiles
  Commands = {"edit", "survey"}
  PlotCommands = {"replot_lock_step", "replot_this_frame", "forward_once", "backwards_once"}
  Gestures = {"escape", "click"}
  WriteResults = {TRUE, FALSE}
  SE_UNDO_DEPTH = 2
  MaxDoIts = 3
INVARIANTS
  EditsPlottedSweep
PROPERTIES
  EditsStack
  ReplotShowsDisk
  DoItsAreAtomic
CHECK_DEADLOCK FALSE
