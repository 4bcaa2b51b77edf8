CONSTANTS
  Sets <- MCSets
  Rays <- MCRays
  NumGates = 5
SPECIFICATION Spec
INVARIANTS
  CornersAgree
  FlagsEnclosedGates
CHECK_DEADLOCK FALSE
