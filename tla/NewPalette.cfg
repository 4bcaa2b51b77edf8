CONSTANTS
  Frames <- MCFrames
  Fields <- MCFields
  LockStep <- Alone
  Items <- MCItems
  Values <- MCValues
  Plain <- MCPlain
  Typed <- ANewName
  Stock <- MCStock
  Gestures <- MCGestures
  MaxGestures = 6
SPECIFICATION Spec
PROPERTIES
  NewPaletteHasItems
CHECK_DEADLOCK FALSE
