CONSTANTS
  Frames <- MCFrames
  Fields <- MCFields
  LockStep <- Alone
  Items <- MCItems
  Values <- MCValues
  Plain <- MCPlain
  Typed <- MCTyped
  Stock <- MCStock
  Gestures <- MCGestures
  MaxGestures = 6
SPECIFICATION Spec
PROPERTIES
  ChosenPaletteStays
  PlottedInItsPalette
  OnlyTypedItems
CHECK_DEADLOCK FALSE
