SPECIFICATION Spec
CONSTANTS
  MaxStamp = 3
  MaxVersion = 1
  MaxFiles = 4
  AutoRescan = 3
INVARIANTS
  SearchAgrees
  EditorOpensLatest
  ListingsComplete
  BoundedStaleness
