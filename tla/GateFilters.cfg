SPECIFICATION FairSpec
CONSTANTS
  NGates = 5
  Bad <- DELETE_FLAG
  Values <- ThreeValues
  Masks <- OneStretch
  Filters = {"despeckle", "do-defreckling", "flag-glitches", "BB-unfolding"}
  a_speckle = 2
  freckle_avg_count = 2
  freckle_threshold = 2
  deglitch_radius = 1
  deglitch_threshold = 2
  deglitch_min_bins = 2
  que_size = 3
  nyqv = 2
  BB_avg_count = 2
  BB_max_pos_folds = 9
  BB_max_neg_folds = 9
INVARIANTS
  OutsideUntouched
  FlagsGoodGatesInside
  SpecklesRemoved
  AveragesGatesAhead
  DeletesWhatItWouldFlag
  WindowOfLastGates
PROPERTIES
  UnfoldsNextToAverage
  FiltersFinish
CHECK_DEADLOCK FALSE
