SPECIFICATION Spec
CONSTANTS
  NGates = 3
  NRays = 2
  UNIT = 4
  TOP = 127
  MaxSlots = 5
  FileFields <- ThreeFields
  Prefixes = {}
  M = M
  Missing = M
  Rays <- ThreeRays
  Masks <- ThreeMasks
  Lists <- Rename
  first_good_gate = 1
  gates_of_shift = 1
  gate_diff_interval = 1
  nyquist_velocity = 12
PROPERTIES
  NewFieldsWritten
CHECK_DEADLOCK FALSE
