SPECIFICATION FairSpec
CONSTANTS
  Pieces = 3
  SEQ_MOD = 4
  MAX_RETRIES = 3
  Frames = 3
  MaxLost = 2
CHECK_DEADLOCK FALSE
INVARIANTS
  InStep
PROPERTIES
  ImplementsTransfer
  BothReport
