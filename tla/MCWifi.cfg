SPECIFICATION FairSpec
CONSTANTS
  Net = {home, other}
  Stored = home
  MaxProvisions = 1
  MaxSaves = 1
  MaxReboots = 1
  MaxLost = 2
\* A board in AP mode that nobody asks for anything is at rest.
CHECK_DEADLOCK FALSE
INVARIANT
  TypeOK
PROPERTIES
  ReachableAgain
  KeepsTrying
  FallbackStops
