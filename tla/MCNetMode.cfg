SPECIFICATION FairSpec
CONSTANTS
  WebCommand = {"serialOn", "fileEnd"}
  ACK_TICKS = 1
  MaxSends = 2
  MaxJoins = 2
  MaxReboots = 1
  MaxCommands = 2
INVARIANT
  TypeOK
PROPERTIES
  NetModeEnds
  JoinedComesAlive
