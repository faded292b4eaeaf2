CONSTANTS
  Passwords = {p1, p2}
  NoPassword = none
  AUTH_MAX_SESSIONS = 2
  MaxSets = 1
  MaxTokens = 2
  MaxRestarts = 1
  Clients = {c}
  Replier = {worker}
  EventTask = {log, heap}
  Worker = worker
  WS_RX_QUEUE_LEN = 1
  WS_OUT_QUEUE_LEN = 3
  WS_OUT_RESERVED = 2
  MaxChunks = 3
  MaxFrames = 2
SYMMETRY Symmetry
SPECIFICATION Spec
CHECK_DEADLOCK FALSE
INVARIANT SessionsOfThisPassword
INVARIANT PasswordInForceIsStored
INVARIANT MessagesAreWhole
INVARIANT MemoryAccounted
INVARIANT EventsLeaveRoom
