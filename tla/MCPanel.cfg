CONSTANTS
  DEBOUNCE = 1
  SOS_HOLD = 2
  BTN2_LONG = 1
  HOLD_WAKE_WINDOW = 3
  SLEEP_TIMEOUT = 3
  MSG_OVERLAY = 2
  ALERT_TIME = 1
  PROGRESS_STALE = 3
  QUEUE_DEPTH = 2
  MSG_RING_SIZE = 2
  PAGES = 2
  MaxChanges = 3
  MaxPosts = 3
  MaxNotes = 1
SPECIFICATION FairSpec
CHECK_DEADLOCK FALSE
INVARIANT TypeOK
INVARIANT DetailShowsTheKthNewest
INVARIANT ShownIsCurrent
PROPERTY WakingPressOnlyWakes
PROPERTY SosIsHeldAndOnce
PROPERTY ScreenSleeps
