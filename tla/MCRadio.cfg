SPECIFICATION FairSpec
CONSTANTS
  Config = {c1, c2}
  Defaults = c1
  NoFile = NoFile
  LBT_TRIES = 2
  MaxSends = 2
  MaxSaves = 1
  MaxUploads = 1
  MaxReboots = 1
INVARIANTS
  FreeMeansListening
  DeafOnlyWhileSending
  TalksOnClearChannel
  SavedMeansApplied
PROPERTIES
  FramesAreTaken
  SendsEnd
