SPECIFICATION FairSpec
CONSTANTS
  Request = {r1, r2}
  Nobody = Nobody
  Chunks = 2
  MaxUploads = 3
  MaxSaves = 2
  MaxReboots = 2
INVARIANTS
  NoSaveDuringUpdate
  SettingsCarried
  OfflineExactly
  RadioAccounted
PROPERTY
  RadioComesBack
