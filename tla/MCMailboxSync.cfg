SPECIFICATION MCSpec
CONSTANTS
  phone = phone laptop = laptop r1 = r1 r2 = r2
  Runs <- Two
  Streams <- PeerSends
  Devices <- Both
  Limit = 2
  MaxSkip = 2
  Kept = 2
  MaxCrashes = 1
  MaxFailures = 1
CHECK_DEADLOCK FALSE
INVARIANTS TextsKept SavesStick
PROPERTY KeepsCatchingUp
