SPECIFICATION FairSpec
CONSTANTS
  MaxList = 2
  Binds = 1
  Dials = 1
  Rings = 1
  Calls = 1
INVARIANTS TypeOK BlocksCounted BuffersHeld
PROPERTY LockGivenBack
CHECK_DEADLOCK FALSE
