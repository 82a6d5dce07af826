CONSTANTS
  h1 = h1
  h2 = h2
  NoHolder = NoHolder
  Harnesses = {h1, h2}
  Locks = {"cpu0", "cpu1"}
  Cores = {0, 1}
  LockOf <- OneLock
  CoresOf <- OneCore
  Rows = 1
  MaxBuilds = 1
  Faults = {"rebuild"}
SPECIFICATION LockSpec
CHECK_DEADLOCK FALSE
INVARIANTS
  RecordedIsInvoked
