CONSTANTS
  Timeout = 2
  KillTimeout = 2
  MaxClock = 5
  Writes = 2
SPECIFICATION FairSpec
INVARIANTS OutputForwarded
PROPERTIES Returns
CHECK_DEADLOCK FALSE
