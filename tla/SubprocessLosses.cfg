\* Each of these is violated; TLC stops at the first.
CONSTANTS
  Timeout = 2
  KillTimeout = 2
  MaxClock = 5
  Writes = 2
SPECIFICATION FairSpec
INVARIANTS TerminationDetected
PROPERTIES LimitKept
CHECK_DEADLOCK FALSE
