CONSTANTS
  base = base
  self = self
  app = app
  tool = tool
  gone = gone
  lib = lib
  ext = ext
  Pkgs <- MCPkgs
  Wanted <- MCWanted
  Depends <- MCDepends
  OldDepends <- MCOldDepends
  Touched <- MCTouched
  Confs <- WithReinstalled
  MaxFaults = 1
SPECIFICATION FairSpec
\* Each of these is violated; TLC stops at the first.
INVARIANTS SeenBefore AbiAlwaysFollowed RemovedAlwaysFirst
PROPERTIES
  RebootDone
  RunsEnd
