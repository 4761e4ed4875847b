CONSTANTS
  base = base
  self = self
  app = app
  tool = tool
  gone = gone
  lib = lib
  ext = ext
  Pkgs <- MCPkgs
  Wanted <- MCWanted
  Depends <- MCDepends
  OldDepends <- MCOldDepends
  Touched <- MCTouched
  Confs <- MCConfs
  MaxFaults = 2
SPECIFICATION FairSpec
INVARIANTS HooksPaired RebootKept NothingUnapproved AbiFollowed RemovedFirst
PROPERTIES Converges
