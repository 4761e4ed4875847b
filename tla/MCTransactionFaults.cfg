CONSTANTS
  a = a
  b = b
  c = c
  k = k
  x = x
  y = y
  z = z
  w = w
  v = v
  l = l
  m = m
  none = none
  norec = norec
  Pkgs <- MCSmallPkgs
  Files <- MCSmallFiles
  Confs <- MCConfs
  Installed <- MCSmallInstalled
  OldFiles <- MCOldFiles
  NewFiles <- MCSmallNew
  Blocks <- MCBlocks
  OldAlternatives <- MCFewAlternatives
  NewAlternatives <- MCFewAlternatives
  LinkPaths = {}
  NoLink = none
  Plans <- MCSmallPlan
  UserFiles <- MCSmallUser
  FailScripts <- MCSmallFail
  UnpackMayFail = TRUE
  MoveMayError = TRUE
  ChangelogMayFail = TRUE
  LibArchive <- MCLibArchive
  MvMayFail = TRUE
  MaxCrashes = 2
  NoParams = none
  NoRecord = norec
  RecordSize = 2
  MaxFrames = 12
SPECIFICATION FairSpec
PROPERTIES StatusAfterScripts TransactionEnds
CHECK_DEADLOCK FALSE
