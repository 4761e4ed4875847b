CONSTANTS
  a = a
  b = b
  c = c
  k = k
  x = x
  y = y
  z = z
  w = w
  v = v
  l = l
  m = m
  none = none
  norec = norec
  Pkgs <- MCPkgs
  Files <- MCFiles
  Confs <- MCConfs
  Installed <- MCInstalled
  OldFiles <- MCOldFiles
  NewFiles <- MCNewFiles
  Blocks <- MCBlocks
  OldAlternatives <- MCOldAlternatives
  NewAlternatives <- MCNewAlternatives
  LinkPaths <- MCLinkPaths
  NoLink = none
  Plans <- MCPlans
  UserFiles <- MCUserFiles
  FailScripts <- MCFail
  UnpackMayFail = TRUE
  MoveMayError = FALSE
  ChangelogMayFail = FALSE
  LibArchive <- MCNone
  MvMayFail = FALSE
  MaxCrashes = 3
  NoParams = none
  NoRecord = norec
  RecordSize = 2
  MaxFrames = 12
SPECIFICATION Spec
INVARIANTS StatusTruth JournalCovers UserConfigKept ScriptsReported ChangelogTold AlternativesBest NoLeftovers RefusedUntouched ChangesKept
PROPERTIES PostScriptsSettled
CHECK_DEADLOCK FALSE
