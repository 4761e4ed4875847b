CONSTANTS
  a = a
  b = b
  c = c
  k = k
  x = x
  y = y
  z = z
  w = w
  v = v
  l = l
  m = m
  none = none
  norec = norec
  Pkgs <- MCPkgs
  Files <- MCFiles
  Confs <- MCConfs
  Installed <- MCInstalled
  OldFiles <- MCOldFiles
  NewFiles <- MCNewFiles
  Blocks <- MCBlocks
  OldAlternatives <- MCOldAlternatives
  NewAlternatives <- MCFewAlternatives
  LinkPaths <- MCLinkPaths
  NoLink = none
  Plans <- MCOnePlan
  UserFiles <- MCUserDropped
  FailScripts <- MCFail
  UnpackMayFail = TRUE
  MoveMayError = TRUE
  ChangelogMayFail = FALSE
  LibArchive <- MCLibArchive
  MvMayFail = TRUE
  MaxCrashes = 2
  NoParams = none
  NoRecord = norec
  RecordSize = 2
  MaxFrames = 12
SPECIFICATION Spec
\* Each of these is violated; TLC stops at the first.
INVARIANTS
  UserChangesKept
  SkippedIsMerged
  RecoverAssertion
  AlternativesAlwaysBest
  ChangelogAlwaysTold
  StatusTruth
CHECK_DEADLOCK FALSE
