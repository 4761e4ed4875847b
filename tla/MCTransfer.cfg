CONSTANTS
  base = base
  turris = turris
  extra = extra
  disk = disk
  baseSig = baseSig
  turrisSig = turrisSig
  extraSig = extraSig
  diskSig = diskSig
  NONE = NONE
  Parallel = 2
  Uri <- MCUri
  Downloads <- MCDownloads
  sigOf <- MCSigOf
  Remote <- MCRemote
  Optional <- MCOptional
  Signed <- MCSigned
SPECIFICATION FairSpec
INVARIANTS Lifetimes
PROPERTIES TransfersEnd ImplementsFetch
CHECK_DEADLOCK FALSE
