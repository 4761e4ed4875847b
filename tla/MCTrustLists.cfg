CONSTANTS
  index = index
  package = package
  signature = signature
  ca = ca
  crl = crl
  NoParent = NoParent
  Uris <- MCUris
  Items <- MCItems
SPECIFICATION LSpec
INVARIANTS RefsExact
SYMMETRY MCSymmetry
CHECK_DEADLOCK FALSE
