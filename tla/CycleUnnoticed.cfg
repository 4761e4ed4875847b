CONSTANTS
  a = a
  b = b
  c = c
  Names <- MCNames
  Inputs <- Ordinary
SPECIFICATION Spec
INVARIANTS CriticalAcyclic
CHECK_DEADLOCK FALSE
