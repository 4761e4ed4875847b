CONSTANTS
  a = a
  b = b
  c = c
  Names <- MCNames
  Inputs <- MCInputs
SPECIFICATION Spec
INVARIANTS DependenciesFirst Complete
PROPERTIES PlanEnds
CHECK_DEADLOCK FALSE
