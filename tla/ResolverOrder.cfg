SPECIFICATION RSpec
CONSTANTS
  Names <- MCNames
  Alphabet <- MCAlphabet
  Configs <- MCConfigs
  Keys <- MCKeys
\* Each of these is violated; TLC stops at the first.
INVARIANTS
  OptionalTolerated
  NewestFirst
  IntroducedFirst
  EarlierPreferred
CHECK_DEADLOCK FALSE
