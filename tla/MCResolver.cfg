SPECIFICATION RSpec
CONSTANTS
  Names <- MCNames
  Alphabet <- MCAlphabet
  Configs <- MCConfigs
  Keys <- MCKeys
INVARIANTS DepthFirst Sound InTurn BestCandidates NothingNeedless BestFirst
CHECK_DEADLOCK FALSE
