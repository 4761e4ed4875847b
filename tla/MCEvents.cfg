CONSTANTS
  cp = cp
  mv = mv
  Self = Self
  Cmds <- MCCmds
  Timed <- MCTimed
  Moves <- MCMoves
  Postforked <- MCPostforked
SPECIFICATION FairSpec_L
INVARIANTS NoZombieLost CallbackDataKept
PROPERTIES CalledWhenComplete WaitReturns
CHECK_DEADLOCK FALSE
