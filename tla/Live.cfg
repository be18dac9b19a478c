SPECIFICATION FairSpec
CONSTANTS
  NoBlock = NoBlock
  NoProc = NoProc
CHECK_DEADLOCK FALSE
INVARIANTS
  NoLostInput
PROPERTIES
  BeginReturns
  OrphanReturns
  BreadReturns
  KilledReturns
  LineByLine
