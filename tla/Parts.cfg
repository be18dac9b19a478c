SPECIFICATION SumSpec
CONSTANTS
  CPU = {c1, c2}
  Lock = {1, 2}
  NoCpu = NoCpu
  Proc = {p1, p2}
  Inum = {i1, i2}
  NoProc = NoProc
  NoBlock = NoBlock
  NoThread = NoThread
SYMMETRY Symmetry
CHECK_DEADLOCK FALSE
INVARIANTS
  PartsOK
  MutualExclusion MaskedWhileHolding InterruptsRestored
  SwitchSafe
  RefExact BlocksOwned Dense
  PagesConserved SizeMapped Privileged
  FileIsLines
   
  ReservationFits
