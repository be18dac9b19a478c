SPECIFICATION Spec
CONSTANTS
  Proc = {p1, p2}
  Block = {k1, k2, k3, k4}
  Val = {v1, v2}
  NBUF = 3
  MaxPinned = 1
  NoBlock = NoBlock
  NoProc = NoProc
SYMMETRY BufSymmetry
INVARIANTS
  RightBlock
  
  SleeperSafe
PROPERTIES
  Transparent
