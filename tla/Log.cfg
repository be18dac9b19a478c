SPECIFICATION Spec
CONSTANTS
  Op = {o1, o2, o3}
  Block = {b1, b2}
  Val = {0, 1}
  MAXOPBLOCKS = 3
  OpBlocks = 2
  NoBlock = NoBlock
SYMMETRY LogSymmetry
INVARIANTS
  Durable
  SleeperHasWaker
PROPERTIES
  CrashAtomic
