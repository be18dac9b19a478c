SPECIFICATION Spec
CONSTANTS
  Reader = {r1, r2}
  Writer = {w1, w2}
  Byte = {0, 1}
  PIPESIZE = 2
  UintMod = 4
  MaxCount = 3
  NoProc = NoProc
SYMMETRY PipeSymmetry
CHECK_DEADLOCK FALSE
INVARIANTS
  NoLostWakeup
  NoUseAfterFree
PROPERTIES
  Fifo
