SPECIFICATION Spec
CONSTANTS
  Reader = {r1}
  Writer = {w1, w2}
  Byte = {0, 1}
  PIPESIZE = 2
  UintMod = 4
  MaxCount = 3
  NoProc = NoProc
CHECK_DEADLOCK FALSE
INVARIANT SleepsOnlyOnEmpty
