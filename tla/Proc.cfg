SPECIFICATION Spec
CONSTANTS
  NPROC = 3
  CPU = {c0, c1}
  Cpu0 = c0
  NoCpu = NoCpu
  SleepTicks = 1
  MaxPid = 3
INVARIANTS
  TableConsistent
  StackExclusive
  WaitNotLost
  TickNotLost
