SPECIFICATION Spec
CONSTANTS
  NPROC = 3
  CPU = {c0}
  Cpu0 = c0
  NoCpu = NoCpu
  SleepTicks = 1
  MaxPid = 3
PROPERTY BornAlive
