SPECIFICATION Spec
CONSTANTS
  p1 = p1
  p2 = p2
  Proc = {p1, p2}
  NoProc = NoProc
  Inum = {1, 2, 3}
  Name = {"a", "b"}
  Calls <- MCCalls
  Refused = {p2}
  NINODE = 3
  MaxEntries = 2
  MaxRef = 1
CHECK_DEADLOCK FALSE
INVARIANT OrphanFreed
