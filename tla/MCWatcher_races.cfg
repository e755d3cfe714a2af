SPECIFICATION Spec
CONSTANTS
  p1 = p1
  Path = {p1}
  LateDir = {}
  Backend = {"fsnotify"}
  MaxVer = 2
  ChanCap = 1
  KernelMax = 1
  MadeEvents = 2
  SweepEvery = 2
  MaxReloads = 0
INVARIANT TimersTracked
PROPERTY DeliveredInOrder
CHECK_DEADLOCK FALSE
