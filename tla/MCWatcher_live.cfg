SPECIFICATION FairSpec
CONSTANTS
  p1 = p1
  Path = {p1}
  LateDir = {}
  Backend = {"fsnotify", "polling"}
  MaxVer = 2
  ChanCap = 1
  KernelMax = 1
  MadeEvents = 1
  SweepEvery = 1
  MaxReloads = 1
PROPERTY FileNotLost
CHECK_DEADLOCK FALSE
