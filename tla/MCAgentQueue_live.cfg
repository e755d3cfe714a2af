SPECIFICATION FairSpec
CONSTANTS
  NTask = 3
  Worker = {w1}
  Path = {p1, p2}
  TailPath = {p2}
  MaxVer = 1
  BigVer = {1}
  Upload = {u1}
  NoUpload = NoUpload
  RetryMax = 2
  QueueMax = 2
  Legacy = {1}
  MaxCrashes = 1
  MaxFaults = 1
  MaxMishaps = 1
PROPERTY WorkIsSettled
CHECK_DEADLOCK FALSE
