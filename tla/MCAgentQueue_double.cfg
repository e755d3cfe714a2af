SPECIFICATION Spec
CONSTANTS
  NTask = 1
  Worker = {w1, w2}
  Path = {p1}
  TailPath = {}
  MaxVer = 1
  BigVer = {}
  Upload = {u1}
  NoUpload = NoUpload
  RetryMax = 2
  QueueMax = 1
  Legacy = {}
  MaxCrashes = 0
  MaxFaults = 0
  MaxMishaps = 1
CHECK_DEADLOCK FALSE
SYMMETRY Symmetric
PROPERTY ReportedNeverRequeued
