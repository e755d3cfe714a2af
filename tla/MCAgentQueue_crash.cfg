SPECIFICATION Spec
CONSTANTS
  NTask = 2
  Worker = {w1}
  Path = {p1}
  TailPath = {}
  MaxVer = 2
  BigVer = {1, 2}
  Upload = {u1, u2}
  NoUpload = NoUpload
  RetryMax = 2
  QueueMax = 1
  Legacy = {}
  MaxCrashes = 1
  MaxFaults = 0
  MaxMishaps = 1
SYMMETRY Symmetric
INVARIANTS UploadTracked  RowsAccounted
CHECK_DEADLOCK FALSE
