SPECIFICATION Spec
CONSTANTS
  k1 = k1
  k2 = k2
  Key = {k1, k2}
  Unknown = {k2}
  MaxVer = 2
  MaxLog = 2
  MaxClock = 3
  Margin = 1
  Rollback = 0
  ApplyMaxRetries = 1
  MaxFaults = 1
  MaxRestarts = 1
  MaxReports = 1
INVARIANT IndexIsExplained
