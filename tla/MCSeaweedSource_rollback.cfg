SPECIFICATION FairSpec
CONSTANTS
  k1 = k1
  k2 = k2
  Key = {k1}
  Unknown = {}
  MaxVer = 1
  MaxLog = 2
  MaxClock = 3
  Margin = 1
  Rollback = 1
  ApplyMaxRetries = 0
  MaxFaults = 1
  MaxRestarts = 1
  MaxReports = 0
INVARIANT CursorSound
PROPERTY StreamAdvances
