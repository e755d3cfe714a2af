SPECIFICATION AgentSideSpec
CONSTANTS
  Conn = {1, 2}
  Revoker = {k1}
  Other = other
  NoConn = none
  SendCap = 1
  MaxQueued = 2
  Stream = {1, 2}
  NoStream = none
  Task = {t1}
  Ticker = ticker
  MaxGen = 3
  MaxPush = 1
  AgentName = {"host", "site"}
  Hostname = "host"
INVARIANT RegistrySound
PROPERTIES RevokeIsExact  RevokedIsOut CredentialsServe EnrolmentHolds
CHECK_DEADLOCK FALSE
