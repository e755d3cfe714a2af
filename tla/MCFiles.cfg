SPECIFICATION FilesSpec
CONSTANTS
  MaxChange = 2
  MaxTime = 1
  b1 = b1
  b3 = b3
  b4 = b4
  e1 = e1
  e2 = e2
  e3 = e3
  Body = {b1, b3, b4}
  Event = {e1, e2, e3}
  Records <- MCRecords
  Garbage = {b3}
  Oversized = {b4}
  Undecodable = {e2}
  Ignored = {e3}
  FailLimit = 1
  Handler = {1, 2}
  Value = {a, b}
  NoValue = NoValue
  MaxRow = 2
  Flag = {"label", "allow_path_var"}
  DefaultOf <- MCDefaultOf
  KeyCall = {p1, p2}
  KeyValue = {v1, v2}
  MaxKey = 2
  Id = {1, 2, 3}
  EntryKind <- MCEntryKind
  Query <- MCQuery
  Created = {1, 2}
  LateCreated = {1, 3}
  DefaultLimit = 2
  MaxLimit = 2
  MaxEdit = 1
  DayLen = 2
  TrendDays = 2
  Horizon = 4
  Zone <- MCZone
  StatFile = {f1, f2}
  FPath <- MCPath
  FDir <- MCDir
  DotName = {".system", ".uploads"}
  S3Bucket = {"b"}
  MaxOp = 4
  MaxBacklog = 2
INVARIANTS IndexHolds ListsAreExact FiguresAgree TranslationIsFaithful
PROPERTIES NeverLostSilently ReviewHolds 
CHECK_DEADLOCK FALSE
