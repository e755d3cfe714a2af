SPECIFICATION ServicesSpec
CONSTANTS
  b1 = b1
  b2 = b2
  b3 = b3
  e1 = e1
  e2 = e2
  Content <- MCContent
  PartSize = 2
  Threshold = 2
  MpUpload = {1, 2, 3, 4, 5}
  MaxEdits = 2
  MaxErrors = 2
  Rule = {"r1"}
  Variant <- MCVariant
  NFile = 1
  MaxVersion = 2
  MaxStamp = 2
  MaxWalk = 1
  TagValue = {a, b}
  NoTag = NoTag
  MaxJob = 2
  Caller = {u1, u2}
  PerMinute = 2
  WindowTTL = 2
  Creator = {c1, c2}
  RuleId = {r1, r2}
  TypeId = {1, 2}
  TypeName = {"x", "y"}
  MaxTypeEdit = 3
  Body = {b1, b2, b3}
  Event = {e1, e2}
  Records <- MCRecords
  Garbage = {b3}
  Oversized = {}
  Undecodable = {e2}
  Ignored = {}
  FailLimit = 1
  Handler = {1}
  DefaultBucket = {d1, d2}
PROPERTIES   RuleStops JobsRun LimitIsPerWindow
            FeedFlows ExitIsRight
CHECK_DEADLOCK FALSE
