SPECIFICATION ControlPlaneSpec
CONSTANTS
  Small = small
  Large = large
  Rule = {r1}
  Content <- MCContent
  Off = off
  SizeOf <- MCSize
  Budget = 1
  Stream = {1, 2}
  Entry = {1, 2, 3}
  None = none
  Cap = 1
  RuleKey = {1, 2}
  RuleAgent = {"a1", "a2"}
  RuleCall = {k1, k2}
  RuleBody <- MCRuleBody
  TailSpelling = {"tail", " TAIL"}
  MaxRulesPerAgent = 1
  SnapshotBytes = 2
  PathRule <- MCPathRule
  LocalFile <- MCFile
  Agent <- MCAgent
  Instant = {2, 5}
  DayHours = 4
  OnlineTTL = 3
  Asker = {q1, q2}
  Nobody = Nobody
  RefreshToken = {t1, t2, t3}
  NoRefresh = NoRefresh
  Call = {c1, c2}
  RefreshTTL = 2
INVARIANTS RulesInForce  ViewIsCurrent AnswersArrive SessionsHold
PROPERTIES RulesGuarded 
CHECK_DEADLOCK FALSE
