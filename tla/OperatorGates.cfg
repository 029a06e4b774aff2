\* Two operators, one settle, overlapping refreshes and one crash.
SPECIFICATION FairSpec
CONSTANTS
  Toggles = {t1, t2}
  Settles = {s1}
  MaxRefreshes = 2
  None = None
  DefaultEnabled = FALSE
  Balances = {0, 1}
  SoftFloor = 2
  HardFloor = 1
  MaxCrashes = 1
  MaxChanges = 1
INVARIANTS
  AnsweredToggleRules
  AuditTruthful
PROPERTIES
  StatusFollowsBalance
