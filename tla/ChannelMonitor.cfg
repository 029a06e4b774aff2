\* Two lanes, two settlements and two overlapping passes of the monitor, under
\* a fair timer and a fair Horizon.
SPECIFICATION MonitorFairSpec
CONSTANTS
  Lanes = {a1, a2}
  Settlements = {s1, s2}
  None = None
  Order <- LaneOrder
  Passes = {p1, p2}
  FailureLimit = 2
  MaxFailures = 3
INVARIANTS
  LaneExclusive
  InUseHeld
PROPERTIES
  RotationFollowsBalances
