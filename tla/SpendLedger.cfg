\* Two settles of one address, one crash, writes that are lost or overtaken.
SPECIFICATION Spec
CONSTANTS
  Requests = {r1, r2}
  PayTos = {p}
  Urls = {u}
  None = None
  PerPayToMax = 1
  PerUrlMax = 1
  UnboundPoolMax = 1
  RateWindow = 1
  Estimate = 2
  Ceiling = 3
  Window = 2
  CleanupEvery = 2
  Enforced = TRUE
  Epoch = 3
  End = 5
  MaxCrashes = 1
SYMMETRY Symmetry
CHECK_DEADLOCK FALSE
INVARIANTS
  RatesBounded
  BookedSurvivesRestart
PROPERTIES
  ImplementsBudget
