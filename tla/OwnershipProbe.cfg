\* One verification of a sleeping seller, or of somebody else's server.
SPECIFICATION VerifierSpec
CONSTANTS
  Requests = {v}
  Probe = v
  Payments = {}
  None = None
  Worlds <- MCWorlds
  PayTos <- MCPayTos
  Sites <- MCSites
CHECK_DEADLOCK FALSE
INVARIANTS
  NeverReachesBlocked
  VerdictTruthful
PROPERTIES
  SleepingSellerVerified
