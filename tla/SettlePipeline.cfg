\* Two requests with an exact and an upto payload, one lane, pubnet and a bond.
SPECIFICATION Spec
CONSTANTS
  Lanes = {a1}
  Settlements = {r1, r2}
  None = None
  ExactTxs = {t1}
  UptoTxs = {u1}
  MaxFee = 2
  Ceiling = 3
  Enforced = TRUE
  BondEscrow = TRUE
  SubmitRetryMax = 1
  SkewRetryMax = 0
SYMMETRY Symmetry
INVARIANTS
  SingleFlight
  SuccessIsBacked
  CeilingHolds
  BookingMatchesSpend
