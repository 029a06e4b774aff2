\* Every request is answered: testnet, no bond, RPC calls that end.
SPECIFICATION FairSpec
CONSTANTS
  Lanes = {a1}
  Settlements = {r1, r2}
  None = None
  ExactTxs = {t1}
  UptoTxs = {}
  MaxFee = 1
  Ceiling = 3
  Enforced = FALSE
  BondEscrow = FALSE
  SubmitRetryMax = 1
  SkewRetryMax = 1
PROPERTIES
  EveryRequestAnswered
