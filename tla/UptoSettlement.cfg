\* Two settles of three authorizations, two of which share a nonce.
SPECIFICATION SchemeSpec
CONSTANTS
  b = b
  m = m
  n1 = n1
  n2 = n2
  Payers = {b}
  Payees = {m}
  Nonces = {n1, n2}
  Auths <- SignedAuths
  MinTTL = 1
  MaxTTL = 2
  InitBalance = 3
  Requests = {r1, r2}
  None = None
  MaxLedger = 3
SYMMETRY Symmetry
CHECK_DEADLOCK FALSE
INVARIANTS
  NonceOutlivesAuth
  ChargedOnce
  AnswerTellsOutcome
PROPERTIES
  ImplementsPromise
