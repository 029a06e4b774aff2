\* Two listings in one token, two payments: every order of registration,
\* deposit, withdrawal, dispute, receipt and slash within the claim windows,
\* and the resolution of every dispute under fair ledgers and callers.
SPECIFICATION FairSpec
CONSTANTS
  Payments = {p1, p2}
  ResourceKeys = {k1, k2}
  Payers = {alice}
  Sellers = {bob}
  Admins = {adm}
  Tokens = {usdc}
  DeliveryKeys = {dk}
  Escrow = Escrow
  None = None
  Amounts = {1, 2}
  Supply = 3
  DustFloor = 1
  DisputeWindow = 2
  ResponseWindow = 1
  RateLimitMax = 1
  RateLimitWindow = 2
  Genesis = 3
  RegistrationEnd = 4
CHECK_DEADLOCK FALSE
INVARIANTS
  TypeOK
  DisputeCountAgrees
  Solvent
  FilingRateLimited
PROPERTIES
  BondHeldWhileDisputed
  DisputesResolve
