\* Two requests, two payments: every boot of the 65 worlds and every order of serving.
CONSTANTS
  Requests = {r1, r2}
  Payments = {p, q}
  None = None
  Worlds <- MCWorlds
SPECIFICATION FairSpec
CHECK_DEADLOCK FALSE
INVARIANTS
  NothingChargedInVain
  PaymentMatchesService
PROPERTIES
  HealthyBootServes
