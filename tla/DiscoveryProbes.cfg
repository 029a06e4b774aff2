\* Two pages that share an option, one slot of the limiter, one layer at a time.
SPECIFICATION ProbesSpec
CONSTANTS
  r1 = r1
  r2 = r2
  account = account
  contract = contract
  usdc = usdc
  Options = {account, contract}
  Assets = {usdc}
  AssetOf <- MCAssetOf
  KindOf <- MCKindOf
  IsContract <- MCIsContract
  Requests = {r1, r2}
  Page <- MCPage
  Layers = {{"trust"}, {"payability"}}
  MaxConcurrent = 1
  Ttl = 2
  UnknownTtl = 1
  TrustTtl = 2
  BudgetMs = 1
  MaxClock = 3
  Undefined = Undefined
\* Every request may be answered, every trustline turned.
CHECK_DEADLOCK FALSE
INVARIANTS
  LimiterExact
  CachedIsTrue
  VerifiedIsEarned
