# A TLA+ model of vellar-facilitator

`vellar-facilitator` is an x402 payment facilitator for Stellar. It verifies and
settles payments for sellers, sponsors the network fees, keeps a discovery
catalog ("Bazaar") of payable resources, and has two Soroban contracts: a bond
escrow for provider bonds and an allowance contract for the upto scheme. The
repository also holds a reference seller. The modules here model the parts whose
correctness depends on the order in which things happen, check them with TLC on
small instances and prove the most important facts with TLAPS for instances of
any size.

## 1. Inventory

The server is one Node process, and so is the seller: every callback runs to its
next `await` without interruption, and everything between two awaits interleaves.
State is in memory, with a libSQL database behind some of it. The contracts run
on the ledger, one atomic invocation at a time.

| Component | State | Operations | Hard behaviour | What makes it correct | Module |
|---|---|---|---|---|---|
| Bond escrow (`contracts/bond-escrow`) | listings, settlements, disputes, logs, balances | initialize, register_settlement, deposit, withdraw, file_dispute, set_delivery_key, post_receipt, finalize | long sequences of calls by payer, seller, facilitator; windows; one balance for many bonds | a bond covers its disputes; counters agree with records; solvency; every dispute resolves | `BondEscrow` |
| Channel pool (`channelPool.ts`) | sets available, inUse, disabled | acquire, release, disable, enable | release of a lane disabled or re-enabled meanwhile | one settlement per lane; no lane lost | `ChannelPool` |
| Channel monitor (`channelMonitor.ts`) | failure counts, own disabled set | timer, checkAll, checkOne, recordFailure | overlapping passes apply old balances | drained lanes leave, funded lanes return | `ChannelMonitor` |
| Settle pipeline (`server.ts`, `facilitator.ts`, `retry.ts`, `rpcstatus.ts`, `bond.ts`) | settleDedup, locals of each request | POST /settle | duplicates, RPC answers that do not say what happened, retries, partial failure after payment | one run per payload; success only with standing; spend booked | `SettlePipeline` |
| Spend policy (`policy.ts`) | sliding windows, reservations and their rows | checkSettle, refundUnspent, adjustReservation, boot, sweep | fire-and-forget writes, restart | budgets hold; what is booked survives, what is refunded stays refunded | `SpendLedger`, `SpendBudget` |
| Kill switch, audit log, balance guard (`admin.ts`, `adminRoutes.ts`, `balance.ts`) | cache and row, audit rows, last status | toggle, hydrate, audit, refresh | overlapping toggles and refreshes, late commits, crashes | an answered toggle rules; audit rows are true; the guard follows the ledger | `OperatorGates` |
| Upto contract (`contracts/upto-vellar`) | nonces in temporary storage, allowances | settle | nonce expiry against authorization expiry | an authorization pays once, within its terms | `UptoContract`, `CeilingPayments` |
| Upto scheme (`upto.ts`) | sequence number, locals | settle | simulation is stale when the transaction is applied; polling ends without an answer | the answer tells what happened | `UptoSettlement` |
| Catalog and ownership (`catalog.ts`, `bazaar.ts`, `store.ts`) | entries, bindings, latches, markers, rows | upsertFromPayment, tryDisplace, reverify, authorizeRotation, evict, save, load | decided before an await, applied after it; late writes; restart | one owner, displaced on proof; badges earned | `CatalogOwnership`, `ResourceBinding` |
| Search index (`catalog.ts`, `embeddings.ts`, `backfill-embeddings.ts`, `store.ts`) | entries, vectors, query vectors, rows | upsert, flush, embed, search, backfill | a vector outlives its entry; a script on the same database | a vector is its resource's own; every row gets one; the fusion respects its rankings | `SearchIndex` |
| Trust and payability (`trust.ts`, `payability.ts`) | caches, in-flight map, limiter | annotateTrust, annotatePayability | shared lookups that outlive responses | cached verdicts are true in their time; the limiter is exact; "verified" is earned | `DiscoveryProbes` |
| Ownership verifier (`ownership.ts`) | locals of a verification | verifyResourceOwnership | DNS that changes, cold starts, timeouts | a blocked address is never reached; a verdict is what was seen | `OwnershipProbe` |
| Example seller (`examples/seller.mjs`) | boot retries, locals of a request | boot, handlePaidRoute | cold or rate-limited facilitator, late charges, failing handlers | nothing charged in vain; payment and service match; a good seller boots | `SellerRoutes`, `SellerRoute` |
| Configuration, MCP endpoint, metrics, URL fence, scripts | none worth a state machine | parsing, request translation | none | unit tests fit | not modelled |

Interactions: `/settle` reserves with the spend policy, reads the kill switch
and the balance guard, takes a lane from the pool, submits through the patched
RPC client, corrects its reservation, registers the payment with the escrow,
writes an audit row and then lets the catalog's after-settle hook bind the
resource, which probes it (`ownership.ts`), whose other end may be the seller.
The monitor withdraws and reinstates lanes under running settles. Discovery
reads the catalog, ranks it and annotates a page with trust and payability. The
catalog, the spend policy and the console write to the store and read it back
at boot.

The modules compose as follows: `ChannelMonitor` and `SettlePipeline` extend
`ChannelPool`; `UptoSettlement` extends `UptoContract`; `SellerRoute` extends
`SellerRoutes`, the table of paid routes; `OwnershipProbe` extends `SellerRoute`,
so that a verification runs against the seller's own boot and route;
`SpendLedger` implements `SpendBudget`, `UptoSettlement` (through the contract)
`CeilingPayments`, and `CatalogOwnership` `ResourceBinding`, each by
`INSTANCE ... WITH`.

## 2. Plan

Done: the modules of the table, in the order escrow, pool and monitor, pipeline,
catalog, spend ledger, gates, upto, search, discovery, seller, verifier.

Every safety property and refinement that the runs check has a theorem (section 5).

Left: sessions and lockout of the console; the merge of two spellings of one URL
at boot; the reservation of the spend policy inside `SettlePipeline` replaced by
`SpendLedger`.

## 3. Modules

Every step goes from one await to the next. A contract entry point is one
action, and a call that returns an `Error` or traps changes nothing, so its
checks are the guard. Where a store write is modelled it is sent, lands and is
answered in separate steps, because the deadline of `LibsqlCatalogStore.run`
ends the wait and not the write. History variables are named so in each module.

**BondEscrow** (`contracts/bond-escrow/src/lib.rs`). One variable per storage key
family, `balance` for the token contracts (external), `now` for the ledger's
timestamp and `slashed` (history). The seller recorded in a settlement is never
read back and is left out; a delivery receipt is a record that names the key and
the payment, as the signature over its canonical bytes does; the log of filing
times, only filtered and counted, is a set of numbered timestamps.

**ChannelPool, ChannelMonitor**. Three sets and, per settlement, the lane it
holds; `revoked` is history (lanes disabled while held). `pass[p]` is the
position of pass `p` in the loop of `checkAll`, `reading[p]` what its request to
Horizon resolves to; `Fetch` and `ApplyReading` are separate, so that a balance may
be old when it is applied. The names of its specification begin with `Monitor`,
so that one module of proofs can extend both it and the pipeline. The interval does not wait for a running pass.

**SettlePipeline**. `POST /settle` over the pool; `phase` names the await. A
submission may be forwarded whatever the RPC answers, a forwarded transaction is
applied at some time or never, is charged between 1 and its fee, and one payload
pays once. The exact scheme of `@x402/stellar` turns every exception into a
failed result without transaction; the upto scheme lets exceptions through. The
kill switch, the guard's verdict and the rate budgets are nondeterministic
inputs of the refusal (they are modelled in `OperatorGates` and `SpendLedger`).

**SpendBudget, SpendLedger** (`policy.ts`, table spend_reservation). `SpendBudget`
is the promise: entries under the ceiling, lowered or released only by their
settle, dropped when elapsed, and never made up by a restart. `SpendLedger` has
the in-memory windows, the counter of reservation ids, and the database: writes
and sweeps on their way land in any order, late, after the process that sent them
has died, or never. `Crash` and `Boot` reload it. A restarted process has its
window ascending by id, although the query has no order: the code sums the window
and searches it by id, so that the order decides nothing. Ids are handed out again
after a restart that did not see their rows, so that an entry carries its `owner`,
the settle that made it (history: nothing decides by it). `untidy` marks requests
a write of which was overtaken by a younger one.

**OperatorGates**. The kill switch as a cache (`state`) over a row, with
`toggle()`'s write before the cache; the balance guard as a cache over the
sponsor account, with refreshes that overlap; a settle that both gates admit or
refuse; and the one audit row per toggle and settle, which may land after the
process has died. `overlapped`, `committed` and `lastAnswered` are history.

**UptoContract, CeilingPayments, UptoSettlement**. The contract's consumed nonce
is an entry of temporary storage with a last ledger; the host deletes it after
that. `CeilingPayments` remembers every charge for ever. `UptoSettlement` adds
the facilitator's scheme (account, simulation, submission, twenty polls) with a
sponsor sequence number shared by concurrent settles, a mempool, and other
callers of the contract. The host's own signature replay protection is not
relied upon.

**ResourceBinding, CatalogOwnership**. `ResourceBinding` is the promise for one
resource: the addresses bound in the database, whether one of them was proven,
and whom the server takes for the owner. The binding grows by first
settlements, is never removed, and is replaced only by an address that the
resource's challenge names; the server's owner follows it, late.
`CatalogOwnership` maps its rows and the owner in memory to these. It has the
after-settle hook of `bazaar.ts` for one resource key, with the methods of
`BazaarCatalog` it calls and the three tables they write: the database (`rows`,
`saved`, `markers`), the memory (`ownership`, `latch` for `everVerified`,
`entry`, `frozen`, the boot probe), and per hook the await it is suspended at
with the locals it has captured. `holders` says which hooks' local `entry` is
the object that is in the map now, because the code replaces that object at
every settlement and `tryDisplace` keeps using its own. A boot is two steps, since
`create` awaits the ownership table and then the entries, each with retries: a
write of the dead process may land between `Restart`, which reads the first, and
`LoadEntries`, which reads the second and gives an entry whose owner was not there
yet to nobody (`Unbound`). A probe can match an address only if the resource's own challenge names it (`Merchants`). `issued`, `shared`,
`contended` and `inherited` are history: the authorizations requested, the
addresses that had a row beside another one, whether one first binding
completed over another, and whether the resource had an owner when the process
started.

**SearchIndex**. What happens to an entry after its settlement was accepted:
eviction to the cap, the debounced flush, the background embedding, the query
vectors, search with reciprocal-rank fusion, the boot, and
`backfill-embeddings.ts` on the same database. `table` is the table of the entries
with their vectors; `Null` stands for a row that is not there, a payload that
cannot be used and a vector that is missing. A vector is the pair of the key and
the text it was computed from, so that a misplaced one shows. `Lexical` and
`Similarity` are given scores. A ranking is any order that `sort` may give
(`Sorted`): what the comparison function puts first comes first, and what it leaves
open is open. `FusedAbove` compares two sums of reciprocal ranks exactly, over
their common denominator. `Usable` is the loop of the script over a batch.

**DiscoveryProbes**. One page through `annotateTrust` and `annotatePayability`:
trust cache, identity cache, verdict cache, in-flight map and concurrency
limiter, shared by requests; lookups that run on after the response budget. The
verification API may answer anything. The RPC answers what the asset is, or an error
or a result that is no name, which the code keeps for ever as `non_sac`. Horizon
reads the account in one step (`HorizonReads`) and its answer arrives, and is
stamped, in a later one (`Resolves`), with no timeout between them. `denied`, `read`
and `took` are history: the assets the RPC gave no name for, when Horizon read the
account of a lookup, and how long before the stamp of a verdict that was. `LookUp` is `check`, which a
cached verdict or a lookup in flight answers. The specifications of this module and
of `SearchIndex` are named `Probes...` and `Search...`, so that one module of proofs
can extend both and `CatalogOwnership`.

**SellerRoutes, SellerRoute** (`examples/seller.mjs`). `SellerRoutes` is the table
of the nineteen paid routes. An input gives each parameter a class (absent or
empty, repeated, too long, refused by the route's own check, good); `accepts` are
the classes that `validate` lets through and `throws` those on which
`buildResult`, which runs after the payment, may throw. The libraries it renders
with are external. `SellerRoute` has the boot (configuration checks, the
merchant's account and trustline over an RPC that may fail between two calls, the
warm-up and five attempts with backoff) and `handlePaidRoute` for interleaved
requests with shared payments and probe headers. The x402 library and the
facilitator are external: a payment handed over is charged once, at any later
time or never, whatever the facilitator answers; a success is answered only for
a payment that was charged.

**OwnershipProbe** (`ownership.ts`). `verifyResourceOwnership` over `SellerRoute`:
guard, pinned connection, timeout, cold-start retries at 45 and 120 seconds,
against that seller, asleep until the first connection wakes it, or against
another server that answers anything or nothing. An answer is a `Wire`: a status, a
PAYMENT-REQUIRED header that is missing, oversized, garbled or a challenge, and the
addresses it names, which a redirect may carry too; `Judged` is what `probeOnce`
makes of it. Both sides share one clock,
which moves from timer to timer. `served` and `heard` are history: whether a probe
reached the serving seller, and whether before the instant of its own abort; and
the answer that ended the verification, as it was sent.

## 4. Runs

All runs pass. Each asks one question, and for every property there is a mutated
definition, a plausible slip in the mapped code, under which the run fails.

| Run | Instance | What it shows |
|---|---|---|
| `bond_escrow` | two listings over one token balance, two payments, every order of calls within the windows (0.65M states) | types (no negative bond or balance), `DisputeCountAgrees`, `Solvent`, `FilingRateLimited`, no withdrawal under a dispute (`BondHeldWhileDisputed`), every dispute is resolved |
| `channel_monitor` | two lanes, two settlements, two overlapping passes (0.33M) | lanes exclusive unless revoked, every lane in use is held, `RotationFollowsBalances`: an account that stays low is withdrawn for good, a funded one returns |
| `settle_pipeline` | two requests, one payload of each scheme, one lane, pubnet, bond escrow (2.5M) | `SingleFlight`, `SuccessIsBacked`, `CeilingHolds`, `BookingMatchesSpend` |
| `settle_pipeline_live` | two requests, one payload, a skew retry (0.53M) | every request is answered |
| `spend_ledger` | two requests, clock 3..5, one crash, writes lost and overtaken (2.7M) | the rate budgets hold over every stretch of a window, what is booked survives a restart, the ledger implements `SpendBudget` |
| `operator_gates` | two toggles, one settle, two refreshes at a time, one balance change, one crash (1.9M) | an answered toggle rules in cache and row, audit rows are true, the guard follows the account |
| `upto_settlement` | three authorizations, two with one nonce, two settles, three ledgers, other callers (1.4M) | a nonce outlives its authorization, one charge per authorization, answers tell what happened, `CeilingPayments` is implemented |
| `catalog_ownership` | two addresses of a merchant and a squatter, two settlements, rotation, late writes, eviction, restarts with a late write between their two reads (0.30M) | durable bindings, `ProvenTrust`, observed statistics belong to the owner, `ResourceBinding` is implemented: displacement only on proof |
| `search_index` | three keys and an unusable row, cap 2, one upsert, one flush, one restart, the script (0.23M) | vectors belong to their resource, search answers and respects its rankings in every state (`FusionSound`), every usable row gets a vector |
| `discovery_probes` | two pages that share an option, one slot, clock 0..3, either layer, RPC errors and answers of Horizon that are old when they arrive (0.45M) | `LimiterExact`, `CachedIsTrue`, `VerifiedIsEarned` |
| `seller_route` | 65 configurations and facilitators, nineteen routes, two requests, two payments (2.3M) | `NothingChargedInVain`, `PaymentMatchesService`, no route fails of its own after the payment, a healthy seller serves |
| `ownership_probe` | one verification, 50 sellers and facilitators, 62 resources, any status and header from another server (0.18M) | blocked addresses are never reached, `VerdictTruthful`: match and mismatch only from a challenge that was read, a sleeping seller ends up verified |

`RotationFollowsBalances`, `BookingMatchesSpend`, `ProvenTrust`, `CachedIsTrue`,
`NothingChargedInVain`, `PaymentMatchesService` and `VerdictTruthful` are
conjunctions of named parts, each stated above its conjunction. Every module has
a type invariant; of these the run lists that of `BondEscrow`, where it says that
no amount becomes negative. Those of the other proved modules are part of their
inductive invariants, which hold on the instances of the runs too (`RateInv` of
`BondEscrowProofs`, which ranges over all integers, apart).

### Where the code does less than a comment says

The properties state what holds. These are the places where they had to be
qualified, or where the model shows more behaviour than the text next to the code
allows:

* Escrow: one payment can be disputed, slashed, disputed and slashed again inside
  its claim window (`lib.rs:1015`, against `lib.rs:24` and `98`). A listing created
  after settlements of its resource starts with `last_claim_window_end` 0.
* Pool: a lane disabled and enabled again under a settlement in flight is handed
  out twice (`channelPool.ts:150`, against its line 1); `LaneExclusive` excepts it.
* Pipeline: spend of a transaction that was forwarded is not booked when `settle`
  throws or returns no transaction (`server.ts:897`, `943`, against `932` and
  `940`); `pool_exhausted` returns before the refund (`server.ts:883`, against
  `880` and `policy.ts:368`). `BookingMatchesSpend` excepts both. After a failed
  bond registration "money did not move" (`server.ts:687`) is not so.
  `server.ts:1777` has reconciliation at boot too; it has one call site (`958`).
* Spend policy: `policy.ts:130-131` fails for a write that never lands or lands
  behind a younger one; `BookedSurvivesRestart` is about the others.
* Kill switch: for overlapping toggles cache and row may differ
  (`admin.ts:38-40`); `AnsweredToggleRules` is about toggles that overlap none.
* Upto: `DESIGN.md:73` keeps nonces; the contract keeps each as long as its
  authorization can be accepted, which is what `NonceOutlivesAuth` says. A retry
  that gets DUPLICATE, because the first try was forwarded, is answered as a failed
  submission without its transaction, like every status but PENDING
  (`upto.ts:276`); the model has it with TRY_AGAIN_LATER (`tryAgain`), and
  `AnswerTellsOutcome` takes neither for a promise that nothing was charged.
* Catalog: a row of `entry` without a row of `ownership` is "not reachable through
  the code" (`catalog.ts:2364-2367`, and the warning at `2371-2374`), and is so in
  the database (`saved # None => rows # {}`). A boot can still read just that: it
  awaits the ownership table (`706`) and then the entries (`785`, `2271`), and a
  `bindAndUpsertEntry` of the dead process that was given up may commit in between
  (`store.ts:560`). The comment also says that such an entry is dropped; it is kept
  with `boundPayTo` `[]`, and put in the map (`2335`). The resource is then listed
  without an owner, and every settlement of it is refused, its owner's too, until
  the entry is evicted or the process restarted. `BindingIsDurable` therefore asks
  that such an entry be bound to nobody, and not that there be none, and that a
  resource that had an owner when the process started is not asked for a first
  binding, which the freeze (`708`) ensures when ownership cannot be read.
* Catalog: two overlapping first settlements both commit and the one that answers
  last owns the resource in memory (`catalog.ts:2457`): `contended`. `tryDisplace`
  does not look at the latch again after its write (`1589`), so a proof of the
  incumbent during it is overwritten; `ResourceBinding` allows that step, since the
  newcomer was proven too, and promises no more than that an unproven one never
  takes over. A rotation writes into the entry object it
  captured (`1574`, against `1442`), which a settlement may have replaced. A
  restart between a displacement and the debounced save brings old statistics
  back; `ObservedStats` excepts restored entries. It also lets an entry keep
  credits of addresses that were bound beside another one: two overlapped first
  settlements can both leave a row, the restart reads both as one binding, the
  second address settles and is credited, and an authorized rotation by the first
  keeps the counts (`Known`). That takes four settlements; it came out of the proof. The settlement of an MCP tool
  is looked up by the URL alone (`bazaar.ts:267`, against `260`), hence counted
  nowhere; the run has `Tool = FALSE`, where the key is a URL.
* Search: `lastUpdated` is taken before the await of the binding
  (`catalog.ts:1820`), so that an entry whose bind was slow can be evicted as soon
  as it is put. An updated entry keeps its old vector until the embedding answers
  (against `2173`), overlapping embeds and flushes land in either order, and
  vectors of evicted entries stay in memory.
* Discovery: a page takes one limiter slot per waiter that is woken, while a
  newcomer may take the slot first (`payability.ts:196-206`, against `90-91`);
  `LimiterExact` counts running lookups exactly, and does not bound them by the
  cap. The trust cache has no in-flight map (`trust.ts:328`) and `liveHash` no
  timeout (`260`). Paging is over a ranking that may change between two pages, and
  `total` is reduced by one page's drops only (`server.ts:1231-1241`).
  One error of a simulation, or one result that is no name, makes an asset `non_sac`
  for as long as the process runs (`payability.ts:168-178`, kept at `238`; the comments
  at `165-167` and `236-237` take that for a fact about the contract): `IdentityRight` says that what is
  kept is the contract's own or rests on such an answer, and never on a call that
  failed. A verdict is stamped when Horizon's answer has arrived (`315`), however
  long that took (`248-251` has no timeout): `VerdictRecent` counts the TTL from
  there, so that what a page says may be older by that time.
* Seller: one charge may buy several results, since a duplicate is answered as the
  first; the 404 of `/inspect` for an unknown account, an `InputError`, comes after
  the payment, as does every failure of a service that a route asks, and "no city
  found" (`seller.mjs:2081`), which the geocoding service answers and which
  `FailsUpstreamOnly` counts with its failures; the name test
  of `isPubliclyVerifiable` refuses names that begin with fc or fd and accepts
  addresses the facilitator blocks; a facilitator that is cold for 15 to 30 seconds
  and then rate-limited uses up the five attempts (outside `Healthy`).
* Verifier: the DNS lookup of the guard runs before the 3 s timer and has no
  timeout of its own. A seller that begins to serve in the very instant in which
  the third probe is due to be aborted may be reported as `timeout`
  (`TimeoutMeansAbsent`; the world `LastInstant` of the run).

### Bounds, and why they are enough

* Escrow: two payments are the least for which one dispute is resolved while
  another is open, two listings for which one bond could pay for the other.
  `DisputeWindow` 2 and `ResponseWindow` 1 keep the order of the real constants,
  `RateLimitMax` 1 makes the limit bite, `Genesis` is above `RateLimitWindow` as
  Unix time is. No settlement is registered after `RegistrationEnd`, and the clock
  stops when the last window has closed.
* Monitor: two passes give every overlap of two readings of one lane. Counters
  saturate at `MaxFailures`, one above the limit.
* Pipeline: two requests are a duplicate pair or a pair of schemes; one lane makes
  the pool run empty; a ceiling of 3 with an estimate of 2 admits a second settle
  only once the first is corrected.
* Spend ledger: two reservations, a clock from `Epoch` to `End` that lets a window
  of 2 elapse, and a crash with writes of both on their way. Budgets of 1 bite.
* Gates: two toggles are an overlapping or a sequential pair; two refreshes can be
  answered out of order; one crash falls between any two steps.
* Upto: two authorizations share a nonce and expire one after the other, `MinTTL` 1
  and `MaxTTL` 2 let an entry expire with, before or after either.
* Catalog: two settlements are an overlapping pair, or a squatter and a claimant;
  three addresses are an old owner, a new one and a stranger. `issued` bounds the
  markers to one per pair.
* Search: a cap of 2 with three keys evicts; the unusable row stands in a batch of
  2 with a usable one; the query cache has room for one of two queries.
* Discovery: a page of two options and one of the first of them share a lookup and
  wait for one slot; `Ttl` 2, `UnknownTtl` 1 and a clock of 3 let an entry of each
  kind expire. The two layers share no state, so each is checked alone. A trustline
  turns once.
* Seller and verifier: each setting of the seller is wrong once, every merchant is
  combined with every failing RPC, and facilitators are ready or limited below, at
  and above the waits of the backoff. Seconds are the code's own, jitter 0 or 1.

Symmetry is used for interchangeable requests, hooks and addresses, in no run that
checks liveness (the refinements it is used with are safety properties).

Deadlock is not checked where the instance ends by its bounds: every request
answered, the clock or the ledgers at their last value, the seller exited.

### Fairness

* `BondEscrow!FairSpec`: ledgers keep closing; `finalize` is permissionless, so
  somebody calls it. Nothing is assumed of payer, seller or facilitator.
* `ChannelMonitor!MonitorFairSpec`: the interval timer fires and Horizon answers or fails
  (the fetch has a timeout). Nothing is assumed of settlements.
* `SettlePipeline!FairSpec`: each RPC call that a run awaits ends; retries are
  bounded by the code. Nothing is assumed of the ledger, the operator, the monitor.
* `OperatorGates!FairSpec`: the timer fires, an answer that arrived is applied, a
  crashed process is started again, and of infinitely many fetches not all fail
  (strong fairness of `Fetch`).
* `SearchIndex!SearchFairSpec`: the script is run again until it reports no failure, and
  neither the API nor the database fails for ever (strong fairness of the answered
  batch and of its save). Nothing is assumed of the server.
* `SellerRoute!FairSpec`: timers fire and the boot's fetches end, by answer or
  timeout. Nothing is assumed of requests.
* `OwnershipProbe!VerifierSpec`: the resolver and the seller's process end what they
  are asked to do and timers fire. Nothing makes another server answer.

## 5. Proofs

Each theorem holds for every value of the constants that satisfies the named
`ASSUME`s of its module (`ConstantsAssumption`, `NoneAssumption`, `PoolAssumption`,
`MonitorAssumption`, `LedgerAssumption`, `NoneIsNoEntry`, `GatesAssumption`,
`UptoAssumption`, `CatalogAssumption`, `SearchAssumption`, `NullIsNoRow`,
`ProbesAssumption`, `UndefinedAssumption`, `SellerAssumption`, `ProbeAssumption` and
the like), which TLC evaluates in the runs. They say that bounds are natural numbers,
that sets that are counted are finite and that `None`, `Null` and `Undefined` are none
of the values they stand beside. Each module has a lemma that the initial states satisfy the
inductive invariant, one per action (or group of actions) that the action keeps
it, and a theorem per property.

`BondEscrowProofs`:

* `TypeCorrect`: that no balance or bond becomes negative rests on the guard of
  `Transfer` and on `SlashAmount` never exceeding the bond.
* `CountersAgree`, `DisputesAlwaysBacked`. `DisputeCountAgrees` is not inductive
  alone: closing a dispute decrements the counter of the listing named in it, which
  must exist. `DisputeInv == TypeOK /\ DisputesBacked /\ DisputeCountAgrees` is; the
  lemmas relate the cardinality of `OpenDisputes(k)` before and after one record
  appears or goes.
* `BondHeld`: under `DisputeInv`, the action property about withdrawals, slashes
  and `finalize`.
* `AlwaysSolvent`: the bonds promised in a token are counted in units, one for each
  stroop of each listing, so that a sum over listings is a cardinality (`Promise`,
  `Units`).
* `RateLimited`: the log that the limit counts is pruned at every filing. `RateInv`
  compares, from every instant inside the window on, the disputes now open with
  the entries of the log.

`SettleProofs`, about the pool, the monitor and the pipeline:

* `PoolCorrect`: `PoolInv` has `HeldInUse`, without which `LaneExclusive` is not
  inductive. `MonitorImplementsPool` and `PipelineImplementsPool`: every step of
  either is a `ChannelPool` step or leaves the pool alone (the mapping is the
  identity). They carry the pool's invariant over: `LanesPartitioned`,
  `LanesExclusive`, `NoLaneLost`, `PipelineLanesSafe`. `LaneGivenBack`: an answered
  settle holds no lane, whichever way it ended.
* `OneFlightPerPayload`: `FlightInv` ties a run to the entry of `settleDedup`.
* `SuccessBacked`, `BookingMatches`: `RunInv` ties the phase of one run to its
  transaction (`LedgerInv`), its reservation (`BookingInv`) and its answer
  (`AnswerInv`).
* `CeilingKept`: the reservations of all runs, as a sum. Each step changes one
  booking, and the only one that raises it is a start that looked at the sum
  (`OneBooking`).

`SpendProofs`, about the ledger of budgets under crashes and a store that loses,
delays and reorders writes:

* `TypeCorrect`: `LedgerInv`. An id does not name a settle for ever, since it is
  handed out again after a restart that did not see its row. What holds is that ids
  ascend in one process (`OrderInv`), that a running settle finds its own entry
  under its id (`ActiveInv`), and that an entry, in memory, on its way or in a row,
  is its owner's and was booked (`Genuine`).
* `RatesHold`: every stretch of a window's length in which a settle is admitted
  lies within the last `RateWindow` before it, the one its budgets looked at.
* `LedgerImplementsBudget`: action by action, with the ledger's entries as the
  budget's (`SpendIsTotal`). A restart makes nothing up, since the rows are `Genuine`.
* `BookedSurvives`: `BookInv` follows a reservation through memory, the writes on
  their way and its row (`Accounted`), for as long as its window lasts.

`OperatorProofs`, about the kill switch and the audit log:

* `AnsweredRules`: a write lands once, before its toggle goes on (`WriteInv`); while
  a toggle that overlapped none awaits its write, no other is on its way
  (`AloneInv`); hence nothing can land after the answer (`RulingInv`).
* `LogTruthful`: a row is computed when its request has ended, so what it says does
  not change any more (`RowsInv`).

`UptoProofs`, about the allowance contract and the scheme:

* `ContractSafe`: `UptoInv == UptoTypeOK /\ ChargesWithinTerms /\
  NonceOutlivesAuth /\ ChargedOnce` is inductive. `ChargedOnce` alone is not: that
  an accepted authorization was never charged (`AcceptedIsFresh`) follows because
  the entry of its nonce would still be there, which is `NonceOutlivesAuth`, and
  that from what `extend_ttl` guarantees (`ExtendedReaches`).
* `ContractImplementsPromise`: under `UptoInv` a settlement is a `Charge` of
  `CeilingPayments` and a ledger closes in both. `SchemeImplementsContract`: every
  step of the scheme is a step of the contract or leaves it alone. From both follow
  `SchemeChargesOnce`, `SchemeWithinTerms`, `SchemeNonceOutlives` and
  `SchemeImplementsPromise`.
* `AnswersAreTrue`: `ProgressInv` says what an unanswered request has on the
  network, `ChargeInv` that two transactions that succeeded charged two
  authorizations, which is `ChargedOnce` of the contract.

`CatalogProofs`, about the catalog, its search and what a page says of it. First the
ownership of one resource:

* `BindingDurable`, `TrustProven`, `StatsObserved`, `OwnerChangesOnProof` (of
  `DisplacedOnProof`, which says more than the refinement of a step that is no
  restart, and which no run needs to check beside it). What a hook
  carries over an await, or puts on the wire, may be used at any time. The proofs
  rest on facts that never become false again (`Lasts`): the resource has rows,
  they name a proven address (`RowsProven`), so does the binding unless two first
  bindings overlapped (`Trusted`), and the histories only grow. `HookInv`, `WireInv`
  and `HolderInv` say which of these each await and each write implies. `BootedInv`
  is about the boot's two reads: nothing happens between them but writes that land;
  an entry that they leave without an owner keeps every settlement from binding or
  displacing until it is evicted; and a process that inherited an owner knows it or is
  frozen.
* `CatalogImplementsBinding`: under `IInv` and one more invariant
  (`OnlyFirstBindings`: as long as the resource has no row, its settlements have
  only asked for the first one) a write that lands is a step of the binding in the
  database (`LandBinds`), the answer to one a change of owner (`HookBinds`), and a
  boot takes an owner from the rows (`RestartBinds`); everything else stutters.

Then the search index:

* `SearchTypeCorrect`, `OwnVectorsCorrect`: `SearchInv` has, beside the types, that the
  row of a settled key can be used (else a restart would load entries without a
  text), that a batch sent to the API has a usable row, and that each vector about to
  be saved is of its key (`BatchSound`), without which `OwnVectors` is not inductive.
  That `Usable` is a function whose values have a text is shown from a least prefix of
  the batch at which it would not be (`ScanExists`, `UsableRows`).
* `FusionCorrect` follows from the types. A strict order on a finite set has a sequence
  that respects it (`SortExists`, by a least subset that would have none). Sums of
  reciprocal ranks are fractions, whose comparison over the common denominator is a
  strict weak order (`ExceedsIsOrder`), so that with the age as tie-break `sort` has
  an answer; and better in both rankings is better in the sum (`RrfMonotone`), where
  an entry that a list misses ranks past its end (`RankOfListed`).

Then the discovery probes:

* `ProbesTypeCorrect`, `LimiterCorrect`: a page checks its options one after the other, a
  fold that keeps what each check keeps (`FoldKeeps`). `ProbesInv` is the type, the
  limiter's account of the lookups, that the identities are right, that a lookup which
  calls Horizon or has a verdict is entitled to it by its asset (`Founded`), and that
  Horizon's readings are of the past (`ReadsPast`).
* `CachedCorrect`: in `PayInv` every verdict, in a lookup, in the cache or in an answer,
  was so when Horizon read the account (`SoSince`): `ReadsSound` for a lookup whose
  answer is on its way, `VerdictsSound` for the cache, where that is `took` before the
  stamp, `AnswersSound` for the pages. A trustline turns once, so that this can be said
  with the instant at which it did (`TurnsOnce`). An answer that waits is told in the
  step in which its lookup ends, whatever page started that lookup, and one that was
  told is not told again.
* `VerifiedCorrect`: in `EarnedInv` a cached verification was vouched for when it was
  put there (`VouchedSince`), and a request keeps the badge it saw and verdicts that are
  within a TTL of its start (`RequestEarned`). The step that fills the cache and the one
  that reads it are apart, so both facts are needed.

`SellerProofs`, about the seller and the verifier:

* `ChargedForService`, `PaidIsServed`: `RequestInv`, `HandedInv` (a payment in the
  facilitator's hands was handed over by a request that passed `validate`) and
  `BootInv` (what the boot has found out by each await). That a route does not fail
  of its own after the payment (`AcceptedNeverThrows`) rests on `RoutesDisjoint`, a
  proof about each of the nineteen routes.
* `BlockedIsNeverReached`: the connection is to the address that was vetted, not to
  the name (`ProbeInv`). `VerdictIsTruthful`: `ServedInv` relates the clocks of both
  sides; nothing has been heard before the verification ends (`ProbeInv`), so that
  `heard` is the answer that was judged, whoever sent it.

`FiniteSums` has what the budgets need about sums over finite sets. The library's
induction takes an operator, so the lemmas take a least counterexample instead,
from the well-foundedness of `<` and of the strict subset relation
(`LeastNatural`, `LeastSubset`): that `MapThenSumSet` is a function, what adding,
removing and transferring an amount does to it, and that `SumFunction` is the same
sum. The recursive functions of search and discovery are treated likewise.

Only model-checked is all liveness, since fairness and `ENABLED` are out of the prover's
reach: `DisputesResolve`, `EveryRequestAnswered`, `EveryRowEmbedded`,
`HealthyBootServes`, `SleepingSellerVerified`, `RotationFollowsBalances` and
`StatusFollowsBalance`.

## 6. Not modelled

* Configuration, the MCP endpoint, metrics and the URL fence: stateless parsing and
  counters. The scripts and buyer examples are straight-line clients.
* A retval of `name()` that `scValToNative` cannot decode (`payability.ts:171`), which
  fails the whole page instead of one option.
* The decoding of XDR, HTTP parsing, headers, logging and the wording of answers.
* Floating-point arithmetic: cosine similarity and lexical scores are given
  numbers; the fusion of the two is exact, so that two sums that differ by less than
  a double can tell are not a tie.
* Storage TTL extension and archival of the escrow: an archived entry is restored
  before it is read. The temporary storage of the upto contract is modelled, since
  there it decides correctness.
* Of the catalog: the cleaning of metadata, tombstones, filters and paging, and the
  merge of two spellings of one URL at boot. Of the store: the file store, schema
  creation and the pruning of the audit log. Of the console: sessions, lockout, the
  pages and the alert poller. Of the seller: what each route computes, beyond
  which inputs its check and its result refuse, the free routes and the pages.
* `stop()` of the monitor and the guard: only the shutdown of the process calls it.
