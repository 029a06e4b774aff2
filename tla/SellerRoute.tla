---------------------------- MODULE SellerRoute ----------------------------
(***************************************************************************)
(* examples/seller.mjs, the resource server of the walkthrough: its boot   *)
(* (the checks that refuse a seller nobody could pay, and the retries of   *)
(* initialize() against a cold or rate-limited facilitator), and           *)
(* handlePaidRoute, the gate every paid route of the file goes through.    *)
(*                                                                         *)
(* A handler runs from one await to the next, and requests interleave.     *)
(* What a route accepts and what its payload needs is in SellerRoutes.     *)
(* The x402 library and the facilitator are external: a payment handed to  *)
(* the facilitator is charged once, at any later time or never, whatever   *)
(* the facilitator answers; a success is answered only for a payment that  *)
(* was charged, and is answered again to a duplicate, which is what the    *)
(* idempotency map of src/server.ts does.                                  *)
(***************************************************************************)
EXTENDS SellerRoutes, Integers

CONSTANTS
  Requests, Payments,
  Worlds,   \* what the seller may be configured with and boot against
  None      \* no payment header; no answer yet

\* the request for /health is given up after 90 seconds
ASSUME SellerAssumption ==
  /\ None \notin Payments \cup [input : Inputs, pay : Payments \cup {None}, probe : BOOLEAN]
  /\ \A w \in Worlds : w.warmFor \in 0 .. 90

VARIABLES
  world,       \* the configuration, the merchant's account, the facilitator
  boot,        \* the await the boot is suspended at, "serving", or "exited"
  attempt,     \* of initializeWithRetry
  delay,       \* seconds before the next attempt, without its jitter
  clock,       \* seconds since the boot began
  wakeAt,      \* when the timer of the next attempt fires
  asked,       \* per request: its input, payment and probe header
  stage,       \* per request: the await its handler is suspended at
  answer,      \* per request: what it was answered
  handedOver,  \* payments given to the facilitator to settle
  charged      \* payments taken on chain

bootVars == <<boot, attempt, delay, clock, wakeAt>>
routeVars == <<asked, stage, answer>>
chainVars == <<handedOver, charged>>
vars == <<world, bootVars, routeVars, chainVars>>

MAX_BOOT_ATTEMPTS == 5
RATE_WINDOW == 65

-----------------------------------------------------------------------------
(* The boot.                                                                *)

USDC(network) == <<"usdc", network>>

\* the first failed check exits; an unknown NETWORK is neither of the two
NetworkConsistent(w) ==
  /\ w.network \in {"testnet", "pubnet"}
  /\ w.passphrase = w.network
  /\ w.asset # USDC(IF w.network = "pubnet" THEN "testnet" ELSE "pubnet")
  /\ w.network = "pubnet" => w.asset = USDC("pubnet") \/ w.allowToken

\* "fdName" is a public https name that begins with fc or fd: the test that
\* is meant for IPv6 literals refuses it too
Verifiable(w) == w.url = "public"

CatalogSafe(w) == w.override \/ w.localFacilitator \/ Verifiable(w)

Init ==
  /\ world \in Worlds
  /\ boot = "config" /\ attempt = 1 /\ delay = 2
  /\ clock = 0 /\ wakeAt = 0
  /\ asked = [r \in Requests |-> None]
  /\ stage = [r \in Requests |-> "idle"]
  /\ answer = [r \in Requests |-> None]
  /\ handedOver = {} /\ charged = {}

BootGoes(from, to) ==
  /\ boot = from /\ boot' = to
  /\ UNCHANGED <<world, attempt, delay, clock, wakeAt, routeVars, chainVars>>

\* everything up to the first await: the settings, then the strkeys
CheckConfig ==
  BootGoes("config",
    IF ~ NetworkConsistent(world) \/ ~ CatalogSafe(world)
         \/ world.payee = "malformed"
      THEN "exited"
      ELSE IF world.skip THEN "warming" ELSE "account")

\* getAccount: "not found" is final, any other failure is inconclusive
GetAccount ==
  BootGoes("account",
    IF ~ world.rpcUp THEN "warming"
    ELSE IF world.payee = "missing" THEN "exited" ELSE "trustline")

\* the simulated balance(): it fails without a trustline, and a simulation
\* that cannot be asked for is inconclusive
SimulateBalance ==
  \/ BootGoes("trustline", IF world.payee = "payable" THEN "warming" ELSE "exited")
  \/ ~ world.rpcSteady /\ BootGoes("trustline", "warming")

\* GET /health, answered or given up after 90 seconds
Warm ==
  /\ boot = "warming" /\ boot' = "trying"
  /\ wakeAt' = clock + world.warmFor
  /\ UNCHANGED <<world, attempt, delay, clock, routeVars, chainVars>>

\* external: the facilitator, in seconds since it was warmed
SinceWarm == clock - world.warmFor
RateLimited == SinceWarm >= world.readyAt /\ SinceWarm < world.limitedUntil
Answers == SinceWarm >= world.readyAt /\ SinceWarm >= world.limitedUntil

Trying == boot = "trying" /\ clock >= wakeAt

\* when initializeWithRetry returns, its locals are gone
Initialized ==
  /\ Trying /\ Answers
  /\ boot' = "serving"
  /\ attempt' = 1 /\ delay' = 2 /\ wakeAt' = 0
  /\ UNCHANGED <<world, clock, routeVars, chainVars>>

GiveUp ==
  /\ Trying /\ ~ Answers
  /\ attempt = MAX_BOOT_ATTEMPTS
  /\ boot' = "exited"
  /\ UNCHANGED <<world, attempt, delay, clock, wakeAt, routeVars, chainVars>>

\* Mutant of NextDelay: it never backs off.
NextDelayFlat(d) == d
NextDelay(d) == IF d * 2 > 30 THEN 30 ELSE d * 2

\* the library has used up its Retry-After waits: sit out the whole window
WaitLimited ==
  /\ RateLimited
  /\ wakeAt' = clock + RATE_WINDOW
  /\ UNCHANGED delay

WaitBackoff ==
  /\ ~ RateLimited
  /\ \E jitter \in {0, 1} : wakeAt' = clock + delay + jitter
  /\ delay' = NextDelay(delay)

Retry ==
  /\ Trying /\ ~ Answers
  /\ attempt < MAX_BOOT_ATTEMPTS
  /\ attempt' = attempt + 1
  /\ WaitLimited \/ WaitBackoff
  /\ UNCHANGED <<world, boot, clock, routeVars, chainVars>>

BootStep ==
  \/ CheckConfig \/ GetAccount \/ SimulateBalance \/ Warm
  \/ Initialized \/ GiveUp \/ Retry

\* the time between two attempts; everything else takes none next to it
Sleep ==
  /\ boot = "trying" /\ clock < wakeAt
  /\ clock' = wakeAt
  /\ UNCHANGED <<world, boot, attempt, delay, wakeAt, routeVars, chainVars>>

-----------------------------------------------------------------------------
(* handlePaidRoute.                                                         *)

Bodies == {"null", "{}", "full"}
\* unlike `??`, which lets {} through
emptyish(body) == body \in {"null", "{}"}

\* a request to one of the routes
Asks == [input : Inputs, pay : Payments \cup {None}, probe : BOOLEAN]

Reply(kind, body) == [kind |-> kind, body |-> body]
Kinds == {"invalid_input", "error", "challenge", "note", "verify",
          "settle", "settle-threw", "handler_failed", "result"}

Relay(kind, body) == Reply(kind, IF emptyish(body) THEN "full" ELSE body)

Finish(r, reply) ==
  /\ stage' = [stage EXCEPT ![r] = "answered"]
  /\ answer' = [answer EXCEPT ![r] = reply]

Continue(r, next) ==
  /\ stage' = [stage EXCEPT ![r] = next]
  /\ UNCHANGED answer

\* Mutant of isOwnershipProbe: the header alone skips the validation, paid or not.
isProbeByHeader(ask) == ask.probe
\* Mutant of isOwnershipProbe: the header is not looked at.
neverProbe(ask) == FALSE
\* The probe header is honoured on a request that presents no payment.
isOwnershipProbe(ask) == ask.probe /\ ask.pay = None

Receive(r, ask) ==
  /\ boot = "serving" /\ stage[r] = "idle"
  /\ asked' = [asked EXCEPT ![r] = ask]
  /\ IF ask.input.valid \/ isOwnershipProbe(ask)
       THEN Continue(r, "verifying")
       ELSE Finish(r, Reply("invalid_input", "full"))
  /\ UNCHANGED <<world, bootVars, chainVars>>

\* processHTTPRequest
ProcessThrows(r) == Finish(r, Reply("error", "full"))

PaymentError(r) ==
  \E body \in Bodies :
    Finish(r, IF asked[r].pay = None
                THEN Reply("challenge", IF body = "null" THEN "{}" ELSE body)
                ELSE Relay("verify", body))

NoPaymentRequired(r) == Finish(r, Reply("note", "full"))

\* the handler goes straight on to settle
Verified(r) == asked[r].pay # None /\ Continue(r, "settling")

Process(r) ==
  /\ stage[r] = "verifying"
  /\ \/ (ProcessThrows(r) \/ PaymentError(r) \/ NoPaymentRequired(r))
          /\ UNCHANGED handedOver
     \/ Verified(r) /\ handedOver' = handedOver \cup {asked[r].pay}
  /\ UNCHANGED <<world, bootVars, asked, charged>>

\* external: the facilitator's transaction is applied
Charge(p) ==
  /\ p \in handedOver \ charged
  /\ charged' = charged \cup {p}
  /\ UNCHANGED <<world, bootVars, routeVars, handedOver>>

\* processSettlement
SettleSucceeds(r) == asked[r].pay \in charged /\ Continue(r, "building")
SettleThrows(r) == Finish(r, Relay("settle-threw", "null"))
SettleFails(r) == \E body \in Bodies : Finish(r, Relay("settle", body))

Settle(r) ==
  /\ stage[r] = "settling"
  /\ SettleSucceeds(r) \/ SettleThrows(r) \/ SettleFails(r)
  /\ UNCHANGED <<world, bootVars, asked, chainVars>>

\* Mutant of BuildFails: an InputError of buildResult is answered as validate's
\* would be, to a buyer who has paid.
BuildFailsAsInput(r) == Finish(r, Reply("invalid_input", "full"))
\* buildResult throws: on its input, or because a service failed it asks.
BuildFails(r) ==
  /\ asked[r].input.throws \/ asked[r].input.upstream
  /\ Finish(r, Reply("handler_failed", "full"))
BuildReturns(r) == Finish(r, Reply("result", "full"))

Build(r) ==
  /\ stage[r] = "building"
  /\ BuildFails(r) \/ BuildReturns(r)
  /\ UNCHANGED <<world, bootVars, asked, chainVars>>

Next ==
  \/ BootStep \/ Sleep
  \/ \E r \in Requests :
       \/ \E ask \in Asks : Receive(r, ask)
       \/ Process(r) \/ Settle(r) \/ Build(r)
  \/ \E p \in Payments : Charge(p)

Spec == Init /\ [][Next]_vars

\* the process runs: its timers fire and its fetches resolve or time out
FairSpec == Spec /\ WF_vars(BootStep) /\ WF_vars(Sleep)

-----------------------------------------------------------------------------

\* Every variable holds a value the code can give it; in particular the
\* backoff stays in 2, 4, 8, 16, 30.
TypeOK ==
  /\ world \in Worlds
  /\ boot \in {"config", "account", "trustline", "warming", "trying",
               "serving", "exited"}
  /\ attempt \in 1 .. MAX_BOOT_ATTEMPTS
  /\ delay \in {2, 4, 8, 16, 30} /\ clock \in Nat /\ wakeAt \in Nat
  /\ asked \in [Requests -> Asks \cup {None}]
  /\ stage \in [Requests -> {"idle", "verifying", "settling", "building",
                             "answered"}]
  /\ answer \in [Requests -> [kind : Kinds, body : Bodies] \cup {None}]
  /\ charged \subseteq handedOver /\ handedOver \subseteq Payments

Answered(r, kinds) == stage[r] = "answered" /\ answer[r].kind \in kinds

\* A payment is charged only on behalf of a request whose input validate
\* accepts: nobody pays to learn that the input was malformed, and the probe
\* header cannot be used to pay past the validation (the incident of 7f03234).
InvalidNeverCharged ==
  \A p \in charged : \E r \in Requests :
    asked[r] # None /\ asked[r].pay = p /\ asked[r].input.valid

\* A route's own payload is returned only against a payment that was charged,
\* whatever mixture of failures, duplicates and late charges came before.
ServedIsCharged ==
  \A r \in Requests : Answered(r, {"result"}) => asked[r].pay \in charged

\* A charge never goes without a word: some request that presented the payment
\* got the result, or was told that the handler failed after the settlement, or
\* that the settlement failed, which the charge may contradict. A charge is never
\* met by challenges, failed verifications and refusals of the input alone.
LossIsReported ==
  \A p \in charged : \E r \in Requests :
    /\ asked[r] # None /\ asked[r].pay = p
    /\ \/ stage[r] \in {"settling", "building"}
       \/ Answered(r, {"result", "handler_failed", "settle", "settle-threw"})

\* A request that presented a payment is never answered with an empty body:
\* the bare 402 {} of the walkthrough, behind which every reason was lost.
PaidFailureExplained ==
  \A r \in Requests :
    stage[r] = "answered" /\ asked[r].pay # None => answer[r].body = "full"

\* A seller whose merchant the RPC shows to be unpayable, or that would list
\* an address no verifier can reach on somebody else's facilitator, takes no
\* payment: it has exited before it listens.
UnpayableNeverCharged ==
  charged # {} =>
    /\ world.override \/ world.localFacilitator \/ world.url = "public"
    /\ world.rpcUp /\ world.rpcSteady /\ ~ world.skip => world.payee = "payable"

\* Nobody pays for nothing: neither for an input the route refuses nor to a
\* seller that should not have come up.
NothingChargedInVain == InvalidNeverCharged /\ UnpayableNeverCharged

\* validate refuses every input on which buildResult would throw, route by
\* route: who has paid gets the payload, unless a service that it needs failed, or
\* answered that it knows no such thing (a city, an account).
FailsUpstreamOnly ==
  \A r \in Requests : Answered(r, {"handler_failed"}) => asked[r].input.upstream

\* Payment and service match: no result without a charge, no charge that the
\* answers conceal, a reason in every answer to a payment, and no failure of a
\* route's own after it.
PaymentMatchesService ==
  ServedIsCharged /\ LossIsReported /\ PaidFailureExplained /\ FailsUpstreamOnly

\* What the boot is meant to survive: a facilitator that is up within 30
\* seconds of the warm-up, or that has been up for at least the last two
\* attempts of a backoff and frees the rate limit within its window of 60.
Healthy(w) ==
  /\ NetworkConsistent(w)
  /\ w.localFacilitator \/ w.url = "public"
  /\ w.payee = "payable"
  /\ \/ w.readyAt <= 30 /\ w.limitedUntil <= 30
     \/ w.readyAt <= 14 /\ w.limitedUntil <= 60

\* A well-configured seller survives its facilitator's cold start and the
\* rate limit it ran into: the five attempts are enough, and it serves.
HealthyBootServes == Healthy(world) => <>(boot = "serving")
=============================================================================
