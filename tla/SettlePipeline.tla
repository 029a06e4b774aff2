---------------------------- MODULE SettlePipeline ----------------------------
(***************************************************************************)
(* POST /settle of src/server.ts with everything it goes through: the      *)
(* idempotency map, the kill switch, the balance guard, the spend policy's *)
(* reservation (src/policy.ts), signer selection from the channel pool     *)
(* (src/facilitator.ts, module ChannelPool), the ledger-skew retry         *)
(* (src/retry.ts), the submission retry (src/rpcstatus.ts), the upto       *)
(* scheme (src/upto.ts), the correction and reconciliation of the          *)
(* reservation, and the registration with the bond escrow (src/bond.ts).   *)
(*                                                                         *)
(* Node runs one callback at a time, so a step goes from one await to the  *)
(* next. A request that starts a pipeline run names that run. The exact    *)
(* scheme of @x402/stellar, the RPC servers and the ledger are external:   *)
(* the exact scheme turns every exception into a failed result with no     *)
(* transaction; a submission may be forwarded whatever the RPC answers;    *)
(* a forwarded transaction is applied at some later time, or never.        *)
(***************************************************************************)
EXTENDS ChannelPool, FiniteSetsExt

CONSTANTS
  ExactTxs, UptoTxs,  \* settlementTxHash of the payloads, by scheme
  MaxFee,             \* maxTransactionFeeStroops = perSettleEstimateStroops
  Ceiling,            \* spendCeilingStroops
  Enforced,           \* pubnet: the spend policy refuses; testnet: it logs
  BondEscrow,         \* whether a bond escrow contract is configured
  SubmitRetryMax,     \* SUBMIT_RETRY_MAX
  SkewRetryMax        \* SKEW_RETRY_MAX

Txs == ExactTxs \cup UptoTxs

ASSUME PipelineAssumption ==
  /\ IsFiniteSet(Settlements)
  /\ ExactTxs \cap UptoTxs = {}
  /\ MaxFee \in Nat \ {0} /\ Ceiling \in Nat
  /\ Enforced \in BOOLEAN /\ BondEscrow \in BOOLEAN
  /\ SubmitRetryMax \in Nat /\ SkewRetryMax \in Nat

VARIABLES
  dedup,         \* settleDedup: the run whose promise a live entry holds
  expired,       \* history: runs whose settleDedup entry has expired
  tx,            \* per request: the hash of its payload
  awaits,        \* per request: the run whose promise it awaits
  phase,         \* per run: the await it is suspended at
  skews, sends,  \* per run: retries made
  booked,        \* policy.globalSpend: stroops of the run's entry, 0: none
  elapsed,       \* history: runs whose spend window has elapsed
  fee,           \* submittedFee.stroops
  ledger,        \* what became of the run's own transaction
  charged,       \* fee_charged of an applied transaction
  result,        \* result.success of facilitator.settle, once resolved
  reconciling,   \* runs whose reconcileSpendReservation is in flight
  standing,      \* payments registered with the bond escrow
  outcome        \* per run: how its promise was settled

dedupVars == <<dedup, expired, tx, awaits>>
spendVars == <<booked, elapsed, reconciling>>
ledgerVars == <<fee, ledger, charged>>
retryVars == <<skews, sends>>
answerVars == <<result, outcome>>
vars == <<dedupVars, phase, retryVars, spendVars, ledgerVars,
          standing, answerVars, poolVars>>

Phases == {"idle", "verify", "build", "send", "backoff", "poll", "adjust",
           "register", "done"}

\* What the promise of a run resolves to. "invalid": 200 with a failed result
\* and no transaction; "failed": 200 with a failed result and a transaction;
\* "rpc": 200 with a failed result and rpcStatus; "refused": 400 or 503 before
\* anything was reserved; "exhausted": 503 pool_exhausted; "unregistered": 503
\* or 500 after a payment that settled; "thrown": the promise rejects.
Outcomes == {"success", "invalid", "failed", "rpc", "refused", "exhausted",
             "unregistered", "thrown"}

Applied == {"success", "failed"}

ASSUME NoneAssumption == None \notin Txs \cup Settlements \cup Outcomes

Init ==
  /\ PoolInit
  /\ dedup = [t \in Txs |-> None]
  /\ expired = {}
  /\ tx = [r \in Settlements |-> None]
  /\ awaits = [r \in Settlements |-> None]
  /\ phase = [r \in Settlements |-> "idle"]
  /\ skews = [r \in Settlements |-> 0]
  /\ sends = [r \in Settlements |-> 0]
  /\ booked = [r \in Settlements |-> 0]
  /\ elapsed = {}
  /\ fee = [r \in Settlements |-> 0]
  /\ ledger = [r \in Settlements |-> "absent"]
  /\ charged = [r \in Settlements |-> 0]
  /\ result = [r \in Settlements |-> None]
  /\ reconciling = {}
  /\ standing = {}
  /\ outcome = [r \in Settlements |-> None]

-----------------------------------------------------------------------------
(* Helpers.                                                                *)

Exact(r) == tx[r] \in ExactTxs

WindowSpend == MapThenSumSet(LAMBDA r : booked[r], Settlements)

\* Mutant of OverCeiling: the estimate of this settle is left out of the sum.
OverCeilingBefore == WindowSpend > Ceiling

\* The global ceiling in SpendPolicy.evaluate.
OverCeiling == WindowSpend + MaxFee > Ceiling

Finish(r, kind) ==
  /\ phase' = [phase EXCEPT ![r] = "done"]
  /\ outcome' = [outcome EXCEPT ![r] = kind]

Goto(r, next) ==
  /\ phase' = [phase EXCEPT ![r] = next]
  /\ UNCHANGED outcome

ReleaseIfHeld(r) == IF lane[r] # None THEN Release(r) ELSE UNCHANGED poolVars

\* Mutant of AfterSettle: every failed result gives the reservation back.
RefundOnFailure(b, kind, submittedFee) ==
  IF kind = "success" /\ b > 0 THEN submittedFee ELSE 0

\* The reservation b once settle() has returned: refundUnspent when there is no
\* transaction, adjustReservation to the submitted fee when there is one (a
\* no-op when the entry has left the window).
AfterSettle(b, kind, submittedFee) ==
  IF kind \notin {"invalid", "rpc"} /\ b > 0 THEN submittedFee ELSE 0

\* facilitator.settle has returned: the finally block releases the lane, and
\* the reservation is refunded or adjusted before the next await.
Resolve(r, kind) ==
  /\ ReleaseIfHeld(r)
  /\ result' = [result EXCEPT ![r] = kind]
  /\ booked' = [booked EXCEPT ![r] = AfterSettle(@, kind, fee[r])]
  /\ IF kind \in {"success", "failed"} THEN Goto(r, "adjust")
     ELSE Finish(r, kind)
  /\ UNCHANGED <<dedupVars, elapsed, reconciling, standing>>

\* facilitator.settle has thrown: the catch block refunds and rethrows. Only
\* the upto scheme throws, and it never holds a lane.
Throw(r) ==
  /\ ~Exact(r)
  /\ booked' = [booked EXCEPT ![r] = 0]
  /\ Finish(r, "thrown")
  /\ UNCHANGED <<dedupVars, elapsed, reconciling, standing,
                 result, poolVars>>

\* An exception inside settle(): the exact scheme returns a failed result with
\* no transaction, the upto scheme lets it through.
Crash(r) == IF Exact(r) THEN Resolve(r, "invalid") ELSE Throw(r)

-----------------------------------------------------------------------------
(* The route handler up to its first await.                                *)

\* A live settleDedup entry: the request awaits the promise it holds.
JoinRun(r, t) ==
  /\ awaits[r] = None
  /\ dedup[t] # None
  /\ tx' = [tx EXCEPT ![r] = t]
  /\ awaits' = [awaits EXCEPT ![r] = dedup[t]]
  /\ UNCHANGED <<dedup, expired, phase, retryVars, spendVars,
                 ledgerVars, standing, answerVars, poolVars>>

\* Mutant of RegisterRun: the promise is not put into settleDedup.
UnregisteredRun(r, t) ==
  /\ awaits[r] = None
  /\ dedup[t] = None
  /\ tx' = [tx EXCEPT ![r] = t]
  /\ awaits' = [awaits EXCEPT ![r] = r]
  /\ UNCHANGED <<dedup, expired>>

\* No live entry: the request starts a run and registers its promise.
RegisterRun(r, t) ==
  /\ awaits[r] = None
  /\ dedup[t] = None
  /\ tx' = [tx EXCEPT ![r] = t]
  /\ awaits' = [awaits EXCEPT ![r] = r]
  /\ dedup' = [dedup EXCEPT ![t] = r]
  /\ UNCHANGED expired

\* The refusals before settle(): the kill switch, the balance guard and the
\* spend policy. The operator and the guard's timer may have changed the first
\* two at any time before, and the rate budgets per payTo and per URL are
\* windows over requests this module does not tell apart: each is an input.
Refused(paused, critical, rateLimited) ==
  \/ paused
  \/ critical
  \/ Enforced /\ (rateLimited \/ OverCeiling)

StartRun(r, t) ==
  /\ RegisterRun(r, t)
  /\ \E paused, critical, rateLimited \in BOOLEAN :
       IF Refused(paused, critical, rateLimited)
       THEN Finish(r, "refused") /\ UNCHANGED booked
       ELSE Goto(r, "verify") /\ booked' = [booked EXCEPT ![r] = MaxFee]
  /\ UNCHANGED <<retryVars, elapsed, reconciling, ledgerVars,
                 standing, result, poolVars>>

\* A body without a parseable transaction has no hash: it is answered 400.
RejectMalformed(r) ==
  /\ awaits[r] = None
  /\ awaits' = [awaits EXCEPT ![r] = r]
  /\ Finish(r, "refused")
  /\ UNCHANGED <<dedup, expired, tx, retryVars, spendVars,
                 ledgerVars, standing, result, poolVars>>

-----------------------------------------------------------------------------
(* Inside facilitator.settle.                                              *)

\* Verification says no, or an RPC call it makes fails.
VerifyFails(r) ==
  /\ phase[r] = "verify"
  /\ Resolve(r, "invalid") \/ Crash(r)
  /\ UNCHANGED <<retryVars, ledgerVars>>

\* withSkewRetry: a signature that expires too far ahead of the node's ledger.
\* It comes from verification, before a signer is selected.
SkewRetry(r) ==
  /\ phase[r] = "verify"
  /\ Exact(r)
  /\ skews[r] < SkewRetryMax
  /\ skews' = [skews EXCEPT ![r] = @ + 1]
  /\ UNCHANGED <<dedupVars, phase, sends, spendVars, ledgerVars,
                 standing, answerVars, poolVars>>

\* Verification passes and selectSigner acquires a lane.
SelectSigner(r) ==
  /\ phase[r] = "verify"
  /\ Exact(r)
  /\ Acquire(r)
  /\ Goto(r, "build")
  /\ UNCHANGED <<dedupVars, retryVars, spendVars, ledgerVars,
                 standing, result>>

\* Verification passes and acquire() throws: the 503 returns at once, with the
\* reservation as it is.
PoolExhausted(r) ==
  /\ phase[r] = "verify"
  /\ Exact(r)
  /\ Exhausted
  /\ Finish(r, "exhausted")
  /\ UNCHANGED <<dedupVars, retryVars, spendVars, ledgerVars,
                 standing, result, poolVars>>

\* The exact scheme fails to load the account, rebuild or sign.
BuildFails(r) ==
  /\ phase[r] = "build"
  /\ Resolve(r, "invalid")
  /\ UNCHANGED <<retryVars, ledgerVars>>

\* The transaction is signed and sendTransaction captures its fee. The upto
\* scheme comes here from its simulation and uses the sponsor's own sequence.
Built(r, f) ==
  /\ phase[r] = IF Exact(r) THEN "build" ELSE "verify"
  /\ Goto(r, "send")
  /\ fee' = [fee EXCEPT ![r] = f]
  /\ UNCHANGED <<dedupVars, retryVars, spendVars, ledger, charged,
                 standing, result, poolVars>>

Forward(r) ==
  ledger' = [ledger EXCEPT ![r] = IF @ = "absent" THEN "pending" ELSE @]

MaybeForward(r) == Forward(r) \/ UNCHANGED ledger

\* sendTransaction answers PENDING: the library starts polling.
SendPending(r) ==
  /\ phase[r] = "send"
  /\ Forward(r)
  /\ Goto(r, "poll")
  /\ UNCHANGED <<dedupVars, retryVars, spendVars, fee, charged,
                 standing, result, poolVars>>

\* TRY_AGAIN_LATER, which does not say whether the transaction was forwarded:
\* the patched sendTransaction waits and tries again, a bounded number of times.
SendTryAgain(r) ==
  /\ phase[r] = "send"
  /\ MaybeForward(r)
  /\ IF sends[r] < SubmitRetryMax
     THEN /\ Goto(r, "backoff")
          /\ sends' = [sends EXCEPT ![r] = @ + 1]
          /\ UNCHANGED <<dedupVars, spendVars, standing, result,
                         poolVars>>
     ELSE Resolve(r, "rpc") /\ UNCHANGED sends
  /\ UNCHANGED <<skews, fee, charged>>

\* ERROR (txBadSeq and the like) forwards nothing; DUPLICATE says that an
\* earlier attempt was forwarded. Both end the submission.
SendRefused(r) ==
  /\ phase[r] = "send"
  /\ Resolve(r, "rpc")
  /\ UNCHANGED <<retryVars, ledgerVars>>

\* The connection fails before or after the RPC took the transaction.
SendThrows(r) ==
  /\ phase[r] = "send"
  /\ MaybeForward(r)
  /\ Crash(r)
  /\ UNCHANGED <<retryVars, fee, charged>>

\* checkAlreadyLanded: a node that knows the outcome stops the retry. A node
\* that lags, or a check that fails, lets the identical envelope go out again.
RetrySend(r) ==
  /\ phase[r] = "backoff"
  /\ \/ ledger[r] \in Applied /\ Goto(r, "poll")
     \/ Goto(r, "send")
  /\ UNCHANGED <<dedupVars, retryVars, spendVars, ledgerVars,
                 standing, result, poolVars>>

\* Mutant of Poll: nothing bounds the polling.
PollForever(r) ==
  /\ phase[r] = "poll"
  /\ ledger[r] \in Applied
  /\ Resolve(r, ledger[r])
  /\ UNCHANGED <<retryVars, ledgerVars>>

\* Polling ends with the ledger's answer, or without one.
Poll(r) ==
  /\ phase[r] = "poll"
  /\ \/ ledger[r] \in Applied /\ Resolve(r, ledger[r])
     \/ Resolve(r, "failed")
     \/ Crash(r)
  /\ UNCHANGED <<retryVars, ledgerVars>>

-----------------------------------------------------------------------------
(* After facilitator.settle.                                               *)

\* The awaited write of adjustReservation is over: reconciliation starts in
\* the background and the handler goes on to the bond or to the answer.
Adjusted(r) ==
  /\ phase[r] = "adjust"
  /\ reconciling' = reconciling \cup {r}
  /\ IF result[r] = "success" /\ BondEscrow THEN Goto(r, "register")
     ELSE Finish(r, result[r])
  /\ UNCHANGED <<dedupVars, retryVars, booked, elapsed, ledgerVars,
                 standing, result, poolVars>>

\* registerSettlement reports registered, or that standing already exists.
Registered(r) ==
  /\ phase[r] = "register"
  /\ standing' = standing \cup {r}
  /\ Finish(r, "success")
  /\ UNCHANGED <<dedupVars, retryVars, spendVars, ledgerVars,
                 result, poolVars>>

\* Mutant of RegistrationFails: the failure is logged and the settle succeeds.
RegistrationIgnored(r) ==
  /\ phase[r] = "register"
  /\ Finish(r, "success")
  /\ UNCHANGED <<dedupVars, retryVars, spendVars, ledgerVars,
                 standing, result, poolVars>>

\* Rejected by the contract, infrastructure_error, an exception or no payer.
\* A confirmation timeout may hide a registration that went through.
RegistrationFails(r) ==
  /\ phase[r] = "register"
  /\ standing' \in {standing, standing \cup {r}}
  /\ Finish(r, "unregistered")
  /\ UNCHANGED <<dedupVars, retryVars, spendVars, ledgerVars,
                 result, poolVars>>

\* reconcileSpendReservation: the reservation becomes the fee charged, unless
\* it left the window or the outcome cannot be read.
Reconcile(r) ==
  /\ r \in reconciling
  /\ reconciling' = reconciling \ {r}
  /\ booked' = [booked EXCEPT ![r] =
       IF ledger[r] \in Applied /\ @ > 0 THEN charged[r] ELSE @]
  /\ UNCHANGED <<dedupVars, phase, retryVars, elapsed, ledgerVars,
                 standing, answerVars, poolVars>>

\* Its attempts run out: the reservation stays at the submitted fee.
ReconcileGivesUp(r) ==
  /\ r \in reconciling
  /\ reconciling' = reconciling \ {r}
  /\ UNCHANGED <<dedupVars, phase, retryVars, booked, elapsed,
                 ledgerVars, standing, answerVars, poolVars>>

-----------------------------------------------------------------------------
(* The environment.                                                        *)

\* A forwarded transaction is applied and charged at most its fee. The payer's
\* authorization is single-use: a payload pays once, whoever submits it.
Apply(r) ==
  /\ ledger[r] = "pending"
  /\ \E status \in Applied, c \in 1 .. fee[r] :
       /\ status = "success" =>
            \A q \in Settlements : tx[q] = tx[r] => ledger[q] # "success"
       /\ ledger' = [ledger EXCEPT ![r] = status]
       /\ charged' = [charged EXCEPT ![r] = c]
  /\ UNCHANGED <<dedupVars, phase, retryVars, spendVars, fee,
                 standing, answerVars, poolVars>>

\* The spend window of a reservation elapses: evaluate() filters it out.
WindowElapses(r) ==
  /\ booked[r] > 0
  /\ booked' = [booked EXCEPT ![r] = 0]
  /\ elapsed' = elapsed \cup {r}
  /\ UNCHANGED <<dedupVars, phase, retryVars, reconciling,
                 ledgerVars, standing, answerVars, poolVars>>

\* SETTLE_DEDUP_TTL_MS after the run began, whether or not it has ended.
DedupExpires(t) ==
  /\ dedup[t] # None
  /\ dedup' = [dedup EXCEPT ![t] = None]
  /\ expired' = expired \cup {dedup[t]}
  /\ UNCHANGED <<tx, awaits, phase, retryVars, spendVars,
                 ledgerVars, standing, answerVars, poolVars>>

\* The channel monitor withdraws a lane or puts it back.
Monitor(a) ==
  /\ Disable(a) \/ Enable(a)
  /\ UNCHANGED <<dedupVars, phase, retryVars, spendVars, ledgerVars, standing,
                 answerVars>>

Step(r) ==
  \/ VerifyFails(r) \/ SkewRetry(r) \/ SelectSigner(r) \/ PoolExhausted(r)
  \/ BuildFails(r) \/ \E f \in 1 .. MaxFee : Built(r, f)
  \/ SendPending(r) \/ SendTryAgain(r) \/ SendRefused(r) \/ SendThrows(r)
  \/ RetrySend(r) \/ Poll(r)
  \/ Adjusted(r) \/ Registered(r) \/ RegistrationFails(r)

Next ==
  \/ \E r \in Settlements, t \in Txs : JoinRun(r, t) \/ StartRun(r, t)
  \/ \E r \in Settlements : RejectMalformed(r)
  \/ \E r \in Settlements : Step(r)
  \/ \E r \in Settlements : Reconcile(r) \/ ReconcileGivesUp(r)
  \/ \E r \in Settlements : Apply(r) \/ WindowElapses(r)
  \/ \E t \in Txs : DedupExpires(t)
  \/ \E a \in Lanes : Monitor(a)

Spec == Init /\ [][Next]_vars

\* Every RPC call a run awaits is answered or fails in the end.
FairSpec == Spec /\ \A r \in Settlements : WF_vars(Step(r))

-----------------------------------------------------------------------------
(* Properties.                                                             *)

\* The maps, counters and promises of the handler have their types, and no
\* reservation is negative or above the estimate it started with.
TypeOK ==
  /\ PoolTypeOK
  /\ dedup \in [Txs -> Settlements \cup {None}]
  /\ expired \subseteq Settlements
  /\ tx \in [Settlements -> Txs \cup {None}]
  /\ awaits \in [Settlements -> Settlements \cup {None}]
  /\ phase \in [Settlements -> Phases]
  /\ skews \in [Settlements -> 0 .. SkewRetryMax]
  /\ sends \in [Settlements -> 0 .. SubmitRetryMax]
  /\ booked \in [Settlements -> 0 .. MaxFee]
  /\ elapsed \subseteq Settlements
  /\ fee \in [Settlements -> 0 .. MaxFee]
  /\ ledger \in [Settlements -> {"absent", "pending"} \cup Applied]
  /\ charged \in [Settlements -> 0 .. MaxFee]
  /\ result \in [Settlements -> Outcomes \cup {None}]
  /\ reconciling \subseteq Settlements
  /\ standing \subseteq Settlements
  /\ outcome \in [Settlements -> Outcomes \cup {None}]

Running(r) == phase[r] \notin {"idle", "done"}

\* Two requests with one payload never run the pipeline side by side while the
\* settleDedup entry of the first is alive: they share its promise.
SingleFlight ==
  \A q, r \in Settlements :
    q # r /\ Running(q) /\ Running(r) /\ tx[q] = tx[r]
      => q \in expired \/ r \in expired

\* /settle reports success only for a payment that is on the ledger and, when a
\* bond escrow is configured, whose payer has standing to dispute it.
SuccessIsBacked ==
  \A r \in Settlements : outcome[r] = "success" =>
    /\ ledger[r] = "success"
    /\ BondEscrow => r \in standing

\* On pubnet the reservations in the window never exceed the ceiling, whatever
\* is reserved, adjusted, refunded and reconciled concurrently.
CeilingHolds == Enforced => WindowSpend <= Ceiling

\* A run that returned a transaction keeps a reservation that covers the fee
\* the network charged it, until its window elapses: neither the submitted fee
\* nor a late reconciliation books less than was spent.
SubmittedStaysBooked ==
  \A r \in Settlements :
    result[r] \in {"success", "failed"} /\ r \notin elapsed
      => booked[r] >= charged[r] /\ booked[r] > 0

\* Of the answered runs that never sent a transaction, only one refused by an
\* empty pool still weighs on the ceiling: junk cannot use up the budget.
UnsentIsReleased ==
  \A r \in Settlements :
    outcome[r] \notin {None, "exhausted"} /\ fee[r] = 0 => booked[r] = 0

\* The booking matches the spend: what was submitted stays booked and what was
\* never sent is released, whichever retries, answers and reconciliations
\* came between.
BookingMatchesSpend == SubmittedStaysBooked /\ UnsentIsReleased

\* Every request is answered in the end.
EveryRequestAnswered ==
  \A r \in Settlements :
    awaits[r] # None ~> awaits[r] # None /\ outcome[awaits[r]] # None
=============================================================================
