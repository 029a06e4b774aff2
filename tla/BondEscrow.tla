----------------------------- MODULE BondEscrow -----------------------------
(***************************************************************************)
(* The provider bond escrow, contracts/bond-escrow/src/lib.rs: a Soroban   *)
(* contract that holds sellers' bonds, records settlements, takes disputes *)
(* from their payers and resolves each one by a delivery receipt or a      *)
(* slash.                                                                  *)
(*                                                                         *)
(* A contract invocation is atomic, so every entry point is one action. A  *)
(* call that returns an Error or traps changes nothing, so only the        *)
(* successful path of each entry point is a step: its guard is the         *)
(* conjunction of the checks. require_auth appears as the identity of the  *)
(* account on whose behalf the step is taken. Ledger time is the variable  *)
(* now. The SEP-41 token contract is external: a transfer moves the amount *)
(* or, when the balance does not cover it, traps the whole call.           *)
(***************************************************************************)
EXTENDS Integers, FiniteSets

CONSTANTS
  Payments,         \* payment_id: one per settled payment
  ResourceKeys,     \* hashes of canonical resource keys
  Payers, Sellers,  \* addresses; the two may overlap
  Admins,           \* addresses that may call initialize
  Tokens,           \* SEP-41 token contracts
  DeliveryKeys,     \* delivery-signing public keys
  Escrow,           \* the contract's own address
  None,             \* an absent storage entry
  Amounts,          \* amounts a settlement or a deposit may carry
  Supply,           \* each account's initial balance of each token
  DustFloor,        \* PLACEHOLDER_DUST_FLOOR
  DisputeWindow,    \* PLACEHOLDER_DISPUTE_WINDOW_SECONDS
  ResponseWindow,   \* PLACEHOLDER_RESPONSE_WINDOW_SECONDS
  RateLimitMax,     \* PLACEHOLDER_DISPUTE_RATE_LIMIT_MAX
  RateLimitWindow,  \* PLACEHOLDER_DISPUTE_RATE_LIMIT_WINDOW_SECONDS
  Genesis,          \* ledger time of the deployment
  RegistrationEnd   \* bound: no settlement is registered after this time

Accounts == Payers \cup Sellers

\* The last time at which a dispute filed at the last claim deadline still
\* waits for its response window: the clock is not needed beyond it.
MaxTime == RegistrationEnd + DisputeWindow + ResponseWindow

ASSUME ConstantsAssumption ==
  /\ IsFiniteSet(Payments) /\ IsFiniteSet(ResourceKeys)
  /\ Amounts \subseteq Nat
  /\ Supply \in Nat
  /\ DustFloor \in Nat
  /\ DisputeWindow \in Nat \ {0}
  /\ ResponseWindow \in Nat \ {0}
  /\ RateLimitMax \in Nat \ {0}
  /\ RateLimitWindow \in Nat \ {0}
  \* Ledger timestamps are Unix times: now - window never saturates at 0.
  /\ Genesis \in Nat /\ Genesis > RateLimitWindow
  /\ RegistrationEnd \in Nat /\ RegistrationEnd >= Genesis
  /\ Escrow \notin Accounts

VARIABLES
  now,          \* env.ledger().timestamp()
  admin,        \* DataKey::Admin
  listings,     \* DataKey::Listing(resource_key_hash)
  settlements,  \* DataKey::Settlement(payment_id)
  disputes,     \* DataKey::Dispute(payment_id): present exactly while open
  disputeLog,   \* DataKey::DisputeLog(payer)
  balance,      \* the token contracts' balances, by token and address
  slashed       \* history: what finalize has paid out for each payment

vars == <<now, admin, listings, settlements, disputes, disputeLog, balance,
          slashed>>

Time == Genesis .. MaxTime

Listing ==
  [seller: Sellers, token: Tokens, bond_amount: Nat,
   last_claim_window_end: Nat, open_dispute_count: Nat,
   delivery_pubkey: DeliveryKeys \cup {None}]

\* The recorded seller of a settlement is never read back: it is left out.
SettlementRecord ==
  [payer: Payers, resource_key_hash: ResourceKeys, amount: Nat,
   claim_deadline: Nat]

Dispute ==
  [filed_by: Payers, filed_at: Nat, resource_key_hash: ResourceKeys]

\* One entry of a payer's Vec<u64> log. The vector is read only by value and
\* by length: nth tells equal timestamps apart.
LogEntry == [at: Nat, nth: Nat]

\* A signature by the secret half of key over the receipt of one payment. The
\* response hash and the timestamp of the signed tuple are not interpreted.
Receipt == [key: DeliveryKeys, payment: Payments]

ASSUME NoneAssumption ==
  None \notin Listing \cup SettlementRecord \cup Dispute \cup Admins
              \cup DeliveryKeys

Init ==
  /\ now = Genesis
  /\ admin = None
  /\ listings = [k \in ResourceKeys |-> None]
  /\ settlements = [p \in Payments |-> None]
  /\ disputes = [p \in Payments |-> None]
  /\ disputeLog = [a \in Payers |-> {}]
  /\ balance = [t \in Tokens |-> [a \in Accounts \cup {Escrow} |->
                  IF a = Escrow THEN 0 ELSE Supply]]
  /\ slashed = [p \in Payments |-> 0]

-----------------------------------------------------------------------------
(* Helpers shared by the entry points.                                     *)

Moved(b, from, to, amount) ==
  [b EXCEPT ![from] = @ - amount, ![to] = @ + amount]

\* TokenClient::transfer, which traps when the sender cannot cover the amount.
Transfer(token, from, to, amount) ==
  /\ balance[token][from] >= amount
  /\ balance' = [balance EXCEPT ![token] = Moved(@, from, to, amount)]

FreshListing(seller, token) ==
  [seller |-> seller, token |-> token, bond_amount |-> 0,
   last_claim_window_end |-> 0, open_dispute_count |-> 0,
   delivery_pubkey |-> None]

\* The entries of a log that are inside the rolling window ending now.
Unexpired(log) == {e \in log : e.at > now - RateLimitWindow}

\* Mutant of RecordedLog: the pruned log is saved without the new filing.
UnrecordedLog(log) == Unexpired(log)

\* The log after enforce_and_record_rate_limit has admitted a filing.
RecordedLog(log) ==
  Unexpired(log)
    \cup {[at |-> now, nth |-> Cardinality({e \in log : e.at = now})]}

\* Mutant of Withdrawable: an open dispute no longer closes the gate.
UnguardedWithdrawal(l) == now >= l.last_claim_window_end

\* withdraw's unlock gate: the claim window is over and no dispute is open.
Withdrawable(l) ==
  /\ now >= l.last_claim_window_end
  /\ l.open_dispute_count = 0

\* register_settlement advances the window of a listing that exists.
RefreshedWindow(l) ==
  IF l = None THEN None
  ELSE [l EXCEPT !.last_claim_window_end = now + DisputeWindow]

\* file_dispute's deadline, snapshotted when the settlement was registered.
ClaimWindowOpen(s) == now <= s.claim_deadline

ResponseWindowOver(d) == now >= d.filed_at + ResponseWindow

ReceiptVerifies(l, p, r) ==
  /\ l.delivery_pubkey # None
  /\ r = [key |-> l.delivery_pubkey, payment |-> p]

\* Mutant of SlashAmount: the cap at the bond is forgotten.
UncappedSlash(s, l) == s.amount

\* What a slash takes: the disputed amount, or all of a smaller bond.
SlashAmount(s, l) ==
  IF s.amount < l.bond_amount THEN s.amount ELSE l.bond_amount

\* Mutant of DisputeClosed: the counter is not decremented.
UndecrementedClose(l) == l

\* open_dispute_count.saturating_sub(1)
DisputeClosed(l) ==
  [l EXCEPT !.open_dispute_count = IF @ > 0 THEN @ - 1 ELSE 0]

\* Mutant of BondSlashed: the dispute is closed and the bond stays as it was.
BondUntouched(l, slash) == DisputeClosed(l)

\* The listing after finalize has paid a slash out of its bond.
BondSlashed(l, slash) == [DisputeClosed(l) EXCEPT !.bond_amount = @ - slash]

-----------------------------------------------------------------------------
(* The entry points.                                                       *)

Initialize(a) ==
  /\ admin = None
  /\ admin' = a
  /\ UNCHANGED <<now, listings, settlements, disputes, disputeLog, balance,
                 slashed>>

RegisterSettlement(p, payer, k, amount) ==
  /\ now <= RegistrationEnd
  /\ admin # None
  /\ amount > 0
  /\ settlements[p] = None
  /\ settlements' =
       [settlements EXCEPT ![p] =
          [payer |-> payer, resource_key_hash |-> k, amount |-> amount,
           claim_deadline |-> now + DisputeWindow]]
  /\ listings' = [listings EXCEPT ![k] = RefreshedWindow(@)]
  /\ UNCHANGED <<now, admin, disputes, disputeLog, balance, slashed>>

Deposit(seller, k, token, amount) ==
  /\ amount > 0
  /\ amount >= DustFloor
  /\ listings[k] # None => /\ listings[k].seller = seller
                           /\ listings[k].token = token
  /\ Transfer(token, seller, Escrow, amount)
  /\ LET l == IF listings[k] = None
              THEN FreshListing(seller, token) ELSE listings[k]
     IN  listings' = [listings EXCEPT ![k] =
                        [l EXCEPT !.bond_amount = @ + amount]]
  /\ UNCHANGED <<now, admin, settlements, disputes, disputeLog, slashed>>

Withdraw(k) ==
  /\ listings[k] # None
  /\ Withdrawable(listings[k])
  /\ listings[k].bond_amount > 0
  /\ listings' = [listings EXCEPT ![k].bond_amount = 0]
  /\ Transfer(listings[k].token, Escrow, listings[k].seller,
              listings[k].bond_amount)
  /\ UNCHANGED <<now, admin, settlements, disputes, disputeLog, slashed>>

FileDispute(p) ==
  LET s == settlements[p]
      k == s.resource_key_hash
  IN  /\ settlements[p] # None
      /\ ClaimWindowOpen(s)
      /\ listings[k] # None
      /\ disputes[p] = None
      /\ Cardinality(Unexpired(disputeLog[s.payer])) < RateLimitMax
      /\ disputeLog' = [disputeLog EXCEPT ![s.payer] = RecordedLog(@)]
      /\ disputes' = [disputes EXCEPT ![p] =
                        [filed_by |-> s.payer, filed_at |-> now,
                         resource_key_hash |-> k]]
      /\ listings' = [listings EXCEPT ![k].open_dispute_count = @ + 1]
      /\ UNCHANGED <<now, admin, settlements, balance, slashed>>

SetDeliveryKey(k, key) ==
  /\ listings[k] # None
  /\ listings' = [listings EXCEPT ![k].delivery_pubkey = key]
  /\ UNCHANGED <<now, admin, settlements, disputes, disputeLog, balance,
                 slashed>>

PostReceipt(p, r) ==
  LET d == disputes[p]
      k == d.resource_key_hash
  IN  /\ disputes[p] # None
      /\ listings[k] # None
      /\ ~ResponseWindowOver(d)
      /\ ReceiptVerifies(listings[k], p, r)
      /\ disputes' = [disputes EXCEPT ![p] = None]
      /\ listings' = [listings EXCEPT ![k] = DisputeClosed(@)]
      /\ UNCHANGED <<now, admin, settlements, disputeLog, balance, slashed>>

Finalize(p) ==
  LET d == disputes[p]
      k == d.resource_key_hash
      s == settlements[p]
      slash == SlashAmount(s, listings[k])
  IN  /\ disputes[p] # None
      /\ settlements[p] # None
      /\ listings[k] # None
      /\ ResponseWindowOver(d)
      /\ Transfer(listings[k].token, Escrow, s.payer, slash)
      /\ listings' = [listings EXCEPT ![k] = BondSlashed(@, slash)]
      /\ disputes' = [disputes EXCEPT ![p] = None]
      /\ slashed' = [slashed EXCEPT ![p] = @ + slash]
      /\ UNCHANGED <<now, admin, settlements, disputeLog>>

\* The ledger closes and its timestamp advances.
Tick ==
  /\ now < MaxTime
  /\ now' = now + 1
  /\ UNCHANGED <<admin, listings, settlements, disputes, disputeLog, balance,
                 slashed>>

Next ==
  \/ \E a \in Admins : Initialize(a)
  \/ \E p \in Payments, payer \in Payers, k \in ResourceKeys,
        amount \in Amounts : RegisterSettlement(p, payer, k, amount)
  \/ \E seller \in Sellers, k \in ResourceKeys, token \in Tokens,
        amount \in Amounts : Deposit(seller, k, token, amount)
  \/ \E k \in ResourceKeys : Withdraw(k)
  \/ \E p \in Payments : FileDispute(p)
  \/ \E k \in ResourceKeys, key \in DeliveryKeys : SetDeliveryKey(k, key)
  \/ \E p \in Payments, r \in Receipt : PostReceipt(p, r)
  \/ \E p \in Payments : Finalize(p)
  \/ Tick

Spec == Init /\ [][Next]_vars

\* Ledgers keep closing, and finalize is permissionless so that somebody calls
\* it once a response window is over (the comment above finalize).
FairSpec ==
  Spec /\ WF_vars(Tick) /\ \A p \in Payments : WF_vars(Finalize(p))

-----------------------------------------------------------------------------
(* Properties.                                                             *)

\* Every storage entry and balance has the type its Rust field has; in
\* particular no bond, counter or balance is ever negative.
TypeOK ==
  /\ now \in Time
  /\ admin \in Admins \cup {None}
  /\ listings \in [ResourceKeys -> Listing \cup {None}]
  /\ settlements \in [Payments -> SettlementRecord \cup {None}]
  /\ disputes \in [Payments -> Dispute \cup {None}]
  /\ disputeLog \in [Payers -> SUBSET LogEntry]
  /\ \A a \in Payers : IsFiniteSet(disputeLog[a])
  /\ balance \in [Tokens -> [Accounts \cup {Escrow} -> Nat]]
  /\ slashed \in [Payments -> Nat]

OpenDisputes(k) ==
  {p \in Payments : disputes[p] # None /\ disputes[p].resource_key_hash = k}

\* The withdrawal gate reads open_dispute_count, not the disputes: the counter
\* of each listing is exactly the number of Dispute records open against it,
\* through any order of file_dispute, post_receipt and finalize, so that
\* saturating_sub never hides a lost update.
DisputeCountAgrees ==
  \A k \in ResourceKeys :
    Cardinality(OpenDisputes(k)) =
      IF listings[k] = None THEN 0 ELSE listings[k].open_dispute_count

\* An open dispute always has the settlement that gave its payer standing and
\* the listing it was filed against: the SettlementNotFound and ListingNotFound
\* branches of post_receipt and finalize are unreachable, as they claim.
DisputesBacked ==
  \A p \in Payments : disputes[p] # None =>
    /\ settlements[p] # None
    /\ disputes[p].filed_by = settlements[p].payer
    /\ disputes[p].resource_key_hash = settlements[p].resource_key_hash
    /\ disputes[p].filed_at <= settlements[p].claim_deadline
    /\ listings[disputes[p].resource_key_hash] # None

\* One element for every atomic unit of token that some listing promises.
BondUnits(token) ==
  UNION {IF listings[k] # None /\ listings[k].token = token
         THEN {k} \X (1 .. listings[k].bond_amount) ELSE {} :
         k \in ResourceKeys}

\* The contract pools all bonds of a token in one balance. That balance is
\* exactly the sum of the listings' bond_amounts: no withdrawal or slash of one
\* listing is ever paid out of another listing's bond.
Solvent ==
  \A token \in Tokens :
    balance[token][Escrow] = Cardinality(BondUnits(token))

\* The per-payer limit of file_dispute: of the disputes open now, one payer
\* never filed more than RateLimitMax within the last window, over all listings.
FilingRateLimited ==
  \A a \in Payers :
    Cardinality({p \in Payments :
                   /\ disputes[p] # None
                   /\ disputes[p].filed_by = a
                   /\ disputes[p].filed_at > now - RateLimitWindow})
      <= RateLimitMax

\* While a dispute stays open, its listing's bond shrinks only because another
\* dispute of the same listing is resolved: the seller cannot take it out.
BondHeldWhileDisputed ==
  [][\A p \in Payments :
       LET k == disputes[p].resource_key_hash
       IN  /\ disputes[p] # None
           /\ disputes'[p] # None
           /\ listings'[k].bond_amount < listings[k].bond_amount
           => OpenDisputes(k)' # OpenDisputes(k)]_vars

\* Every dispute is resolved in the end, by a receipt or by a slash.
DisputesResolve ==
  \A p \in Payments : (disputes[p] # None) ~> (disputes[p] = None)
=============================================================================
