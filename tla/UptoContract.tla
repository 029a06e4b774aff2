------------------------------ MODULE UptoContract ------------------------------
(***************************************************************************)
(* The upto settlement contract (contracts/upto-vellar/src/lib.rs): a      *)
(* buyer signs a ceiling, anyone who holds the signature may settle it for *)
(* less.  A consumed nonce is an entry of temporary storage, which the     *)
(* host deletes once its time to live is over, so replay protection rests  *)
(* on the entry outliving the authorization.                               *)
(*                                                                         *)
(* The host's own replay protection of signatures is not relied upon: a    *)
(* signature can be presented any number of times.                         *)
(***************************************************************************)
EXTENDS Integers

CONSTANTS
  Payers, Payees, Nonces,
  Auths,        \* the authorizations signed, [from, to, max, exp, nonce]
  MinTTL,       \* ledgers a new temporary entry lives at least
  MaxTTL,       \* ledgers an entry or an allowance can be made to live
  InitBalance   \* of each payer

ASSUME UptoAssumption ==
  /\ Auths \subseteq [from : Payers, to : Payees, max : Nat, exp : Nat,
                      nonce : Nonces]
  /\ MinTTL \in Nat \ {0} /\ MaxTTL \in Nat
  /\ InitBalance \in Nat

VARIABLES
  ledger,      \* sequence of the current ledger
  liveUntil,   \* per (payer, nonce): last ledger of its storage entry, 0 if none
  allowance,   \* per payer: what the contract may draw, [amount, until]
  balance,     \* per payer and payee, of the token
  charges      \* history: the settlements made, [auth, amount, at]

contractVars == <<liveUntil, allowance, balance, charges>>

Accounts == Payers \cup Payees

Init ==
  /\ ledger = 1
  /\ liveUntil = [k \in Payers \X Nonces |-> 0]
  /\ allowance = [p \in Payers |-> [amount |-> 0, until |-> 0]]
  /\ balance = [x \in Accounts |-> IF x \in Payers THEN InitBalance ELSE 0]
  /\ charges = {}

Key(a) == <<a.from, a.nonce>>

\* Mutant of IsUsed: the entry is taken to be gone in its last ledger.
IsUsedBefore(key) == liveUntil[key] > ledger

\* env.storage().temporary().has(&key)
IsUsed(key) == liveUntil[key] >= ledger

\* Mutant of Extended: the entry lives one ledger less than the authorization.
ExtendedShort(a) ==
  IF a.exp - ledger > MinTTL THEN a.exp - 1 ELSE ledger + MinTTL - 1

\* set() makes an entry of MinTTL ledgers, extend_ttl lengthens one that falls
\* short of the authorization's expiry.
Extended(a) ==
  IF a.exp - ledger > MinTTL - 1 THEN a.exp ELSE ledger + MinTTL - 1

InCeiling(a, actual) == actual >= 0 /\ actual <= a.max

Unexpired(a) == ledger <= a.exp

\* Every check of settle(), and what makes the host or the token trap: a time
\* to live beyond the network's maximum, a payer who is short.
Accepts(a, actual) ==
  /\ InCeiling(a, actual)
  /\ Unexpired(a)
  /\ ~IsUsed(Key(a))
  /\ a.exp - ledger <= MaxTTL
  /\ balance[a.from] >= actual

Moved(from, to, amount) ==
  IF from = to THEN balance
  ELSE [balance EXCEPT ![from] = @ - amount, ![to] = @ + amount]

\* consume the nonce, approve the ceiling, draw the actual amount.
SettleEffect(a, actual) ==
  /\ liveUntil' = [liveUntil EXCEPT ![Key(a)] = Extended(a)]
  /\ allowance' = [allowance EXCEPT
                     ![a.from] = [amount |-> a.max - actual, until |-> a.exp]]
  /\ balance' = Moved(a.from, a.to, actual)
  /\ charges' = charges \cup {[auth |-> a, amount |-> actual, at |-> ledger]}

Settle(a, actual) ==
  /\ Accepts(a, actual)
  /\ SettleEffect(a, actual)
  /\ UNCHANGED ledger

LedgerCloses ==
  /\ ledger' = ledger + 1
  /\ UNCHANGED contractVars

Next ==
  \/ \E a \in Auths, actual \in Int : Settle(a, actual)
  \/ LedgerCloses

Spec == Init /\ [][Next]_<<ledger, contractVars>>

-----------------------------------------------------------------------------
(* Properties.                                                             *)

Charge == [auth : Auths, amount : Nat, at : Nat]

\* The types of the state.
UptoTypeOK ==
  /\ ledger \in Nat
  /\ liveUntil \in [Payers \X Nonces -> Nat]
  /\ allowance \in [Payers -> [amount : Nat, until : Nat]]
  /\ balance \in [Accounts -> Nat]
  /\ charges \subseteq Charge

\* A charge stays within the ceiling and the expiry the buyer signed.
ChargesWithinTerms ==
  \A c \in charges :
    c.amount <= c.auth.max /\ c.at <= c.auth.exp /\ c.at <= ledger

\* The entry of a consumed nonce outlives the authorization that consumed it
\* (OQ-1, lib.rs:137-152).
NonceOutlivesAuth ==
  \A c \in charges : liveUntil[Key(c.auth)] >= c.auth.exp

\* An authorization is charged once: neither a replay nor a retry charges again.
ChargedOnce ==
  \A c, d \in charges : c.auth = d.auth => c = d

Promise == INSTANCE CeilingPayments

\* The contract keeps the promise of CeilingPayments.
ImplementsPromise == Promise!Spec
=============================================================================
