---------------------------- MODULE CeilingPayments ----------------------------
(***************************************************************************)
(* What the upto scheme promises a buyer who signs a ceiling: each         *)
(* authorization is charged at most once, by no more than its ceiling, and *)
(* never after its expiry.  Module UptoContract implements it.             *)
(***************************************************************************)
EXTENDS Integers

CONSTANT Auths   \* the authorizations, [from, to, max, exp, nonce]

VARIABLES
  ledger,   \* sequence of the current ledger
  charges   \* the charges made, [auth, amount, at]

Init == ledger \in Nat /\ charges = {}

Charge(a, amount) ==
  /\ \A c \in charges : c.auth # a
  /\ amount \in 0..a.max
  /\ ledger <= a.exp
  /\ charges' = charges \cup {[auth |-> a, amount |-> amount, at |-> ledger]}
  /\ UNCHANGED ledger

LedgerCloses ==
  /\ ledger' = ledger + 1
  /\ UNCHANGED charges

Next ==
  \/ \E a \in Auths : \E amount \in 0..a.max : Charge(a, amount)
  \/ LedgerCloses

Spec == Init /\ [][Next]_<<ledger, charges>>
=============================================================================
