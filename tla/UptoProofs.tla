------------------------------- MODULE UptoProofs -------------------------------
(***************************************************************************)
(* Proofs about UptoContract, for every set of authorizations, and about   *)
(* UptoSettlement, which implements it.                                    *)
(*                                                                         *)
(* The inductive invariant is ChargedOnce with the reason for it: the      *)
(* storage entry of a consumed nonce outlives the authorization that       *)
(* consumed it, so whenever that authorization could be charged again it   *)
(* is either expired or its nonce is still there.                          *)
(***************************************************************************)
EXTENDS UptoSettlement, TLAPS

USE UptoAssumption

UptoInv ==
  UptoTypeOK /\ ChargesWithinTerms /\ NonceOutlivesAuth /\ ChargedOnce

\* What Extended returns: an entry that is there now, and at the expiry.
LEMMA ExtendedReaches ==
  ASSUME NEW a \in Auths, ledger \in Nat, Unexpired(a)
  PROVE  Extended(a) \in Nat /\ Extended(a) >= a.exp /\ Extended(a) >= ledger
BY SMT DEF Extended, Unexpired

\* A settlement that passes every check keeps the types.
LEMMA SettleTypes ==
  ASSUME UptoTypeOK, NEW a \in Auths, NEW actual \in Int,
         Accepts(a, actual), SettleEffect(a, actual), UNCHANGED ledger
  PROVE  UptoTypeOK'
<1>1. actual \in Nat /\ actual <= a.max /\ Unexpired(a)
  BY DEF Accepts, InCeiling
<1>2. ledger' \in Nat
  BY DEF UptoTypeOK
<1>3. liveUntil' \in [Payers \X Nonces -> Nat]
  BY <1>1, ExtendedReaches DEF UptoTypeOK, SettleEffect, Key
<1>4. allowance' \in [Payers -> [amount : Nat, until : Nat]]
  BY <1>1 DEF UptoTypeOK, SettleEffect
<1>5. balance' \in [Accounts -> Nat]
  <2>1. a.from \in Accounts /\ a.to \in Accounts
    BY DEF Accounts
  <2>2. balance[a.from] - actual \in Nat
    BY <1>1, <2>1 DEF Accepts, UptoTypeOK
  <2> QED
    BY <1>1, <2>1, <2>2 DEF UptoTypeOK, SettleEffect, Moved
<1>6. charges' \subseteq Charge
  BY <1>1 DEF UptoTypeOK, SettleEffect, Charge
<1> QED
  BY <1>2, <1>3, <1>4, <1>5, <1>6 DEF UptoTypeOK

\* The nonce of an authorization that was charged is still there.
LEMMA ChargedIsUsed ==
  ASSUME UptoInv, NEW a \in Auths, NEW c \in charges, c.auth = a, Unexpired(a)
  PROVE  IsUsed(Key(a))
<1>1. liveUntil[Key(a)] >= a.exp
  BY DEF UptoInv, NonceOutlivesAuth
<1>2. Key(a) \in Payers \X Nonces
  BY DEF Key
<1> QED
  BY <1>1, <1>2 DEF IsUsed, Unexpired, UptoInv, UptoTypeOK

\* So an authorization that is accepted was never charged before.
LEMMA AcceptedIsFresh ==
  ASSUME UptoInv, NEW a \in Auths, NEW actual \in Int, Accepts(a, actual)
  PROVE  \A c \in charges : c.auth # a
BY ChargedIsUsed DEF Accepts

\* A settlement that passes every check keeps the invariant.
LEMMA SettleKeeps ==
  ASSUME UptoInv, NEW a \in Auths, NEW actual \in Int,
         Accepts(a, actual), SettleEffect(a, actual), UNCHANGED ledger
  PROVE  UptoInv'
<1> DEFINE new == [auth |-> a, amount |-> actual, at |-> ledger]
<1>1. UptoTypeOK'
  BY SettleTypes DEF UptoInv
<1>2. charges' = charges \cup {new} /\ ledger' = ledger
  BY DEF SettleEffect
<1>3. actual <= a.max /\ Unexpired(a) /\ ledger \in Nat
  BY DEF Accepts, InCeiling, UptoInv, UptoTypeOK
<1>4. ChargesWithinTerms'
  BY <1>2, <1>3 DEF UptoInv, ChargesWithinTerms, Unexpired
<1>5. NonceOutlivesAuth'
  <2> SUFFICES ASSUME NEW c \in charges'
               PROVE  liveUntil'[Key(c.auth)] >= c.auth.exp
    BY DEF NonceOutlivesAuth, Key
  <2>1. /\ Extended(a) \in Nat /\ Extended(a) >= a.exp /\ Extended(a) >= ledger
        /\ liveUntil' = [liveUntil EXCEPT ![Key(a)] = Extended(a)]
    BY <1>3, ExtendedReaches DEF SettleEffect
  <2>2. /\ Key(a) \in Payers \X Nonces /\ liveUntil \in [Payers \X Nonces -> Nat]
        /\ ~ (liveUntil[Key(a)] >= ledger)
    BY DEF Key, UptoInv, UptoTypeOK, Accepts, IsUsed
  <2>3. CASE c = new
    BY <2>1, <2>2, <2>3
  <2>4. CASE c \in charges
    <3>1. /\ c.auth \in Auths /\ Key(c.auth) \in Payers \X Nonces
          /\ liveUntil[Key(c.auth)] >= c.auth.exp
      BY <2>4 DEF UptoInv, UptoTypeOK, Charge, NonceOutlivesAuth, Key
    <3>2. liveUntil'[Key(c.auth)] >= liveUntil[Key(c.auth)]
      BY <1>3, <2>1, <2>2, <3>1
    <3>3. /\ liveUntil[Key(c.auth)] \in Nat /\ liveUntil'[Key(c.auth)] \in Nat
          /\ c.auth.exp \in Nat
      BY <1>1, <2>2, <3>1 DEF UptoTypeOK
    <3> QED
      BY <3>1, <3>2, <3>3
  <2> QED
    BY <1>2, <2>3, <2>4
<1>6. ChargedOnce'
  <2>1. \A c \in charges : c.auth # a
    BY AcceptedIsFresh
  <2> QED
    BY <1>2, <2>1 DEF UptoInv, ChargedOnce
<1> QED
  BY <1>1, <1>4, <1>5, <1>6 DEF UptoInv

\* So does a ledger that closes.
LEMMA ClosingKeeps ==
  ASSUME UptoInv, LedgerCloses
  PROVE  UptoInv'
<1>1. ledger \in Nat /\ ledger' = ledger + 1 /\ UNCHANGED contractVars
  BY DEF LedgerCloses, UptoInv, UptoTypeOK
<1>2. UptoTypeOK'
  BY <1>1 DEF UptoInv, UptoTypeOK, contractVars
<1>3. ChargesWithinTerms'
  <2> SUFFICES ASSUME NEW c \in charges
               PROVE  c.amount <= c.auth.max /\ c.at <= c.auth.exp /\ c.at <= ledger'
    BY <1>1 DEF ChargesWithinTerms, contractVars
  <2>1. c.at \in Nat /\ c.at <= ledger
    BY DEF UptoInv, UptoTypeOK, Charge, ChargesWithinTerms
  <2> QED
    BY <1>1, <2>1 DEF UptoInv, ChargesWithinTerms
<1>4. NonceOutlivesAuth' /\ ChargedOnce'
  BY <1>1 DEF UptoInv, NonceOutlivesAuth, ChargedOnce, contractVars, Key
<1> QED
  BY <1>2, <1>3, <1>4 DEF UptoInv

\* It holds in the beginning.
LEMMA InitInv == Init => UptoInv
BY SMT DEF Init, UptoInv, UptoTypeOK, ChargesWithinTerms, NonceOutlivesAuth,
           ChargedOnce, Accounts

LEMMA ContractStep == UptoInv /\ [Next]_<<ledger, contractVars>> => UptoInv'
<1> SUFFICES ASSUME UptoInv, [Next]_<<ledger, contractVars>>
             PROVE  UptoInv'
  OBVIOUS
<1>1. CASE \E a \in Auths, actual \in Int : Settle(a, actual)
  BY <1>1, SettleKeeps DEF Settle
<1>2. CASE LedgerCloses
  BY <1>2, ClosingKeeps
<1>3. CASE UNCHANGED <<ledger, contractVars>>
  BY <1>3 DEF UptoInv, UptoTypeOK, ChargesWithinTerms, NonceOutlivesAuth,
              ChargedOnce, contractVars, Key
<1> QED
  BY <1>1, <1>2, <1>3 DEF Next

\* The invariant of the contract, whoever calls it and however often.
THEOREM ContractSafe == Spec => []UptoInv
BY ContractStep, InitInv, PTL DEF Spec

-----------------------------------------------------------------------------
(* The contract implements CeilingPayments.                                *)

\* A settlement is a charge the buyer agreed to.
LEMMA SettleIsCharge ==
  ASSUME UptoInv, NEW a \in Auths, NEW actual \in Int, Settle(a, actual)
  PROVE  \E amount \in 0..a.max : Promise!Charge(a, amount)
<1>1. Accepts(a, actual) /\ SettleEffect(a, actual) /\ UNCHANGED ledger
  BY DEF Settle
<1>2. actual \in 0..a.max /\ ledger <= a.exp
  BY <1>1 DEF Accepts, InCeiling, Unexpired
<1>3. \A c \in charges : c.auth # a
  BY <1>1, AcceptedIsFresh
<1> QED
  BY <1>1, <1>2, <1>3 DEF Promise!Charge, SettleEffect

\* Every step of the contract is a charge, a ledger that closes, or neither.
LEMMA StepImplements ==
  ASSUME UptoInv, [Next]_<<ledger, contractVars>>
  PROVE  [Promise!Next]_<<ledger, charges>>
<1>1. CASE \E a \in Auths, actual \in Int : Settle(a, actual)
  BY <1>1, SettleIsCharge DEF Promise!Next
<1>2. CASE LedgerCloses
  BY <1>2 DEF LedgerCloses, contractVars, Promise!Next, Promise!LedgerCloses
<1>3. CASE UNCHANGED <<ledger, contractVars>>
  BY <1>3 DEF contractVars
<1> QED
  BY <1>1, <1>2, <1>3 DEF Next

\* Each authorization is charged at most once, within its ceiling and before
\* its expiry, whoever presents it and however often.
THEOREM ContractImplementsPromise == Spec => ImplementsPromise
<1>1. Init => Promise!Init
  BY DEF Init, Promise!Init
<1> QED
  BY <1>1, StepImplements, ContractSafe, PTL
  DEF Spec, ImplementsPromise, Promise!Spec

-----------------------------------------------------------------------------
(* The facilitator drives the contract: what holds of every caller holds   *)
(* of it.                                                                  *)

Asked(r) == ask[r].auth \in Auths /\ ask[r].actual \in Int

\* A request past its first step has asked; one in the mempool is past it.
AskInv ==
  /\ ask \in [Requests -> [auth : Auths, actual : Int] \cup {None}]
  /\ DOMAIN pc = Requests /\ pc = [r \in Requests |-> pc[r]]
  /\ \A r \in Requests : pc[r] # "idle" => Asked(r)
  /\ \A r \in mempool : r \in Requests /\ pc[r] # "idle"

\* A step of the network or the facilitator is one of the contract's, or none.
LEMMA SchemeStep ==
  ASSUME AskInv, [SchemeNext]_schemeVars
  PROVE  [Next]_<<ledger, contractVars>>
<1>1. CASE \E r \in Requests : Include(r)
  <2> PICK r \in Requests : Include(r)
    BY <1>1
  <2>1. ask[r].auth \in Auths /\ ask[r].actual \in Int
    BY DEF Include, AskInv, Asked
  <2>2. CASE Accepts(ask[r].auth, ask[r].actual)
    BY <2>1, <2>2 DEF Include, Settle, Next
  <2>3. CASE ~Accepts(ask[r].auth, ask[r].actual)
    BY <2>3 DEF Include
  <2> QED
    BY <2>2, <2>3
<1>2. CASE \E a \in Auths : \E actual \in -1..(a.max + 1) : SettleElsewhere(a, actual)
  BY <1>2 DEF SettleElsewhere, Next
<1>3. CASE CloseLedger
  BY <1>3 DEF CloseLedger, Next
<1>4. CASE \E r \in Requests :
             \/ \E a \in Auths : \E actual \in -1..(a.max + 1) : Begin(r, a, actual)
             \/ GetAccount(r) \/ Simulate(r) \/ SendTransaction(r)
             \/ GetTransaction(r) \/ Throw(r) \/ Drop(r)
  BY <1>4 DEF Begin, GetAccount, Simulate, SendTransaction, GetTransaction,
              Throw, Drop
<1>5. CASE UNCHANGED schemeVars
  BY <1>5 DEF schemeVars
<1> QED
  BY <1>1, <1>2, <1>3, <1>4, <1>5 DEF SchemeNext, Run

\* AskInv is inductive.
LEMMA AskKept ==
  ASSUME AskInv, [SchemeNext]_schemeVars
  PROVE  AskInv'
<1>1. CASE \E r \in Requests : \E a \in Auths : \E actual \in -1..(a.max + 1) :
             Begin(r, a, actual)
  <2> PICK r \in Requests, a \in Auths, actual \in Int : Begin(r, a, actual)
    BY <1>1
  <2>1. /\ ask' = [ask EXCEPT ![r] = [auth |-> a, actual |-> actual]]
        /\ mempool' = mempool
        /\ pc' \in {[pc EXCEPT ![r] = "getAccount"], [pc EXCEPT ![r] = "answered"]}
    BY DEF Begin, Goto, Return, networkVars
  <2> QED
    BY <2>1 DEF AskInv, Asked
<1>2. CASE \E r \in Requests :
             \/ GetAccount(r) \/ Simulate(r) \/ SendTransaction(r)
             \/ GetTransaction(r) \/ Throw(r)
  <2> PICK r \in Requests :
        \/ GetAccount(r) \/ Simulate(r) \/ SendTransaction(r)
        \/ GetTransaction(r) \/ Throw(r)
    BY <1>2
  <2>1. /\ ask' = ask /\ pc[r] # "idle"
        /\ \E to \in {"simulate", "send", "poll", "answered"} :
             pc' = [pc EXCEPT ![r] = to]
        /\ mempool' \subseteq mempool \cup {r}
    BY DEF GetAccount, Simulate, SendTransaction, GetTransaction, Throw,
           MaybeForwarded, Goto, Return, networkVars
  <2> QED
    BY <2>1 DEF AskInv, Asked
<1>3. CASE \/ \E r \in Requests : Include(r) \/ Drop(r)
           \/ \E a \in Auths : \E actual \in -1..(a.max + 1) :
                SettleElsewhere(a, actual)
           \/ CloseLedger \/ UNCHANGED schemeVars
  <2>1. UNCHANGED requestVars /\ mempool' \subseteq mempool
    BY <1>3 DEF Include, Drop, SettleElsewhere, CloseLedger, schemeVars,
                networkVars
  <2> QED
    BY <2>1 DEF AskInv, Asked, requestVars
<1> QED
  BY <1>1, <1>2, <1>3 DEF SchemeNext, Run

\* The facilitator's settles, concurrent, retried and polled for, are calls of
\* the contract.
THEOREM SchemeImplementsContract == SchemeSpec => Spec
<1>1. SchemeInit => Init /\ AskInv
  BY DEF SchemeInit, AskInv
<1> QED
  BY <1>1, SchemeStep, AskKept, PTL DEF SchemeSpec, Spec

\* Whatever the facilitator retries and whoever else settles, an authorization
\* is charged at most once.
THEOREM SchemeChargesOnce == SchemeSpec => []ChargedOnce
BY SchemeImplementsContract, ContractSafe, PTL DEF UptoInv

\* No charge exceeds its ceiling or comes after its expiry.
THEOREM SchemeWithinTerms == SchemeSpec => []ChargesWithinTerms
BY SchemeImplementsContract, ContractSafe, PTL DEF UptoInv

\* The storage entry of a nonce is there for as long as its authorization can
\* be charged: no buffer is needed (OQ-1).
THEOREM SchemeNonceOutlives == SchemeSpec => []NonceOutlivesAuth
BY SchemeImplementsContract, ContractSafe, PTL DEF UptoInv

\* The two together implement CeilingPayments.
THEOREM SchemeImplementsPromise == SchemeSpec => ImplementsPromise
BY SchemeImplementsContract, ContractImplementsPromise, PTL

-----------------------------------------------------------------------------
(* What settle() answers. The network decides a transaction once, and only *)
(* one that waits in the mempool; a transaction gets there from the send   *)
(* alone, and a request that answered "failed" is past it or never sends.  *)

\* A request that has not answered has no answer, and one that has not polled
\* has nothing on the network; a decided transaction no longer waits.
ProgressInv ==
  /\ answer \in [Requests -> Answers \cup {None}]
  /\ result \in [Requests -> Results \cup {None}]
  /\ \A r \in Requests :
       /\ pc[r] # "answered" => answer[r] = None
       /\ pc[r] \notin {"poll", "answered"} => r \notin mempool /\ result[r] = None
       /\ r \in mempool => result[r] = None /\ answer[r] # "failed"
       /\ answer[r] = "success" => result[r] = "SUCCESS"
       /\ answer[r] = "failed" => result[r] # "SUCCESS"

\* A charge of what a request asked for.
ChargedFor(cs, asked) ==
  \E c \in cs : c.auth = asked.auth /\ c.amount = asked.actual

\* Behind a transaction that succeeded is a charge of what it asked for, and
\* no two of them charged the same authorization.
ChargeInv ==
  \A r \in Requests : result[r] = "SUCCESS" =>
    /\ ChargedFor(charges, ask[r])
    /\ \A q \in Requests \ {r} :
         result[q] = "SUCCESS" => ask[q].auth # ask[r].auth

SchemeInv == UptoInv /\ AskInv /\ ProgressInv /\ ChargeInv

\* A step of the facilitator's changes no charge and decides nothing.
LEMMA ChargesStand ==
  ASSUME SchemeInv, charges \subseteq charges', UNCHANGED result,
         \A r \in Requests : pc[r] # "idle" => ask'[r] = ask[r]
  PROVE  ChargeInv'
<1>1. \A r \in Requests : result[r] = "SUCCESS" => ask'[r] = ask[r]
  <2>1. "SUCCESS" # None
    BY SettlementAssumption DEF Results
  <2> QED BY <2>1 DEF SchemeInv, ProgressInv
<1> QED BY <1>1 DEF SchemeInv, ChargeInv, ChargedFor

\* A ledger takes the transaction of request r.
LEMMA IncludeKeeps ==
  ASSUME SchemeInv, NEW r \in Requests, Include(r)
  PROVE  ProgressInv' /\ ChargeInv'
<1> USE SettlementAssumption DEF Answers, Results
<1>1. /\ r \in mempool /\ mempool' = mempool \ {r}
      /\ result[r] = None /\ answer[r] # "failed" /\ answer[r] # "success"
      /\ pc[r] \in {"poll", "answered"}
      /\ UNCHANGED <<ledger, pc, ask, answer>>
  BY DEF SchemeInv, ProgressInv, Include, requestVars
<1>2. /\ result \in [Requests -> Results \cup {None}]
      /\ result' \in [Requests -> Results \cup {None}]
      /\ result'[r] # None
      /\ \A q \in Requests \ {r} : result'[q] = result[q]
  BY DEF SchemeInv, ProgressInv, Include
<1>3. ProgressInv'
  BY <1>1, <1>2 DEF SchemeInv, ProgressInv
<1>4. CASE Accepts(ask[r].auth, ask[r].actual)
  <2> DEFINE a == ask[r].auth
             c == [auth |-> a, amount |-> ask[r].actual, at |-> ledger]
  <2>1. charges' = charges \cup {c} /\ c.auth = a /\ c.amount = ask[r].actual
    BY <1>4 DEF Include, SettleEffect
  <2>2. \A d \in charges : d.auth # a
    <3>1. a \in Auths /\ ask[r].actual \in Int
      BY <1>1 DEF SchemeInv, AskInv, Asked
    <3> QED BY <1>4, <3>1, AcceptedIsFresh DEF SchemeInv
  <2>3. \A q \in Requests \ {r} : result'[q] = "SUCCESS" => ask[q].auth # a
    BY <1>2, <2>2 DEF SchemeInv, ChargeInv, ChargedFor
  <2> HIDE DEF a, c
  <2>4. ASSUME NEW q \in Requests, result'[q] = "SUCCESS"
        PROVE  /\ ChargedFor(charges', ask[q])
               /\ \A p \in Requests \ {q} :
                    result'[p] = "SUCCESS" => ask[p].auth # ask[q].auth
    <3>1. CASE q = r
      BY <2>1, <2>3, <3>1 DEF a, ChargedFor
    <3>2. CASE q # r
      <4>1. result[q] = "SUCCESS" /\ ask[q].auth # a
        BY <1>2, <2>3, <2>4, <3>2
      <4> QED BY <1>2, <2>1, <4>1 DEF SchemeInv, ChargeInv, ChargedFor, a
    <3> QED BY <3>1, <3>2
  <2>5. ask' = ask
    BY <1>1
  <2> QED BY <1>3, <2>4, <2>5 DEF ChargeInv
<1>5. CASE ~Accepts(ask[r].auth, ask[r].actual)
  <2>1. charges' = charges /\ result'[r] # "SUCCESS"
    BY <1>5 DEF Include, contractVars, SchemeInv, ProgressInv
  <2>2. ask' = ask /\ \A q \in Requests : result'[q] = "SUCCESS" => result[q] = "SUCCESS"
    BY <1>1, <1>2, <2>1
  <2> QED BY <1>3, <2>1, <2>2 DEF SchemeInv, ChargeInv
<1> QED BY <1>4, <1>5

\* A step of request r in settle() moves it on, with an answer or without.
LEMMA RequestKeeps ==
  ASSUME SchemeInv, NEW r \in Requests,
         \/ \E a \in Auths : \E actual \in -1..(a.max + 1) : Begin(r, a, actual)
         \/ GetAccount(r) \/ Simulate(r) \/ SendTransaction(r)
         \/ GetTransaction(r) \/ Throw(r)
  PROVE  ProgressInv' /\ ChargeInv'
<1> USE SettlementAssumption DEF Answers, Results
<1> DEFINE Was(from) == pc[r] = from
           Now(to) == pc' = [pc EXCEPT ![r] = to]
           Says(what) == answer' = [answer EXCEPT ![r] = what]
<1>1. UNCHANGED <<charges, result>>
  BY DEF Begin, GetAccount, Simulate, SendTransaction, GetTransaction, Throw,
         contractVars, networkVars
<1>2. \A q \in Requests : pc[q] # "idle" => ask'[q] = ask[q]
  BY DEF Begin, GetAccount, Simulate, SendTransaction, GetTransaction, Throw,
         Goto, Return, SchemeInv, AskInv
<1>3. /\ pc[r] # "answered" /\ answer[r] = None
      /\ \A q \in Requests \ {r} : pc'[q] = pc[q] /\ answer'[q] = answer[q]
      /\ mempool \subseteq mempool' /\ mempool' \subseteq mempool \cup {r}
  <2>1. /\ pc[r] # "answered"
        /\ \E to : Now(to)
        /\ answer' = answer \/ \E what : Says(what)
        /\ mempool \subseteq mempool' /\ mempool' \subseteq mempool \cup {r}
    BY DEF Begin, GetAccount, Simulate, SendTransaction, GetTransaction, Throw,
           Goto, Return, MaybeForwarded, networkVars
  <2> QED BY <2>1 DEF SchemeInv, ProgressInv, AskInv
<1>4. /\ answer'[r] \in Answers \cup {None}
      /\ answer' = [q \in Requests |-> answer'[q]]
      /\ pc'[r] # "answered" => answer'[r] = None
      /\ pc'[r] \notin {"poll", "answered"} => r \notin mempool'
      /\ r \in mempool' => result[r] = None /\ answer'[r] # "failed"
      /\ answer'[r] = "success" => result[r] = "SUCCESS"
      /\ answer'[r] = "failed" => result[r] # "SUCCESS"
      /\ pc'[r] \notin {"poll", "answered"} => result[r] = None
  BY DEF Begin, GetAccount, Simulate, SendTransaction, GetTransaction, Throw,
         Goto, Return, MaybeForwarded, networkVars, SchemeInv, ProgressInv, AskInv
<1> HIDE DEF Was, Now, Says
<1>5. ProgressInv'
  <2>1. answer' \in [Requests -> Answers \cup {None}]
    BY <1>3, <1>4 DEF SchemeInv, ProgressInv
  <2> QED BY <1>1, <1>3, <1>4, <2>1 DEF SchemeInv, ProgressInv
<1>6. ChargeInv'
  BY <1>1, <1>2, ChargesStand
<1> QED BY <1>5, <1>6

LEMMA SchemeInvStep == SchemeInv /\ [SchemeNext]_schemeVars => SchemeInv'
<1> SUFFICES ASSUME SchemeInv, [SchemeNext]_schemeVars PROVE SchemeInv'
  OBVIOUS
<1>1. AskInv'
  BY AskKept DEF SchemeInv
<1>2. UptoInv'
  BY SchemeStep, ContractStep DEF SchemeInv
<1>3. ASSUME NEW r \in Requests, Run(r) PROVE ProgressInv' /\ ChargeInv'
  <2>1. CASE Include(r)
    BY <2>1, IncludeKeeps
  <2>2. CASE Drop(r)
    <3>1. /\ UNCHANGED <<charges, pc, ask, answer, result>>
          /\ mempool' \subseteq mempool
      BY <2>2 DEF Drop, contractVars, requestVars
    <3> QED BY <3>1, ChargesStand DEF SchemeInv, ProgressInv
  <2> QED BY <1>3, <2>1, <2>2, RequestKeeps DEF Run
<1>4. ASSUME \/ \E a \in Auths : \E actual \in -1..(a.max + 1) :
                  SettleElsewhere(a, actual)
             \/ CloseLedger \/ UNCHANGED schemeVars
      PROVE  ProgressInv' /\ ChargeInv'
  <2>1. UNCHANGED <<pc, ask, answer, result, mempool>> /\ charges \subseteq charges'
    BY <1>4 DEF SettleElsewhere, Settle, SettleEffect, CloseLedger, LedgerCloses,
                schemeVars, contractVars, requestVars, networkVars
  <2> QED BY <2>1, ChargesStand DEF SchemeInv, ProgressInv
<1> QED
  BY <1>1, <1>2, <1>3, <1>4 DEF SchemeNext, SchemeInv

LEMMA SchemeInvariant == SchemeSpec => []SchemeInv
<1>1. SchemeInit => SchemeInv
  BY InitInv, SettlementAssumption
  DEF SchemeInit, SchemeInv, AskInv, ProgressInv, ChargeInv, Answers, Results
<1> QED BY <1>1, SchemeInvStep, PTL DEF SchemeSpec

\* What settle() answers is what happened: behind a success is a charge of the
\* metered amount that no other request claims, behind a failure none, now or
\* later. A timeout, an error, TRY_AGAIN_LATER and DUPLICATE promise nothing.
THEOREM AnswersAreTrue == SchemeSpec => []AnswerTellsOutcome
<1>1. SchemeInv => AnswerTellsOutcome
  BY SettlementAssumption
  DEF SchemeInv, ProgressInv, ChargeInv, ChargedFor, AnswerTellsOutcome, Answers, Results
<1> QED BY <1>1, SchemeInvariant, PTL
=============================================================================
