----------------------------- MODULE UptoSettlement -----------------------------
(***************************************************************************)
(* The facilitator's side of the upto scheme, UptoStellarScheme.settle of  *)
(* src/upto.ts, over the contract of module UptoContract: the transaction  *)
(* is rebuilt with the metered amount, simulated, signed with the          *)
(* sponsor's next sequence number, sent, and polled for.  Settles run at   *)
(* one time and share the sponsor's sequence; a buyer's authorization may  *)
(* be settled again, here or by anybody else.                              *)
(***************************************************************************)
EXTENDS UptoContract, FiniteSets

CONSTANTS
  Requests,    \* runs of settle()
  None,
  MaxLedger    \* bound on the ledgers closed

\* What settle() returns, and what the network says of a transaction.
Answers == {"success", "failed", "tryAgain", "timeout", "thrown"}
Results == {"SUCCESS", "FAILED"}

ASSUME SettlementAssumption ==
  None \notin Requests \cup Answers \cup Results /\ MaxLedger \in Nat

VARIABLES
  pc,          \* per request: the await it stands at, or "answered"
  ask,         \* per request: [auth, actual], what its payload asks for
  seq,         \* per request: the sequence number of its transaction
  answer,      \* per request: what settle() returned
  sponsorSeq,  \* sequence number of the sponsor's account on the ledger
  mempool,     \* requests whose transaction waits for a ledger
  result       \* per request: what the ledger made of its transaction

requestVars == <<pc, ask, seq, answer>>
networkVars == <<sponsorSeq, mempool, result>>
schemeVars == <<ledger, contractVars, requestVars, networkVars>>

SchemeInit ==
  /\ Init
  /\ pc = [r \in Requests |-> "idle"]
  /\ ask = [r \in Requests |-> None]
  /\ seq = [r \in Requests |-> 0]
  /\ answer = [r \in Requests |-> None]
  /\ sponsorSeq = 0 /\ mempool = {}
  /\ result = [r \in Requests |-> None]

Goto(r, from, to) ==
  /\ pc[r] = from
  /\ pc' = [pc EXCEPT ![r] = to]

Return(r, from, what) ==
  /\ Goto(r, from, "answered")
  /\ answer' = [answer EXCEPT ![r] = what]

\* parseAndValidate and actualFor: the amount metered, within the ceiling.
Begin(r, a, actual) ==
  /\ ask' = [ask EXCEPT ![r] = [auth |-> a, actual |-> actual]]
  /\ IF InCeiling(a, actual)
     THEN Goto(r, "idle", "getAccount") /\ UNCHANGED answer
     ELSE Return(r, "idle", "failed")
  /\ UNCHANGED <<ledger, contractVars, seq, networkVars>>

GetAccount(r) ==
  /\ Goto(r, "getAccount", "simulate")
  /\ seq' = [seq EXCEPT ![r] = sponsorSeq + 1]
  /\ UNCHANGED <<ledger, contractVars, ask, answer, networkVars>>

\* A simulation error, or a fee above the maximum.
Simulate(r) ==
  /\ \/ /\ Goto(r, "simulate", "send")
        /\ Accepts(ask[r].auth, ask[r].actual)
        /\ UNCHANGED answer
     \/ Return(r, "simulate", "failed")
  /\ UNCHANGED <<ledger, contractVars, ask, seq, networkVars>>

MaybeForwarded(r) == \E sent \in SUBSET {r} : mempool' = mempool \cup sent

\* Any status but PENDING is a failure without a transaction, whether or not one is
\* on its way: "tryAgain" is TRY_AGAIN_LATER, which does not tell, and DUPLICATE, which
\* a retry of the same bytes gets after the first try was forwarded.
SendTransaction(r) ==
  /\ \/ /\ seq[r] > sponsorSeq
        /\ Goto(r, "send", "poll")
        /\ mempool' = mempool \cup {r}
        /\ UNCHANGED answer
     \/ Return(r, "send", "failed") /\ UNCHANGED mempool
     \/ Return(r, "send", "tryAgain") /\ MaybeForwarded(r)
  /\ UNCHANGED <<ledger, contractVars, ask, seq, sponsorSeq, result>>

\* Mutant of GetTransaction: whatever is not FAILED counts as a success.
GetTransactionHopeful(r) ==
  /\ IF result[r] = "FAILED" THEN Return(r, "poll", "failed")
     ELSE Return(r, "poll", "success")
  /\ UNCHANGED <<ledger, contractVars, ask, seq, networkVars>>

\* Twenty polls: SUCCESS, FAILED, or a timeout while the ledger has no answer.
GetTransaction(r) ==
  /\ \/ result[r] = "SUCCESS" /\ Return(r, "poll", "success")
     \/ result[r] = "FAILED" /\ Return(r, "poll", "failed")
     \/ Return(r, "poll", "timeout")
  /\ UNCHANGED <<ledger, contractVars, ask, seq, networkVars>>

\* A call that rejects ends settle(): sendTransaction may have been forwarded.
Throw(r) ==
  /\ \/ \E from \in {"getAccount", "simulate", "poll"} :
          Return(r, from, "thrown") /\ UNCHANGED mempool
     \/ Return(r, "send", "thrown") /\ MaybeForwarded(r)
  /\ UNCHANGED <<ledger, contractVars, ask, seq, sponsorSeq, result>>

-----------------------------------------------------------------------------
(* The network.                                                            *)

\* A ledger takes the transaction: it uses up its sequence number either way.
Include(r) ==
  /\ r \in mempool /\ seq[r] = sponsorSeq + 1
  /\ sponsorSeq' = seq[r]
  /\ mempool' = mempool \ {r}
  /\ IF Accepts(ask[r].auth, ask[r].actual)
     THEN /\ SettleEffect(ask[r].auth, ask[r].actual)
          /\ result' = [result EXCEPT ![r] = "SUCCESS"]
     ELSE /\ UNCHANGED contractVars
          /\ result' = [result EXCEPT ![r] = "FAILED"]
  /\ UNCHANGED <<ledger, requestVars>>

\* Its sequence number is gone or its time is over.
Drop(r) ==
  /\ r \in mempool
  /\ mempool' = mempool \ {r}
  /\ UNCHANGED <<ledger, contractVars, requestVars, sponsorSeq, result>>

\* Somebody else settles the authorization.
SettleElsewhere(a, actual) ==
  /\ Settle(a, actual)
  /\ UNCHANGED <<requestVars, networkVars>>

CloseLedger ==
  /\ ledger < MaxLedger
  /\ LedgerCloses
  /\ UNCHANGED <<requestVars, networkVars>>

Run(r) ==
  \/ \E a \in Auths : \E actual \in -1..(a.max + 1) : Begin(r, a, actual)
  \/ GetAccount(r) \/ Simulate(r) \/ SendTransaction(r) \/ GetTransaction(r)
  \/ Throw(r) \/ Include(r) \/ Drop(r)

SchemeNext ==
  \/ \E r \in Requests : Run(r)
  \/ \E a \in Auths : \E actual \in -1..(a.max + 1) : SettleElsewhere(a, actual)
  \/ CloseLedger

SchemeSpec == SchemeInit /\ [][SchemeNext]_schemeVars

-----------------------------------------------------------------------------
(* Properties.                                                             *)

\* The types of the facilitator's state, and of the contract's.
SchemeTypeOK ==
  /\ UptoTypeOK
  /\ pc \in [Requests -> {"idle", "getAccount", "simulate", "send", "poll",
                          "answered"}]
  /\ ask \in [Requests -> [auth : Auths, actual : Int] \cup {None}]
  /\ seq \in [Requests -> 0..(Cardinality(Requests) + 1)]
  /\ answer \in [Requests -> Answers \cup {None}]
  /\ sponsorSeq \in 0..Cardinality(Requests)
  /\ mempool \subseteq Requests
  /\ result \in [Requests -> Results \cup {None}]

\* The answer tells what happened: a success is a charge of the amount metered,
\* claimed by one request only; behind a failure there is no charge, not even
\* later.  (A timeout, a thrown error, TRY_AGAIN_LATER and DUPLICATE promise nothing.)
AnswerTellsOutcome ==
  \A r \in Requests :
    /\ answer[r] = "success" =>
         /\ \E c \in charges : c.auth = ask[r].auth /\ c.amount = ask[r].actual
         /\ \A q \in Requests \ {r} :
              answer[q] = "success" => ask[q].auth # ask[r].auth
    /\ answer[r] = "failed" => result[r] # "SUCCESS" /\ r \notin mempool
=============================================================================
