-------------------------- MODULE BondEscrowProofs --------------------------
(***************************************************************************)
(* Theorems about BondEscrow, for every value of its constants.            *)
(***************************************************************************)
EXTENDS BondEscrow, FiniteSetTheorems, TLAPS

-----------------------------------------------------------------------------
(* Type correctness. A slash is at most the bond, so nothing goes negative.*)

LEMMA SlashBounds ==
  ASSUME NEW s \in SettlementRecord, NEW l \in Listing
  PROVE  /\ SlashAmount(s, l) \in Nat
         /\ SlashAmount(s, l) <= l.bond_amount
         /\ SlashAmount(s, l) <= s.amount
BY DEF SlashAmount, SettlementRecord, Listing

LEMMA ClosedType ==
  ASSUME NEW l \in Listing
  PROVE  /\ DisputeClosed(l) \in Listing
         /\ DisputeClosed(l).bond_amount = l.bond_amount
         /\ DisputeClosed(l).token = l.token
         /\ DisputeClosed(l).last_claim_window_end = l.last_claim_window_end
         /\ l.open_dispute_count > 0 =>
              DisputeClosed(l).open_dispute_count = l.open_dispute_count - 1
BY DEF DisputeClosed, Listing

LEMMA RefreshedType ==
  ASSUME NEW l \in Listing \cup {None}, now \in Nat
  PROVE  IF l = None THEN RefreshedWindow(l) = None
         ELSE /\ RefreshedWindow(l) \in Listing
              /\ RefreshedWindow(l) # None
              /\ RefreshedWindow(l).open_dispute_count = l.open_dispute_count
              /\ RefreshedWindow(l).bond_amount = l.bond_amount
              /\ RefreshedWindow(l).token = l.token
              /\ RefreshedWindow(l).last_claim_window_end = now + DisputeWindow
<1> USE ConstantsAssumption, NoneAssumption
<1>1. CASE l = None
  BY <1>1 DEF RefreshedWindow
<1>2. CASE l # None
  <2> DEFINE r == [l EXCEPT !.last_claim_window_end = now + DisputeWindow]
  <2>1. r \in Listing
    BY <1>2 DEF Listing
  <2>2. r # None
    BY <2>1
  <2> QED BY <1>2, <2>1, <2>2 DEF RefreshedWindow, Listing
<1> QED BY <1>1, <1>2

LEMMA TransferType ==
  ASSUME balance \in [Tokens -> [Accounts \cup {Escrow} -> Nat]],
         NEW token \in Tokens,
         NEW from \in Accounts \cup {Escrow}, NEW to \in Accounts \cup {Escrow},
         NEW amount \in Nat, from # to,
         Transfer(token, from, to, amount)
  PROVE  /\ balance' \in [Tokens -> [Accounts \cup {Escrow} -> Nat]]
         /\ balance'[token][from] = balance[token][from] - amount
         /\ balance'[token][to] = balance[token][to] + amount
         /\ \A t \in Tokens, a \in Accounts \cup {Escrow} :
              t # token \/ a \notin {from, to} => balance'[t][a] = balance[t][a]
<1> DEFINE b == Moved(balance[token], from, to, amount)
<1>1. balance[token] \in [Accounts \cup {Escrow} -> Nat]
  OBVIOUS
<1>2. balance[token][from] >= amount /\ balance' = [balance EXCEPT ![token] = b]
  BY DEF Transfer
<1>3. /\ b \in [Accounts \cup {Escrow} -> Nat]
      /\ b[from] = balance[token][from] - amount
      /\ b[to] = balance[token][to] + amount
      /\ \A a \in Accounts \cup {Escrow} :
           a \notin {from, to} => b[a] = balance[token][a]
  <2> DEFINE A == Accounts \cup {Escrow}
             f == balance[token]
  <2> HIDE DEF A
  <2>1. f \in [A -> Nat] /\ from \in A /\ to \in A
    BY DEF A
  <2>2. f[from] - amount \in Nat /\ f[to] + amount \in Nat
    BY <2>1, <1>2
  <2>3. b = [f EXCEPT ![from] = f[from] - amount, ![to] = f[to] + amount]
    BY <2>1 DEF Moved
  <2> HIDE DEF f, b
  <2>4. /\ b \in [A -> Nat]
        /\ b[from] = f[from] - amount
        /\ b[to] = f[to] + amount
        /\ \A a \in A : a \notin {from, to} => b[a] = f[a]
    BY <2>1, <2>2, <2>3
  <2> QED BY <2>4 DEF f, A
<1> HIDE DEF b
<1> QED BY <1>2, <1>3

LEMMA RecordedLogType ==
  ASSUME NEW log \in SUBSET LogEntry, IsFiniteSet(log), now \in Nat
  PROVE  /\ RecordedLog(log) \in SUBSET LogEntry
         /\ IsFiniteSet(RecordedLog(log))
<1> DEFINE today == {e \in log : e.at = now}
<1>1. IsFiniteSet(today) /\ IsFiniteSet(Unexpired(log))
  BY FS_Subset DEF Unexpired
<1>2. Cardinality(today) \in Nat
  BY <1>1, FS_CardinalityType
<1>3. [at |-> now, nth |-> Cardinality(today)] \in LogEntry
  BY <1>2 DEF LogEntry
<1>4. IsFiniteSet(RecordedLog(log))
  BY <1>1, FS_AddElement DEF RecordedLog
<1> QED BY <1>3, <1>4 DEF RecordedLog, Unexpired

\* Init establishes the types of the storage entries.
LEMMA InitTypeOK == Init => TypeOK
BY ConstantsAssumption, FS_EmptySet DEF Init, TypeOK, Time, MaxTime

LEMMA NextTypeOK == TypeOK /\ [Next]_vars => TypeOK'
<1> SUFFICES ASSUME TypeOK, [Next]_vars PROVE TypeOK'
  OBVIOUS
<1> USE ConstantsAssumption, NoneAssumption
<1>1. ASSUME NEW a \in Admins, Initialize(a) PROVE TypeOK'
  BY <1>1 DEF TypeOK, Initialize, Time, MaxTime
<1>2. ASSUME NEW p \in Payments, NEW payer \in Payers, NEW k \in ResourceKeys,
             NEW amount \in Amounts, RegisterSettlement(p, payer, k, amount)
      PROVE TypeOK'
  <2>1. settlements' \in [Payments -> SettlementRecord \cup {None}]
    BY <1>2 DEF TypeOK, RegisterSettlement, Time, MaxTime, SettlementRecord
  <2>2. RefreshedWindow(listings[k]) \in Listing \cup {None}
    BY DEF TypeOK, RefreshedWindow, Listing, Time, MaxTime
  <2> QED BY <1>2, <2>1, <2>2 DEF TypeOK, RegisterSettlement
<1>3. ASSUME NEW seller \in Sellers, NEW k \in ResourceKeys,
             NEW token \in Tokens, NEW amount \in Amounts,
             Deposit(seller, k, token, amount)
      PROVE TypeOK'
  <2> DEFINE l == IF listings[k] = None
                  THEN FreshListing(seller, token) ELSE listings[k]
  <2>1. [l EXCEPT !.bond_amount = @ + amount] \in Listing
    BY DEF TypeOK, FreshListing, Listing
  <2>2. listings' \in [ResourceKeys -> Listing \cup {None}]
    BY <1>3, <2>1 DEF TypeOK, Deposit
  <2>3. balance' \in [Tokens -> [Accounts \cup {Escrow} -> Nat]]
    BY <1>3, TransferType DEF TypeOK, Deposit, Accounts
  <2> QED BY <1>3, <2>2, <2>3 DEF TypeOK, Deposit
<1>4. ASSUME NEW k \in ResourceKeys, Withdraw(k) PROVE TypeOK'
  <2>1. listings[k] \in Listing
    BY <1>4 DEF TypeOK, Withdraw
  <2>2. listings' \in [ResourceKeys -> Listing \cup {None}]
    BY <1>4, <2>1 DEF TypeOK, Withdraw, Listing
  <2>3. balance' \in [Tokens -> [Accounts \cup {Escrow} -> Nat]]
    BY <1>4, <2>1, TransferType DEF TypeOK, Withdraw, Accounts, Listing
  <2> QED BY <1>4, <2>2, <2>3 DEF TypeOK, Withdraw
<1>5. ASSUME NEW p \in Payments, FileDispute(p) PROVE TypeOK'
  <2> DEFINE s == settlements[p]
             k == s.resource_key_hash
  <2>1. s \in SettlementRecord
    BY <1>5 DEF TypeOK, FileDispute
  <2>2. k \in ResourceKeys /\ listings[k] \in Listing
    BY <1>5, <2>1 DEF TypeOK, FileDispute, SettlementRecord
  <2>3. [listings[k] EXCEPT !.open_dispute_count = @ + 1] \in Listing
    BY <2>2 DEF Listing
  <2>4. listings' \in [ResourceKeys -> Listing \cup {None}]
    BY <1>5, <2>2, <2>3 DEF TypeOK, FileDispute
  <2>5. disputes' \in [Payments -> Dispute \cup {None}]
    BY <1>5, <2>1 DEF TypeOK, FileDispute, SettlementRecord, Dispute, Time, MaxTime
  <2>6. /\ disputeLog' \in [Payers -> SUBSET LogEntry]
        /\ \A a \in Payers : IsFiniteSet(disputeLog'[a])
    <3>1. s.payer \in Payers /\ now \in Nat
      BY <2>1 DEF TypeOK, SettlementRecord, Time, MaxTime
    <3>2. /\ RecordedLog(disputeLog[s.payer]) \in SUBSET LogEntry
          /\ IsFiniteSet(RecordedLog(disputeLog[s.payer]))
      BY <3>1, RecordedLogType DEF TypeOK
    <3>3. disputeLog' = [disputeLog EXCEPT ![s.payer] =
                           RecordedLog(disputeLog[s.payer])]
      BY <1>5 DEF FileDispute
    <3> QED BY <3>1, <3>2, <3>3 DEF TypeOK
  <2> QED BY <1>5, <2>4, <2>5, <2>6 DEF TypeOK, FileDispute
<1>6. ASSUME NEW k \in ResourceKeys, NEW key \in DeliveryKeys,
             SetDeliveryKey(k, key) PROVE TypeOK'
  BY <1>6 DEF TypeOK, SetDeliveryKey, Time, MaxTime, Listing
<1>7. ASSUME NEW p \in Payments, NEW r \in Receipt, PostReceipt(p, r)
      PROVE TypeOK'
  <2> DEFINE k == disputes[p].resource_key_hash
  <2>1. k \in ResourceKeys /\ listings[k] \in Listing
    BY <1>7 DEF TypeOK, PostReceipt, Dispute
  <2>2. DisputeClosed(listings[k]) \in Listing
    BY <2>1, ClosedType
  <2> QED BY <1>7, <2>1, <2>2 DEF TypeOK, PostReceipt
<1>8. ASSUME NEW p \in Payments, Finalize(p) PROVE TypeOK'
  <2> DEFINE k == disputes[p].resource_key_hash
             s == settlements[p]
             slash == SlashAmount(s, listings[k])
  <2>1. s \in SettlementRecord
    BY <1>8 DEF TypeOK, Finalize
  <2>2. k \in ResourceKeys /\ listings[k] \in Listing
    BY <1>8 DEF TypeOK, Finalize, Dispute
  <2>3. slash \in Nat /\ slash <= listings[k].bond_amount
    BY <2>1, <2>2, SlashBounds
  <2>4. BondSlashed(listings[k], slash) \in Listing
    <3>1. DisputeClosed(listings[k]) \in Listing
      BY <2>2, ClosedType
    <3>2. DisputeClosed(listings[k]).bond_amount = listings[k].bond_amount
      BY <2>2, ClosedType
    <3> HIDE DEF slash
    <3> QED BY <2>3, <3>1, <3>2 DEF Listing, BondSlashed
  <2>5. listings' \in [ResourceKeys -> Listing \cup {None}]
    BY <1>8, <2>2, <2>4 DEF TypeOK, Finalize
  <2>6. balance' \in [Tokens -> [Accounts \cup {Escrow} -> Nat]]
    <3>1. Transfer(listings[k].token, Escrow, s.payer, slash)
      BY <1>8 DEF Finalize
    <3>2. listings[k].token \in Tokens /\ s.payer \in Accounts
      BY <2>1, <2>2 DEF Listing, SettlementRecord, Accounts
    <3> QED BY <3>1, <3>2, <2>3, TransferType DEF TypeOK
  <2>7. slashed' \in [Payments -> Nat]
    BY <1>8, <2>3 DEF TypeOK, Finalize
  <2> QED BY <1>8, <2>5, <2>6, <2>7 DEF TypeOK, Finalize
<1>9. ASSUME Tick PROVE TypeOK'
  <2>1. now' \in Time
    BY <1>9 DEF TypeOK, Tick, Time, MaxTime
  <2> QED BY <1>9, <2>1 DEF TypeOK, Tick
<1>10. ASSUME UNCHANGED vars PROVE TypeOK'
  BY <1>10 DEF TypeOK, vars
<1> QED
  BY <1>1, <1>2, <1>3, <1>4, <1>5, <1>6, <1>7, <1>8, <1>9, <1>10 DEF Next
\* Every storage entry and balance keeps its Rust type, for any number of
\* payments, listings, tokens and accounts: bonds and counters never underflow.
THEOREM TypeCorrect == Spec => []TypeOK
BY InitTypeOK, NextTypeOK, PTL DEF Spec

-----------------------------------------------------------------------------
(* Open disputes: each keeps its settlement and its listing, and each      *)
(* listing's counter is their number. Filing adds one payment to a set it  *)
(* is not in, and each of the two resolutions removes one that is in it.   *)

LEMMA OpenDisputesFinite ==
  ASSUME NEW k
  PROVE  /\ IsFiniteSet(OpenDisputes(k))
         /\ Cardinality(OpenDisputes(k)) \in Nat
<1>1. OpenDisputes(k) \in SUBSET Payments
  BY DEF OpenDisputes
<1>2. IsFiniteSet(OpenDisputes(k))
  BY <1>1, ConstantsAssumption, FS_Subset
<1> QED BY <1>2, FS_CardinalityType

DisputeInv == TypeOK /\ DisputesBacked /\ DisputeCountAgrees

\* A step that leaves the disputes alone and, of the listings, changes neither
\* which exist nor their counters.
LEMMA DisputesUntouched ==
  ASSUME DisputeInv, TypeOK',
         UNCHANGED disputes,
         \A p \in Payments : settlements[p] # None =>
                              settlements'[p] = settlements[p],
         \A k \in ResourceKeys :
           IF listings[k] = None
           THEN listings'[k] = None \/ listings'[k].open_dispute_count = 0
           ELSE /\ listings'[k] # None
                /\ listings'[k].open_dispute_count
                     = listings[k].open_dispute_count
  PROVE  DisputeInv'
<1>1. DisputesBacked'
  BY DEF DisputeInv, DisputesBacked, TypeOK, Dispute
<1>2. \A k \in ResourceKeys : OpenDisputes(k)' = OpenDisputes(k)
  BY DEF OpenDisputes
<1>3. DisputeCountAgrees'
  BY <1>2 DEF DisputeInv, DisputeCountAgrees
<1> QED BY <1>1, <1>3 DEF DisputeInv

\* A step that closes the dispute of payment p, as post_receipt and finalize do.
LEMMA DisputeCloses ==
  ASSUME DisputeInv, TypeOK',
         NEW p \in Payments, disputes[p] # None,
         NEW l \in Listing,
         l.open_dispute_count =
           DisputeClosed(listings[disputes[p].resource_key_hash]).open_dispute_count,
         disputes' = [disputes EXCEPT ![p] = None],
         listings' = [listings EXCEPT ![disputes[p].resource_key_hash] = l],
         UNCHANGED settlements
  PROVE  DisputeInv'
<1> USE NoneAssumption
<1>0. disputes[p].resource_key_hash \in ResourceKeys
  BY DEF DisputeInv, TypeOK, Dispute
<1> PICK k \in ResourceKeys : k = disputes[p].resource_key_hash
  BY <1>0
<1>1. k \in ResourceKeys /\ listings[k] \in Listing
  BY DEF DisputeInv, DisputesBacked, TypeOK
<1>2. DisputesBacked'
  BY <1>1 DEF DisputeInv, DisputesBacked, TypeOK, Dispute
<1>3. p \in OpenDisputes(k) /\ OpenDisputes(k)' = OpenDisputes(k) \ {p}
  <2>1. disputes'[p] = None
        /\ \A q \in Payments : q # p => disputes'[q] = disputes[q]
    BY DEF DisputeInv, TypeOK
  <2> QED BY <2>1 DEF OpenDisputes
<1>4. \A k2 \in ResourceKeys : k2 # k => OpenDisputes(k2)' = OpenDisputes(k2)
  BY DEF OpenDisputes, DisputeInv, TypeOK
<1>5. Cardinality(OpenDisputes(k)') = Cardinality(OpenDisputes(k)) - 1
  BY <1>3, OpenDisputesFinite, FS_RemoveElement
<1>6. listings[k].open_dispute_count = Cardinality(OpenDisputes(k))
  BY <1>1 DEF DisputeInv, DisputeCountAgrees
<1>7. Cardinality(OpenDisputes(k)) > 0
  BY <1>3, OpenDisputesFinite, FS_EmptySet
<1>8. l.open_dispute_count = listings[k].open_dispute_count - 1
  BY <1>1, <1>6, <1>7, ClosedType
<1>9. DisputeCountAgrees'
  <2> SUFFICES ASSUME NEW k2 \in ResourceKeys
               PROVE  Cardinality(OpenDisputes(k2)') =
                        IF listings'[k2] = None THEN 0
                        ELSE listings'[k2].open_dispute_count
    BY DEF DisputeCountAgrees
  <2>1. CASE k2 = k
    <3>1. listings'[k] = l /\ l # None
      BY <1>1 DEF DisputeInv, TypeOK
    <3> QED BY <2>1, <3>1, <1>5, <1>6, <1>8
  <2>2. CASE k2 # k
    BY <2>2, <1>1, <1>4 DEF DisputeInv, DisputeCountAgrees, TypeOK
  <2> QED BY <2>1, <2>2
<1> QED BY <1>2, <1>9 DEF DisputeInv

LEMMA FilingKeepsDisputeInv ==
  ASSUME DisputeInv, TypeOK', NEW p \in Payments, FileDispute(p)
  PROVE  DisputeInv'
<1> DEFINE s == settlements[p]
<1>0. s.resource_key_hash \in ResourceKeys
  BY DEF DisputeInv, TypeOK, FileDispute, SettlementRecord
<1> PICK k \in ResourceKeys : k = s.resource_key_hash
  BY <1>0
<1> DEFINE d == [filed_by |-> s.payer, filed_at |-> now, resource_key_hash |-> k]
<1> USE NoneAssumption
<1>1. /\ s \in SettlementRecord /\ s # None /\ k \in ResourceKeys
      /\ listings[k] \in Listing /\ d \in Dispute /\ d # None
      /\ now <= s.claim_deadline
  BY ConstantsAssumption DEF DisputeInv, TypeOK, FileDispute, ClaimWindowOpen, SettlementRecord,
     Dispute, Time, MaxTime
<1>2. /\ disputes[p] = None
      /\ disputes' = [disputes EXCEPT ![p] = d]
      /\ listings' = [listings EXCEPT ![k].open_dispute_count = @ + 1]
      /\ UNCHANGED settlements
  BY DEF FileDispute
<1>3. /\ disputes'[p] = d
      /\ \A q \in Payments : q # p => disputes'[q] = disputes[q]
  BY <1>2 DEF DisputeInv, TypeOK
<1>4. /\ listings'[k] # None
      /\ listings'[k].open_dispute_count = listings[k].open_dispute_count + 1
      /\ \A k2 \in ResourceKeys : k2 # k => listings'[k2] = listings[k2]
  <2>1. [listings[k] EXCEPT !.open_dispute_count = @ + 1] \in Listing
    BY <1>1 DEF Listing
  <2> QED BY <1>1, <1>2, <2>1 DEF DisputeInv, TypeOK, Listing
<1> HIDE DEF d, s
<1>5. d.resource_key_hash = k /\ d.filed_by = s.payer /\ d.filed_at = now
  BY DEF d
<1>6. DisputesBacked'
  <2> SUFFICES ASSUME NEW q \in Payments, disputes'[q] # None
               PROVE  /\ settlements[q] # None
                      /\ disputes'[q].filed_by = settlements[q].payer
                      /\ disputes'[q].resource_key_hash
                           = settlements[q].resource_key_hash
                      /\ disputes'[q].filed_at <= settlements[q].claim_deadline
                      /\ listings'[disputes'[q].resource_key_hash] # None
    BY <1>2 DEF DisputesBacked
  <2>1. CASE q = p
    BY <2>1, <1>1, <1>3, <1>4, <1>5 DEF s
  <2>2. CASE q # p
    <3>1. disputes[q] # None /\ disputes'[q] = disputes[q]
      BY <2>2, <1>3
    <3>2. disputes[q].resource_key_hash \in ResourceKeys
      BY <3>1 DEF DisputeInv, TypeOK, Dispute
    <3> QED BY <3>1, <3>2, <1>4 DEF DisputeInv, DisputesBacked
  <2> QED BY <2>1, <2>2
<1>7. p \notin OpenDisputes(k) /\ OpenDisputes(k)' = OpenDisputes(k) \cup {p}
  BY <1>1, <1>2, <1>3, <1>5 DEF OpenDisputes
<1>8. \A k2 \in ResourceKeys : k2 # k => OpenDisputes(k2)' = OpenDisputes(k2)
  BY <1>2, <1>3, <1>5 DEF OpenDisputes
<1>9. Cardinality(OpenDisputes(k)') = Cardinality(OpenDisputes(k)) + 1
  BY <1>7, OpenDisputesFinite, FS_AddElement
<1>10. DisputeCountAgrees'
  <2> SUFFICES ASSUME NEW k2 \in ResourceKeys
               PROVE  Cardinality(OpenDisputes(k2)') =
                        IF listings'[k2] = None THEN 0
                        ELSE listings'[k2].open_dispute_count
    BY DEF DisputeCountAgrees
  <2>1. CASE k2 = k
    <3>1. Cardinality(OpenDisputes(k)) = listings[k].open_dispute_count
      BY <1>1 DEF DisputeInv, DisputeCountAgrees
    <3> QED BY <2>1, <3>1, <1>4, <1>9
  <2>2. CASE k2 # k
    BY <2>2, <1>4, <1>8 DEF DisputeInv, DisputeCountAgrees
  <2> QED BY <2>1, <2>2
<1> QED BY <1>6, <1>10 DEF DisputeInv

LEMMA DisputeInvStep == DisputeInv /\ [Next]_vars => DisputeInv'
<1> SUFFICES ASSUME DisputeInv, [Next]_vars PROVE DisputeInv'
  OBVIOUS
<1> USE NoneAssumption
<1>0. TypeOK /\ TypeOK'
  BY NextTypeOK DEF DisputeInv
<1>1. ASSUME NEW a \in Admins, Initialize(a) PROVE DisputeInv'
  BY <1>0, <1>1, DisputesUntouched DEF Initialize
<1>2. ASSUME NEW p \in Payments, NEW payer \in Payers, NEW k \in ResourceKeys,
             NEW amount \in Amounts, RegisterSettlement(p, payer, k, amount)
      PROVE DisputeInv'
  <2>1. listings' = [listings EXCEPT ![k] = RefreshedWindow(listings[k])]
    BY <1>2 DEF RegisterSettlement
  <2>2. \A k2 \in ResourceKeys :
          IF listings[k2] = None THEN listings'[k2] = None
          ELSE /\ listings'[k2] # None
               /\ listings'[k2].open_dispute_count
                    = listings[k2].open_dispute_count
    <3>1. IF listings[k] = None THEN RefreshedWindow(listings[k]) = None
          ELSE /\ RefreshedWindow(listings[k]) # None
               /\ RefreshedWindow(listings[k]).open_dispute_count
                    = listings[k].open_dispute_count
      BY <1>0, RefreshedType, ConstantsAssumption DEF TypeOK, Time, MaxTime
    <3> QED BY <1>0, <2>1, <3>1 DEF TypeOK
  <2>3. \A q \in Payments : settlements[q] # None =>
                             settlements'[q] = settlements[q]
    BY <1>0, <1>2 DEF RegisterSettlement, TypeOK
  <2>4. UNCHANGED disputes
    BY <1>2 DEF RegisterSettlement
  <2> QED BY <1>0, <2>2, <2>3, <2>4, DisputesUntouched
<1>3. ASSUME NEW seller \in Sellers, NEW k \in ResourceKeys,
             NEW token \in Tokens, NEW amount \in Amounts,
             Deposit(seller, k, token, amount)
      PROVE DisputeInv'
  <2> DEFINE l == IF listings[k] = None
                  THEN FreshListing(seller, token) ELSE listings[k]
             l2 == [l EXCEPT !.bond_amount = @ + amount]
  <2>1. listings' = [listings EXCEPT ![k] = l2]
    BY <1>3 DEF Deposit
  <2>2. l2 \in Listing /\ l2.open_dispute_count = l.open_dispute_count
    <3>1. l \in Listing
      BY <1>0 DEF TypeOK, Listing, FreshListing
    <3> HIDE DEF l
    <3> QED BY <3>1, ConstantsAssumption DEF Listing
  <2>3. listings'[k] = l2 /\ \A k2 \in ResourceKeys : k2 # k => listings'[k2] = listings[k2]
    BY <1>0, <2>1 DEF TypeOK
  <2>4. IF listings[k] = None THEN l.open_dispute_count = 0 ELSE l = listings[k]
    BY DEF FreshListing
  <2>5. UNCHANGED <<disputes, settlements>>
    BY <1>3 DEF Deposit
  <2> HIDE DEF l2, l
  <2>6. l2 # None
    BY <2>2
  <2> QED BY <1>0, <2>2, <2>3, <2>4, <2>5, <2>6, DisputesUntouched
<1>4. ASSUME NEW k \in ResourceKeys, Withdraw(k) PROVE DisputeInv'
  <2>1. listings[k] \in Listing
        /\ listings' = [listings EXCEPT ![k] = [listings[k] EXCEPT !.bond_amount = 0]]
    BY <1>0, <1>4 DEF Withdraw, TypeOK
  <2>2. \A k2 \in ResourceKeys :
          IF listings[k2] = None THEN listings'[k2] = None
          ELSE /\ listings'[k2] # None
               /\ listings'[k2].open_dispute_count
                    = listings[k2].open_dispute_count
    BY <1>0, <2>1 DEF TypeOK, Listing
  <2>3. UNCHANGED <<disputes, settlements>>
    BY <1>4 DEF Withdraw
  <2> QED BY <1>0, <2>2, <2>3, DisputesUntouched
<1>5. ASSUME NEW p \in Payments, FileDispute(p) PROVE DisputeInv'
  BY <1>0, <1>5, FilingKeepsDisputeInv
<1>6. ASSUME NEW k \in ResourceKeys, NEW key \in DeliveryKeys,
             SetDeliveryKey(k, key) PROVE DisputeInv'
  <2>1. listings[k] \in Listing
        /\ listings' = [listings EXCEPT ![k] = [listings[k] EXCEPT !.delivery_pubkey = key]]
    BY <1>0, <1>6 DEF SetDeliveryKey, TypeOK
  <2>2. \A k2 \in ResourceKeys :
          IF listings[k2] = None THEN listings'[k2] = None
          ELSE /\ listings'[k2] # None
               /\ listings'[k2].open_dispute_count
                    = listings[k2].open_dispute_count
    BY <1>0, <2>1 DEF TypeOK, Listing
  <2>3. UNCHANGED <<disputes, settlements>>
    BY <1>6 DEF SetDeliveryKey
  <2> QED BY <1>0, <2>2, <2>3, DisputesUntouched
<1>7. ASSUME NEW p \in Payments, NEW r \in Receipt, PostReceipt(p, r)
      PROVE DisputeInv'
  <2> DEFINE k == disputes[p].resource_key_hash
  <2>1. /\ disputes[p] # None
        /\ listings[k] # None
        /\ disputes' = [disputes EXCEPT ![p] = None]
        /\ listings' = [listings EXCEPT ![k] = DisputeClosed(listings[k])]
        /\ UNCHANGED settlements
    BY <1>7 DEF PostReceipt
  <2>2. DisputeClosed(listings[k]) \in Listing
    BY <1>0, <2>1, ClosedType DEF TypeOK, Dispute
  <2> QED BY <1>0, <2>1, <2>2, DisputeCloses
<1>8. ASSUME NEW p \in Payments, Finalize(p) PROVE DisputeInv'
  <2> DEFINE k == disputes[p].resource_key_hash
             slash == SlashAmount(settlements[p], listings[k])
             l == BondSlashed(listings[k], slash)
  <2>1. /\ disputes[p] # None
        /\ listings[k] # None
        /\ disputes' = [disputes EXCEPT ![p] = None]
        /\ listings' = [listings EXCEPT ![k] = l]
        /\ UNCHANGED settlements
    BY <1>8 DEF Finalize
  <2>2. k \in ResourceKeys /\ listings[k] \in Listing
    BY <1>0, <2>1 DEF TypeOK, Dispute
  <2>3. l = listings'[k]
    BY <1>0, <2>1, <2>2 DEF TypeOK
  <2>4. l.open_dispute_count = DisputeClosed(listings[k]).open_dispute_count /\ l # None
    <3>1. DisputeClosed(listings[k]) \in Listing
      BY <2>2, ClosedType
    <3> HIDE DEF slash
    <3>2. l.open_dispute_count = DisputeClosed(listings[k]).open_dispute_count
      BY <3>1 DEF BondSlashed, Listing
    <3>3. l # None
      <4>1. SlashAmount(settlements[p], listings[k]) <= listings[k].bond_amount
            /\ SlashAmount(settlements[p], listings[k]) \in Nat
        BY <1>0, <1>8, <2>2, SlashBounds DEF Finalize, TypeOK
      <4> QED BY <4>1, <2>2, <3>1, ClosedType DEF BondSlashed, Listing, slash
    <3> QED BY <3>2, <3>3
  <2>5. l \in Listing
    BY <1>0, <2>2, <2>3, <2>4 DEF TypeOK
  <2> HIDE DEF l
  <2> QED BY <1>0, <2>1, <2>4, <2>5, DisputeCloses
<1>9. ASSUME Tick PROVE DisputeInv'
  BY <1>0, <1>9, DisputesUntouched DEF Tick
<1>10. ASSUME UNCHANGED vars PROVE DisputeInv'
  BY <1>0, <1>10, DisputesUntouched DEF vars
<1> QED
  BY <1>1, <1>2, <1>3, <1>4, <1>5, <1>6, <1>7, <1>8, <1>9, <1>10 DEF Next

LEMMA DisputeInvInit == Init => DisputeInv
<1> SUFFICES ASSUME Init PROVE DisputeInv
  OBVIOUS
<1>1. \A k \in ResourceKeys : OpenDisputes(k) = {}
  BY DEF Init, OpenDisputes
<1> QED
  BY <1>1, InitTypeOK, FS_EmptySet
  DEF DisputeInv, DisputesBacked, DisputeCountAgrees, Init

LEMMA DisputeInvariant == Spec => []DisputeInv
BY DisputeInvInit, DisputeInvStep, PTL DEF Spec

\* open_dispute_count, which alone gates withdraw, is always the number of
\* Dispute records open against the listing: no increment or decrement of
\* file_dispute, post_receipt or finalize is ever lost or doubled.
THEOREM CountersAgree == Spec => []DisputeCountAgrees
BY DisputeInvariant, PTL DEF DisputeInv

\* The SettlementNotFound and ListingNotFound branches of post_receipt and
\* finalize are unreachable, for any number of payments and listings.
THEOREM DisputesAlwaysBacked == Spec => []DisputesBacked
BY DisputeInvariant, PTL DEF DisputeInv

-----------------------------------------------------------------------------
(* The bond of a listing under dispute.                                    *)

\* Only withdraw and finalize take from a bond. Withdraw finds the counter at
\* zero, so no dispute is open; finalize closes the dispute it slashes for.
LEMMA BondHeldStep ==
  ASSUME DisputeInv, [Next]_vars, NEW p \in Payments,
         disputes[p] # None, disputes'[p] # None,
         LET k == disputes[p].resource_key_hash
         IN  listings'[k].bond_amount < listings[k].bond_amount
  PROVE  OpenDisputes(disputes[p].resource_key_hash)'
           # OpenDisputes(disputes[p].resource_key_hash)
<1> USE NoneAssumption, ConstantsAssumption
<1>0. PICK k \in ResourceKeys :
        /\ k = disputes[p].resource_key_hash
        /\ listings[k] \in Listing
  BY DEF DisputeInv, DisputesBacked, TypeOK, Dispute
<1>1. p \in OpenDisputes(k) /\ listings'[k].bond_amount < listings[k].bond_amount
  BY <1>0 DEF OpenDisputes
<1>2. listings[k].bond_amount \in Nat /\ listings \in [ResourceKeys -> Listing \cup {None}]
  BY <1>0 DEF Listing, DisputeInv, TypeOK
<1>3. listings'[k] # listings[k]
  BY <1>1, <1>2
<1>4. ASSUME NEW l, listings'[k] = l, l.bond_amount >= listings[k].bond_amount,
             l.bond_amount \in Nat
      PROVE  FALSE
  BY <1>1, <1>2, <1>4
<1>5. ASSUME NEW q \in Payments, NEW payer \in Payers, NEW k2 \in ResourceKeys,
             NEW amount \in Amounts, RegisterSettlement(q, payer, k2, amount)
      PROVE  FALSE
  <2>1. RefreshedWindow(listings[k]).bond_amount = listings[k].bond_amount
    BY <1>0, RefreshedType DEF DisputeInv, TypeOK, Time, MaxTime
  <2>2. listings'[k] = RefreshedWindow(listings[k])
    BY <1>2, <1>3, <1>5 DEF RegisterSettlement
  <2> QED BY <1>2, <1>4, <2>1, <2>2
<1>6. ASSUME NEW seller \in Sellers, NEW k2 \in ResourceKeys,
             NEW token \in Tokens, NEW amount \in Amounts,
             Deposit(seller, k2, token, amount)
      PROVE  FALSE
  <2>1. listings'[k] = [listings[k] EXCEPT !.bond_amount = @ + amount]
    BY <1>0, <1>2, <1>3, <1>6 DEF Deposit
  <2>2. listings'[k].bond_amount = listings[k].bond_amount + amount /\ amount \in Nat
    BY <1>0, <2>1 DEF Listing
  <2> QED BY <1>2, <1>4, <2>2
<1>7. ASSUME NEW k2 \in ResourceKeys, Withdraw(k2) PROVE FALSE
  <2>1. k2 = k
    BY <1>2, <1>3, <1>7 DEF Withdraw
  <2>2. Cardinality(OpenDisputes(k)) = 0
    BY <1>0, <1>7, <2>1 DEF Withdraw, Withdrawable, DisputeInv, DisputeCountAgrees
  <2> QED BY <1>1, <2>2, OpenDisputesFinite, FS_EmptySet
<1>8. ASSUME NEW q \in Payments, FileDispute(q) PROVE FALSE
  <2>1. listings'[k] = [listings[k] EXCEPT !.open_dispute_count = @ + 1]
    BY <1>2, <1>3, <1>8 DEF FileDispute
  <2> QED BY <1>0, <1>2, <1>4, <2>1 DEF Listing
<1>9. ASSUME NEW k2 \in ResourceKeys, NEW key \in DeliveryKeys,
             SetDeliveryKey(k2, key) PROVE FALSE
  <2>1. listings'[k] = [listings[k] EXCEPT !.delivery_pubkey = key]
    BY <1>2, <1>3, <1>9 DEF SetDeliveryKey
  <2> QED BY <1>0, <1>2, <1>4, <2>1 DEF Listing
<1>10. ASSUME NEW q \in Payments, NEW r \in Receipt, PostReceipt(q, r)
       PROVE  FALSE
  <2>1. listings'[k] = DisputeClosed(listings[k])
    BY <1>2, <1>3, <1>10 DEF PostReceipt
  <2> QED BY <1>0, <1>2, <1>4, <2>1, ClosedType
<1>11. ASSUME NEW q \in Payments, Finalize(q)
       PROVE  OpenDisputes(disputes[p].resource_key_hash)'
                # OpenDisputes(disputes[p].resource_key_hash)
  <2>1. disputes[q].resource_key_hash = k /\ disputes[q] # None
    BY <1>2, <1>3, <1>11 DEF Finalize
  <2>2. disputes'[q] = None
    BY <1>11 DEF Finalize, DisputeInv, TypeOK
  <2>3. q \in OpenDisputes(disputes[p].resource_key_hash)
    BY <1>0, <2>1 DEF OpenDisputes
  <2>4. q \notin OpenDisputes(disputes[p].resource_key_hash)'
    BY <2>2 DEF OpenDisputes
  <2> QED BY <2>3, <2>4
<1>12. ASSUME NEW a \in Admins, Initialize(a) PROVE FALSE
  BY <1>3, <1>12 DEF Initialize
<1>13. CASE Tick \/ UNCHANGED vars
  BY <1>3, <1>13 DEF Tick, vars
<1> QED
  BY <1>0, <1>5, <1>6, <1>7, <1>8, <1>9, <1>10, <1>11, <1>12, <1>13 DEF Next

\* While its dispute is open a bond shrinks only for another dispute of the
\* same listing: withdraw never empties it, in any order of calls.
THEOREM BondHeld == Spec => BondHeldWhileDisputed
<1>1. DisputeInv /\ [Next]_vars =>
        [\A p \in Payments :
           LET k == disputes[p].resource_key_hash
           IN  /\ disputes[p] # None
               /\ disputes'[p] # None
               /\ listings'[k].bond_amount < listings[k].bond_amount
               => OpenDisputes(k)' # OpenDisputes(k)]_vars
  BY BondHeldStep
<1> QED BY <1>1, DisputeInvariant, PTL DEF Spec, BondHeldWhileDisputed

-----------------------------------------------------------------------------
(* Solvency. A step changes the promise of one listing by what it moves    *)
(* into or out of the pooled balance of that listing's token.              *)

\* What a listing promises in a token.
Promise(l, token) == IF l # None /\ l.token = token THEN l.bond_amount ELSE 0

\* The units of one listing's promise; BondUnits is their union.
Units(l, k, token) == {k} \X (1 .. Promise(l, token))

LEMMA UnitsFinite ==
  ASSUME NEW l \in Listing \cup {None}, NEW k, NEW token
  PROVE  /\ Promise(l, token) \in Nat
         /\ IsFiniteSet(Units(l, k, token))
         /\ Cardinality(Units(l, k, token)) = Promise(l, token)
<1>1. Promise(l, token) \in Nat
  BY DEF Promise, Listing
<1>2. /\ IsFiniteSet(1 .. Promise(l, token))
      /\ Cardinality(1 .. Promise(l, token)) = Promise(l, token)
  BY <1>1, FS_Interval
<1>3. IsFiniteSet({k}) /\ Cardinality({k}) = 1
  BY FS_Singleton
<1> QED BY <1>1, <1>2, <1>3, FS_Product DEF Units

\* The units of the listings other than k.
Rest(ls, k, token) == UNION {Units(ls[k2], k2, token) : k2 \in ResourceKeys \ {k}}

LEMMA UnitsSplit ==
  ASSUME NEW ls \in [ResourceKeys -> Listing \cup {None}], NEW k \in ResourceKeys,
         NEW token
  PROVE  LET all == UNION {Units(ls[k2], k2, token) : k2 \in ResourceKeys}
         IN  /\ IsFiniteSet(Rest(ls, k, token))
             /\ Cardinality(Rest(ls, k, token)) \in Nat
             /\ Cardinality(all) =
                  Cardinality(Rest(ls, k, token)) + Promise(ls[k], token)
<1> DEFINE K == ResourceKeys \ {k}
           F == [k2 \in K |-> Units(ls[k2], k2, token)]
           T == {Units(ls[k2], k2, token) : k2 \in K}
           all == UNION {Units(ls[k2], k2, token) : k2 \in ResourceKeys}
<1>1. IsFiniteSet(T)
  <2>1. IsFiniteSet(K)
    BY ConstantsAssumption, FS_RemoveElement
  <2>2. F \in Surjection(K, T)
    BY DEF Surjection
  <2> QED BY <2>1, <2>2, FS_Surjection
<1>2. IsFiniteSet(Rest(ls, k, token))
  <2>1. \A t \in T : IsFiniteSet(t)
    BY UnitsFinite
  <2>2. Rest(ls, k, token) = UNION T
    BY DEF Rest
  <2> HIDE DEF T
  <2> QED BY <1>1, <2>1, <2>2, FS_UNION
<1>3. all = Rest(ls, k, token) \cup Units(ls[k], k, token)
  BY DEF Rest
<1>4. Rest(ls, k, token) \cap Units(ls[k], k, token) = {}
  BY DEF Rest, Units
<1>5. /\ IsFiniteSet(Units(ls[k], k, token))
      /\ Cardinality(Units(ls[k], k, token)) = Promise(ls[k], token)
      /\ Promise(ls[k], token) \in Nat
  BY UnitsFinite
<1>6. Cardinality(Rest(ls, k, token)) \in Nat
  BY <1>2, FS_CardinalityType
<1>7. Cardinality(all) = Cardinality(Rest(ls, k, token)) + Promise(ls[k], token)
  <2> HIDE DEF all
  <2>1. Cardinality(all) =
          Cardinality(Rest(ls, k, token)) + Cardinality(Units(ls[k], k, token))
            - Cardinality({})
    BY <1>2, <1>3, <1>4, <1>5, FS_Union
  <2> QED BY <1>5, <1>6, <2>1, FS_EmptySet
<1> QED
  BY <1>2, <1>6, <1>7

LEMMA UnitsAreBondUnits ==
  ASSUME NEW token
  PROVE  BondUnits(token) = UNION {Units(listings[k], k, token) : k \in ResourceKeys}
<1>1. ASSUME NEW k \in ResourceKeys
      PROVE  Units(listings[k], k, token) =
               IF listings[k] # None /\ listings[k].token = token
               THEN {k} \X (1 .. listings[k].bond_amount) ELSE {}
  BY DEF Units, Promise
<1> QED BY <1>1 DEF BondUnits

\* One listing changes: the units change by the change of its promise.
LEMMA UnitsChange ==
  ASSUME TypeOK, TypeOK', NEW k \in ResourceKeys, NEW token,
         \A k2 \in ResourceKeys \ {k} : listings'[k2] = listings[k2]
  PROVE  Cardinality(BondUnits(token)') =
           Cardinality(BondUnits(token)) - Promise(listings[k], token)
             + Promise(listings'[k], token)
<1>1. Rest(listings', k, token) = Rest(listings, k, token)
  BY DEF Rest
<1>2. /\ listings \in [ResourceKeys -> Listing \cup {None}]
      /\ listings' \in [ResourceKeys -> Listing \cup {None}]
  BY DEF TypeOK
<1>3. BondUnits(token)' = UNION {Units(listings'[k2], k2, token) : k2 \in ResourceKeys}
  <2>1. ASSUME NEW k2 \in ResourceKeys
        PROVE  Units(listings'[k2], k2, token) =
                 IF listings'[k2] # None /\ listings'[k2].token = token
                 THEN {k2} \X (1 .. listings'[k2].bond_amount) ELSE {}
    BY DEF Units, Promise
  <2> QED BY <2>1 DEF BondUnits
<1>4. /\ Promise(listings[k], token) \in Nat /\ Promise(listings'[k], token) \in Nat
  BY <1>2, UnitsFinite
<1> QED BY <1>1, <1>2, <1>3, <1>4, UnitsAreBondUnits, UnitsSplit

\* One listing changes, and the pooled balances by the change of its promise.
LEMMA SolvencyCarried ==
  ASSUME TypeOK, TypeOK', Solvent, NEW k \in ResourceKeys,
         \A k2 \in ResourceKeys \ {k} : listings'[k2] = listings[k2],
         \A token \in Tokens :
           balance'[token][Escrow] = balance[token][Escrow]
             - Promise(listings[k], token) + Promise(listings'[k], token)
  PROVE  Solvent'
<1> SUFFICES ASSUME NEW token \in Tokens
             PROVE  balance'[token][Escrow] = Cardinality(BondUnits(token)')
  BY DEF Solvent
<1>1. Cardinality(BondUnits(token)') =
        Cardinality(BondUnits(token)) - Promise(listings[k], token)
          + Promise(listings'[k], token)
  BY UnitsChange
<1> QED BY <1>1 DEF Solvent

\* The listing keeps its token and its bond, and no balance moves.
LEMMA SolvencyUntouched ==
  ASSUME TypeOK, TypeOK', Solvent, NEW k \in ResourceKeys,
         \A k2 \in ResourceKeys \ {k} : listings'[k2] = listings[k2],
         listings[k] = None => listings'[k] = None,
         listings[k] # None => /\ listings'[k] # None
                               /\ listings'[k].token = listings[k].token
                               /\ listings'[k].bond_amount = listings[k].bond_amount,
         UNCHANGED balance
  PROVE  Solvent'
<1>1. \A token \in Tokens : /\ Promise(listings'[k], token) = Promise(listings[k], token)
                            /\ Promise(listings[k], token) \in Nat
                            /\ balance[token][Escrow] \in Nat
  BY UnitsFinite DEF Promise, TypeOK
<1> QED BY <1>1, SolvencyCarried

\* The listing keeps its token, and one transfer out of the contract takes
\* what its bond loses.
LEMMA SolvencyPaid ==
  ASSUME TypeOK, TypeOK', Solvent, NEW k \in ResourceKeys,
         \A k2 \in ResourceKeys \ {k} : listings'[k2] = listings[k2],
         listings[k] # None, listings'[k] # None,
         listings'[k].token = listings[k].token,
         NEW amount \in Nat, NEW to \in Accounts,
         listings'[k].bond_amount = listings[k].bond_amount - amount,
         Transfer(listings[k].token, Escrow, to, amount)
  PROVE  Solvent'
<1>1. /\ listings[k] \in Listing /\ listings[k].token \in Tokens
      /\ listings[k].bond_amount \in Nat
  BY DEF TypeOK, Listing
<1>2. \A token \in Tokens :
        balance'[token][Escrow] =
          IF token = listings[k].token THEN balance[token][Escrow] - amount
          ELSE balance[token][Escrow]
  <2>1. balance \in [Tokens -> [Accounts \cup {Escrow} -> Nat]] /\ to # Escrow
    BY ConstantsAssumption DEF TypeOK
  <2>2. /\ balance'[listings[k].token][Escrow] =
             balance[listings[k].token][Escrow] - amount
        /\ \A t \in Tokens, a \in Accounts \cup {Escrow} :
             t # listings[k].token => balance'[t][a] = balance[t][a]
    BY <1>1, <2>1, TransferType
  <2> QED BY <2>2
<1>3. \A token \in Tokens : balance[token][Escrow] \in Nat
  BY DEF TypeOK
<1>4. ASSUME NEW token \in Tokens
      PROVE  balance'[token][Escrow] = balance[token][Escrow]
               - Promise(listings[k], token) + Promise(listings'[k], token)
  <2>1. CASE token = listings[k].token
    <3>1. /\ Promise(listings[k], token) = listings[k].bond_amount
          /\ Promise(listings'[k], token) = listings[k].bond_amount - amount
      BY <2>1 DEF Promise
    <3> QED BY <1>1, <1>2, <1>3, <2>1, <3>1
  <2>2. CASE token # listings[k].token
    <3>1. Promise(listings[k], token) = 0 /\ Promise(listings'[k], token) = 0
      BY <2>2 DEF Promise
    <3> QED BY <1>2, <1>3, <2>2, <3>1
  <2> QED BY <2>1, <2>2
<1> QED BY <1>4, SolvencyCarried

LEMMA DepositSolvent ==
  ASSUME TypeOK, TypeOK', Solvent,
         NEW seller \in Sellers, NEW k \in ResourceKeys,
         NEW token \in Tokens, NEW amount \in Amounts,
         Deposit(seller, k, token, amount)
  PROVE  Solvent'
<1> USE NoneAssumption, ConstantsAssumption
<1> DEFINE l == IF listings[k] = None
                THEN FreshListing(seller, token) ELSE listings[k]
<1>1. /\ l.token = token /\ l.bond_amount \in Nat /\ amount \in Nat
      /\ Promise(listings[k], token) = l.bond_amount
      /\ \A t \in Tokens \ {token} : Promise(listings[k], t) = 0
  BY DEF TypeOK, Listing, Deposit, FreshListing, Promise
<1>2. l \in Listing
  BY DEF TypeOK, Listing, FreshListing
<1>3. /\ listings' = [listings EXCEPT ![k] = [l EXCEPT !.bond_amount = @ + amount]]
      /\ Transfer(token, seller, Escrow, amount)
  BY DEF Deposit
<1> HIDE DEF l
<1>4. /\ listings'[k] \in Listing /\ listings'[k] # None
      /\ listings'[k].token = token
      /\ listings'[k].bond_amount = l.bond_amount + amount
      /\ \A k2 \in ResourceKeys \ {k} : listings'[k2] = listings[k2]
  <2> DEFINE m == [l EXCEPT !.bond_amount = @ + amount]
  <2>1. m \in Listing /\ m.token = token /\ m.bond_amount = l.bond_amount + amount
    BY <1>1, <1>2 DEF Listing
  <2>2. listings' = [listings EXCEPT ![k] = m]
    BY <1>3
  <2> HIDE DEF m
  <2>3. listings'[k] = m /\ \A k2 \in ResourceKeys \ {k} : listings'[k2] = listings[k2]
    BY <2>2 DEF TypeOK
  <2> QED BY <2>1, <2>3
<1>5. /\ balance'[token][Escrow] = balance[token][Escrow] + amount
      /\ \A t \in Tokens \ {token} : balance'[t][Escrow] = balance[t][Escrow]
  <2>1. /\ balance \in [Tokens -> [Accounts \cup {Escrow} -> Nat]]
        /\ seller \in Accounts \cup {Escrow} /\ Escrow \in Accounts \cup {Escrow}
        /\ seller # Escrow
        /\ amount \in Nat /\ Transfer(token, seller, Escrow, amount)
    BY <1>3 DEF TypeOK, Accounts
  <2> HIDE NoneAssumption, ConstantsAssumption
  <2>2. balance'[token][Escrow] = balance[token][Escrow] + amount
    BY <2>1, TransferType
  <2>3. ASSUME NEW t \in Tokens, t # token
        PROVE  balance'[t][Escrow] = balance[t][Escrow]
    BY <2>1, <2>3, TransferType
  <2> QED BY <2>2, <2>3
<1>6. \A t \in Tokens : balance[t][Escrow] \in Nat
  BY DEF TypeOK
<1>7. ASSUME NEW t \in Tokens
      PROVE  balance'[t][Escrow] = balance[t][Escrow]
               - Promise(listings[k], t) + Promise(listings'[k], t)
  <2>1. CASE t = token
    <3>1. Promise(listings'[k], t) = l.bond_amount + amount
      BY <1>4, <2>1 DEF Promise
    <3> QED BY <1>1, <1>5, <1>6, <2>1, <3>1
  <2>2. CASE t # token
    <3>1. Promise(listings'[k], t) = 0
      BY <1>4, <2>2 DEF Promise
    <3> QED BY <1>1, <1>5, <1>6, <2>2, <3>1
  <2> QED BY <2>1, <2>2
<1> QED BY <1>4, <1>7, SolvencyCarried

LEMMA SolventStep == DisputeInv /\ Solvent /\ [Next]_vars => Solvent'
<1> SUFFICES ASSUME DisputeInv, Solvent, [Next]_vars PROVE Solvent'
  OBVIOUS
<1> USE NoneAssumption, ConstantsAssumption
<1>0. /\ TypeOK /\ TypeOK' /\ now \in Nat
      /\ listings \in [ResourceKeys -> Listing \cup {None}]
  <2>1. TypeOK /\ TypeOK'
    BY NextTypeOK DEF DisputeInv
  <2>2. now \in Nat /\ listings \in [ResourceKeys -> Listing \cup {None}]
    <3>1. now \in Time /\ listings \in [ResourceKeys -> Listing \cup {None}]
      BY <2>1 DEF TypeOK
    <3> QED BY <3>1 DEF Time, MaxTime
  <2> QED BY <2>1, <2>2
<1>1. ASSUME UNCHANGED <<listings, balance>> PROVE Solvent'
  BY <1>1 DEF Solvent, BondUnits
<1>2. ASSUME NEW p \in Payments, NEW payer \in Payers, NEW k \in ResourceKeys,
             NEW amount \in Amounts, RegisterSettlement(p, payer, k, amount)
      PROVE  Solvent'
  <2>1. /\ UNCHANGED balance
        /\ listings'[k] = RefreshedWindow(listings[k])
        /\ \A k2 \in ResourceKeys \ {k} : listings'[k2] = listings[k2]
    BY <1>0, <1>2 DEF RegisterSettlement
  <2> QED BY <1>0, <2>1, RefreshedType, SolvencyUntouched
<1>3. ASSUME NEW k \in ResourceKeys, Withdraw(k) PROVE Solvent'
  <2>1. /\ listings[k] # None
        /\ listings' = [listings EXCEPT ![k] = [listings[k] EXCEPT !.bond_amount = 0]]
        /\ Transfer(listings[k].token, Escrow, listings[k].seller,
                    listings[k].bond_amount)
    BY <1>0, <1>3 DEF Withdraw
  <2>2. listings[k] \in Listing /\ [listings[k] EXCEPT !.bond_amount = 0] \in Listing
    BY <1>0, <2>1 DEF Listing
  <2>3. /\ listings[k].bond_amount \in Nat /\ listings[k].seller \in Accounts
        /\ listings'[k] # None
        /\ listings'[k].token = listings[k].token
        /\ listings'[k].bond_amount = listings[k].bond_amount - listings[k].bond_amount
    BY <1>0, <2>1, <2>2 DEF Listing, Accounts
  <2> QED BY <1>0, <2>1, <2>3, SolvencyPaid
<1>4. ASSUME NEW p \in Payments, FileDispute(p) PROVE Solvent'
  <2>1. PICK k \in ResourceKeys : k = settlements[p].resource_key_hash
    BY <1>0, <1>4 DEF FileDispute, TypeOK, SettlementRecord
  <2>2. /\ listings[k] # None
        /\ listings' = [listings EXCEPT ![k] =
                          [listings[k] EXCEPT !.open_dispute_count = @ + 1]]
        /\ UNCHANGED balance
    BY <1>0, <1>4, <2>1 DEF FileDispute
  <2>3. /\ listings[k] \in Listing
        /\ [listings[k] EXCEPT !.open_dispute_count = @ + 1] \in Listing
    BY <1>0, <2>2 DEF Listing
  <2>4. /\ listings'[k] # None /\ listings'[k].token = listings[k].token
        /\ listings'[k].bond_amount = listings[k].bond_amount
    BY <1>0, <2>2, <2>3 DEF Listing
  <2> QED BY <1>0, <2>2, <2>4, SolvencyUntouched
<1>5. ASSUME NEW k \in ResourceKeys, NEW key \in DeliveryKeys,
             SetDeliveryKey(k, key)
      PROVE  Solvent'
  <2>1. /\ listings[k] # None
        /\ listings' = [listings EXCEPT ![k] =
                          [listings[k] EXCEPT !.delivery_pubkey = key]]
        /\ UNCHANGED balance
    BY <1>0, <1>5 DEF SetDeliveryKey
  <2>2. /\ listings[k] \in Listing
        /\ [listings[k] EXCEPT !.delivery_pubkey = key] \in Listing
    BY <1>0, <2>1 DEF Listing
  <2>3. /\ listings'[k] # None /\ listings'[k].token = listings[k].token
        /\ listings'[k].bond_amount = listings[k].bond_amount
    BY <1>0, <2>1, <2>2 DEF Listing
  <2> QED BY <1>0, <2>1, <2>3, SolvencyUntouched
<1>6. ASSUME NEW p \in Payments, NEW r \in Receipt, PostReceipt(p, r)
      PROVE  Solvent'
  <2>1. PICK k \in ResourceKeys : k = disputes[p].resource_key_hash
    BY <1>0, <1>6 DEF PostReceipt, TypeOK, Dispute
  <2>2. /\ listings[k] # None /\ listings[k] \in Listing
        /\ listings' = [listings EXCEPT ![k] = DisputeClosed(listings[k])]
        /\ UNCHANGED balance
    BY <1>0, <1>6, <2>1 DEF PostReceipt
  <2>3. /\ listings'[k] # None /\ listings'[k].token = listings[k].token
        /\ listings'[k].bond_amount = listings[k].bond_amount
    BY <1>0, <2>2, ClosedType
  <2> QED BY <1>0, <2>2, <2>3, SolvencyUntouched
<1>7. ASSUME NEW p \in Payments, Finalize(p) PROVE Solvent'
  <2>1. PICK k \in ResourceKeys : k = disputes[p].resource_key_hash
    BY <1>0, <1>7 DEF Finalize, TypeOK, Dispute
  <2>2. PICK slash : slash = SlashAmount(settlements[p], listings[k])
    OBVIOUS
  <2>3. /\ listings[k] \in Listing /\ settlements[p] \in SettlementRecord
        /\ listings' = [listings EXCEPT ![k] = BondSlashed(listings[k], slash)]
        /\ Transfer(listings[k].token, Escrow, settlements[p].payer, slash)
    BY <1>0, <1>7, <2>1, <2>2 DEF Finalize, TypeOK
  <2>4. slash \in Nat /\ slash <= listings[k].bond_amount
    BY <2>2, <2>3, SlashBounds
  <2>5. /\ BondSlashed(listings[k], slash) \in Listing
        /\ BondSlashed(listings[k], slash).token = listings[k].token
        /\ BondSlashed(listings[k], slash).bond_amount = listings[k].bond_amount - slash
    <3>1. /\ DisputeClosed(listings[k]) \in Listing
          /\ DisputeClosed(listings[k]).token = listings[k].token
          /\ DisputeClosed(listings[k]).bond_amount = listings[k].bond_amount
      BY <2>3, ClosedType
    <3> QED BY <2>3, <2>4, <3>1 DEF BondSlashed, Listing
  <2>6. settlements[p].payer \in Accounts
    BY <2>3 DEF SettlementRecord, Accounts
  <2> QED BY <1>0, <2>3, <2>4, <2>5, <2>6, SolvencyPaid
<1>8. ASSUME NEW a \in Admins, Initialize(a) PROVE Solvent'
  BY <1>1, <1>8 DEF Initialize
<1>9. ASSUME Tick \/ UNCHANGED vars PROVE Solvent'
  BY <1>1, <1>9 DEF Tick, vars
<1> QED
  BY <1>0, <1>2, <1>3, <1>4, <1>5, <1>6, <1>7, <1>8, <1>9, DepositSolvent DEF Next

LEMMA SolventInit == Init => Solvent
<1> SUFFICES ASSUME Init, NEW token \in Tokens
             PROVE  balance[token][Escrow] = Cardinality(BondUnits(token))
  BY DEF Solvent
<1>1. BondUnits(token) = {}
  BY DEF Init, BondUnits
<1> QED BY <1>1, FS_EmptySet DEF Init

\* The contract's balance of each token is exactly the sum of the bonds its
\* listings promise in it: no withdrawal or slash is ever paid out of another
\* listing's bond, whatever the tokens, listings and amounts.
THEOREM AlwaysSolvent == Spec => []Solvent
BY SolventInit, SolventStep, DisputeInvariant, PTL DEF Spec

-----------------------------------------------------------------------------
(* The rate limit. The log outlives the disputes it records: within every  *)
(* window that ends now, a payer has at least as many log entries as open  *)
(* disputes, and the pruned log never exceeds the limit.                   *)

\* The disputes open now that payer a filed after time t.
Filed(a, t) ==
  {p \in Payments : /\ disputes[p] # None
                    /\ disputes[p].filed_by = a
                    /\ disputes[p].filed_at > t}

Logged(log, t) == {e \in log : e.at > t}

\* Entries with equal timestamps are numbered below their number.
LogNumbered(log) ==
  \A e \in log : e.at <= now /\ e.nth < Cardinality({f \in log : f.at = e.at})

RateInv ==
  \A a \in Payers :
    /\ LogNumbered(disputeLog[a])
    /\ \A t \in Int : t >= now - RateLimitWindow =>
         Cardinality(Filed(a, t)) <= Cardinality(Logged(disputeLog[a], t))
    /\ Cardinality(Unexpired(disputeLog[a])) <= RateLimitMax

LEMMA FiledFinite ==
  ASSUME NEW a, NEW t
  PROVE  IsFiniteSet(Filed(a, t)) /\ Cardinality(Filed(a, t)) \in Nat
<1>1. IsFiniteSet(Filed(a, t))
  BY ConstantsAssumption, FS_Subset DEF Filed
<1> QED BY <1>1, FS_CardinalityType

LEMMA LoggedFinite ==
  ASSUME NEW log, IsFiniteSet(log), NEW t
  PROVE  IsFiniteSet(Logged(log, t)) /\ Cardinality(Logged(log, t)) \in Nat
<1>1. IsFiniteSet(Logged(log, t))
  BY FS_Subset DEF Logged
<1> QED BY <1>1, FS_CardinalityType

\* The entry RecordedLog adds is a new one: the log grows by one.
LEMMA RecordedIsNew ==
  ASSUME NEW log \in SUBSET LogEntry, IsFiniteSet(log), now \in Nat,
         LogNumbered(log)
  PROVE  LET e == [at |-> now, nth |-> Cardinality({f \in log : f.at = now})]
         IN  e \notin log /\ RecordedLog(log) = Unexpired(log) \cup {e}
<1> DEFINE today == {f \in log : f.at = now}
           e == [at |-> now, nth |-> Cardinality(today)]
<1>1. IsFiniteSet(today) /\ Cardinality(today) \in Nat
  <2>1. IsFiniteSet(today)
    BY FS_Subset
  <2> QED BY <2>1, FS_CardinalityType
<1>2. ASSUME e \in log PROVE FALSE
  <2>1. e.at = now /\ e.nth = Cardinality(today)
    OBVIOUS
  <2>2. e.nth < Cardinality({f \in log : f.at = e.at})
    BY <1>2 DEF LogNumbered
  <2> QED BY <1>1, <2>1, <2>2
<1> QED BY <1>2 DEF RecordedLog

LEMMA RecordedNumbered ==
  ASSUME NEW log \in SUBSET LogEntry, IsFiniteSet(log), now \in Nat, now' = now,
         LogNumbered(log)
  PROVE  LogNumbered(RecordedLog(log))
<1> DEFINE today == {f \in log : f.at = now}
           e == [at |-> now, nth |-> Cardinality(today)]
           new == RecordedLog(log)
           At(s, t) == {f \in s : f.at = t}
<1>1. IsFiniteSet(today) /\ Cardinality(today) \in Nat
  <2>1. IsFiniteSet(today)
    BY FS_Subset
  <2> QED BY <2>1, FS_CardinalityType
<1>2. e \notin log /\ new = Unexpired(log) \cup {e} /\ e.at = now
      /\ e.nth = Cardinality(today)
  BY RecordedIsNew
<1>3. At(new, now) = today \cup {e}
  BY <1>2, ConstantsAssumption DEF Unexpired
<1>4. Cardinality(At(new, now)) = Cardinality(today) + 1
  BY <1>1, <1>2, <1>3, FS_AddElement
<1> HIDE DEF new, today, e
<1>5. ASSUME NEW f \in new
      PROVE  f.at <= now /\ f.nth < Cardinality(At(new, f.at))
  <2>1. CASE f = e
    <3>1. f.at = now /\ f.nth = Cardinality(today)
      BY <1>2, <2>1
    <3>2. At(new, f.at) = At(new, now)
      BY <3>1
    <3> HIDE DEF At
    <3> QED BY <1>1, <1>4, <3>1, <3>2
  <2>2. CASE f # e
    <3>1. f \in log /\ f.at > now - RateLimitWindow
      BY <1>2, <1>5, <2>2 DEF Unexpired
    <3>2. f.at \in Nat /\ f.nth \in Nat /\ f.at <= now
          /\ f.nth < Cardinality(At(log, f.at))
      BY <3>1 DEF LogNumbered, LogEntry
    <3>3. CASE f.at = now
      BY <1>1, <1>4, <3>2, <3>3 DEF today
    <3>4. CASE f.at # now
      <4>1. At(new, f.at) = At(log, f.at)
        BY <1>2, <3>1, <3>4 DEF Unexpired
      <4> QED BY <3>2, <4>1
    <3> QED BY <3>3, <3>4
  <2> QED BY <2>1, <2>2
<1> QED BY <1>5 DEF LogNumbered, new

LEMMA LaterWindow ==
  ASSUME NEW n \in Nat, NEW m \in Nat, m >= n,
         NEW t \in Int, t >= m - RateLimitWindow
  PROVE  t >= n - RateLimitWindow
BY ConstantsAssumption

LEMMA LaterThanWindow ==
  ASSUME NEW n \in Nat, NEW t \in Int, t >= n - RateLimitWindow,
         NEW at \in Nat, at > t
  PROVE  at > n - RateLimitWindow
BY ConstantsAssumption

\* A step that files nothing and leaves the logs alone: disputes only close,
\* and the clock does not go back.
LEMMA RateKept ==
  ASSUME TypeOK, TypeOK', RateInv, UNCHANGED disputeLog, now' >= now,
         \A p \in Payments : disputes'[p] # None => disputes'[p] = disputes[p]
  PROVE  RateInv'
<1> SUFFICES ASSUME NEW a \in Payers
             PROVE  /\ LogNumbered(disputeLog[a])'
                    /\ \A t \in Int : t >= now' - RateLimitWindow =>
                         Cardinality(Filed(a, t)') <= Cardinality(Logged(disputeLog[a], t))
                    /\ Cardinality(Unexpired(disputeLog[a])') <= RateLimitMax
  BY DEF RateInv, Logged
<1> USE ConstantsAssumption
<1>1. now \in Nat /\ now' \in Nat
  BY DEF TypeOK, Time, MaxTime
<1>2. IsFiniteSet(disputeLog[a]) /\ disputeLog[a] \in SUBSET LogEntry
  BY DEF TypeOK
<1>3. LogNumbered(disputeLog[a])'
  <2> SUFFICES ASSUME NEW e \in disputeLog[a]
               PROVE  e.at <= now' /\ e.nth < Cardinality({f \in disputeLog[a] : f.at = e.at})
    BY DEF LogNumbered
  <2>1. e.at <= now /\ e.nth < Cardinality({f \in disputeLog[a] : f.at = e.at})
    BY DEF RateInv, LogNumbered
  <2>2. e.at \in Nat
    BY <1>2 DEF LogEntry
  <2> QED BY <1>1, <2>1, <2>2
<1>4. ASSUME NEW t \in Int, t >= now' - RateLimitWindow
      PROVE  Cardinality(Filed(a, t)') <= Cardinality(Logged(disputeLog[a], t))
  <2>1. Filed(a, t)' \subseteq Filed(a, t)
    BY DEF Filed
  <2>2. Cardinality(Filed(a, t)') <= Cardinality(Filed(a, t))
        /\ Cardinality(Filed(a, t)') \in Nat
    BY <2>1, FiledFinite, FS_Subset, FS_CardinalityType
  <2>3. t >= now - RateLimitWindow
    BY <1>1, <1>4, LaterWindow
  <2>4. Cardinality(Filed(a, t)) <= Cardinality(Logged(disputeLog[a], t))
    BY <2>3 DEF RateInv
  <2> QED BY <1>2, <2>2, <2>4, FiledFinite, LoggedFinite
<1>5. Cardinality(Unexpired(disputeLog[a])') <= RateLimitMax
  <2>1. Unexpired(disputeLog[a])' \subseteq Unexpired(disputeLog[a])
    BY <1>1, <1>2 DEF Unexpired, LogEntry
  <2>2. IsFiniteSet(Unexpired(disputeLog[a]))
    BY <1>2, FS_Subset DEF Unexpired
  <2>3. /\ Cardinality(Unexpired(disputeLog[a])') <= Cardinality(Unexpired(disputeLog[a]))
        /\ Cardinality(Unexpired(disputeLog[a])') \in Nat
        /\ Cardinality(Unexpired(disputeLog[a])) \in Nat
    BY <2>1, <2>2, FS_Subset, FS_CardinalityType
  <2> QED BY <2>3 DEF RateInv
<1> QED BY <1>3, <1>4, <1>5

LEMMA FilingKeepsRate ==
  ASSUME TypeOK, TypeOK', RateInv, NEW p \in Payments, FileDispute(p)
  PROVE  RateInv'
<1> USE ConstantsAssumption, NoneAssumption
<1>0. PICK payer \in Payers : payer = settlements[p].payer
  BY DEF TypeOK, FileDispute, SettlementRecord
<1> DEFINE log == disputeLog[payer]
           e == [at |-> now, nth |-> Cardinality({f \in log : f.at = now})]
           d == [filed_by |-> payer, filed_at |-> now,
                 resource_key_hash |-> settlements[p].resource_key_hash]
<1>1. /\ now \in Nat /\ now' = now
      /\ log \in SUBSET LogEntry /\ IsFiniteSet(log)
  <2>1. now \in Time /\ log \in SUBSET LogEntry /\ IsFiniteSet(log) /\ now' = now
    BY DEF TypeOK, FileDispute
  <2> QED BY <2>1 DEF Time, MaxTime
<1>2. /\ disputeLog' = [disputeLog EXCEPT ![payer] = RecordedLog(log)]
      /\ disputes' = [disputes EXCEPT ![p] = d]
      /\ disputes[p] = None
      /\ Cardinality(Unexpired(log)) < RateLimitMax
  BY <1>0 DEF FileDispute, TypeOK
<1>3. LogNumbered(log)
  BY DEF RateInv
<1>4. e \notin log /\ RecordedLog(log) = Unexpired(log) \cup {e} /\ e.at = now
  BY <1>1, <1>3, RecordedIsNew
<1>5. d # None /\ d.filed_by = payer /\ d.filed_at = now
  <2>1. d \in Dispute
    BY <1>1 DEF Dispute, TypeOK, FileDispute, SettlementRecord
  <2> QED BY <2>1
<1> HIDE DEF d, e
<1>6. /\ disputes'[p] = d
      /\ \A q \in Payments \ {p} : disputes'[q] = disputes[q]
      /\ disputeLog'[payer] = RecordedLog(log)
      /\ \A a \in Payers \ {payer} : disputeLog'[a] = disputeLog[a]
  BY <1>2 DEF TypeOK
<1> HIDE DEF log
<1>7. ASSUME NEW a \in Payers \ {payer}, NEW t
      PROVE  Filed(a, t)' = Filed(a, t)
  BY <1>2, <1>5, <1>6 DEF Filed
<1>8. ASSUME NEW t \in Int, t >= now - RateLimitWindow
      PROVE  Cardinality(Filed(payer, t)') <= Cardinality(Logged(RecordedLog(log), t))
  <2>1. Cardinality(Filed(payer, t)) <= Cardinality(Logged(log, t))
    BY <1>8 DEF RateInv, log
  <2>2. p \notin Filed(payer, t)
    BY <1>2 DEF Filed
  <2>3. \A f \in log : f.at \in Nat
    BY <1>1 DEF LogEntry
  <2>4. CASE now > t
    <3>1. Filed(payer, t)' = Filed(payer, t) \cup {p}
      BY <1>5, <1>6, <2>4 DEF Filed
    <3>2. Logged(RecordedLog(log), t) = Logged(log, t) \cup {e}
      BY <1>1, <1>4, <1>8, <2>3, <2>4, LaterThanWindow DEF Logged, Unexpired
    <3>3. e \notin Logged(log, t)
      BY <1>4 DEF Logged
    <3>4. Cardinality(Filed(payer, t)') = Cardinality(Filed(payer, t)) + 1
      BY <2>2, <3>1, FiledFinite, FS_AddElement
    <3>5. Cardinality(Logged(RecordedLog(log), t)) = Cardinality(Logged(log, t)) + 1
      BY <1>1, <3>2, <3>3, LoggedFinite, FS_AddElement
    <3> QED BY <1>1, <2>1, <3>4, <3>5, FiledFinite, LoggedFinite
  <2>5. CASE ~(now > t)
    <3>1. Filed(payer, t)' = Filed(payer, t)
      BY <1>2, <1>5, <1>6, <2>5 DEF Filed
    <3>2. Logged(RecordedLog(log), t) = Logged(log, t)
      BY <1>1, <1>4, <1>8, <2>3, <2>5, LaterThanWindow DEF Logged, Unexpired
    <3> QED BY <2>1, <3>1, <3>2
  <2> QED BY <2>4, <2>5
<1>9. LogNumbered(RecordedLog(log))
  BY <1>1, <1>3, RecordedNumbered
<1> DEFINE inWindow == {f \in RecordedLog(log) : f.at > now - RateLimitWindow}
<1>10. Cardinality(inWindow) <= RateLimitMax
  <2>1. inWindow = Unexpired(log) \cup {e}
    BY <1>1, <1>4 DEF Unexpired
  <2>2. IsFiniteSet(Unexpired(log)) /\ Cardinality(Unexpired(log)) \in Nat
    <3>1. IsFiniteSet(Unexpired(log))
      BY <1>1, FS_Subset DEF Unexpired
    <3> QED BY <3>1, FS_CardinalityType
  <2>3. e \notin Unexpired(log)
    BY <1>4 DEF Unexpired
  <2>4. Cardinality(Unexpired(log) \cup {e}) = Cardinality(Unexpired(log)) + 1
    BY <2>2, <2>3, FS_AddElement
  <2>5. Cardinality(Unexpired(log)) < RateLimitMax /\ RateLimitMax \in Nat
    BY <1>2
  <2> HIDE ConstantsAssumption, NoneAssumption DEF inWindow
  <2> QED BY <2>1, <2>2, <2>4, <2>5
<1>11. ASSUME NEW a \in Payers
       PROVE  /\ LogNumbered(disputeLog[a])'
              /\ \A t \in Int : t >= now - RateLimitWindow =>
                   Cardinality(Filed(a, t)') <= Cardinality(Logged(disputeLog'[a], t))
              /\ Cardinality(Unexpired(disputeLog[a])') <= RateLimitMax
  <2>1. CASE a = payer
    <3>1. LogNumbered(disputeLog[a])'
      BY <1>1, <1>6, <1>9, <2>1 DEF LogNumbered
    <3>2. Unexpired(disputeLog[a])' = inWindow
      BY <1>1, <1>6, <2>1 DEF Unexpired
    <3>3. \A t \in Int : t >= now - RateLimitWindow =>
            Cardinality(Filed(a, t)') <= Cardinality(Logged(disputeLog'[a], t))
      BY <1>6, <1>8, <2>1
    <3> HIDE DEF inWindow
    <3> QED BY <1>10, <3>1, <3>2, <3>3
  <2>2. CASE a # payer
    <3>1. disputeLog'[a] = disputeLog[a] /\ \A t : Filed(a, t)' = Filed(a, t)
      BY <1>6, <1>7, <2>2
    <3>2. LogNumbered(disputeLog[a])'
      BY <1>1, <3>1 DEF RateInv, LogNumbered
    <3>3. Unexpired(disputeLog[a])' = Unexpired(disputeLog[a])
      BY <1>1, <3>1 DEF Unexpired
    <3>4. \A t \in Int : t >= now - RateLimitWindow =>
            Cardinality(Filed(a, t)') <= Cardinality(Logged(disputeLog'[a], t))
      BY <3>1 DEF RateInv
    <3>5. Cardinality(Unexpired(disputeLog[a])) <= RateLimitMax
      BY DEF RateInv
    <3> QED BY <3>2, <3>3, <3>4, <3>5
  <2> QED BY <2>1, <2>2
<1> QED BY <1>1, <1>11 DEF RateInv, Logged

LEMMA RateStep == TypeOK /\ RateInv /\ [Next]_vars => RateInv'
<1> SUFFICES ASSUME TypeOK, RateInv, [Next]_vars PROVE RateInv'
  OBVIOUS
<1>0. TypeOK' /\ now \in Nat /\ disputes \in [Payments -> Dispute \cup {None}]
  <2>1. now \in Nat
    BY ConstantsAssumption DEF TypeOK, Time, MaxTime
  <2> QED BY <2>1, NextTypeOK DEF TypeOK
<1>1. ASSUME now' = now \/ now' = now + 1, UNCHANGED disputeLog,
             \/ UNCHANGED disputes
             \/ \E p \in Payments : disputes' = [disputes EXCEPT ![p] = None]
      PROVE  RateInv'
  <2>1. now' >= now
    BY <1>0, <1>1
  <2>2. \A p \in Payments : disputes'[p] # None => disputes'[p] = disputes[p]
    BY <1>0, <1>1
  <2> QED BY <1>0, <1>1, <2>1, <2>2, RateKept
<1>2. ASSUME NEW p \in Payments, FileDispute(p) PROVE RateInv'
  BY <1>0, <1>2, FilingKeepsRate
<1>3. ASSUME NEW a \in Admins, Initialize(a) PROVE RateInv'
  BY <1>1, <1>3 DEF Initialize
<1>4. ASSUME NEW p \in Payments, NEW payer \in Payers, NEW k \in ResourceKeys,
             NEW amount \in Amounts, RegisterSettlement(p, payer, k, amount)
      PROVE  RateInv'
  BY <1>1, <1>4 DEF RegisterSettlement
<1>5. ASSUME NEW seller \in Sellers, NEW k \in ResourceKeys,
             NEW token \in Tokens, NEW amount \in Amounts,
             Deposit(seller, k, token, amount)
      PROVE  RateInv'
  BY <1>1, <1>5 DEF Deposit
<1>6. ASSUME NEW k \in ResourceKeys,
             Withdraw(k) \/ \E key \in DeliveryKeys : SetDeliveryKey(k, key)
      PROVE  RateInv'
  BY <1>1, <1>6 DEF Withdraw, SetDeliveryKey
<1>7. ASSUME NEW p \in Payments,
             Finalize(p) \/ \E r \in Receipt : PostReceipt(p, r)
      PROVE  RateInv'
  BY <1>1, <1>7 DEF Finalize, PostReceipt
<1>8. ASSUME Tick \/ UNCHANGED vars PROVE RateInv'
  BY <1>1, <1>8 DEF Tick, vars
<1> QED
  BY <1>2, <1>3, <1>4, <1>5, <1>6, <1>7, <1>8 DEF Next

LEMMA RateInvInit == Init => RateInv
<1> SUFFICES ASSUME Init, NEW a \in Payers
             PROVE  /\ LogNumbered(disputeLog[a])
                    /\ \A t \in Int : Cardinality(Filed(a, t))
                                       <= Cardinality(Logged(disputeLog[a], t))
                    /\ Cardinality(Unexpired(disputeLog[a])) <= RateLimitMax
  BY DEF RateInv
<1>1. disputeLog[a] = {} /\ \A t : Filed(a, t) = {}
  BY DEF Init, Filed
<1>2. Unexpired(disputeLog[a]) = {} /\ \A t : Logged(disputeLog[a], t) = {}
  BY <1>1 DEF Unexpired, Logged
<1>3. LogNumbered(disputeLog[a])
  BY <1>1 DEF LogNumbered
<1> QED BY <1>1, <1>2, <1>3, FS_EmptySet, ConstantsAssumption

LEMMA RateInvLimits == TypeOK /\ RateInv => FilingRateLimited
<1> SUFFICES ASSUME TypeOK, RateInv, NEW a \in Payers
             PROVE  Cardinality(Filed(a, now - RateLimitWindow)) <= RateLimitMax
  BY DEF FilingRateLimited, Filed
<1> DEFINE t == now - RateLimitWindow
<1>1. t \in Int /\ t >= now - RateLimitWindow
  BY ConstantsAssumption DEF TypeOK, Time, MaxTime
<1>2. Logged(disputeLog[a], t) = Unexpired(disputeLog[a])
  BY DEF Logged, Unexpired
<1> HIDE DEF t
<1>3. Cardinality(Filed(a, t)) <= Cardinality(Logged(disputeLog[a], t))
  BY <1>1 DEF RateInv
<1>4. /\ Cardinality(Unexpired(disputeLog[a])) <= RateLimitMax
      /\ Cardinality(Logged(disputeLog[a], t)) \in Nat
      /\ RateLimitMax \in Nat
  BY LoggedFinite, ConstantsAssumption DEF TypeOK, RateInv
<1>5. Cardinality(Filed(a, t)) \in Nat
  BY FiledFinite
<1> QED BY <1>2, <1>3, <1>4, <1>5 DEF t

\* file_dispute's limit holds of what it limits: of the disputes open at any
\* time, no payer filed more than RateLimitMax within the last window, though
\* the log is pruned at each filing and a resolved dispute leaves its entry.
THEOREM RateLimited == Spec => []FilingRateLimited
BY RateInvInit, RateStep, RateInvLimits, TypeCorrect, PTL DEF Spec
=============================================================================
