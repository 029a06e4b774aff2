---------------------------- MODULE SettleProofs ----------------------------
(***************************************************************************)
(* Theorems about the channel lanes and about POST /settle, for any number *)
(* of requests, payloads, lanes and overlapping passes of the monitor, any *)
(* ceiling and any number of retries.                                      *)
(*                                                                         *)
(* The invariant of the pool is proved for the pool's own specification;   *)
(* that every step of the monitor, and every step of the pipeline, is a    *)
(* step of the pool or none carries it over to both.                       *)
(*                                                                         *)
(* The inductive invariant of the pipeline has two parts: FlightInv ties a *)
(* run to the settleDedup entry of its payload, RunInv ties the phase of   *)
(* one run to its transaction, its reservation and its answer. Only the    *)
(* ceiling is about the sum over all runs; it uses the lemmas of           *)
(* FiniteSums.                                                             *)
(***************************************************************************)
EXTENDS SettlePipeline, ChannelMonitor, FiniteSums

-----------------------------------------------------------------------------
(* The pool.                                                               *)

\* Why LaneExclusive is inductive: a lane that a settlement holds, and that was
\* never disabled under it, is in use, so that acquire cannot choose it.
HeldInUse == \A a \in Lanes \ revoked : HeldBy(a) # {} => a \in inUse

PoolInv ==
  /\ PoolTypeOK
  /\ StatesPartition
  /\ LaneExclusive
  /\ HeldInUse
  /\ InUseHeld

LEMMA PoolInvInit == PoolInit => PoolInv
<1> SUFFICES ASSUME PoolInit PROVE PoolInv
  OBVIOUS
<1>1. \A a \in Lanes : HeldBy(a) = {}
  BY PoolAssumption DEF PoolInit, HeldBy
<1> QED
  BY <1>1 DEF PoolInit, PoolInv, PoolTypeOK, StatesPartition, LaneExclusive,
     HeldInUse, InUseHeld

LEMMA AcquireInv ==
  ASSUME PoolInv, NEW s \in Settlements, Acquire(s)
  PROVE  PoolInv'
<1> USE PoolAssumption
<1>1. PICK a \in available : /\ available' = available \ {a}
                             /\ inUse' = inUse \cup {a}
                             /\ lane' = [lane EXCEPT ![s] = a]
  BY DEF Acquire
<1>2. lane[s] = None /\ UNCHANGED <<disabled, revoked>>
  BY DEF Acquire
<1>3. PoolTypeOK' /\ StatesPartition'
  BY <1>1, <1>2 DEF PoolInv, PoolTypeOK, StatesPartition
<1>4. /\ HeldBy(a)' = HeldBy(a) \cup {s}
      /\ \A b \in Lanes : b # a => HeldBy(b)' = HeldBy(b)
  BY <1>1, <1>2 DEF HeldBy, PoolInv, PoolTypeOK
<1>5. a \in Lanes /\ (a \notin revoked => HeldBy(a) = {})
  BY DEF PoolInv, PoolTypeOK, LaneExclusive
<1>6. LaneExclusive' /\ HeldInUse'
  BY <1>1, <1>2, <1>4, <1>5 DEF PoolInv, LaneExclusive, HeldInUse
<1>7. InUseHeld'
  <2>1. \A b \in Lanes : b \in inUse' => HeldBy(b)' # {}
    BY <1>1, <1>4 DEF PoolInv, InUseHeld, Held
  <2> QED BY <2>1, <1>3 DEF InUseHeld, Held, PoolTypeOK
<1> QED BY <1>3, <1>6, <1>7 DEF PoolInv

LEMMA ReleaseInv ==
  ASSUME PoolInv, NEW s \in Settlements, Release(s)
  PROVE  PoolInv'
<1> USE PoolAssumption
<1>0. lane[s] \in Lanes
  BY DEF Release, PoolInv, PoolTypeOK
<1> PICK a \in Lanes : a = lane[s]
  BY <1>0
<1>1. /\ lane' = [lane EXCEPT ![s] = None]
      /\ UNCHANGED <<disabled, revoked>>
      /\ IF a \in disabled THEN UNCHANGED <<inUse, available>>
         ELSE inUse' = inUse \ {a} /\ available' = available \cup {a}
  BY DEF Release, ReleaseEffect, ReturnLane
<1>2. PoolTypeOK' /\ StatesPartition'
  BY <1>1 DEF PoolInv, PoolTypeOK, StatesPartition
<1>3. /\ s \in HeldBy(a)
      /\ HeldBy(a)' = HeldBy(a) \ {s}
      /\ \A b \in Lanes : b # a => HeldBy(b)' = HeldBy(b)
  BY <1>1 DEF HeldBy, PoolInv, PoolTypeOK
<1>4. a \notin revoked => HeldBy(a)' = {}
  BY <1>3 DEF PoolInv, LaneExclusive
<1>5. a \notin inUse'
  BY <1>1 DEF PoolInv, StatesPartition
<1>6. LaneExclusive' /\ HeldInUse'
  BY <1>1, <1>3, <1>4 DEF PoolInv, LaneExclusive, HeldInUse
<1>7. InUseHeld'
  <2>1. \A b \in Lanes : b \in inUse' => HeldBy(b)' # {}
    BY <1>1, <1>3, <1>5 DEF PoolInv, InUseHeld, Held
  <2> QED BY <2>1, <1>2 DEF InUseHeld, Held, PoolTypeOK
<1> QED BY <1>2, <1>6, <1>7 DEF PoolInv

\* disable and enable move one lane and leave the holders alone.
LEMMA SwitchInv ==
  ASSUME PoolInv, NEW a \in Lanes, Disable(a) \/ Enable(a)
  PROVE  PoolInv'
<1>1. UNCHANGED lane
  BY DEF Disable, Enable
<1>2. \A b \in Lanes : HeldBy(b)' = HeldBy(b)
  BY <1>1 DEF HeldBy
<1>3. PoolTypeOK' /\ StatesPartition'
  BY DEF Disable, Enable, PoolInv, PoolTypeOK, StatesPartition
<1>4. LaneExclusive' /\ HeldInUse' /\ InUseHeld'
  <2>1. CASE Disable(a)
    BY <1>2, <2>1 DEF Disable, PoolInv, PoolTypeOK, LaneExclusive, HeldInUse,
       InUseHeld, Held
  <2>2. CASE Enable(a)
    BY <1>2, <2>2 DEF Enable, PoolInv, PoolTypeOK, StatesPartition,
       LaneExclusive, HeldInUse, InUseHeld, Held
  <2> QED BY <2>1, <2>2
<1> QED BY <1>3, <1>4 DEF PoolInv

LEMMA PoolInvStep == PoolInv /\ [PoolNext]_poolVars => PoolInv'
<1> SUFFICES ASSUME PoolInv, [PoolNext]_poolVars PROVE PoolInv'
  OBVIOUS
<1>1. CASE UNCHANGED poolVars
  BY <1>1 DEF poolVars, PoolInv, PoolTypeOK, StatesPartition, LaneExclusive,
     HeldInUse, InUseHeld, Held, HeldBy
<1>2. CASE PoolNext
  BY <1>2, AcquireInv, ReleaseInv, SwitchInv DEF PoolNext
<1> QED BY <1>1, <1>2

\* The pool alone: its three sets partition the lanes, lanes are exclusive
\* until they are disabled in flight, and none is lost.
THEOREM PoolCorrect == PoolSpec => []PoolInv
BY PoolInvInit, PoolInvStep, PTL DEF PoolSpec

-----------------------------------------------------------------------------
(* The monitor over the pool.                                              *)

LEMMA WithdrawIsPoolStep ==
  ASSUME NEW a \in Lanes, Withdraw(a) \/ Reinstate(a)
  PROVE  PoolNext
BY DEF Withdraw, Reinstate, PoolNext

MonitorIndex == pass \in [Passes -> 0 .. Len(Order)]

LEMMA OrderLanes ==
  ASSUME MonitorIndex, NEW p \in Passes, pass[p] # 0
  PROVE  Order[pass[p]] \in Lanes
BY MonitorAssumption DEF MonitorIndex

LEMMA MonitorIndexStep == MonitorIndex /\ [MonitorNext]_monitoredVars => MonitorIndex'
<1> SUFFICES ASSUME MonitorIndex, [MonitorNext]_monitoredVars PROVE MonitorIndex'
  OBVIOUS
<1>0. Len(Order) \in Nat
  BY MonitorAssumption
<1>1. ASSUME NEW p \in Passes, StartPass(p) PROVE MonitorIndex'
  BY <1>0, <1>1 DEF StartPass, MonitorIndex
<1>2. ASSUME NEW p \in Passes, Fetch(p) PROVE MonitorIndex'
  BY <1>2 DEF Fetch, MonitorIndex
<1>3. ASSUME NEW p \in Passes, ApplyReading(p) PROVE MonitorIndex'
  BY <1>0, <1>3 DEF ApplyReading, Advance, MonitorIndex
<1>4. ASSUME NEW s \in Settlements, Settle(s) PROVE MonitorIndex'
  BY <1>4 DEF Settle, monitorVars, MonitorIndex
<1>5. ASSUME NEW a \in Lanes, BalanceCrosses(a) PROVE MonitorIndex'
  BY <1>5 DEF BalanceCrosses, monitorVars, MonitorIndex
<1>6. CASE UNCHANGED monitoredVars
  BY <1>6 DEF monitoredVars, monitorVars, MonitorIndex
<1> QED BY <1>1, <1>2, <1>3, <1>4, <1>5, <1>6 DEF MonitorNext

\* What the await of checkOne resumes to is a step of the pool, or none.
LEMMA ApplyIsPoolStep ==
  ASSUME MonitorIndex, NEW p \in Passes, ApplyReading(p)
  PROVE  [PoolNext]_poolVars
<1>1. Order[pass[p]] \in Lanes
  BY OrderLanes DEF ApplyReading
<1>2. ASSUME NEW a \in Lanes, RecordFailure(a) PROVE [PoolNext]_poolVars
  BY <1>2, WithdrawIsPoolStep DEF RecordFailure
<1>3. ASSUME NEW a \in Lanes, NEW b, ApplyBalance(a, b)
      PROVE  [PoolNext]_poolVars
  BY <1>3, WithdrawIsPoolStep DEF ApplyBalance
<1> QED BY <1>1, <1>2, <1>3 DEF ApplyReading

LEMMA MonitorStepIsPoolStep ==
  MonitorIndex /\ [MonitorNext]_monitoredVars => [PoolNext]_poolVars
<1> SUFFICES ASSUME MonitorIndex, [MonitorNext]_monitoredVars PROVE [PoolNext]_poolVars
  OBVIOUS
<1>1. ASSUME NEW p \in Passes, StartPass(p) \/ Fetch(p)
      PROVE UNCHANGED poolVars
  BY <1>1 DEF StartPass, Fetch
<1>2. ASSUME NEW s \in Settlements, Settle(s) PROVE PoolNext
  BY <1>2 DEF Settle, PoolNext
<1>3. ASSUME NEW a \in Lanes, BalanceCrosses(a) PROVE UNCHANGED poolVars
  BY <1>3 DEF BalanceCrosses
<1>4. CASE UNCHANGED monitoredVars
  BY <1>4 DEF monitoredVars
<1> QED BY <1>1, <1>2, <1>3, <1>4, ApplyIsPoolStep DEF MonitorNext

LEMMA MonitorIndexInit == MonitorInit => MonitorIndex
BY MonitorAssumption DEF MonitorInit, MonitorIndex

\* The monitor with any settlements implements the specification of the pool:
\* overlapping passes and stale balances only ever disable and enable lanes.
THEOREM MonitorImplementsPool == MonitorSpec => PoolSpec
<1>1. MonitorInit => PoolInit
  BY DEF MonitorInit
<1> QED
  BY <1>1, MonitorIndexInit, MonitorIndexStep, MonitorStepIsPoolStep, PTL
  DEF MonitorSpec, PoolSpec

\* Under the monitor, each lane is always in exactly one of the three states.
THEOREM LanesPartitioned == MonitorSpec => []StatesPartition
BY MonitorImplementsPool, PoolCorrect, PTL DEF PoolInv

\* Under the monitor, settlements never share a lane that was not disabled
\* while one of them held it.
THEOREM LanesExclusive == MonitorSpec => []LaneExclusive
BY MonitorImplementsPool, PoolCorrect, PTL DEF PoolInv

\* Under the monitor, no lane stays in use without a settlement that holds it.
THEOREM NoLaneLost == MonitorSpec => []InUseHeld
BY MonitorImplementsPool, PoolCorrect, PTL DEF PoolInv

-----------------------------------------------------------------------------
(* The pipeline.                                                           *)

USE DEF dedupVars, spendVars, ledgerVars, retryVars, answerVars

-----------------------------------------------------------------------------
(* Types. Resolve, the return from settle(), and Throw are shared by many  *)
(* steps: what they do to the state is stated once.                        *)

LEMMA PoolTypeStep ==
  ASSUME PoolTypeOK, NEW r \in Settlements,
         \/ Acquire(r) \/ Release(r) \/ UNCHANGED poolVars
         \/ \E a \in Lanes : Disable(a) \/ Enable(a)
  PROVE  PoolTypeOK'
<1>1. CASE Acquire(r)
  BY <1>1 DEF Acquire, PoolTypeOK
<1>2. CASE Release(r)
  BY <1>2 DEF Release, ReleaseEffect, ReturnLane, PoolTypeOK
<1>3. CASE UNCHANGED poolVars
  BY <1>3 DEF poolVars, PoolTypeOK
<1>4. CASE \E a \in Lanes : Disable(a) \/ Enable(a)
  BY <1>4 DEF Disable, Enable, PoolTypeOK
<1> QED BY <1>1, <1>2, <1>3, <1>4

LEMMA AfterSettleType ==
  ASSUME NEW b \in 0 .. MaxFee, NEW kind, NEW f \in 0 .. MaxFee
  PROVE  AfterSettle(b, kind, f) \in 0 .. MaxFee
BY PipelineAssumption DEF AfterSettle

LEMMA ResolveType ==
  ASSUME TypeOK, NEW r \in Settlements, NEW kind \in Outcomes, Resolve(r, kind)
  PROVE  /\ PoolTypeOK'
         /\ phase' \in [Settlements -> Phases]
         /\ booked' \in [Settlements -> 0 .. MaxFee]
         /\ result' \in [Settlements -> Outcomes \cup {None}]
         /\ outcome' \in [Settlements -> Outcomes \cup {None}]
         /\ UNCHANGED <<dedupVars, elapsed, reconciling, standing>>
<1>1. PoolTypeOK'
  BY PoolTypeStep DEF Resolve, ReleaseIfHeld, TypeOK
<1>2. booked' \in [Settlements -> 0 .. MaxFee]
  <2>1. AfterSettle(booked[r], kind, fee[r]) \in 0 .. MaxFee
    BY AfterSettleType DEF TypeOK
  <2> QED BY <2>1 DEF Resolve, TypeOK
<1>3. phase' \in [Settlements -> Phases]
      /\ outcome' \in [Settlements -> Outcomes \cup {None}]
  BY DEF Resolve, Goto, Finish, TypeOK, Phases
<1>4. result' \in [Settlements -> Outcomes \cup {None}]
  BY DEF Resolve, TypeOK
<1> QED BY <1>1, <1>2, <1>3, <1>4 DEF Resolve

LEMMA ThrowType ==
  ASSUME TypeOK, NEW r \in Settlements, Throw(r)
  PROVE  /\ PoolTypeOK'
         /\ phase' \in [Settlements -> Phases]
         /\ booked' \in [Settlements -> 0 .. MaxFee]
         /\ result' \in [Settlements -> Outcomes \cup {None}]
         /\ outcome' \in [Settlements -> Outcomes \cup {None}]
         /\ UNCHANGED <<dedupVars, elapsed, reconciling, standing>>
BY PipelineAssumption, PoolTypeStep DEF Throw, Finish, TypeOK, Phases, Outcomes

LEMMA InitTypeOK == Init => TypeOK
BY PoolAssumption, PipelineAssumption DEF Init, PoolInit, PoolTypeOK, TypeOK, Phases

\* StartRun and what precedes it.
LEMMA ArriveType ==
  ASSUME TypeOK, NEW r \in Settlements,
         \/ \E t \in Txs : JoinRun(r, t) \/ StartRun(r, t)
         \/ RejectMalformed(r)
  PROVE  TypeOK'
<1>1. ASSUME NEW t \in Txs, JoinRun(r, t) PROVE TypeOK'
  BY <1>1, PoolTypeStep DEF JoinRun, TypeOK
<1>2. ASSUME NEW t \in Txs, StartRun(r, t) PROVE TypeOK'
  BY <1>2, PoolTypeStep, PipelineAssumption
  DEF StartRun, RegisterRun, Finish, Goto, TypeOK, Phases, Outcomes
<1>3. CASE RejectMalformed(r)
  BY <1>3, PoolTypeStep DEF RejectMalformed, Finish, TypeOK, Phases, Outcomes
<1> QED BY <1>1, <1>2, <1>3

LEMMA StepType ==
  ASSUME TypeOK, NEW r \in Settlements, Step(r)
  PROVE  TypeOK'
<1> USE PipelineAssumption
<1>1. CASE VerifyFails(r)
  BY <1>1, ResolveType, ThrowType DEF VerifyFails, Crash, TypeOK, Outcomes
<1>2. CASE SkewRetry(r)
  BY <1>2, PoolTypeStep DEF SkewRetry, TypeOK
<1>3. CASE SelectSigner(r)
  BY <1>3, PoolTypeStep DEF SelectSigner, Goto, TypeOK, Phases
<1>4. CASE PoolExhausted(r)
  BY <1>4, PoolTypeStep DEF PoolExhausted, Finish, TypeOK, Phases, Outcomes
<1>5. CASE BuildFails(r)
  BY <1>5, ResolveType DEF BuildFails, TypeOK, Outcomes
<1>6. ASSUME NEW f \in 1 .. MaxFee, Built(r, f) PROVE TypeOK'
  BY <1>6, PoolTypeStep DEF Built, Goto, TypeOK, Phases
<1>7. CASE SendPending(r)
  <2>1. ledger' \in [Settlements -> {"absent", "pending"} \cup Applied]
    BY <1>7 DEF SendPending, Forward, TypeOK
  <2> QED BY <1>7, <2>1, PoolTypeStep DEF SendPending, Goto, TypeOK, Phases
<1>8. CASE SendTryAgain(r)
  <2>0. ledger' \in [Settlements -> {"absent", "pending"} \cup Applied]
    BY <1>8 DEF SendTryAgain, MaybeForward, Forward, TypeOK
  <2>1. CASE sends[r] < SubmitRetryMax
    <3>1. PoolTypeOK'
      BY <1>8, <2>1, PoolTypeStep DEF SendTryAgain, TypeOK
    <3>2. sends' \in [Settlements -> 0 .. SubmitRetryMax]
      BY <1>8, <2>1 DEF SendTryAgain, TypeOK
    <3>3. phase' \in [Settlements -> Phases]
      BY <1>8, <2>1 DEF SendTryAgain, Goto, TypeOK, Phases
    <3> QED
      BY <1>8, <2>0, <2>1, <3>1, <3>2, <3>3 DEF SendTryAgain, Goto, TypeOK
  <2>2. CASE ~(sends[r] < SubmitRetryMax)
    BY <1>8, <2>0, <2>2, ResolveType DEF SendTryAgain, TypeOK, Outcomes
  <2> QED BY <2>1, <2>2
<1>9. CASE SendRefused(r)
  BY <1>9, ResolveType DEF SendRefused, TypeOK, Outcomes
<1>10. CASE SendThrows(r)
  <2>0. ledger' \in [Settlements -> {"absent", "pending"} \cup Applied]
    BY <1>10 DEF SendThrows, MaybeForward, Forward, TypeOK
  <2> QED
    BY <1>10, <2>0, ResolveType, ThrowType DEF SendThrows, Crash, TypeOK, Outcomes
<1>11. CASE RetrySend(r)
  BY <1>11, PoolTypeStep DEF RetrySend, Goto, TypeOK, Phases
<1>12. CASE Poll(r)
  <2>1. Applied \subseteq Outcomes
    BY DEF Applied, Outcomes
  <2> QED
    BY <1>12, <2>1, ResolveType, ThrowType DEF Poll, Crash, TypeOK, Outcomes
<1>13. CASE Adjusted(r)
  BY <1>13, PoolTypeStep DEF Adjusted, Finish, Goto, TypeOK, Phases
<1>14. CASE Registered(r)
  BY <1>14, PoolTypeStep DEF Registered, Finish, TypeOK, Phases, Outcomes
<1>15. CASE RegistrationFails(r)
  BY <1>15, PoolTypeStep DEF RegistrationFails, Finish, TypeOK, Phases, Outcomes
<1> QED
  BY <1>1, <1>2, <1>3, <1>4, <1>5, <1>6, <1>7, <1>8, <1>9, <1>10, <1>11, <1>12,
     <1>13, <1>14, <1>15 DEF Step

LEMMA NextTypeOK == TypeOK /\ [Next]_vars => TypeOK'
<1> SUFFICES ASSUME TypeOK, [Next]_vars PROVE TypeOK'
  OBVIOUS
<1> USE PipelineAssumption
<1>1. ASSUME NEW r \in Settlements, Reconcile(r) \/ ReconcileGivesUp(r)
      PROVE  TypeOK'
  BY <1>1, PoolTypeStep DEF Reconcile, ReconcileGivesUp, TypeOK
<1>2. ASSUME NEW r \in Settlements, Apply(r) PROVE TypeOK'
  <2>1. PICK status \in Applied, c \in 1 .. fee[r] :
          /\ ledger' = [ledger EXCEPT ![r] = status]
          /\ charged' = [charged EXCEPT ![r] = c]
    BY <1>2 DEF Apply
  <2>2. c \in 0 .. MaxFee
    BY DEF TypeOK
  <2> QED BY <1>2, <2>1, <2>2, PoolTypeStep DEF Apply, TypeOK
<1>3. ASSUME NEW r \in Settlements, WindowElapses(r) PROVE TypeOK'
  BY <1>3, PoolTypeStep DEF WindowElapses, TypeOK
<1>4. ASSUME NEW t \in Txs, DedupExpires(t) PROVE TypeOK'
  BY <1>4 DEF DedupExpires, TypeOK, PoolTypeOK, poolVars
<1>5. ASSUME NEW a \in Lanes, Monitor(a) PROVE TypeOK'
  <2>1. PoolTypeOK'
    BY <1>5 DEF Monitor, Disable, Enable, TypeOK, PoolTypeOK
  <2> QED BY <1>5, <2>1 DEF Monitor, TypeOK
<1>6. CASE UNCHANGED vars
  BY <1>6 DEF vars, TypeOK, PoolTypeOK, poolVars
<1> QED
  BY <1>1, <1>2, <1>3, <1>4, <1>5, <1>6, ArriveType, StepType DEF Next

\* The maps, counters and promises of the handler keep their types: no run
\* books, retries or is charged more than its bounds, whatever interleaves.
THEOREM TypeCorrect == Spec => []TypeOK
BY InitTypeOK, NextTypeOK, PTL DEF Spec

-----------------------------------------------------------------------------
(* One flight per payload.                                                 *)

\* A run that is under way is the one its payload's settleDedup entry names,
\* unless that entry has expired; a request that has not arrived runs nothing.
FlightInv ==
  \A r \in Settlements :
    /\ awaits[r] = None => phase[r] = "idle"
    /\ Running(r) => /\ tx[r] \in Txs
                     /\ dedup[tx[r]] = r \/ r \in expired

\* A step of a run in flight moves that run only, and never back to the start.
LEMMA StepMoves ==
  ASSUME TypeOK, NEW r \in Settlements, Step(r)
  PROVE  /\ Running(r)
         /\ UNCHANGED dedupVars
         /\ phase'[r] # "idle"
         /\ \A q \in Settlements \ {r} : phase'[q] = phase[q]
<1> USE DEF TypeOK, Running, Goto, Finish
<1>1. ASSUME NEW kind, Resolve(r, kind)
      PROVE  /\ UNCHANGED dedupVars
             /\ phase'[r] # "idle"
             /\ \A q \in Settlements \ {r} : phase'[q] = phase[q]
  BY <1>1 DEF Resolve
<1>2. ASSUME Throw(r)
      PROVE  /\ UNCHANGED dedupVars
             /\ phase'[r] # "idle"
             /\ \A q \in Settlements \ {r} : phase'[q] = phase[q]
  BY <1>2 DEF Throw
<1>3. CASE VerifyFails(r) \/ BuildFails(r) \/ SendRefused(r) \/ Poll(r)
  BY <1>1, <1>2, <1>3 DEF VerifyFails, BuildFails, SendRefused, Poll, Crash
<1>4. CASE SendTryAgain(r) \/ SendThrows(r)
  BY <1>1, <1>2, <1>4 DEF SendTryAgain, SendThrows, Crash
<1>5. CASE SkewRetry(r) \/ SelectSigner(r) \/ PoolExhausted(r)
  BY <1>5 DEF SkewRetry, SelectSigner, PoolExhausted
<1>6. ASSUME NEW f \in 1 .. MaxFee, Built(r, f)
      PROVE  /\ Running(r)
             /\ UNCHANGED dedupVars
             /\ phase'[r] # "idle"
             /\ \A q \in Settlements \ {r} : phase'[q] = phase[q]
  BY <1>6 DEF Built
<1>7. CASE SendPending(r) \/ RetrySend(r)
  BY <1>7 DEF SendPending, RetrySend
<1>8. CASE Adjusted(r) \/ Registered(r) \/ RegistrationFails(r)
  BY <1>8 DEF Adjusted, Registered, RegistrationFails
<1> QED
  BY <1>3, <1>4, <1>5, <1>6, <1>7, <1>8 DEF Step

LEMMA FlightStep == TypeOK /\ FlightInv /\ [Next]_vars => FlightInv'
<1> SUFFICES ASSUME TypeOK, FlightInv, [Next]_vars PROVE FlightInv'
  OBVIOUS
<1> USE PipelineAssumption, NoneAssumption DEF TypeOK, FlightInv, Running
<1>1. ASSUME NEW r \in Settlements, NEW t \in Txs, JoinRun(r, t)
      PROVE  FlightInv'
  BY <1>1 DEF JoinRun
<1>2. ASSUME NEW r \in Settlements, NEW t \in Txs, StartRun(r, t)
      PROVE  FlightInv'
  <2>1. /\ awaits[r] = None /\ dedup[t] = None
        /\ tx' = [tx EXCEPT ![r] = t] /\ awaits' = [awaits EXCEPT ![r] = r]
        /\ dedup' = [dedup EXCEPT ![t] = r] /\ expired' = expired
        /\ \A q \in Settlements \ {r} : phase'[q] = phase[q]
    BY <1>2 DEF StartRun, RegisterRun, Goto, Finish
  <2>2. ASSUME NEW q \in Settlements \ {r}
        PROVE  /\ awaits'[q] = None => phase'[q] = "idle"
               /\ Running(q)' => /\ tx'[q] \in Txs
                                 /\ dedup'[tx'[q]] = q \/ q \in expired'
    <3>1. dedup[t] # q
      BY <2>1
    <3> QED BY <2>1, <3>1
  <2>3. awaits'[r] = r /\ tx'[r] = t /\ dedup'[t] = r
    BY <2>1
  <2> QED BY <2>2, <2>3
<1>3. ASSUME NEW r \in Settlements, RejectMalformed(r) PROVE FlightInv'
  BY <1>3 DEF RejectMalformed, Finish
<1>4. ASSUME NEW r \in Settlements, Step(r) PROVE FlightInv'
  <2>1. /\ Running(r)
        /\ UNCHANGED dedupVars
        /\ phase'[r] # "idle"
        /\ \A q \in Settlements \ {r} : phase'[q] = phase[q]
    BY <1>4, StepMoves
  <2> QED BY <2>1
<1>5. ASSUME NEW t \in Txs, DedupExpires(t) PROVE FlightInv'
  BY <1>5 DEF DedupExpires
<1>6. CASE UNCHANGED <<dedupVars, phase>>
  BY <1>6
<1>7. ASSUME NEW r \in Settlements,
             Reconcile(r) \/ ReconcileGivesUp(r) \/ Apply(r) \/ WindowElapses(r)
      PROVE  UNCHANGED <<dedupVars, phase>>
  BY <1>7 DEF Reconcile, ReconcileGivesUp, Apply, WindowElapses
<1>8. ASSUME NEW a \in Lanes, Monitor(a) PROVE UNCHANGED <<dedupVars, phase>>
  BY <1>8 DEF Monitor
<1>9. CASE UNCHANGED vars
  BY <1>9 DEF vars
<1> QED
  BY <1>1, <1>2, <1>3, <1>4, <1>5, <1>6, <1>7, <1>8, <1>9 DEF Next

LEMMA FlightInvariant == Spec => [](TypeOK /\ FlightInv)
<1>1. Init => FlightInv
  BY DEF Init, FlightInv, Running
<1> QED BY <1>1, InitTypeOK, NextTypeOK, FlightStep, PTL DEF Spec

\* Two requests with one payload never settle it side by side while the
\* settleDedup entry of the first lives, for any interleaving of any number.
THEOREM OneFlightPerPayload == Spec => []SingleFlight
<1>1. TypeOK /\ FlightInv => SingleFlight
  BY DEF FlightInv, SingleFlight
<1> QED BY <1>1, FlightInvariant, PTL

-----------------------------------------------------------------------------
(* One run: its transaction, its reservation, its answer and its lane.     *)

Unsent == {"idle", "verify", "build"}

Sending == {"send", "backoff", "poll"}

\* What is sent has a fee, what is applied is charged at most that fee, and a
\* result says what the ledger said.
LedgerInv(r) ==
  /\ phase[r] \in Unsent => ledger[r] = "absent" /\ fee[r] = 0
  /\ phase[r] \in Sending \cup {"adjust", "register"} => fee[r] > 0
  /\ ledger[r] \in Applied => charged[r] \in 1 .. fee[r]
  /\ ledger[r] \notin Applied => charged[r] = 0
  /\ result[r] = "success" => ledger[r] = "success"
  /\ result[r] \in Applied => fee[r] > 0

\* The reservation is the estimate until settle() returns, the submitted fee
\* until it is reconciled, the fee charged from then on; nothing once its
\* window has elapsed or when nothing was sent.
BookingInv(r) ==
  /\ phase[r] = "idle" => booked[r] = 0 /\ r \notin elapsed
  /\ phase[r] \in {"verify", "build"} \cup Sending =>
       booked[r] = IF r \in elapsed THEN 0 ELSE MaxFee
  /\ phase[r] = "adjust" \/ r \in reconciling => booked[r] \in {0, fee[r]}
  /\ result[r] \in Applied /\ r \notin elapsed =>
       \/ booked[r] = fee[r]
       \/ ledger[r] \in Applied /\ booked[r] = charged[r]
  /\ outcome[r] \notin {None, "exhausted"} /\ fee[r] = 0 => booked[r] = 0

\* The result is known from settle()'s return on, the outcome at the end.
AnswerInv(r) ==
  /\ phase[r] \in Unsent \cup Sending => result[r] = None
  /\ phase[r] = "adjust" => result[r] \in Applied
  /\ phase[r] = "register" => result[r] = "success"
  /\ r \in reconciling => phase[r] \in {"register", "done"}
  /\ outcome[r] # None => phase[r] = "done"
  /\ outcome[r] = "success" =>
       ledger[r] = "success" /\ (BondEscrow => r \in standing)

RunInv == \A r \in Settlements : LedgerInv(r) /\ BookingInv(r) /\ AnswerInv(r)

\* A step of another run leaves run q alone.
SameRun(q) ==
  /\ phase'[q] = phase[q] /\ booked'[q] = booked[q]
  /\ fee'[q] = fee[q] /\ ledger'[q] = ledger[q] /\ charged'[q] = charged[q]
  /\ result'[q] = result[q] /\ outcome'[q] = outcome[q]
  /\ q \in elapsed' <=> q \in elapsed
  /\ q \in reconciling' <=> q \in reconciling
  /\ q \in standing => q \in standing'

LEMMA SameRunKeeps ==
  ASSUME RunInv, NEW q \in Settlements, SameRun(q)
  PROVE  (LedgerInv(q) /\ BookingInv(q) /\ AnswerInv(q))'
BY DEF RunInv, SameRun, LedgerInv, BookingInv, AnswerInv

\* What a step of run r has to show.
LEMMA OneRun ==
  ASSUME RunInv, NEW r \in Settlements,
         \A q \in Settlements \ {r} : SameRun(q),
         LedgerInv(r)', BookingInv(r)', AnswerInv(r)'
  PROVE  RunInv'
BY SameRunKeeps DEF RunInv

\* settle() returns: with the ledger's verdict or a failure from polling, with
\* a failed result and no transaction from anywhere before.
LEMMA ResolveKeeps ==
  ASSUME TypeOK, RunInv, NEW r \in Settlements, NEW kind,
         \/ kind \in {"invalid", "rpc"}
         \/ phase[r] = "poll" /\ kind = "failed"
         \/ phase[r] = "poll" /\ kind = "success" /\ ledger[r] = "success",
         phase[r] \in {"verify", "build"} \cup Sending,
         Resolve(r, kind),
         UNCHANGED <<fee, charged>>,
         UNCHANGED ledger \/ (phase[r] = "send" /\ Forward(r))
  PROVE  RunInv'
<1> USE PipelineAssumption, NoneAssumption
<1>1. \A q \in Settlements \ {r} : SameRun(q)
  BY DEF TypeOK, Resolve, Goto, Finish, Forward, SameRun
<1>2. /\ result'[r] = kind
      /\ booked'[r] = AfterSettle(booked[r], kind, fee[r])
      /\ IF kind \in {"success", "failed"}
         THEN phase'[r] = "adjust" /\ outcome'[r] = outcome[r]
         ELSE phase'[r] = "done" /\ outcome'[r] = kind
      /\ UNCHANGED <<elapsed, reconciling, standing>>
  BY DEF TypeOK, Resolve, Goto, Finish
<1>3. /\ fee'[r] = fee[r] /\ charged'[r] = charged[r]
      /\ \/ ledger'[r] = ledger[r]
         \/ ledger[r] = "absent" /\ ledger'[r] = "pending"
  BY DEF TypeOK, Forward
<1>4. /\ LedgerInv(r) /\ BookingInv(r) /\ AnswerInv(r)
      /\ booked[r] \in Nat /\ fee[r] \in Nat /\ charged[r] \in Nat
  BY DEF RunInv, TypeOK
<1>5. kind \in {"success", "failed"} => ledger'[r] = ledger[r] /\ fee[r] > 0
  BY <1>3, <1>4 DEF LedgerInv, Sending, TypeOK
<1>6. LedgerInv(r)'
  BY <1>2, <1>3, <1>4, <1>5 DEF LedgerInv, Applied, Unsent, Sending
<1>7. BookingInv(r)'
  BY <1>2, <1>3, <1>4, <1>5
  DEF BookingInv, AnswerInv, Applied, Unsent, Sending, AfterSettle
<1>8. AnswerInv(r)'
  BY <1>2, <1>3, <1>4, <1>5 DEF AnswerInv, LedgerInv, Applied, Unsent, Sending
<1> QED BY <1>1, <1>6, <1>7, <1>8, OneRun

LEMMA ThrowKeeps ==
  ASSUME TypeOK, RunInv, NEW r \in Settlements,
         phase[r] \in {"verify", "build"} \cup Sending,
         Throw(r),
         UNCHANGED <<fee, charged>>,
         UNCHANGED ledger \/ (phase[r] = "send" /\ Forward(r))
  PROVE  RunInv'
<1> USE PipelineAssumption, NoneAssumption
<1>1. \A q \in Settlements \ {r} : SameRun(q)
  BY DEF TypeOK, Throw, Finish, Forward, SameRun
<1>2. /\ result'[r] = result[r] /\ booked'[r] = 0
      /\ phase'[r] = "done" /\ outcome'[r] = "thrown"
      /\ UNCHANGED <<elapsed, reconciling, standing>>
  BY DEF TypeOK, Throw, Finish
<1>3. /\ fee'[r] = fee[r] /\ charged'[r] = charged[r]
      /\ \/ ledger'[r] = ledger[r]
         \/ ledger[r] = "absent" /\ ledger'[r] = "pending"
  BY DEF TypeOK, Forward
<1>4. LedgerInv(r) /\ BookingInv(r) /\ AnswerInv(r)
  BY DEF RunInv
<1>5. LedgerInv(r)' /\ BookingInv(r)' /\ AnswerInv(r)'
  BY <1>2, <1>3, <1>4 DEF LedgerInv, BookingInv, AnswerInv, Applied, Unsent,
     Sending, Outcomes
<1> QED BY <1>1, <1>5, OneRun

\* A step between the awaits of a submission: it books and answers nothing.
LEMMA MoveKeeps ==
  ASSUME TypeOK, RunInv, NEW r \in Settlements,
         NEW p \in Sending, phase[r] \in Sending,
         phase' = [phase EXCEPT ![r] = p],
         UNCHANGED <<spendVars, fee, charged, standing, answerVars>>,
         UNCHANGED ledger \/ Forward(r)
  PROVE  RunInv'
<1>1. \A q \in Settlements \ {r} : SameRun(q)
  BY DEF TypeOK, Forward, SameRun
<1>2. LedgerInv(r) /\ BookingInv(r) /\ AnswerInv(r)
  BY DEF RunInv
<1>3. /\ phase'[r] = p
      /\ \/ ledger'[r] = ledger[r]
         \/ ledger[r] = "absent" /\ ledger'[r] = "pending"
  BY DEF TypeOK, Forward
<1>4. LedgerInv(r)' /\ BookingInv(r)' /\ AnswerInv(r)'
  BY <1>2, <1>3, NoneAssumption
  DEF LedgerInv, BookingInv, AnswerInv, Unsent, Sending, Applied, Outcomes
<1> QED BY <1>1, <1>4, OneRun

LEMMA StepKeepsRun ==
  ASSUME TypeOK, RunInv, NEW r \in Settlements, Step(r)
  PROVE  RunInv'
<1> USE PipelineAssumption, NoneAssumption
<1>0. /\ LedgerInv(r) /\ BookingInv(r) /\ AnswerInv(r)
      /\ booked[r] \in Nat /\ fee[r] \in Nat /\ charged[r] \in Nat
  BY DEF RunInv, TypeOK
<1>1. CASE VerifyFails(r)
  BY <1>1, ResolveKeeps, ThrowKeeps DEF VerifyFails, Crash
<1>2. CASE SkewRetry(r)
  <2>1. \A q \in Settlements : SameRun(q)
    BY <1>2 DEF SkewRetry, SameRun
  <2> QED BY <2>1, SameRunKeeps DEF RunInv
<1>3. CASE SelectSigner(r)
  <2>1. \A q \in Settlements \ {r} : SameRun(q)
    BY <1>3 DEF TypeOK, SelectSigner, Goto, SameRun
  <2>2. LedgerInv(r)' /\ BookingInv(r)' /\ AnswerInv(r)'
    BY <1>0, <1>3 DEF SelectSigner, Goto, TypeOK, LedgerInv, BookingInv,
       AnswerInv, Unsent, Sending, Applied
  <2> QED BY <2>1, <2>2, OneRun
<1>4. CASE PoolExhausted(r)
  <2>1. \A q \in Settlements \ {r} : SameRun(q)
    BY <1>4 DEF TypeOK, PoolExhausted, Finish, SameRun
  <2>2. LedgerInv(r)' /\ BookingInv(r)' /\ AnswerInv(r)'
    BY <1>0, <1>4 DEF PoolExhausted, Finish, TypeOK, LedgerInv, BookingInv,
       AnswerInv, Unsent, Sending, Applied
  <2> QED BY <2>1, <2>2, OneRun
<1>5. CASE BuildFails(r)
  BY <1>5, ResolveKeeps DEF BuildFails
<1>6. ASSUME NEW f \in 1 .. MaxFee, Built(r, f) PROVE RunInv'
  <2>1. \A q \in Settlements \ {r} : SameRun(q)
    BY <1>6 DEF TypeOK, Built, Goto, SameRun
  <2>2. LedgerInv(r)' /\ BookingInv(r)' /\ AnswerInv(r)'
    BY <1>0, <1>6 DEF Built, Goto, TypeOK, LedgerInv, BookingInv,
       AnswerInv, Unsent, Sending, Applied, Outcomes
  <2> QED BY <2>1, <2>2, OneRun
<1>7. CASE SendPending(r)
  BY <1>7, MoveKeeps DEF SendPending, Goto, Sending
<1>8. CASE SendTryAgain(r)
  BY <1>8, MoveKeeps, ResolveKeeps
  DEF SendTryAgain, MaybeForward, Goto, Sending
<1>9. CASE SendRefused(r)
  BY <1>9, ResolveKeeps DEF SendRefused, Sending
<1>10. CASE SendThrows(r)
  BY <1>10, ResolveKeeps, ThrowKeeps DEF SendThrows, MaybeForward, Crash, Sending
<1>11. CASE RetrySend(r)
  BY <1>11, MoveKeeps DEF RetrySend, Goto, Sending
<1>12. CASE Poll(r)
  BY <1>12, ResolveKeeps, ThrowKeeps DEF Poll, Crash, Sending, Applied
<1>13. CASE Adjusted(r)
  <2>1. \A q \in Settlements \ {r} : SameRun(q)
    BY <1>13 DEF TypeOK, Adjusted, Goto, Finish, SameRun
  <2>2. LedgerInv(r)' /\ BookingInv(r)' /\ AnswerInv(r)'
    BY <1>0, <1>13 DEF Adjusted, Goto, Finish, TypeOK, LedgerInv, BookingInv,
       AnswerInv, Unsent, Sending, Applied
  <2> QED BY <2>1, <2>2, OneRun
<1>14. CASE Registered(r) \/ RegistrationFails(r)
  <2>1. \A q \in Settlements \ {r} : SameRun(q)
    BY <1>14 DEF TypeOK, Registered, RegistrationFails, Finish, SameRun
  <2>2. LedgerInv(r)' /\ BookingInv(r)' /\ AnswerInv(r)'
    BY <1>0, <1>14 DEF Registered, RegistrationFails, Finish, TypeOK,
       LedgerInv, BookingInv, AnswerInv, Unsent, Sending, Applied, Outcomes
  <2> QED BY <2>1, <2>2, OneRun
<1> QED
  BY <1>1, <1>2, <1>3, <1>4, <1>5, <1>6, <1>7, <1>8, <1>9, <1>10, <1>11, <1>12,
     <1>13, <1>14 DEF Step

LEMMA RunStep == TypeOK /\ FlightInv /\ RunInv /\ [Next]_vars => RunInv'
<1> SUFFICES ASSUME TypeOK, FlightInv, RunInv, [Next]_vars PROVE RunInv'
  OBVIOUS
<1> USE PipelineAssumption, NoneAssumption
<1>0. ASSUME NEW r \in Settlements
      PROVE  /\ LedgerInv(r) /\ BookingInv(r) /\ AnswerInv(r)
             /\ booked[r] \in Nat /\ fee[r] \in Nat /\ charged[r] \in Nat
  BY DEF RunInv, TypeOK
<1>1. ASSUME \A q \in Settlements : SameRun(q) PROVE RunInv'
  BY <1>1, SameRunKeeps DEF RunInv
<1>2. ASSUME NEW r \in Settlements, NEW t \in Txs, JoinRun(r, t) PROVE RunInv'
  BY <1>1, <1>2 DEF JoinRun, SameRun
<1>3. ASSUME NEW r \in Settlements, NEW t \in Txs, StartRun(r, t) PROVE RunInv'
  <2>0. phase[r] = "idle"
    BY <1>3 DEF StartRun, RegisterRun, FlightInv
  <2>1. \A q \in Settlements \ {r} : SameRun(q)
    BY <1>3 DEF TypeOK, StartRun, Goto, Finish, SameRun
  <2>2. /\ \/ phase'[r] = "done" /\ outcome'[r] = "refused" /\ booked'[r] = 0
           \/ phase'[r] = "verify" /\ outcome'[r] = outcome[r] /\ booked'[r] = MaxFee
        /\ UNCHANGED <<elapsed, reconciling, ledgerVars, standing, result>>
    BY <1>0, <1>3, <2>0 DEF TypeOK, StartRun, Goto, Finish, BookingInv
  <2>3. LedgerInv(r)' /\ BookingInv(r)' /\ AnswerInv(r)'
    BY <1>0, <2>0, <2>2
    DEF LedgerInv, BookingInv, AnswerInv, Unsent, Sending, Applied, Outcomes
  <2> QED BY <2>1, <2>3, OneRun
<1>4. ASSUME NEW r \in Settlements, RejectMalformed(r) PROVE RunInv'
  <2>0. phase[r] = "idle"
    BY <1>4 DEF RejectMalformed, FlightInv
  <2>1. \A q \in Settlements \ {r} : SameRun(q)
    BY <1>4 DEF TypeOK, RejectMalformed, Finish, SameRun
  <2>2. LedgerInv(r)' /\ BookingInv(r)' /\ AnswerInv(r)'
    BY <1>0, <1>4, <2>0
    DEF RejectMalformed, Finish, TypeOK, LedgerInv, BookingInv, AnswerInv,
        Unsent, Sending, Applied, Outcomes
  <2> QED BY <2>1, <2>2, OneRun
<1>5. ASSUME NEW r \in Settlements, Step(r) PROVE RunInv'
  BY <1>5, StepKeepsRun
<1>6. ASSUME NEW r \in Settlements, Reconcile(r) \/ ReconcileGivesUp(r)
      PROVE  RunInv'
  <2>1. \A q \in Settlements \ {r} : SameRun(q)
    BY <1>6 DEF TypeOK, Reconcile, ReconcileGivesUp, SameRun
  <2>2. LedgerInv(r)' /\ BookingInv(r)' /\ AnswerInv(r)'
    BY <1>0, <1>6
    DEF Reconcile, ReconcileGivesUp, TypeOK, LedgerInv, BookingInv, AnswerInv,
        Unsent, Sending
  <2> QED BY <2>1, <2>2, OneRun
<1>7. ASSUME NEW r \in Settlements, Apply(r) PROVE RunInv'
  <2>1. PICK status \in Applied, c \in 1 .. fee[r] :
          /\ ledger[r] = "pending"
          /\ ledger' = [ledger EXCEPT ![r] = status]
          /\ charged' = [charged EXCEPT ![r] = c]
          /\ UNCHANGED <<dedupVars, phase, retryVars, spendVars, fee, standing,
                         answerVars>>
    BY <1>7 DEF Apply
  <2>2. \A q \in Settlements \ {r} : SameRun(q)
    BY <2>1 DEF TypeOK, SameRun
  <2>3. LedgerInv(r)' /\ BookingInv(r)' /\ AnswerInv(r)'
    BY <1>0, <2>1
    DEF TypeOK, LedgerInv, BookingInv, AnswerInv, Unsent, Sending, Applied
  <2> QED BY <2>2, <2>3, OneRun
<1>8. ASSUME NEW r \in Settlements, WindowElapses(r) PROVE RunInv'
  <2>1. \A q \in Settlements \ {r} : SameRun(q)
    BY <1>8 DEF TypeOK, WindowElapses, SameRun
  <2>2. LedgerInv(r)' /\ BookingInv(r)' /\ AnswerInv(r)'
    BY <1>0, <1>8
    DEF WindowElapses, TypeOK, LedgerInv, BookingInv, AnswerInv, Unsent, Sending
  <2> QED BY <2>1, <2>2, OneRun
<1>9. ASSUME NEW t \in Txs, DedupExpires(t) PROVE RunInv'
  BY <1>1, <1>9 DEF DedupExpires, SameRun
<1>10. ASSUME NEW a \in Lanes, Monitor(a) PROVE RunInv'
  BY <1>1, <1>10 DEF Monitor, SameRun
<1>11. CASE UNCHANGED vars
  BY <1>1, <1>11 DEF vars, SameRun
<1> QED
  BY <1>2, <1>3, <1>4, <1>5, <1>6, <1>7, <1>8, <1>9, <1>10, <1>11 DEF Next

\* The inductive invariant of the pipeline.
IInv == TypeOK /\ FlightInv /\ RunInv

LEMMA InitIInv == Init => IInv
<1> SUFFICES ASSUME Init PROVE IInv
  OBVIOUS
<1>1. FlightInv
  BY DEF Init, FlightInv, Running
<1>2. RunInv
  BY PipelineAssumption, NoneAssumption DEF Init, RunInv, LedgerInv,
     BookingInv, AnswerInv, Unsent, Sending, Applied, Outcomes
<1> QED BY <1>1, <1>2, InitTypeOK DEF IInv

LEMMA PipelineInvariant == Spec => []IInv
BY InitIInv, NextTypeOK, FlightStep, RunStep, PTL DEF Spec, IInv

\* A success is answered only for a payment on the ledger whose payer has
\* standing with the bond escrow, for any retries and any lost answers.
THEOREM SuccessBacked == Spec => []SuccessIsBacked
<1>1. IInv => SuccessIsBacked
  BY DEF IInv, RunInv, AnswerInv, SuccessIsBacked
<1> QED BY <1>1, PipelineInvariant, PTL

\* What was submitted stays booked, at no less than it cost, until its window
\* elapses, and what was never sent is released (but for an exhausted pool).
THEOREM BookingMatches == Spec => []BookingMatchesSpend
<1>1. IInv => SubmittedStaysBooked
  BY NoneAssumption DEF IInv, RunInv, TypeOK, LedgerInv, BookingInv, Applied, SubmittedStaysBooked
<1>2. IInv => UnsentIsReleased
  BY DEF IInv, RunInv, BookingInv, UnsentIsReleased
<1> QED BY <1>1, <1>2, PipelineInvariant, PTL DEF BookingMatchesSpend

-----------------------------------------------------------------------------
(* The spend ceiling.                                                      *)

LEMMA WindowSum == WindowSpend = SumOf(booked, Settlements)
BY DEF WindowSpend, SumOf, MapThenSumSet, MapThenFoldSet

\* A step books at most one run, and what it adds evaluate() has let through.
LEMMA OneBooking ==
  ASSUME IInv, [Next]_vars
  PROVE  \/ UNCHANGED booked
         \/ \E r \in Settlements :
              /\ \A q \in Settlements \ {r} : booked'[q] = booked[q]
              /\ \/ booked'[r] <= booked[r]
                 \/ /\ booked'[r] = MaxFee /\ booked[r] = 0
                    /\ Enforced => ~OverCeiling
<1> DEFINE Lowers(r) ==
      /\ \A q \in Settlements \ {r} : booked'[q] = booked[q]
      /\ booked'[r] <= booked[r]
<1> USE PipelineAssumption DEF IInv, TypeOK
<1>0. ASSUME NEW r \in Settlements
      PROVE  LedgerInv(r) /\ BookingInv(r) /\ AnswerInv(r)
  BY DEF RunInv
<1>1. ASSUME NEW r \in Settlements, NEW kind, Resolve(r, kind),
             phase[r] \in {"verify", "build"} \cup Sending
      PROVE  Lowers(r)
  <2>1. booked' = [booked EXCEPT ![r] = AfterSettle(booked[r], kind, fee[r])]
    BY <1>1 DEF Resolve
  <2>2. AfterSettle(booked[r], kind, fee[r]) <= booked[r]
    BY <1>0, <1>1 DEF AfterSettle, BookingInv
  <2> QED BY <2>1, <2>2
<1>2. ASSUME NEW r \in Settlements, Throw(r) PROVE Lowers(r)
  BY <1>2 DEF Throw
<1>3. ASSUME NEW r \in Settlements, Step(r) PROVE UNCHANGED booked \/ Lowers(r)
  <2> HIDE DEF Lowers
  <2>1. CASE VerifyFails(r)
    BY <1>1, <1>2, <2>1 DEF VerifyFails, Crash
  <2>2. CASE BuildFails(r) \/ SendRefused(r) \/ Poll(r)
    BY <1>1, <1>2, <2>2 DEF BuildFails, SendRefused, Poll, Crash, Sending
  <2>3. CASE SendTryAgain(r) \/ SendThrows(r)
    BY <1>1, <1>2, <2>3 DEF SendTryAgain, SendThrows, Crash, Sending
  <2>4. CASE SkewRetry(r) \/ SelectSigner(r) \/ PoolExhausted(r) \/ SendPending(r)
             \/ RetrySend(r) \/ Adjusted(r) \/ Registered(r) \/ RegistrationFails(r)
    BY <2>4 DEF SkewRetry, SelectSigner, PoolExhausted, SendPending, RetrySend,
       Adjusted, Registered, RegistrationFails
  <2>5. ASSUME NEW f \in 1 .. MaxFee, Built(r, f) PROVE UNCHANGED booked
    BY <2>5 DEF Built
  <2> QED BY <1>3, <2>1, <2>2, <2>3, <2>4, <2>5 DEF Step
<1>4. ASSUME NEW r \in Settlements, NEW t \in Txs, StartRun(r, t)
      PROVE  \/ UNCHANGED booked
             \/ /\ \A q \in Settlements \ {r} : booked'[q] = booked[q]
                /\ booked'[r] = MaxFee /\ booked[r] = 0
                /\ Enforced => ~OverCeiling
  BY <1>0, <1>4 DEF StartRun, RegisterRun, Refused, FlightInv, BookingInv
<1>5. ASSUME NEW r \in Settlements, Reconcile(r) PROVE Lowers(r)
  <2>1. charged[r] <= fee[r] \/ ledger[r] \notin Applied
    BY <1>0 DEF LedgerInv
  <2>2. booked[r] > 0 => booked[r] = fee[r]
    BY <1>0, <1>5 DEF Reconcile, BookingInv
  <2> QED BY <1>5, <2>1, <2>2 DEF Reconcile
<1>6. ASSUME NEW r \in Settlements, WindowElapses(r) PROVE Lowers(r)
  BY <1>6 DEF WindowElapses
<1>7. ASSUME NEW r \in Settlements,
             \/ \E t \in Txs : JoinRun(r, t)
             \/ RejectMalformed(r) \/ ReconcileGivesUp(r) \/ Apply(r)
      PROVE  UNCHANGED booked
  BY <1>7 DEF JoinRun, RejectMalformed, ReconcileGivesUp, Apply
<1>8. CASE \/ \E t \in Txs : DedupExpires(t)
           \/ \E a \in Lanes : Monitor(a)
           \/ UNCHANGED vars
  BY <1>8 DEF DedupExpires, Monitor, vars
<1> QED BY <1>3, <1>4, <1>5, <1>6, <1>7, <1>8 DEF Next

LEMMA CeilingStep == IInv /\ CeilingHolds /\ [Next]_vars => CeilingHolds'
<1> SUFFICES ASSUME IInv, CeilingHolds, [Next]_vars, Enforced
             PROVE  (WindowSpend <= Ceiling)'
  BY DEF CeilingHolds
<1> USE PipelineAssumption
<1>1. TypeOK /\ TypeOK'
  BY NextTypeOK DEF IInv
<1>2. booked \in [Settlements -> Nat] /\ booked' \in [Settlements -> Nat]
  BY <1>1 DEF TypeOK
<1>3. /\ WindowSpend = SumOf(booked, Settlements)
      /\ WindowSpend' = SumOf(booked', Settlements)
      /\ SumOf(booked, Settlements) \in Nat /\ SumOf(booked', Settlements) \in Nat
      /\ WindowSpend <= Ceiling
  <2>1. WindowSpend' = SumOf(booked', Settlements)
    BY DEF WindowSpend, SumOf, MapThenSumSet, MapThenFoldSet
  <2> QED BY <1>2, <2>1, WindowSum, SumNat DEF CeilingHolds
<1>4. CASE UNCHANGED booked
  BY <1>3, <1>4
<1>5. ASSUME NEW r \in Settlements,
             \A q \in Settlements \ {r} : booked'[q] = booked[q],
             \/ booked'[r] <= booked[r]
             \/ booked'[r] = MaxFee /\ booked[r] = 0 /\ ~OverCeiling
      PROVE  WindowSpend' <= Ceiling
  <2>1. SumOf(booked', Settlements) =
          SumOf(booked, Settlements) - booked[r] + booked'[r]
    BY <1>2, <1>5, SumChanges
  <2>2. booked[r] \in Nat /\ booked'[r] \in Nat
    BY <1>2
  <2> QED BY <1>3, <1>5, <2>1, <2>2 DEF OverCeiling
<1> QED BY <1>4, <1>5, OneBooking

\* On pubnet the stroops in the window never exceed the ceiling, for any
\* number of concurrent reservations, corrections and reconciliations.
THEOREM CeilingKept == Spec => []CeilingHolds
<1>1. Init => CeilingHolds
  <2> SUFFICES ASSUME Init PROVE SumOf(booked, Settlements) <= Ceiling
    BY WindowSum DEF CeilingHolds
  <2>1. SumOf(booked, Settlements) = 0
    BY SumZero, PipelineAssumption DEF Init
  <2> QED BY <2>1, PipelineAssumption
<1> QED BY <1>1, PipelineInvariant, CeilingStep, PTL DEF Spec

-----------------------------------------------------------------------------
(* The lanes.                                                              *)

LEMMA PipelineStepIsPoolStep == [Next]_vars => [PoolNext]_poolVars
<1> SUFFICES ASSUME [Next]_vars PROVE [PoolNext]_poolVars
  OBVIOUS
<1>1. ASSUME NEW r \in Settlements, NEW kind, Resolve(r, kind)
      PROVE  [PoolNext]_poolVars
  BY <1>1 DEF Resolve, ReleaseIfHeld, PoolNext
<1>2. ASSUME NEW r \in Settlements, Throw(r) PROVE UNCHANGED poolVars
  BY <1>2 DEF Throw
<1>3. ASSUME NEW r \in Settlements, Step(r) PROVE [PoolNext]_poolVars
  <2>1. CASE VerifyFails(r) \/ BuildFails(r) \/ SendRefused(r) \/ Poll(r)
             \/ SendTryAgain(r) \/ SendThrows(r)
    BY <1>1, <1>2, <2>1 DEF VerifyFails, BuildFails, SendRefused, Poll,
       SendTryAgain, SendThrows, Crash
  <2>2. CASE SelectSigner(r)
    BY <2>2 DEF SelectSigner, PoolNext
  <2>3. CASE SkewRetry(r) \/ PoolExhausted(r) \/ SendPending(r) \/ RetrySend(r)
             \/ Adjusted(r) \/ Registered(r) \/ RegistrationFails(r)
    BY <2>3 DEF SkewRetry, PoolExhausted, SendPending, RetrySend, Adjusted,
       Registered, RegistrationFails
  <2>4. ASSUME NEW f \in 1 .. MaxFee, Built(r, f) PROVE UNCHANGED poolVars
    BY <2>4 DEF Built
  <2> QED BY <1>3, <2>1, <2>2, <2>3, <2>4 DEF Step
<1>4. ASSUME NEW r \in Settlements,
             \/ \E t \in Txs : JoinRun(r, t) \/ StartRun(r, t)
             \/ RejectMalformed(r) \/ Reconcile(r) \/ ReconcileGivesUp(r)
             \/ Apply(r) \/ WindowElapses(r)
      PROVE  UNCHANGED poolVars
  BY <1>4 DEF JoinRun, StartRun, RejectMalformed, Reconcile, ReconcileGivesUp,
     Apply, WindowElapses
<1>5. ASSUME NEW a \in Lanes, Monitor(a) PROVE PoolNext
  BY <1>5 DEF Monitor, PoolNext
<1>6. CASE (\E t \in Txs : DedupExpires(t)) \/ UNCHANGED vars
  BY <1>6 DEF DedupExpires, vars
<1> QED BY <1>3, <1>4, <1>5, <1>6 DEF Next

\* The pipeline with its monitor implements the specification of the channel
\* pool: whatever a settle does, it takes and gives back lanes as acquire and
\* release allow.
THEOREM PipelineImplementsPool == Spec => PoolSpec
<1>1. Init => PoolInit
  BY DEF Init
<1> QED BY <1>1, PipelineStepIsPoolStep, PTL DEF Spec, PoolSpec

\* Concurrent settles never share a lane that was not disabled under one of
\* them, and no lane stays in use without a settle that holds it.
THEOREM PipelineLanesSafe == Spec => [](LaneExclusive /\ InUseHeld)
BY PipelineImplementsPool, PoolCorrect, PTL DEF PoolInv

\* A lane is held inside settle() only, and only by the exact scheme.
LaneInv ==
  \A r \in Settlements :
    lane[r] # None => phase[r] \in {"build"} \cup Sending /\ Exact(r)

LEMMA LaneStep == TypeOK /\ FlightInv /\ LaneInv /\ [Next]_vars => LaneInv'
<1> SUFFICES ASSUME TypeOK, FlightInv, LaneInv, [Next]_vars PROVE LaneInv'
  OBVIOUS
<1> USE PoolAssumption DEF TypeOK, PoolTypeOK, LaneInv, Exact, Sending, Goto, Finish
<1>1. ASSUME NEW r \in Settlements, UNCHANGED tx,
             \A q \in Settlements \ {r} : lane'[q] = lane[q] /\ phase'[q] = phase[q],
             \/ lane'[r] = None
             \/ phase'[r] \in {"build"} \cup Sending /\ Exact(r)
      PROVE  LaneInv'
  BY <1>1
<1>2. ASSUME NEW r \in Settlements, NEW kind, Resolve(r, kind) PROVE LaneInv'
  <2>1. lane'[r] = None /\ \A q \in Settlements \ {r} : lane'[q] = lane[q]
    BY <1>2 DEF Resolve, ReleaseIfHeld, Release, poolVars
  <2> QED BY <1>1, <1>2, <2>1 DEF Resolve
<1>3. ASSUME NEW r \in Settlements, Throw(r) PROVE LaneInv'
  BY <1>3 DEF Throw, poolVars
<1>4. ASSUME NEW r \in Settlements, Step(r) PROVE LaneInv'
  <2>1. CASE VerifyFails(r) \/ BuildFails(r) \/ SendRefused(r) \/ Poll(r)
             \/ SendThrows(r)
    BY <1>2, <1>3, <2>1 DEF VerifyFails, BuildFails, SendRefused, Poll,
       SendThrows, Crash
  <2>2. CASE SendTryAgain(r)
    <3>1. CASE sends[r] < SubmitRetryMax
      BY <2>2, <3>1 DEF SendTryAgain, poolVars
    <3> QED BY <2>2, <1>2, <3>1 DEF SendTryAgain
  <2>3. CASE SelectSigner(r)
    BY <2>3 DEF SelectSigner, Acquire
  <2>4. CASE PoolExhausted(r) \/ SkewRetry(r)
    BY <2>4 DEF PoolExhausted, SkewRetry, poolVars
  <2>5. ASSUME NEW f \in 1 .. MaxFee, Built(r, f) PROVE LaneInv'
    BY <2>5 DEF Built, poolVars
  <2>6. CASE SendPending(r) \/ RetrySend(r)
    BY <2>6 DEF SendPending, RetrySend, poolVars
  <2>7. CASE Adjusted(r) \/ Registered(r) \/ RegistrationFails(r)
    BY <2>7 DEF Adjusted, Registered, RegistrationFails, poolVars
  <2> QED BY <1>4, <2>1, <2>2, <2>3, <2>4, <2>5, <2>6, <2>7 DEF Step
<1>5. ASSUME NEW r \in Settlements, NEW t \in Txs, JoinRun(r, t) PROVE LaneInv'
  BY <1>5 DEF JoinRun, FlightInv, poolVars
<1>6. ASSUME NEW r \in Settlements, NEW t \in Txs, StartRun(r, t)
      PROVE  LaneInv'
  BY <1>6 DEF StartRun, RegisterRun, FlightInv, poolVars
<1>7. ASSUME NEW r \in Settlements, RejectMalformed(r) PROVE LaneInv'
  BY <1>7 DEF RejectMalformed, FlightInv, poolVars
<1>8. ASSUME NEW r \in Settlements,
             Reconcile(r) \/ ReconcileGivesUp(r) \/ Apply(r) \/ WindowElapses(r)
      PROVE  LaneInv'
  BY <1>8 DEF Reconcile, ReconcileGivesUp, Apply, WindowElapses, poolVars
<1>9. ASSUME NEW a \in Lanes, Monitor(a) PROVE LaneInv'
  BY <1>9 DEF Monitor, Disable, Enable
<1>10. CASE (\E t \in Txs : DedupExpires(t)) \/ UNCHANGED vars
  BY <1>10 DEF DedupExpires, vars, poolVars
<1> QED
  BY <1>4, <1>5, <1>6, <1>7, <1>8, <1>9, <1>10 DEF Next

\* No run is answered before it has given its lane back.
AnsweredHoldsNoLane == \A r \in Settlements : outcome[r] # None => lane[r] = None

\* Every answered settle has released its lane, on each of the paths out of
\* settle(), the exceptions included.
THEOREM LaneGivenBack == Spec => []AnsweredHoldsNoLane
<1>1. Init => LaneInv
  BY DEF Init, PoolInit, LaneInv
<1>2. IInv => TypeOK /\ FlightInv
  BY DEF IInv
<1>3. IInv /\ LaneInv => AnsweredHoldsNoLane
  BY DEF IInv, RunInv, AnswerInv, LaneInv, Sending, AnsweredHoldsNoLane
<1> QED BY <1>1, <1>2, <1>3, PipelineInvariant, LaneStep, PTL DEF Spec
=============================================================================
