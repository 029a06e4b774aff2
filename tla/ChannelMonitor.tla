--------------------------- MODULE ChannelMonitor ---------------------------
(***************************************************************************)
(* The balance monitor of src/channelMonitor.ts over the channel pool. A   *)
(* pass checks the accounts one after the other, awaiting each balance; an *)
(* interval timer starts a pass whether or not the one before has ended,   *)
(* so passes overlap and a balance that was read early may be applied      *)
(* late. Everything after the await of checkOne is one synchronous step.   *)
(*                                                                         *)
(* The accounts' real balances are the environment's: the model keeps only *)
(* whether each is below the floor. stop() is not modelled: it runs when   *)
(* the process ends.                                                       *)
(***************************************************************************)
EXTENDS ChannelPool, Sequences

CONSTANTS
  Order,          \* the addresses in the order checkAll visits them
  Passes,         \* bound: passes that may overlap
  FailureLimit,   \* CONSECUTIVE_FAILURE_LIMIT
  MaxFailures     \* bound: the failure counters stop here

ASSUME MonitorAssumption ==
  /\ Order \in Seq(Lanes)
  /\ \A a \in Lanes : \E i \in 1 .. Len(Order) : Order[i] = a
  /\ FailureLimit \in Nat \ {0}
  /\ MaxFailures \in Nat /\ MaxFailures >= FailureLimit

VARIABLES
  low,                \* the accounts whose real balance is below the floor
  pass,               \* per pass: the index in Order it awaits, 0 when idle
  reading,            \* per pass: what fetchBalanceStroops will resolve to
  failures,           \* consecutive failed checks
  disabledByMonitor   \* what the monitor believes it has disabled

monitorVars == <<pass, reading, failures, disabledByMonitor>>
monitoredVars == <<poolVars, monitorVars, low>>

\* "unsent": Horizon has not answered yet. "failed": an error or NaN.
Readings == {"unsent", "low", "healthy", "failed"}

MonitorInit ==
  /\ PoolInit
  /\ low \in SUBSET Lanes
  /\ pass = [p \in Passes |-> 0]
  /\ reading = [p \in Passes |-> "unsent"]
  /\ failures = [a \in Lanes |-> 0]
  /\ disabledByMonitor = {}

-----------------------------------------------------------------------------
(* The monitor.                                                            *)

\* start() and the interval: a pass begins with the first address.
StartPass(p) ==
  /\ pass[p] = 0
  /\ Len(Order) > 0
  /\ pass' = [pass EXCEPT ![p] = 1]
  /\ UNCHANGED <<poolVars, reading, failures, disabledByMonitor, low>>

\* Horizon answers the outstanding request, now, with the balance it has now.
Fetch(p) ==
  /\ pass[p] # 0
  /\ reading[p] = "unsent"
  /\ \E r \in {IF Order[pass[p]] \in low THEN "low" ELSE "healthy", "failed"} :
       reading' = [reading EXCEPT ![p] = r]
  /\ UNCHANGED <<poolVars, pass, failures, disabledByMonitor, low>>

\* The loop of checkAll goes on to the next address, or the pass ends.
Advance(p) ==
  /\ pass' = [pass EXCEPT ![p] = IF @ = Len(Order) THEN 0 ELSE @ + 1]
  /\ reading' = [reading EXCEPT ![p] = "unsent"]

\* pool.disable() with the monitor's own mark.
Withdraw(a) ==
  /\ Disable(a)
  /\ disabledByMonitor' = disabledByMonitor \cup {a}

\* pool.enable() and the mark taken off.
Reinstate(a) ==
  /\ Enable(a)
  /\ disabledByMonitor' = disabledByMonitor \ {a}

\* Mutant of ApplyBalance: a lane that is withdrawn is never looked at again.
ApplyBalanceOnce(a, belowFloor) ==
  /\ failures' = [failures EXCEPT ![a] = 0]
  /\ IF belowFloor /\ a \notin disabledByMonitor THEN Withdraw(a)
     ELSE UNCHANGED <<poolVars, disabledByMonitor>>

\* checkOne after a balance was read.
ApplyBalance(a, belowFloor) ==
  /\ failures' = [failures EXCEPT ![a] = 0]
  /\ IF belowFloor /\ a \notin disabledByMonitor THEN Withdraw(a)
     ELSE IF ~belowFloor /\ a \in disabledByMonitor THEN Reinstate(a)
     ELSE UNCHANGED <<poolVars, disabledByMonitor>>

\* recordFailure: the FailureLimit-th failure in a row withdraws the lane. The
\* counter is capped at MaxFailures, beyond which it is no longer told apart.
RecordFailure(a) ==
  LET count == failures[a] + 1
  IN  /\ failures' = [failures EXCEPT ![a] =
                        IF count <= MaxFailures THEN count ELSE @]
      /\ IF count >= FailureLimit /\ a \notin disabledByMonitor
         THEN Withdraw(a)
         ELSE UNCHANGED <<poolVars, disabledByMonitor>>

\* The await of checkOne resumes with its answer.
ApplyReading(p) ==
  /\ pass[p] # 0
  /\ reading[p] # "unsent"
  /\ IF reading[p] = "failed" THEN RecordFailure(Order[pass[p]])
     ELSE ApplyBalance(Order[pass[p]], reading[p] = "low")
  /\ Advance(p)
  /\ UNCHANGED low

-----------------------------------------------------------------------------
(* Settlements and the accounts themselves.                                *)

Settle(s) == (Acquire(s) \/ Release(s)) /\ UNCHANGED <<monitorVars, low>>

\* An account is drained below the floor or funded above it.
BalanceCrosses(a) ==
  /\ low' = IF a \in low THEN low \ {a} ELSE low \cup {a}
  /\ UNCHANGED <<poolVars, monitorVars>>

MonitorNext ==
  \/ \E p \in Passes : StartPass(p) \/ Fetch(p) \/ ApplyReading(p)
  \/ \E s \in Settlements : Settle(s)
  \/ \E a \in Lanes : BalanceCrosses(a)

MonitorSpec == MonitorInit /\ [][MonitorNext]_monitoredVars

\* The interval timer keeps firing and every request to Horizon is answered or
\* fails. Nothing is assumed of settlements or of the accounts' balances.
MonitorFairSpec ==
  /\ MonitorSpec
  /\ \A p \in Passes :
       WF_monitoredVars(StartPass(p)) /\ WF_monitoredVars(Fetch(p)) /\ WF_monitoredVars(ApplyReading(p))

-----------------------------------------------------------------------------
(* Properties.                                                             *)

\* The monitor's variables have the types of the Map, the Set and the loop.
MonitorTypeOK ==
  /\ PoolTypeOK
  /\ low \subseteq Lanes
  /\ pass \in [Passes -> 0 .. Len(Order)]
  /\ reading \in [Passes -> Readings]
  /\ failures \in [Lanes -> 0 .. MaxFailures]
  /\ disabledByMonitor \subseteq Lanes

\* A lane whose account stays below the floor is withdrawn in the end and stays
\* so, although a pass may first re-enable it from a balance read long before.
LowLaneWithdrawn ==
  \A a \in Lanes : <>[](a \in low) => <>[](a \in disabled)

HealthyReading(a) ==
  \E p \in Passes :
    pass[p] # 0 /\ Order[pass[p]] = a /\ reading[p] = "healthy"

\* A lane whose account is funded comes back into rotation every time its
\* balance is read, however often checks failed in between.
FundedLaneReturns ==
  \A a \in Lanes : []<>HealthyReading(a) => []<>(a \notin disabled)

\* Rotation follows the accounts' balances in both directions, with passes that
\* overlap, readings that arrive late and checks that fail in between.
RotationFollowsBalances == LowLaneWithdrawn /\ FundedLaneReturns
=============================================================================
