----------------------------- MODULE ChannelPool -----------------------------
(***************************************************************************)
(* The channel-account pool of src/channelPool.ts, as its users see it: a  *)
(* fixed set of lanes, each available, in use or disabled, and settlements *)
(* that hold at most one lane each. Every method is synchronous, so each   *)
(* is one action. This is the abstract specification that ChannelMonitor   *)
(* (which decides when to disable and enable) and SettlePipeline (which    *)
(* decides when to acquire and release) implement.                         *)
(*                                                                         *)
(* acquire() returns the first address of a Set in insertion order. No     *)
(* property depends on which one it is: the choice is left open.           *)
(***************************************************************************)
EXTENDS Integers, FiniteSets

CONSTANTS
  Lanes,        \* the channel-account addresses given to the constructor
  Settlements,  \* concurrent settle() calls
  None          \* no lane

ASSUME PoolAssumption == None \notin Lanes

VARIABLES
  available, inUse, disabled,  \* the three private Sets
  lane,                        \* the local variable acquiredAddress, per call
  revoked                      \* history: lanes disabled while they were held

poolVars == <<available, inUse, disabled, lane, revoked>>

PoolInit ==
  /\ available = Lanes
  /\ inUse = {}
  /\ disabled = {}
  /\ lane = [s \in Settlements |-> None]
  /\ revoked = {}

HeldBy(a) == {s \in Settlements : lane[s] = a}

Held == {a \in Lanes : HeldBy(a) # {}}

-----------------------------------------------------------------------------
(* The methods.                                                            *)

\* Mutant of Acquire: the address is not deleted from the available set.
AcquireKeeps(s) ==
  /\ lane[s] = None
  /\ \E a \in available :
       /\ inUse' = inUse \cup {a}
       /\ lane' = [lane EXCEPT ![s] = a]
  /\ UNCHANGED <<available, disabled, revoked>>

\* acquire(); on an empty available set it throws and nothing changes.
Acquire(s) ==
  /\ lane[s] = None
  /\ \E a \in available :
       /\ available' = available \ {a}
       /\ inUse' = inUse \cup {a}
       /\ lane' = [lane EXCEPT ![s] = a]
  /\ UNCHANGED <<disabled, revoked>>

Exhausted == available = {}

\* The effect of release(a) on the three sets, without its guard on disabled.
ReturnLane(a) ==
  /\ inUse' = inUse \ {a}
  /\ available' = available \cup {a}

\* release(a), for a member of the pool: a disabled lane stays disabled.
ReleaseEffect(a) ==
  IF a \in disabled THEN UNCHANGED <<inUse, available>> ELSE ReturnLane(a)

\* Mutant of Release: the call ends without giving its lane back.
ReleaseForgotten(s) ==
  /\ lane[s] # None
  /\ lane' = [lane EXCEPT ![s] = None]
  /\ UNCHANGED <<available, inUse, disabled, revoked>>

\* The finally block of a settle() call that holds a lane.
Release(s) ==
  /\ lane[s] # None
  /\ ReleaseEffect(lane[s])
  /\ lane' = [lane EXCEPT ![s] = None]
  /\ UNCHANGED <<disabled, revoked>>

Disable(a) ==
  /\ available' = available \ {a}
  /\ inUse' = inUse \ {a}
  /\ disabled' = disabled \cup {a}
  /\ revoked' = IF HeldBy(a) # {} THEN revoked \cup {a} ELSE revoked
  /\ UNCHANGED lane

\* enable(a) of an address that is not disabled is a no-op.
Enable(a) ==
  /\ a \in disabled
  /\ disabled' = disabled \ {a}
  /\ available' = available \cup {a}
  /\ UNCHANGED <<inUse, lane, revoked>>

PoolNext ==
  \/ \E s \in Settlements : Acquire(s)
  \/ \E s \in Settlements : Release(s)
  \/ \E a \in Lanes : Disable(a)
  \/ \E a \in Lanes : Enable(a)

PoolSpec == PoolInit /\ [][PoolNext]_poolVars

-----------------------------------------------------------------------------
(* Properties.                                                             *)

\* The three sets hold addresses of the pool, and a call holds one or none.
PoolTypeOK ==
  /\ available \subseteq Lanes
  /\ inUse \subseteq Lanes
  /\ disabled \subseteq Lanes
  /\ lane \in [Settlements -> Lanes \cup {None}]
  /\ revoked \subseteq Lanes

\* "Each in exactly one of three states at any time": the sets partition the
\* addresses given at construction, so the pool never grows, shrinks or offers
\* a disabled lane, in any order of release, disable and enable.
StatesPartition ==
  /\ available \cup inUse \cup disabled = Lanes
  /\ available \cap inUse = {}
  /\ available \cap disabled = {}
  /\ inUse \cap disabled = {}

\* A lane that was never disabled under a settlement in flight is an
\* independent sequence-number lane: at most one settlement holds it, and it
\* is not handed out again while that one does.
LaneExclusive ==
  \A a \in Lanes \ revoked :
    /\ \A s, t \in HeldBy(a) : s = t
    /\ a \in available => HeldBy(a) = {}

\* No lane is lost: every lane that is in use is held by a call that will
\* release it, whatever disable and enable did to it in between.
InUseHeld == inUse \subseteq Held
=============================================================================
