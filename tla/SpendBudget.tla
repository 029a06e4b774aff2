------------------------------ MODULE SpendBudget ------------------------------
(***************************************************************************)
(* What SpendPolicy of src/policy.ts promises about the sponsor's spend,   *)
(* whatever its store does: a budget of entries, one per settle, each      *)
(* booked at its estimate under the ceiling, lowered or released by its    *)
(* own settle, and dropped when its window has elapsed.  A restart forgets *)
(* entries or brings some back as they once were; it never makes one up.   *)
(* Module SpendLedger implements it.                                       *)
(***************************************************************************)
EXTENDS Integers, Functions

CONSTANTS
  Owners,     \* the settles
  Estimate,   \* perSettleEstimateStroops
  Ceiling,    \* spendCeilingStroops
  Window,     \* spendWindowMs
  Enforced    \* pubnet: the ceiling refuses a settle

VARIABLES
  now,
  booked,     \* the entries [owner, at, stroops] the budget counts
  past        \* every entry it has ever counted

vars == <<now, booked, past>>

Live(entries) ==
  {e \in entries : e.at > now - Window}

Total(entries) == SumFunction([e \in entries |-> e.stroops])

Init ==
  /\ now \in Nat
  /\ booked = {}
  /\ past = {}

Book(o) ==
  LET entry == [owner |-> o, at |-> now, stroops |-> Estimate]
  IN  /\ \A e \in past : e.owner # o
      /\ Enforced => Total(Live(booked)) + Estimate <= Ceiling
      /\ \E kept \in {booked, Live(booked)} : booked' = kept \cup {entry}
      /\ past' = past \cup {entry}
      /\ UNCHANGED now

Correct ==
  \E e \in booked, s \in 0..Estimate :
    LET entry == [e EXCEPT !.stroops = s]
    IN  /\ s <= e.stroops
        /\ booked' = (booked \ {e}) \cup {entry}
        /\ past' = past \cup {entry}
        /\ UNCHANGED now

Release ==
  /\ \E e \in booked : booked' = booked \ {e}
  /\ UNCHANGED <<now, past>>

Prune ==
  /\ booked' = Live(booked)
  /\ UNCHANGED <<now, past>>

Restart ==
  /\ booked' \subseteq Live(past)
  /\ \A e, f \in booked' : e.owner = f.owner => e = f
  /\ UNCHANGED <<now, past>>

Tick ==
  /\ now' = now + 1
  /\ UNCHANGED <<booked, past>>

Next ==
  \/ \E o \in Owners : Book(o)
  \/ Correct \/ Release \/ Prune \/ Restart \/ Tick

Spec == Init /\ [][Next]_vars
=============================================================================
