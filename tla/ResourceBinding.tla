--------------------------- MODULE ResourceBinding ---------------------------
(***************************************************************************)
(* What the catalog promises about the owner of a resource. The binding in *)
(* the database is never given up: it grows by first settlements, and is   *)
(* replaced only by an address that the resource's own challenge names.    *)
(* The server takes an address for the owner only when one is bound; it    *)
(* changes its mind on the same proof, or when it starts again and reads   *)
(* the database. Module CatalogOwnership implements it.                    *)
(***************************************************************************)
CONSTANTS
  PayTos,     \* addresses
  Merchants,  \* the addresses the resource's own challenge names
  None

VARIABLES
  bound,      \* the addresses of the binding in the database
  proven,     \* the database says that the challenge named one of them
  owner,      \* whom the server takes for the owner
  contended   \* two first settlements overlapped

vars == <<bound, proven, owner, contended>>

Init == bound = {} /\ ~proven /\ owner = None /\ ~contended

\* The binding of a first settlement commits, although others may have.
Claim(p) ==
  /\ p \notin bound
  /\ bound' = bound \cup {p}
  /\ UNCHANGED <<proven, owner, contended>>

\* The server hears that a first binding committed; it may have been replaced by
\* then, never removed. A second one is contention.
Acknowledge(p) ==
  /\ bound # {}
  /\ owner' = p
  /\ contended' = (contended \/ owner # None)
  /\ UNCHANGED <<bound, proven>>

\* One of the bound addresses was named.
Prove ==
  /\ bound \cap Merchants # {}
  /\ proven' = TRUE
  /\ UNCHANGED <<bound, owner, contended>>

\* Nothing is displaced that was not bound, nor by an address that was not named.
Displace(p) ==
  /\ bound # {} /\ p \in Merchants
  /\ bound' = {p} /\ proven' = TRUE
  /\ UNCHANGED <<owner, contended>>

\* The server hears of a displacement, which another may have followed.
TakeOver(p) ==
  /\ bound \cap Merchants # {} /\ p \in Merchants
  /\ owner' = p
  /\ UNCHANGED <<bound, proven, contended>>

\* The server starts again: an address that is bound, or none if it cannot read.
Recover ==
  /\ owner' \in bound \cup {None}
  /\ UNCHANGED <<bound, proven, contended>>

Next ==
  \/ \E p \in PayTos : Claim(p) \/ Acknowledge(p) \/ Displace(p) \/ TakeOver(p)
  \/ Prove \/ Recover

Spec == Init /\ [][Next]_vars
=============================================================================
