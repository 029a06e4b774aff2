---------------------------- MODULE MCUptoSettlement ----------------------------
(***************************************************************************)
(* A small instance of UptoSettlement for TLC.                             *)
(***************************************************************************)
EXTENDS UptoSettlement, TLC

CONSTANTS b, m, n1, n2

Auth(max, exp, nonce) ==
  [from |-> b, to |-> m, max |-> max, exp |-> exp, nonce |-> nonce]

\* Two ceilings under one nonce that expire one after the other, and a third.
SignedAuths == {Auth(2, 1, n1), Auth(1, 2, n1), Auth(1, 1, n2)}

Symmetry == Permutations(Requests)
=============================================================================
