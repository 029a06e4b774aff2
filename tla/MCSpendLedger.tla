----------------------------- MODULE MCSpendLedger -----------------------------
(***************************************************************************)
(* Small instances of SpendLedger for TLC.                                 *)
(***************************************************************************)
EXTENDS SpendLedger, TLC

\* Requests are interchangeable.
Symmetry == Permutations(Requests)
=============================================================================
