-------------------------- MODULE MCSettlePipeline --------------------------
(***************************************************************************)
(* Small instances of SettlePipeline for TLC.                              *)
(***************************************************************************)
EXTENDS SettlePipeline, TLC

\* Requests are interchangeable, and run names with them.
Symmetry ==
  Permutations(Settlements)
=============================================================================
