-------------------------- MODULE MCCatalogOwnership --------------------------
(***************************************************************************)
(* Small instances of CatalogOwnership for TLC.                            *)
(***************************************************************************)
EXTENDS CatalogOwnership, TLC

\* Settlements are interchangeable, and so are the addresses on one side of the
\* resource's challenge.
Symmetry ==
  Permutations(Hooks) \cup Permutations(Merchants)
    \cup Permutations(PayTos \ Merchants)
=============================================================================
