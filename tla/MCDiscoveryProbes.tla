--------------------------- MODULE MCDiscoveryProbes -------------------------
(* One asset, an account that needs a trustline for it, and a contract.      *)
EXTENDS DiscoveryProbes

CONSTANTS r1, r2, account, contract

MCAssetOf(o) == CHOOSE a \in Assets : TRUE
MCKindOf(a) == "classic"
MCIsContract(o) == o = contract
MCPage(r) == IF r = r1 THEN <<account, contract>> ELSE <<account>>
=============================================================================
