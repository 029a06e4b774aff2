--------------------------- MODULE MCSellerRoute ---------------------------
(* The worlds of the seller: a healthy one, each of its settings wrong, and  *)
(* the facilitators it may boot against.                                     *)
EXTENDS SellerRoute

Base ==
  [network |-> "testnet", passphrase |-> "testnet", asset |-> USDC("testnet"),
   allowToken |-> FALSE, url |-> "public", localFacilitator |-> FALSE,
   override |-> FALSE, skip |-> FALSE, payee |-> "payable", rpcUp |-> TRUE,
   rpcSteady |-> TRUE, warmFor |-> 0, readyAt |-> 0, limitedUntil |-> 0]

OnPubnet == [Base EXCEPT !.network = "pubnet", !.passphrase = "pubnet"]

Settings ==
  {Base, OnPubnet,
   [Base EXCEPT !.network = "unknown"],
   [Base EXCEPT !.passphrase = "pubnet"],
   [Base EXCEPT !.asset = USDC("pubnet")],
   [OnPubnet EXCEPT !.asset = <<"token", "pubnet">>],
   [OnPubnet EXCEPT !.asset = <<"token", "pubnet">>, !.allowToken = TRUE],
   [Base EXCEPT !.url = "private"],
   [Base EXCEPT !.url = "fdName"],
   [Base EXCEPT !.url = "http", !.localFacilitator = TRUE],
   [Base EXCEPT !.url = "http", !.override = TRUE]}

Merchants ==
  {[Base EXCEPT !.payee = p, !.rpcUp = u, !.rpcSteady = s, !.skip = k] :
     p \in {"payable", "malformed", "missing", "noTrustline"},
     u \in BOOLEAN, s \in BOOLEAN, k \in BOOLEAN}

Facilitators ==
  {[Base EXCEPT !.readyAt = a, !.limitedUntil = b] :
     a \in {0, 10, 14, 15, 30, 40}, b \in {0, 20, 30, 60}}

MCWorlds == Settings \cup Merchants \cup Facilitators
=============================================================================
