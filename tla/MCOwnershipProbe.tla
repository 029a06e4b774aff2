-------------------------- MODULE MCOwnershipProbe --------------------------
(* The worlds and resources of OwnershipProbe: a seller with one setting     *)
(* wrong or against facilitators of every readiness, and other servers.      *)
EXTENDS OwnershipProbe

Base ==
  [network |-> "testnet", passphrase |-> "testnet", asset |-> USDC("testnet"),
   allowToken |-> FALSE, url |-> "public", localFacilitator |-> FALSE,
   override |-> FALSE, skip |-> FALSE, payee |-> "payable", rpcUp |-> TRUE,
   rpcSteady |-> TRUE, warmFor |-> 0, readyAt |-> 0, limitedUntil |-> 0,
   payTo |-> "m"]

\* the seller's third attempt succeeds when the third probe times out
LastInstant == [Base EXCEPT !.warmFor = 44, !.limitedUntil = 100]

MCWorlds ==
  {[Base EXCEPT !.warmFor = w, !.readyAt = a, !.limitedUntil = b] :
     w \in {0, 45, 60, 90}, a \in {0, 14, 30, 40}, b \in {0, 30, 60}}
  \cup {[Base EXCEPT !.payee = "noTrustline"], [Base EXCEPT !.url = "http"],
        LastInstant}

MCPayTos == {"m", "s"}

OurSite ==
  [seller |-> TRUE, https |-> TRUE, addresses |-> {"public"}, valid |-> TRUE,
   sound |-> TRUE, slow |-> FALSE, claims |-> {"m"}]

MCSites ==
  {[OurSite EXCEPT !.claims = c, !.valid = v, !.slow = l, !.sound = f] :
     c \in SUBSET MCPayTos, v \in BOOLEAN, l \in BOOLEAN, f \in BOOLEAN}
  \cup
  {[OurSite EXCEPT !.seller = f, !.https = h, !.addresses = a, !.claims = c] :
     f \in BOOLEAN, h \in BOOLEAN, a \in SUBSET {"public", "blocked"},
     c \in {{"m"}, {"m", "s"}}}
=============================================================================
