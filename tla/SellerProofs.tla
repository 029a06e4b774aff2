---------------------------- MODULE SellerProofs ----------------------------
(***************************************************************************)
(* Theorems about the example seller and the probe of its ownership, for   *)
(* any number of requests, payments, configurations and resources.         *)
(***************************************************************************)
EXTENDS OwnershipProbe, TLAPS

USE DEF bootVars, routeVars, chainVars

-----------------------------------------------------------------------------
(* The routes.                                                             *)

\* No class of a parameter is let through by validate and fails buildResult.
Disjoint(route) ==
  \A p \in DOMAIN route.params :
    route.params[p].accepts \cap route.params[p].throws = {}

LEMMA ParsedDisjoint == Parsed.accepts \cap Parsed.throws = {}
BY DEF Parsed, Param, requireStringParam, Classes

LEMMA TextDisjoint == Text.accepts \cap Text.throws = {}
BY DEF Text, Param, requireStringParam, Classes

LEMMA RoutesDisjoint == \A route \in Routes : Disjoint(route)
<1> USE DEF Disjoint, Param, Pure, Asking, requireStringParam, Classes
<1>1. Disjoint(Quote) /\ Disjoint(Inspect) /\ Disjoint(Stroops)
  BY DEF Quote, Inspect, Stroops
<1>2. Disjoint(Hash) /\ Disjoint(WordCount) /\ Disjoint(Markdown)
  BY TextDisjoint DEF Hash, WordCount, Markdown
<1>3. Disjoint(Timestamp) /\ Disjoint(Uuid)
  BY DEF Timestamp, Uuid
<1>4. Disjoint(Base64) /\ Disjoint(Qr) /\ Disjoint(Lorem)
  BY DEF Base64, Qr, Lorem
<1>5. Disjoint(Color) /\ Disjoint(Cron)
  BY ParsedDisjoint DEF Color, Cron
<1>6. Disjoint(Diff) /\ Disjoint(Weather)
  BY TextDisjoint DEF Diff, Weather
<1>7. Disjoint(Regex)
  BY TextDisjoint DEF Regex
<1>8. Disjoint(Csv) /\ Disjoint(Password)
  BY DEF Csv, Password
<1>9. Disjoint(Units)
  BY ParsedDisjoint DEF Units
<1> QED
  BY <1>1, <1>2, <1>3, <1>4, <1>5, <1>6, <1>7, <1>8, <1>9, Zenon DEF Routes

\* An input that validate lets through fails buildResult on no route.
LEMMA AcceptedNeverThrows == \A input \in Inputs : input.valid => ~ input.throws
<1>1. ASSUME NEW route \in Routes, NEW query \in Queries(route),
             Validates(route, query)
      PROVE  ~ Throws(route, query)
  BY <1>1, RoutesDisjoint DEF Disjoint, Validates, Throws
<1>2. ASSUME NEW input \in Inputs
      PROVE  \E route \in Routes : \E query \in Queries(route) :
               /\ input.valid = Validates(route, query)
               /\ input.throws = Throws(route, query)
  BY <1>2 DEF Inputs, InputsOf
<1> QED BY <1>1, <1>2

-----------------------------------------------------------------------------
(* Types. The steps of the seller are taken by its own specification and   *)
(* by the one it is composed into.                                         *)

Stages == {"idle", "verifying", "settling", "building", "answered"}
Replies == [kind : Kinds, body : Bodies]

\* A handler that runs or has answered knows what it was asked.
AskedInv == \A r \in Requests : stage[r] # "idle" => asked[r] \in Asks

TypeInv == TypeOK /\ AskedInv

LEMMA BootType ==
  ASSUME TypeInv, BootStep PROVE TypeInv'
<1>1. UNCHANGED <<world, clock, routeVars, chainVars>>
  BY DEF BootStep, BootGoes, CheckConfig, GetAccount, SimulateBalance, Warm,
         Initialized, GiveUp, Retry
<1>2. boot' \in {"config", "account", "trustline", "warming", "trying",
                 "serving", "exited"}
  BY DEF TypeInv, TypeOK, BootStep, BootGoes, CheckConfig, GetAccount,
         SimulateBalance, Warm, Initialized, GiveUp, Retry
<1>3. wakeAt' \in Nat
  BY SellerAssumption
  DEF TypeInv, TypeOK, BootStep, BootGoes, CheckConfig, GetAccount,
      SimulateBalance, Warm, Initialized, GiveUp, Retry, WaitLimited,
      WaitBackoff, RATE_WINDOW
<1>4. attempt' \in 1 .. MAX_BOOT_ATTEMPTS
  BY DEF TypeInv, TypeOK, BootStep, BootGoes, CheckConfig, GetAccount,
         SimulateBalance, Warm, Initialized, GiveUp, Retry, MAX_BOOT_ATTEMPTS
<1>5. delay' \in {2, 4, 8, 16, 30}
  BY DEF TypeInv, TypeOK, BootStep, BootGoes, CheckConfig, GetAccount,
         SimulateBalance, Warm, Initialized, GiveUp, Retry, WaitLimited,
         WaitBackoff, NextDelay
<1> QED BY <1>1, <1>2, <1>3, <1>4, <1>5 DEF TypeInv, TypeOK, AskedInv

LEMMA RouteTypes ==
  ASSUME TypeInv
  PROVE  /\ stage \in [Requests -> Stages]
         /\ asked \in [Requests -> Asks \cup {None}]
         /\ answer \in [Requests -> Replies \cup {None}]
BY DEF TypeInv, TypeOK, Stages, Replies

\* What the two ways to leave an await do to the request.
LEMMA ContinueEffect ==
  ASSUME TypeInv, NEW r \in Requests, NEW next \in Stages, Continue(r, next)
  PROVE  /\ stage' \in [Requests -> Stages] /\ stage'[r] = next
         /\ \A other \in Requests \ {r} : stage'[other] = stage[other]
         /\ UNCHANGED answer
BY DEF Continue, Stages, TypeInv, TypeOK

LEMMA FinishEffect ==
  ASSUME TypeInv, NEW r \in Requests, NEW reply \in Replies, Finish(r, reply)
  PROVE  /\ stage' \in [Requests -> Stages] /\ stage'[r] = "answered"
         /\ answer' \in [Requests -> Replies \cup {None}] /\ answer'[r] = reply
         /\ \A other \in Requests \ {r} :
              stage'[other] = stage[other] /\ answer'[other] = answer[other]
BY DEF Finish, Stages, Replies, TypeInv, TypeOK

\* Request r is answered with this kind and body, and nobody else is.
Answering(r, kind, body) ==
  /\ stage' \in [Requests -> Stages] /\ stage'[r] = "answered"
  /\ answer' \in [Requests -> Replies \cup {None}]
  /\ answer'[r].kind = kind /\ answer'[r].body = body
  /\ \A other \in Requests \ {r} :
       stage'[other] = stage[other] /\ answer'[other] = answer[other]

LEMMA Replied ==
  ASSUME TypeInv, NEW r \in Requests, NEW kind \in Kinds, NEW body \in Bodies,
         Finish(r, Reply(kind, body))
  PROVE  Answering(r, kind, body)
<1>1. /\ Reply(kind, body) \in Replies
      /\ Reply(kind, body).kind = kind /\ Reply(kind, body).body = body
  BY DEF Reply, Replies
<1> QED BY <1>1, FinishEffect DEF Answering

LEMMA Relayed ==
  ASSUME TypeInv, NEW r \in Requests, NEW kind \in Kinds, NEW body \in Bodies,
         Finish(r, Relay(kind, body))
  PROVE  Answering(r, kind, "full")
<1>1. "full" \in Bodies /\ (~ emptyish(body) => body = "full")
  BY DEF Bodies, emptyish
<1>2. Relay(kind, body) = Reply(kind, "full")
  BY <1>1 DEF Relay
<1> QED BY <1>1, <1>2, Replied

LEMMA Names ==
  /\ {"verifying", "settling", "building"} \subseteq Stages
  /\ {"null", "{}", "full"} \subseteq Bodies
  /\ {"invalid_input", "error", "challenge", "note", "verify", "settle",
      "settle-threw", "handler_failed", "result"} \subseteq Kinds
BY DEF Stages, Bodies, Kinds

\* Where a handler may be after its request r has moved.
Moved(r) ==
  /\ \A other \in Requests \ {r} :
       /\ stage'[other] = stage[other] /\ answer'[other] = answer[other]
       /\ asked'[other] = asked[other]
  /\ stage' \in [Requests -> Stages]
  /\ answer' \in [Requests -> Replies \cup {None}]

ReceiveEffect(r, ask) ==
  /\ Moved(r) /\ asked'[r] = ask /\ boot = "serving"
  /\ asked' \in [Requests -> Asks \cup {None}]
  /\ \/ /\ stage'[r] = "verifying"
        /\ ask.input.valid \/ ask.pay = None
     \/ /\ stage'[r] = "answered"
        /\ answer'[r].kind = "invalid_input" /\ answer'[r].body = "full"

LEMMA ReceiveMoves ==
  ASSUME TypeInv, NEW r \in Requests, NEW ask \in Asks, Receive(r, ask)
  PROVE  ReceiveEffect(r, ask)
<1>0. /\ boot = "serving" /\ asked' = [asked EXCEPT ![r] = ask]
      /\ "verifying" \in Stages
  BY DEF Receive, Stages
<1>1. CASE ask.input.valid \/ isOwnershipProbe(ask)
  <2>1. Continue(r, "verifying")
    BY <1>1 DEF Receive
  <2> QED
    BY <1>1, <2>1, <1>0, ContinueEffect, RouteTypes
    DEF ReceiveEffect, Moved, isOwnershipProbe
<1>2. CASE ~ (ask.input.valid \/ isOwnershipProbe(ask))
  <2>1. Finish(r, Reply("invalid_input", "full"))
    BY <1>2 DEF Receive
  <2>2. Answering(r, "invalid_input", "full")
    BY <2>1, Replied, Names
  <2> QED BY <1>0, <2>2, RouteTypes DEF ReceiveEffect, Moved, Answering
<1> QED BY <1>1, <1>2

ProcessEffect(r) ==
  /\ Moved(r) /\ stage[r] = "verifying"
  /\ \/ /\ stage'[r] = "answered" /\ UNCHANGED handedOver
        /\ answer'[r].kind \in {"error", "challenge", "verify", "note"}
        /\ asked[r].pay # None => answer'[r].body = "full"
     \/ /\ stage'[r] = "settling" /\ asked[r].pay # None
        /\ handedOver' = handedOver \cup {asked[r].pay}

LEMMA ProcessMoves ==
  ASSUME TypeInv, NEW r \in Requests, Process(r)
  PROVE  ProcessEffect(r)
<1> USE DEF ProcessEffect, Moved
<1>0. stage[r] = "verifying" /\ UNCHANGED asked
  BY DEF Process
<1>1. CASE ProcessThrows(r) /\ UNCHANGED handedOver
  <2>1. Answering(r, "error", "full")
    BY <1>1, Replied, Names DEF ProcessThrows
  <2> QED BY <1>0, <1>1, <2>1 DEF Answering
<1>2. CASE PaymentError(r) /\ UNCHANGED handedOver
  <2>1. PICK body \in Bodies :
          Finish(r, IF asked[r].pay = None
                      THEN Reply("challenge", IF body = "null" THEN "{}" ELSE body)
                      ELSE Relay("verify", body))
    BY <1>2 DEF PaymentError
  <2>2. CASE asked[r].pay = None
    <3>1. PICK b \in Bodies : Finish(r, Reply("challenge", b))
      BY <2>1, <2>2, Names
    <3>2. Answering(r, "challenge", b)
      BY <3>1, Replied, Names
    <3> QED BY <1>0, <1>2, <2>2, <3>2 DEF Answering
  <2>3. CASE asked[r].pay # None
    <3>1. Answering(r, "verify", "full")
      BY <2>1, <2>3, Relayed, Names
    <3> QED BY <1>0, <1>2, <3>1 DEF Answering
  <2> QED BY <2>2, <2>3
<1>3. CASE NoPaymentRequired(r) /\ UNCHANGED handedOver
  <2>1. Answering(r, "note", "full")
    BY <1>3, Replied, Names DEF NoPaymentRequired
  <2> QED BY <1>0, <1>3, <2>1 DEF Answering
<1>4. CASE Verified(r) /\ handedOver' = handedOver \cup {asked[r].pay}
  BY <1>0, <1>4, ContinueEffect, RouteTypes, Names DEF Verified
<1> QED BY <1>1, <1>2, <1>3, <1>4 DEF Process

SettleEffect(r) ==
  /\ Moved(r) /\ stage[r] = "settling"
  /\ \/ stage'[r] = "building" /\ asked[r].pay \in charged
     \/ /\ stage'[r] = "answered"
        /\ answer'[r].kind \in {"settle", "settle-threw"}
        /\ answer'[r].body = "full"

LEMMA SettleMoves ==
  ASSUME TypeInv, NEW r \in Requests, Settle(r)
  PROVE  SettleEffect(r)
<1> USE DEF SettleEffect, Moved
<1>0. stage[r] = "settling" /\ UNCHANGED asked
  BY DEF Settle
<1>1. CASE SettleSucceeds(r)
  BY <1>0, <1>1, ContinueEffect, RouteTypes, Names DEF SettleSucceeds
<1>2. CASE SettleThrows(r)
  <2>1. Answering(r, "settle-threw", "full")
    BY <1>2, Relayed, Names DEF SettleThrows
  <2> QED BY <1>0, <2>1 DEF Answering
<1>3. CASE SettleFails(r)
  <2>1. Answering(r, "settle", "full")
    BY <1>3, Relayed, Names DEF SettleFails
  <2> QED BY <1>0, <2>1 DEF Answering
<1> QED BY <1>1, <1>2, <1>3 DEF Settle

BuildEffect(r) ==
  /\ Moved(r) /\ stage[r] = "building"
  /\ stage'[r] = "answered" /\ answer'[r].body = "full"
  /\ \/ answer'[r].kind = "result"
     \/ /\ answer'[r].kind = "handler_failed"
        /\ asked[r].input.throws \/ asked[r].input.upstream

LEMMA BuildMoves ==
  ASSUME TypeInv, NEW r \in Requests, Build(r)
  PROVE  BuildEffect(r)
<1> USE DEF BuildEffect, Moved
<1>0. stage[r] = "building" /\ UNCHANGED asked
  BY DEF Build
<1>1. CASE BuildFails(r)
  <2>1. Answering(r, "handler_failed", "full")
    BY <1>1, Replied, Names DEF BuildFails
  <2> QED BY <1>0, <1>1, <2>1 DEF Answering, BuildFails
<1>2. CASE BuildReturns(r)
  <2>1. Answering(r, "result", "full")
    BY <1>2, Replied, Names DEF BuildReturns
  <2> QED BY <1>0, <2>1 DEF Answering
<1> QED BY <1>1, <1>2 DEF Build

RouteStep(r) ==
  (\E ask \in Asks : Receive(r, ask)) \/ Process(r) \/ Settle(r) \/ Build(r)

LEMMA RouteFrame ==
  ASSUME NEW r \in Requests, RouteStep(r)
  PROVE  /\ UNCHANGED <<world, bootVars, charged>>
         /\ (\E ask \in Asks : Receive(r, ask)) \/ UNCHANGED asked
         /\ Process(r) \/ UNCHANGED handedOver
BY DEF RouteStep, Receive, Process, Settle, Build

LEMMA RouteType ==
  ASSUME TypeInv, NEW r \in Requests, RouteStep(r)
  PROVE  TypeInv'
<1>1. Moved(r) /\ asked' \in [Requests -> Asks \cup {None}]
  BY RouteFrame, RouteTypes, ReceiveMoves, ProcessMoves, SettleMoves, BuildMoves
  DEF RouteStep, ReceiveEffect, ProcessEffect, SettleEffect, BuildEffect
<1>2. asked'[r] \in Asks
  BY RouteFrame, ReceiveMoves, ProcessMoves, SettleMoves, BuildMoves
  DEF RouteStep, ReceiveEffect, ProcessEffect, SettleEffect, BuildEffect,
      TypeInv, AskedInv
<1>3. handedOver \subseteq handedOver' /\ handedOver' \subseteq Payments
  <2>1. CASE Process(r)
    <3>1. asked[r].pay # None => asked[r].pay \in Payments
      BY <2>1, ProcessMoves DEF ProcessEffect, TypeInv, AskedInv, Asks
    <3> QED BY <2>1, <3>1, ProcessMoves DEF ProcessEffect, TypeInv, TypeOK
  <2>2. CASE UNCHANGED handedOver
    BY <2>2 DEF TypeInv, TypeOK
  <2> QED BY <2>1, <2>2, RouteFrame
<1>4. AskedInv'
  BY <1>1, <1>2 DEF Moved, TypeInv, AskedInv
<1>5. TypeOK'
  BY <1>1, <1>3, RouteFrame DEF Moved, TypeInv, TypeOK, Stages, Replies
<1> QED BY <1>4, <1>5 DEF TypeInv

LEMMA ChargeType ==
  ASSUME TypeInv, NEW p \in Payments, Charge(p)
  PROVE  TypeInv'
BY DEF TypeInv, TypeOK, AskedInv, Charge

LEMMA InitType == Init => TypeInv
BY DEF Init, TypeInv, TypeOK, AskedInv, MAX_BOOT_ATTEMPTS

-----------------------------------------------------------------------------
(* The service.                                                            *)

\* What the stage of a request says of its payment and of its input.
RequestInv(r) ==
  /\ stage[r] = "verifying" /\ asked[r].pay # None => asked[r].input.valid
  /\ stage[r] \in {"settling", "building"} =>
       asked[r].input.valid /\ asked[r].pay \in handedOver
  /\ stage[r] = "building" => asked[r].pay \in charged
  /\ Answered(r, {"result", "handler_failed"}) => asked[r].pay \in charged
  /\ Answered(r, {"handler_failed"}) => asked[r].input.upstream
  /\ stage[r] = "answered" /\ asked[r].pay # None => answer[r].body = "full"

\* A payment that the facilitator was given is being settled for a request, or
\* the answer to that request says what became of it.
Owned(p, r) ==
  /\ stage[r] # "idle" /\ asked[r].pay = p /\ asked[r].input.valid
  /\ \/ stage[r] \in {"settling", "building"}
     \/ Answered(r, {"result", "handler_failed", "settle", "settle-threw"})

HandedInv == \A p \in handedOver : \E r \in Requests : Owned(p, r)

Payable(w) ==
  /\ w.override \/ w.localFacilitator \/ w.url = "public"
  /\ w.rpcUp /\ w.rpcSteady /\ ~ w.skip => w.payee = "payable"

\* What the boot has found out by the time it stands where it does.
BootInv ==
  /\ boot \in {"account", "trustline"} => CatalogSafe(world)
  /\ boot \in {"warming", "trying", "serving"} => Payable(world)
  /\ \A r \in Requests : stage[r] # "idle" => boot = "serving"

IInv ==
  TypeInv /\ (\A r \in Requests : RequestInv(r)) /\ HandedInv /\ BootInv

LEMMA BootKeeps ==
  ASSUME IInv, BootStep PROVE IInv'
<1>1. UNCHANGED <<world, clock, routeVars, chainVars>> /\ boot # "serving"
  BY DEF BootStep, BootGoes, CheckConfig, GetAccount, SimulateBalance, Warm,
         Initialized, GiveUp, Retry, Trying
<1>2. TypeInv'
  BY BootType DEF IInv
<1>3. \A r \in Requests : RequestInv(r)'
  BY <1>1 DEF IInv, RequestInv, Answered
<1>4. HandedInv'
  BY <1>1 DEF IInv, HandedInv, Owned, Answered
<1>5. BootInv'
  <2>1. CASE CheckConfig
    BY <2>1, <1>1
    DEF IInv, BootInv, CheckConfig, BootGoes, CatalogSafe, Verifiable, Payable
  <2>2. CASE GetAccount
    BY <2>2, <1>1
    DEF IInv, BootInv, GetAccount, BootGoes, CatalogSafe, Verifiable, Payable
  <2>3. CASE SimulateBalance
    BY <2>3, <1>1
    DEF IInv, BootInv, SimulateBalance, BootGoes, CatalogSafe, Verifiable, Payable
  <2>4. CASE Warm \/ Initialized \/ GiveUp \/ Retry
    BY <2>4, <1>1
    DEF IInv, BootInv, Warm, Initialized, GiveUp, Retry, Trying
  <2> QED BY <2>1, <2>2, <2>3, <2>4 DEF BootStep
<1> QED BY <1>2, <1>3, <1>4, <1>5 DEF IInv

LEMMA ReceiveKeeps ==
  ASSUME IInv, NEW r \in Requests, NEW ask \in Asks, Receive(r, ask)
  PROVE  IInv'
<1>1. ReceiveEffect(r, ask) /\ UNCHANGED <<world, bootVars, chainVars>>
  BY ReceiveMoves DEF IInv, Receive
<1>2. TypeInv'
  BY RouteType DEF IInv, RouteStep
<1>3. \A other \in Requests : RequestInv(other)'
  <2>1. RequestInv(r)'
    BY <1>1 DEF ReceiveEffect, RequestInv, Answered
  <2>2. \A other \in Requests \ {r} : RequestInv(other)'
    BY <1>1 DEF ReceiveEffect, Moved, IInv, RequestInv, Answered
  <2> QED BY <2>1, <2>2
<1>4. HandedInv'
  <2>1. stage[r] = "idle"
    BY DEF Receive
  <2>2. ASSUME NEW p \in handedOver PROVE \E other \in Requests : Owned(p, other)'
    <3>1. PICK other \in Requests : Owned(p, other)
      BY DEF IInv, HandedInv
    <3>2. other # r
      BY <2>1, <3>1 DEF Owned
    <3> QED BY <1>1, <3>1, <3>2 DEF ReceiveEffect, Moved, Owned, Answered
  <2> QED BY <1>1, <2>2 DEF HandedInv
<1>5. BootInv'
  BY <1>1 DEF ReceiveEffect, Moved, IInv, BootInv
<1> QED BY <1>2, <1>3, <1>4, <1>5 DEF IInv

LEMMA ProcessKeeps ==
  ASSUME IInv, NEW r \in Requests, Process(r)
  PROVE  IInv'
<1>1. ProcessEffect(r) /\ UNCHANGED <<world, bootVars, charged, asked>>
  BY ProcessMoves DEF IInv, Process
<1>2. TypeInv'
  BY RouteType DEF IInv, RouteStep
<1>3. handedOver \subseteq handedOver' /\ handedOver' \subseteq handedOver \cup {asked[r].pay}
  BY <1>1 DEF ProcessEffect
<1>4. \A other \in Requests : RequestInv(other)'
  <2>1. RequestInv(r)'
    BY <1>1 DEF ProcessEffect, IInv, RequestInv, Answered
  <2>2. \A other \in Requests \ {r} : RequestInv(other)'
    BY <1>1, <1>3 DEF ProcessEffect, Moved, IInv, RequestInv, Answered
  <2> QED BY <2>1, <2>2
<1>5. HandedInv'
  <2>1. ASSUME NEW p \in handedOver PROVE \E other \in Requests : Owned(p, other)'
    <3>1. PICK other \in Requests : Owned(p, other)
      BY DEF IInv, HandedInv
    <3>2. other # r
      BY <1>1, <3>1 DEF ProcessEffect, Owned, Answered
    <3> QED BY <1>1, <3>1, <3>2 DEF ProcessEffect, Moved, Owned, Answered
  <2>2. CASE UNCHANGED handedOver
    BY <2>1, <2>2 DEF HandedInv
  <2>3. CASE handedOver' # handedOver
    <3>1. Owned(asked[r].pay, r)'
      BY <1>1, <2>3 DEF ProcessEffect, IInv, RequestInv, Owned
    <3>2. PICK q : q = asked[r].pay
      OBVIOUS
    <3>3. Owned(q, r)'
      BY <1>1, <3>1, <3>2 DEF Owned, Answered
    <3> QED BY <1>3, <2>1, <3>2, <3>3 DEF HandedInv
  <2> QED BY <2>2, <2>3
<1>6. BootInv'
  BY <1>1 DEF ProcessEffect, Moved, IInv, BootInv
<1> QED BY <1>2, <1>4, <1>5, <1>6 DEF IInv

LEMMA SettleOrBuildKeeps ==
  ASSUME IInv, NEW r \in Requests, Settle(r) \/ Build(r)
  PROVE  IInv'
<1>1. /\ SettleEffect(r) \/ BuildEffect(r)
      /\ UNCHANGED <<world, bootVars, chainVars, asked>>
  BY SettleMoves, BuildMoves DEF IInv, Settle, Build
<1>2. TypeInv'
  BY RouteType DEF IInv, RouteStep
<1>3. ~ asked[r].input.throws
  BY <1>1, AcceptedNeverThrows
  DEF SettleEffect, BuildEffect, IInv, RequestInv, TypeInv, AskedInv, Asks
<1>4. \A other \in Requests : RequestInv(other)'
  <2>1. RequestInv(r)'
    BY <1>1, <1>3 DEF SettleEffect, BuildEffect, IInv, RequestInv, Answered
  <2>2. \A other \in Requests \ {r} : RequestInv(other)'
    BY <1>1 DEF SettleEffect, BuildEffect, Moved, IInv, RequestInv, Answered
  <2> QED BY <2>1, <2>2
<1>5. HandedInv'
  <2>1. ASSUME NEW p \in handedOver PROVE \E other \in Requests : Owned(p, other)'
    <3>1. PICK other \in Requests : Owned(p, other)
      BY DEF IInv, HandedInv
    <3>2. CASE other = r
      BY <1>1, <3>1, <3>2 DEF SettleEffect, BuildEffect, Owned, Answered
    <3>3. CASE other # r
      BY <1>1, <3>1, <3>3 DEF SettleEffect, BuildEffect, Moved, Owned, Answered
    <3> QED BY <3>2, <3>3
  <2> QED BY <1>1, <2>1 DEF HandedInv
<1>6. BootInv'
  BY <1>1 DEF SettleEffect, BuildEffect, Moved, IInv, BootInv
<1> QED BY <1>2, <1>4, <1>5, <1>6 DEF IInv

LEMMA ChargeKeeps ==
  ASSUME IInv, NEW p \in Payments, Charge(p)
  PROVE  IInv'
<1>1. TypeInv'
  BY ChargeType DEF IInv
<1>2. \A r \in Requests : RequestInv(r)'
  BY DEF Charge, IInv, RequestInv, Answered
<1>3. HandedInv'
  BY DEF Charge, IInv, HandedInv, Owned, Answered
<1>4. BootInv'
  BY DEF Charge, IInv, BootInv
<1> QED BY <1>1, <1>2, <1>3, <1>4 DEF IInv

LEMMA SleepKeeps ==
  ASSUME IInv, Sleep \/ UNCHANGED vars PROVE IInv'
<1>1. UNCHANGED <<world, boot, attempt, delay, wakeAt, routeVars, chainVars>>
      /\ clock' \in Nat
  BY DEF Sleep, vars, IInv, TypeInv, TypeOK
<1>2. TypeInv'
  BY <1>1 DEF IInv, TypeInv, TypeOK, AskedInv
<1>3. (\A r \in Requests : RequestInv(r)') /\ HandedInv' /\ BootInv'
  BY <1>1 DEF IInv, RequestInv, HandedInv, BootInv, Owned, Answered
<1> QED BY <1>2, <1>3 DEF IInv

LEMMA InitIInv == Init => IInv
<1> SUFFICES ASSUME Init PROVE IInv
  OBVIOUS
<1>1. \A r \in Requests : stage[r] = "idle"
  BY DEF Init
<1> QED
  BY <1>1, InitType DEF Init, IInv, RequestInv, HandedInv, BootInv, Answered

LEMMA NextIInv == IInv /\ [Next]_vars => IInv'
BY BootKeeps, ReceiveKeeps, ProcessKeeps, SettleOrBuildKeeps, ChargeKeeps,
   SleepKeeps
DEF Next

LEMMA IInvSafe == IInv => TypeOK /\ NothingChargedInVain /\ PaymentMatchesService
<1> SUFFICES ASSUME IInv PROVE TypeOK /\ NothingChargedInVain /\ PaymentMatchesService
  OBVIOUS
<1>1. TypeOK /\ charged \subseteq handedOver
  BY DEF IInv, TypeInv, TypeOK
<1>2. \A p \in charged : \E r \in Requests : Owned(p, r)
  BY <1>1 DEF IInv, HandedInv
<1>3. \A r \in Requests : stage[r] # "idle" => asked[r] # None
  BY SellerAssumption DEF IInv, TypeInv, AskedInv, Asks
<1>4. InvalidNeverCharged /\ LossIsReported
  BY <1>2, <1>3 DEF Owned, InvalidNeverCharged, LossIsReported, Answered
<1>5. UnpayableNeverCharged
  BY <1>2 DEF Owned, IInv, BootInv, Payable, UnpayableNeverCharged
<1>6. ServedIsCharged /\ PaidFailureExplained /\ FailsUpstreamOnly
  BY DEF IInv, RequestInv, ServedIsCharged, PaidFailureExplained,
         FailsUpstreamOnly, Answered
<1> QED
  BY <1>1, <1>4, <1>5, <1>6 DEF NothingChargedInVain, PaymentMatchesService

LEMMA Invariance == Spec => []IInv
BY InitIInv, NextIInv, PTL DEF Spec

-----------------------------------------------------------------------------
(* The verifier. Its request is given up when a probe is aborted, so that   *)
(* of the invariant of the seller only TypeInv holds in the composition.    *)

\* Where a verification stands says which probe it is at, that the address it
\* connects to is the one that was vetted, and that it ends with what it hears.
ProbeInv ==
  /\ at \in {"idle", "lookup", "connecting", "backoff"} => probes <= 2
  /\ at = "open" => probes >= 1
  /\ at = "connecting" => vetted = "public"
  /\ at \notin {"idle", "done"} => site.claims # {}
  /\ at # "done" => heard = None
  /\ reached \subseteq {"public"}

\* A seller that has the probe is serving; a prompt one that got it in time is
\* read before the timer is due.
ServedInv ==
  /\ stage[Probe] # "idle" =>
       /\ at = "open" /\ site.seller /\ served # "never" /\ boot = "serving"
  /\ served = "inTime" => boot = "serving"
  /\ served = "inTime" /\ site.seller /\ ~ site.slow =>
       \/ at = "open" /\ ~ AbortDue
       \/ at = "done" /\ verdict # "timeout"

VerifierInv == TypeInv /\ VerifierTypeOK /\ ProbeInv /\ ServedInv /\ VerdictTruthful

\* The verdict that is drawn of what was heard; nothing was of a failed connection.
Drawn(heardNow) == IF heardNow = None THEN "unverifiable" ELSE Judged(heardNow)

LEMMA VerifierInitInv == VerifierInit => VerifierInv
<1> SUFFICES ASSUME VerifierInit PROVE VerifierInv
  OBVIOUS
<1>1. TypeInv
  BY InitType DEF VerifierInit
<1>2. stage[Probe] = "idle"
  BY ProbeAssumption DEF VerifierInit, Init
<1>3. VerifierTypeOK
  <2>1. awake \in BOOLEAN
    BY Zenon DEF VerifierInit
  <2> QED BY <1>1, <2>1 DEF VerifierInit, TypeInv, VerifierTypeOK, Served
<1>4. ProbeInv /\ ServedInv
  BY <1>2 DEF VerifierInit, ProbeInv, ServedInv
<1>5. VerdictTruthful
  BY ProbeAssumption
  DEF VerifierInit, VerdictTruthful, HonestNeverRefuted, MatchIsRead,
      TimeoutMeansAbsent, VerdictIsOfChallenge, Challenged
<1> QED BY <1>1, <1>3, <1>4, <1>5 DEF VerifierInv

\* The steps of a verification that leave the seller alone.
LEMMA SellerAside ==
  ASSUME TypeInv, UNCHANGED vars PROVE TypeInv'
BY DEF vars, TypeInv, TypeOK, AskedInv

LEMMA SlotFreedType ==
  ASSUME TypeInv, SlotFreed, UNCHANGED <<world, bootVars, chainVars>>
  PROVE  TypeInv' /\ stage'[Probe] = "idle"
BY ProbeAssumption DEF SlotFreed, TypeInv, TypeOK, AskedInv

LEMMA BeforeTheAnswer ==
  ASSUME VerifierInv, Begin \/ Refused \/ Vetted \/ Connect \/ RetryNow
  PROVE  VerifierInv'
<1>1. UNCHANGED <<vars, site, served, heard>> /\ at # "open" /\ at # "done"
  BY DEF Begin, Refused, Vetted, Connect, RetryNow, SellerUnchanged
<1>0. heard' = None
  BY <1>1 DEF VerifierInv, ProbeInv
<1>2. TypeInv'
  BY <1>1, SellerAside DEF VerifierInv
<1>3. verdict' \in {None, "unverifiable"} /\ (verdict' # None <=> at' = "done")
  BY ProbeAssumption
  DEF VerifierInv, VerifierTypeOK, Begin, Refused, Vetted, Connect, RetryNow,
      Conclude
<1>4. VerifierTypeOK'
  <2>0. awake' \in BOOLEAN
    <3>1. awake' = awake \/ awake' = (awake \/ site.seller)
      BY DEF Begin, Refused, Vetted, Connect, RetryNow, SellerUnchanged
    <3> QED BY <3>1, Zenon DEF VerifierInv, VerifierTypeOK
  <2>1. probes' \in 0 .. 3 /\ timerAt' \in Nat
    BY DEF VerifierInv, VerifierTypeOK, ProbeInv, TypeInv, TypeOK, Begin, Refused,
           Vetted, Connect, RetryNow, SellerUnchanged, FETCH_TIMEOUT
  <2>2. /\ at' \in {"idle", "lookup", "connecting", "open", "backoff", "done"}
        /\ vetted' \in {"public", "blocked", None}
    BY ProbeAssumption
    DEF VerifierInv, VerifierTypeOK, Begin, Refused, Vetted, Connect, RetryNow,
        Conclude
  <2>3. reached' \subseteq {"public", "blocked"}
    BY DEF VerifierInv, VerifierTypeOK, ProbeInv, Begin, Refused, Vetted,
           Connect, RetryNow, Pinned
  <2> QED
    BY <1>1, <1>2, <1>3, <2>0, <2>1, <2>2, <2>3 DEF VerifierInv, VerifierTypeOK, TypeInv
<1>5. ProbeInv'
  <2>1. CASE Begin \/ Refused \/ RetryNow
    BY <1>1, <2>1 DEF VerifierInv, VerifierTypeOK, ProbeInv, Begin, Refused,
                      RetryNow, Conclude
  <2>2. CASE Vetted
    BY <1>1, <2>2, ProbeAssumption
    DEF VerifierInv, VerifierTypeOK, ProbeInv, Vetted, isBlockedAddress
  <2>3. CASE Connect
    <3>1. at' = "open" /\ probes' >= 1 /\ site.claims # {}
      BY <2>3 DEF VerifierInv, VerifierTypeOK, ProbeInv, Connect
    <3>2. reached' \subseteq {"public"}
      BY <2>3 DEF VerifierInv, ProbeInv, Connect, Pinned
    <3> QED BY <1>0, <1>1, <3>1, <3>2 DEF ProbeInv
  <2> QED BY <2>1, <2>2, <2>3
<1>6. ServedInv'
  BY <1>1, <1>3 DEF VerifierInv, ServedInv, vars, Begin, Refused, Vetted, Connect, RetryNow
<1>7. VerdictTruthful'
  BY <1>0, <1>3, ProbeAssumption
  DEF VerdictTruthful, HonestNeverRefuted, MatchIsRead,
      TimeoutMeansAbsent, VerdictIsOfChallenge, Challenged
<1> QED BY <1>2, <1>4, <1>5, <1>6, <1>7 DEF VerifierInv

\* A verification is over when one verdict is drawn.
LEMMA Concluded ==
  ASSUME VerifierInv, at = "open", TypeInv',
         NEW h \in Wire \cup {None}, heard' = h, NEW v, v = Drawn(h), Conclude(v),
         stage[Probe] = "idle" \/ stage'[Probe] = "idle",
         UNCHANGED <<world, bootVars, site, awake, probes, timerAt, vetted,
                     reached, served>>,
         stage'[Probe] \in {"idle", stage[Probe]},
         v = "mismatch" /\ site.seller => world.payTo \notin site.claims,
         v = "match" /\ site.seller =>
           world.payTo \in site.claims /\ stage[Probe] # "idle"
  PROVE  VerifierInv'
<1>0. v \in {"match", "mismatch", "unverifiable"}
  BY DEF Drawn, Judged
<1>1. VerifierTypeOK'
  BY <1>0, ProbeAssumption DEF VerifierInv, VerifierTypeOK, TypeInv, Conclude
<1>2. ProbeInv'
  BY DEF VerifierInv, ProbeInv, Conclude
<1>3. ServedInv'
  BY <1>0 DEF VerifierInv, ServedInv, Conclude
<1>4. VerdictIsOfChallenge'
  BY DEF Drawn, Judged, VerdictIsOfChallenge, Challenged, VerifierInv, ProbeInv, Conclude
<1>5. VerdictTruthful'
  BY <1>0, <1>4
  DEF VerifierInv, VerdictTruthful, HonestNeverRefuted, MatchIsRead,
      TimeoutMeansAbsent, ProbeInv, ServedInv, Conclude
<1> QED BY <1>1, <1>2, <1>3, <1>5 DEF VerifierInv

LEMMA Answer ==
  ASSUME VerifierInv, ReadSeller \/ ReadHost \/ ReadOther \/ Disconnected
  PROVE  VerifierInv'
<1>0. world.payTo \in PayTos
  BY ProbeAssumption DEF VerifierInv, TypeInv, TypeOK
<1>1. CASE ReadSeller
  <2>1. PICK h : h = SellerSends(answer[Probe].kind)
    OBVIOUS
  <2>2. h \in Wire
    BY <1>0, <2>1 DEF SellerSends, StatusOf, Wire
  <2>3. /\ h.status = 402 /\ h.header = "challenge" /\ h.payTos # {}
        => h.payTos = {world.payTo}
    BY <2>1 DEF SellerSends
  <2>4. PICK v : v = Judged(h)
    OBVIOUS
  <2>5. heard' = h /\ Conclude(v) /\ at = "open"
    BY <1>1, <2>1, <2>4 DEF ReadSeller, OpenAtSeller, Hear
  <2>6. TypeInv' /\ stage'[Probe] = "idle" /\ stage[Probe] = "answered"
    BY <1>1, SlotFreedType DEF VerifierInv, ReadSeller
  <2>7. /\ v = Drawn(h)
        /\ v = "match" => world.payTo \in site.claims
        /\ v = "mismatch" => world.payTo \notin site.claims
    BY <2>2, <2>3, <2>4, HeardAssumption DEF Drawn, Judged
  <2> QED BY <1>1, <2>2, <2>5, <2>6, <2>7, Concluded DEF ReadSeller
<1>2. CASE ReadHost
  <2>1. PICK h : h = HostSends
    OBVIOUS
  <2>2. h \in Wire /\ Judged(h) = "unverifiable"
    BY <2>1 DEF HostSends, Wire, Judged
  <2>3. /\ UNCHANGED vars /\ at = "open" /\ boot = "exited"
        /\ heard' = h /\ Conclude("unverifiable") /\ Drawn(h) = "unverifiable"
    BY <1>2, <2>1, <2>2 DEF ReadHost, OpenAtSeller, SellerUnchanged, Hear, Drawn
  <2>4. TypeInv' /\ stage[Probe] = "idle" /\ UNCHANGED <<world, bootVars, stage>>
    BY <2>3, SellerAside DEF VerifierInv, ServedInv, vars
  <2> QED BY <1>2, <2>2, <2>3, <2>4, Concluded DEF ReadHost, SellerUnchanged
<1>3. CASE ReadOther \/ Disconnected
  <2>1. UNCHANGED vars /\ at = "open" /\ ~ site.seller
    BY <1>3 DEF ReadOther, Disconnected, SellerUnchanged
  <2>2. PICK h \in Wire \cup {None} : heard' = h /\ Conclude(Drawn(h))
    <3>1. CASE ReadOther
      BY <3>1, HeardAssumption DEF ReadOther, Hear, Drawn
    <3>2. CASE Disconnected
      <4>1. heard' = None /\ Conclude("unverifiable")
        BY <3>2 DEF Disconnected, VerifierInv, ProbeInv
      <4> QED BY <4>1 DEF Drawn
    <3> QED BY <1>3, <3>1, <3>2
  <2>3. PICK v : v = Drawn(h)
    OBVIOUS
  <2>4. TypeInv' /\ stage[Probe] = "idle" /\ UNCHANGED <<world, bootVars, stage>>
    BY <2>1, SellerAside DEF VerifierInv, ServedInv, vars
  <2> QED
    BY <1>3, <2>1, <2>2, <2>3, <2>4, Concluded DEF ReadOther, Disconnected, SellerUnchanged
<1> QED BY <1>1, <1>2, <1>3

LEMMA AbortKeeps ==
  ASSUME VerifierInv, Abort PROVE VerifierInv'
<1>1. /\ UNCHANGED <<world, bootVars, chainVars, site, awake, probes, vetted,
                     reached, served, heard>>
      /\ at = "open" /\ AbortDue
  BY DEF Abort
<1>2. TypeInv' /\ stage'[Probe] = "idle"
  BY <1>1, SlotFreedType DEF VerifierInv, Abort
<1>3. served = "inTime" => ~ (site.seller /\ ~ site.slow)
  BY <1>1 DEF VerifierInv, ServedInv
<1>4. CASE RetryDue
  <2>1. /\ at' = "backoff" /\ timerAt' = clock + RetryDelay /\ UNCHANGED verdict
        /\ probes <= 2 /\ verdict = None
    BY <1>1, <1>4 DEF Abort, RetryDue, COLD_START_RETRY_DELAYS, VerifierInv, VerifierTypeOK
  <2>2. timerAt' \in Nat
    <3>1. probes \in 1 .. 2 /\ clock \in Nat
      BY <1>1, <2>1 DEF VerifierInv, VerifierTypeOK, ProbeInv, TypeInv, TypeOK
    <3>2. RetryDelay \in Nat
      BY <3>1 DEF RetryDelay, COLD_START_RETRY_DELAYS
    <3> QED BY <2>1, <3>1, <3>2
  <2>3. VerifierTypeOK'
    BY <1>1, <1>2, <2>1, <2>2, ProbeAssumption DEF VerifierInv, VerifierTypeOK, TypeInv
  <2>4. ProbeInv'
    BY <1>1, <2>1 DEF VerifierInv, ProbeInv
  <2>5. ServedInv'
    BY <1>1, <1>2, <1>3 DEF VerifierInv, ServedInv
  <2>6. VerdictTruthful'
    BY <2>1, ProbeAssumption
    DEF VerdictTruthful, HonestNeverRefuted, MatchIsRead,
      TimeoutMeansAbsent, VerdictIsOfChallenge, Challenged
  <2> QED BY <1>2, <2>3, <2>4, <2>5, <2>6 DEF VerifierInv
<1>5. CASE ~ RetryDue
  <2>1. at' = "done" /\ verdict' = "timeout" /\ UNCHANGED timerAt
    BY <1>5 DEF Abort, Conclude
  <2>2. probes = 3
    BY <1>5 DEF RetryDue, COLD_START_RETRY_DELAYS, VerifierInv, VerifierTypeOK
  <2>3. VerifierTypeOK'
    BY <1>1, <1>2, <2>1, ProbeAssumption DEF VerifierInv, VerifierTypeOK, TypeInv
  <2>4. ProbeInv'
    BY <1>1, <2>1 DEF VerifierInv, ProbeInv
  <2>5. ServedInv'
    BY <1>1, <1>2, <1>3 DEF VerifierInv, ServedInv
  <2>6. VerdictTruthful'
    BY <1>1, <1>3, <2>1, <2>2
    DEF VerifierInv, ProbeInv, VerdictTruthful, HonestNeverRefuted, MatchIsRead,
      TimeoutMeansAbsent, VerdictIsOfChallenge, Challenged
  <2> QED BY <1>2, <2>3, <2>4, <2>5, <2>6 DEF VerifierInv
<1> QED BY <1>4, <1>5

LEMMA DeliverKeeps ==
  ASSUME VerifierInv, Deliver PROVE VerifierInv'
<1>1. PICK input \in Inputs :
        Receive(Probe, [input |-> input, pay |-> None, probe |-> TRUE])
  BY DEF Deliver
<1>2. [input |-> input, pay |-> None, probe |-> TRUE] \in Asks
  BY DEF Asks
<1>3. TypeInv'
  BY <1>1, <1>2, ProbeAssumption, RouteType DEF VerifierInv, RouteStep
<1>4. /\ UNCHANGED <<world, bootVars, chainVars, site, awake, at, probes, timerAt,
                     vetted, reached, heard, verdict>>
      /\ at = "open" /\ site.seller /\ boot = "serving" /\ stage[Probe] = "idle"
  BY <1>1 DEF Deliver, OpenAtSeller, Receive
<1>5. /\ served' \in {"late", "inTime"}
      /\ AbortDue => served' = "late" \/ served = "inTime"
  BY DEF Deliver
<1>6. VerifierTypeOK'
  BY <1>3, <1>4, <1>5 DEF VerifierInv, VerifierTypeOK, TypeInv, Served
<1>7. ProbeInv'
  BY <1>4 DEF VerifierInv, ProbeInv
<1>8. ServedInv'
  BY <1>4, <1>5 DEF VerifierInv, ServedInv, AbortDue
<1>9. VerdictTruthful'
  BY <1>4, ProbeAssumption
  DEF VerifierInv, VerifierTypeOK, VerdictTruthful, HonestNeverRefuted,
      MatchIsRead,
      TimeoutMeansAbsent, VerdictIsOfChallenge, Challenged
<1> QED BY <1>3, <1>6, <1>7, <1>8, <1>9 DEF VerifierInv

\* The steps of the seller, and time.
LEMMA SellerKeeps ==
  ASSUME VerifierInv, SellerProcess \/ SellerBoots \/ PassTime
  PROVE  VerifierInv'
<1>1. UNCHANGED <<world, site, awake, at, probes, timerAt, vetted, reached,
                  served, heard, verdict>>
  BY DEF SellerProcess, SellerBoots, PassTime, verifierVars, BootStep, BootGoes,
         CheckConfig, GetAccount, SimulateBalance, Warm, Initialized, GiveUp,
         Retry, Process
<1>2. TypeInv'
  <2>1. CASE SellerProcess
    BY <2>1, ProbeAssumption, RouteType DEF VerifierInv, SellerProcess, RouteStep
  <2>2. CASE SellerBoots
    BY <2>2, BootType DEF VerifierInv, SellerBoots
  <2>3. CASE PassTime
    <3>1. PICK t \in Timers : clock' = t
      BY <2>3 DEF PassTime, Timers, Min, VerifierInv, VerifierTypeOK, TypeInv, TypeOK
    <3>2. t \in Nat
      BY DEF Timers, VerifierInv, VerifierTypeOK, TypeInv, TypeOK
    <3> QED BY <2>3, <3>1, <3>2 DEF PassTime, VerifierInv, TypeInv, TypeOK, AskedInv
  <2> QED BY <2>1, <2>2, <2>3
<1>3. VerifierTypeOK'
  BY <1>1, <1>2 DEF VerifierInv, VerifierTypeOK, TypeInv
<1>4. ProbeInv'
  BY <1>1 DEF VerifierInv, ProbeInv
<1>5. boot = "serving" => boot' = "serving"
  BY DEF SellerProcess, SellerBoots, PassTime, BootStep, BootGoes, CheckConfig,
         GetAccount, SimulateBalance, Warm, Initialized, GiveUp, Retry, Trying,
         Process
<1>6. ServedInv'
  <2>1. stage'[Probe] # "idle" => stage[Probe] # "idle"
    BY ProbeAssumption, ProcessMoves
    DEF SellerProcess, SellerBoots, PassTime, VerifierInv, BootStep, BootGoes,
        CheckConfig, GetAccount, SimulateBalance, Warm, Initialized, GiveUp,
        Retry, ProcessEffect
  <2>2. CASE UNCHANGED clock
    BY <1>1, <1>5, <2>1, <2>2 DEF VerifierInv, ServedInv, AbortDue
  <2>3. CASE clock' # clock
    <3>1. PassTime
      BY <2>3 DEF SellerProcess, SellerBoots, PassTime, BootStep, BootGoes,
        CheckConfig, GetAccount, SimulateBalance, Warm, Initialized, GiveUp,
        Retry, Process
    <3>2. ~ (at = "open" /\ site.seller /\ ~ site.slow /\ boot = "serving")
      BY <3>1 DEF PassTime, Busy, OpenAtSeller
    <3> QED BY <1>1, <1>5, <2>1, <3>2 DEF VerifierInv, ServedInv, AbortDue
  <2> QED BY <2>2, <2>3
<1>7. VerdictTruthful'
  BY <1>1, <1>5
  DEF VerifierInv, VerdictTruthful, HonestNeverRefuted, MatchIsRead,
      TimeoutMeansAbsent, VerdictIsOfChallenge, Challenged
<1> QED BY <1>2, <1>3, <1>4, <1>6, <1>7 DEF VerifierInv

LEMMA VerifierNextInv == VerifierInv /\ [VerifierNext]_allVars => VerifierInv'
<1>1. ASSUME VerifierInv, UNCHANGED allVars PROVE VerifierInv'
  <2>1. TypeInv'
    BY <1>1, SellerAside DEF VerifierInv, allVars
  <2>2. VerifierTypeOK' /\ ProbeInv' /\ ServedInv'
    BY <1>1, <2>1
    DEF VerifierInv, allVars, vars, verifierVars, VerifierTypeOK, TypeInv,
        ProbeInv, ServedInv, AbortDue
  <2>3. VerdictTruthful'
    BY <1>1
    DEF VerifierInv, allVars, vars, verifierVars, VerdictTruthful,
        HonestNeverRefuted, MatchIsRead,
      TimeoutMeansAbsent, VerdictIsOfChallenge, Challenged
  <2> QED BY <2>1, <2>2, <2>3 DEF VerifierInv
<1> QED
  BY <1>1, BeforeTheAnswer, Answer, AbortKeeps, DeliverKeeps, SellerKeeps
  DEF VerifierNext, Verifier

LEMMA VerifierInvariance == VerifierSpec => []VerifierInv
BY VerifierInitInv, VerifierNextInv, PTL DEF VerifierSpec

-----------------------------------------------------------------------------

\* The types of the seller's state, in which a request that is being handled or
\* has been answered is one that was asked.
THEOREM TypeCorrect == Spec => []TypeOK
BY Invariance, IInvSafe, PTL

\* NothingChargedInVain (handlePaidRoute, assertNetworkConsistency and the checks
\* of the boot): whatever mixture of failures, duplicates and late charges, a
\* payment is charged only for an input that the route's validate accepts, by a
\* seller whose configuration the boot let through.
THEOREM ChargedForService == Spec => []NothingChargedInVain
BY Invariance, IInvSafe, PTL

\* PaymentMatchesService (handlePaidRoute): a result is returned only for a
\* payment that was charged, a charge is never concealed by the answers, and
\* after it a route fails only because a service it asks has failed.
THEOREM PaidIsServed == Spec => []PaymentMatchesService
BY Invariance, IInvSafe, PTL

\* The types of the composition, and at most three probes.
THEOREM VerifierTypeCorrect == VerifierSpec => []VerifierTypeOK
<1>1. VerifierInv => VerifierTypeOK
  BY DEF VerifierInv
<1> QED BY <1>1, VerifierInvariance, PTL

\* NeverReachesBlocked (assertPublicHttpsUrl and pinnedLookup): whatever the
\* resolver answers from one lookup to the next, the socket never lands on an
\* address that the guard refuses.
THEOREM BlockedIsNeverReached == VerifierSpec => []NeverReachesBlocked
<1>1. VerifierInv => NeverReachesBlocked
  BY DEF VerifierInv, ProbeInv, NeverReachesBlocked, isBlockedAddress
<1> QED BY <1>1, VerifierInvariance, PTL

\* VerdictTruthful (verifyResourceOwnership, probeOnce): for every resource,
\* configuration and timing, and whatever server answers, a match and a mismatch
\* rest on a challenge that was read, never on a redirect, another status or a
\* header that cannot be read, and a challenge that was read is never ignored; of
\* the example seller, every verdict is true, and a timeout means three probes.
THEOREM VerdictIsTruthful == VerifierSpec => []VerdictTruthful
<1>1. VerifierInv => VerdictTruthful
  BY DEF VerifierInv
<1> QED BY <1>1, VerifierInvariance, PTL
=============================================================================
