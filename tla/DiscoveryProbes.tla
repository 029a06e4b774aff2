--------------------------- MODULE DiscoveryProbes ---------------------------
(***************************************************************************)
(* What a discovery request does after the catalog has answered: the trust *)
(* annotation of src/trust.ts, then the payability annotation of           *)
(* src/payability.ts with its resolver (caches, lookups in flight and the  *)
(* concurrency limiter), as /discovery/resources and /discovery/search of  *)
(* src/server.ts call them for one page.                                   *)
(*                                                                         *)
(* An option is an entry of accepts: a payTo and an asset. A step goes     *)
(* from one await to the next; the await of a waiter that the limiter woke *)
(* ends in a step of its own, since other callbacks can come first. The    *)
(* verification API may say anything. The RPC tells what an asset is, or   *)
(* answers with an error of its own, which the code reads as no SAC.       *)
(* Horizon reads an account at some time after it was asked, and its       *)
(* answer arrives at any later time: neither call has a timeout. The       *)
(* layers share no state and each can be switched off.                     *)
(***************************************************************************)
EXTENDS Integers, FiniteSets, Sequences, SequencesExt

CONSTANTS
  Options,
  Assets,
  AssetOf(_),     \* the asset of an option
  KindOf(_),      \* what name() of the asset tells: native, classic, non_sac
  IsContract(_),  \* the payTo of the option is a contract
  Requests,
  Page(_),        \* the options of the listings a request asks for, in order
  Layers,         \* the deployments: sets of layers that are switched on
  MaxConcurrent,  \* maxConcurrentLookups
  Ttl,            \* cacheTtlMs
  UnknownTtl,     \* unknownCacheTtlMs
  TrustTtl,       \* TRUST_LIMITS.defaultCacheTtlMs
  BudgetMs,       \* annotationBudgetMs
  MaxClock,       \* bound: time
  Undefined

ASSUME ProbesAssumption ==
  /\ IsFiniteSet(Options)
  /\ \A o \in Options : AssetOf(o) \in Assets /\ IsContract(o) \in BOOLEAN
  /\ \A a \in Assets : KindOf(a) \in {"native", "classic", "non_sac"}
  /\ \A r \in Requests : Page(r) \in Seq(Options)
  /\ Layers \subseteq SUBSET {"trust", "payability"}
  /\ {MaxConcurrent, Ttl, UnknownTtl, TrustTtl, BudgetMs} \subseteq Nat \ {0}
  /\ MaxClock \in Nat

VARIABLES
  clock,
  layers,      \* which of trust and payability buildServer was given
  \* The world.
  badge,       \* catalog.isVerifiedOwner of the listings
  held,        \* whether the account of an option can be paid: is_authorized
  turned,      \* history: when that changed; bound: once each
  vouched,     \* history: when the API last vouched for an asset, no drift seen
  \* trust.ts.
  trustCache,  \* cache
  \* payability.ts.
  identity,    \* identityCache
  denied,      \* history: the assets that the RPC answered no name for
  verdicts,    \* verdictCache
  lookups,     \* inFlight: where each lookup is, or the verdict it returns
  read,        \* history: when Horizon read the account of a lookup
  active, queue, \* ConcurrencyLimiter
  \* The requests.
  req

worldVars == <<badge, held, turned, vouched>>
resolverVars == <<identity, denied, verdicts, lookups, read, active, queue>>
probesVars == <<clock, layers, worldVars, trustCache, resolverVars, req>>

Verification == {"verified", "unverified", "unknown"}
Payability == {"payable", "not_payable", "unknown"}
Cached == [verdict: Verification, at: 0 .. MaxClock]

\* took, a history: the time from Horizon's reading to the stamp.
Found == [verdict: Payability, at: 0 .. MaxClock, took: 0 .. MaxClock]

\* What a cache.get answers is told apart from what was put there.
ASSUME UndefinedAssumption ==
  /\ Undefined \notin 0 .. MaxClock /\ Undefined \notin {"native", "classic", "non_sac"}
  /\ Undefined \notin Cached \cup Found

Steps == {"none", "queued", "woken", "identity", "horizon"} \cup Payability

Elements(r) == ToSet(Page(r))

\* trust, pay: per option; "api" and "live" are the awaits of assetStatus, "wait" that
\* of checkWithinBudget. took, a history, as of the verdict in pay.
Request == [pc: {"idle", "trust", "pay", "done"}, from: 0 .. MaxClock,
            due: 0 .. MaxClock + BudgetMs, owner: BOOLEAN, badged: BOOLEAN,
            trust: [Options -> Verification \cup {"api", "live"}],
            pay: [Options -> Payability \cup {"wait"}],
            took: [Options -> 0 .. MaxClock]]

ProbesInit ==
  /\ clock = 0
  /\ layers \in Layers
  /\ badge \in (IF "trust" \in layers THEN BOOLEAN ELSE {FALSE})
  /\ held = [o \in Options |-> TRUE]
  /\ turned = [o \in Options |-> Undefined]
  /\ vouched = [a \in Assets |-> Undefined]
  /\ trustCache = [a \in Assets |-> Undefined]
  /\ identity = [a \in Assets |-> Undefined]
  /\ verdicts = [o \in Options |-> Undefined]
  /\ denied = {}
  /\ lookups = [o \in Options |-> "none"]
  /\ read = [o \in Options |-> Undefined]
  /\ active = 0 /\ queue = <<>>
  /\ req = [r \in Requests |->
              [pc |-> "idle", from |-> 0, due |-> 0, owner |-> FALSE, badged |-> FALSE,
               trust |-> [o \in Options |-> "unknown"], pay |-> [o \in Options |-> "unknown"],
               took |-> [o \in Options |-> 0]]]

-----------------------------------------------------------------------------
(* The world.                                                              *)

\* CatalogOwnership gives and takes the badge.
BadgeChanges ==
  /\ "trust" \in layers
  /\ badge' = ~badge
  /\ req' = [r \in Requests |-> [req[r] EXCEPT !.badged = @ \/ (badge' /\ req[r].pc = "trust")]]
  /\ UNCHANGED <<clock, layers, held, turned, vouched, trustCache, resolverVars>>

TrustlineChanges(o) ==
  /\ "payability" \in layers
  /\ turned[o] = Undefined
  /\ held' = [held EXCEPT ![o] = ~@]
  /\ turned' = [turned EXCEPT ![o] = clock]
  /\ UNCHANGED <<clock, layers, badge, vouched, trustCache, resolverVars, req>>

\* The awaits of assetStatus of a request have ended.
Asked(r) == req[r].pc = "trust" /\ \A o \in Options : req[r].trust[o] \in Verification

\* What needs no call goes on, and a timer that is due fires, before time does.
Tick ==
  /\ clock < MaxClock
  /\ \A r \in Requests : ~Asked(r)
  /\ \A r \in Requests : req[r].pc = "pay" => clock < req[r].due
  /\ clock' = clock + 1
  /\ UNCHANGED <<layers, worldVars, trustCache, resolverVars, req>>

-----------------------------------------------------------------------------
(* annotateTrust.                                                          *)

\* Mutant of Fresh: <= for <.
FreshLate(entry, ttl) == entry # Undefined /\ clock - entry.at <= ttl

Fresh(entry, ttl) == entry # Undefined /\ clock - entry.at < ttl

\* The badge is read before the first await; assetStatus of every option starts.
Ask(r) ==
  /\ req[r].pc = "idle"
  /\ clock + BudgetMs <= MaxClock
  /\ req' = [req EXCEPT ![r] =
       [@ EXCEPT !.pc = "trust", !.from = clock, !.owner = badge, !.badged = badge,
                 !.trust = [o \in Options |->
                   IF "trust" \notin layers \/ o \notin Elements(r) THEN "unknown"
                   ELSE IF Fresh(trustCache[AssetOf(o)], TrustTtl)
                        THEN trustCache[AssetOf(o)].verdict ELSE "api"]]]
  /\ UNCHANGED <<clock, layers, worldVars, trustCache, resolverVars>>

\* cache.set and the return of assetStatus.
Verdict(r, o, v) ==
  /\ req' = [req EXCEPT ![r].trust[o] = v]
  /\ trustCache' = [trustCache EXCEPT ![AssetOf(o)] = [verdict |-> v, at |-> clock]]
  /\ vouched' = IF v = "verified" THEN [vouched EXCEPT ![AssetOf(o)] = clock] ELSE vouched
  /\ UNCHANGED <<clock, layers, badge, held, turned, resolverVars>>

\* The newest record: not verified, verified with nothing to compare, or compared with
\* the live hash. No usable answer within the timeout is unknown.
ApiEnds(r, o) ==
  /\ req[r].trust[o] = "api"
  /\ \/ \E v \in Verification : Verdict(r, o, v)
     \/ /\ req' = [req EXCEPT ![r].trust[o] = "live"]
        /\ UNCHANGED <<clock, layers, worldVars, trustCache, resolverVars>>

\* A drift that is seen downgrades; an RPC that fails does not.
LiveHashEnds(r, o) ==
  /\ req[r].trust[o] = "live"
  /\ \E v \in {"verified", "unverified"} : Verdict(r, o, v)

\* Mutant of ClampByOwner: the badge of the asset stands for the owner's.
Unclamped(v, owner) == v

ClampByOwner(v, owner) == IF ~owner /\ v = "verified" THEN "unknown" ELSE v

AcceptsVerification(r) == {ClampByOwner(req[r].trust[o], req[r].owner) : o \in Elements(r)}

\* strictMin: the worst of the options, unknown without one.
StrictMin(vs) ==
  IF vs = {} THEN "unknown"
  ELSE IF "unverified" \in vs THEN "unverified"
  ELSE IF "unknown" \in vs THEN "unknown" ELSE "verified"

-----------------------------------------------------------------------------
(* annotatePayability and check.                                           *)

TtlOf(entry) == IF entry # Undefined /\ entry.verdict = "unknown" THEN UnknownTtl ELSE Ttl

Hit(o) == Fresh(verdicts[o], TtlOf(verdicts[o]))

\* What resolve does with an identity: nothing is known of what is no SAC, and a
\* contract is paid without a trustline.
AfterIdentity(o, kind) ==
  IF kind = "non_sac" THEN "unknown" ELSE IF IsContract(o) THEN "payable" ELSE "horizon"

\* Where resolve first waits, once the limiter lets it run.
FirstStep(o) ==
  IF identity[AssetOf(o)] = Undefined THEN "identity"
  ELSE AfterIdentity(o, identity[AssetOf(o)])

\* check: a cached verdict, or the lookup in flight is joined, or one starts under the
\* limiter.
LookUp(limiter, o) ==
  IF Hit(o) \/ limiter.lookups[o] # "none" THEN limiter
  ELSE IF limiter.active >= MaxConcurrent
  THEN [limiter EXCEPT !.queue = Append(@, o), !.lookups[o] = "queued"]
  ELSE [limiter EXCEPT !.active = @ + 1, !.lookups[o] = FirstStep(o)]

\* Every option's check up to its await, and the timer of the budget.
Annotate(r) ==
  /\ Asked(r)
  /\ LET after == FoldLeft(LookUp, [active |-> active, queue |-> queue, lookups |-> lookups],
                           Page(r))
     IN IF "payability" \notin layers
        THEN /\ req' = [req EXCEPT ![r].pc = "done"]
             /\ UNCHANGED resolverVars
        ELSE /\ req' = [req EXCEPT ![r] =
                  [@ EXCEPT !.pc = "pay", !.due = clock + BudgetMs,
                            !.pay = [o \in Options |->
                              IF o \notin Elements(r) THEN "unknown"
                              ELSE IF Hit(o) THEN verdicts[o].verdict ELSE "wait"],
                            !.took = [o \in Options |->
                              IF o \in Elements(r) /\ Hit(o) THEN verdicts[o].took ELSE 0]]]
             /\ active' = after.active /\ queue' = after.queue /\ lookups' = after.lookups
             /\ UNCHANGED <<identity, denied, verdicts, read>>
  /\ UNCHANGED <<clock, layers, worldVars, trustCache>>

\* The limiter's waiter goes on.
Resume(o) ==
  /\ lookups[o] = "woken"
  /\ active' = active + 1
  /\ lookups' = [lookups EXCEPT ![o] = FirstStep(o)]
  /\ UNCHANGED <<clock, layers, worldVars, trustCache, identity, denied, verdicts, read,
                 queue, req>>

\* Mutant of Release: the slot is given back, but nobody is woken.
ReleaseSilently(o, v) ==
  /\ active' = active - 1
  /\ lookups' = [lookups EXCEPT ![o] = "none"]
  /\ UNCHANGED queue

\* The two finally blocks, win or lose: of the limiter's run, and of check.
Release(o, v) ==
  /\ active' = active - 1
  /\ queue' = IF queue = <<>> THEN <<>> ELSE Tail(queue)
  /\ lookups' = [p \in Options |->
                   IF p = o THEN "none"
                   ELSE IF queue # <<>> /\ p = queue[1] THEN "woken" ELSE lookups[p]]

Took(o) == IF read[o] = Undefined THEN 0 ELSE clock - read[o]

\* A lookup ends: its verdict is cached, stamped only now, and given to every check that
\* waits for it.
EndLookup(o, v) ==
  /\ Release(o, v)
  /\ verdicts' = [verdicts EXCEPT ![o] = [verdict |-> v, at |-> clock, took |-> Took(o)]]
  /\ req' = [r \in Requests |->
               IF req[r].pay[o] = "wait"
               THEN [req[r] EXCEPT !.pay[o] = v, !.took[o] = Took(o)] ELSE req[r]]
  /\ read' = [read EXCEPT ![o] = Undefined]
  /\ UNCHANGED <<clock, layers, worldVars, trustCache, identity, denied>>

\* classicIdentityFor: an answer is kept for ever, over that of another lookup. An error
\* of the simulation, or a result that is no name, makes the asset a non_sac.
IdentityAnswers(o) ==
  LET a == AssetOf(o)
  IN  /\ lookups[o] = "identity"
      /\ \E kind \in {KindOf(a), "non_sac"} :
           /\ identity' = [identity EXCEPT ![a] = kind]
           /\ denied' = IF kind = "non_sac" THEN denied \cup {a} ELSE denied
           /\ lookups' = [lookups EXCEPT ![o] = AfterIdentity(o, kind)]
      /\ UNCHANGED <<clock, layers, worldVars, trustCache, verdicts, read, active, queue, req>>

\* horizonTrustlineAuthorized and horizonAccountExists, which never proves an absence.
\* The identity is a local variable of resolve, whatever the cache has by now; here it is
\* the asset's own.
HorizonReads(o) ==
  /\ lookups[o] = "horizon"
  /\ lookups' = [lookups EXCEPT ![o] =
                   IF held[o] THEN "payable"
                   ELSE IF KindOf(AssetOf(o)) = "native" THEN "unknown" ELSE "not_payable"]
  /\ read' = [read EXCEPT ![o] = clock]
  /\ UNCHANGED <<clock, layers, worldVars, trustCache, identity, denied, verdicts, active,
                 queue, req>>

\* The verdict of resolve arrives.
Resolves(o) == lookups[o] \in Payability /\ EndLookup(o, lookups[o])

\* transient_error, which is not a fact about the contract and not cached, or a failure
\* of Horizon, also while its body is read.
CallFails(o) ==
  /\ lookups[o] \in {"identity", "horizon"} \/ read[o] # Undefined
  /\ EndLookup(o, "unknown")

\* The budget is spent: unknown for this response. The lookup goes on.
BudgetEnds(r) ==
  /\ req[r].pc = "pay"
  /\ clock >= req[r].due
  /\ req' = [req EXCEPT ![r].pay = [o \in Options |-> IF @[o] = "wait" THEN "unknown" ELSE @[o]]]
  /\ UNCHANGED <<clock, layers, worldVars, trustCache, resolverVars>>

\* The response is filtered and sent.
Respond(r) ==
  /\ req[r].pc = "pay"
  /\ \A o \in Options : req[r].pay[o] # "wait"
  /\ req' = [req EXCEPT ![r].pc = "done"]
  /\ UNCHANGED <<clock, layers, worldVars, trustCache, resolverVars>>

-----------------------------------------------------------------------------
ProbesNext ==
  \/ Tick \/ BadgeChanges
  \/ \E r \in Requests : Ask(r) \/ Annotate(r) \/ BudgetEnds(r) \/ Respond(r)
  \/ \E r \in Requests, o \in Options : ApiEnds(r, o) \/ LiveHashEnds(r, o)
  \/ \E o \in Options :
       \/ TrustlineChanges(o) \/ Resume(o) \/ IdentityAnswers(o) \/ HorizonReads(o)
       \/ Resolves(o) \/ CallFails(o)

ProbesSpec == ProbesInit /\ [][ProbesNext]_probesVars

-----------------------------------------------------------------------------
(* Properties.                                                             *)

ProbesTypeOK ==
  /\ clock \in 0 .. MaxClock /\ layers \in Layers /\ badge \in BOOLEAN
  /\ held \in [Options -> BOOLEAN]
  /\ turned \in [Options -> 0 .. MaxClock \cup {Undefined}]
  /\ vouched \in [Assets -> 0 .. MaxClock \cup {Undefined}]
  /\ trustCache \in [Assets -> Cached \cup {Undefined}]
  /\ identity \in [Assets -> {"native", "classic", "non_sac", Undefined}]
  /\ denied \subseteq Assets
  /\ verdicts \in [Options -> Found \cup {Undefined}]
  /\ lookups \in [Options -> Steps]
  /\ read \in [Options -> 0 .. MaxClock \cup {Undefined}]
  /\ active \in Nat /\ queue \in Seq(Options)
  /\ req \in [Requests -> Request]

Running == {o \in Options : lookups[o] \in {"identity", "horizon"} \cup Payability}
Woken == {o \in Options : lookups[o] = "woken"}

\* Lookups that pages share, that fail or that outlive the response they were started
\* for never lose a slot of the limiter: active counts the lookups that run, each pair is
\* looked up once at a time, the queue holds the ones that wait, and while one waits no
\* slot is idle.
LimiterExact ==
  /\ active = Cardinality(Running)
  /\ IsInjective(queue) /\ ToSet(queue) = {o \in Options : lookups[o] = "queued"}
  /\ queue # <<>> => active + Cardinality(Woken) >= MaxConcurrent

\* When the trustline last was as b says; Undefined: never.
LastHeld(o, b) ==
  IF held[o] = b THEN clock ELSE IF b THEN turned[o] ELSE Undefined

\* What a verdict says of an option was so at t or later; of a contract it is always so.
SoSince(o, v, t) ==
  IF IsContract(o) THEN v = "payable" /\ KindOf(AssetOf(o)) # "non_sac"
  ELSE LET last == LastHeld(o, v = "payable") IN last # Undefined /\ last >= t

\* A response that says payable or not_payable of an account says what was so less than
\* a TTL, and the time that answer of Horizon took to arrive, before its page was
\* annotated, whichever request looked it up; of a contract, that its asset is a SAC.
VerdictRecent ==
  \A r \in Requests, o \in Options :
    /\ req[r].pc \in {"pay", "done"}
    /\ req[r].pay[o] \in {"payable", "not_payable"}
    => SoSince(o, req[r].pay[o], req[r].due - BudgetMs - Ttl - req[r].took[o] + 1)

\* What is kept for ever is the contract's own or what the RPC answered: a call that did
\* not complete never makes an asset look like a contract without a name.
IdentityRight ==
  \A a \in Assets :
    identity[a] \in {Undefined, KindOf(a)} \/ (identity[a] = "non_sac" /\ a \in denied)

\* What the payability layer answers from its caches is no older than their terms: a
\* verdict was so within its TTL, counted from when Horizon's answer arrived, and an
\* identity, which never expires, rests on an answer and never on a failure.
CachedIsTrue == VerdictRecent /\ IdentityRight

\* A listing is served as verified only if the catalog gave its owner the badge while the
\* request ran and the API vouched for every asset it asks for within a TTL, no drift seen,
\* whatever other requests asked and cached meanwhile.
VerifiedIsEarned ==
  \A r \in Requests :
    req[r].pc \in {"pay", "done"} /\ StrictMin(AcceptsVerification(r)) = "verified"
    => /\ req[r].badged
       /\ \A o \in Elements(r) :
            vouched[AssetOf(o)] # Undefined /\ vouched[AssetOf(o)] > req[r].from - TrustTtl
=============================================================================
