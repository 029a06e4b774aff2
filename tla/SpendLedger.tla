------------------------------ MODULE SpendLedger ------------------------------
(***************************************************************************)
(* SpendPolicy of src/policy.ts with its rows in the store                 *)
(* (spend_reservation, src/store.ts): checkSettle with its rate and spend  *)
(* budgets, refundUnspent, adjustReservation, the sweep of elapsed rows,   *)
(* boot() and a crash of the process, as /settle calls them.               *)
(*                                                                         *)
(* A write is a query on its way to the database: it may land out of order *)
(* (each query is an HTTP request of its own), after its deadline, after   *)
(* the process that sent it has died, or stay on its way for ever, which   *)
(* is how a query that fails looks: persist() swallows the failure.        *)
(* `status` of a row is left out: boot() loads a row whatever its status.  *)
(* Module SpendBudget says what the ledger promises.                       *)
(***************************************************************************)
EXTENDS Integers, SequencesExt

CONSTANTS
  Requests,        \* runs of the settle pipeline
  PayTos, Urls,    \* what a settle is budgeted against
  None,
  PerPayToMax, PerUrlMax, UnboundPoolMax, RateWindow,
  Estimate,        \* perSettleEstimateStroops, the cap of a transaction's fee
  Ceiling,         \* spendCeilingStroops
  Window,          \* spendWindowMs
  CleanupEvery,    \* DB_CLEANUP_INTERVAL_MS
  Enforced,        \* pubnet: a tripped limit refuses; testnet: it is logged
  Epoch, End,      \* bound: the clock runs from Epoch to End
  MaxCrashes       \* bound on crashes

ASSUME LedgerAssumption ==
  /\ IsFiniteSet(Requests) /\ None \notin Requests
  /\ {PerPayToMax, PerUrlMax, UnboundPoolMax, Ceiling, MaxCrashes} \subseteq Nat
  /\ {RateWindow, Estimate, Window, CleanupEvery} \subseteq Nat \ {0}
  /\ Enforced \in BOOLEAN
  /\ Epoch \in Nat /\ End \in Nat /\ Epoch <= End
  /\ Window < Epoch /\ CleanupEvery <= Epoch

VARIABLES
  now,
  up,                 \* the process runs and boot() is over
  globalSpend,        \* sequence of entries [owner, id, at, stroops]
  counted,            \* requests in perPayTo, perUrl and unboundPool
  nextReservationId,
  lastDbCleanupAt,
  pc,                 \* per request: where its settle stands
  ident, token,       \* per request: its SettleIdentity, its reservation id
  madeAt,             \* per request: when it reserved
  rows,               \* the table spend_reservation, by id
  writes,             \* upserts on their way, oldest first
  sweeps,             \* cutoffs of the DELETEs on their way
  crashes,
  issued,             \* history: the entries ever booked, [owner, at, stroops]
  untidy              \* history: requests a write of which was overtaken

memVars == <<globalSpend, counted, nextReservationId, lastDbCleanupAt>>
requestVars == <<pc, ident, token, madeAt>>
storeVars == <<rows, writes, sweeps>>
vars == <<now, up, memVars, requestVars, storeVars, crashes, issued, untidy>>

Identity == [payTo : PayTos, url : Urls, bound : BOOLEAN]

Ids == 1..Cardinality(Requests)

\* e.owner names the request whose reservation the entry is; the code has only id.
Entry(r, id, at, stroops) ==
  [owner |-> r, id |-> id, at |-> at, stroops |-> stroops]

InWindow(e) == e.at > now - Window

\* A set of numbers in ascending order.
Ascending(S) ==
  CHOOSE order \in [1..Cardinality(S) -> S] :
    \A m, n \in DOMAIN order : m < n => order[m] < order[n]

Init ==
  /\ now = Epoch
  /\ up = TRUE
  /\ globalSpend = <<>> /\ counted = {}
  /\ nextReservationId = 1 /\ lastDbCleanupAt = 0
  /\ pc = [r \in Requests |-> "idle"]
  /\ ident = [r \in Requests |-> None]
  /\ token = [r \in Requests |-> 0]
  /\ madeAt = [r \in Requests |-> 0]
  /\ rows = [id \in Ids |-> None]
  /\ writes = <<>> /\ sweeps = {}
  /\ crashes = 0 /\ issued = {} /\ untidy = {}

-----------------------------------------------------------------------------
(* checkSettle: evaluate() reads every budget, reserve() counts in all.    *)

\* The settles that prune leaves in the lists of times.
Recent == {r \in counted : madeAt[r] > now - RateWindow}

OfPayTo(p) == Cardinality({r \in Recent : ident[r].payTo = p})
OfUrl(u) == Cardinality({r \in Recent : ident[r].bound /\ ident[r].url = u})
InUnboundPool == Cardinality({r \in Recent : ~ident[r].bound})

\* Mutant of RateLimited: a budget admits one settle too many.
RateOverrun(i) ==
  \/ OfPayTo(i.payTo) > PerPayToMax
  \/ i.bound /\ OfUrl(i.url) > PerUrlMax
  \/ ~i.bound /\ InUnboundPool > UnboundPoolMax

RateLimited(i) ==
  \/ OfPayTo(i.payTo) >= PerPayToMax
  \/ i.bound /\ OfUrl(i.url) >= PerUrlMax
  \/ ~i.bound /\ InUnboundPool >= UnboundPoolMax

LiveSpend ==
  LET kept == Ascending({i \in DOMAIN globalSpend : InWindow(globalSpend[i])})
  IN  [n \in DOMAIN kept |-> globalSpend[kept[n]]]

WindowSpend == SumFunction([n \in DOMAIN LiveSpend |-> LiveSpend[n].stroops])

\* Mutant of OverCeiling: the estimate of this settle is left out of the sum.
OverCeilingBefore == WindowSpend > Ceiling

OverCeiling == WindowSpend + Estimate > Ceiling

\* The rate budgets return first: then globalSpend is not filtered.
Evaluated(i) == IF RateLimited(i) THEN globalSpend ELSE LiveSpend

Refuse(r, i) ==
  /\ up /\ pc[r] = "idle"
  /\ Enforced /\ (RateLimited(i) \/ OverCeiling)
  /\ globalSpend' = Evaluated(i)
  /\ pc' = [pc EXCEPT ![r] = "refused"]
  /\ UNCHANGED <<now, up, counted, nextReservationId, lastDbCleanupAt, ident,
                 token, madeAt, storeVars, crashes, issued, untidy>>

Persist(entries) == writes' = writes \o entries

CleanupDue == now - lastDbCleanupAt >= CleanupEvery

Reserve(r, i) ==
  LET entry == Entry(r, nextReservationId, now, Estimate)
  IN  /\ up /\ pc[r] = "idle"
      /\ Enforced => ~RateLimited(i) /\ ~OverCeiling
      /\ globalSpend' = Append(Evaluated(i), entry)
      /\ counted' = counted \cup {r}
      /\ ident' = [ident EXCEPT ![r] = i]
      /\ token' = [token EXCEPT ![r] = nextReservationId]
      /\ madeAt' = [madeAt EXCEPT ![r] = now]
      /\ nextReservationId' = nextReservationId + 1
      /\ pc' = [pc EXCEPT ![r] = "reserved"]
      /\ Persist(<<entry>>)
      /\ lastDbCleanupAt' = IF CleanupDue THEN now ELSE lastDbCleanupAt
      /\ sweeps' = IF CleanupDue THEN sweeps \cup {now - Window} ELSE sweeps
      /\ issued' = issued \cup {[owner |-> r, at |-> now, stroops |-> Estimate]}
      /\ UNCHANGED <<now, up, rows, crashes, untidy>>

-----------------------------------------------------------------------------
(* What becomes of a reservation: found by id, the first match wins.       *)

Goto(r, from, to) ==
  /\ up /\ pc[r] = from
  /\ pc' = [pc EXCEPT ![r] = to]

HasToken(r, e) == e.id = token[r]

Index(r) == SelectInSeq(globalSpend, LAMBDA e : HasToken(r, e))

Spliced(r) == RemoveFirstMatch(globalSpend, LAMBDA e : HasToken(r, e))

StepUnchanged ==
  UNCHANGED <<now, up, counted, nextReservationId, lastDbCleanupAt, ident,
              token, madeAt, rows, sweeps, crashes, untidy>>

\* facilitator.settle() hands the transaction to the network.
Submit(r) ==
  /\ Goto(r, "reserved", "submitted")
  /\ UNCHANGED <<globalSpend, writes, issued>>
  /\ StepUnchanged

\* Mutant of RefundUnspent: the row keeps the amount it had.
RefundInMemory(r) ==
  /\ Goto(r, "reserved", "refunded")
  /\ globalSpend' = Spliced(r)
  /\ UNCHANGED <<writes, issued>>
  /\ StepUnchanged

\* The settle never reached the network: its row is overwritten at `at: 0`.
RefundUnspent(r) ==
  /\ Goto(r, "reserved", "refunded")
  /\ globalSpend' = Spliced(r)
  /\ Persist(<<Entry(r, token[r], 0, 0)>>)
  /\ UNCHANGED issued
  /\ StepUnchanged

\* A refusal that returns early, or a submission whose fee was not captured.
KeepEstimate(r) ==
  /\ \E from \in {"reserved", "submitted"} : Goto(r, from, "done")
  /\ UNCHANGED <<globalSpend, writes, issued>>
  /\ StepUnchanged

AdjustReservation(r, stroops) ==
  IF Index(r) = 0
  THEN UNCHANGED <<globalSpend, writes, issued>>
  ELSE LET entry == [globalSpend[Index(r)] EXCEPT !.stroops = stroops]
       IN  /\ globalSpend' = ReplaceAt(globalSpend, Index(r), entry)
           /\ Persist(<<[entry EXCEPT !.owner = r]>>)
           /\ issued' = issued \cup
                {[owner |-> entry.owner, at |-> entry.at, stroops |-> stroops]}

\* Down from the estimate to the submitted fee, awaited by /settle.
Correct(r) ==
  /\ Goto(r, "submitted", "reconciling")
  /\ \E fee \in 1..Estimate : AdjustReservation(r, fee)
  /\ StepUnchanged

Booked(r) ==
  IF Index(r) = 0 THEN 0 ELSE globalSpend[Index(r)].stroops

\* reconcileSpendReservation: the fee charged, the last amount, or no answer.
Reconcile(r) ==
  /\ Goto(r, "reconciling", "done")
  /\ \/ \E charged \in 0..Booked(r) : AdjustReservation(r, charged)
     \/ UNCHANGED <<globalSpend, writes, issued>>
  /\ StepUnchanged

-----------------------------------------------------------------------------
(* The store.                                                              *)

StoreUnchanged ==
  UNCHANGED <<now, up, memVars, requestVars, crashes, issued>>

Overtaken(i) == {j \in 1..(i - 1) : writes[j].id = writes[i].id}

SaveSpendReservation(i) ==
  /\ rows' = [rows EXCEPT ![writes[i].id] = writes[i]]
  /\ writes' = RemoveAt(writes, i)
  /\ untidy' = untidy \cup
       IF Overtaken(i) = {} THEN {}
       ELSE {writes[j].owner : j \in Overtaken(i) \cup {i}}
  /\ UNCHANGED sweeps
  /\ StoreUnchanged

Swept(cutoff) ==
  [id \in Ids |-> IF rows[id] # None /\ rows[id].at <= cutoff
                  THEN None ELSE rows[id]]

DeleteElapsedSpendReservations(cutoff) ==
  /\ rows' = Swept(cutoff)
  /\ sweeps' = sweeps \ {cutoff}
  /\ UNCHANGED <<writes, untidy>>
  /\ StoreUnchanged

-----------------------------------------------------------------------------
(* A crash, and boot().                                                    *)

Over == {"idle", "refused", "refunded", "done"}

Crash ==
  /\ up /\ crashes < MaxCrashes
  /\ up' = FALSE
  /\ crashes' = crashes + 1
  /\ globalSpend' = <<>> /\ counted' = {}
  /\ nextReservationId' = 1 /\ lastDbCleanupAt' = 0
  /\ pc' = [r \in Requests |->
              IF pc[r] \in Over THEN pc[r] ELSE "died"]
  /\ UNCHANGED <<now, ident, token, madeAt, storeVars, issued, untidy>>

\* The query orders nothing; sums and searches by id do not depend on the order,
\* which is by id here.
OpenRows == {id \in Ids : rows[id] # None /\ InWindow(rows[id])}

\* One past the highest id loaded.
SeededId == IF OpenRows = {} THEN 1 ELSE Max(OpenRows) + 1

Boot ==
  /\ ~up
  /\ up' = TRUE
  /\ globalSpend' = [n \in 1..Cardinality(OpenRows) |->
                       rows[Ascending(OpenRows)[n]]]
  /\ nextReservationId' = SeededId
  /\ sweeps' = sweeps \cup {now - Window}
  /\ untidy' = untidy \cup {writes[i].owner : i \in DOMAIN writes}
  /\ UNCHANGED <<now, counted, lastDbCleanupAt, requestVars, rows, writes,
                 crashes, issued>>

Tick ==
  /\ now < End
  /\ now' = now + 1
  /\ UNCHANGED <<up, memVars, requestVars, storeVars, crashes, issued, untidy>>

Request(r) ==
  \/ \E i \in Identity : Refuse(r, i) \/ Reserve(r, i)
  \/ Submit(r) \/ RefundUnspent(r) \/ KeepEstimate(r)
  \/ Correct(r) \/ Reconcile(r)

Database ==
  \/ \E i \in DOMAIN writes : SaveSpendReservation(i)
  \/ \E cutoff \in sweeps : DeleteElapsedSpendReservations(cutoff)

Next ==
  \/ \E r \in Requests : Request(r)
  \/ Database \/ Crash \/ Boot \/ Tick

Spec == Init /\ [][Next]_vars

-----------------------------------------------------------------------------
(* Properties.                                                             *)

EntryType ==
  [owner : Requests, id : Ids, at : 0..End, stroops : 0..Estimate]

ASSUME NoneIsNoEntry == None \notin EntryType

\* The types of the state.
TypeOK ==
  /\ now \in Epoch..End /\ up \in BOOLEAN
  /\ Range(globalSpend) \subseteq EntryType
  /\ counted \subseteq Requests
  /\ nextReservationId \in Ids \cup {Cardinality(Requests) + 1}
  /\ lastDbCleanupAt \in 0..End
  /\ ident \in [Requests -> Identity \cup {None}]
  /\ token \in [Requests -> Ids \cup {0}]
  /\ madeAt \in [Requests -> 0..End]
  /\ rows \in [Ids -> EntryType \cup {None}]
  /\ Range(writes) \subseteq EntryType
  /\ sweeps \subseteq Int
  /\ untidy \subseteq Requests

Budgeted(e) == [owner |-> e.owner, at |-> e.at, stroops |-> e.stroops]

Budget == INSTANCE SpendBudget WITH
  Owners <- Requests,
  booked <- {Budgeted(e) : e \in Range(globalSpend)},
  past <- issued

\* Whatever the store loses, delays or reorders, and across a crash, the ledger
\* is a budget: booked under the ceiling, only ever lowered, never made up.
ImplementsBudget == Budget!Spec

Admitted(Counts(_), s) ==
  Cardinality({r \in counted : Counts(ident[r]) /\ madeAt[r] \in s..(s + RateWindow - 1)})

\* In every stretch of RateWindow, not only up to now, one process admits no
\* more settles of an address, of a bound URL and of all unbound URLs together
\* than their budgets.
RatesBounded ==
  Enforced => \A s \in Epoch..End :
    /\ \A p \in PayTos : Admitted(LAMBDA j : j.payTo = p, s) <= PerPayToMax
    /\ \A u \in Urls : Admitted(LAMBDA j : j.bound /\ j.url = u, s) <= PerUrlMax
    /\ Admitted(LAMBDA j : ~j.bound, s) <= UnboundPoolMax

Pending(r) == \E i \in DOMAIN writes : writes[i].owner = r

\* A reservation all of whose writes landed in the order they were sent counts
\* at its last amount in every process until its window elapses, and one that
\* was refunded counts in none: a restart neither loses nor revives it.
BookedSurvivesRestart ==
  up => \A r \in Requests \ untidy :
    pc[r] \notin {"idle", "refused"} /\ ~Pending(r) /\ madeAt[r] > now - Window
      => LET mine == {e \in Range(globalSpend) : e.owner = r}
         IN  IF pc[r] = "refunded" THEN mine = {}
             ELSE \E e \in mine : mine = {e} /\ rows[token[r]] = e
=============================================================================
