--------------------------- MODULE CatalogOwnership ---------------------------
(***************************************************************************)
(* Who owns a catalogued resource: the after-settle hook of src/bazaar.ts  *)
(* with upsertFromPayment, bindOwnership, tryDisplace, reverify and        *)
(* authorizeRotation of src/catalog.ts, over the ownership, entry and      *)
(* rotation_authorization tables of src/store.ts, for one resource key.    *)
(*                                                                         *)
(* Every decision is taken on the memory of the process before an await    *)
(* and applied after it. A store write is sent, lands in the database, and *)
(* is answered; the deadline of LibsqlCatalogStore.run may pass before or  *)
(* after it lands, so a write that was reported as failed may land later.  *)
(* A boot reads the ownership and then the entries, and a late write of    *)
(* the process before it may land between the two.                         *)
(* A step goes from one await on the network to the next: an await of a    *)
(* promise that is already resolved lets no other callback in.             *)
(*                                                                         *)
(* A probe of the resource can match an address only when the resource's   *)
(* own 402 challenge names it at some time: Merchants is the set of these. *)
(* The key is one that can be probed. The cooldown after a verdict is a    *)
(* matter of time: a probe that a hook could start may be skipped. The     *)
(* sanitized metadata and the accepts of an entry are left out.            *)
(***************************************************************************)
EXTENDS Integers, FiniteSets

CONSTANTS
  Hooks,      \* settlements of the resource; bound: this many
  PayTos,     \* addresses they pay to
  Merchants,  \* the addresses the resource's own challenge names
  Tool,       \* whether the resource is a tool of an MCP server
  None

ASSUME CatalogAssumption ==
  /\ IsFiniteSet(Hooks)
  /\ Merchants \subseteq PayTos
  /\ Tool \in BOOLEAN

VARIABLES
  \* The database.
  rows,       \* table ownership
  saved,      \* table entry: the stored stats; None: no row
  markers,    \* table rotation_authorization: the rows not yet consumed
  issued,     \* history: every authorization requested; bound: one per pair
  shared,     \* history: addresses that had a row beside another address
  wire,       \* writes sent and neither landed nor lost
  \* The memory of the process.
  ownership,  \* this.ownership.get(key)
  latch,      \* this.everVerified.has(key)
  entry,      \* this.entries.get(key)
  frozen,     \* ownership-unreachable or ownership-invalid
  loading,    \* a boot has read the ownership table and not yet the entries
  inherited,  \* history: the resource had an owner when the process started
  bootQueued, \* the key is in candidates of reverifyLatchedAtBoot, not taken yet
  bootProbe,  \* the binding that reverifyLatchedAtBoot is probing
  \* The hooks.
  hook,       \* the await each is suspended at, and its local variables
  holders,    \* hooks whose local variable entry is the object in entries
  contended   \* history: a first binding completed over another

dbVars == <<rows, saved, markers, issued, shared>>
bootVars == <<frozen, loading, inherited>>
memoryVars == <<ownership, latch, entry, bootVars, bootQueued, bootProbe>>
hookVars == <<hook, holders>>
vars == <<dbVars, wire, memoryVars, hookVars, contended>>

\* boundPayTo: its first element and the whole of it.
Binding == {b \in [owner: PayTos, payTos: SUBSET PayTos] : b.owner \in b.payTos}

\* boundPayTo of an entry that was loaded without an owner: [].
Unbound == [owner |-> None, payTos |-> {}]

\* credits: the payTos whose settlements entry.stats counts.
Entry == [bound: Binding \cup {Unbound}, badge: BOOLEAN, credits: SUBSET PayTos,
          restored: BOOLEAN]

SavedEntry == [credits: SUBSET PayTos]

Times == 0 .. 2 * Cardinality(Hooks) + 1

Row == [payTo: PayTos, at: Times, verified: BOOLEAN]

Pair == PayTos \X PayTos

Writes == [op: {"bind", "displace", "consume", "mark"}, by: Hooks, payTo: PayTos,
           at: Times, from: PayTos]
            \cup [op: {"authorize"}, pair: Pair]

Pcs == {"idle", "bind", "lookup", "probe", "displace", "consume", "reverify",
        "mark", "done"}

\* payTo: requirements.payTo; captured: entry.boundPayTo before the first await;
\* live: hasLiveRotationAuth(rotation); answer: of the write that is awaited.
Hook == [pc: Pcs, payTo: PayTos \cup {None}, captured: Binding \cup {Unbound, None},
         live: BOOLEAN, answer: {"ok", "no", None}]

IdleHook == [pc |-> "idle", payTo |-> None, captured |-> None, live |-> FALSE,
             answer |-> None]

ASSUME NoneAssumption ==
  None \notin Binding \cup {Unbound} \cup Entry \cup SavedEntry \cup PayTos \cup {"ok", "no"}

Init ==
  /\ rows = {} /\ saved = None /\ markers = {} /\ issued = {} /\ shared = {}
  /\ wire = {}
  /\ ownership = None
  /\ latch = FALSE
  /\ entry = None
  /\ frozen = FALSE /\ loading = FALSE /\ inherited = FALSE
  /\ bootQueued = FALSE
  /\ bootProbe = None
  /\ hook = [h \in Hooks |-> IdleHook]
  /\ holders = {}
  /\ contended = FALSE

-----------------------------------------------------------------------------
(* Helpers.                                                                *)

Sole(p) == [owner |-> p, payTos |-> {p}]

FreshEntry(binding) ==
  [bound |-> binding, badge |-> FALSE, credits |-> {}, restored |-> FALSE]

At(h, await) == hook[h].pc = await

Started == {h \in Hooks : ~At(h, "idle")}

\* Date.now() when a binding is sent, and when a displacement starts: times are
\* told apart only by the settlements that began before them.
BindTime == 2 * (Cardinality(Started) + 1)
DisplaceTime == 2 * Cardinality(Started) + 1

\* loadOwnership: rows in the order of bound_at.
Oldest(rs) == CHOOSE r \in rs : \A s \in rs : r.at <= s.at

Loaded(rs) ==
  IF rs = {} THEN None
  ELSE [owner |-> Oldest(rs).payTo, payTos |-> {r.payTo : r \in rs}]

\* One key: verifyInFlight.has(key), and displaceInFlight of a claimant.
VerifyInFlight ==
  bootProbe # None \/ \E h \in Hooks : At(h, "reverify") \/ At(h, "mark")
DisplaceInFlight(p) == \E h \in Hooks : At(h, "probe") /\ hook[h].payTo = p

\* The probe of ownership.ts says match for some of these addresses.
Matches(payTos) == payTos \cap Merchants # {}

\* setVerifiedOwner(key, true) on whatever entry there is.
Badged(e) == IF e = None THEN None ELSE [e EXCEPT !.badge = TRUE]

\* Mutant of Counted: the payTo of the settlement is not compared.
CountedAlways(e, p) ==
  IF e = None THEN None ELSE [e EXCEPT !.credits = @ \cup {p}]

\* recordSettlement
Counted(e, p) ==
  IF e # None /\ p \in e.bound.payTos
  THEN [e EXCEPT !.credits = @ \cup {p}] ELSE e

\* The hook goes on to an await, or is over.
Await(h, await) == hook' = [hook EXCEPT ![h].pc = await]
Over(h) == hook' = [hook EXCEPT ![h] = [IdleHook EXCEPT !.pc = "done"]]

Send(w) == wire' = wire \cup {w}

Write(h, op, at, from) ==
  [op |-> op, by |-> h, payTo |-> hook[h].payTo, at |-> at, from |-> from]

\* upsertFromPayment has returned with entry e in the map, a new object if
\* replaced: the hook counts the settlement, then starts tryDisplace and
\* reverify, which run up to their first await. At most one of them gets there.
\* Counting and reverify look the entry up by its URL alone, which is not the
\* key of an MCP tool: they find no entry, or that of another resource.
AfterUpsert(h, p, e, replaced) ==
  LET bound == e # None /\ p \in e.bound.payTos
      kept == IF replaced THEN {} ELSE holders
      probing(await) == [IdleHook EXCEPT !.pc = await, !.payTo = p,
                                         !.captured = e.bound]
  IN  /\ entry' = IF Tool THEN e ELSE Counted(e, p)
      /\ \/ /\ e = None \/ bound
            /\ Over(h)
            /\ holders' = kept
         \/ /\ bound /\ ~Tool /\ ~e.badge /\ ~VerifyInFlight
            /\ hook' = [hook EXCEPT ![h] = probing("reverify")]
            /\ holders' = kept
         \/ /\ e # None /\ ~bound
            /\ hook' = [hook EXCEPT ![h] = probing("lookup")]
            /\ holders' = kept \cup {h}

-----------------------------------------------------------------------------
(* upsertFromPayment.                                                      *)

\* A settlement by p that needs no write: an address that is not bound, a
\* payload that the schema rejects, a frozen catalog or the tombstone cap, which
\* other resources fill up, refuse it; or it updates or re-creates the entry of
\* a binding that p belongs to.
Settle(h, p) ==
  /\ At(h, "idle") /\ ~loading
  /\ \/ AfterUpsert(h, p, entry, FALSE)
     \/ /\ entry # None /\ p \in entry.bound.payTos
        /\ AfterUpsert(h, p, entry, TRUE)
     \/ /\ entry = None /\ ownership # None /\ p \in ownership.payTos
        /\ AfterUpsert(h, p, FreshEntry(ownership), TRUE)
  /\ UNCHANGED <<dbVars, wire, ownership, latch, bootVars, bootQueued,
                 bootProbe, contended>>

\* Mutant of SettleFirst: a frozen catalog binds.
SettleFirstFrozen(h, p) ==
  /\ At(h, "idle") /\ ~loading
  /\ entry = None /\ ownership = None
  /\ hook' = [hook EXCEPT ![h] = [IdleHook EXCEPT !.pc = "bind", !.payTo = p]]
  /\ Send([op |-> "bind", by |-> h, payTo |-> p, at |-> BindTime, from |-> p])
  /\ UNCHANGED <<dbVars, memoryVars, holders, contended>>

\* The first settlement of the resource: bindOwnership awaits its write.
SettleFirst(h, p) ==
  /\ At(h, "idle") /\ ~loading
  /\ entry = None /\ ownership = None /\ ~frozen
  /\ hook' = [hook EXCEPT ![h] = [IdleHook EXCEPT !.pc = "bind", !.payTo = p]]
  /\ Send([op |-> "bind", by |-> h, payTo |-> p, at |-> BindTime, from |-> p])
  /\ UNCHANGED <<dbVars, memoryVars, holders, contended>>

\* The write has committed: only now the binding is in memory.
Bound(h) ==
  LET p == hook[h].payTo
  IN  /\ At(h, "bind")
      /\ hook[h].answer = "ok"
      /\ ownership' = Sole(p)
      /\ AfterUpsert(h, p, FreshEntry(Sole(p)), TRUE)
      /\ contended' = (contended \/ ownership # None)
      /\ UNCHANGED <<dbVars, wire, latch, bootVars, bootQueued, bootProbe>>

\* A write ends for its hook with an error or its deadline, and is lost or not.
GivesUp(h, op) ==
  /\ At(h, op)
  /\ \/ UNCHANGED wire
     \/ wire' = {w \in wire : w.op = "authorize" \/ w.by # h}

\* Not bound: the upsert is refused, and the hook goes on with whatever entry
\* another settlement has made meanwhile.
BindFails(h) ==
  /\ GivesUp(h, "bind")
  /\ AfterUpsert(h, hook[h].payTo, entry, FALSE)
  /\ UNCHANGED <<dbVars, ownership, latch, bootVars, bootQueued,
                 bootProbe, contended>>

-----------------------------------------------------------------------------
(* tryDisplace.                                                            *)

\* lookupRotationAuthorization answers. Then the latch, which only a marker
\* opens, an entry bound to nobody, and the claimant's own probe in flight.
LookedUp(h) ==
  /\ At(h, "lookup") /\ hook[h].captured # Unbound
  /\ \E live \in {FALSE, <<hook[h].captured.owner, hook[h].payTo>> \in markers} :
       /\ latch => live
       /\ ~DisplaceInFlight(hook[h].payTo)
       /\ hook' = [hook EXCEPT ![h].pc = "probe", ![h].live = live]
  /\ UNCHANGED <<dbVars, wire, memoryVars, holders, contended>>

\* The displacement ends without a write: the lookup threw, the latch or the
\* cooldown stopped it, or the probe did not match.
NotDisplaced(h) ==
  /\ At(h, "lookup") \/ At(h, "probe")
  /\ Over(h)
  /\ holders' = holders \ {h}
  /\ UNCHANGED <<dbVars, wire, memoryVars, contended>>

\* The checks after the probe: a binding that was proven meanwhile stays,
\* unless this claimant has a marker of an owner who is still the owner.
MayDisplace(h) ==
  latch => /\ hook[h].live
           /\ entry # None /\ entry.bound.owner = hook[h].captured.owner

\* Mutant of ProbeMatches: the probe asks for any address known here.
ProbeMatchesAny(h) ==
  LET op == IF latch THEN "consume" ELSE "displace"
  IN  /\ At(h, "probe")
      /\ Matches(hook[h].captured.payTos \cup {hook[h].payTo})
      /\ MayDisplace(h)
      /\ Await(h, op)
      /\ Send(Write(h, op, DisplaceTime, hook[h].captured.owner))
      /\ UNCHANGED <<dbVars, memoryVars, holders, contended>>

\* The probe matched the claimant: the displacement, or the rotation of a
\* proven binding, is written.
ProbeMatches(h) ==
  LET op == IF latch THEN "consume" ELSE "displace"
  IN  /\ At(h, "probe")
      /\ Matches({hook[h].payTo})
      /\ MayDisplace(h)
      /\ Await(h, op)
      /\ Send(Write(h, op, DisplaceTime, hook[h].captured.owner))
      /\ UNCHANGED <<dbVars, memoryVars, holders, contended>>

\* displaceOwnership committed: the entry is dropped and re-ingested, unless the
\* schema rejects the claimant's payload.
Displaced(h) ==
  LET binding == Sole(hook[h].payTo)
  IN  /\ At(h, "displace")
      /\ hook[h].answer = "ok"
      /\ ownership' = binding
      /\ latch' = TRUE
      /\ entry' \in {None, Badged(FreshEntry(binding))}
      /\ holders' = {}
      /\ Over(h)
      /\ UNCHANGED <<dbVars, wire, bootVars, bootQueued,
                 bootProbe, contended>>

\* consumeRotationAuthorizationAndDisplace returned true. The new binding goes
\* into the entry captured before the probe, the badge into the one in the map.
Rotated(h) ==
  LET binding == Sole(hook[h].payTo)
  IN  /\ At(h, "consume")
      /\ hook[h].answer = "ok"
      /\ ownership' = binding
      /\ latch' = TRUE
      /\ entry' = Badged(IF h \in holders
                         THEN [entry EXCEPT !.bound = binding] ELSE entry)
      /\ holders' = holders \ {h}
      /\ Over(h)
      /\ UNCHANGED <<dbVars, wire, bootVars, bootQueued,
                 bootProbe, contended>>

\* The write failed, was refused, or missed its deadline: memory stays.
DisplacementFails(h) ==
  /\ \E op \in {"displace", "consume"} : GivesUp(h, op)
  /\ Over(h)
  /\ holders' = holders \ {h}
  /\ UNCHANGED <<dbVars, memoryVars, contended>>

-----------------------------------------------------------------------------
(* reverify and reverifyLatchedAtBoot.                                     *)

ReverifyRefuses(h) ==
  /\ At(h, "reverify")
  /\ Over(h)
  /\ UNCHANGED <<dbVars, wire, memoryVars, holders, contended>>

\* Mutant of ReverifyMatches: the verdict of the probe is not read.
ReverifyIgnored(h) ==
  /\ At(h, "reverify")
  /\ entry' = Badged(entry)
  /\ latch' = TRUE
  /\ Await(h, "mark")
  /\ Send(Write(h, "mark", 0, hook[h].payTo))
  /\ UNCHANGED <<dbVars, ownership, bootVars, bootQueued, bootProbe, holders,
                 contended>>

\* The challenge names one of the addresses bound when the probe began: the
\* entry in the map gets the badge and the resource the latch; the settler's
\* row is to be marked.
ReverifyMatches(h) ==
  /\ At(h, "reverify")
  /\ Matches(hook[h].captured.payTos)
  /\ entry' = Badged(entry)
  /\ latch' = TRUE
  /\ Await(h, "mark")
  /\ Send(Write(h, "mark", 0, hook[h].payTo))
  /\ UNCHANGED <<dbVars, ownership, bootVars, bootQueued, bootProbe, holders,
                 contended>>

\* markVerified is over, with or without success.
Marked(h) ==
  /\ GivesUp(h, "mark")
  /\ Over(h)
  /\ UNCHANGED <<dbVars, memoryVars, holders, contended>>

\* A worker takes the key from candidates.
BootProbeStarts ==
  /\ bootQueued
  /\ bootQueued' = FALSE
  /\ bootProbe' = IF entry = None \/ entry.badge \/ VerifyInFlight
                  THEN bootProbe ELSE entry.bound
  /\ UNCHANGED <<dbVars, wire, ownership, latch, entry, bootVars, hookVars,
                 contended>>

BootProbeEnds ==
  /\ bootProbe # None
  /\ bootProbe' = None
  /\ entry' \in {entry} \cup (IF Matches(bootProbe.payTos)
                              THEN {Badged(entry)} ELSE {})
  /\ UNCHANGED <<dbVars, wire, ownership, latch, bootVars, bootQueued, hookVars,
                 contended>>

-----------------------------------------------------------------------------
(* authorizeRotation, from the hook of a settlement to the marker address. *)

\* The three-way match holds: the authenticated payer is the current owner.
AuthorizeRotation(old, new) ==
  /\ entry # None /\ entry.bound.owner = old
  /\ new # old
  /\ <<old, new>> \notin issued
  /\ issued' = issued \cup {<<old, new>>}
  /\ Send([op |-> "authorize", pair |-> <<old, new>>])
  /\ UNCHANGED <<rows, saved, markers, shared, memoryVars, hookVars, contended>>

-----------------------------------------------------------------------------
(* The database.                                                           *)

Answer(w, a) ==
  hook' = IF At(w.by, w.op) THEN [hook EXCEPT ![w.by].answer = a] ELSE hook

\* bindAndUpsertEntry: (resource_key, pay_to) is the primary key.
LandBind(w) ==
  IF \E r \in rows : r.payTo = w.payTo
  THEN Answer(w, "no") /\ UNCHANGED <<rows, saved>>
  ELSE /\ rows' = rows \cup {[payTo |-> w.payTo, at |-> w.at, verified |-> FALSE]}
       /\ saved' = [credits |-> {}]
       /\ Answer(w, "ok")

\* displaceOwnership: DELETE and INSERT in one batch.
ReplaceRows(w) ==
  /\ rows' = {[payTo |-> w.payTo, at |-> w.at, verified |-> TRUE]}
  /\ Answer(w, "ok")

\* The interactive transaction: the marker is unspent and the first row is
\* still the old owner's, or everything is rolled back.
LandConsume(w) ==
  IF /\ <<w.from, w.payTo>> \in markers
     /\ rows # {} /\ Oldest(rows).payTo = w.from
  THEN ReplaceRows(w) /\ markers' = markers \ {<<w.from, w.payTo>>}
  ELSE Answer(w, "no") /\ UNCHANGED <<rows, markers>>

\* markVerified updates the settler's row, if there is one.
LandMark(w) ==
  /\ rows' = {IF r.payTo = w.payTo THEN [r EXCEPT !.verified = TRUE] ELSE r :
                r \in rows}
  /\ Answer(w, "ok")

Beside(rs) == {r.payTo : r \in {r \in rs : \E s \in rs : s.payTo # r.payTo}}

Land(w) ==
  /\ wire' = wire \ {w}
  /\ \/ w.op = "bind" /\ LandBind(w) /\ UNCHANGED markers
     \/ w.op = "displace" /\ ReplaceRows(w) /\ UNCHANGED <<saved, markers>>
     \/ w.op = "consume" /\ LandConsume(w) /\ UNCHANGED saved
     \/ w.op = "mark" /\ LandMark(w) /\ UNCHANGED <<saved, markers>>
     \/ w.op = "authorize" /\ markers' = markers \cup {w.pair}
          /\ UNCHANGED <<rows, saved, hook>>
  /\ shared' = shared \cup Beside(rows')
  /\ UNCHANGED <<issued, memoryVars, holders, contended>>

\* The debounced save() writes the stats of the entries in memory; its writes
\* are never behind one another.
Flush ==
  /\ entry # None
  /\ saved' = [credits |-> entry.credits]
  /\ UNCHANGED <<rows, markers, issued, shared, wire, memoryVars, hookVars,
                 contended>>

-----------------------------------------------------------------------------
(* The process.                                                            *)

\* evictToCap, when other resources fill the catalog. Ownership stays.
Evict ==
  /\ entry # None
  /\ entry' = None
  /\ holders' = {}
  /\ UNCHANGED <<dbVars, wire, ownership, latch, bootVars, bootQueued, bootProbe,
                 hook, contended>>

\* The process dies, with its hooks, and BazaarCatalog.create reads the ownership
\* table. Writes on the wire may still land, now or after any later read.
\* Ownership that cannot be read leaves an empty, frozen catalog.
Restart ==
  /\ wire' \in SUBSET wire
  /\ hook' = [h \in Hooks |-> IF At(h, "idle") THEN IdleHook
                              ELSE [IdleHook EXCEPT !.pc = "done"]]
  /\ holders' = {}
  /\ entry' = None /\ bootQueued' = FALSE /\ bootProbe' = None
  /\ inherited' = (rows # {})
  /\ \/ /\ frozen' = TRUE /\ loading' = FALSE
        /\ ownership' = None /\ latch' = FALSE
     \/ /\ frozen' = FALSE /\ loading' = TRUE
        /\ ownership' = Loaded(rows)
        /\ latch' = \E r \in rows : r.verified
  /\ UNCHANGED <<dbVars, contended>>

\* bindLoadedEntry: the owner is the one read before the entry, the badge is
\* never trusted from disk.
LoadedEntry(credits) ==
  [bound |-> IF ownership = None THEN Unbound ELSE ownership,
   badge |-> FALSE, credits |-> credits, restored |-> TRUE]

\* load: entries that cannot be read leave the catalog empty, and so does a row
\* that the schema rejects. Then the server listens and reverifyLatchedAtBoot
\* lists its candidates.
LoadEntries ==
  /\ loading /\ loading' = FALSE
  /\ entry' \in {None} \cup (IF saved = None THEN {}
                             ELSE {LoadedEntry(saved.credits)})
  /\ bootQueued' = (latch /\ entry' # None /\ entry'.bound # Unbound)
  /\ UNCHANGED <<dbVars, wire, ownership, latch, frozen, inherited, bootProbe,
                 hookVars, contended>>

HookStep(h) ==
  \/ \E p \in PayTos : Settle(h, p) \/ SettleFirst(h, p)
  \/ Bound(h) \/ BindFails(h)
  \/ LookedUp(h) \/ NotDisplaced(h) \/ ProbeMatches(h)
  \/ Displaced(h) \/ Rotated(h) \/ DisplacementFails(h)
  \/ ReverifyRefuses(h) \/ ReverifyMatches(h) \/ Marked(h)

Next ==
  \/ \E h \in Hooks : HookStep(h)
  \/ \E old, new \in PayTos : AuthorizeRotation(old, new)
  \/ \E w \in wire : Land(w)
  \/ BootProbeStarts \/ BootProbeEnds \/ Flush \/ Evict
  \/ Restart \/ LoadEntries

Spec == Init /\ [][Next]_vars

-----------------------------------------------------------------------------
(* Properties.                                                             *)

\* The tables, the maps and the hooks' local variables have their types.
TypeOK ==
  /\ rows \in SUBSET Row
  /\ saved \in SavedEntry \cup {None}
  /\ markers \subseteq issued /\ issued \subseteq Pair
  /\ shared \subseteq PayTos
  /\ wire \subseteq Writes
  /\ ownership \in Binding \cup {None}
  /\ latch \in BOOLEAN /\ frozen \in BOOLEAN /\ contended \in BOOLEAN
  /\ loading \in BOOLEAN /\ inherited \in BOOLEAN /\ bootQueued \in BOOLEAN
  /\ entry \in Entry \cup {None}
  /\ bootProbe \in Binding \cup {None}
  /\ hook \in [Hooks -> Hook]
  /\ holders \subseteq Hooks

\* "It must never optimistically bind and hope the write lands": whatever is
\* bound, listed or stored as an entry has an ownership row; an entry listed
\* without an owner is bound to nobody; and a resource that had an owner when the
\* process started is never asked for a first binding again, even if the process
\* could not read whose it is. So no restart reopens a resource to a first-writer
\* claim, whichever writes failed, timed out or landed between the two reads.
BindingIsDurable ==
  /\ ownership # None \/ entry # None \/ saved # None => rows # {}
  /\ entry # None /\ ownership = None => entry.bound = Unbound
  /\ inherited => \A h \in Hooks : ~At(h, "bind")

\* A latched binding contains an address that the resource's own challenge
\* named: the latch never protects a binding nobody proved, through eviction,
\* restart and late writes, unless two first settlements overlapped.
LatchHasProof ==
  latch /\ ~contended => ownership # None /\ Matches(ownership.payTos)

\* The verified badge is on an entry bound to an address the challenge named,
\* although the probe that earned it may have begun on another entry.
BadgeEarned ==
  entry # None /\ entry.badge /\ ~contended => Matches(entry.bound.payTos)

\* The rows from which the latch is rebuilt at boot are never verified without
\* one of them belonging to an address that the challenge named.
VerifiedRowsProven ==
  (\E r \in rows : r.verified) => Matches({r.payTo : r \in rows})

\* Trust always rests on proof: the latch, the badge and the verified rows say
\* that the resource's own challenge named a bound address, through eviction,
\* restart, probes that outlive their entry and writes that land late.
ProvenTrust == LatchHasProof /\ BadgeEarned /\ VerifiedRowsProven

\* The addresses whose settlements may stay in the statistics: an owner who
\* authorized a rotation, an address that the resource's own challenge names,
\* and one that shared the binding because two first settlements overlapped.
Rotators == {pair[1] : pair \in issued}
Known == Rotators \cup Merchants \cup shared

\* Statistics shown as observed count only settlements of the bound addresses
\* and of these, never of a squatter who was displaced.
ObservedStats ==
  entry # None /\ ~entry.restored =>
    entry.credits \subseteq entry.bound.payTos \cup Known

\* Outside a restart the owner in memory changes only to an address that the
\* challenge named, unless two first settlements overlapped.
DisplacedOnProof ==
  [][ownership # None /\ ownership' # None
       /\ ownership'.owner # ownership.owner /\ ~contended'
     => ownership'.owner \in Merchants \/ Restart]_vars

Slot == INSTANCE ResourceBinding WITH
  bound  <- {r.payTo : r \in rows},
  proven <- \E r \in rows : r.verified,
  owner  <- IF ownership = None THEN None ELSE ownership.owner

\* The catalog keeps the promise of ResourceBinding: the rows in the database and the
\* owner in memory change, apart and in any order, by its steps only, whatever hooks
\* have decided before an await and whenever their writes land.
ImplementsBinding == Slot!Spec
=============================================================================
