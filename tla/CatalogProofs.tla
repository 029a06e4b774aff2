----------------------------- MODULE CatalogProofs -----------------------------
(***************************************************************************)
(* Theorems about the catalog: whose a resource is (CatalogOwnership), how *)
(* it is found (SearchIndex) and what a page says of it (DiscoveryProbes), *)
(* for any number of settlements, entries, requests and assets.            *)
(*                                                                         *)
(* CatalogOwnership. Trust rests on two facts that never become false      *)
(* again once they are true: the rows name an address that the resource's  *)
(* own challenge names (RowsProven), and the binding in memory does, or    *)
(* two first bindings have overlapped (Trusted). Whatever a hook carries   *)
(* over an await or puts on the wire is either such a fact or implies one, *)
(* so that it does not matter when it is used. A boot reads the ownership  *)
(* and the entries apart, and what it found is BootedInv: an entry without *)
(* an owner stays one that nobody can settle. That the catalog implements  *)
(* ResourceBinding needs one more invariant: as long as a resource has no  *)
(* row, its settlements have only asked for the first one.                 *)
(*                                                                         *)
(* SearchIndex. SearchInv says of the tables, of the memory and of what is *)
(* under way that each vector is under the key it was computed for; that   *)
(* search answers, and in the order of its rankings, follows from the      *)
(* types alone.                                                            *)
(*                                                                         *)
(* DiscoveryProbes. ProbesInv is about the limiter and the identities;     *)
(* PayInv dates every verdict by the last instant at which it was so,      *)
(* counted from Horizon's reading of the account and not from the arrival  *)
(* of its answer; EarnedInv dates every badge and every answer of the      *)
(* verification API.                                                       *)
(***************************************************************************)
EXTENDS CatalogOwnership, SearchIndex, DiscoveryProbes, FiniteSums

-----------------------------------------------------------------------------
(* The inductive invariant.                                                *)

RowsProven == Matches({r.payTo : r \in rows})

OwnerProven == ownership # None /\ Matches(ownership.payTos)

Trusted == contended \/ OwnerProven

\* All of a binding's addresses but a sole owner have shared it.
SoleOrShared(b) == b.payTos = {b.owner} \/ b.payTos \subseteq shared

RowInv ==
  /\ saved # None => rows # {}
  /\ (\E r \in rows : r.verified) => RowsProven
  /\ Beside(rows) \subseteq shared

OwnerInv ==
  /\ ownership # None => rows # {} /\ SoleOrShared(ownership)
  /\ OwnerProven => RowsProven
  /\ latch => Trusted

EntryInv(e) ==
  e # None =>
    /\ rows # {}
    /\ e.bound # Unbound => ownership # None
    /\ SoleOrShared(e.bound)
    /\ Matches(e.bound.payTos) => RowsProven /\ Trusted
    /\ OwnerProven /\ ~contended => Matches(e.bound.payTos)
    /\ e.badge => Trusted
    /\ ~e.restored => e.credits \subseteq e.bound.payTos \cup Known

BootInv == bootProbe # None /\ Matches(bootProbe.payTos) => Trusted

\* What a hook has seen before its await and uses after it.
HookInv(x) ==
  /\ x.pc \in Pcs \ {"idle", "done"} => x.payTo \in PayTos
  /\ x.pc = "lookup" => x.captured \in Binding \cup {Unbound}
  /\ x.pc \in {"probe", "displace", "consume", "reverify"} => x.captured \in Binding
  /\ x.pc \in {"displace", "consume"} => x.payTo \in Merchants
  /\ x.answer = "ok" /\ x.pc # "mark" =>
       rows # {} /\ (x.payTo \in Merchants => RowsProven)
  /\ x.pc = "reverify" /\ Matches(x.captured.payTos) => RowsProven /\ Trusted
  /\ x.pc = "consume" => Trusted
  /\ x.pc = "probe" /\ x.live => x.captured.owner \in Rotators

\* A write says what its hook stood for when it was sent.
WireInv(w) ==
  /\ w.op = "authorize" => w.pair \in issued
  /\ w.op # "authorize" => ~At(w.by, "idle")
  /\ w.op = "bind" /\ At(w.by, "bind") => w.payTo = hook[w.by].payTo
  /\ w.op \in {"displace", "consume"} => w.payTo \in Merchants
  /\ w.op = "mark" => RowsProven

\* A hook that holds the listed entry and rotates it has seen its owner ask.
HolderInv ==
  \A h \in holders :
    /\ hook[h].pc \in {"lookup", "probe", "displace", "consume"}
    /\ entry # None
    /\ At(h, "consume") => entry.bound.payTos \subseteq Known

IInv ==
  /\ TypeOK
  /\ RowInv /\ OwnerInv /\ EntryInv(entry) /\ BootInv
  /\ \A h \in Hooks : HookInv(hook[h])
  /\ \A w \in wire : WireInv(w)
  /\ HolderInv

\* What the process has read at its boot. While it has not read the entries, it
\* has none and answers nobody; an entry bound to nobody stays that until it is
\* evicted, as the hooks of its settlements only look for a rotation; and a
\* resource that had an owner has one in memory, or the catalog is frozen.
BootedInv ==
  /\ loading => /\ entry = None
                /\ \A h \in Hooks : hook[h].pc \in {"idle", "done"}
  /\ entry # None /\ entry.bound = Unbound =>
       /\ ownership = None /\ ~bootQueued
       /\ \A h \in Hooks :
            /\ hook[h].pc \in {"idle", "done", "lookup"}
            /\ At(h, "lookup") => hook[h].captured = Unbound
  /\ inherited => /\ frozen \/ ownership # None
                  /\ \A h \in Hooks : ~At(h, "bind")

-----------------------------------------------------------------------------
(* What never becomes false again.                                         *)

Lasts ==
  /\ rows # {} => rows' # {}
  /\ RowsProven => RowsProven'
  /\ Trusted => Trusted'
  /\ issued \subseteq issued' /\ shared \subseteq shared'

LEMMA KnownLasts == Lasts => Rotators \subseteq Rotators' /\ Known \subseteq Known'
BY DEF Lasts, Rotators, Known

LEMMA HookLasts ==
  ASSUME NEW x, HookInv(x), Lasts
  PROVE  HookInv(x)'
BY KnownLasts DEF HookInv, Lasts, Matches

\* No hook returns to its start, and none but the first settlement's binds.
Onward(q) ==
  /\ At(q, "idle")' => At(q, "idle")
  /\ At(q, "bind")' => At(q, "bind") /\ hook'[q].payTo = hook[q].payTo

LEMMA WireLasts ==
  ASSUME NEW w, WireInv(w), Lasts, w.op # "authorize" => Onward(w.by)
  PROVE  WireInv(w)'
BY DEF WireInv, Lasts, Onward, At

\* The parts of a step that are left to show.
LEMMA StepKeeps ==
  ASSUME IInv, Lasts, TypeOK', RowInv', OwnerInv', EntryInv(entry)', BootInv',
         HolderInv',
         \A q \in Hooks : /\ Onward(q)
                          /\ hook'[q] = hook[q] \/ HookInv(hook[q])',
         \A w \in wire' : w \in wire \/ WireInv(w)'
  PROVE  IInv'
<1>1. \A q \in Hooks : HookInv(hook[q])'
  <2> SUFFICES ASSUME NEW q \in Hooks, hook'[q] = hook[q] PROVE HookInv(hook[q])'
    OBVIOUS
  <2>1. PICK x : x = hook[q]
    OBVIOUS
  <2>2. HookInv(x)'
    BY <2>1, HookLasts DEF IInv
  <2> QED BY <2>1, <2>2 DEF HookInv
<1>2. \A w \in wire' : WireInv(w)'
  <2> SUFFICES ASSUME NEW w \in wire', w \in wire PROVE WireInv(w)'
    OBVIOUS
  <2>1. w.op # "authorize" => w.by \in Hooks
    BY DEF IInv, TypeOK, Writes
  <2> QED BY <2>1, WireLasts DEF IInv
<1> QED BY <1>1, <1>2 DEF IInv

-----------------------------------------------------------------------------
(* Types of what the helpers return.                                       *)

LEMMA IdleType == IdleHook \in Hook
BY DEF IdleHook, Hook, Pcs

LEMMA SoleType ==
  ASSUME NEW p \in PayTos
  PROVE  /\ Sole(p) \in Binding /\ Sole(p).owner = p /\ Sole(p).payTos = {p}
         /\ Sole(p) # None
BY NoneAssumption DEF Sole, Binding

LEMMA FreshType ==
  ASSUME NEW b \in Binding
  PROVE  /\ FreshEntry(b) \in Entry /\ FreshEntry(b) # None
         /\ FreshEntry(b).bound = b /\ b # Unbound /\ FreshEntry(b).badge = FALSE
         /\ FreshEntry(b).credits = {} /\ FreshEntry(b).restored = FALSE
<1>1. FreshEntry(b) \in Entry
  BY DEF FreshEntry, Entry
<1>2. PICK u : u = Unbound
  OBVIOUS
<1>3. u.payTos = {} /\ b.owner \in b.payTos
  BY <1>2 DEF Unbound, Binding
<1>4. b # Unbound
  BY <1>2, <1>3
<1> QED BY <1>1, <1>4, NoneAssumption DEF FreshEntry

LEMMA BadgedType ==
  ASSUME NEW e \in Entry \cup {None}
  PROVE  /\ Badged(e) \in Entry \cup {None}
         /\ Badged(e) = None <=> e = None
         /\ e # None => /\ Badged(e).bound = e.bound
                        /\ Badged(e).credits = e.credits
                        /\ Badged(e).restored = e.restored
<1>1. CASE e = None
  BY <1>1 DEF Badged
<1>2. CASE e # None
  <2>1. [e EXCEPT !.badge = TRUE] \in Entry
    BY <1>2 DEF Entry
  <2> QED BY <1>2, <2>1, NoneAssumption DEF Badged, Entry
<1> QED BY <1>1, <1>2

LEMMA MatchesSole ==
  ASSUME NEW p \in PayTos
  PROVE  Matches({p}) <=> p \in Merchants
BY DEF Matches

\* The oldest row is a row, so what loadOwnership loads is a binding.
LEMMA LoadedType ==
  ASSUME TypeOK, rows # {}
  PROVE  /\ Oldest(rows) \in rows
         /\ Loaded(rows) \in Binding /\ Loaded(rows) # None
         /\ Loaded(rows).payTos = {r.payTo : r \in rows}
<1>1. \A r \in rows : r.at \in Nat /\ r.payTo \in PayTos
  <2>1. Times \subseteq Nat
    BY DEF Times
  <2> QED BY <2>1 DEF TypeOK, Row
<1> DEFINE U == {r.at : r \in rows}
<1>2. U \in SUBSET Nat /\ U # {}
  BY <1>1
<1>3. PICK n \in U : \A m \in U : ~(m < n)
  BY <1>2, LeastNatural
<1>4. \E r \in rows : \A s \in rows : r.at <= s.at
  <2>1. PICK r \in rows : r.at = n
    BY <1>3
  <2>2. \A s \in rows : s.at \in U
    OBVIOUS
  <2> HIDE DEF U
  <2>3. \A s \in rows : ~(s.at < n)
    BY <1>3, <2>2
  <2>4. \A s \in rows : n <= s.at
    BY <1>1, <2>1, <2>3
  <2> QED BY <2>1, <2>4
<1>5. Oldest(rows) \in rows
  BY <1>4 DEF Oldest
<1>6. Loaded(rows) = [owner |-> Oldest(rows).payTo, payTos |-> {r.payTo : r \in rows}]
  BY DEF Loaded
<1>7. Loaded(rows) \in Binding
  BY <1>1, <1>5, <1>6 DEF Binding
<1>8. Loaded(rows) # None
  BY <1>7, NoneAssumption
<1>9. Loaded(rows).payTos = {r.payTo : r \in rows}
  BY <1>6
<1> QED BY <1>5, <1>7, <1>8, <1>9

-----------------------------------------------------------------------------
(* Steps that leave the memory alone.                                      *)

LEMMA LastsWhenKept ==
  ASSUME UNCHANGED <<rows, issued, shared, ownership, contended>>
  PROVE  Lasts
BY DEF Lasts, RowsProven, Trusted, OwnerProven

\* The memory keeps its invariant while what it rests on lasts.
LEMMA MemoryKept ==
  ASSUME IInv, Lasts, UNCHANGED <<ownership, latch, contended>>
  PROVE  /\ OwnerInv'
         /\ \A e : EntryInv(e) => EntryInv(e)'
<1>1. ASSUME NEW b, SoleOrShared(b) PROVE SoleOrShared(b)'
  BY <1>1 DEF Lasts, SoleOrShared
<1>2. OwnerInv'
  BY <1>1 DEF IInv, OwnerInv, Lasts, OwnerProven, Trusted
<1>3. ASSUME NEW e, EntryInv(e) PROVE EntryInv(e)'
  BY <1>1, <1>3, KnownLasts DEF EntryInv, Lasts, OwnerProven
<1> QED BY <1>2, <1>3

\* One hook goes on, perhaps after a write, and its process stays as it was.
LEMMA HookMoves ==
  ASSUME IInv, NEW h \in Hooks, NEW x \in Hook,
         hook' = [hook EXCEPT ![h] = x], HookInv(x),
         x.pc # "idle",
         x.pc = "bind" => At(h, "idle"),
         wire' \in SUBSET Writes,
         \A w \in wire' : w \in wire \/ WireInv(w)',
         holders' = holders \/ holders' = holders \ {h},
         h \in holders' => /\ x.pc \in {"lookup", "probe", "displace", "consume"}
                           /\ x.pc = "consume" => entry.bound.payTos \subseteq Known,
         UNCHANGED <<dbVars, memoryVars, contended>>
  PROVE  IInv'
<1>1. /\ Lasts /\ OwnerInv' /\ EntryInv(entry)' /\ RowInv' /\ BootInv'
      /\ Known' = Known
  <2>1. Lasts
    BY LastsWhenKept DEF dbVars, memoryVars
  <2>2. UNCHANGED <<ownership, latch, contended>> /\ OwnerInv' /\ EntryInv(entry)
    BY <2>1, MemoryKept DEF memoryVars, IInv
  <2>3. PICK e : e = entry
    OBVIOUS
  <2>4. EntryInv(e)'
    BY <2>1, <2>2, <2>3, MemoryKept
  <2>5. EntryInv(entry)'
    BY <2>3, <2>4 DEF memoryVars, EntryInv
  <2>6. RowInv' /\ BootInv' /\ Known' = Known
    BY DEF IInv, RowInv, BootInv, Known, Rotators, RowsProven, Trusted, OwnerProven,
           dbVars, memoryVars
  <2> QED BY <2>1, <2>2, <2>5, <2>6
<1>2. hook \in [Hooks -> Hook] /\ holders \subseteq Hooks
  BY DEF IInv, TypeOK
<1>3. /\ hook'[h] = x /\ \A q \in Hooks \ {h} : hook'[q] = hook[q]
      /\ hook' \in [Hooks -> Hook]
  BY <1>2
<1>4. TypeOK'
  BY <1>2, <1>3 DEF IInv, TypeOK, dbVars, memoryVars, bootVars
<1>5. HolderInv'
  BY <1>1, <1>2, <1>3 DEF IInv, HolderInv, At, memoryVars
<1>6. HookInv(hook[h])'
  <2>1. HookInv(x)'
    BY <1>1, HookLasts
  <2> QED BY <1>3, <2>1 DEF HookInv
<1>7. \A w \in wire' : WireInv(w)'
  <2> SUFFICES ASSUME NEW w \in wire, w \in wire' PROVE WireInv(w)'
    OBVIOUS
  <2>1. WireInv(w) /\ (w.op # "authorize" => w.by \in Hooks)
    BY DEF IInv, TypeOK, Writes
  <2>2. CASE w.op # "authorize" /\ w.by = h
    BY <1>1, <1>3, <2>1, <2>2 DEF WireInv, Lasts, At
  <2>3. CASE w.op # "authorize" /\ w.by # h
    BY <1>1, <1>3, <2>1, <2>3, WireLasts DEF Onward, At
  <2>4. CASE w.op = "authorize"
    BY <1>1, <2>1, <2>4, WireLasts
  <2> QED BY <2>2, <2>3, <2>4
<1>8. \A q \in Hooks : HookInv(hook[q])'
  <2> SUFFICES ASSUME NEW q \in Hooks, q # h PROVE HookInv(hook[q])'
    BY <1>6
  <2>1. PICK y : y = hook[q]
    OBVIOUS
  <2>2. HookInv(y)'
    BY <1>1, <2>1, HookLasts DEF IInv
  <2> QED BY <1>3, <2>1, <2>2 DEF HookInv
<1> QED BY <1>1, <1>4, <1>5, <1>7, <1>8 DEF IInv

-----------------------------------------------------------------------------
(* upsertFromPayment and what the hook starts after it.                    *)

\* Counting a settlement of a bound address keeps what holds of an entry.
LEMMA CountedKeeps ==
  ASSUME NEW e \in Entry \cup {None}, NEW p \in PayTos, EntryInv(e)'
  PROVE  /\ Counted(e, p) \in Entry \cup {None}
         /\ Counted(e, p) = None <=> e = None
         /\ e # None => Counted(e, p).bound = e.bound
         /\ EntryInv(Counted(e, p))'
<1>1. CASE e # None /\ p \in e.bound.payTos
  <2> DEFINE c == [e EXCEPT !.credits = @ \cup {p}]
  <2>1. c \in Entry
    BY <1>1 DEF Entry
  <2>2. /\ c.bound = e.bound /\ c.badge = e.badge /\ c.restored = e.restored
        /\ c.credits = e.credits \cup {p} /\ c # None
    BY <1>1, <2>1, NoneAssumption DEF Entry
  <2>3. Counted(e, p) = c
    BY <1>1 DEF Counted
  <2> HIDE DEF c
  <2>4. EntryInv(c)'
    BY <1>1, <2>2 DEF EntryInv
  <2> QED BY <1>1, <2>1, <2>2, <2>3, <2>4
<1>2. CASE ~(e # None /\ p \in e.bound.payTos)
  BY <1>2 DEF Counted
<1> QED BY <1>1, <1>2

LEMMA UpsertKeeps ==
  ASSUME IInv, NEW h \in Hooks, NEW p \in PayTos, NEW e \in Entry \cup {None},
         NEW replaced \in BOOLEAN, replaced \/ e = entry,
         At(h, "idle") \/ At(h, "bind"),
         AfterUpsert(h, p, e, replaced),
         EntryInv(e)', OwnerInv', Lasts,
         ownership' \in Binding \cup {None}, contended' \in BOOLEAN,
         wire' \subseteq wire,
         UNCHANGED <<dbVars, latch, bootVars, bootQueued, bootProbe>>
  PROVE  IInv'
<1> DEFINE bound == e # None /\ p \in e.bound.payTos
           kept == IF replaced THEN {} ELSE holders
           probing(await) == [IdleHook EXCEPT !.pc = await, !.payTo = p,
                                              !.captured = e.bound]
<1>1. PICK x \in Hook :
        /\ hook' = [hook EXCEPT ![h] = x]
        /\ x.pc \in {"done", "reverify", "lookup"} /\ x.answer = None
        /\ x.pc # "done" => x.payTo = p /\ x.captured = e.bound /\ e # None
        /\ x.pc = "reverify" => p \in e.bound.payTos
        /\ holders' = IF x.pc = "lookup" THEN kept \cup {h} ELSE kept
  <2>1. CASE /\ hook' = [hook EXCEPT ![h] = [IdleHook EXCEPT !.pc = "done"]]
             /\ holders' = kept
    <3>1. [IdleHook EXCEPT !.pc = "done"] \in Hook
      BY DEF IdleHook, Hook, Pcs
    <3> QED BY <2>1, <3>1 DEF IdleHook
  <2>2. ASSUME NEW await \in {"reverify", "lookup"}, e # None,
               await = "reverify" => p \in e.bound.payTos,
               hook' = [hook EXCEPT ![h] = probing(await)],
               holders' = IF await = "lookup" THEN kept \cup {h} ELSE kept
        PROVE  \E x \in Hook :
                 /\ hook' = [hook EXCEPT ![h] = x]
                 /\ x.pc \in {"done", "reverify", "lookup"} /\ x.answer = None
                 /\ x.pc # "done" => x.payTo = p /\ x.captured = e.bound /\ e # None
                 /\ x.pc = "reverify" => p \in e.bound.payTos
                 /\ holders' = IF x.pc = "lookup" THEN kept \cup {h} ELSE kept
    <3>1. probing(await) \in Hook
      BY <2>2 DEF IdleHook, Hook, Pcs, Entry
    <3>2. /\ probing(await).pc = await /\ probing(await).answer = None
          /\ probing(await).payTo = p /\ probing(await).captured = e.bound
      BY DEF IdleHook
    <3> QED BY <2>2, <3>1, <3>2
  <2> QED BY <2>1, <2>2 DEF AfterUpsert, Over
<1> HIDE DEF bound, probing
<1>2. /\ hook \in [Hooks -> Hook] /\ holders \subseteq Hooks /\ wire \subseteq Writes
      /\ EntryInv(entry)
  BY DEF IInv, TypeOK
<1>3. /\ hook'[h] = x /\ \A q \in Hooks \ {h} : hook'[q] = hook[q]
      /\ hook' \in [Hooks -> Hook]
  BY <1>1, <1>2
<1>4. /\ entry' \in Entry \cup {None} /\ (entry' = None <=> e = None)
      /\ e # None => entry'.bound = e.bound
      /\ EntryInv(entry)'
  <2>1. PICK c : c = entry'
    OBVIOUS
  <2>2. c = e \/ c = Counted(e, p)
    BY <2>1 DEF AfterUpsert
  <2>3. /\ c \in Entry \cup {None} /\ (c = None <=> e = None)
        /\ e # None => c.bound = e.bound
        /\ EntryInv(c)'
    BY <2>2, CountedKeeps
  <2> QED BY <2>1, <2>3 DEF EntryInv
<1>5. TypeOK'
  <2>1. holders' \subseteq Hooks /\ wire' \subseteq Writes
    BY <1>1, <1>2
  <2> QED BY <1>3, <1>4, <2>1 DEF IInv, TypeOK, dbVars, bootVars
<1>6. RowInv' /\ BootInv'
  BY DEF IInv, RowInv, BootInv, Lasts, dbVars, RowsProven
<1>7. HolderInv'
  <2> SUFFICES ASSUME NEW q \in holders'
               PROVE  /\ hook'[q].pc \in {"lookup", "probe", "displace", "consume"}
                      /\ entry' # None
                      /\ hook'[q].pc = "consume" => entry'.bound.payTos \subseteq Known'
    BY DEF HolderInv, At
  <2>1. h \notin holders
    BY DEF IInv, HolderInv, At
  <2>2. CASE q = h
    BY <1>1, <1>3, <1>4, <2>1, <2>2
  <2>3. CASE q # h
    <3>1. q \in holders /\ e = entry /\ hook'[q] = hook[q]
      BY <1>1, <1>2, <1>3, <2>3
    <3> QED BY <1>4, <3>1, KnownLasts DEF IInv, HolderInv, At
  <2> QED BY <2>2, <2>3
<1>8. HookInv(hook[h])'
  <2>1. e # None => e.bound \in Binding \cup {Unbound}
    BY DEF Entry
  <2>2. x.pc = "reverify" => x.captured \in Binding
    BY <1>1, <2>1 DEF Unbound
  <2>3. HookInv(x)'
    BY <1>1, <2>1, <2>2, NoneAssumption DEF HookInv, EntryInv
  <2> QED BY <1>3, <2>3 DEF HookInv
<1>9. \A q \in Hooks : Onward(q)
  BY <1>1, <1>3 DEF Onward, At
<1> QED BY <1>3, <1>4, <1>5, <1>6, <1>7, <1>8, <1>9, StepKeeps

\* An entry made of the binding in memory.
LEMMA FreshKeeps ==
  ASSUME NEW b \in Binding, ownership' = b, OwnerInv'
  PROVE  EntryInv(FreshEntry(b))'
<1>1. b # None
  BY NoneAssumption
<1> QED
  BY <1>1, FreshType DEF OwnerInv, EntryInv, OwnerProven, SoleOrShared, Trusted

LEMMA SettleKeeps ==
  ASSUME IInv, NEW h \in Hooks, NEW p \in PayTos, Settle(h, p)
  PROVE  IInv'
<1>1. PICK e0 \in Entry \cup {None}, o0 \in Binding \cup {None} :
        e0 = entry /\ o0 = ownership
  BY DEF IInv, TypeOK
<1>2. PICK e \in Entry \cup {None}, replaced \in BOOLEAN :
        /\ replaced \/ e = entry
        /\ AfterUpsert(h, p, e, replaced)
        /\ e = entry \/ (ownership # None /\ e = FreshEntry(ownership))
  <2>1. o0 # None => FreshEntry(o0) \in Entry
    BY FreshType
  <2> QED BY <1>1, <2>1 DEF Settle
<1>3. Lasts
  BY LastsWhenKept DEF Settle, dbVars
<1>4. UNCHANGED <<ownership, latch, contended>> /\ At(h, "idle")
      /\ UNCHANGED <<dbVars, wire, bootVars, bootQueued, bootProbe>>
  BY DEF Settle
<1>5. OwnerInv' /\ \A c : EntryInv(c) => EntryInv(c)'
  BY <1>3, <1>4, MemoryKept
<1>6. EntryInv(e)'
  <2>1. CASE e = entry
    BY <1>1, <1>5, <2>1 DEF IInv
  <2>2. CASE ownership # None /\ e = FreshEntry(ownership)
    BY <1>1, <1>4, <1>5, <2>2, FreshKeeps
  <2> QED BY <1>2, <2>1, <2>2
<1>7. ownership' \in Binding \cup {None} /\ contended' \in BOOLEAN /\ wire' \subseteq wire
  BY <1>4 DEF IInv, TypeOK
<1> QED BY <1>2, <1>3, <1>4, <1>5, <1>6, <1>7, UpsertKeeps

\* At most one settlement fewer than there are has begun.
LEMMA TimesIn ==
  ASSUME NEW h \in Hooks, hook[h].pc = "idle"
  PROVE  BindTime \in Times
<1>1. Started \subseteq Hooks \ {h}
  BY DEF Started, At
<1>2. /\ IsFiniteSet(Hooks) /\ IsFiniteSet(Hooks \ {h})
      /\ Cardinality(Hooks \ {h}) = Cardinality(Hooks) - 1
  BY CatalogAssumption, FS_RemoveElement
<1>3. /\ Cardinality(Started) \in Nat /\ Cardinality(Hooks) \in Nat
      /\ Cardinality(Started) <= Cardinality(Hooks) - 1
  BY <1>1, <1>2, FS_Subset, FS_CardinalityType
<1> QED BY <1>3 DEF BindTime, Times

LEMMA DisplaceTimeIn == DisplaceTime \in Times
<1>1. Started \subseteq Hooks
  BY DEF Started
<1>2. /\ Cardinality(Started) \in Nat /\ Cardinality(Hooks) \in Nat
      /\ Cardinality(Started) <= Cardinality(Hooks)
  BY <1>1, CatalogAssumption, FS_Subset, FS_CardinalityType
<1> QED BY <1>2 DEF DisplaceTime, Times

LEMMA SettleFirstKeeps ==
  ASSUME IInv, NEW h \in Hooks, NEW p \in PayTos, SettleFirst(h, p)
  PROVE  IInv'
<1> DEFINE x == [IdleHook EXCEPT !.pc = "bind", !.payTo = p]
<1>0. PICK w :
        w = [op |-> "bind", by |-> h, payTo |-> p, at |-> BindTime, from |-> p]
  OBVIOUS
<1>1. x \in Hook /\ x.pc = "bind" /\ x.payTo = p /\ x.answer = None
  BY DEF IdleHook, Hook, Pcs
<1>2. /\ At(h, "idle") /\ hook' = [hook EXCEPT ![h] = x] /\ wire' = wire \cup {w}
      /\ UNCHANGED <<dbVars, memoryVars, holders, contended>>
  BY <1>0 DEF SettleFirst, Send
<1>3. w \in Writes
  BY <1>0, <1>2, TimesIn DEF Writes, At
<1>4. HookInv(x)
  BY <1>1, NoneAssumption DEF HookInv
<1>5. h \notin holders
  BY <1>2 DEF IInv, HolderInv, At
<1>6. hook'[h] = x /\ wire \subseteq Writes
  BY <1>2 DEF IInv, TypeOK
<1>7. WireInv(w)'
  BY <1>0, <1>1, <1>6 DEF WireInv, At
<1> HIDE DEF x
<1>8. /\ wire' \in SUBSET Writes /\ holders' = holders /\ h \notin holders'
      /\ \A v \in wire' : v \in wire \/ WireInv(v)'
  BY <1>2, <1>3, <1>5, <1>6, <1>7
<1>9. x.pc # "idle"
  BY <1>1
<1> QED BY <1>1, <1>2, <1>4, <1>8, <1>9, HookMoves

LEMMA BoundKeeps ==
  ASSUME IInv, NEW h \in Hooks, Bound(h)
  PROVE  IInv'
<1>1. PICK p \in PayTos : p = hook[h].payTo
  BY DEF IInv, HookInv, Bound, At, Pcs
<1>2. /\ At(h, "bind") /\ ownership' = Sole(p)
      /\ AfterUpsert(h, p, FreshEntry(Sole(p)), TRUE)
      /\ contended' = (contended \/ ownership # None)
      /\ UNCHANGED <<dbVars, wire, latch, bootVars, bootQueued, bootProbe>>
  BY <1>1 DEF Bound
<1>3. rows # {} /\ (p \in Merchants => RowsProven)
  BY <1>1 DEF IInv, HookInv, Bound, At
<1>4. Lasts
  BY <1>2 DEF Lasts, RowsProven, Trusted, OwnerProven, dbVars
<1>5. /\ Sole(p) \in Binding /\ Sole(p).owner = p /\ Sole(p).payTos = {p}
      /\ Sole(p) # None
      /\ FreshEntry(Sole(p)) \in Entry
  BY SoleType, FreshType
<1>6. OwnerInv'
  <2>1. OwnerProven' <=> p \in Merchants
    BY <1>2, <1>5, MatchesSole DEF OwnerProven
  <2>2. SoleOrShared(ownership)'
    BY <1>2, <1>5 DEF SoleOrShared
  <2>3. rows' # {} /\ (RowsProven => RowsProven') /\ latch' = latch
    BY <1>2, <1>3, <1>4 DEF Lasts, dbVars
  <2> QED BY <1>3, <1>4, <2>1, <2>2, <2>3 DEF IInv, OwnerInv, Lasts
<1>7. EntryInv(FreshEntry(Sole(p)))'
  BY <1>2, <1>5, <1>6, FreshKeeps
<1>8. ownership' \in Binding \cup {None} /\ contended' \in BOOLEAN /\ wire' \subseteq wire
  BY <1>2, <1>5 DEF IInv, TypeOK
<1> QED BY <1>2, <1>4, <1>5, <1>6, <1>7, <1>8, UpsertKeeps

LEMMA BindFailsKeeps ==
  ASSUME IInv, NEW h \in Hooks, BindFails(h)
  PROVE  IInv'
<1>1. PICK p \in PayTos : p = hook[h].payTo
  BY DEF IInv, HookInv, BindFails, GivesUp, At, Pcs
<1>2. PICK e \in Entry \cup {None} : e = entry
  BY DEF IInv, TypeOK
<1>3. /\ At(h, "bind") /\ AfterUpsert(h, p, e, FALSE) /\ wire' \subseteq wire
      /\ UNCHANGED <<dbVars, ownership, latch, bootVars, bootQueued, bootProbe,
                     contended>>
  BY <1>1, <1>2 DEF BindFails, GivesUp
<1>4. Lasts
  BY <1>3, LastsWhenKept DEF dbVars
<1>5. OwnerInv' /\ EntryInv(e)'
  BY <1>2, <1>3, <1>4, MemoryKept DEF IInv
<1>6. ownership' \in Binding \cup {None} /\ contended' \in BOOLEAN
  BY <1>3 DEF IInv, TypeOK
<1> QED BY <1>2, <1>3, <1>4, <1>5, <1>6, UpsertKeeps

-----------------------------------------------------------------------------
(* tryDisplace.                                                            *)

\* A hook is over: nothing it knew is used again.
LEMMA OverKeeps ==
  ASSUME IInv, NEW h \in Hooks, Over(h), wire' \subseteq wire,
         holders' = holders \ {h} \/ (holders' = holders /\ h \notin holders),
         UNCHANGED <<dbVars, memoryVars, contended>>
  PROVE  IInv'
<1> DEFINE x == [IdleHook EXCEPT !.pc = "done"]
<1>1. x \in Hook /\ x.pc = "done" /\ x.answer = None
  BY DEF IdleHook, Hook, Pcs
<1>2. hook' = [hook EXCEPT ![h] = x]
  BY DEF Over
<1> HIDE DEF x
<1>3. HookInv(x)
  BY <1>1, NoneAssumption DEF HookInv
<1>4. /\ wire' \in SUBSET Writes /\ h \notin holders'
      /\ \A w \in wire' : w \in wire \/ WireInv(w)'
      /\ holders' = holders \/ holders' = holders \ {h}
      /\ x.pc # "idle" /\ x.pc # "bind"
  BY <1>1 DEF IInv, TypeOK
<1> QED BY <1>1, <1>2, <1>3, <1>4, HookMoves

LEMMA OverSteps ==
  ASSUME IInv, NEW h \in Hooks,
         \/ NotDisplaced(h) \/ DisplacementFails(h)
         \/ ReverifyRefuses(h) \/ Marked(h)
  PROVE  IInv'
<1>1. /\ Over(h) /\ wire' \subseteq wire
      /\ UNCHANGED <<dbVars, memoryVars, contended>>
  BY DEF NotDisplaced, DisplacementFails, ReverifyRefuses, Marked, GivesUp
<1>2. holders' = holders \ {h} \/ (holders' = holders /\ h \notin holders)
  BY DEF NotDisplaced, DisplacementFails, ReverifyRefuses, Marked, GivesUp,
         IInv, HolderInv, At
<1> QED BY <1>1, <1>2, OverKeeps

LEMMA LookedUpKeeps ==
  ASSUME IInv, NEW h \in Hooks, LookedUp(h)
  PROVE  IInv'
<1>1. /\ hook[h] \in Hook /\ HookInv(hook[h]) /\ hook[h].pc = "lookup"
      /\ hook[h].captured \in Binding
  BY DEF IInv, TypeOK, HookInv, LookedUp, At
<1>2. PICK live \in BOOLEAN :
        /\ live => <<hook[h].captured.owner, hook[h].payTo>> \in markers
        /\ hook' = [hook EXCEPT ![h].pc = "probe", ![h].live = live]
  <2> DEFINE b == <<hook[h].captured.owner, hook[h].payTo>> \in markers
  <2>1. PICK live \in {FALSE, b} :
          hook' = [hook EXCEPT ![h].pc = "probe", ![h].live = live]
    BY Zenon DEF LookedUp
  <2> HIDE DEF b
  <2>2. CASE live = FALSE
    BY <2>1, <2>2
  <2>3. CASE live = b
    <3>1. b \in BOOLEAN
      BY DEF b
    <3> QED BY <2>1, <2>3, <3>1 DEF b
  <2> QED BY <2>1, <2>2, <2>3
<1>3. PICK x : x = [hook[h] EXCEPT !.pc = "probe", !.live = live]
  OBVIOUS
<1>4. /\ x \in Hook /\ x.pc = "probe" /\ x.live = live /\ x.payTo = hook[h].payTo
      /\ x.captured = hook[h].captured /\ x.answer = hook[h].answer
  BY <1>1, <1>3 DEF Hook, Pcs
<1>5. hook' = [hook EXCEPT ![h] = x]
  BY <1>1, <1>2, <1>3 DEF IInv, TypeOK
<1>6. live => x.captured.owner \in Rotators
  BY <1>2, <1>4 DEF IInv, TypeOK, Rotators
<1>7. HookInv(x)
  BY <1>1, <1>4, <1>6 DEF HookInv, Pcs
<1>8. /\ wire' \in SUBSET Writes /\ holders' = holders
      /\ \A w \in wire' : w \in wire \/ WireInv(w)'
      /\ UNCHANGED <<dbVars, memoryVars, contended>>
  BY DEF LookedUp, IInv, TypeOK
<1>9. x.pc # "idle" /\ x.pc # "bind" /\ x.pc # "consume"
      /\ x.pc \in {"lookup", "probe", "displace", "consume"}
  BY <1>4
<1> QED BY <1>4, <1>5, <1>7, <1>8, <1>9, HookMoves

LEMMA ProbeMatchesKeeps ==
  ASSUME IInv, NEW h \in Hooks, ProbeMatches(h)
  PROVE  IInv'
<1>1. hook[h] \in Hook /\ HookInv(hook[h]) /\ hook[h].pc = "probe"
      /\ hook[h].captured \in Binding /\ hook[h].payTo \in PayTos
  BY DEF IInv, TypeOK, HookInv, ProbeMatches, At, Pcs
<1>2. PICK op \in {"displace", "consume"} :
        /\ op = "consume" => latch
        /\ hook' = [hook EXCEPT ![h].pc = op]
        /\ Send(Write(h, op, DisplaceTime, hook[h].captured.owner))
  BY DEF ProbeMatches, Await
<1>3. PICK x : x = [hook[h] EXCEPT !.pc = op]
  OBVIOUS
<1>4. /\ x \in Hook /\ x.pc = op /\ x.payTo = hook[h].payTo
      /\ x.captured = hook[h].captured /\ x.answer = hook[h].answer
  BY <1>1, <1>3 DEF Hook, Pcs
<1>5. hook' = [hook EXCEPT ![h] = x]
  BY <1>2, <1>3
<1>6. hook[h].payTo \in Merchants /\ MayDisplace(h)
  BY <1>1, MatchesSole DEF ProbeMatches
<1>7. HookInv(x)
  BY <1>1, <1>2, <1>4, <1>6 DEF HookInv, Pcs, IInv, OwnerInv
<1>8. PICK w : w = Write(h, op, DisplaceTime, hook[h].captured.owner)
  OBVIOUS
<1>9. /\ w \in Writes /\ w.by = h /\ w.op = op /\ w.payTo \in Merchants
  BY <1>1, <1>6, <1>8, DisplaceTimeIn DEF Write, Writes, Binding
<1>10. hook'[h] = x
  BY <1>5 DEF IInv, TypeOK
<1>11. WireInv(w)'
  BY <1>4, <1>9, <1>10 DEF WireInv, At
<1>12. /\ wire' \in SUBSET Writes /\ holders' = holders
       /\ \A v \in wire' : v \in wire \/ WireInv(v)'
       /\ UNCHANGED <<dbVars, memoryVars, contended>>
  BY <1>2, <1>8, <1>9, <1>11 DEF ProbeMatches, Send, IInv, TypeOK
<1>13. ASSUME op = "consume" PROVE entry.bound.payTos \subseteq Known
  <2>1. /\ entry # None /\ hook[h].live /\ entry.bound.owner = hook[h].captured.owner
    BY <1>2, <1>6, <1>13 DEF MayDisplace
  <2>2. SoleOrShared(entry.bound) /\ entry.bound.owner \in Rotators
    BY <1>1, <2>1 DEF IInv, EntryInv, HookInv
  <2> QED BY <2>2 DEF SoleOrShared, Known
<1>14. x.pc # "idle" /\ x.pc # "bind"
      /\ x.pc \in {"lookup", "probe", "displace", "consume"}
      /\ x.pc = "consume" => entry.bound.payTos \subseteq Known
  BY <1>4, <1>13
<1> QED BY <1>4, <1>5, <1>7, <1>12, <1>14, HookMoves

\* The new owner in memory was probed, and its row is in the table.
LEMMA OwnerProbed ==
  ASSUME IInv, NEW h \in Hooks, At(h, "displace") \/ At(h, "consume"),
         hook[h].answer = "ok", NEW p, p = hook[h].payTo,
         ownership' = Sole(p), latch' = TRUE,
         UNCHANGED <<dbVars, contended>>
  PROVE  /\ p \in Merchants /\ OwnerProven' /\ RowsProven' /\ Trusted'
         /\ OwnerInv' /\ Lasts /\ ownership' \in Binding
<1>1. /\ p \in Merchants /\ p \in PayTos /\ rows # {} /\ RowsProven
  BY CatalogAssumption DEF IInv, HookInv, At
<1>2. /\ Sole(p) \in Binding /\ Sole(p).owner = p /\ Sole(p).payTos = {p}
      /\ Sole(p) # None
  BY <1>1, SoleType
<1>3. OwnerProven' /\ Trusted'
  BY <1>1, <1>2, MatchesSole DEF OwnerProven, Trusted
<1>4. SoleOrShared(ownership)'
  BY <1>2 DEF SoleOrShared
<1>5. rows' # {} /\ RowsProven'
  BY <1>1 DEF dbVars, RowsProven
<1>6. OwnerInv'
  BY <1>3, <1>4, <1>5 DEF OwnerInv
<1>7. Lasts
  BY <1>3, <1>5 DEF Lasts, dbVars
<1> QED BY <1>1, <1>2, <1>3, <1>5, <1>6, <1>7

\* The hook is over and the memory has changed.
LEMMA OverInMemory ==
  ASSUME IInv, NEW h \in Hooks, Over(h), Lasts,
         OwnerInv', ownership' \in Binding \cup {None}, latch' \in BOOLEAN,
         NEW e \in Entry \cup {None}, entry' = e, EntryInv(e)',
         HolderInv', holders' \subseteq holders,
         UNCHANGED <<dbVars, wire, bootVars, bootQueued, bootProbe, contended>>
  PROVE  IInv'
<1> DEFINE x == [IdleHook EXCEPT !.pc = "done"]
<1>1. x \in Hook /\ x.pc = "done" /\ x.answer = None
  BY DEF IdleHook, Hook, Pcs
<1>2. hook' = [hook EXCEPT ![h] = x]
  BY DEF Over
<1> HIDE DEF x
<1>3. hook'[h] = x /\ hook' \in [Hooks -> Hook]
      /\ \A q \in Hooks \ {h} : hook'[q] = hook[q]
  BY <1>1, <1>2 DEF IInv, TypeOK
<1>4. TypeOK'
  BY <1>3 DEF IInv, TypeOK, dbVars, bootVars
<1>5. RowInv' /\ BootInv'
  BY DEF IInv, RowInv, BootInv, Lasts, dbVars, RowsProven
<1>6. HookInv(hook[h])'
  BY <1>1, <1>3, NoneAssumption DEF HookInv
<1>7. \A q \in Hooks : Onward(q)
  BY <1>1, <1>3 DEF Onward, At
<1>8. EntryInv(entry)'
  BY DEF EntryInv
<1> QED BY <1>3, <1>4, <1>5, <1>6, <1>7, <1>8, StepKeeps

LEMMA DisplacedKeeps ==
  ASSUME IInv, NEW h \in Hooks, Displaced(h)
  PROVE  IInv'
<1>1. PICK p : p = hook[h].payTo
  OBVIOUS
<1>2. /\ At(h, "displace") /\ hook[h].answer = "ok"
      /\ ownership' = Sole(p) /\ latch' = TRUE
      /\ entry' \in {None, Badged(FreshEntry(Sole(p)))} /\ holders' = {}
      /\ Over(h)
      /\ UNCHANGED <<dbVars, wire, bootVars, bootQueued, bootProbe, contended>>
  BY <1>1 DEF Displaced
<1>3. /\ p \in Merchants /\ p \in PayTos /\ OwnerProven' /\ Trusted' /\ RowsProven'
      /\ OwnerInv' /\ Lasts /\ ownership' \in Binding
  BY <1>1, <1>2, OwnerProbed, CatalogAssumption
<1>4. PICK f \in Entry : f = FreshEntry(Sole(p)) /\ EntryInv(f)' /\ f # None
  BY <1>2, <1>3, SoleType, FreshType, FreshKeeps
<1>5. /\ Badged(f) \in Entry \cup {None} /\ EntryInv(Badged(f))'
  BY <1>3, <1>4, BadgedType DEF EntryInv
<1>6. EntryInv(None)'
  BY DEF EntryInv
<1>7. PICK e \in Entry \cup {None} : entry' = e /\ EntryInv(e)'
  BY <1>2, <1>4, <1>5, <1>6
<1>8. HolderInv' /\ holders' \subseteq holders
  BY <1>2 DEF HolderInv
<1> QED BY <1>2, <1>3, <1>7, <1>8, OverInMemory

LEMMA RotatedKeeps ==
  ASSUME IInv, BootedInv, NEW h \in Hooks, Rotated(h)
  PROVE  IInv'
<1>1. PICK p : p = hook[h].payTo
  OBVIOUS
<1>2. PICK e0 \in Entry \cup {None} : e0 = entry
  BY DEF IInv, TypeOK
<1>3. PICK e : e = IF h \in holders THEN [e0 EXCEPT !.bound = Sole(p)] ELSE e0
  OBVIOUS
<1>4. /\ At(h, "consume") /\ hook[h].answer = "ok"
      /\ ownership' = Sole(p) /\ latch' = TRUE
      /\ entry' = Badged(e) /\ holders' = holders \ {h}
      /\ Over(h)
      /\ UNCHANGED <<dbVars, wire, bootVars, bootQueued, bootProbe, contended>>
  BY <1>1, <1>2, <1>3 DEF Rotated
<1>5. /\ p \in Merchants /\ p \in PayTos /\ OwnerProven' /\ Trusted' /\ RowsProven'
      /\ OwnerInv' /\ Lasts /\ ownership' \in Binding
  BY <1>1, <1>4, OwnerProbed, CatalogAssumption
<1>6. /\ Sole(p) \in Binding /\ Sole(p).owner = p /\ Sole(p).payTos = {p}
  BY <1>5, SoleType
<1>7. ownership' # None /\ rows' # {} /\ Matches({p})
  BY <1>5, MatchesSole, NoneAssumption DEF OwnerInv
<1>8. ASSUME h \in holders
      PROVE  /\ e \in Entry \cup {None} /\ EntryInv(e)'
             /\ (e.bound.payTos \subseteq Known)' /\ e # None /\ e0 # None
  <2>1. /\ e0 # None /\ e0 \in Entry /\ e0.bound.payTos \subseteq Known
        /\ EntryInv(e0)
    BY <1>2, <1>4, <1>8 DEF IInv, HolderInv
  <2>2. /\ e \in Entry /\ e.bound = Sole(p) /\ e.restored = e0.restored
        /\ e.credits = e0.credits /\ e.badge = e0.badge
    BY <1>3, <1>6, <1>8, <2>1 DEF Entry
  <2>3. SoleOrShared(Sole(p))'
    BY <1>6 DEF SoleOrShared, Sole
  <2>4. ~e0.restored => e0.credits \subseteq Known'
    BY <1>5, <2>1, KnownLasts DEF EntryInv
  <2>5. EntryInv(e)' /\ (e.bound.payTos \subseteq Known)'
    <3>1. SoleOrShared(e.bound)'
      BY <2>2, <2>3 DEF SoleOrShared
    <3>2. e.bound.payTos = {p} /\ p \in Known'
      BY <1>5, <1>6, <2>2 DEF Known
    <3> QED BY <1>5, <1>7, <2>2, <2>4, <3>1, <3>2 DEF EntryInv
  <2> QED BY <2>1, <2>2, <2>5, NoneAssumption
<1>9. ASSUME h \notin holders
      PROVE  e = e0 /\ e \in Entry \cup {None} /\ EntryInv(e)'
  <2>1. e = e0 /\ EntryInv(e)
    BY <1>2, <1>3, <1>9 DEF IInv
  <2>2. Trusted
    BY <1>4 DEF IInv, HookInv, At
  <2>3. EntryInv(e)'
    <3>1. SoleOrShared(e.bound) => SoleOrShared(e.bound)'
      BY <1>5 DEF SoleOrShared, Lasts
    <3>2. contended' = contended
      BY <1>4
    <3> QED BY <1>5, <1>7, <2>1, <2>2, <3>1, <3>2, KnownLasts
            DEF EntryInv, Trusted
  <2> QED BY <2>1, <2>3, <1>2, <1>9
<1>10. /\ e \in Entry \cup {None} /\ EntryInv(e)'
       /\ h \in holders => (e.bound.payTos \subseteq Known)'
       /\ h \notin holders => e = e0
       /\ (e = None <=> e0 = None)
  BY <1>8, <1>9
<1>11. PICK b \in Entry \cup {None} : b = Badged(e)
  BY <1>10, BadgedType
<1>12. /\ b = None <=> e = None
       /\ b # None => b.bound = e.bound
       /\ EntryInv(b)'
  BY <1>5, <1>10, <1>11, BadgedType DEF EntryInv
<1>13. HolderInv'
  <2> SUFFICES ASSUME NEW q \in holders'
               PROVE  /\ hook'[q].pc \in {"lookup", "probe", "displace", "consume"}
                      /\ entry' # None
                      /\ hook'[q].pc = "consume" => (b.bound.payTos \subseteq Known)'
    BY <1>4, <1>11 DEF HolderInv, At
  <2>1. q \in holders /\ q \in Hooks /\ q # h
    BY <1>4 DEF IInv, TypeOK
  <2>2. hook'[q] = hook[q]
    BY <1>4, <2>1 DEF Over, IInv, TypeOK
  <2>3. /\ hook[q].pc \in {"lookup", "probe", "displace", "consume"}
        /\ e0 # None
        /\ hook[q].pc = "consume" => e0.bound.payTos \subseteq Known
    BY <1>2, <2>1 DEF IInv, HolderInv, At
  <2>4. e0.bound.payTos \subseteq Known => (e0.bound.payTos \subseteq Known)'
    BY <1>5, KnownLasts
  <2>5. (e.bound.payTos \subseteq Known)' => (b.bound.payTos \subseteq Known)'
    BY <1>10, <1>12, <2>3
  <2> QED BY <1>4, <1>10, <1>11, <1>12, <2>2, <2>3, <2>4, <2>5
<1>14. holders' \subseteq holders
  BY <1>4
<1> QED BY <1>4, <1>5, <1>11, <1>12, <1>13, <1>14, OverInMemory

-----------------------------------------------------------------------------
(* reverify, reverifyLatchedAtBoot and authorizeRotation.                  *)

\* The badge goes to the listed entry, whichever it is by now.
LEMMA BadgeKeeps ==
  ASSUME IInv, Lasts, Trusted, UNCHANGED <<ownership, contended>>
  PROVE  \A e \in Entry \cup {None} : EntryInv(e) => EntryInv(Badged(e))'
<1> SUFFICES ASSUME NEW e \in Entry \cup {None}, EntryInv(e)
             PROVE  EntryInv(Badged(e))'
  OBVIOUS
<1>1. PICK b : b = Badged(e)
  OBVIOUS
<1>2. /\ b = None <=> e = None
      /\ e # None => /\ b.bound = e.bound /\ b.credits = e.credits
                     /\ b.restored = e.restored
  BY <1>1, BadgedType
<1>3. SoleOrShared(e.bound) => SoleOrShared(e.bound)'
  BY DEF Lasts, SoleOrShared
<1>4. Trusted' /\ Known \subseteq Known' /\ (RowsProven => RowsProven')
      /\ (OwnerProven /\ ~contended)' = (OwnerProven /\ ~contended)
      /\ ownership' = ownership /\ (rows # {} => rows' # {})
  BY KnownLasts DEF Lasts, OwnerProven
<1>5. (SoleOrShared(e.bound) => SoleOrShared(b.bound))' \/ e = None
  BY <1>2
<1>6. EntryInv(b)'
  BY <1>2, <1>3, <1>4, <1>5 DEF EntryInv
<1> QED BY <1>1, <1>6 DEF Badged

\* Holders stay holders while the binding of the listed entry stays.
LEMMA HoldersKept ==
  ASSUME IInv, Lasts, holders' \subseteq holders,
         NEW e \in Entry \cup {None}, entry' = e,
         e = None => holders' = {},
         e # None /\ entry # None => e.bound = entry.bound,
         \A q \in holders' : hook'[q].pc = hook[q].pc
  PROVE  HolderInv'
<1> SUFFICES ASSUME NEW q \in holders'
             PROVE  /\ hook'[q].pc \in {"lookup", "probe", "displace", "consume"}
                    /\ entry' # None
                    /\ hook'[q].pc = "consume" => entry'.bound.payTos \subseteq Known'
  BY DEF HolderInv, At
<1> QED BY KnownLasts DEF IInv, HolderInv, At

LEMMA ReverifyMatchesKeeps ==
  ASSUME IInv, NEW h \in Hooks, ReverifyMatches(h)
  PROVE  IInv'
<1>1. hook[h] \in Hook /\ HookInv(hook[h]) /\ hook[h].pc = "reverify"
      /\ hook[h].payTo \in PayTos
  BY DEF IInv, TypeOK, HookInv, ReverifyMatches, At, Pcs
<1>2. RowsProven /\ Trusted
  BY <1>1 DEF ReverifyMatches, HookInv
<1>3. PICK x : x = [hook[h] EXCEPT !.pc = "mark"]
  OBVIOUS
<1>4. /\ x \in Hook /\ x.pc = "mark" /\ x.payTo = hook[h].payTo
  BY <1>1, <1>3 DEF Hook, Pcs
<1>5. PICK w : w = Write(h, "mark", 0, hook[h].payTo)
  OBVIOUS
<1>6. PICK e \in Entry \cup {None} : e = entry
  BY DEF IInv, TypeOK
<1>7. /\ hook' = [hook EXCEPT ![h] = x] /\ wire' = wire \cup {w}
      /\ entry' = Badged(e) /\ latch' = TRUE
      /\ UNCHANGED <<dbVars, ownership, bootVars, bootQueued, bootProbe, holders,
                     contended>>
  BY <1>3, <1>5, <1>6 DEF ReverifyMatches, Await, Send
<1>8. Lasts
  BY <1>7, LastsWhenKept DEF dbVars
<1>9. PICK b \in Entry \cup {None} : b = Badged(e)
  BY BadgedType
<1>10. EntryInv(b)' /\ (b = None <=> e = None) /\ (e # None => b.bound = e.bound)
  <2>1. EntryInv(Badged(e))'
    BY <1>2, <1>6, <1>7, <1>8, BadgeKeeps DEF IInv
  <2> QED BY <1>9, <2>1, BadgedType DEF EntryInv
<1>11. EntryInv(entry)'
  BY <1>7, <1>9, <1>10 DEF EntryInv
<1>12. OwnerInv'
  BY <1>2, <1>7, <1>8 DEF IInv, OwnerInv, Lasts, OwnerProven, SoleOrShared
<1>13. RowInv' /\ BootInv'
  BY <1>7, <1>8 DEF IInv, RowInv, BootInv, Lasts, dbVars, RowsProven
<1>14. /\ hook'[h] = x /\ \A q \in Hooks \ {h} : hook'[q] = hook[q]
       /\ hook' \in [Hooks -> Hook]
  BY <1>4, <1>7 DEF IInv, TypeOK
<1>15. /\ w \in Writes /\ w.by = h /\ w.op = "mark"
  <2>1. 0 \in Times
    BY CatalogAssumption, FS_CardinalityType DEF Times
  <2> QED BY <1>1, <1>5, <2>1 DEF Write, Writes
<1>16. TypeOK'
  BY <1>7, <1>9, <1>14, <1>15 DEF IInv, TypeOK, dbVars, bootVars
<1>17. HolderInv'
  <2>1. /\ holders' = holders /\ h \notin holders /\ holders \subseteq Hooks
    BY <1>1, <1>7 DEF IInv, HolderInv, TypeOK, At
  <2>2. e = None => holders = {}
    BY <1>6 DEF IInv, HolderInv
  <2> QED BY <1>6, <1>7, <1>8, <1>9, <1>10, <1>14, <2>1, <2>2, HoldersKept
<1>18. HookInv(hook[h])'
  BY <1>1, <1>4, <1>14 DEF HookInv, Pcs
<1>19. \A q \in Hooks : Onward(q)
  BY <1>1, <1>4, <1>14 DEF Onward, At
<1>20. WireInv(w)'
  BY <1>2, <1>4, <1>8, <1>14, <1>15 DEF WireInv, At, Lasts
<1> QED BY <1>7, <1>8, <1>11, <1>12, <1>13, <1>14, <1>16, <1>17, <1>18, <1>19,
           <1>20, StepKeeps

\* The process goes on without its hooks.
LEMMA MemoryMoves ==
  ASSUME IInv, Lasts, UNCHANGED <<rows, hookVars, ownership, latch, contended>>,
         RowInv', BootInv', TypeOK', HolderInv', EntryInv(entry)',
         \A w \in wire' : w \in wire \/ WireInv(w)'
  PROVE  IInv'
<1>1. OwnerInv'
  BY MemoryKept
<1>2. \A q \in Hooks : Onward(q) /\ hook'[q] = hook[q]
  BY DEF Onward, At, hookVars
<1> QED BY <1>1, <1>2, StepKeeps

LEMMA BootProbeKeeps ==
  ASSUME IInv, BootedInv, BootProbeStarts \/ BootProbeEnds
  PROVE  IInv'
<1>1. /\ UNCHANGED <<dbVars, wire, ownership, latch, bootVars, hookVars, contended>>
  BY DEF BootProbeStarts, BootProbeEnds
<1>2. Lasts
  BY <1>1, LastsWhenKept DEF dbVars
<1>3. PICK e \in Entry \cup {None} : e = entry
  BY DEF IInv, TypeOK
<1>4. PICK b \in Entry \cup {None} :
        /\ entry' = b /\ EntryInv(b)' /\ (b = None <=> e = None)
        /\ e # None => b.bound = e.bound
  <2>1. CASE entry' = entry
    <3>1. EntryInv(e)'
      BY <1>1, <1>2, <1>3, MemoryKept DEF IInv
    <3> QED BY <1>3, <2>1, <3>1
  <2>2. CASE entry' # entry
    <3>1. Trusted /\ entry' = Badged(e)
      BY <1>3, <2>2 DEF BootProbeStarts, BootProbeEnds, IInv, BootInv
    <3>2. EntryInv(Badged(e))'
      BY <1>1, <1>2, <1>3, <3>1, BadgeKeeps DEF IInv
    <3> QED BY <3>1, <3>2, BadgedType
  <2> QED BY <2>1, <2>2
<1>5. EntryInv(entry)'
  BY <1>4 DEF EntryInv
<1>6. BootInv' /\ bootProbe' \in Binding \cup {None} /\ bootQueued' \in BOOLEAN
  <2>1. CASE BootProbeStarts
    <3>1. \/ bootProbe' = bootProbe
          \/ entry # None /\ entry.bound # Unbound /\ bootProbe' = entry.bound
      BY <2>1 DEF BootProbeStarts, BootedInv
    <3> QED BY <1>2, <2>1, <3>1
            DEF BootProbeStarts, IInv, TypeOK, BootInv, EntryInv, Lasts, Entry
  <2>2. CASE BootProbeEnds
    BY <2>2 DEF BootProbeEnds, BootInv, IInv, TypeOK
  <2> QED BY <2>1, <2>2
<1>7. RowInv' /\ TypeOK'
  BY <1>1, <1>4, <1>6 DEF IInv, RowInv, TypeOK, dbVars, bootVars, hookVars, RowsProven
<1>8. HolderInv'
  <2>1. holders' = holders /\ hook' = hook /\ (e = None => holders = {})
    BY <1>1, <1>3 DEF IInv, HolderInv, hookVars
  <2> QED BY <1>2, <1>3, <1>4, <2>1, HoldersKept
<1> QED BY <1>1, <1>2, <1>5, <1>6, <1>7, <1>8, MemoryMoves DEF dbVars

LEMMA AuthorizeKeeps ==
  ASSUME IInv, NEW old \in PayTos, NEW new \in PayTos, AuthorizeRotation(old, new)
  PROVE  IInv'
<1>1. PICK w : w = [op |-> "authorize", pair |-> <<old, new>>]
  OBVIOUS
<1>2. /\ issued' = issued \cup {<<old, new>>} /\ wire' = wire \cup {w}
      /\ UNCHANGED <<rows, saved, markers, shared, memoryVars, hookVars, contended>>
  BY <1>1 DEF AuthorizeRotation, Send
<1>3. Lasts
  BY <1>2 DEF Lasts, RowsProven, Trusted, OwnerProven, memoryVars
<1>4. w \in Writes /\ w.op = "authorize"
  BY <1>1 DEF Writes, Pair
<1>5. RowInv' /\ BootInv' /\ TypeOK'
  BY <1>2, <1>4
     DEF IInv, RowInv, BootInv, TypeOK, memoryVars, bootVars, hookVars, RowsProven,
         Trusted, OwnerProven, Pair
<1>6. PICK e \in Entry \cup {None} : e = entry
  BY DEF IInv, TypeOK
<1>7. EntryInv(e)' /\ entry' = e
  BY <1>2, <1>3, <1>6, MemoryKept DEF memoryVars, IInv
<1>8. EntryInv(entry)'
  BY <1>7 DEF EntryInv
<1>9. HolderInv'
  <2>1. holders' = holders /\ hook' = hook /\ (e = None => holders = {})
    BY <1>2, <1>6 DEF IInv, HolderInv, hookVars
  <2> QED BY <1>3, <1>6, <1>7, <2>1, HoldersKept
<1>10. WireInv(w)'
  BY <1>1, <1>2, <1>4 DEF WireInv
<1> QED BY <1>2, <1>3, <1>5, <1>8, <1>9, <1>10, MemoryMoves DEF memoryVars

LEMMA FlushOrEvictKeeps ==
  ASSUME IInv, Flush \/ Evict
  PROVE  IInv'
<1>1. /\ UNCHANGED <<rows, markers, issued, shared, wire, ownership, latch, bootVars,
                     bootQueued, bootProbe, hook, contended>>
      /\ holders' \subseteq holders
  BY DEF Flush, Evict, memoryVars, hookVars, dbVars
<1>2. Lasts
  BY <1>1, LastsWhenKept
<1>3. saved' \in SavedEntry \cup {None} /\ (saved' # None => rows' # {})
  BY <1>1 DEF Flush, Evict, dbVars, IInv, TypeOK, RowInv, EntryInv, OwnerInv, Entry,
              SavedEntry
<1>4. PICK e \in Entry \cup {None} :
        entry' = e /\ EntryInv(e)' /\ (e = None => holders' = {})
        /\ (e # None => e = entry)
  <2>1. CASE Evict
    <3>1. EntryInv(None)'
      BY DEF EntryInv
    <3> QED BY <2>1, <3>1 DEF Evict
  <2>2. CASE Flush
    <3>1. PICK e \in Entry : e = entry
      BY <2>2 DEF Flush, IInv, TypeOK
    <3>2. EntryInv(e)' /\ entry' = e /\ e # None
      BY <1>1, <1>2, <2>2, <3>1, MemoryKept DEF Flush, memoryVars, IInv
    <3> QED BY <3>1, <3>2
  <2> QED BY <2>1, <2>2
<1>5. EntryInv(entry)'
  BY <1>4 DEF EntryInv
<1>6. RowInv' /\ BootInv' /\ TypeOK'
  BY <1>1, <1>3, <1>4
     DEF IInv, RowInv, BootInv, TypeOK, bootVars, RowsProven, Trusted, OwnerProven
<1>7. HolderInv'
  BY <1>1, <1>2, <1>4, HoldersKept
<1>8. OwnerInv'
  BY <1>1, <1>2, MemoryKept
<1>9. \A q \in Hooks : Onward(q) /\ hook'[q] = hook[q]
  BY <1>1 DEF Onward, At
<1> QED BY <1>1, <1>2, <1>5, <1>6, <1>7, <1>8, <1>9, StepKeeps

-----------------------------------------------------------------------------
(* The database.                                                           *)

\* What landing does to the rows of the resource.
LEMMA RowsLand ==
  ASSUME IInv, NEW w \in wire, Land(w)
  PROVE  /\ rows' \in SUBSET Row /\ saved' \in SavedEntry \cup {None}
         /\ rows # {} => rows' # {}
         /\ saved' # None => rows' # {}
         /\ RowsProven => RowsProven'
         /\ (\E r \in rows' : r.verified) => RowsProven'
         /\ w.op \in {"displace", "consume"} /\ rows' # rows => RowsProven'
<1>1. /\ w \in Writes /\ WireInv(w) /\ RowInv /\ rows \in SUBSET Row
      /\ saved \in SavedEntry \cup {None}
  BY DEF IInv, TypeOK
<1>2. CASE UNCHANGED <<rows, saved>>
  BY <1>1, <1>2 DEF RowInv, RowsProven
<1>3. CASE /\ w.op = "bind"
           /\ rows' = rows \cup {[payTo |-> w.payTo, at |-> w.at, verified |-> FALSE]}
           /\ saved' = [credits |-> {}]
  <2>1. [payTo |-> w.payTo, at |-> w.at, verified |-> FALSE] \in Row
    BY <1>1, <1>3 DEF Writes, Row
  <2>2. RowsProven => RowsProven'
    BY <1>3 DEF RowsProven, Matches
  <2>3. (\E r \in rows' : r.verified) => \E r \in rows : r.verified
    BY <1>3
  <2>4. saved' \in SavedEntry
    BY <1>3 DEF SavedEntry
  <2> QED BY <1>1, <1>3, <2>1, <2>2, <2>3, <2>4 DEF RowInv
<1>4. CASE /\ w.op \in {"displace", "consume"}
           /\ rows' = {[payTo |-> w.payTo, at |-> w.at, verified |-> TRUE]}
           /\ saved' = saved
  <2>1. [payTo |-> w.payTo, at |-> w.at, verified |-> TRUE] \in Row
    BY <1>1, <1>4 DEF Writes, Row
  <2>2. RowsProven'
    BY <1>1, <1>4 DEF WireInv, RowsProven, Matches
  <2> QED BY <1>1, <1>4, <2>1, <2>2
<1>5. CASE /\ w.op = "mark" /\ LandMark(w) /\ saved' = saved
  <2> DEFINE Mark(r) == IF r.payTo = w.payTo THEN [r EXCEPT !.verified = TRUE] ELSE r
  <2>1. rows' = {Mark(r) : r \in rows}
    BY <1>5 DEF LandMark
  <2>2. ASSUME NEW r \in rows PROVE Mark(r) \in Row /\ Mark(r).payTo = r.payTo
    BY <1>1 DEF Row
  <2> HIDE DEF Mark
  <2>3. RowsProven => RowsProven'
    BY <2>1, <2>2 DEF RowsProven, Matches
  <2>4. RowsProven
    BY <1>1, <1>5 DEF WireInv
  <2> QED BY <1>1, <1>5, <2>1, <2>2, <2>3, <2>4 DEF RowInv
<1>6. \/ UNCHANGED <<rows, saved>>
      \/ /\ w.op = "bind"
         /\ rows' = rows \cup {[payTo |-> w.payTo, at |-> w.at, verified |-> FALSE]}
         /\ saved' = [credits |-> {}]
      \/ /\ w.op \in {"displace", "consume"}
         /\ rows' = {[payTo |-> w.payTo, at |-> w.at, verified |-> TRUE]}
         /\ saved' = saved
      \/ w.op = "mark" /\ LandMark(w) /\ saved' = saved
  BY DEF Land, LandBind, ReplaceRows, LandConsume
<1> QED BY <1>2, <1>3, <1>4, <1>5, <1>6

\* What landing tells the hook that still waits for it.
LEMMA HookAnswered ==
  ASSUME IInv, NEW w \in wire, Land(w), NEW h \in Hooks, Lasts
  PROVE  /\ hook'[h].pc = hook[h].pc /\ hook'[h].payTo = hook[h].payTo
         /\ hook'[h] \in Hook
         /\ hook'[h] = hook[h] \/ HookInv(hook[h])'
<1>1. /\ hook \in [Hooks -> Hook] /\ hook[h] \in Hook /\ HookInv(hook[h])
      /\ WireInv(w)
  BY DEF IInv, TypeOK
<1>2. CASE hook'[h] = hook[h]
  BY <1>1, <1>2
<1>3. CASE hook'[h] # hook[h]
  <2>1. PICK a \in {"ok", "no"} :
          /\ Answer(w, a)
          /\ a = "ok" =>
               \/ /\ w.op = "bind"
                  /\ rows' = rows \cup {[payTo |-> w.payTo, at |-> w.at,
                                         verified |-> FALSE]}
               \/ /\ w.op \in {"displace", "consume"}
                  /\ rows' = {[payTo |-> w.payTo, at |-> w.at, verified |-> TRUE]}
               \/ w.op = "mark"
    BY <1>3 DEF Land, LandBind, ReplaceRows, LandConsume, LandMark
  <2>2. h = w.by /\ At(h, w.op) /\ hook' = [hook EXCEPT ![h].answer = a]
    BY <1>1, <1>3, <2>1 DEF Answer
  <2>3. PICK x : x = [hook[h] EXCEPT !.answer = a]
    OBVIOUS
  <2>4. /\ x \in Hook /\ x.pc = hook[h].pc /\ x.payTo = hook[h].payTo
        /\ x.captured = hook[h].captured /\ x.live = hook[h].live /\ x.answer = a
    BY <1>1, <2>3 DEF Hook
  <2>5. hook'[h] = x
    BY <1>1, <2>2, <2>3
  <2>6. a = "ok" /\ x.pc # "mark" =>
          rows' # {} /\ (x.payTo \in Merchants => RowsProven')
    <3> SUFFICES ASSUME a = "ok", x.pc # "mark"
                 PROVE  rows' # {} /\ (x.payTo \in Merchants => RowsProven')
      OBVIOUS
    <3>1. w.payTo \in {r.payTo : r \in rows'}
      BY <2>1, <2>2, <2>4 DEF At
    <3>2. w.payTo \in Merchants => RowsProven'
      BY <3>1 DEF RowsProven, Matches
    <3>3. w.op = "bind" => w.payTo = x.payTo
      BY <1>1, <2>2, <2>4 DEF WireInv
    <3>4. w.op \in {"displace", "consume"} => w.payTo \in Merchants
      BY <1>1 DEF WireInv
    <3> QED BY <2>1, <2>2, <2>4, <3>1, <3>2, <3>3, <3>4 DEF At
  <2>7. HookInv(x)'
    <3>1. PICK y : y = hook[h]
      OBVIOUS
    <3>2. HookInv(y)'
      BY <1>1, <3>1, HookLasts
    <3> QED BY <2>4, <2>6, <3>1, <3>2 DEF HookInv
  <2> QED BY <2>4, <2>5, <2>7 DEF HookInv
<1> QED BY <1>2, <1>3

LEMMA LandKeeps ==
  ASSUME IInv, NEW w \in wire, Land(w)
  PROVE  IInv'
<1>1. /\ UNCHANGED <<issued, memoryVars, holders, contended>>
      /\ wire' \subseteq wire /\ shared' = shared \cup Beside(rows')
      /\ hook' = hook \/ \E a : Answer(w, a)
      /\ markers' \subseteq markers \/ (w.op = "authorize" /\ markers' = markers \cup {w.pair})
  BY DEF Land, LandBind, ReplaceRows, LandConsume, LandMark
<1>2. /\ rows' \in SUBSET Row /\ saved' \in SavedEntry \cup {None}
      /\ rows # {} => rows' # {}
      /\ saved' # None => rows' # {}
      /\ RowsProven => RowsProven'
      /\ (\E r \in rows' : r.verified) => RowsProven'
  BY RowsLand
<1>3. Lasts
  BY <1>1, <1>2 DEF Lasts, memoryVars, Trusted, OwnerProven
<1>4. \A h \in Hooks :
        /\ hook'[h].pc = hook[h].pc /\ hook'[h].payTo = hook[h].payTo
        /\ hook'[h] \in Hook
        /\ hook'[h] = hook[h] \/ HookInv(hook[h])'
  BY <1>3, HookAnswered
<1>5. hook' \in [Hooks -> Hook]
  <2>1. \A a : Answer(w, a) => hook' = hook \/ \E z : hook' = [hook EXCEPT ![w.by].answer = z]
    BY DEF Answer
  <2>2. hook \in [Hooks -> Hook]
    BY DEF IInv, TypeOK
  <2>3. hook' = hook \/ \E z : hook' = [hook EXCEPT ![w.by].answer = z]
    BY <1>1, <2>1
  <2>4. hook' = [q \in Hooks |-> hook'[q]]
    BY <2>2, <2>3
  <2> QED BY <1>4, <2>4
<1>6. RowInv'
  BY <1>1, <1>2 DEF RowInv
<1>7. TypeOK'
  <2>1. Beside(rows') \subseteq PayTos
    BY <1>2 DEF Beside, Row
  <2>2. markers' \subseteq issued
    BY <1>1 DEF IInv, TypeOK, WireInv
  <2> QED BY <1>1, <1>2, <1>5, <2>1, <2>2 DEF IInv, TypeOK, memoryVars, bootVars
<1>8. OwnerInv' /\ \A e : EntryInv(e) => EntryInv(e)'
  BY <1>1, <1>3, MemoryKept DEF memoryVars
<1>9. PICK e \in Entry \cup {None} : e = entry
  BY DEF IInv, TypeOK
<1>10. EntryInv(e)' /\ entry' = e
  BY <1>1, <1>8, <1>9 DEF IInv, memoryVars
<1>11. EntryInv(entry)' /\ BootInv'
  BY <1>1, <1>3, <1>10 DEF EntryInv, BootInv, Lasts, IInv, memoryVars
<1>12. HolderInv'
  <2>1. holders \subseteq Hooks /\ holders' = holders /\ (e = None => holders = {})
    BY <1>1, <1>9 DEF IInv, TypeOK, HolderInv
  <2> QED BY <1>3, <1>4, <1>9, <1>10, <2>1, HoldersKept
<1>13. \A q \in Hooks : Onward(q)
  BY <1>4 DEF Onward, At
<1> QED BY <1>1, <1>3, <1>4, <1>6, <1>7, <1>8, <1>11, <1>12, <1>13, StepKeeps

-----------------------------------------------------------------------------
(* The process.                                                            *)

\* A restart leaves nothing of the hooks but that they were there.
LEMMA RestartEnds ==
  ASSUME IInv, Restart, OwnerInv', ownership' \in Binding \cup {None},
         latch' \in BOOLEAN, frozen' \in BOOLEAN, loading' \in BOOLEAN
  PROVE  IInv'
<1>1. /\ UNCHANGED <<rows, saved, markers, issued, shared, contended>>
      /\ wire' \subseteq wire /\ holders' = {} /\ bootProbe' = None
      /\ entry' = None /\ bootQueued' = FALSE /\ inherited' \in BOOLEAN
  BY DEF Restart, dbVars
<1>2. PICK done : done = [IdleHook EXCEPT !.pc = "done"]
  OBVIOUS
<1>3. /\ done \in Hook /\ done.pc = "done" /\ done.answer = None
      /\ IdleHook.pc = "idle" /\ IdleHook.answer = None
  BY <1>2 DEF IdleHook, Hook, Pcs
<1>4. hook' = [q \in Hooks |-> IF At(q, "idle") THEN IdleHook ELSE done]
  BY <1>2 DEF Restart
<1>5. hook' \in [Hooks -> Hook]
  BY <1>3, <1>4, IdleType
<1>6. \A q \in Hooks : /\ hook'[q].pc \in {"idle", "done"} /\ hook'[q].answer = None
                       /\ hook'[q].pc = "idle" => At(q, "idle")
  BY <1>3, <1>4
<1>7. TypeOK'
  BY <1>1, <1>5 DEF IInv, TypeOK
<1>8. RowInv' /\ BootInv' /\ HolderInv' /\ EntryInv(entry)'
  BY <1>1 DEF IInv, RowInv, BootInv, HolderInv, EntryInv, RowsProven
<1>9. \A q \in Hooks : HookInv(hook[q])'
  BY <1>6, NoneAssumption DEF HookInv
<1>10. ASSUME NEW w \in wire' PROVE WireInv(w)'
  <2>1. WireInv(w) /\ (w.op # "authorize" => w.by \in Hooks)
    BY <1>1 DEF IInv, TypeOK, Writes
  <2>2. RowsProven' = RowsProven
    BY <1>1 DEF RowsProven
  <2>3. w.op = "bind" => ~At(w.by, "bind")'
    BY <1>6, <2>1 DEF At
  <2> QED BY <1>1, <1>6, <2>1, <2>2, <2>3 DEF WireInv, At
<1> QED BY <1>7, <1>8, <1>9, <1>10 DEF IInv

LEMMA RestartKeeps ==
  ASSUME IInv, Restart
  PROVE  IInv'
<1>1. /\ UNCHANGED <<rows, saved, markers, issued, shared, contended>>
      /\ wire' \subseteq wire /\ holders' = {} /\ bootProbe' = None
  BY DEF Restart, dbVars
<1>3. ASSUME rows # {}
      PROVE  /\ Loaded(rows) \in Binding /\ Loaded(rows) # None
             /\ Loaded(rows).payTos = {r.payTo : r \in rows}
             /\ SoleOrShared(Loaded(rows))
  <2>1. /\ Loaded(rows) \in Binding /\ Loaded(rows) # None
        /\ Loaded(rows).payTos = {r.payTo : r \in rows}
    BY <1>3, LoadedType DEF IInv
  <2>2. CASE \E r, q \in rows : r.payTo # q.payTo
    <3>1. \A r \in rows : \E q \in rows : q.payTo # r.payTo
      BY <2>2
    <3>2. {r.payTo : r \in rows} \subseteq Beside(rows)
      BY <3>1 DEF Beside
    <3> QED BY <2>1, <3>2 DEF SoleOrShared, IInv, RowInv
  <2>3. CASE ~\E r, q \in rows : r.payTo # q.payTo
    <3>1. PICK p \in PayTos : {r.payTo : r \in rows} = {p}
      BY <1>3, <2>3 DEF IInv, TypeOK, Row
    <3> QED BY <2>1, <3>1 DEF SoleOrShared, Binding
  <2> QED BY <2>1, <2>2, <2>3
<1>4. rows = {} => Loaded(rows) = None
  BY DEF Loaded
<1>5. PICK o \in Binding \cup {None} : o = Loaded(rows)
  BY <1>3, <1>4
<1>6. /\ rows # {} => /\ o # None /\ o.payTos = {r.payTo : r \in rows}
                      /\ SoleOrShared(o)
      /\ rows = {} => o = None
  BY <1>3, <1>4, <1>5
<1>7. /\ RowsProven' = RowsProven /\ (SoleOrShared(o) => SoleOrShared(o)')
      /\ rows' = rows
  BY <1>1 DEF RowsProven, SoleOrShared
<1>8. CASE frozen'
  <2>1. ownership' = None /\ latch' = FALSE /\ frozen' = TRUE /\ loading' = FALSE
    BY <1>8 DEF Restart
  <2> QED
    BY <2>1, RestartEnds DEF OwnerInv, OwnerProven
<1>9. CASE ~frozen'
  <2>1. /\ ownership' = o /\ latch' = (\E r \in rows : r.verified)
        /\ frozen' = FALSE /\ loading' = TRUE
    BY <1>5, <1>9 DEF Restart
  <2>2. OwnerProven' <=> o # None /\ Matches(o.payTos)
    BY <2>1 DEF OwnerProven
  <2>3. RowsProven => OwnerProven'
    <3>1. RowsProven => rows # {}
      BY DEF RowsProven, Matches
    <3> QED BY <1>6, <2>2, <3>1 DEF RowsProven
  <2>4. OwnerProven' => RowsProven
    BY <1>6, <2>2 DEF RowsProven
  <2>5. latch' => Trusted'
    BY <2>1, <2>3 DEF IInv, RowInv, Trusted
  <2>6. OwnerInv'
    <3>1. ownership' # None => rows' # {} /\ SoleOrShared(ownership)'
      BY <1>6, <1>7, <2>1 DEF SoleOrShared
    <3> QED BY <1>7, <2>4, <2>5, <3>1 DEF OwnerInv
  <2> QED BY <2>1, <2>6, RestartEnds
<1> QED BY <1>8, <1>9

\* The entry is bound to the owner that was read before it, or to nobody.
LEMMA LoadEntriesKeeps ==
  ASSUME IInv, BootedInv, LoadEntries
  PROVE  IInv'
<1>1. /\ UNCHANGED <<rows, saved, markers, issued, shared, wire, ownership, latch, frozen,
                     inherited, bootProbe, hook, holders, contended>>
      /\ loading' = FALSE /\ bootQueued' \in BOOLEAN
      /\ entry = None /\ holders = {}
  BY DEF LoadEntries, dbVars, hookVars, IInv, HolderInv, BootedInv
<1>2. Lasts /\ OwnerInv'
  BY <1>1, LastsWhenKept, MemoryKept
<1>3. PICK s \in SavedEntry \cup {None}, o \in Binding \cup {None} :
        s = saved /\ o = ownership
  BY DEF IInv, TypeOK
<1>4. PICK b : b = IF o = None THEN Unbound ELSE o
  OBVIOUS
<1>5. PICK e : e = [bound |-> b, badge |-> FALSE, credits |-> s.credits, restored |-> TRUE]
  OBVIOUS
<1>6. /\ b \in Binding \cup {Unbound} /\ SoleOrShared(b)'
      /\ b # Unbound => ownership' # None
      /\ Matches(b.payTos) => (RowsProven /\ Trusted)'
      /\ OwnerProven' => Matches(b.payTos)
  <2>1. CASE o = None
    <3>1. b = Unbound /\ Unbound.payTos = {}
      BY <1>4, <2>1 DEF Unbound
    <3> QED BY <1>1, <1>3, <2>1, <3>1 DEF SoleOrShared, Matches, OwnerProven
  <2>2. CASE o # None
    <3>1. b = o /\ b = ownership'
      BY <1>1, <1>3, <1>4, <2>2
    <3> QED BY <1>2, <2>2, <3>1 DEF OwnerInv, OwnerProven, Trusted, SoleOrShared
  <2> QED BY <2>1, <2>2
<1>7. s # None => EntryInv(e)' /\ e \in Entry
  <2>1. /\ e.bound = b /\ e.badge = FALSE /\ e.restored = TRUE
        /\ e.credits = s.credits
    BY <1>5
  <2>2. s # None => rows' # {} /\ s.credits \in SUBSET PayTos
    BY <1>1, <1>3 DEF IInv, RowInv, SavedEntry
  <2>3. SoleOrShared(e.bound)'
    BY <1>6, <2>1 DEF SoleOrShared
  <2>4. s # None => e \in Entry
    BY <1>5, <1>6, <2>2 DEF Entry
  <2> QED BY <1>6, <2>1, <2>2, <2>3, <2>4 DEF EntryInv
<1>8. entry' = None \/ (s # None /\ entry' = e)
  BY <1>3, <1>4, <1>5 DEF LoadEntries, LoadedEntry
<1>9. EntryInv(entry)' /\ entry' \in Entry \cup {None}
  BY <1>7, <1>8 DEF EntryInv
<1>10. RowInv' /\ BootInv' /\ TypeOK' /\ HolderInv'
  BY <1>1, <1>9
     DEF IInv, RowInv, BootInv, TypeOK, HolderInv, RowsProven, Trusted, OwnerProven
<1>11. \A q \in Hooks : Onward(q) /\ hook'[q] = hook[q]
  BY <1>1 DEF Onward, At
<1> QED BY <1>1, <1>2, <1>9, <1>10, <1>11, StepKeeps

-----------------------------------------------------------------------------
(* The theorems.                                                           *)

LEMMA InitHolds == Init => IInv
<1> SUFFICES ASSUME Init PROVE IInv
  OBVIOUS
<1>1. \A h \in Hooks : hook[h] = IdleHook
  BY DEF Init
<1>2. TypeOK
  BY IdleType DEF Init, TypeOK
<1>3. RowInv /\ OwnerInv /\ EntryInv(entry) /\ BootInv /\ HolderInv
  BY DEF Init, RowInv, OwnerInv, OwnerProven, EntryInv, BootInv, HolderInv, Beside
<1>4. \A h \in Hooks : HookInv(hook[h])
  BY <1>1, NoneAssumption DEF HookInv, IdleHook
<1>5. \A w \in wire : WireInv(w)
  BY DEF Init
<1> QED BY <1>2, <1>3, <1>4, <1>5 DEF IInv

LEMMA HookStepKeeps ==
  ASSUME IInv, BootedInv, NEW h \in Hooks, HookStep(h)
  PROVE  IInv'
<1>1. CASE \E p \in PayTos : Settle(h, p) \/ SettleFirst(h, p)
  BY <1>1, SettleKeeps, SettleFirstKeeps
<1>2. CASE Bound(h)
  BY <1>2, BoundKeeps
<1>3. CASE BindFails(h)
  BY <1>3, BindFailsKeeps
<1>4. CASE LookedUp(h)
  BY <1>4, LookedUpKeeps
<1>5. CASE NotDisplaced(h) \/ DisplacementFails(h) \/ ReverifyRefuses(h) \/ Marked(h)
  BY <1>5, OverSteps
<1>6. CASE ProbeMatches(h)
  BY <1>6, ProbeMatchesKeeps
<1>7. CASE Displaced(h)
  BY <1>7, DisplacedKeeps
<1>8. CASE Rotated(h)
  BY <1>8, RotatedKeeps
<1>9. CASE ReverifyMatches(h)
  BY <1>9, ReverifyMatchesKeeps
<1> QED BY <1>1, <1>2, <1>3, <1>4, <1>5, <1>6, <1>7, <1>8, <1>9 DEF HookStep

\* Nothing happens.
LEMMA StutterKeeps ==
  ASSUME IInv, UNCHANGED vars
  PROVE  IInv'
<1>1. UNCHANGED <<rows, saved, markers, issued, shared, wire, ownership, latch, entry,
                  bootVars, bootQueued, bootProbe, hook, holders, contended>>
  BY DEF vars, dbVars, memoryVars, hookVars
<1>2. Lasts
  BY <1>1, LastsWhenKept
<1>3. PICK e : e = entry
  OBVIOUS
<1>4. OwnerInv' /\ EntryInv(e)'
  BY <1>1, <1>2, <1>3, MemoryKept DEF IInv
<1>5. EntryInv(entry)'
  BY <1>1, <1>3, <1>4 DEF EntryInv
<1>6. TypeOK' /\ RowInv' /\ BootInv' /\ HolderInv'
  BY <1>1 DEF IInv, TypeOK, RowInv, BootInv, HolderInv, bootVars, RowsProven, Trusted,
              OwnerProven, Known, Rotators, At
<1>7. \A q \in Hooks : Onward(q) /\ hook'[q] = hook[q]
  BY <1>1 DEF Onward, At
<1> QED BY <1>1, <1>2, <1>4, <1>5, <1>6, <1>7, StepKeeps

\* Only a boot lists an entry that is bound to nobody.
LEMMA UnboundOnlyAtBoot ==
  ASSUME IInv, BootedInv, [Next]_vars, ~LoadEntries,
         entry' # None, entry'.bound = Unbound
  PROVE  entry # None /\ entry.bound = Unbound
<1>1. PICK e \in Entry \cup {None}, o \in Binding \cup {None} :
        e = entry /\ o = ownership
  BY DEF IInv, TypeOK
<1>2. ASSUME NEW f \in Entry \cup {None}, entry' = Badged(f)
      PROVE  f # None /\ f.bound = Unbound
  BY <1>2, BadgedType
<1>3. ASSUME NEW h \in Hooks, NEW p \in PayTos, NEW f \in Entry \cup {None},
             NEW replaced, AfterUpsert(h, p, f, replaced)
      PROVE  f # None /\ f.bound = Unbound
  <2>1. PICK c : c = Counted(f, p)
    OBVIOUS
  <2>2. c = f \/ (f # None /\ c.bound = f.bound)
    <3>1. CASE f # None /\ p \in f.bound.payTos
      <4>1. c = [f EXCEPT !.credits = @ \cup {p}]
        BY <2>1, <3>1 DEF Counted
      <4> QED BY <3>1, <4>1 DEF Entry
    <3>2. CASE ~(f # None /\ p \in f.bound.payTos)
      BY <2>1, <3>2 DEF Counted
    <3> QED BY <3>1, <3>2
  <2>3. entry' = f \/ entry' = c
    BY <1>3, <2>1 DEF AfterUpsert
  <2> QED BY <2>2, <2>3
<1>4. \A b \in Binding : FreshEntry(b).bound # Unbound /\ FreshEntry(b) \in Entry
  BY FreshType
<1>5. ASSUME NEW h \in Hooks, hook[h].pc \notin {"idle", "done", "lookup"}
      PROVE  hook[h].payTo \in PayTos /\ Sole(hook[h].payTo) \in Binding
  <2>1. hook[h].payTo \in PayTos
    BY <1>5 DEF IInv, HookInv, TypeOK, Hook
  <2> QED BY <2>1, SoleType
<1>6. ASSUME NEW h \in Hooks, HookStep(h), entry' # entry
      PROVE  e # None /\ e.bound = Unbound
  <2>1. CASE \E p \in PayTos : Settle(h, p)
    BY <1>1, <1>3, <1>4, <2>1 DEF Settle
  <2>2. CASE Bound(h)
    BY <1>3, <1>4, <1>5, <2>2 DEF Bound, At
  <2>3. CASE BindFails(h)
    BY <1>1, <1>3, <1>5, <2>3 DEF BindFails, GivesUp, At
  <2>4. CASE Displaced(h)
    BY <1>2, <1>4, <1>5, <2>4 DEF Displaced, At
  <2>5. CASE Rotated(h)
    <3>1. PICK p : p = hook[h].payTo /\ Sole(p) \in Binding
      BY <1>5, <2>5 DEF Rotated, At
    <3>2. PICK f : f = [e EXCEPT !.bound = Sole(p)]
      OBVIOUS
    <3>3. CASE h \in holders
      <4>1. e # None
        BY <1>1, <3>3 DEF IInv, HolderInv
      <4>2. f \in Entry /\ f.bound = Sole(p)
        BY <3>1, <3>2, <4>1 DEF Entry
      <4>3. entry' = Badged(f)
        BY <1>1, <2>5, <3>1, <3>2, <3>3 DEF Rotated
      <4>4. Sole(p) # Unbound
        BY <3>1, FreshType
      <4> QED BY <1>2, <4>2, <4>3, <4>4
    <3>4. CASE h \notin holders
      BY <1>1, <1>2, <2>5, <3>4 DEF Rotated
    <3> QED BY <3>3, <3>4
  <2>6. CASE ReverifyMatches(h)
    BY <1>1, <1>2, <2>6 DEF ReverifyMatches
  <2> QED BY <1>6, <2>1, <2>2, <2>3, <2>4, <2>5, <2>6 DEF HookStep, SettleFirst,
             LookedUp, NotDisplaced, ProbeMatches, DisplacementFails, ReverifyRefuses,
             Marked, memoryVars
<1>7. CASE BootProbeEnds
  BY <1>1, <1>2, <1>7 DEF BootProbeEnds
<1>8. CASE entry' = entry
  BY <1>8
<1> QED BY <1>1, <1>6, <1>7, <1>8 DEF Next, AuthorizeRotation, Land, BootProbeStarts,
           Flush, Evict, Restart, memoryVars, vars

\* Who asks for what, whatever else a hook does.
LEMMA HookGoes ==
  ASSUME IInv, BootedInv, NEW h \in Hooks, HookStep(h)
  PROVE  /\ UNCHANGED <<loading, frozen, inherited, bootQueued>> /\ ~loading
         /\ hook' \in [Hooks -> Hook]
         /\ \A q \in Hooks \ {h} : hook'[q] = hook[q]
         /\ ownership # None => ownership' # None
         /\ hook'[h].pc = "bind" => ownership = None /\ ~frozen
<1>1. /\ hook \in [Hooks -> Hook] /\ HookInv(hook[h])
      /\ IdleHook.pc = "idle" /\ [IdleHook EXCEPT !.pc = "done"].pc = "done"
  BY DEF IInv, TypeOK, IdleHook
<1>2. UNCHANGED <<loading, frozen, inherited, bootQueued>> /\ ~loading
  BY DEF HookStep, Settle, SettleFirst, Bound, BindFails, LookedUp, NotDisplaced,
         ProbeMatches, Displaced, Rotated, DisplacementFails, ReverifyRefuses,
         ReverifyMatches, Marked, GivesUp, At, memoryVars, bootVars, BootedInv
<1>3. ownership # None => ownership' # None
  <2>1. CASE Bound(h) \/ Displaced(h) \/ Rotated(h)
    <3>1. /\ ownership' = Sole(hook[h].payTo)
          /\ hook[h].pc \in {"bind", "displace", "consume"}
      BY <2>1 DEF Bound, Displaced, Rotated, At
    <3>2. hook[h].payTo \in PayTos
      BY <1>1, <3>1 DEF HookInv, Pcs
    <3> QED BY <3>1, <3>2, SoleType
  <2>2. CASE UNCHANGED ownership
    BY <2>2
  <2> QED BY <2>1, <2>2 DEF HookStep, Settle, SettleFirst, BindFails, LookedUp,
             NotDisplaced, ProbeMatches, DisplacementFails, ReverifyRefuses,
             ReverifyMatches, Marked, memoryVars
<1>4. PICK x : /\ hook' = [hook EXCEPT ![h] = x]
               /\ x.pc = "bind" => ownership = None /\ ~frozen
  <2>1. ASSUME NEW p, NEW e, NEW replaced, AfterUpsert(h, p, e, replaced)
        PROVE  \E x : hook' = [hook EXCEPT ![h] = x] /\ x.pc # "bind"
    <3> DEFINE probing(await) == [IdleHook EXCEPT !.pc = await, !.payTo = p,
                                                  !.captured = e.bound]
    <3>1. /\ probing("reverify").pc = "reverify" /\ probing("lookup").pc = "lookup"
      BY DEF IdleHook
    <3>2. \/ Over(h) \/ hook' = [hook EXCEPT ![h] = probing("reverify")]
          \/ hook' = [hook EXCEPT ![h] = probing("lookup")]
      BY <2>1 DEF AfterUpsert
    <3> HIDE DEF probing
    <3> QED BY <1>1, <3>1, <3>2 DEF Over
  <2>2. CASE \E p \in PayTos : Settle(h, p)
    BY <2>1, <2>2 DEF Settle
  <2>3. CASE Bound(h) \/ BindFails(h)
    BY <2>1, <2>3 DEF Bound, BindFails
  <2>4. CASE \E p \in PayTos : SettleFirst(h, p)
    BY <2>4 DEF SettleFirst
  <2>5. CASE Over(h)
    BY <1>1, <2>5 DEF Over
  <2>6. ASSUME NEW await \in Pcs \ {"bind"}, Await(h, await)
        PROVE  \E x : hook' = [hook EXCEPT ![h] = x] /\ x.pc # "bind"
    <3>1. PICK x : x = [hook[h] EXCEPT !.pc = await]
      OBVIOUS
    <3>2. x.pc = await
      BY <1>1, <3>1 DEF Hook
    <3> QED BY <2>6, <3>1, <3>2 DEF Await
  <2>7. CASE LookedUp(h)
    <3>1. PICK live : hook' = [hook EXCEPT ![h].pc = "probe", ![h].live = live]
      BY <2>7 DEF LookedUp
    <3>2. PICK x : x = [hook[h] EXCEPT !.pc = "probe", !.live = live]
      OBVIOUS
    <3>3. x.pc = "probe"
      BY <1>1, <3>2 DEF Hook
    <3>4. hook' = [hook EXCEPT ![h] = x]
      BY <1>1, <3>1, <3>2
    <3> QED BY <3>3, <3>4
  <2> QED BY <2>2, <2>3, <2>4, <2>5, <2>6, <2>7 DEF HookStep, NotDisplaced, ProbeMatches,
             Displaced, Rotated, DisplacementFails, ReverifyRefuses, ReverifyMatches,
             Marked, Pcs
<1>5. hook' \in [Hooks -> Hook]
  <2>1. IInv'
    BY HookStepKeeps
  <2> QED BY <2>1 DEF IInv, TypeOK
<1> QED BY <1>1, <1>2, <1>3, <1>4, <1>5

\* While the listed entry is bound to nobody, a hook looks for a rotation of it, or
\* gives up.
LEMMA HookOfUnbound ==
  ASSUME IInv, BootedInv, NEW h \in Hooks, HookStep(h),
         entry # None, entry.bound = Unbound
  PROVE  /\ UNCHANGED ownership
         /\ hook'[h].pc \in {"done", "lookup"}
         /\ hook'[h].pc = "lookup" => hook'[h].captured = Unbound
<1>1. /\ hook[h].pc \in {"idle", "done", "lookup"}
      /\ hook[h].pc = "lookup" => hook[h].captured = Unbound
      /\ ownership = None /\ Unbound.payTos = {} /\ hook \in [Hooks -> Hook]
  BY DEF BootedInv, At, Unbound, IInv, TypeOK
<1>2. (\E p \in PayTos : Settle(h, p)) \/ NotDisplaced(h)
  BY <1>1 DEF HookStep, SettleFirst, Bound, BindFails, GivesUp, LookedUp, ProbeMatches,
              Displaced, Rotated, DisplacementFails, ReverifyRefuses, ReverifyMatches,
              Marked, At
<1>3. CASE \E p \in PayTos : Settle(h, p)
  <2>1. PICK p \in PayTos : AfterUpsert(h, p, entry, FALSE)
    BY <1>1, <1>3 DEF Settle
  <2> DEFINE x == [IdleHook EXCEPT !.pc = "lookup", !.payTo = p, !.captured = entry.bound]
  <2>2. hook' = [hook EXCEPT ![h] = x]
    BY <1>1, <2>1 DEF AfterUpsert
  <2>3. x.pc = "lookup" /\ x.captured = Unbound
    BY DEF IdleHook
  <2> HIDE DEF x
  <2> QED BY <1>1, <1>3, <2>2, <2>3 DEF Settle
<1>4. CASE NotDisplaced(h)
  <2>1. [IdleHook EXCEPT !.pc = "done"].pc = "done"
    BY DEF IdleHook
  <2> QED BY <1>1, <1>4, <2>1 DEF NotDisplaced, Over, memoryVars
<1> QED BY <1>2, <1>3, <1>4

\* What the boot has read is used as it was read, whatever has landed since.
LEMMA BootedStep == IInv /\ BootedInv /\ [Next]_vars => BootedInv'
<1> SUFFICES ASSUME IInv, BootedInv, [Next]_vars PROVE BootedInv'
  OBVIOUS
<1>1. ASSUME NEW h \in Hooks, HookStep(h) PROVE BootedInv'
  <2>1. /\ UNCHANGED <<loading, frozen, inherited, bootQueued>> /\ ~loading
        /\ \A q \in Hooks \ {h} : hook'[q] = hook[q]
        /\ ownership # None => ownership' # None
        /\ hook'[h].pc = "bind" => ownership = None /\ ~frozen
    BY <1>1, HookGoes
  <2>2. inherited' => /\ frozen' \/ ownership' # None
                      /\ \A q \in Hooks : ~At(q, "bind")'
    BY <2>1 DEF BootedInv, At
  <2>3. ASSUME entry' # None, entry'.bound = Unbound
        PROVE  /\ ownership' = None /\ ~bootQueued'
               /\ \A q \in Hooks :
                    /\ hook'[q].pc \in {"idle", "done", "lookup"}
                    /\ At(q, "lookup")' => hook'[q].captured = Unbound
    <3>1. ~LoadEntries
      BY <2>1 DEF LoadEntries
    <3>2. entry # None /\ entry.bound = Unbound
      BY <2>3, <3>1, UnboundOnlyAtBoot
    <3>3. /\ UNCHANGED ownership
          /\ hook'[h].pc \in {"done", "lookup"}
          /\ hook'[h].pc = "lookup" => hook'[h].captured = Unbound
      BY <1>1, <3>2, HookOfUnbound
    <3> QED BY <2>1, <3>2, <3>3 DEF BootedInv, At
  <2> QED BY <2>1, <2>2, <2>3 DEF BootedInv
<1>2. CASE Restart
  <2>1. IdleHook.pc = "idle" /\ [IdleHook EXCEPT !.pc = "done"].pc = "done"
    BY DEF IdleHook
  <2>2. \A h \in Hooks : hook'[h].pc \in {"idle", "done"}
    BY <1>2, <2>1 DEF Restart
  <2>3. rows # {} => Loaded(rows) # None
    BY LoadedType DEF IInv
  <2> QED BY <1>2, <2>2, <2>3 DEF Restart, BootedInv, At
<1>3. CASE LoadEntries
  <2>1. /\ UNCHANGED <<ownership, frozen, inherited, hook>> /\ loading' = FALSE
        /\ \A h \in Hooks : hook[h].pc \in {"idle", "done"}
    BY <1>3 DEF LoadEntries, BootedInv, hookVars
  <2>2. entry' # None /\ entry'.bound = Unbound => ownership = None /\ ~bootQueued'
    <3>1. PICK o \in Binding \cup {None} : o = ownership
      BY DEF IInv, TypeOK
    <3>2. o # None => o # Unbound
      BY <3>1, FreshType
    <3>3. entry' # None => entry'.bound = IF o = None THEN Unbound ELSE o
      BY <1>3, <3>1 DEF LoadEntries, LoadedEntry
    <3>4. bootQueued' = (latch /\ entry' # None /\ entry'.bound # Unbound)
      BY <1>3 DEF LoadEntries
    <3> QED BY <3>1, <3>2, <3>3, <3>4
  <2> QED BY <2>1, <2>2 DEF BootedInv, At
<1>4. ASSUME ~LoadEntries, ~Restart, UNCHANGED <<ownership, loading, frozen, inherited>>,
             \A h \in Hooks : /\ hook'[h].pc = hook[h].pc
                              /\ hook'[h].captured = hook[h].captured,
             bootQueued' => bootQueued, entry = None => entry' = None
      PROVE  BootedInv'
  <2>1. entry' # None /\ entry'.bound = Unbound => entry # None /\ entry.bound = Unbound
    BY <1>4, UnboundOnlyAtBoot
  <2> QED BY <1>4, <2>1 DEF BootedInv, At
<1>5. ASSUME NEW w \in wire, Land(w) PROVE BootedInv'
  <2>1. \A h \in Hooks : hook'[h].pc = hook[h].pc /\ hook'[h].captured = hook[h].captured
    <3>1. hook \in [Hooks -> Hook]
      BY DEF IInv, TypeOK
    <3>2. hook' = hook \/ \E a : Answer(w, a)
      BY <1>5 DEF Land, LandBind, ReplaceRows, LandConsume, LandMark
    <3>3. hook' = hook \/ \E a : hook' = [hook EXCEPT ![w.by].answer = a]
      BY <3>2 DEF Answer
    <3> SUFFICES ASSUME NEW h \in Hooks, hook'[h] # hook[h]
                 PROVE  hook'[h].pc = hook[h].pc /\ hook'[h].captured = hook[h].captured
      OBVIOUS
    <3>4. PICK a : hook' = [hook EXCEPT ![w.by].answer = a]
      BY <3>3
    <3>5. PICK x : x = [hook[h] EXCEPT !.answer = a]
      OBVIOUS
    <3>6. x.pc = hook[h].pc /\ x.captured = hook[h].captured
      BY <3>1, <3>5 DEF Hook
    <3> QED BY <3>1, <3>4, <3>5, <3>6
  <2>2. ~LoadEntries \/ UNCHANGED <<hook, wire>>
    BY DEF LoadEntries, hookVars
  <2>3. wire' # wire
    BY <1>5 DEF Land
  <2>4. ~Restart \/ entry' = None
    BY DEF Restart
  <2> QED BY <1>2, <1>4, <1>5, <2>1, <2>2, <2>3 DEF Land, memoryVars, bootVars
<1>6. CASE BootProbeStarts \/ BootProbeEnds \/ Flush \/ Evict \/ UNCHANGED vars
           \/ \E old, new \in PayTos : AuthorizeRotation(old, new)
  <2>1. UNCHANGED <<ownership, loading, frozen, inherited, hook>>
        /\ (bootQueued' => bootQueued)
    <3>1. CASE BootProbeStarts
      BY <3>1 DEF BootProbeStarts, bootVars, hookVars
    <3>2. CASE BootProbeEnds
      BY <3>2 DEF BootProbeEnds, bootVars, hookVars
    <3>3. CASE Flush
      BY <3>3 DEF Flush, memoryVars, bootVars, hookVars
    <3>4. ASSUME NEW old \in PayTos, NEW new \in PayTos, AuthorizeRotation(old, new)
          PROVE  UNCHANGED <<memoryVars, hookVars>>
      BY <3>4 DEF AuthorizeRotation
    <3>5. CASE Evict
      BY <3>5 DEF Evict, bootVars, hookVars
    <3>6. CASE UNCHANGED vars
      BY <3>6 DEF vars, memoryVars, bootVars, hookVars
    <3> QED BY <1>6, <3>1, <3>2, <3>3, <3>4, <3>5, <3>6
            DEF memoryVars, bootVars, hookVars
  <2>2. entry = None => entry' = None
    <3>1. entry' \in {entry, None, Badged(entry)}
      BY <1>6 DEF BootProbeStarts, BootProbeEnds, Flush, Evict, AuthorizeRotation, vars,
                  memoryVars
    <3> QED BY <3>1 DEF Badged
  <2> QED BY <1>2, <1>3, <1>4, <2>1, <2>2 DEF bootVars
<1> QED BY <1>1, <1>2, <1>3, <1>5, <1>6 DEF Next

LEMMA StepHolds == IInv /\ BootedInv /\ [Next]_vars => IInv'
<1> SUFFICES ASSUME IInv, BootedInv, [Next]_vars PROVE IInv'
  OBVIOUS
<1>1. ASSUME NEW h \in Hooks, HookStep(h) PROVE IInv'
  BY <1>1, HookStepKeeps
<1>2. ASSUME NEW old \in PayTos, NEW new \in PayTos, AuthorizeRotation(old, new)
      PROVE  IInv'
  BY <1>2, AuthorizeKeeps
<1>3. ASSUME NEW w \in wire, Land(w) PROVE IInv'
  BY <1>3, LandKeeps
<1>4. CASE BootProbeStarts \/ BootProbeEnds
  BY <1>4, BootProbeKeeps
<1>5. CASE Flush \/ Evict
  BY <1>5, FlushOrEvictKeeps
<1>6. CASE Restart
  BY <1>6, RestartKeeps
<1>7. CASE LoadEntries
  BY <1>7, LoadEntriesKeeps
<1>8. CASE UNCHANGED vars
  BY <1>8, StutterKeeps
<1> QED BY <1>1, <1>2, <1>3, <1>4, <1>5, <1>6, <1>7, <1>8 DEF Next

LEMMA Invariance == Spec => [](IInv /\ BootedInv)
<1>1. Init => BootedInv
  BY DEF Init, BootedInv
<1> QED BY <1>1, InitHolds, StepHolds, BootedStep, PTL DEF Spec

\* The tables, the maps and the local variables of the hooks keep their types,
\* and every unspent rotation marker is of an authorization that was requested.
THEOREM TypeCorrect == Spec => []TypeOK
<1>1. IInv => TypeOK
  BY DEF IInv
<1> QED BY <1>1, Invariance, PTL

\* bindOwnership awaits its write: whatever is bound or listed in memory has an
\* ownership row, whichever writes failed, timed out or landed late.
THEOREM BindingDurable == Spec => []BindingIsDurable
<1>1. IInv /\ BootedInv => BindingIsDurable
  BY DEF IInv, RowInv, OwnerInv, EntryInv, BootedInv, BindingIsDurable
<1> QED BY <1>1, Invariance, PTL

\* The latch, the badge and the verified rows rest on a challenge of the resource
\* that named a bound address, through eviction, restart, probes that outlive
\* their entry and late writes of tryDisplace and reverify.
THEOREM TrustProven == Spec => []ProvenTrust
<1>1. ASSUME IInv PROVE LatchHasProof /\ BadgeEarned
  BY <1>1 DEF IInv, OwnerInv, EntryInv, Trusted, OwnerProven, LatchHasProof, BadgeEarned
<1>2. IInv => VerifiedRowsProven
  BY DEF IInv, RowInv, RowsProven, VerifiedRowsProven
<1>3. IInv => ProvenTrust
  BY <1>1, <1>2 DEF ProvenTrust
<1> QED BY <1>3, Invariance, PTL

\* recordSettlement counts bound payTos only, and what a rotated entry keeps was
\* counted for its owners, for addresses of the challenge, or for one that shared
\* the binding.
THEOREM StatsObserved == Spec => []ObservedStats
<1>1. IInv => ObservedStats
  BY DEF IInv, EntryInv, ObservedStats
<1> QED BY <1>1, Invariance, PTL

\* tryDisplace: outside a restart and overlapping first settlements, the owner in
\* memory changes only to an address that a challenge of the resource named.
THEOREM OwnerChangesOnProof == Spec => DisplacedOnProof
<1> DEFINE Changes == /\ ownership # None /\ ownership' # None
                      /\ ownership'.owner # ownership.owner /\ ~contended'
           OnProof == Changes => ownership'.owner \in Merchants \/ Restart
<1>1. ASSUME IInv, [Next]_vars PROVE [OnProof]_vars
  <2> SUFFICES ASSUME Changes, Next, ~Restart PROVE ownership'.owner \in Merchants
    BY <1>1
  <2>1. PICK h \in Hooks : Bound(h) \/ Displaced(h) \/ Rotated(h)
    BY DEF Next, HookStep, Settle, SettleFirst, BindFails, LookedUp, NotDisplaced,
           ProbeMatches, DisplacementFails, ReverifyRefuses, ReverifyMatches, Marked,
           AuthorizeRotation, Land, BootProbeStarts, BootProbeEnds, Flush, Evict,
           LoadEntries, memoryVars
  <2>2. ~Bound(h)
    BY DEF Bound
  <2>3. PICK p : p = hook[h].payTo
    OBVIOUS
  <2>4. /\ At(h, "displace") \/ At(h, "consume")
        /\ hook[h].answer = "ok" /\ ownership' = Sole(p) /\ latch' = TRUE
        /\ UNCHANGED <<dbVars, contended>>
    BY <2>1, <2>2, <2>3 DEF Displaced, Rotated
  <2>5. p \in Merchants
    BY <1>1, <2>3, <2>4, OwnerProbed
  <2> QED BY <2>4, <2>5 DEF Sole
<1> QED BY <1>1, Invariance, PTL DEF Spec, DisplacedOnProof

-----------------------------------------------------------------------------
(* The catalog implements ResourceBinding.                                 *)

\* While the resource has no row, settlements have only asked for its first one.
OnlyFirstBindings ==
  rows = {} => /\ \A h \in Hooks : hook[h].pc \in {"idle", "bind", "done"}
               /\ \A w \in wire : w.op = "bind"

SlotInv == IInv /\ BootedInv /\ OnlyFirstBindings

\* What a hook can do for a resource without a row.
LEMMA FirstBindingsOnly ==
  ASSUME SlotInv, rows = {}, NEW h \in Hooks, HookStep(h)
  PROVE  OnlyFirstBindings'
<1>1. /\ entry = None /\ hook \in [Hooks -> Hook]
      /\ \A q \in Hooks : hook[q].pc \in {"idle", "bind", "done"}
      /\ \A w \in wire : w.op = "bind"
  BY DEF SlotInv, IInv, OwnerInv, EntryInv, TypeOK, OnlyFirstBindings
<1>2. hook[h].answer = "ok" => hook[h].pc = "mark"
  BY DEF SlotInv, IInv, HookInv
<1>3. IdleHook.pc = "idle" /\ [IdleHook EXCEPT !.pc = "done"].pc = "done"
  BY DEF IdleHook
<1>4. ASSUME Over(h), wire' \subseteq wire PROVE OnlyFirstBindings'
  BY <1>1, <1>3, <1>4 DEF Over, OnlyFirstBindings
<1>5. ASSUME NEW p, AfterUpsert(h, p, entry, FALSE) PROVE Over(h)
  BY <1>1, <1>5 DEF AfterUpsert
<1>6. CASE \E p \in PayTos : Settle(h, p)
  <2>1. PICK p \in PayTos : Settle(h, p)
    BY <1>6
  <2>2. ownership = None
    BY <1>1 DEF SlotInv, IInv, OwnerInv
  <2>3. AfterUpsert(h, p, entry, FALSE) /\ wire' = wire
    BY <1>1, <2>1, <2>2 DEF Settle
  <2> QED BY <1>4, <1>5, <2>3
<1>7. CASE \E p \in PayTos : SettleFirst(h, p)
  <2>1. PICK x, w : /\ hook' = [hook EXCEPT ![h] = x] /\ x.pc = "bind"
                    /\ wire' = wire \cup {w} /\ w.op = "bind"
    <3>1. PICK p \in PayTos : SettleFirst(h, p)
      BY <1>7
    <3> DEFINE x == [IdleHook EXCEPT !.pc = "bind", !.payTo = p]
               w == [op |-> "bind", by |-> h, payTo |-> p, at |-> BindTime, from |-> p]
    <3>2. x.pc = "bind" /\ w.op = "bind"
      BY DEF IdleHook
    <3>3. hook' = [hook EXCEPT ![h] = x] /\ wire' = wire \cup {w}
      BY <3>1 DEF SettleFirst, Send
    <3> HIDE DEF x, w
    <3> QED BY <3>2, <3>3
  <2> QED BY <1>1, <2>1 DEF OnlyFirstBindings
<1>8. CASE BindFails(h)
  <2>1. AfterUpsert(h, hook[h].payTo, entry, FALSE) /\ wire' \subseteq wire
    BY <1>8 DEF BindFails, GivesUp
  <2> QED BY <1>4, <1>5, <2>1
<1> QED BY <1>1, <1>2, <1>6, <1>7, <1>8 DEF HookStep, At, Bound, LookedUp, NotDisplaced,
           ProbeMatches, Displaced, Rotated, DisplacementFails, GivesUp, ReverifyRefuses,
           ReverifyMatches, Marked

LEMMA SlotStep == SlotInv /\ [Next]_vars => SlotInv'
<1> SUFFICES ASSUME SlotInv, [Next]_vars PROVE OnlyFirstBindings'
  BY StepHolds, BootedStep DEF SlotInv
<1>1. rows # {} => rows' # {}
  <2>1. ASSUME NEW w \in wire, Land(w) PROVE rows # {} => rows' # {}
    BY <2>1, RowsLand DEF SlotInv
  <2> QED BY <2>1 DEF Next, HookStep, Settle, SettleFirst, Bound, BindFails, LookedUp,
             NotDisplaced, ProbeMatches, Displaced, Rotated, DisplacementFails,
             ReverifyRefuses, ReverifyMatches, Marked, AuthorizeRotation,
             BootProbeStarts, BootProbeEnds, Flush, Evict, Restart, LoadEntries, dbVars, vars
<1> SUFFICES ASSUME rows = {}, rows' = {} PROVE OnlyFirstBindings'
  BY <1>1 DEF OnlyFirstBindings
<1>2. /\ entry = None /\ hook \in [Hooks -> Hook]
      /\ \A q \in Hooks : hook[q].pc \in {"idle", "bind", "done"}
      /\ \A w \in wire : w.op = "bind"
  BY DEF SlotInv, IInv, OwnerInv, EntryInv, TypeOK, OnlyFirstBindings
<1>3. ASSUME NEW h \in Hooks, HookStep(h) PROVE OnlyFirstBindings'
  BY <1>3, FirstBindingsOnly
<1>4. ASSUME NEW w \in wire, Land(w) PROVE OnlyFirstBindings'
  <2>1. w.op = "bind" /\ wire' \subseteq wire
    BY <1>2, <1>4 DEF Land
  <2>2. \A q \in Hooks : hook'[q].pc = hook[q].pc
    <3>1. PICK a : Answer(w, a) 
      BY <1>4, <2>1 DEF Land, LandBind
    <3>2. hook' = hook \/ hook' = [hook EXCEPT ![w.by].answer = a]
      BY <3>1 DEF Answer
    <3> QED BY <1>2, <3>2 DEF Hook
  <2> QED BY <1>2, <2>1, <2>2 DEF OnlyFirstBindings
<1>5. CASE Restart
  <2>1. IdleHook.pc = "idle" /\ [IdleHook EXCEPT !.pc = "done"].pc = "done"
    BY DEF IdleHook
  <2> QED BY <1>2, <1>5, <2>1 DEF Restart, OnlyFirstBindings
<1>6. CASE UNCHANGED <<hook, wire>>
  BY <1>2, <1>6 DEF OnlyFirstBindings
<1> QED BY <1>2, <1>3, <1>4, <1>5, <1>6 DEF Next, AuthorizeRotation, BootProbeStarts,
           BootProbeEnds, Flush, Evict, LoadEntries, hookVars, vars

\* The rows and the owner are all that the abstract specification sees.
LEMMA UnseenStep ==
  UNCHANGED <<rows, ownership, contended>> => UNCHANGED Slot!vars
BY DEF Slot!vars

\* Every write that lands is a step of the binding in the database, or none.
LEMMA LandBinds ==
  ASSUME IInv, OnlyFirstBindings, NEW w \in wire, Land(w)
  PROVE  [Slot!Next]_(Slot!vars)
<1> DEFINE bound == {r.payTo : r \in rows}
           proven == \E r \in rows : r.verified
<1>1. /\ w \in Writes /\ WireInv(w) /\ rows \in SUBSET Row
      /\ UNCHANGED <<ownership, contended>>
  BY DEF IInv, TypeOK, Land, memoryVars
<1>2. CASE rows' = rows
  BY <1>1, <1>2, UnseenStep
<1>3. CASE /\ w.op = "bind" /\ ~\E r \in rows : r.payTo = w.payTo
           /\ rows' = rows \cup {[payTo |-> w.payTo, at |-> w.at, verified |-> FALSE]}
  <2>1. w.payTo \in PayTos /\ w.payTo \notin bound
    BY <1>1, <1>3 DEF Writes
  <2>2. PICK n : rows' = rows \cup {n} /\ n.payTo = w.payTo /\ ~n.verified
    <3>1. PICK n : n = [payTo |-> w.payTo, at |-> w.at, verified |-> FALSE]
      OBVIOUS
    <3>2. n.payTo = w.payTo /\ ~n.verified
      BY <3>1
    <3>3. rows' = rows \cup {n}
      BY <1>3, <3>1
    <3> QED BY <3>2, <3>3
  <2>3. bound' = bound \cup {w.payTo} /\ proven' = proven
    BY <2>2
  <2>4. Slot!Claim(w.payTo)
    BY <1>1, <2>1, <2>3 DEF Slot!Claim
  <2> QED BY <2>1, <2>4 DEF Slot!Next
<1>4. CASE /\ w.op \in {"displace", "consume"}
           /\ rows' = {[payTo |-> w.payTo, at |-> w.at, verified |-> TRUE]}
  <2>1. w.payTo \in PayTos /\ w.payTo \in Merchants
    BY <1>1, <1>4 DEF Writes, WireInv
  <2>2. bound # {}
    BY <1>4 DEF OnlyFirstBindings
  <2>3. bound' = {w.payTo} /\ proven' = TRUE
    BY <1>4
  <2>4. Slot!Displace(w.payTo)
    BY <1>1, <2>1, <2>2, <2>3 DEF Slot!Displace
  <2> QED BY <2>1, <2>4 DEF Slot!Next
<1>5. CASE w.op = "mark" /\ LandMark(w)
  <2> DEFINE Mark(r) == IF r.payTo = w.payTo THEN [r EXCEPT !.verified = TRUE] ELSE r
  <2>1. rows' = {Mark(r) : r \in rows}
    BY <1>5 DEF LandMark
  <2>2. ASSUME NEW r \in rows
        PROVE  Mark(r).payTo = r.payTo /\ (r.verified => Mark(r).verified)
    BY <1>1 DEF Row
  <2> HIDE DEF Mark
  <2>3. bound' = bound
    BY <2>1, <2>2
  <2>4. bound \cap Merchants # {}
    BY <1>1, <1>5 DEF WireInv, RowsProven, Matches
  <2>5. CASE proven'
    <3>1. Slot!Prove
      BY <1>1, <2>3, <2>4, <2>5 DEF Slot!Prove
    <3> QED BY <3>1 DEF Slot!Next
  <2>6. CASE ~proven'
    <3>1. proven => proven'
      BY <2>1, <2>2
    <3>2. proven' = proven
      BY <2>6, <3>1
    <3> QED BY <1>1, <2>3, <3>2 DEF Slot!vars
  <2> QED BY <2>5, <2>6
<1>6. \/ rows' = rows
      \/ /\ w.op = "bind" /\ ~\E r \in rows : r.payTo = w.payTo
         /\ rows' = rows \cup {[payTo |-> w.payTo, at |-> w.at, verified |-> FALSE]}
      \/ /\ w.op \in {"displace", "consume"}
         /\ rows' = {[payTo |-> w.payTo, at |-> w.at, verified |-> TRUE]}
      \/ w.op = "mark" /\ LandMark(w)
  BY DEF Land, LandBind, ReplaceRows, LandConsume
<1> QED BY <1>2, <1>3, <1>4, <1>5, <1>6

\* What a hook learns of its write makes an owner, and nothing else does.
LEMMA HookBinds ==
  ASSUME IInv, NEW h \in Hooks, HookStep(h)
  PROVE  [Slot!Next]_(Slot!vars)
<1>1. /\ HookInv(hook[h]) /\ hook[h] \in Hook
  BY DEF IInv, TypeOK
<1>2. PICK p : p = hook[h].payTo
  OBVIOUS
<1>3. p \in PayTos => Sole(p) # None /\ Sole(p).owner = p
  BY SoleType
<1>4. CASE Bound(h)
  <2>1. p \in PayTos /\ rows # {}
    BY <1>1, <1>2, <1>4 DEF HookInv, Bound, At, Pcs
  <2>2. /\ ownership' = Sole(p) /\ UNCHANGED rows
        /\ contended' = (contended \/ ownership # None)
    BY <1>2, <1>4 DEF Bound, dbVars
  <2>3. ownership # None => ownership.owner # None
    BY NoneAssumption DEF IInv, TypeOK, Binding
  <2>4. Slot!Acknowledge(p)
    BY <1>3, <2>1, <2>2, <2>3 DEF Slot!Acknowledge
  <2> QED BY <2>1, <2>4 DEF Slot!Next
<1>5. CASE Displaced(h) \/ Rotated(h)
  <2>1. /\ p \in PayTos /\ p \in Merchants /\ RowsProven
    BY <1>1, <1>2, <1>5, CatalogAssumption DEF HookInv, Displaced, Rotated, At
  <2>2. ownership' = Sole(p) /\ UNCHANGED <<rows, contended>>
    BY <1>2, <1>5 DEF Displaced, Rotated, dbVars
  <2>3. Slot!TakeOver(p)
    BY <1>3, <2>1, <2>2 DEF Slot!TakeOver, RowsProven, Matches
  <2> QED BY <2>1, <2>3 DEF Slot!Next
<1>6. CASE UNCHANGED <<rows, ownership, contended>>
  BY <1>6, UnseenStep
<1> QED BY <1>4, <1>5, <1>6 DEF HookStep, Settle, SettleFirst, BindFails, LookedUp,
           NotDisplaced, ProbeMatches, DisplacementFails, ReverifyRefuses,
           ReverifyMatches, Marked, dbVars, memoryVars

\* A boot takes an owner from the rows.
LEMMA RestartBinds ==
  ASSUME IInv, Restart
  PROVE  [Slot!Next]_(Slot!vars)
<1> DEFINE owner == IF ownership = None THEN None ELSE ownership.owner
<1>1. owner' \in {r.payTo : r \in rows} \cup {None}
  <2>1. CASE ownership' = None
    BY <2>1
  <2>2. CASE ownership' = Loaded(rows) /\ rows # {}
    <3>1. Oldest(rows) \in rows /\ ownership' # None
      BY <2>2, LoadedType DEF IInv
    <3>2. ownership'.owner = Oldest(rows).payTo
      BY <2>2 DEF Loaded
    <3> QED BY <3>1, <3>2
  <2> QED BY <2>1, <2>2 DEF Restart, Loaded
<1>2. UNCHANGED <<rows, contended>>
  BY DEF Restart, dbVars
<1>3. Slot!Recover
  BY <1>1, <1>2 DEF Slot!Recover
<1> QED BY <1>3 DEF Slot!Next

\* The rows of table ownership and the owner in memory change by the steps of
\* ResourceBinding only: a row of another is taken only by an address that the
\* resource's challenge names, the server takes an address for the owner only
\* when one is bound, and a boot takes one that is.
THEOREM CatalogImplementsBinding == Spec => ImplementsBinding
<1>1. Init => Slot!Init
  BY DEF Init, Slot!Init
<1>2. Init => SlotInv
  BY InitHolds DEF Init, SlotInv, BootedInv, OnlyFirstBindings, IdleHook
<1>3. ASSUME SlotInv, [Next]_vars PROVE [Slot!Next]_(Slot!vars)
  <2>1. ASSUME NEW h \in Hooks, HookStep(h) PROVE [Slot!Next]_(Slot!vars)
    BY <1>3, <2>1, HookBinds DEF SlotInv
  <2>2. ASSUME NEW w \in wire, Land(w) PROVE [Slot!Next]_(Slot!vars)
    BY <1>3, <2>2, LandBinds DEF SlotInv
  <2>3. CASE Restart
    BY <1>3, <2>3, RestartBinds DEF SlotInv
  <2>4. CASE UNCHANGED <<rows, ownership, contended>>
    BY <2>4, UnseenStep
  <2> QED BY <1>3, <2>1, <2>2, <2>3, <2>4 DEF Next, AuthorizeRotation, BootProbeStarts,
             BootProbeEnds, Flush, Evict, LoadEntries, dbVars, memoryVars, vars
<1> QED BY <1>1, <1>2, <1>3, SlotStep, PTL DEF Spec, ImplementsBinding, Slot!Spec

-----------------------------------------------------------------------------
(* SearchIndex. Finite sets in order.                                      *)

\* A sequence of the elements of a finite set, each once, has them all.
LEMMA ListsAll ==
  ASSUME NEW S, IsFiniteSet(S), NEW s \in SetToSeqs(S)
  PROVE  /\ Cardinality(S) \in Nat /\ DOMAIN s = 1 .. Cardinality(S) /\ s \in Seq(S)
         /\ \A i \in DOMAIN s : s[i] \in S
         /\ IsInjective(s)
         /\ \A x \in S : \E i \in DOMAIN s : s[i] = x
         /\ ToSet(s) = S
<1> DEFINE n == Cardinality(S)
<1>1. n \in Nat
  BY FS_CardinalityType
<1>2. s \in [1 .. n -> S] /\ \A i, j \in 1 .. n : i # j => s[i] # s[j]
  BY DEF SetToSeqs
<1>3. s \in Injection(1 .. n, S)
  BY <1>2 DEF Injection, IsInjective
<1>4. Cardinality(1 .. n) = n
  BY <1>1, FS_Interval
<1>5. s \in Surjection(1 .. n, S)
  BY <1>3, <1>4, FS_Injection
<1>6. \A x \in S : \E i \in 1 .. n : s[i] = x
  BY <1>5 DEF Surjection
<1> QED BY <1>1, <1>2, <1>6 DEF IsInjective, ToSet

LEMMA SetToSeqLists ==
  ASSUME NEW S, IsFiniteSet(S)
  PROVE  SetToSeq(S) \in SetToSeqs(S)
<1>1. PICK f : f \in Bijection(1 .. Cardinality(S), S)
  BY FS_CardinalityType DEF ExistsBijection
<1>2. f \in [1 .. Cardinality(S) -> S] /\ IsInjective(f)
  BY <1>1 DEF Bijection, Injection
<1>3. SetToSeq(S) \in [1 .. Cardinality(S) -> S] /\ IsInjective(SetToSeq(S))
  BY <1>2 DEF SetToSeq
<1> QED BY <1>3 DEF SetToSeqs, IsInjective

StrictOrder(R, S) ==
  /\ \A x \in S : <<x, x>> \notin R
  /\ \A x, y, z \in S : <<x, y>> \in R /\ <<y, z>> \in R => <<x, z>> \in R

LEMMA LastExists ==
  ASSUME NEW S, IsFiniteSet(S), NEW R, StrictOrder(R, S)
  PROVE  S # {} => \E x \in S : \A y \in S : <<x, y>> \notin R
<1> DEFINE U == {t \in SUBSET S : t # {} /\ ~ \E x \in t : \A y \in t : <<x, y>> \notin R}
<1> SUFFICES ASSUME U # {} PROVE FALSE
  OBVIOUS
<1>1. PICK t \in U : \A u \in U : ~(u \subseteq t /\ u # t)
  <2>1. U \in SUBSET (SUBSET S)
    OBVIOUS
  <2> HIDE DEF U
  <2> QED BY <2>1, LeastSubset
<1>2. PICK p \in t : TRUE
  BY <1>1
<1>3. t \ {p} \notin U
  BY <1>1, <1>2
<1>4. CASE t \ {p} = {}
  BY <1>1, <1>2, <1>4 DEF StrictOrder
<1>5. CASE t \ {p} # {}
  <2>1. PICK x \in t \ {p} : \A y \in t \ {p} : <<x, y>> \notin R
    BY <1>1, <1>3, <1>5
  <2>2. CASE <<x, p>> \notin R
    BY <1>1, <2>1, <2>2
  <2>3. CASE <<x, p>> \in R
    <3>1. \A y \in t : <<p, y>> \notin R
      BY <1>1, <1>2, <2>1, <2>3 DEF StrictOrder
    <3> QED BY <1>1, <1>2, <3>1
  <2> QED BY <2>2, <2>3
<1> QED BY <1>4, <1>5

\* sort() has an answer, whatever a strict order leaves open.
LEMMA SortExists ==
  ASSUME NEW S, IsFiniteSet(S), NEW R, StrictOrder(R, S)
  PROVE  \E s \in SetToSeqs(S) : \A i, j \in DOMAIN s : <<s[i], s[j]>> \in R => i < j
<1> DEFINE Sorts(t) ==
             \E s \in SetToSeqs(t) : \A i, j \in DOMAIN s : <<s[i], s[j]>> \in R => i < j
           U == {t \in SUBSET S : ~Sorts(t)}
<1> SUFFICES ASSUME U # {} PROVE FALSE
  OBVIOUS
<1>1. PICK t \in U : \A u \in U : ~(u \subseteq t /\ u # t)
  <2>1. U \in SUBSET (SUBSET S)
    OBVIOUS
  <2> HIDE DEF U
  <2> QED BY <2>1, LeastSubset
<1>2. IsFiniteSet(t) /\ Cardinality(t) \in Nat /\ StrictOrder(R, t) /\ t \in SUBSET S
  BY <1>1, FS_Subset, FS_CardinalityType DEF StrictOrder
<1>3. CASE t = {}
  <2> DEFINE s == [i \in 1 .. 0 |-> 0]
  <2>1. Cardinality(t) = 0
    BY <1>3, FS_EmptySet
  <2>2. s \in SetToSeqs(t) /\ DOMAIN s = {}
    BY <2>1 DEF SetToSeqs
  <2> HIDE DEF s
  <2> QED BY <1>1, <2>2
<1>4. CASE t # {}
  <2>1. PICK m \in t : \A y \in t : <<m, y>> \notin R
    BY <1>2, <1>4, LastExists
  <2> DEFINE k == Cardinality(t)
             u == t \ {m}
  <2>2. Cardinality(u) = k - 1 /\ IsFiniteSet(u) /\ k \in Nat
    BY <1>2, FS_RemoveElement
  <2>3. u \notin U /\ u \in SUBSET S
    BY <1>1, <1>2
  <2>4. PICK s \in SetToSeqs(u) : \A i, j \in DOMAIN s : <<s[i], s[j]>> \in R => i < j
    BY <2>3
  <2>5. /\ DOMAIN s = 1 .. k - 1 /\ \A i \in 1 .. k - 1 : s[i] \in t /\ s[i] # m
        /\ \A i, j \in 1 .. k - 1 : i # j => s[i] # s[j]
    <3> HIDE DEF k, u
    <3> QED BY <2>2, <2>4, ListsAll DEF IsInjective, u
  <2> HIDE DEF k, u
  <2> DEFINE all == [i \in 1 .. k |-> IF i = k THEN m ELSE s[i]]
  <2>6. \A i \in 1 .. k : i = k \/ i \in 1 .. k - 1
    BY <2>2
  <2>7. \A i \in 1 .. k : all[i] \in t /\ (i # k => all[i] = s[i] /\ all[i] # m)
    BY <2>5, <2>6
  <2>8. all[k] = m \/ k \notin 1 .. k
    OBVIOUS
  <2>9. all \in SetToSeqs(t)
    <3>1. all \in [1 .. k -> t]
      BY <2>7
    <3>2. ASSUME NEW i \in 1 .. k, NEW j \in 1 .. k, i # j PROVE all[i] # all[j]
      BY <2>5, <2>6, <2>7, <2>8, <3>2
    <3> HIDE DEF all
    <3> QED BY <3>1, <3>2 DEF SetToSeqs, k
  <2>10. ASSUME NEW i \in 1 .. k, NEW j \in 1 .. k, <<all[i], all[j]>> \in R PROVE i < j
    <3>1. all[j] \in t /\ all[i] \in t
      BY <2>7
    <3>2. i # k
      <4> SUFFICES ASSUME i = k PROVE FALSE
        OBVIOUS
      <4>1. all[i] = m
        BY <2>8
      <4> HIDE DEF all
      <4> QED BY <2>1, <2>10, <3>1, <4>1
    <3>3. i \in 1 .. k - 1 /\ all[i] = s[i]
      BY <2>6, <2>7, <3>2
    <3>4. CASE j = k
      BY <2>2, <3>3, <3>4
    <3>5. CASE j # k
      <4>1. j \in 1 .. k - 1 /\ all[j] = s[j]
        BY <2>6, <2>7, <3>5
      <4> HIDE DEF all
      <4> QED BY <2>4, <2>5, <2>10, <3>3, <4>1
    <3> QED BY <3>4, <3>5
  <2>11. DOMAIN all = 1 .. k
    OBVIOUS
  <2> HIDE DEF all
  <2> QED BY <1>1, <2>9, <2>10, <2>11
<1> QED BY <1>3, <1>4

-----------------------------------------------------------------------------
(* SearchIndex. The sum of the reciprocal ranks.                           *)

\* A product is greater when a factor is.
LEMMA TimesGreater ==
  ASSUME NEW a \in Nat, NEW b \in Nat, NEW c \in Nat \ {0}
  PROVE  a > b <=> a * c > b * c
<1>1. ASSUME NEW x \in Nat, NEW y \in Nat, x > y PROVE x * c > y * c
  <2>1. PICK d \in Nat \ {0} : x = y + d
    <3>1. x - y \in Nat \ {0} /\ x = y + (x - y)
      BY <1>1
    <3> QED BY <3>1
  <2>2. x * c = y * c + d * c
    BY <2>1
  <2>3. d * c \in Nat /\ d * c >= 1 /\ y * c \in Nat
    BY SMTT(30)
  <2> QED BY <2>2, <2>3
<1>2. CASE a > b
  BY <1>1, <1>2
<1>3. CASE a = b
  BY <1>3
<1>4. CASE b > a
  <2>1. b * c > a * c /\ a * c \in Nat /\ b * c \in Nat
    BY <1>1, <1>4
  <2> QED BY <1>4, <2>1
<1> QED BY <1>2, <1>3, <1>4

\* Fractions n / d, compared over the common denominator.
Exceeds(n, d, m, e) == n * e > m * d

LEMMA ExceedsIsOrder ==
  ASSUME NEW a \in Nat, NEW b \in Nat, NEW c \in Nat,
         NEW d \in Nat \ {0}, NEW e \in Nat \ {0}, NEW f \in Nat \ {0}
  PROVE  /\ ~Exceeds(a, d, a, d)
         /\ Exceeds(a, d, b, e) => ~Exceeds(b, e, a, d)
         /\ Exceeds(a, d, b, e) /\ ~Exceeds(c, f, b, e) => Exceeds(a, d, c, f)
         /\ ~Exceeds(b, e, a, d) /\ Exceeds(b, e, c, f) => Exceeds(a, d, c, f)
         /\ ~Exceeds(b, e, a, d) /\ ~Exceeds(c, f, b, e) => ~Exceeds(c, f, a, d)
<1> DEFINE X == (a * e) * f
           Y == (b * d) * f
           Z == (c * e) * d
<1>1. /\ a * e \in Nat /\ b * d \in Nat /\ b * f \in Nat
      /\ c * e \in Nat /\ a * f \in Nat /\ c * d \in Nat
  OBVIOUS
<1>2. X = (a * f) * e /\ Y = (b * f) * d /\ Z = (c * d) * e
  BY SMTT(30)
<1>3. X \in Nat /\ Y \in Nat /\ Z \in Nat
  BY <1>1
<1>4. (a * e > b * d <=> X > Y) /\ (b * d > a * e <=> Y > X)
  BY <1>1, TimesGreater
<1>5. (b * f > c * e <=> Y > Z) /\ (c * e > b * f <=> Z > Y)
  <2>1. (b * f > c * e <=> (b * f) * d > Z) /\ (c * e > b * f <=> Z > (b * f) * d)
    BY <1>1, TimesGreater
  <2> QED BY <1>2, <2>1
<1>6. (a * f > c * d <=> X > Z) /\ (c * d > a * f <=> Z > X)
  <2>1. (a * f > c * d <=> (a * f) * e > (c * d) * e)
        /\ (c * d > a * f <=> (c * d) * e > (a * f) * e)
    BY <1>1, TimesGreater
  <2> QED BY <1>2, <2>1
<1>7. a * d = a * d /\ a * d \in Nat
  OBVIOUS
<1> HIDE DEF X, Y, Z
<1> QED BY <1>1, <1>3, <1>4, <1>5, <1>6, <1>7 DEF Exceeds

LEMMA RrfIsExceeds ==
  ASSUME NEW a \in Nat, NEW b \in Nat, NEW c \in Nat, NEW d \in Nat
  PROVE  /\ 120 + a + b \in Nat /\ (60 + a) * (60 + b) \in Nat \ {0}
         /\ RrfAbove(a, b, c, d) <=>
              Exceeds(120 + a + b, (60 + a) * (60 + b), 120 + c + d, (60 + c) * (60 + d))
<1>1. \A x, y \in Nat : (60 + x) * (60 + y) \in Nat \ {0}
  <2> TAKE x \in Nat, y \in Nat
  <2>1. PICK u \in Nat \ {0}, v \in Nat \ {0} : u = 60 + x /\ v = 60 + y
    OBVIOUS
  <2>2. u * v \in Nat \ {0}
    BY SMTT(30)
  <2> QED BY <2>1, <2>2
<1>2. ASSUME NEW n \in Nat, NEW u \in Nat, NEW v \in Nat PROVE n * u * v = n * (u * v)
  BY SMTT(30)
<1>3. (120 + a + b) * (60 + c) * (60 + d) = (120 + a + b) * ((60 + c) * (60 + d))
  BY <1>2
<1>4. (120 + c + d) * (60 + a) * (60 + b) = (120 + c + d) * ((60 + a) * (60 + b))
  BY <1>2
<1> QED BY <1>1, <1>3, <1>4 DEF RrfAbove, Exceeds

\* Better in both rankings is better in the fusion.
LEMMA RrfMonotone ==
  ASSUME NEW a \in Nat, NEW b \in Nat, NEW c \in Nat, NEW d \in Nat, a < c, b < d
  PROVE  RrfAbove(a, b, c, d)
<1>1. PICK u \in Nat \ {0}, v \in Nat \ {0}, w \in Nat \ {0}, x \in Nat \ {0} :
        u = 60 + a /\ v = 60 + b /\ w = 60 + c /\ x = 60 + d
  OBVIOUS
<1>2. u < w /\ v < x
  BY <1>1
<1>3. u * w * x > u * w * v
  <2>1. u * w \in Nat \ {0}
    BY SMTT(30)
  <2>2. x * (u * w) > v * (u * w)
    BY <1>2, <2>1, TimesGreater
  <2>3. x * (u * w) = u * w * x /\ v * (u * w) = u * w * v
    BY SMTT(30)
  <2> QED BY <2>2, <2>3
<1>4. v * w * x > v * u * x
  <2>1. v * x \in Nat \ {0}
    BY SMTT(30)
  <2>2. w * (v * x) > u * (v * x)
    BY <1>2, <2>1, TimesGreater
  <2>3. w * (v * x) = v * w * x /\ u * (v * x) = v * u * x
    BY SMTT(30)
  <2> QED BY <2>2, <2>3
<1>5. (u + v) * w * x = u * w * x + v * w * x
  BY SMTT(30)
<1>6. (w + x) * u * v = u * w * v + v * u * x
  BY SMTT(30)
<1>7. /\ u * w * x \in Nat /\ v * w * x \in Nat /\ u * w * v \in Nat /\ v * u * x \in Nat
  OBVIOUS
<1>8. (u + v) * w * x > (w + x) * u * v
  BY <1>3, <1>4, <1>5, <1>6, <1>7
<1>9. 120 + a + b = u + v /\ 120 + c + d = w + x
  BY <1>1
<1> QED BY <1>1, <1>8, <1>9 DEF RrfAbove

-----------------------------------------------------------------------------
(* SearchIndex. Search ranks the entries.                                  *)

LEMMA RankOfListed ==
  ASSUME NEW S, IsFiniteSet(S), NEW s \in SetToSeqs(S)
  PROVE  /\ \A i \in DOMAIN s : Rank(s, s[i]) = i
         /\ \A k : Rank(s, k) \in Nat
         /\ \A k : k \notin S => \A i \in DOMAIN s : i < Rank(s, k)
<1>1. /\ DOMAIN s = 1 .. Cardinality(S) /\ Cardinality(S) \in Nat /\ s \in Seq(S)
      /\ \A i, j \in DOMAIN s : s[i] = s[j] => i = j
      /\ \A i \in DOMAIN s : s[i] \in S
  BY ListsAll DEF IsInjective
<1>2. Len(s) = Cardinality(S) /\ Len(s) \in Nat
  BY <1>1
<1>3. ASSUME NEW i \in DOMAIN s PROVE Rank(s, s[i]) = i
  <2>1. Contains(s, s[i])
    BY <1>1, <1>2 DEF Contains
  <2> QED BY <1>1, <2>1 DEF Rank
<1>4. ASSUME NEW k, ~ \E i \in DOMAIN s : s[i] = k PROVE Rank(s, k) = Len(s) + 1
  BY <1>1, <1>2, <1>4 DEF Rank, Contains
<1>5. ASSUME NEW k PROVE Rank(s, k) \in Nat
  <2>1. CASE \E i \in DOMAIN s : s[i] = k
    BY <1>1, <1>3, <2>1
  <2>2. CASE ~ \E i \in DOMAIN s : s[i] = k
    BY <1>2, <1>4, <2>2
  <2> QED BY <2>1, <2>2
<1>6. ASSUME NEW k, k \notin S, NEW i \in DOMAIN s PROVE i < Rank(s, k)
  <2>1. Rank(s, k) = Len(s) + 1
    BY <1>1, <1>4, <1>6
  <2> QED BY <1>1, <1>2, <2>1
<1> QED BY <1>3, <1>5, <1>6

LEMMA AheadRanks ==
  ASSUME NEW S, IsFiniteSet(S), NEW s \in SetToSeqs(S), NEW j, NEW k, Ahead(s, j, k)
  PROVE  Rank(s, j) < Rank(s, k)
<1>1. PICK m \in DOMAIN s : s[m] = j /\ \A n \in DOMAIN s : s[n] = k => m < n
  BY DEF Ahead
<1>2. Rank(s, j) = m
  BY <1>1, RankOfListed
<1>3. CASE \E n \in DOMAIN s : s[n] = k
  BY <1>1, <1>2, <1>3, RankOfListed
<1>4. CASE ~ \E n \in DOMAIN s : s[n] = k
  <2>1. k \notin S
    BY <1>4, ListsAll
  <2> QED BY <1>1, <1>2, <2>1, RankOfListed
<1> QED BY <1>3, <1>4

\* What Fused and Search need of the state.
LEMMA EntriesTyped ==
  ASSUME SearchTypeOK
  PROVE  /\ IsFiniteSet(DOMAIN entries)
         /\ \A k \in DOMAIN entries : entries[k].text \in Texts /\ entries[k].updated \in Nat
         /\ \A k \in DOMAIN embeddings : embeddings[k][2] \in Texts
<1>1. IsFiniteSet(DOMAIN entries)
  <2>1. DOMAIN entries \subseteq Keys
    BY DEF SearchTypeOK, IsMap
  <2> QED BY <2>1, SearchAssumption, FS_Subset
<1>2. Cardinality(Old) \in Nat
  BY SearchAssumption, FS_Subset, FS_CardinalityType
<1>3. ASSUME NEW k \in DOMAIN entries
      PROVE  entries[k].text \in Texts /\ entries[k].updated \in Nat
  <2>1. entries[k] \in IndexEntry
    BY DEF SearchTypeOK, IsMap
  <2> QED BY <1>2, <2>1, SearchAssumption DEF IndexEntry, Stamps, LastUpdate
<1>4. ASSUME NEW k \in DOMAIN embeddings PROVE embeddings[k][2] \in Texts
  <2>1. embeddings[k] \in Vector
    BY DEF SearchTypeOK, IsMap
  <2> QED BY <2>1 DEF Vector
<1> QED BY <1>1, <1>3, <1>4

LEMMA LexicalRankingsExist ==
  ASSUME SearchTypeOK, NEW q \in Queries
  PROVE  /\ IsFiniteSet(LexicalHits(q)) /\ LexicalHits(q) \subseteq DOMAIN entries
         /\ LexicalRankings(q) \subseteq SetToSeqs(LexicalHits(q))
         /\ LexicalRankings(q) # {}
<1> DEFINE S == LexicalHits(q)
           R == {e \in S \X S : \/ Lexical(q, Text(e[1])) > Lexical(q, Text(e[2]))
                                \/ (Lexical(q, Text(e[1])) = Lexical(q, Text(e[2]))
                                     /\ Newer(e[1], e[2]))}
<1>1. IsFiniteSet(S) /\ S \subseteq DOMAIN entries
  BY EntriesTyped, FS_Subset DEF LexicalHits
<1>2. \A k \in S : Lexical(q, Text(k)) \in Nat /\ entries[k].updated \in Nat
  BY <1>1, EntriesTyped, SearchAssumption DEF Text
<1> HIDE DEF S
<1>3. StrictOrder(R, S)
  <2>1. \A x \in S : <<x, x>> \notin R
    BY <1>2 DEF Newer
  <2>2. \A x, y, z \in S : <<x, y>> \in R /\ <<y, z>> \in R => <<x, z>> \in R
    BY <1>2 DEF Newer
  <2> QED BY <2>1, <2>2 DEF StrictOrder
<1> HIDE DEF R
<1>4. PICK s \in SetToSeqs(S) : \A i, j \in DOMAIN s : <<s[i], s[j]>> \in R => i < j
  BY <1>1, <1>3, SortExists
<1>5. \A i \in DOMAIN s : s[i] \in S
  BY <1>1, ListsAll
<1>6. s \in LexicalRankings(q)
  BY <1>4, <1>5 DEF LexicalRankings, Sorted, S, R
<1>7. LexicalRankings(q) \subseteq SetToSeqs(S)
  BY DEF LexicalRankings, Sorted, S
<1> QED BY <1>1, <1>6, <1>7 DEF S

LEMMA VectorRankingsExist ==
  ASSUME SearchTypeOK, NEW q \in Queries
  PROVE  /\ VectorRankings(q) \subseteq SetToSeqs(DOMAIN entries \cap DOMAIN embeddings)
         /\ VectorRankings(q) # {}
<1> DEFINE S == DOMAIN entries \cap DOMAIN embeddings
           R == {e \in S \X S : Near(q, e[1]) > Near(q, e[2])}
<1>1. IsFiniteSet(S)
  BY EntriesTyped, FS_Subset
<1>2. \A k \in S : Near(q, k) \in Nat
  BY EntriesTyped, SearchAssumption DEF Near
<1> HIDE DEF S
<1>3. StrictOrder(R, S)
  BY <1>2 DEF StrictOrder
<1> HIDE DEF R
<1>4. PICK s \in SetToSeqs(S) : \A i, j \in DOMAIN s : <<s[i], s[j]>> \in R => i < j
  BY <1>1, <1>3, SortExists
<1>5. \A i \in DOMAIN s : s[i] \in S
  BY <1>1, ListsAll
<1>6. s \in VectorRankings(q)
  BY <1>4, <1>5 DEF VectorRankings, Sorted, S, R
<1>7. VectorRankings(q) \subseteq SetToSeqs(S)
  BY DEF VectorRankings, Sorted, S
<1> QED BY <1>6, <1>7 DEF S

\* By the sum of the reciprocal ranks, which may tie, then by age: a strict order, so
\* that sort() has an answer.
LEMMA FusedRankingsExist ==
  ASSUME SearchTypeOK, NEW q \in Queries,
         NEW lexical \in LexicalRankings(q), NEW vector \in VectorRankings(q)
  PROVE  Fused(q, lexical, vector) # {}
<1> DEFINE L == LexicalHits(q)
           V == DOMAIN entries \cap DOMAIN embeddings
           S == L \cup V
           R == {e \in S \X S : \/ FusedAbove(lexical, vector, e[1], e[2])
                                \/ ~FusedAbove(lexical, vector, e[2], e[1]) /\ Newer(e[1], e[2])}
           N(k) == 120 + Rank(lexical, k) + Rank(vector, k)
           D(k) == (60 + Rank(lexical, k)) * (60 + Rank(vector, k))
<1>1. /\ IsFiniteSet(L) /\ L \subseteq DOMAIN entries /\ lexical \in SetToSeqs(L)
      /\ IsFiniteSet(V) /\ vector \in SetToSeqs(V)
  BY LexicalRankingsExist, VectorRankingsExist, EntriesTyped, FS_Subset
<1>2. IsFiniteSet(S) /\ S \subseteq DOMAIN entries
  BY <1>1, FS_Union
<1>3. ToSet(lexical) \cup ToSet(vector) = S
  BY <1>1, ListsAll
<1>4. \A k : Rank(lexical, k) \in Nat /\ Rank(vector, k) \in Nat
  BY <1>1, RankOfListed
<1>5. \A k : N(k) \in Nat /\ D(k) \in Nat \ {0}
  BY <1>4, RrfIsExceeds
<1>6. \A j, k : FusedAbove(lexical, vector, j, k) <=> Exceeds(N(j), D(j), N(k), D(k))
  BY <1>4, RrfIsExceeds DEF FusedAbove
<1>7. \A k \in S : entries[k].updated \in Nat
  BY <1>2, EntriesTyped
<1> HIDE DEF S, L, V, N, D
<1>8. StrictOrder(R, S)
  <2>1. \A x \in S : <<x, x>> \notin R
    BY <1>5, <1>6, <1>7, ExceedsIsOrder DEF Newer
  <2>2. ASSUME NEW x \in S, NEW y \in S, NEW z \in S, <<x, y>> \in R, <<y, z>> \in R
        PROVE  <<x, z>> \in R
    <3> DEFINE A(j, k) == Exceeds(N(j), D(j), N(k), D(k))
    <3>1. A(x, y) \/ (~A(y, x) /\ Newer(x, y))
      BY <1>6, <2>2
    <3>2. A(y, z) \/ (~A(z, y) /\ Newer(y, z))
      BY <1>6, <2>2
    <3>3. /\ A(x, y) => ~A(y, x)
          /\ A(y, z) => ~A(z, y)
          /\ A(x, y) /\ ~A(z, y) => A(x, z)
          /\ ~A(y, x) /\ A(y, z) => A(x, z)
          /\ ~A(y, x) /\ ~A(z, y) => ~A(z, x)
      BY <1>5, ExceedsIsOrder
    <3>4. Newer(x, y) /\ Newer(y, z) => Newer(x, z)
      BY <1>7 DEF Newer
    <3> HIDE DEF A
    <3>5. A(x, z) \/ (~A(z, x) /\ Newer(x, z))
      BY <3>1, <3>2, <3>3, <3>4
    <3> QED BY <1>6, <3>5 DEF A
  <2> QED BY <2>1, <2>2 DEF StrictOrder
<1> HIDE DEF R
<1>9. PICK s \in SetToSeqs(S) : \A i, j \in DOMAIN s : <<s[i], s[j]>> \in R => i < j
  BY <1>2, <1>8, SortExists
<1>10. \A i \in DOMAIN s : s[i] \in S
  BY <1>2, ListsAll
<1>11. s \in Sorted(S, LAMBDA j, k :
                       \/ FusedAbove(lexical, vector, j, k)
                       \/ ~FusedAbove(lexical, vector, k, j) /\ Newer(j, k))
  BY <1>9, <1>10 DEF Sorted, R
<1> QED BY <1>3, <1>11 DEF Fused

\* What search answers with lists the entries of either ranking, each once.
LEMMA FusedLists ==
  ASSUME SearchTypeOK, NEW q \in Queries,
         NEW lexical \in LexicalRankings(q), NEW vector \in VectorRankings(q),
         NEW fused \in Fused(q, lexical, vector)
  PROVE  /\ IsInjective(fused)
         /\ LexicalHits(q) \subseteq ToSet(fused) /\ ToSet(fused) \subseteq DOMAIN entries
<1> DEFINE L == LexicalHits(q)
           V == DOMAIN entries \cap DOMAIN embeddings
<1>1. /\ IsFiniteSet(L) /\ L \subseteq DOMAIN entries /\ lexical \in SetToSeqs(L)
      /\ IsFiniteSet(V) /\ vector \in SetToSeqs(V)
  BY LexicalRankingsExist, VectorRankingsExist, EntriesTyped, FS_Subset
<1>2. ToSet(lexical) = L /\ ToSet(vector) = V /\ IsFiniteSet(L \cup V)
  BY <1>1, ListsAll, FS_Union
<1>3. fused \in SetToSeqs(L) \/ fused \in SetToSeqs(L \cup V)
  BY <1>1, <1>2 DEF Fused, Sorted
<1>4. IsInjective(fused) /\ (ToSet(fused) = L \/ ToSet(fused) = L \cup V)
  <2> HIDE DEF L, V
  <2> QED BY <1>1, <1>2, <1>3, ListsAll
<1> QED BY <1>1, <1>4

LEMMA FusedInOrder ==
  ASSUME SearchTypeOK, NEW q \in Queries,
         NEW lexical \in LexicalRankings(q), NEW vector \in VectorRankings(q),
         NEW fused \in Fused(q, lexical, vector),
         NEW i \in DOMAIN fused, NEW j \in DOMAIN fused,
         Ahead(lexical, fused[i], fused[j]), Ahead(vector, fused[i], fused[j])
  PROVE  i < j
<1> DEFINE L == LexicalHits(q)
           V == DOMAIN entries \cap DOMAIN embeddings
<1>1. /\ IsFiniteSet(L) /\ lexical \in SetToSeqs(L)
      /\ IsFiniteSet(V) /\ vector \in SetToSeqs(V)
  BY LexicalRankingsExist, VectorRankingsExist, EntriesTyped, FS_Subset
<1>2. /\ Rank(lexical, fused[i]) < Rank(lexical, fused[j])
      /\ Rank(vector, fused[i]) < Rank(vector, fused[j])
  BY <1>1, AheadRanks
<1>3. CASE fused = lexical
  BY <1>1, <1>2, <1>3, RankOfListed
<1>4. CASE fused # lexical
  <2>1. FusedAbove(lexical, vector, fused[i], fused[j])
    BY <1>1, <1>2, RankOfListed, RrfMonotone DEF FusedAbove
  <2>2. fused \in Sorted(ToSet(lexical) \cup ToSet(vector), LAMBDA x, y :
                       \/ FusedAbove(lexical, vector, x, y)
                       \/ ~FusedAbove(lexical, vector, y, x) /\ Newer(x, y))
    BY <1>4 DEF Fused
  <2> QED BY <2>1, <2>2 DEF Sorted
<1> QED BY <1>3, <1>4

LEMMA SearchSound ==
  ASSUME SearchTypeOK
  PROVE  FusionSound
<1> SUFFICES ASSUME NEW q \in Queries
             PROVE  /\ Search(q) # {}
                    /\ \A lexical \in LexicalRankings(q), vector \in VectorRankings(q) :
                         \A fused \in Fused(q, lexical, vector) :
                           /\ IsInjective(fused)
                           /\ LexicalHits(q) \subseteq ToSet(fused)
                           /\ ToSet(fused) \subseteq DOMAIN entries
                           /\ \A i, j \in DOMAIN fused :
                                Ahead(lexical, fused[i], fused[j])
                                  /\ Ahead(vector, fused[i], fused[j])
                                => i < j
  BY DEF FusionSound
<1>1. Search(q) # {}
  <2>1. PICK lexical \in LexicalRankings(q), vector \in VectorRankings(q) : TRUE
    BY LexicalRankingsExist, VectorRankingsExist
  <2>2. PICK fused : fused \in Fused(q, lexical, vector)
    BY FusedRankingsExist
  <2> QED BY <2>1, <2>2 DEF Search
<1> QED BY <1>1, FusedLists, FusedInOrder

-----------------------------------------------------------------------------
(* SearchIndex. The rows of a batch that are sent to the API.              *)

LEMMA ElementsOf ==
  ASSUME NEW T, NEW s \in Seq(T)
  PROVE  /\ Len(s) \in Nat /\ DOMAIN s = 1 .. Len(s)
         /\ \A i \in DOMAIN s : s[i] \in T
         /\ s # <<>> => Len(s) # 0 /\ Head(s) = s[1] /\ Head(s) \in T /\ Tail(s) \in Seq(T)
OBVIOUS

\* The equation of the loop over the batch at n.
Scans(g, batch, n) ==
  g[n] = IF n = 0 THEN <<>>
         ELSE IF batch[n].text = Null THEN g[n - 1]
         ELSE Append(g[n - 1], batch[n])

Scanned(batch) ==
  CHOOSE g : g = [n \in 0 .. Len(batch) |->
                    IF n = 0 THEN <<>>
                    ELSE IF batch[n].text = Null THEN g[n - 1]
                    ELSE Append(g[n - 1], batch[n])]

LEMMA ScanExists ==
  ASSUME NEW batch, Len(batch) \in Nat
  PROVE  \A n \in 0 .. Len(batch) : Scans(Scanned(batch), batch, n)
<1> DEFINE N == Len(batch)
           U == {m \in 0 .. N : ~ \E g : \A n \in 0 .. m : Scans(g, batch, n)}
<1>1. U = {}
  <2> SUFFICES ASSUME U # {} PROVE FALSE
    OBVIOUS
  <2>1. PICK m \in U : \A k \in U : ~(k < m)
    <3>1. U \in SUBSET Nat
      OBVIOUS
    <3> HIDE DEF U
    <3> QED BY <3>1, LeastNatural
  <2>2. m # 0
    <3> SUFFICES ASSUME m = 0 PROVE FALSE
      OBVIOUS
    <3> DEFINE g == [n \in {0} |-> <<>>]
    <3>1. Scans(g, batch, 0)
      BY DEF Scans
    <3>2. \A n \in 0 .. m : n = 0
      OBVIOUS
    <3> HIDE DEF g
    <3> QED BY <2>1, <3>1, <3>2
  <2>3. m \in 0 .. N /\ m - 1 \in 0 .. N /\ m - 1 < m
    BY <2>1, <2>2
  <2>4. PICK g : \A n \in 0 .. m - 1 : Scans(g, batch, n)
    <3>1. m - 1 \notin U
      <4> HIDE DEF U
      <4> QED BY <2>1, <2>3
    <3> QED BY <2>3, <3>1
  <2> DEFINE h == [n \in 0 .. m |-> IF n = 0 THEN <<>>
                                    ELSE IF batch[n].text = Null THEN g[n - 1]
                                    ELSE Append(g[n - 1], batch[n])]
  <2>5. ASSUME NEW n \in 0 .. m PROVE Scans(h, batch, n)
    <3>1. CASE n = 0
      BY <3>1 DEF Scans
    <3>2. CASE n # 0
      <4>1. n - 1 \in 0 .. m - 1 /\ n - 1 \in 0 .. m
        BY <2>3, <3>2
      <4>2. h[n - 1] = g[n - 1]
        BY <2>4, <4>1 DEF Scans
      <4>3. h[n] = IF batch[n].text = Null THEN g[n - 1] ELSE Append(g[n - 1], batch[n])
        BY <3>2
      <4> HIDE DEF h
      <4> QED BY <3>2, <4>2, <4>3 DEF Scans
    <3> QED BY <3>1, <3>2
  <2> HIDE DEF h
  <2> QED BY <2>1, <2>5
<1>2. PICK g : \A n \in 0 .. N : Scans(g, batch, n)
  <2>1. N \notin U /\ N \in 0 .. N
    BY <1>1
  <2> HIDE DEF N
  <2> QED BY <2>1
<1> DEFINE h == [n \in 0 .. N |-> g[n]]
<1>3. h = [n \in 0 .. N |-> IF n = 0 THEN <<>>
                            ELSE IF batch[n].text = Null THEN h[n - 1]
                            ELSE Append(h[n - 1], batch[n])]
  <2>1. ASSUME NEW n \in 0 .. N PROVE Scans(h, batch, n)
    <3>1. n # 0 => n - 1 \in 0 .. N
      OBVIOUS
    <3> QED BY <1>2, <3>1 DEF Scans
  <2>2. DOMAIN h = 0 .. N /\ h = [n \in 0 .. N |-> h[n]]
    OBVIOUS
  <2> HIDE DEF h
  <2> QED BY <2>1, <2>2 DEF Scans
<1> HIDE DEF h
<1>4. Scanned(batch) = [n \in 0 .. N |->
        IF n = 0 THEN <<>>
        ELSE IF batch[n].text = Null THEN Scanned(batch)[n - 1]
        ELSE Append(Scanned(batch)[n - 1], batch[n])]
  BY <1>3 DEF Scanned
<1> QED BY <1>4 DEF Scans

\* Every row that is sent has a text.
LEMMA UsableRows ==
  ASSUME NEW batch \in Seq(Selected)
  PROVE  Usable(batch) \in Seq([key : AllKeys, text : Texts])
<1> DEFINE T == [key : AllKeys, text : Texts]
           N == Len(batch)
           g == Scanned(batch)
           U == {m \in 0 .. N : g[m] \notin Seq(T)}
<1>1. N \in Nat /\ \A n \in 1 .. N : batch[n].text # Null => batch[n] \in T
  <2>1. N \in Nat /\ \A n \in 1 .. N : batch[n] \in Selected
    BY ElementsOf
  <2>2. \A r \in Selected : r.text # Null => r \in T
    BY DEF Selected
  <2> HIDE DEF N, T
  <2> QED BY <2>1, <2>2
<1> HIDE DEF N
<1>2. \A n \in 0 .. N : Scans(g, batch, n)
  BY <1>1, ScanExists DEF N
<1>3. U = {}
  <2> SUFFICES ASSUME U # {} PROVE FALSE
    OBVIOUS
  <2>1. PICK m \in U : \A k \in U : ~(k < m)
    <3>1. U \in SUBSET Nat
      OBVIOUS
    <3> HIDE DEF U
    <3> QED BY <3>1, LeastNatural
  <2>2. m \in 0 .. N /\ Scans(g, batch, m) /\ g[m] \notin Seq(T)
    BY <1>2, <2>1
  <2>3. m # 0
    BY <2>1, <2>2 DEF Scans
  <2>4. m - 1 \in 0 .. N /\ m - 1 < m /\ m \in 1 .. N
    BY <1>1, <2>2, <2>3
  <2>5. g[m - 1] \in Seq(T)
    <3>1. m - 1 \notin U
      <4> HIDE DEF U
      <4> QED BY <2>1, <2>4
    <3> QED BY <2>4, <3>1
  <2>6. CASE batch[m].text = Null
    <3>1. g[m] = g[m - 1]
      BY <2>2, <2>3, <2>6 DEF Scans
    <3> HIDE DEF T, g
    <3> QED BY <2>2, <2>5, <3>1
  <2>7. CASE batch[m].text # Null
    <3>1. batch[m] \in T
      BY <1>1, <2>4, <2>7
    <3>2. g[m] = Append(g[m - 1], batch[m])
      BY <2>2, <2>3, <2>7 DEF Scans
    <3> HIDE DEF T, g
    <3> QED BY <2>2, <2>5, <3>1, <3>2
  <2> QED BY <2>6, <2>7
<1>4. g[N] \in Seq(T)
  <2>1. N \in 0 .. N
    BY <1>1
  <2> HIDE DEF g, T
  <2> QED BY <1>3, <2>1
<1>5. Usable(batch) = g[N]
  BY DEF Usable, Scanned, N
<1> QED BY <1>4, <1>5

\* What the script is about to write.
Saved == [key : AllKeys, vector : Vector]

LEMMA AlignedRows ==
  ASSUME NEW batch \in Seq(Selected), Usable(batch) # <<>>
  PROVE  /\ Aligned(batch) \in Seq(Saved) /\ Aligned(batch) # <<>>
         /\ \A j \in DOMAIN Aligned(batch) : Aligned(batch)[j].vector[1] = Aligned(batch)[j].key
<1> DEFINE u == Usable(batch)
<1>1. u \in Seq([key : AllKeys, text : Texts]) /\ u # <<>>
  BY UsableRows
<1>2. Aligned(batch) = [j \in DOMAIN u |-> [key |-> u[j].key, vector |-> <<u[j].key, u[j].text>>]]
  BY DEF Aligned, Vectors
<1> HIDE DEF u
<1>3. DOMAIN u = 1 .. Len(u) /\ Len(u) \in Nat /\ Len(u) # 0
  BY <1>1, ElementsOf
<1>4. \A j \in DOMAIN u : u[j].key \in AllKeys /\ u[j].text \in Texts
  <2>1. \A j \in DOMAIN u : u[j] \in [key : AllKeys, text : Texts]
    BY <1>1, ElementsOf
  <2> QED BY <2>1
<1>5. \A j \in 1 .. Len(u) : [key |-> u[j].key, vector |-> <<u[j].key, u[j].text>>] \in Saved
  BY <1>3, <1>4 DEF Saved, Vector
<1>6. Aligned(batch) \in Seq(Saved)
  BY <1>2, <1>3, <1>5
<1>7. Aligned(batch) # <<>>
  <2>1. 1 \in DOMAIN Aligned(batch)
    BY <1>2, <1>3
  <2> QED BY <2>1
<1> QED BY <1>2, <1>6, <1>7

-----------------------------------------------------------------------------
(* SearchIndex. The inductive invariant.                                   *)

\* map.set keeps the type of a Map.
LEMMA PutIs ==
  ASSUME NEW f, NEW ks, NEW values, NEW k \in ks, NEW v \in values, IsMap(f, ks, values)
  PROVE  IsMap(Put(f, k, v), ks, values)
BY DEF IsMap, Put

\* What the script has read and is about to write.
BatchSound(b) ==
  /\ b \in [pc : {"idle", "loop", "api", "save"}, todo : Seq(Selected),
            batch : Seq(Selected) \cup Seq(Saved)]
  /\ b.pc # "save" => b.batch \in Seq(Selected)
  /\ b.pc = "api" => Usable(b.batch) # <<>>
  /\ b.pc = "save" => /\ b.batch \in Seq(Saved) /\ b.batch # <<>>
                      /\ \A j \in DOMAIN b.batch : b.batch[j].vector[1] = b.batch[j].key

LEMMA NextBatchSound ==
  ASSUME NEW todo \in Seq(Selected)
  PROVE  BatchSound(NextBatch(todo))
<1>1. Idle \in [pc : {"idle"}, todo : Seq(Selected), batch : Seq(Selected)]
  BY DEF Idle
<1>2. CASE todo = <<>>
  <2>1. NextBatch(todo) = Idle
    BY <1>2 DEF NextBatch
  <2> QED BY <1>1, <2>1 DEF BatchSound
<1>3. CASE todo # <<>>
  <2>1. BatchSize \in Nat /\ Len(todo) \in Nat
    BY SearchAssumption
  <2>2. FirstOf(todo) \in Seq(Selected)
    <3> DEFINE n == IF Len(todo) < BatchSize THEN Len(todo) ELSE BatchSize
    <3>1. n \in Nat /\ n <= Len(todo)
      BY <2>1
    <3> HIDE DEF n
    <3>2. SubSeq(todo, 1, n) \in Seq(Selected)
      BY <3>1
    <3> QED BY <3>2 DEF FirstOf, n
  <2>3. RestOf(todo) \in Seq(Selected)
    BY <2>1 DEF RestOf
  <2>4. NextBatch(todo) = [pc |-> IF Usable(FirstOf(todo)) = <<>> THEN "loop" ELSE "api",
                           todo |-> RestOf(todo), batch |-> FirstOf(todo)]
    BY <1>3 DEF NextBatch
  <2> HIDE DEF FirstOf
  <2> QED BY <2>2, <2>3, <2>4 DEF BatchSound
<1> QED BY <1>2, <1>3

\* What the database holds.
RowSound(k, row) ==
  row # Null => /\ row \in IndexRow
                /\ k \in Keys => row.text \in Texts
                /\ row.vector # Null => row.vector[1] = k

RowsSound ==
  table \in [AllKeys -> IndexRow \cup {Null}] /\ \A k \in AllKeys : RowSound(k, table[k])

MemorySound ==
  /\ IsMap(entries, Keys, IndexEntry)
  /\ owned \subseteq Keys
  /\ IsMap(embeddings, AllKeys, Vector) /\ \A k \in DOMAIN embeddings : embeddings[k][1] = k
  /\ queryVectors \in Seq(Queries) /\ queryInFlight \subseteq Queries
  /\ saveTimer \in BOOLEAN

PendingSound ==
  /\ binds \subseteq [key : Keys, entry : IndexEntry]
  /\ embeds \subseteq [key : Keys, text : Texts, by : Stamps, step : {"api", "save"}]
  /\ \A f \in flights : IsMap(f.snapshot, Keys, IndexEntry) /\ f.at \in Stamps
  /\ upserts \in 0 .. LastUpdate /\ flushes \in 0 .. MaxFlushes /\ crashes \in 0 .. MaxCrashes

SearchInv == RowsSound /\ MemorySound /\ PendingSound /\ BatchSound(backfill)

LEMMA StampsAre ==
  /\ LastUpdate \in Nat /\ MaxFlushes \in Nat /\ Stamps = 0 .. LastUpdate + MaxFlushes
  /\ Cardinality(Old) \in Nat /\ MaxUpserts \in Nat /\ MaxCrashes \in Nat
  /\ LastUpdate = Cardinality(Old) + MaxUpserts
<1>1. Cardinality(Old) \in Nat
  BY SearchAssumption, FS_Subset, FS_CardinalityType
<1> QED BY <1>1, SearchAssumption DEF LastUpdate, Stamps

LEMMA SearchInvSays ==
  ASSUME SearchInv
  PROVE  SearchTypeOK /\ OwnVectors
<1>1. ToSet(queryVectors) \subseteq Queries
  <2>1. queryVectors \in Seq(Queries)
    BY DEF SearchInv, MemorySound
  <2> QED BY <2>1, ElementsOf DEF ToSet
<1>2. ToSet(backfill.todo) \subseteq Selected /\ backfill.pc \in {"idle", "loop", "api", "save"}
  <2>1. backfill.todo \in Seq(Selected) /\ backfill.pc \in {"idle", "loop", "api", "save"}
    BY DEF SearchInv, BatchSound
  <2> QED BY <2>1, ElementsOf DEF ToSet
<1>3. SearchTypeOK
  BY <1>1, <1>2 DEF SearchTypeOK, SearchInv, RowsSound, MemorySound, PendingSound
<1>4. OwnVectors
  BY DEF OwnVectors, SearchInv, RowsSound, RowSound, MemorySound
<1> QED BY <1>3, <1>4

LEMMA SearchInitInv ==
  ASSUME SearchInit
  PROVE  SearchInv
<1> DEFINE age(k) == Rank(SetToSeq(Old), k)
<1>1. IsFiniteSet(Old)
  BY SearchAssumption, FS_Subset
<1>2. ASSUME NEW k \in Old PROVE age(k) \in Stamps
  <2>1. SetToSeq(Old) \in SetToSeqs(Old)
    BY <1>1, SetToSeqLists
  <2>2. PICK i \in DOMAIN SetToSeq(Old) : SetToSeq(Old)[i] = k
    BY <1>1, <2>1, ListsAll
  <2>3. DOMAIN SetToSeq(Old) = 1 .. Cardinality(Old)
    BY <1>1, <2>1, ListsAll
  <2>4. age(k) = i
    BY <1>1, <2>1, <2>2, RankOfListed
  <2> QED BY <2>2, <2>3, <2>4, StampsAre
<1>3. Old \subseteq Keys /\ OldText \in Texts /\ Keys \cap Foreign = {} /\ 0 \in Stamps
  BY SearchAssumption, StampsAre
<1>4. /\ table = [k \in AllKeys |->
                  IF k \in Old
                  THEN [text |-> OldText, updated |-> age(k), at |-> age(k), vector |-> Null]
                  ELSE IF k \in Foreign
                  THEN [text |-> Null, updated |-> 0, at |-> 0, vector |-> Null]
                  ELSE Null]
      /\ entries = [k \in Old |-> [text |-> OldText, updated |-> age(k)]]
  BY DEF SearchInit
<1> HIDE DEF age
<1>5. RowsSound
  <2>1. ASSUME NEW k \in AllKeys PROVE table[k] \in IndexRow \cup {Null} /\ RowSound(k, table[k])
    <3>1. CASE k \in Old
      <4>1. table[k] = [text |-> OldText, updated |-> age(k), at |-> age(k), vector |-> Null]
        BY <1>4, <3>1
      <4> QED BY <1>2, <1>3, <3>1, <4>1 DEF RowSound, IndexRow
    <3>2. CASE k \notin Old /\ k \in Foreign
      <4>1. table[k] = [text |-> Null, updated |-> 0, at |-> 0, vector |-> Null]
        BY <1>4, <3>2
      <4> QED BY <1>3, <3>2, <4>1 DEF RowSound, IndexRow
    <3>3. CASE k \notin Old /\ k \notin Foreign
      <4>1. table[k] = Null
        BY <1>4, <3>3
      <4> QED BY <4>1 DEF RowSound
    <3> QED BY <3>1, <3>2, <3>3
  <2>2. DOMAIN table = AllKeys /\ table = [k \in AllKeys |-> table[k]]
    BY <1>4
  <2> QED BY <2>1, <2>2 DEF RowsSound
<1>6. MemorySound
  <2>1. IsMap(entries, Keys, IndexEntry)
    BY <1>2, <1>3, <1>4 DEF IsMap, IndexEntry
  <2>2. /\ owned = Old /\ embeddings = <<>> /\ queryVectors = <<>>
        /\ queryInFlight = {} /\ saveTimer = FALSE
    BY DEF SearchInit
  <2>3. DOMAIN embeddings = {}
    BY <2>2
  <2>4. IsMap(embeddings, AllKeys, Vector) /\ \A k \in DOMAIN embeddings : embeddings[k][1] = k
    BY <2>3 DEF IsMap
  <2>5. queryVectors \in Seq(Queries)
    BY <2>2
  <2> QED BY <1>3, <2>1, <2>2, <2>4, <2>5 DEF MemorySound
<1>7. PendingSound
  <2>1. /\ binds = {} /\ embeds = {} /\ flights = {}
        /\ upserts = Cardinality(Old) /\ flushes = 0 /\ crashes = 0
    BY DEF SearchInit
  <2> QED BY <2>1, StampsAre DEF PendingSound
<1>8. BatchSound(backfill)
  <2>1. backfill = Idle /\ NextBatch(<<>>) = Idle
    BY DEF SearchInit, NextBatch
  <2>2. <<>> \in Seq(Selected)
    OBVIOUS
  <2>3. BatchSound(NextBatch(<<>>))
    BY <2>2, NextBatchSound
  <2> QED BY <2>1, <2>3
<1> QED BY <1>5, <1>6, <1>7, <1>8 DEF SearchInv

\* The writes of a row.

LEMMA RowWritten ==
  ASSUME RowsSound, NEW k \in AllKeys, NEW row \in IndexRow, RowSound(k, row),
         table' = [table EXCEPT ![k] = row]
  PROVE  RowsSound'
BY DEF RowsSound, RowSound

LEMMA VectorWritten ==
  ASSUME RowsSound, NEW k \in AllKeys, NEW v \in Vector, v[1] = k, table' = WithVector(k, v)
  PROVE  RowsSound'
<1>1. CASE table[k] = Null
  BY <1>1 DEF WithVector, RowsSound, RowSound
<1>2. CASE table[k] # Null
  <2> DEFINE row == [table[k] EXCEPT !.vector = v]
  <2>1. table[k] \in IndexRow /\ (k \in Keys => table[k].text \in Texts)
    BY <1>2 DEF RowsSound, RowSound
  <2>2. /\ row \in IndexRow /\ row.vector = v /\ row.text = table[k].text
    BY <2>1 DEF IndexRow
  <2>3. table' = [table EXCEPT ![k] = row]
    BY <1>2 DEF WithVector
  <2> HIDE DEF row
  <2>4. RowSound(k, row)
    BY <2>1, <2>2 DEF RowSound
  <2> QED BY <2>2, <2>3, <2>4, RowWritten
<1> QED BY <1>1, <1>2

LEMMA CatalogedSound ==
  ASSUME MemorySound, PendingSound, NEW k \in Keys, NEW e \in IndexEntry, Cataloged(k, e)
  PROVE  /\ IsMap(entries', Keys, IndexEntry) /\ saveTimer' \in BOOLEAN
         /\ embeds' \subseteq [key : Keys, text : Texts, by : Stamps, step : {"api", "save"}]
<1>1. IsMap(Put(entries, k, e), Keys, IndexEntry)
  BY PutIs DEF MemorySound
<1>2. \A es : IsMap(es, Keys, IndexEntry) => IsMap(EvictToCap(es), Keys, IndexEntry)
  BY DEF EvictToCap, IsMap
<1>3. e.text \in Texts /\ e.updated \in Stamps
  BY DEF IndexEntry
<1> QED BY <1>1, <1>2, <1>3 DEF Cataloged, PendingSound

-----------------------------------------------------------------------------
(* SearchIndex. Every action keeps it.                                     *)

LEMMA SearchFrame ==
  /\ RowsSound /\ UNCHANGED table => RowsSound'
  /\ MemorySound /\ UNCHANGED serverVars => MemorySound'
  /\ PendingSound /\ UNCHANGED <<pendingVars, counters>> => PendingSound'
  /\ BatchSound(backfill) /\ UNCHANGED backfill => BatchSound(backfill')
BY DEF RowsSound, MemorySound, PendingSound, serverVars, pendingVars, counters

\* The stamp of a settlement or of a flush.
LEMMA NextStamps ==
  ASSUME PendingSound
  PROVE  /\ upserts < LastUpdate => upserts + 1 \in 0 .. LastUpdate /\ upserts + 1 \in Stamps
         /\ flushes < MaxFlushes => flushes + 1 \in 0 .. MaxFlushes /\ Now + 1 \in Stamps
         /\ crashes < MaxCrashes => crashes + 1 \in 0 .. MaxCrashes
BY StampsAre DEF PendingSound, Now

LEMMA SettledKeeps ==
  ASSUME SearchInv, NEW k \in Keys, NEW t \in Texts, Upsert(k, t) \/ StartBind(k, t)
  PROVE  SearchInv'
<1>1. RowsSound' /\ BatchSound(backfill)'
  BY SearchFrame DEF SearchInv, Upsert, StartBind
<1>2. CASE Upsert(k, t)
  <2> DEFINE e == [text |-> t, updated |-> upserts + 1]
  <2>1. e \in IndexEntry /\ upserts + 1 \in 0 .. LastUpdate
    BY <1>2, NextStamps DEF IndexEntry, Upsert, SearchInv
  <2>2. Cataloged(k, e)
    BY <1>2 DEF Upsert
  <2> HIDE DEF e
  <2>3. /\ IsMap(entries', Keys, IndexEntry) /\ saveTimer' \in BOOLEAN
        /\ embeds' \subseteq [key : Keys, text : Texts, by : Stamps, step : {"api", "save"}]
    BY <2>1, <2>2, CatalogedSound DEF SearchInv
  <2>4. MemorySound'
    BY <1>2, <2>3 DEF SearchInv, MemorySound, Upsert
  <2>5. PendingSound'
    BY <1>2, <2>1, <2>3 DEF SearchInv, PendingSound, Upsert
  <2> QED BY <1>1, <2>4, <2>5 DEF SearchInv
<1>3. CASE StartBind(k, t)
  <2>1. MemorySound'
    BY <1>3, SearchFrame DEF SearchInv, StartBind
  <2>2. upserts + 1 \in 0 .. LastUpdate /\ upserts + 1 \in Stamps
    BY <1>3, NextStamps DEF StartBind, SearchInv
  <2>3. [key |-> k, entry |-> [text |-> t, updated |-> upserts + 1]]
          \in [key : Keys, entry : IndexEntry]
    BY <2>2 DEF IndexEntry
  <2>4. PendingSound'
    BY <1>3, <2>2, <2>3 DEF SearchInv, PendingSound, StartBind
  <2> QED BY <1>1, <2>1, <2>4 DEF SearchInv
<1> QED BY <1>2, <1>3

LEMMA BindKeeps ==
  ASSUME SearchInv, NEW b \in binds, BindLands(b) \/ BindRefused(b)
  PROVE  SearchInv'
<1> DEFINE row == [text |-> b.entry.text, updated |-> b.entry.updated, at |-> b.entry.updated,
                   vector |-> Null]
<1>1. b.key \in Keys /\ b.key \in AllKeys /\ b.entry \in IndexEntry
  BY DEF SearchInv, PendingSound, AllKeys
<1>2. row \in IndexRow /\ RowSound(b.key, row)
  BY <1>1 DEF IndexEntry, IndexRow, RowSound
<1>3. RowsSound'
  <2>1. UNCHANGED table \/ table' = [table EXCEPT ![b.key] = row]
    BY DEF BindLands, BindRefused
  <2> HIDE DEF row
  <2> QED BY <1>1, <1>2, <2>1, RowWritten, SearchFrame DEF SearchInv
<1>4. BatchSound(backfill)'
  BY SearchFrame DEF SearchInv, BindLands, BindRefused
<1>5. CASE BindLands(b)
  <2>1. /\ IsMap(entries', Keys, IndexEntry) /\ saveTimer' \in BOOLEAN
        /\ embeds' \subseteq [key : Keys, text : Texts, by : Stamps, step : {"api", "save"}]
    BY <1>1, <1>5, CatalogedSound DEF SearchInv, BindLands
  <2>2. MemorySound'
    BY <1>1, <1>5, <2>1 DEF SearchInv, MemorySound, BindLands
  <2>3. PendingSound'
    BY <1>5, <2>1 DEF SearchInv, PendingSound, BindLands, counters
  <2> QED BY <1>3, <1>4, <2>2, <2>3 DEF SearchInv
<1>6. CASE BindRefused(b)
  <2>1. MemorySound'
    BY <1>6, SearchFrame DEF SearchInv, BindRefused
  <2>2. PendingSound'
    BY <1>6 DEF SearchInv, PendingSound, BindRefused, counters
  <2> QED BY <1>3, <1>4, <2>1, <2>2 DEF SearchInv
<1> QED BY <1>5, <1>6

LEMMA FlushKeeps ==
  ASSUME SearchInv, FlushStarts
  PROVE  SearchInv'
<1>1. RowsSound' /\ BatchSound(backfill)'
  BY SearchFrame DEF SearchInv, FlushStarts
<1>2. MemorySound'
  BY DEF SearchInv, MemorySound, FlushStarts
<1>3. PendingSound'
  <2> DEFINE f == [snapshot |-> entries, at |-> Now + 1]
  <2>1. flushes + 1 \in 0 .. MaxFlushes /\ Now + 1 \in Stamps
    BY NextStamps DEF SearchInv, FlushStarts
  <2>2. IsMap(f.snapshot, Keys, IndexEntry) /\ f.at \in Stamps
    BY <2>1 DEF SearchInv, MemorySound
  <2>3. flights' = flights \cup {f} /\ flushes' = flushes + 1
    BY DEF FlushStarts
  <2>4. UNCHANGED <<binds, embeds, upserts, crashes>>
    BY DEF FlushStarts
  <2> HIDE DEF f
  <2> QED BY <2>1, <2>2, <2>3, <2>4 DEF SearchInv, PendingSound
<1> QED BY <1>1, <1>2, <1>3 DEF SearchInv

LEMMA SaveKeeps ==
  ASSUME SearchInv, NEW f \in flights, SaveEntries(f) \/ FlushFails(f)
  PROVE  SearchInv'
<1>1. MemorySound' /\ BatchSound(backfill)'
  BY SearchFrame DEF SearchInv, SaveEntries, FlushFails
<1>2. PendingSound'
  BY DEF SearchInv, PendingSound, SaveEntries, FlushFails, counters
<1>3. CASE FlushFails(f)
  BY <1>1, <1>2, <1>3, SearchFrame DEF SearchInv, FlushFails
<1>4. CASE SaveEntries(f)
  <2> DEFINE row(k) == [text |-> f.snapshot[k].text, updated |-> f.snapshot[k].updated,
                        at |-> f.at, vector |-> Kept(table[k])]
  <2>1. IsMap(f.snapshot, Keys, IndexEntry) /\ f.at \in Stamps
    BY DEF SearchInv, PendingSound
  <2>2. ASSUME NEW k \in AllKeys
        PROVE  /\ Kept(table[k]) \in Vector \cup {Null}
               /\ Kept(table[k]) # Null => Kept(table[k])[1] = k
    BY DEF SearchInv, RowsSound, RowSound, IndexRow, Kept
  <2>3. ASSUME NEW k \in AllKeys, k \in DOMAIN f.snapshot
        PROVE  row(k) \in IndexRow /\ RowSound(k, row(k))
    <3>1. f.snapshot[k].text \in Texts /\ f.snapshot[k].updated \in Stamps
      BY <2>1, <2>3 DEF IsMap, IndexEntry
    <3> QED BY <2>1, <2>2, <3>1 DEF IndexRow, RowSound
  <2>4. table' = [k \in AllKeys |-> IF k \in DOMAIN f.snapshot THEN row(k) ELSE table[k]]
    BY <1>4 DEF SaveEntries
  <2> HIDE DEF row
  <2>5. RowsSound'
    BY <2>3, <2>4 DEF SearchInv, RowsSound
  <2> QED BY <1>1, <1>2, <2>5 DEF SearchInv
<1> QED BY <1>3, <1>4

LEMMA EmbedKeeps ==
  ASSUME SearchInv, NEW c \in embeds, EmbedAnswers(c) \/ SaveEmbedding(c) \/ EmbedFails(c)
  PROVE  SearchInv'
<1>1. /\ c \in [key : Keys, text : Texts, by : Stamps, step : {"api", "save"}]
      /\ c.key \in AllKeys /\ <<c.key, c.text>> \in Vector /\ <<c.key, c.text>>[1] = c.key
  BY DEF SearchInv, PendingSound, AllKeys, Vector
<1>2. BatchSound(backfill)'
  BY SearchFrame DEF SearchInv, EmbedAnswers, SaveEmbedding, EmbedFails
<1>3. RowsSound'
  <2>1. UNCHANGED table \/ table' = WithVector(c.key, <<c.key, c.text>>)
    BY DEF EmbedAnswers, SaveEmbedding, EmbedFails
  <2> QED BY <1>1, <2>1, VectorWritten, SearchFrame DEF SearchInv
<1>4. MemorySound'
  <2>1. CASE EmbedAnswers(c)
    <3> DEFINE v == <<c.key, c.text>>
               key == c.key
    <3>1. /\ IsMap(embeddings, AllKeys, Vector)
          /\ \A k \in DOMAIN embeddings : embeddings[k][1] = k
          /\ embeddings' = Put(embeddings, key, v)
          /\ v \in Vector /\ v[1] = key /\ key \in AllKeys
      BY <1>1, <2>1 DEF SearchInv, MemorySound, EmbedAnswers
    <3> HIDE DEF v, key
    <3>2. IsMap(Put(embeddings, key, v), AllKeys, Vector)
      BY <3>1, PutIs
    <3>3. \A k \in DOMAIN embeddings' : embeddings'[k][1] = k
      BY <3>1 DEF Put
    <3>4. IsMap(embeddings', AllKeys, Vector)
      BY <3>1, <3>2
    <3> QED BY <2>1, <3>3, <3>4 DEF SearchInv, MemorySound, EmbedAnswers
  <2>2. CASE SaveEmbedding(c) \/ EmbedFails(c)
    BY <2>2, SearchFrame DEF SearchInv, SaveEmbedding, EmbedFails
  <2> QED BY <2>1, <2>2
<1>5. PendingSound'
  <2>1. [c EXCEPT !.step = "save"]
          \in [key : Keys, text : Texts, by : Stamps, step : {"api", "save"}]
    BY <1>1
  <2>2. /\ embeds' \subseteq embeds \cup {[c EXCEPT !.step = "save"]}
        /\ UNCHANGED <<binds, flights, upserts, flushes, crashes>>
    BY DEF EmbedAnswers, SaveEmbedding, EmbedFails, counters
  <2> QED BY <2>1, <2>2 DEF SearchInv, PendingSound
<1> QED BY <1>2, <1>3, <1>4, <1>5 DEF SearchInv

LEMMA QueryKeeps ==
  ASSUME SearchInv, NEW q \in Queries, WarmQueryVector(q) \/ QueryEmbedded(q) \/ QueryFails(q)
  PROVE  SearchInv'
<1>1. RowsSound' /\ PendingSound' /\ BatchSound(backfill)'
  BY SearchFrame DEF SearchInv, WarmQueryVector, QueryEmbedded, QueryFails, pendingVars, counters
<1>2. queryVectors \in Seq(Queries) /\ queryInFlight \subseteq Queries
  BY DEF SearchInv, MemorySound
<1>3. Admit(q) \in Seq(Queries)
  <2>1. CASE Len(queryVectors) >= MaxQueryVectors
    <3>1. MaxQueryVectors \in Nat \ {0}
      BY SearchAssumption
    <3>2. queryVectors # <<>>
      BY <1>2, <2>1, <3>1
    <3>3. Tail(queryVectors) \in Seq(Queries)
      BY <1>2, <3>2
    <3> QED BY <2>1, <3>3 DEF Admit
  <2>2. CASE ~(Len(queryVectors) >= MaxQueryVectors)
    BY <1>2, <2>2 DEF Admit
  <2> QED BY <2>1, <2>2
<1>4. queryVectors' \in Seq(Queries) /\ queryInFlight' \subseteq Queries
  BY <1>2, <1>3 DEF WarmQueryVector, QueryEmbedded, QueryFails
<1>5. UNCHANGED <<entries, owned, embeddings, saveTimer>>
  BY DEF WarmQueryVector, QueryEmbedded, QueryFails
<1>6. MemorySound'
  BY <1>4, <1>5 DEF SearchInv, MemorySound
<1> QED BY <1>1, <1>6 DEF SearchInv

\* The batch that follows, or the one that is left.
LEMMA BatchKeeps ==
  ASSUME SearchInv, Backfill
  PROVE  BatchSound(backfill)'
<1>1. /\ backfill.todo \in Seq(Selected) /\ BatchSound(backfill)
      /\ backfill = [pc |-> backfill.pc, todo |-> backfill.todo, batch |-> backfill.batch]
  BY DEF SearchInv, BatchSound
<1>2. CASE BackfillStarts
  <2>1. PICK todo \in SetToSeqs({[key |-> k, text |-> table[k].text] :
                              k \in {j \in AllKeys : table[j] # Null /\ Kept(table[j]) = Null}}) :
          backfill' = NextBatch(todo)
    BY <1>2 DEF BackfillStarts
  <2> DEFINE S == {[key |-> k, text |-> table[k].text] :
                     k \in {j \in AllKeys : table[j] # Null /\ Kept(table[j]) = Null}}
  <2>2. IsFiniteSet(S)
    <3>1. IsFiniteSet(AllKeys)
      BY SearchAssumption, FS_Union DEF AllKeys
    <3> DEFINE ks == {j \in AllKeys : table[j] # Null /\ Kept(table[j]) = Null}
               select == [k \in ks |-> [key |-> k, text |-> table[k].text]]
    <3>2. IsFiniteSet(ks)
      BY <3>1, FS_Subset
    <3>3. select \in Surjection(ks, S)
      BY DEF Surjection
    <3> HIDE DEF S, ks, select
    <3> QED BY <3>2, <3>3, FS_Surjection
  <2>3. S \subseteq Selected
    BY DEF SearchInv, RowsSound, RowSound, IndexRow, Selected
  <2>4. todo \in Seq(S)
    <3> HIDE DEF S
    <3> QED BY <2>1, <2>2, ListsAll DEF S
  <2>5. todo \in Seq(Selected)
    <3> HIDE DEF S
    <3> QED BY <2>3, <2>4
  <2> QED BY <2>1, <2>5, NextBatchSound
<1>3. CASE BackfillPasses \/ BackfillFails
  BY <1>1, <1>3, NextBatchSound DEF BackfillPasses, BackfillFails
<1>4. CASE BackfillAnswered
  <2>1. backfill.batch \in Seq(Selected) /\ Usable(backfill.batch) # <<>>
    BY <1>1, <1>4 DEF BatchSound, BackfillAnswered
  <2> DEFINE a == Aligned(backfill.batch)
  <2>2. a \in Seq(Saved) /\ a # <<>> /\ \A j \in DOMAIN a : a[j].vector[1] = a[j].key
    BY <2>1, AlignedRows
  <2>3. backfill' = [pc |-> "save", todo |-> backfill.todo, batch |-> a]
    BY <1>1, <1>4 DEF BackfillAnswered
  <2> HIDE DEF a
  <2> QED BY <1>1, <2>2, <2>3 DEF BatchSound
<1>5. CASE BackfillSaves
  <2> DEFINE b == backfill.batch
  <2>1. b \in Seq(Saved) /\ b # <<>> /\ \A j \in DOMAIN b : b[j].vector[1] = b[j].key
    BY <1>1, <1>5 DEF BatchSound, BackfillSaves
  <2>2. CASE Len(b) = 1
    BY <1>1, <1>5, <2>2, NextBatchSound DEF BackfillSaves
  <2>3. CASE Len(b) # 1
    <3>1. backfill' = [pc |-> "save", todo |-> backfill.todo, batch |-> Tail(b)]
      BY <1>1, <1>5, <2>3 DEF BackfillSaves
    <3> HIDE DEF b
    <3>2. /\ Tail(b) \in Seq(Saved) /\ Len(Tail(b)) = Len(b) - 1 /\ Len(b) \in Nat
          /\ \A j \in DOMAIN Tail(b) : j + 1 \in DOMAIN b /\ Tail(b)[j] = b[j + 1]
      BY <2>1
    <3>3. Tail(b) # <<>>
      BY <2>1, <2>3, <3>2
    <3>4. \A j \in DOMAIN Tail(b) : Tail(b)[j].vector[1] = Tail(b)[j].key
      BY <2>1, <3>2
    <3> DEFINE t == Tail(b)
    <3> HIDE DEF t
    <3> QED BY <1>1, <3>1, <3>2, <3>3, <3>4 DEF BatchSound, t
  <2> QED BY <2>2, <2>3
<1> QED BY <1>2, <1>3, <1>4, <1>5 DEF Backfill

LEMMA BackfillKeeps ==
  ASSUME SearchInv, Backfill
  PROVE  SearchInv'
<1>1. MemorySound' /\ PendingSound'
  BY SearchFrame DEF SearchInv, Backfill, BackfillStarts, BackfillPasses, BackfillAnswered,
     BackfillSaves, BackfillFails
<1>2. RowsSound'
  <2>1. CASE BackfillSaves
    <3> DEFINE item == Head(backfill.batch)
    <3>1. /\ backfill.batch \in Seq(Saved) /\ backfill.batch # <<>>
          /\ \A j \in DOMAIN backfill.batch :
               backfill.batch[j].vector[1] = backfill.batch[j].key
      BY <2>1 DEF SearchInv, BatchSound, BackfillSaves
    <3>2. item \in Saved /\ item.vector[1] = item.key
      BY <3>1, ElementsOf
    <3>3. table' = WithVector(item.key, item.vector)
      BY <2>1 DEF BackfillSaves
    <3> HIDE DEF item
    <3> QED BY <3>2, <3>3, VectorWritten DEF SearchInv, Saved
  <2>2. CASE UNCHANGED table
    BY <2>2, SearchFrame DEF SearchInv
  <2> QED BY <2>1, <2>2
      DEF Backfill, BackfillStarts, BackfillPasses, BackfillAnswered, BackfillFails
<1> QED BY <1>1, <1>2, BatchKeeps DEF SearchInv

LEMMA ReloadKeeps ==
  ASSUME SearchInv, Reload
  PROVE  SearchInv'
<1>1. RowsSound' /\ BatchSound(backfill)'
  BY SearchFrame DEF SearchInv, Reload
<1>2. /\ table \in [AllKeys -> IndexRow \cup {Null}]
      /\ \A k \in AllKeys : RowSound(k, table[k])
  BY DEF SearchInv, RowsSound
<1>3. IsMap(entries', Keys, IndexEntry)
  <2>1. CASE entries' = <<>>
    <3>1. DOMAIN entries' = {}
      BY <2>1
    <3> QED BY <3>1 DEF IsMap
  <2>2. CASE \E ks \in SUBSET Stored : entries' =
               [k \in ks \cap Keys |-> [text |-> table[k].text, updated |-> table[k].updated]]
    <3>1. PICK ks \in SUBSET Stored : entries' =
               [k \in ks \cap Keys |-> [text |-> table[k].text, updated |-> table[k].updated]]
      BY <2>2
    <3>2. \A k \in ks \cap Keys : table[k].text \in Texts /\ table[k].updated \in Stamps
      BY <1>2 DEF Stored, RowSound, IndexRow
    <3> QED BY <3>1, <3>2 DEF IsMap, IndexEntry
  <2> QED BY <2>1, <2>2 DEF Reload
<1>4. IsMap(embeddings', AllKeys, Vector) /\ \A k \in DOMAIN embeddings' : embeddings'[k][1] = k
  <2>1. CASE embeddings' = <<>>
    <3>1. DOMAIN embeddings' = {}
      BY <2>1
    <3> QED BY <3>1 DEF IsMap
  <2>2. CASE embeddings' = [k \in {j \in Stored : Kept(table[j]) # Null} |-> table[k].vector]
    <3>1. \A k \in {j \in Stored : Kept(table[j]) # Null} :
            k \in AllKeys /\ table[k].vector \in Vector /\ table[k].vector[1] = k
      BY <1>2 DEF Stored, Kept, RowSound, IndexRow
    <3> QED BY <2>2, <3>1 DEF IsMap
  <2> QED BY <2>1, <2>2 DEF Reload
<1>5. MemorySound'
  <2>1. queryVectors' = <<>> /\ queryInFlight' = {} /\ saveTimer' = FALSE
    BY DEF Reload
  <2>2. queryVectors' \in Seq(Queries)
    BY <2>1
  <2>3. owned' \subseteq Keys
    BY DEF Reload
  <2> QED BY <1>3, <1>4, <2>1, <2>2, <2>3 DEF MemorySound
<1>6. PendingSound'
  <2>1. crashes + 1 \in 0 .. MaxCrashes
    BY NextStamps DEF SearchInv, Reload
  <2>2. /\ binds' = {} /\ embeds' = {} /\ flights' = {} /\ crashes' = crashes + 1
        /\ UNCHANGED <<upserts, flushes>>
    BY DEF Reload
  <2> QED BY <2>1, <2>2 DEF SearchInv, PendingSound
<1> QED BY <1>1, <1>5, <1>6 DEF SearchInv

LEMMA SearchStep == SearchInv /\ [SearchNext]_searchVars => SearchInv'
<1> SUFFICES ASSUME SearchInv, [SearchNext]_searchVars PROVE SearchInv'
  OBVIOUS
<1>1. CASE \E k \in Keys, t \in Texts : Upsert(k, t) \/ StartBind(k, t)
  BY <1>1, SettledKeeps
<1>2. CASE \E b \in binds : BindLands(b) \/ BindRefused(b)
  BY <1>2, BindKeeps
<1>3. CASE FlushStarts
  BY <1>3, FlushKeeps
<1>4. CASE \E f \in flights : SaveEntries(f) \/ FlushFails(f)
  BY <1>4, SaveKeeps
<1>5. CASE \E c \in embeds : EmbedAnswers(c) \/ SaveEmbedding(c) \/ EmbedFails(c)
  BY <1>5, EmbedKeeps
<1>6. CASE \E q \in Queries : WarmQueryVector(q) \/ QueryEmbedded(q) \/ QueryFails(q)
  BY <1>6, QueryKeeps
<1>7. CASE Backfill
  BY <1>7, BackfillKeeps
<1>8. CASE Reload
  BY <1>8, ReloadKeeps
<1>9. CASE UNCHANGED searchVars
  BY <1>9, SearchFrame DEF SearchInv, searchVars
<1> QED BY <1>1, <1>2, <1>3, <1>4, <1>5, <1>6, <1>7, <1>8, <1>9 DEF SearchNext

LEMMA SearchAlways == SearchSpec => []SearchInv
BY SearchInitInv, SearchStep, PTL DEF SearchSpec

\* The tables, the maps, the calls on their way and the script's batch keep their
\* types, through every interleaving of settlements, flushes, embeddings, the script
\* and restarts.
THEOREM SearchTypeCorrect == SearchSpec => []SearchTypeOK
BY SearchAlways, SearchInvSays, PTL

\* The script aligns the answers of the API with the usable rows of its batch, and the
\* server's own embeddings carry their key: no write, however late, puts the vector of
\* one resource under the key of another.
THEOREM OwnVectorsCorrect == SearchSpec => []OwnVectors
BY SearchAlways, SearchInvSays, PTL

\* search: whatever entries, vectors and query vectors have arrived, it answers; its
\* answer has every entry that matches by its words, each once, and respects the order
\* that its two rankings agree on.
THEOREM FusionCorrect == SearchSpec => []FusionSound
BY SearchTypeCorrect, SearchSound, PTL

-----------------------------------------------------------------------------
(* DiscoveryProbes. The lookups of a page.                                 *)

LEMMA TopIn ==
  ASSUME NEW n \in Nat, NEW S \in SUBSET (1 .. n), S # {}
  PROVE  Max(S) \in S
<1> DEFINE U == {n - x : x \in S}
<1>1. U \in SUBSET Nat /\ U # {}
  <2>1. \A x \in S : n - x \in Nat
    OBVIOUS
  <2> QED BY <2>1
<1>2. PICK u \in U : \A v \in U : ~(v < u)
  <2> HIDE DEF U
  <2> QED BY <1>1, LeastNatural
<1>3. PICK x \in S : u = n - x
  BY <1>2
<1>4. \A y \in S : x >= y
  <2> SUFFICES ASSUME NEW y \in S PROVE x >= y
    OBVIOUS
  <2>1. ~(n - y < n - x)
    BY <1>2, <1>3
  <2> QED BY <2>1
<1> QED BY <1>4 DEF Max

\* The equation of the fold over a page at s: the pages' last check is the outermost.
LooksUp(g, base, page, s) ==
  g[s] = IF s = {} THEN base ELSE LookUp(g[s \ {Max(s)}], page[Max(s)])

Looked(base, page) ==
  CHOOSE g : g = [s \in SUBSET (DOMAIN page) |->
                    IF s = {} THEN base ELSE LookUp(g[s \ {Max(s)}], page[Max(s)])]

LEMMA FoldUnfolds ==
  ASSUME NEW base, NEW page
  PROVE  FoldLeft(LookUp, base, page) = Looked(base, page)[DOMAIN page]
BY DEF FoldLeft, MapThenFoldSet, Looked

\* The fold is a function: its equation has a solution for the sets of any least size
\* at which it would have none.
LEMMA FoldExists ==
  ASSUME NEW base, NEW n \in Nat, NEW page, DOMAIN page = 1 .. n
  PROVE  \A s \in SUBSET (1 .. n) : LooksUp(Looked(base, page), base, page, s)
<1> DEFINE S == 1 .. n
           Upto(m) == {s \in SUBSET S : Cardinality(s) <= m}
           U == {m \in Nat : ~ \E g : \A s \in Upto(m) : LooksUp(g, base, page, s)}
<1>0. \A s \in SUBSET S : /\ IsFiniteSet(s) /\ Cardinality(s) \in Nat
                          /\ s # {} => Max(s) \in s
  <2>1. IsFiniteSet(S)
    BY FS_Interval
  <2> QED BY <2>1, FS_Subset, FS_CardinalityType, TopIn
<1>1. U = {}
  <2> SUFFICES ASSUME U # {} PROVE FALSE
    OBVIOUS
  <2>1. PICK m \in U : \A k \in U : ~(k < m)
    <3> HIDE DEF Upto
    <3>1. U \in SUBSET Nat
      OBVIOUS
    <3> HIDE DEF U
    <3> QED BY <3>1, LeastNatural
  <2>2. m # 0
    <3> SUFFICES ASSUME m = 0 PROVE FALSE
      OBVIOUS
    <3> DEFINE g == [s \in {{}} |-> base]
    <3>1. \A s \in Upto(m) : s = {}
      <4> TAKE s \in Upto(m)
      <4>1. IsFiniteSet(s) /\ Cardinality(s) = 0
        BY <1>0
      <4> QED BY <4>1, FS_EmptySet
    <3>2. LooksUp(g, base, page, {})
      BY DEF LooksUp
    <3> QED BY <2>1, <3>1, <3>2
  <2>3. PICK g : \A s \in Upto(m - 1) : LooksUp(g, base, page, s)
    <3>1. m - 1 \in Nat /\ m - 1 < m
      BY <2>1, <2>2
    <3>2. m - 1 \notin U
      <4> HIDE DEF U
      <4> QED BY <2>1, <3>1
    <3> QED BY <3>1, <3>2
  <2> DEFINE h == [s \in SUBSET S |->
                     IF s = {} THEN base ELSE LookUp(g[s \ {Max(s)}], page[Max(s)])]
  <2>4. ASSUME NEW s \in Upto(m) PROVE LooksUp(h, base, page, s)
    <3>1. CASE s = {}
      BY <3>1 DEF LooksUp
    <3>2. CASE s # {}
      <4> DEFINE u == s \ {Max(s)}
      <4>1. Cardinality(u) = Cardinality(s) - 1
        <5>1. IsFiniteSet(s) /\ Max(s) \in s
          BY <3>2, <1>0
        <5> QED BY <5>1, FS_RemoveElement
      <4>2. u \in Upto(m - 1)
        <5>1. u \in SUBSET S /\ Cardinality(s) \in Nat /\ Cardinality(s) <= m /\ m \in Nat
          BY <1>0, <2>1
        <5> HIDE DEF u
        <5> QED BY <4>1, <5>1
      <4>3. h[u] = g[u]
        <5>1. g[u] = IF u = {} THEN base ELSE LookUp(g[u \ {Max(u)}], page[Max(u)])
          BY <4>2, <2>3 DEF LooksUp
        <5> HIDE DEF u
        <5> QED BY <5>1, <4>2
      <4>4. h[s] = LookUp(g[u], page[Max(s)])
        BY <3>2
      <4> HIDE DEF h
      <4> QED BY <3>2, <4>3, <4>4 DEF LooksUp
    <3> QED BY <3>1, <3>2
  <2> QED BY <2>1, <2>4
<1>2. PICK g : \A s \in SUBSET S : LooksUp(g, base, page, s)
  <2>1. Cardinality(S) \in Nat /\ Cardinality(S) \notin U
    BY <1>0, <1>1
  <2>2. Upto(Cardinality(S)) = SUBSET S
    BY FS_Subset, FS_Interval
  <2> QED BY <2>1, <2>2
<1> DEFINE h == [s \in SUBSET S |-> g[s]]
<1>3. h = [s \in SUBSET (DOMAIN page) |->
             IF s = {} THEN base ELSE LookUp(h[s \ {Max(s)}], page[Max(s)])]
  BY <1>2 DEF LooksUp
<1> HIDE DEF h
<1>4. Looked(base, page) = [s \in SUBSET (DOMAIN page) |->
        IF s = {} THEN base
        ELSE LookUp(Looked(base, page)[s \ {Max(s)}], page[Max(s)])]
  BY <1>3 DEF Looked
<1> QED BY <1>4 DEF LooksUp

\* What every check keeps holds after all of a page's.
LEMMA FoldKeeps ==
  ASSUME NEW L, NEW base \in L, NEW page \in Seq(Options),
         \A l \in L, o \in Options : LookUp(l, o) \in L
  PROVE  FoldLeft(LookUp, base, page) \in L
<1> DEFINE n == Len(page)
           S == 1 .. n
           g == Looked(base, page)
           U == {s \in SUBSET S : g[s] \notin L}
<1>1. n \in Nat /\ DOMAIN page = 1 .. n /\ \A i \in 1 .. n : page[i] \in Options
  OBVIOUS
<1> HIDE DEF n
<1>2. \A s \in SUBSET (1 .. n) : LooksUp(g, base, page, s)
  BY <1>1, FoldExists
<1>3. U = {}
  <2> SUFFICES ASSUME U # {} PROVE FALSE
    OBVIOUS
  <2>1. PICK s \in U : \A t \in U : ~(t \subseteq s /\ t # s)
    <3>1. U \in SUBSET (SUBSET S) /\ IsFiniteSet(S)
      BY <1>1, FS_Interval
    <3> HIDE DEF S, U
    <3> QED BY <3>1, LeastSubset
  <2> DEFINE t == s \ {Max(s)}
  <2>2. s # {}
    BY <1>2, <2>1 DEF LooksUp
  <2>3. Max(s) \in s
    BY <1>1, <2>1, <2>2, TopIn
  <2>4. g[t] \in L
    BY <2>1, <2>3
  <2>5. g[s] = LookUp(g[t], page[Max(s)])
    BY <1>2, <2>1, <2>2 DEF LooksUp
  <2>6. page[Max(s)] \in Options
    BY <1>1, <2>1, <2>3
  <2> HIDE DEF g, t
  <2> QED BY <2>1, <2>4, <2>5, <2>6
<1> QED BY <1>1, <1>3, FoldUnfolds

-----------------------------------------------------------------------------
(* DiscoveryProbes. The limiter.                                           *)

Limiters == [active : Nat, queue : Seq(Options), lookups : [Options -> Steps]]

Runs == {"identity", "horizon", "payable", "not_payable", "unknown"}
Facts == {"payable", "not_payable"}

InStep(lk, steps) == {o \in Options : lk[o] \in steps}

\* LimiterExact of a limiter that a page has partly been looked up with.
Exact(l) ==
  /\ l.active = Cardinality(InStep(l.lookups, Runs))
  /\ IsInjective(l.queue) /\ ToSet(l.queue) = InStep(l.lookups, {"queued"})
  /\ l.queue # <<>> => l.active + Cardinality(InStep(l.lookups, {"woken"})) >= MaxConcurrent

\* A lookup of an account has a verdict only after Horizon's reading; one of a contract
\* asks for none, and says payable only of a SAC.
Founded(lk) ==
  \A o \in Options :
    /\ read[o] # Undefined => lk[o] \in Payability
    /\ IsContract(o) => /\ lk[o] \notin {"horizon", "not_payable"}
                        /\ lk[o] = "payable" => KindOf(AssetOf(o)) # "non_sac"
    /\ ~IsContract(o) /\ lk[o] \in Facts => read[o] # Undefined

Limiter == [active |-> active, queue |-> queue, lookups |-> lookups]

LEMMA ExactIsExact == LimiterExact <=> Exact(Limiter)
<1>1. /\ Running = InStep(lookups, Runs)
      /\ Woken = InStep(lookups, {"woken"})
      /\ {o \in Options : lookups[o] = "queued"} = InStep(lookups, {"queued"})
  BY DEF Running, Woken, InStep, Runs, Payability
<1> QED BY <1>1 DEF LimiterExact, Exact, Limiter

LEMMA NextExactIsExact == LimiterExact' <=> Exact(Limiter)'
BY ExactIsExact, PTL

LEMMA ProbesSizes ==
  /\ IsFiniteSet(Options) /\ MaxConcurrent \in Nat \ {0}
  /\ \A S \in SUBSET Options : IsFiniteSet(S) /\ Cardinality(S) \in Nat
BY FS_Subset, FS_CardinalityType, ProbesAssumption

LEMMA OneMore ==
  ASSUME NEW S \in SUBSET Options, NEW o \in Options \ S
  PROVE  Cardinality(S \cup {o}) = Cardinality(S) + 1
BY ProbesSizes, FS_AddElement

LEMMA OneLess ==
  ASSUME NEW S \in SUBSET Options, NEW o \in S
  PROVE  Cardinality(S \ {o}) = Cardinality(S) - 1 /\ Cardinality(S) > 0
<1>1. IsFiniteSet(S) /\ Cardinality(S) \in Nat /\ Cardinality(S \ {o}) \in Nat
  BY ProbesSizes
<1>2. Cardinality(S \ {o}) = Cardinality(S) - 1
  BY <1>1, FS_RemoveElement
<1> QED BY <1>1, <1>2

LEMMA QueueGrows ==
  ASSUME NEW q \in Seq(Options), IsInjective(q), NEW o \in Options, o \notin ToSet(q)
  PROVE  /\ IsInjective(Append(q, o)) /\ ToSet(Append(q, o)) = ToSet(q) \cup {o}
         /\ Append(q, o) # <<>>
<1>1. /\ DOMAIN Append(q, o) = 1 .. Len(q) + 1 /\ DOMAIN q = 1 .. Len(q) /\ Len(q) \in Nat
      /\ \A i \in 1 .. Len(q) : Append(q, o)[i] = q[i]
      /\ Append(q, o)[Len(q) + 1] = o
  OBVIOUS
<1> QED BY <1>1 DEF IsInjective, ToSet

LEMMA QueueShrinks ==
  ASSUME NEW q \in Seq(Options), IsInjective(q), q # <<>>
  PROVE  /\ Tail(q) \in Seq(Options) /\ IsInjective(Tail(q))
         /\ q[1] \in ToSet(q) /\ ToSet(Tail(q)) = ToSet(q) \ {q[1]}
<1>1. /\ DOMAIN Tail(q) = 1 .. Len(q) - 1 /\ DOMAIN q = 1 .. Len(q)
      /\ Len(q) \in Nat /\ Len(q) >= 1
      /\ \A i \in 1 .. Len(q) - 1 : Tail(q)[i] = q[i + 1]
      /\ Tail(q) \in Seq(Options)
  OBVIOUS
<1>2. \A i \in 1 .. Len(q) : i = 1 \/ (i - 1 \in 1 .. Len(q) - 1 /\ q[i] = Tail(q)[i - 1])
  BY <1>1
<1>3. ToSet(Tail(q)) \subseteq ToSet(q) \ {q[1]}
  BY <1>1 DEF IsInjective, ToSet
<1>4. ToSet(q) \ {q[1]} \subseteq ToSet(Tail(q))
  <2> SUFFICES ASSUME NEW x \in ToSet(q), x # q[1] PROVE x \in ToSet(Tail(q))
    OBVIOUS
  <2>1. PICK i \in 1 .. Len(q) : x = q[i]
    BY <1>1 DEF ToSet
  <2>2. i - 1 \in DOMAIN Tail(q) /\ x = Tail(q)[i - 1]
    BY <1>1, <1>2, <2>1
  <2> QED BY <2>2 DEF ToSet
<1>5. IsInjective(Tail(q))
  BY <1>1 DEF IsInjective
<1> QED BY <1>1, <1>3, <1>4, <1>5 DEF ToSet

LEMMA AfterIdentityRuns ==
  ASSUME NEW o \in Options, NEW kind \in {KindOf(AssetOf(o)), "non_sac"}
  PROVE  LET step == AfterIdentity(o, kind)
         IN  /\ step \in Runs /\ step # "identity"
             /\ IsContract(o) => /\ step \notin {"horizon", "not_payable"}
                                 /\ step = "payable" => KindOf(AssetOf(o)) # "non_sac"
             /\ ~IsContract(o) => step \notin Facts
BY DEF AfterIdentity, Runs, Facts

LEMMA FirstStepRuns ==
  ASSUME IdentityRight, NEW o \in Options
  PROVE  /\ FirstStep(o) \in Runs
         /\ IsContract(o) => /\ FirstStep(o) \notin {"horizon", "not_payable"}
                             /\ FirstStep(o) = "payable" => KindOf(AssetOf(o)) # "non_sac"
         /\ ~IsContract(o) => FirstStep(o) \notin Facts
<1>1. AssetOf(o) \in Assets
  BY ProbesAssumption
<1>2. CASE identity[AssetOf(o)] = Undefined
  BY <1>2 DEF FirstStep, Runs, Facts
<1>3. CASE identity[AssetOf(o)] # Undefined
  <2>1. identity[AssetOf(o)] \in {KindOf(AssetOf(o)), "non_sac"}
    BY <1>1, <1>3 DEF IdentityRight
  <2>2. FirstStep(o) = AfterIdentity(o, identity[AssetOf(o)])
    BY <1>3 DEF FirstStep
  <2> QED BY <2>1, <2>2, AfterIdentityRuns
<1> QED BY <1>2, <1>3

LEMMA LookUpKeeps ==
  ASSUME IdentityRight, NEW l \in Limiters, Exact(l), Founded(l.lookups),
         NEW o \in Options
  PROVE  LET after == LookUp(l, o)
         IN  /\ after \in Limiters /\ Exact(after) /\ Founded(after.lookups)
             /\ \A p \in Options : l.lookups[p] # "none" => after.lookups[p] = l.lookups[p]
<1>0. /\ l.active \in Nat /\ l.queue \in Seq(Options) /\ l.lookups \in [Options -> Steps]
      /\ l = [active |-> l.active, queue |-> l.queue, lookups |-> l.lookups]
  BY DEF Limiters
<1>1. CASE Hit(o) \/ l.lookups[o] # "none"
  BY <1>1 DEF LookUp
<1>2. CASE ~(Hit(o) \/ l.lookups[o] # "none") /\ l.active >= MaxConcurrent
  <2> DEFINE lk == [l.lookups EXCEPT ![o] = "queued"]
  <2>1. LookUp(l, o) = [active |-> l.active, queue |-> Append(l.queue, o), lookups |-> lk]
    BY <1>0, <1>2 DEF LookUp
  <2>2. /\ InStep(lk, Runs) = InStep(l.lookups, Runs)
        /\ InStep(lk, {"woken"}) = InStep(l.lookups, {"woken"})
        /\ InStep(lk, {"queued"}) = InStep(l.lookups, {"queued"}) \cup {o}
        /\ o \notin InStep(l.lookups, {"queued"})
        /\ lk \in [Options -> Steps]
    BY <1>0, <1>2 DEF InStep, Steps, Runs, Payability
  <2>3. /\ IsInjective(Append(l.queue, o))
        /\ ToSet(Append(l.queue, o)) = ToSet(l.queue) \cup {o}
    BY <1>0, <2>2, QueueGrows DEF Exact
  <2>4. l.active + Cardinality(InStep(lk, {"woken"})) >= MaxConcurrent
    <3>1. InStep(lk, {"woken"}) \in SUBSET Options
      BY DEF InStep
    <3> HIDE DEF lk
    <3> QED BY <1>0, <1>2, <3>1, ProbesSizes
  <2>5. /\ Founded(lk)
        /\ \A p \in Options : l.lookups[p] # "none" => lk[p] = l.lookups[p]
    BY <1>0, <1>2 DEF Founded, Facts, Payability
  <2> HIDE DEF lk
  <2> DEFINE after == LookUp(l, o)
  <2>6. after.active = l.active /\ after.queue = Append(l.queue, o) /\ after.lookups = lk
    BY <2>1
  <2>7. after \in Limiters
    BY <1>0, <2>1, <2>2 DEF Limiters
  <2> HIDE DEF after
  <2>8. Exact(after)
    BY <2>2, <2>3, <2>4, <2>6 DEF Exact
  <2> QED BY <2>5, <2>6, <2>7, <2>8 DEF after
<1>3. CASE ~(Hit(o) \/ l.lookups[o] # "none") /\ ~(l.active >= MaxConcurrent)
  <2> DEFINE lk == [l.lookups EXCEPT ![o] = FirstStep(o)]
  <2>1. LookUp(l, o) = [active |-> l.active + 1, queue |-> l.queue, lookups |-> lk]
    BY <1>0, <1>3 DEF LookUp
  <2>2. /\ InStep(lk, Runs) = InStep(l.lookups, Runs) \cup {o}
        /\ o \notin InStep(l.lookups, Runs)
        /\ InStep(lk, {"woken"}) = InStep(l.lookups, {"woken"})
        /\ InStep(lk, {"queued"}) = InStep(l.lookups, {"queued"})
        /\ lk \in [Options -> Steps]
    BY <1>0, <1>3, FirstStepRuns DEF InStep, Steps, Runs, Payability
  <2>3. Cardinality(InStep(lk, Runs)) = Cardinality(InStep(l.lookups, Runs)) + 1
    <3>1. InStep(l.lookups, Runs) \in SUBSET Options
      BY DEF InStep
    <3> QED BY <2>2, <3>1, OneMore
  <2>4. /\ Founded(lk)
        /\ \A p \in Options : l.lookups[p] # "none" => lk[p] = l.lookups[p]
    BY <1>0, <1>3, FirstStepRuns DEF Founded, Payability
  <2>5. Cardinality(InStep(lk, {"woken"})) \in Nat
    BY ProbesSizes DEF InStep
  <2> HIDE DEF lk
  <2>6. l.queue # <<>> => l.active + 1 + Cardinality(InStep(lk, {"woken"})) >= MaxConcurrent
    BY <1>0, <2>2, <2>5, ProbesSizes DEF Exact
  <2>7. l.active + 1 = Cardinality(InStep(lk, Runs))
    BY <2>3 DEF Exact
  <2> DEFINE after == LookUp(l, o)
  <2>8. after.active = l.active + 1 /\ after.queue = l.queue /\ after.lookups = lk
    BY <2>1
  <2>9. after \in Limiters
    BY <1>0, <2>1, <2>2 DEF Limiters
  <2> HIDE DEF after
  <2>10. Exact(after)
    BY <2>2, <2>6, <2>7, <2>8 DEF Exact
  <2> QED BY <2>4, <2>8, <2>9, <2>10 DEF after
<1> QED BY <1>1, <1>2, <1>3

LEMMA PageKeeps ==
  ASSUME ProbesTypeOK, IdentityRight, LimiterExact, Founded(lookups), NEW r \in Requests
  PROVE  LET after == FoldLeft(LookUp, Limiter, Page(r))
         IN  /\ after \in Limiters /\ Exact(after) /\ Founded(after.lookups)
             /\ \A o \in Options : lookups[o] # "none" => after.lookups[o] = lookups[o]
<1> DEFINE L == {l \in Limiters :
                   /\ Exact(l) /\ Founded(l.lookups)
                   /\ \A o \in Options : lookups[o] # "none" => l.lookups[o] = lookups[o]}
<1>1. Limiter \in L
  BY ExactIsExact DEF Limiter, Limiters, ProbesTypeOK
<1>2. \A l \in L, o \in Options : LookUp(l, o) \in L
  BY LookUpKeeps
<1>3. Page(r) \in Seq(Options)
  BY ProbesAssumption
<1> HIDE DEF L
<1>4. FoldLeft(LookUp, Limiter, Page(r)) \in L
  BY <1>1, <1>2, <1>3, FoldKeeps
<1> QED BY <1>4 DEF L

\* A slot is given back, and the first in the queue is woken.
LEMMA ReleaseKeeps ==
  ASSUME ProbesTypeOK, LimiterExact, NEW o \in Options, NEW v,
         lookups[o] \in Runs, Release(o, v)
  PROVE  /\ active' \in Nat /\ queue' \in Seq(Options) /\ lookups' \in [Options -> Steps]
         /\ LimiterExact'
         /\ lookups'[o] = "none"
         /\ \A p \in Options \ {o} :
              lookups'[p] = lookups[p] \/ (lookups[p] = "queued" /\ lookups'[p] = "woken")
<1>0. /\ active \in Nat /\ queue \in Seq(Options) /\ lookups \in [Options -> Steps]
      /\ Exact(Limiter)
  BY ExactIsExact DEF ProbesTypeOK
<1>1. /\ active = Cardinality(InStep(lookups, Runs)) /\ IsInjective(queue)
      /\ ToSet(queue) = InStep(lookups, {"queued"})
      /\ queue # <<>> => active + Cardinality(InStep(lookups, {"woken"})) >= MaxConcurrent
  BY <1>0 DEF Exact, Limiter
<1>2. /\ active' = active - 1
      /\ queue' = IF queue = <<>> THEN <<>> ELSE Tail(queue)
      /\ \A p \in Options : lookups'[p] = IF p = o THEN "none"
                              ELSE IF queue # <<>> /\ p = queue[1] THEN "woken"
                              ELSE lookups[p]
      /\ DOMAIN lookups' = Options
  BY DEF Release
<1>3. lookups' \in [Options -> Steps]
  BY <1>0 DEF Release, Steps
<1>4. \A S \in SUBSET Steps : InStep(lookups, S) \in SUBSET Options
  BY DEF InStep
<1>5. InStep(lookups', Runs) = InStep(lookups, Runs) \ {o} /\ o \in InStep(lookups, Runs)
  <2>1. queue # <<>> => lookups[queue[1]] = "queued"
    BY <1>0, <1>1, QueueShrinks DEF InStep
  <2> QED BY <1>2, <2>1 DEF InStep, Runs
<1>6. active' \in Nat /\ active' = Cardinality(InStep(lookups', Runs))
  <2> DEFINE S == InStep(lookups, Runs)
  <2>1. S \in SUBSET Options /\ o \in S
    BY <1>5 DEF InStep
  <2>2. active = Cardinality(S) /\ InStep(lookups', Runs) = S \ {o}
    BY <1>1, <1>5
  <2> HIDE DEF S
  <2>3. Cardinality(S \ {o}) = Cardinality(S) - 1 /\ Cardinality(S) > 0
    BY <2>1, OneLess
  <2>4. active - 1 \in Nat /\ active - 1 = Cardinality(S \ {o})
    BY <1>0, <2>2, <2>3
  <2> QED BY <1>2, <2>2, <2>4
<1>7. /\ lookups'[o] = "none"
      /\ \A p \in Options \ {o} :
           lookups'[p] = lookups[p] \/ (lookups[p] = "queued" /\ lookups'[p] = "woken")
  <2>1. queue # <<>> => lookups[queue[1]] = "queued"
    BY <1>0, <1>1, QueueShrinks DEF InStep
  <2> QED BY <1>2, <2>1
<1>10. lookups[o] \notin {"none", "queued", "woken"}
  BY DEF Runs
<1>8. CASE queue = <<>>
  <2>1. InStep(lookups', {"queued"}) = InStep(lookups, {"queued"})
    BY <1>2, <1>8, <1>10 DEF InStep
  <2> QED BY <1>0, <1>1, <1>2, <1>3, <1>6, <1>7, <1>8, <2>1, NextExactIsExact
      DEF Exact, Limiter
<1>9. CASE queue # <<>>
  <2>1. /\ Tail(queue) \in Seq(Options) /\ IsInjective(Tail(queue))
        /\ queue[1] \in InStep(lookups, {"queued"})
        /\ ToSet(Tail(queue)) = InStep(lookups, {"queued"}) \ {queue[1]}
    BY <1>0, <1>1, <1>9, QueueShrinks
  <2>2. queue[1] \in Options /\ lookups[queue[1]] = "queued" /\ queue[1] # o
    BY <2>1, <1>10 DEF InStep
  <2>3. InStep(lookups', {"queued"}) = InStep(lookups, {"queued"}) \ {queue[1]}
    BY <1>2, <1>9, <2>2, <1>10 DEF InStep
  <2>4. /\ InStep(lookups', {"woken"}) = InStep(lookups, {"woken"}) \cup {queue[1]}
        /\ queue[1] \notin InStep(lookups, {"woken"})
    BY <1>2, <1>9, <2>2, <1>10 DEF InStep
  <2>5. /\ Cardinality(InStep(lookups', {"woken"}))
             = Cardinality(InStep(lookups, {"woken"})) + 1
        /\ Cardinality(InStep(lookups, {"woken"})) \in Nat
    <3>1. InStep(lookups, {"woken"}) \in SUBSET Options
      BY DEF InStep
    <3> QED BY <2>2, <2>4, <3>1, OneMore, ProbesSizes
  <2>6. active' + Cardinality(InStep(lookups', {"woken"})) >= MaxConcurrent
    BY <1>0, <1>1, <1>2, <1>9, <2>5, ProbesSizes
  <2>7. Exact(Limiter)'
    <3>1. IsInjective(queue') /\ ToSet(queue') = InStep(lookups', {"queued"})
      BY <1>2, <1>9, <2>1, <2>3
    <3> QED BY <1>6, <2>6, <3>1 DEF Exact, Limiter
  <2> QED BY <1>2, <1>3, <1>6, <1>7, <1>9, <2>1, <2>7, NextExactIsExact
<1> QED BY <1>8, <1>9

-----------------------------------------------------------------------------
(* DiscoveryProbes. The invariant of the limiter and the identity.         *)

ReadsPast == \A o \in Options : read[o] # Undefined => read[o] <= clock

ProbesInv ==
  ProbesTypeOK /\ LimiterExact /\ Founded(lookups) /\ ReadsPast /\ IdentityRight

LEMMA ProbesBounds ==
  /\ Ttl \in Nat \ {0} /\ UnknownTtl \in Nat \ {0} /\ TrustTtl \in Nat \ {0}
  /\ BudgetMs \in Nat \ {0} /\ MaxClock \in Nat
  /\ \A o \in Options : AssetOf(o) \in Assets
  /\ \A a \in Assets : KindOf(a) \in {"native", "classic", "non_sac"} /\ KindOf(a) # Undefined
BY ProbesAssumption, UndefinedAssumption

LEMMA IdentityLearned ==
  ASSUME ProbesInv, NEW a \in Assets, NEW kind \in {KindOf(a), "non_sac"},
         identity' = [identity EXCEPT ![a] = kind],
         denied' = IF kind = "non_sac" THEN denied \cup {a} ELSE denied
  PROVE  /\ identity' \in [Assets -> {"native", "classic", "non_sac", Undefined}]
         /\ denied' \subseteq Assets /\ IdentityRight'
<1>1. /\ identity \in [Assets -> {"native", "classic", "non_sac", Undefined}]
      /\ denied \subseteq Assets /\ kind \in {"native", "classic", "non_sac"}
  BY ProbesBounds DEF ProbesInv, ProbesTypeOK
<1>2. \A b \in Assets : identity'[b] = IF b = a THEN kind ELSE identity[b]
  BY <1>1
<1> QED BY <1>1, <1>2 DEF ProbesInv, IdentityRight

LEMMA TookBounds ==
  ASSUME ProbesInv, NEW o \in Options
  PROVE  /\ Took(o) \in 0 .. MaxClock
         /\ read[o] # Undefined => clock - Took(o) = read[o] /\ read[o] \in Nat
<1>1. /\ clock \in 0 .. MaxClock /\ MaxClock \in Nat
      /\ read[o] \in 0 .. MaxClock \cup {Undefined}
      /\ read[o] # Undefined => read[o] <= clock
  BY ProbesBounds DEF ProbesInv, ProbesTypeOK, ReadsPast
<1> QED BY <1>1 DEF Took

LEMMA EndLookupKeeps ==
  ASSUME ProbesInv, NEW o \in Options, NEW v \in Payability,
         lookups[o] \in Runs, EndLookup(o, v)
  PROVE  ProbesInv'
<1>1. ProbesTypeOK /\ LimiterExact /\ Release(o, v)
  BY DEF ProbesInv, EndLookup
<1>2. /\ active' \in Nat /\ queue' \in Seq(Options) /\ lookups' \in [Options -> Steps]
      /\ LimiterExact' /\ lookups'[o] = "none"
      /\ \A p \in Options \ {o} :
           lookups'[p] = lookups[p] \/ (lookups[p] = "queued" /\ lookups'[p] = "woken")
  BY <1>1, ReleaseKeeps
<1>3. /\ clock' = clock /\ layers' = layers /\ badge' = badge /\ held' = held
      /\ turned' = turned /\ vouched' = vouched /\ trustCache' = trustCache
      /\ identity' = identity /\ denied' = denied
      /\ read' = [read EXCEPT ![o] = Undefined]
  BY DEF EndLookup, worldVars
<1>4. verdicts' \in [Options -> Found \cup {Undefined}]
  <2>1. [verdict |-> v, at |-> clock, took |-> Took(o)] \in Found
    BY <1>1, TookBounds DEF ProbesTypeOK, Found
  <2> QED BY <1>1, <2>1 DEF EndLookup, ProbesTypeOK
<1>5. req' \in [Requests -> Request]
  <2> DEFINE new(r) == IF req[r].pay[o] = "wait"
                       THEN [req[r] EXCEPT !.pay[o] = v, !.took[o] = Took(o)] ELSE req[r]
  <2>1. req' = [r \in Requests |-> new(r)]
    BY DEF EndLookup
  <2>2. \A r \in Requests : new(r) \in Request
    <3> TAKE r \in Requests
    <3>1. req[r] \in Request /\ Took(o) \in 0 .. MaxClock
      BY <1>1, TookBounds DEF ProbesTypeOK
    <3>2. [req[r] EXCEPT !.pay[o] = v, !.took[o] = Took(o)] \in Request
      BY <3>1 DEF Request
    <3> QED BY <3>1, <3>2
  <2> HIDE DEF new
  <2> QED BY <2>1, <2>2
<1>6. /\ read \in [Options -> 0 .. MaxClock \cup {Undefined}]
      /\ read' \in [Options -> 0 .. MaxClock \cup {Undefined}]
      /\ read'[o] = Undefined /\ \A p \in Options \ {o} : read'[p] = read[p]
  BY <1>1, <1>3 DEF ProbesTypeOK
<1>7. Founded(lookups)'
  BY <1>2, <1>6 DEF ProbesInv, Founded, Facts, Payability
<1>8. ReadsPast' /\ IdentityRight'
  BY <1>3, <1>6 DEF ProbesInv, ReadsPast, IdentityRight
<1> QED BY <1>1, <1>2, <1>3, <1>4, <1>5, <1>6, <1>7, <1>8 DEF ProbesInv, ProbesTypeOK

\* The steps that are not the limiter's.
LEMMA QuietKeeps ==
  ASSUME ProbesInv, UNCHANGED resolverVars,
         clock' \in 0 .. MaxClock, clock' >= clock, layers' = layers, badge' \in BOOLEAN,
         held' \in [Options -> BOOLEAN],
         turned' \in [Options -> 0 .. MaxClock \cup {Undefined}],
         vouched' \in [Assets -> 0 .. MaxClock \cup {Undefined}],
         trustCache' \in [Assets -> Cached \cup {Undefined}],
         req' \in [Requests -> Request]
  PROVE  ProbesInv'
<1>1. /\ identity' = identity /\ denied' = denied /\ verdicts' = verdicts
      /\ lookups' = lookups /\ read' = read /\ active' = active /\ queue' = queue
  BY DEF resolverVars
<1>2. LimiterExact'
  BY <1>1 DEF ProbesInv, LimiterExact, Running, Woken
<1>3. Founded(lookups)'
  BY <1>1 DEF ProbesInv, Founded
<1>4. ReadsPast'
  <2> SUFFICES ASSUME NEW o \in Options, read[o] # Undefined PROVE read[o] <= clock'
    BY <1>1 DEF ReadsPast
  <2>1. read[o] \in Nat /\ clock \in Nat /\ clock' \in Nat /\ read[o] <= clock
    BY ProbesBounds DEF ProbesInv, ProbesTypeOK, ReadsPast
  <2> QED BY <2>1
<1> QED BY <1>1, <1>2, <1>3, <1>4 DEF ProbesInv, ProbesTypeOK, IdentityRight

LEMMA ProbesInitInv == ProbesInit => ProbesInv
<1> SUFFICES ASSUME ProbesInit PROVE ProbesInv
  OBVIOUS
<1>1. ProbesTypeOK
  <2>1. clock \in 0 .. MaxClock /\ 0 \in 0 .. MaxClock + BudgetMs
    BY ProbesBounds DEF ProbesInit
  <2>2. req \in [Requests -> Request]
    BY <2>1 DEF ProbesInit, Request, Verification, Payability
  <2>3. badge \in BOOLEAN
    BY DEF ProbesInit
  <2>4. lookups \in [Options -> Steps]
    BY DEF ProbesInit, Steps
  <2>5. /\ held \in [Options -> BOOLEAN]
        /\ turned \in [Options -> 0 .. MaxClock \cup {Undefined}]
        /\ vouched \in [Assets -> 0 .. MaxClock \cup {Undefined}]
        /\ trustCache \in [Assets -> Cached \cup {Undefined}]
        /\ identity \in [Assets -> {"native", "classic", "non_sac", Undefined}]
        /\ verdicts \in [Options -> Found \cup {Undefined}]
        /\ denied \subseteq Assets /\ read \in [Options -> 0 .. MaxClock \cup {Undefined}]
    BY DEF ProbesInit
  <2>6. layers \in Layers /\ active \in Nat /\ queue \in Seq(Options)
    BY DEF ProbesInit
  <2> QED BY <2>1, <2>2, <2>3, <2>4, <2>5, <2>6 DEF ProbesTypeOK
<1>2. LimiterExact
  <2>1. /\ active = 0 /\ queue = <<>> /\ Running = {}
        /\ {o \in Options : lookups[o] = "queued"} = {}
    BY DEF ProbesInit, Running, Payability
  <2>2. Cardinality({}) = 0
    BY FS_EmptySet
  <2>3. DOMAIN queue = {}
    BY <2>1
  <2> QED BY <2>1, <2>2, <2>3 DEF LimiterExact, IsInjective, ToSet
<1>3. Founded(lookups) /\ ReadsPast /\ IdentityRight
  BY DEF ProbesInit, Founded, Facts, ReadsPast, IdentityRight
<1> QED BY <1>1, <1>2, <1>3 DEF ProbesInv

LEMMA ProbesStep == ProbesInv /\ [ProbesNext]_probesVars => ProbesInv'
<1> SUFFICES ASSUME ProbesInv, [ProbesNext]_probesVars PROVE ProbesInv'
  OBVIOUS
<1>0. /\ clock \in 0 .. MaxClock /\ layers \in Layers /\ badge \in BOOLEAN
      /\ held \in [Options -> BOOLEAN]
      /\ turned \in [Options -> 0 .. MaxClock \cup {Undefined}]
      /\ vouched \in [Assets -> 0 .. MaxClock \cup {Undefined}]
      /\ trustCache \in [Assets -> Cached \cup {Undefined}]
      /\ req \in [Requests -> Request] /\ lookups \in [Options -> Steps]
      /\ identity \in [Assets -> {"native", "classic", "non_sac", Undefined}]
      /\ verdicts \in [Options -> Found \cup {Undefined}]
      /\ active \in Nat /\ queue \in Seq(Options) /\ denied \subseteq Assets
      /\ read \in [Options -> 0 .. MaxClock \cup {Undefined}] /\ clock >= clock
  BY ProbesBounds DEF ProbesInv, ProbesTypeOK
<1>1. CASE Tick
  <2>1. clock' \in 0 .. MaxClock /\ clock' >= clock
    BY <1>0, <1>1, ProbesBounds DEF Tick
  <2> QED BY <1>0, <1>1, <2>1, QuietKeeps DEF Tick, worldVars
<1>2. CASE BadgeChanges
  <2>1. \A r \in Requests : \A b \in BOOLEAN : [req[r] EXCEPT !.badged = b] \in Request
    BY <1>0 DEF Request
  <2>2. badge' \in BOOLEAN
    BY <1>0, <1>2 DEF BadgeChanges
  <2>3. \A r \in Requests : (req[r].badged \/ (badge' /\ req[r].pc = "trust")) \in BOOLEAN
    BY <1>0, <2>2 DEF Request
  <2>4. req' \in [Requests -> Request]
    BY <1>2, <2>1, <2>3 DEF BadgeChanges
  <2> QED BY <1>0, <1>2, <2>2, <2>4, QuietKeeps DEF BadgeChanges
<1>3. ASSUME NEW r \in Requests, Ask(r) PROVE ProbesInv'
  <2> DEFINE first(o) == IF "trust" \notin layers \/ o \notin Elements(r) THEN "unknown"
                         ELSE IF Fresh(trustCache[AssetOf(o)], TrustTtl)
                              THEN trustCache[AssetOf(o)].verdict ELSE "api"
             trust == [o \in Options |-> first(o)]
             new == [req[r] EXCEPT !.pc = "trust", !.from = clock, !.owner = badge,
                                   !.badged = badge, !.trust = trust]
  <2>1. \A o \in Options : first(o) \in Verification \cup {"api", "live"}
    <3> TAKE o \in Options
    <3>1. trustCache[AssetOf(o)] \in Cached \cup {Undefined}
      BY <1>0, ProbesBounds
    <3> QED BY <3>1 DEF Fresh, Cached, Verification
  <2>2. req' = [req EXCEPT ![r] = new]
    BY <1>3 DEF Ask
  <2> HIDE DEF first
  <2>3. trust \in [Options -> Verification \cup {"api", "live"}]
    BY <2>1
  <2> HIDE DEF trust
  <2>5. new \in Request
    <3>1. req[r] \in Request
      BY <1>0
    <3> QED BY <1>0, <2>3, <3>1 DEF Request
  <2> HIDE DEF new
  <2>4. req' \in [Requests -> Request]
    BY <1>0, <2>2, <2>5
  <2> QED BY <1>0, <1>3, <2>4, QuietKeeps DEF Ask, worldVars
<1>4. ASSUME NEW r \in Requests, Annotate(r) PROVE ProbesInv'
  <2>1. CASE "payability" \notin layers
    <3> DEFINE new == [req[r] EXCEPT !.pc = "done"]
    <3>1. req' = [req EXCEPT ![r] = new]
      BY <1>4, <2>1 DEF Annotate
    <3>2. new \in Request
      <4>1. req[r] \in Request
        BY <1>0
      <4> QED BY <4>1 DEF Request
    <3> HIDE DEF new
    <3>3. req' \in [Requests -> Request]
      BY <1>0, <3>1, <3>2
    <3> QED BY <1>0, <1>4, <2>1, <3>3, QuietKeeps DEF Annotate, worldVars
  <2>2. CASE "payability" \in layers
    <3> DEFINE after == FoldLeft(LookUp, Limiter, Page(r))
               pay == [o \in Options |-> IF o \notin Elements(r) THEN "unknown"
                                         ELSE IF Hit(o) THEN verdicts[o].verdict ELSE "wait"]
               took == [o \in Options |->
                          IF o \in Elements(r) /\ Hit(o) THEN verdicts[o].took ELSE 0]
    <3>1. /\ req' = [req EXCEPT ![r] =
                [@ EXCEPT !.pc = "pay", !.due = clock + BudgetMs, !.pay = pay,
                          !.took = took]]
          /\ active' = after.active /\ queue' = after.queue /\ lookups' = after.lookups
          /\ identity' = identity /\ verdicts' = verdicts
          /\ denied' = denied /\ read' = read
          /\ clock' = clock /\ layers' = layers /\ badge' = badge /\ held' = held
          /\ turned' = turned /\ vouched' = vouched /\ trustCache' = trustCache
      BY <1>4, <2>2 DEF Annotate, Limiter, worldVars
    <3>2. after \in Limiters /\ Exact(after) /\ Founded(after.lookups)
      BY PageKeeps DEF ProbesInv
    <3> HIDE DEF after
    <3>3. /\ active' \in Nat /\ queue' \in Seq(Options) /\ lookups' \in [Options -> Steps]
          /\ Founded(lookups)'
      BY <3>1, <3>2 DEF Limiters, Founded
    <3>4. LimiterExact'
      <4>1. Exact(Limiter)'
        BY <3>1, <3>2 DEF Exact, Limiter
      <4> QED BY <4>1, NextExactIsExact
    <3>5. pay \in [Options -> Payability \cup {"wait"}]
      <4>1. \A o \in Options : Hit(o) => verdicts[o].verdict \in Payability
        BY <1>0 DEF Hit, Fresh, Found
      <4> QED BY <4>1 DEF Payability
    <3>6. took \in [Options -> 0 .. MaxClock]
      <4>1. \A o \in Options : Hit(o) => verdicts[o].took \in 0 .. MaxClock
        BY <1>0 DEF Hit, Fresh, Found
      <4> QED BY <4>1, ProbesBounds
    <3> HIDE DEF pay, took
    <3>7. req' \in [Requests -> Request]
      <4>1. clock + BudgetMs \in 0 .. MaxClock + BudgetMs
        BY <1>0, ProbesBounds
      <4> DEFINE new == [req[r] EXCEPT !.pc = "pay", !.due = clock + BudgetMs, !.pay = pay,
                                !.took = took]
      <4>2. req' = [req EXCEPT ![r] = new]
        BY <3>1
      <4>3. new \in Request
        <5>1. req[r] \in Request
          BY <1>0
        <5> QED BY <3>5, <3>6, <4>1, <5>1 DEF Request
      <4> HIDE DEF new
      <4> QED BY <1>0, <4>2, <4>3
    <3>8. ReadsPast' /\ IdentityRight'
      BY <3>1 DEF ProbesInv, ReadsPast, IdentityRight
    <3> QED BY <1>0, <3>1, <3>3, <3>4, <3>7, <3>8 DEF ProbesInv, ProbesTypeOK
  <2> QED BY <2>1, <2>2
<1>5. ASSUME NEW r \in Requests, BudgetEnds(r) PROVE ProbesInv'
  <2> DEFINE pay == [o \in Options |-> IF req[r].pay[o] = "wait" THEN "unknown"
                                       ELSE req[r].pay[o]]
  <2>1. req[r] \in Request /\ req[r].pay \in [Options -> Payability \cup {"wait"}]
    BY <1>0 DEF Request
  <2>2. pay \in [Options -> Payability \cup {"wait"}]
    BY <2>1 DEF Payability
  <2>3. req' = [req EXCEPT ![r].pay = pay]
    BY <1>5 DEF BudgetEnds
  <2> HIDE DEF pay
  <2>4. req' \in [Requests -> Request]
    <3> DEFINE new == [req[r] EXCEPT !.pay = pay]
    <3>1. req' = [req EXCEPT ![r] = new]
      BY <2>3
    <3>2. new \in Request
      BY <2>1, <2>2 DEF Request
    <3> HIDE DEF new
    <3> QED BY <1>0, <3>1, <3>2
  <2> QED BY <1>0, <1>5, <2>4, QuietKeeps DEF BudgetEnds, worldVars
<1>6. ASSUME NEW r \in Requests, Respond(r) PROVE ProbesInv'
  <2> DEFINE new == [req[r] EXCEPT !.pc = "done"]
  <2>1. req' = [req EXCEPT ![r] = new]
    BY <1>6 DEF Respond
  <2>2. new \in Request
    <3>1. req[r] \in Request
      BY <1>0
    <3> QED BY <3>1 DEF Request
  <2> HIDE DEF new
  <2>3. req' \in [Requests -> Request]
    BY <1>0, <2>1, <2>2
  <2> QED BY <1>0, <1>6, <2>3, QuietKeeps DEF Respond, worldVars
<1>7. ASSUME NEW r \in Requests, NEW o \in Options, NEW v \in Verification, Verdict(r, o, v)
      PROVE  ProbesInv'
  <2> DEFINE new == [req[r] EXCEPT !.trust[o] = v]
  <2>1. req' \in [Requests -> Request]
    <3>1. req' = [req EXCEPT ![r] = new]
      BY <1>7 DEF Verdict
    <3>2. new \in Request
      <4>1. req[r] \in Request
        BY <1>0
      <4> QED BY <4>1 DEF Request
    <3> HIDE DEF new
    <3> QED BY <1>0, <3>1, <3>2
  <2>2. [verdict |-> v, at |-> clock] \in Cached
    BY <1>0 DEF Cached
  <2>3. trustCache' \in [Assets -> Cached \cup {Undefined}]
    BY <1>0, <1>7, <2>2 DEF Verdict
  <2>4. vouched' \in [Assets -> 0 .. MaxClock \cup {Undefined}]
    BY <1>0, <1>7 DEF Verdict
  <2> QED BY <1>0, <1>7, <2>1, <2>3, <2>4, QuietKeeps DEF Verdict
<1>8. ASSUME NEW r \in Requests, NEW o \in Options, ApiEnds(r, o) PROVE ProbesInv'
  <2>1. CASE \E v \in Verification : Verdict(r, o, v)
    BY <1>7, <2>1
  <2>2. CASE /\ req' = [req EXCEPT ![r].trust[o] = "live"]
             /\ UNCHANGED <<clock, layers, worldVars, trustCache, resolverVars>>
    <3> DEFINE new == [req[r] EXCEPT !.trust[o] = "live"]
    <3>1. req' = [req EXCEPT ![r] = new]
      BY <2>2
    <3>2. new \in Request
      <4>1. req[r] \in Request
        BY <1>0
      <4> QED BY <4>1 DEF Request
    <3> HIDE DEF new
    <3>3. req' \in [Requests -> Request]
      BY <1>0, <3>1, <3>2
    <3> QED BY <1>0, <2>2, <3>3, QuietKeeps DEF worldVars
  <2> QED BY <1>8, <2>1, <2>2 DEF ApiEnds
<1>9. ASSUME NEW r \in Requests, NEW o \in Options, LiveHashEnds(r, o) PROVE ProbesInv'
  BY <1>7, <1>9 DEF LiveHashEnds, Verification
<1>10. ASSUME NEW o \in Options, TrustlineChanges(o) PROVE ProbesInv'
  <2>1. /\ held' \in [Options -> BOOLEAN]
        /\ turned' \in [Options -> 0 .. MaxClock \cup {Undefined}]
    BY <1>0, <1>10 DEF TrustlineChanges
  <2> QED BY <1>0, <1>10, <2>1, QuietKeeps DEF TrustlineChanges
<1>11. ASSUME NEW o \in Options, Resume(o) PROVE ProbesInv'
  <2>1. /\ active' = active + 1 /\ lookups' = [lookups EXCEPT ![o] = FirstStep(o)]
        /\ lookups[o] = "woken" /\ queue' = queue /\ identity' = identity
        /\ verdicts' = verdicts /\ denied' = denied /\ read' = read
        /\ clock' = clock /\ layers' = layers /\ badge' = badge /\ held' = held
        /\ turned' = turned /\ vouched' = vouched /\ trustCache' = trustCache
        /\ req' = req
    BY <1>11 DEF Resume, worldVars
  <2>2. /\ FirstStep(o) \in Runs
        /\ IsContract(o) => /\ FirstStep(o) \notin {"horizon", "not_payable"}
                            /\ FirstStep(o) = "payable" => KindOf(AssetOf(o)) # "non_sac"
        /\ ~IsContract(o) => FirstStep(o) \notin Facts
    BY FirstStepRuns DEF ProbesInv
  <2>3. /\ lookups' \in [Options -> Steps]
        /\ InStep(lookups', Runs) = InStep(lookups, Runs) \cup {o}
        /\ o \notin InStep(lookups, Runs)
        /\ InStep(lookups', {"woken"}) = InStep(lookups, {"woken"}) \ {o}
        /\ o \in InStep(lookups, {"woken"})
        /\ InStep(lookups', {"queued"}) = InStep(lookups, {"queued"})
    BY <1>0, <2>1, <2>2 DEF InStep, Steps, Runs, Payability
  <2>4. /\ InStep(lookups, Runs) \in SUBSET Options
        /\ InStep(lookups, {"woken"}) \in SUBSET Options
    BY DEF InStep
  <2>5. /\ Cardinality(InStep(lookups', Runs)) = Cardinality(InStep(lookups, Runs)) + 1
        /\ Cardinality(InStep(lookups', {"woken"}))
             = Cardinality(InStep(lookups, {"woken"})) - 1
        /\ Cardinality(InStep(lookups, {"woken"})) \in Nat
    BY <2>3, <2>4, OneMore, OneLess, ProbesSizes
  <2>6. Exact(Limiter)
    BY ExactIsExact DEF ProbesInv
  <2>7. Exact(Limiter)'
    <3>1. active' = Cardinality(InStep(lookups', Runs))
      BY <2>1, <2>5, <2>6 DEF Exact, Limiter
    <3>2. IsInjective(queue') /\ ToSet(queue') = InStep(lookups', {"queued"})
      BY <2>1, <2>3, <2>6 DEF Exact, Limiter
    <3>3. queue' # <<>> => active' + Cardinality(InStep(lookups', {"woken"})) >= MaxConcurrent
      BY <1>0, <2>1, <2>5, <2>6, ProbesSizes DEF Exact, Limiter
    <3> QED BY <3>1, <3>2, <3>3 DEF Exact, Limiter
  <2>8. Founded(lookups)'
    BY <1>0, <2>1, <2>2 DEF ProbesInv, Founded, Payability
  <2>9. active' \in Nat /\ ReadsPast' /\ IdentityRight'
    BY <1>0, <2>1 DEF ProbesInv, ReadsPast, IdentityRight
  <2> QED BY <1>0, <2>1, <2>3, <2>7, <2>8, <2>9, NextExactIsExact
          DEF ProbesInv, ProbesTypeOK
<1>12. ASSUME NEW o \in Options, NEW step \in Runs, lookups[o] \in Runs,
              lookups' = [lookups EXCEPT ![o] = step],
              UNCHANGED <<clock, layers, worldVars, trustCache, verdicts, active, queue, req>>,
              read' \in [Options -> 0 .. MaxClock \cup {Undefined}],
              \A p \in Options \ {o} : read'[p] = read[p],
              read'[o] # Undefined => step \in Payability /\ read'[o] <= clock,
              ~IsContract(o) /\ step \in Facts => read'[o] # Undefined,
              IsContract(o) => /\ step \notin {"horizon", "not_payable"}
                               /\ step = "payable" => KindOf(AssetOf(o)) # "non_sac",
              identity' \in [Assets -> {"native", "classic", "non_sac", Undefined}],
              denied' \subseteq Assets, IdentityRight'
       PROVE  ProbesInv'
  <2>1. /\ lookups' \in [Options -> Steps] /\ Running' = Running /\ Woken' = Woken
        /\ {p \in Options : lookups'[p] = "queued"} = {p \in Options : lookups[p] = "queued"}
    BY <1>0, <1>12 DEF Steps, Running, Woken, Runs, Payability
  <2>2. LimiterExact'
    BY <1>12, <2>1 DEF ProbesInv, LimiterExact
  <2>3. lookups'[o] = step /\ \A p \in Options \ {o} : lookups'[p] = lookups[p]
    BY <1>0, <1>12
  <2>4. Founded(lookups)'
    BY <1>12, <2>3 DEF ProbesInv, Founded
  <2>5. ReadsPast'
    BY <1>12 DEF ProbesInv, ReadsPast
  <2> QED BY <1>0, <1>12, <2>1, <2>2, <2>4, <2>5 DEF ProbesInv, ProbesTypeOK, worldVars
<1>13. ASSUME NEW o \in Options, IdentityAnswers(o) PROVE ProbesInv'
  <2>1. PICK kind \in {KindOf(AssetOf(o)), "non_sac"} :
          /\ identity' = [identity EXCEPT ![AssetOf(o)] = kind]
          /\ denied' = IF kind = "non_sac" THEN denied \cup {AssetOf(o)} ELSE denied
          /\ lookups' = [lookups EXCEPT ![o] = AfterIdentity(o, kind)]
    BY <1>13 DEF IdentityAnswers
  <2>2. /\ lookups[o] = "identity" /\ read' = read
        /\ UNCHANGED <<clock, layers, worldVars, trustCache, verdicts, active, queue, req>>
    BY <1>13 DEF IdentityAnswers
  <2>3. /\ identity' \in [Assets -> {"native", "classic", "non_sac", Undefined}]
        /\ denied' \subseteq Assets /\ IdentityRight'
    BY <2>1, IdentityLearned, ProbesBounds
  <2>4. PICK step \in Runs : step = AfterIdentity(o, kind)
    BY AfterIdentityRuns
  <2>5. /\ IsContract(o) => /\ step \notin {"horizon", "not_payable"}
                            /\ step = "payable" => KindOf(AssetOf(o)) # "non_sac"
        /\ ~IsContract(o) => step \notin Facts
    BY <2>4, AfterIdentityRuns
  <2>6. read[o] = Undefined
    BY <2>2 DEF ProbesInv, Founded, Payability
  <2>7. lookups[o] \in Runs
    BY <2>2 DEF Runs
  <2> QED BY <1>0, <1>12, <2>1, <2>2, <2>3, <2>4, <2>5, <2>6, <2>7
<1>14. ASSUME NEW o \in Options, HorizonReads(o) PROVE ProbesInv'
  <2>1. PICK step \in Payability :
          /\ lookups[o] = "horizon" /\ lookups' = [lookups EXCEPT ![o] = step]
          /\ read' = [read EXCEPT ![o] = clock]
          /\ identity' = identity /\ denied' = denied
          /\ UNCHANGED <<clock, layers, worldVars, trustCache, verdicts, active, queue, req>>
    BY <1>14 DEF HorizonReads, Payability
  <2>2. ~IsContract(o) /\ step \in Runs /\ lookups[o] \in Runs
    BY <2>1 DEF ProbesInv, Founded, Runs, Payability
  <2>3. /\ read'[o] = clock /\ \A p \in Options \ {o} : read'[p] = read[p]
        /\ read' \in [Options -> 0 .. MaxClock \cup {Undefined}]
        /\ clock # Undefined
    BY <1>0, <2>1, UndefinedAssumption
  <2>4. IdentityRight'
    BY <2>1 DEF ProbesInv, IdentityRight
  <2> QED BY <1>0, <1>12, <2>1, <2>2, <2>3, <2>4
<1>15. ASSUME NEW o \in Options, Resolves(o) \/ CallFails(o) PROVE ProbesInv'
  <2>1. lookups[o] \in Runs /\ \E v \in Payability : EndLookup(o, v)
    BY <1>15 DEF Resolves, CallFails, ProbesInv, Founded, Runs, Payability
  <2> QED BY <2>1, EndLookupKeeps
<1>16. CASE UNCHANGED probesVars
  BY <1>0, <1>16, QuietKeeps DEF probesVars, worldVars
<1> QED BY <1>1, <1>2, <1>3, <1>4, <1>5, <1>6, <1>8, <1>9, <1>10, <1>11, <1>13, <1>14,
          <1>15, <1>16 DEF ProbesNext

LEMMA ProbesAlways == ProbesSpec => []ProbesInv
BY ProbesInitInv, ProbesStep, PTL DEF ProbesSpec

\* The caches, the map of lookups in flight, the limiter and the answers of each request
\* keep their types, however requests share and outlive each other's lookups.
THEOREM ProbesTypeCorrect == ProbesSpec => []ProbesTypeOK
BY ProbesAlways, PTL DEF ProbesInv

\* The limiter of payability.ts: active counts the lookups that run, the queue has those
\* that wait, each once, and nobody waits while a slot is free that nobody was woken for.
THEOREM LimiterCorrect == ProbesSpec => []LimiterExact
BY ProbesAlways, PTL DEF ProbesInv

-----------------------------------------------------------------------------
(* DiscoveryProbes. What the payability layer says.                        *)

TurnsOnce ==
  \A o \in Options :
    IF turned[o] = Undefined THEN held[o] ELSE ~held[o] /\ turned[o] <= clock

\* The trustline was as b says at t or later.
WasSince(o, b, t) == LastHeld(o, b) # Undefined /\ LastHeld(o, b) >= t

\* A lookup that has Horizon's answer says what was so when Horizon read the account.
ReadsSound ==
  \A o \in Options : ~IsContract(o) /\ lookups[o] \in Facts =>
    SoSince(o, lookups[o], read[o])

VerdictsSound ==
  \A o \in Options :
    verdicts[o] # Undefined =>
      /\ verdicts[o].at <= clock
      /\ verdicts[o].verdict \in Facts =>
           SoSince(o, verdicts[o].verdict, verdicts[o].at - verdicts[o].took)

\* The earliest time that an answer may tell of.
Earliest(r, o) == req[r].due - BudgetMs - Ttl - req[r].took[o] + 1

\* The page of a request was annotated BudgetMs before it is due, or not yet.
AnswerSound(r) ==
  /\ req[r].pc \in {"idle", "trust"} => \A o \in Options : req[r].pay[o] = "unknown"
  /\ req[r].due - BudgetMs <= clock
  /\ \A o \in Options : req[r].pay[o] \in Facts => SoSince(o, req[r].pay[o], Earliest(r, o))

AnswersSound == \A r \in Requests : AnswerSound(r)

PayInv == TurnsOnce /\ ReadsSound /\ VerdictsSound /\ AnswersSound

LEMMA ToldOf ==
  ASSUME NEW v
  PROVE  \E b \in BOOLEAN : b = (v = "payable")
<1>1. (v = "payable") \in BOOLEAN
  OBVIOUS
<1> QED BY <1>1, Zenon

\* What was so since a time was so since an earlier one.
LEMMA SoEarlier ==
  ASSUME ProbesInv, NEW o \in Options, NEW v, NEW t \in Int, NEW u \in Int, u <= t,
         SoSince(o, v, t)
  PROVE  SoSince(o, v, u)
<1>1. CASE IsContract(o)
  BY <1>1 DEF SoSince
<1>2. CASE ~IsContract(o)
  <2>1. PICK b \in BOOLEAN : b = (v = "payable")
    BY ToldOf
  <2>2. LastHeld(o, b) # Undefined /\ LastHeld(o, b) >= t
    BY <1>2, <2>1 DEF SoSince
  <2>3. LastHeld(o, b) \in Nat
    BY <2>2, ProbesBounds DEF LastHeld, ProbesInv, ProbesTypeOK
  <2>4. LastHeld(o, b) >= u
    BY <2>2, <2>3
  <2> QED BY <1>2, <2>1, <2>2, <2>4 DEF SoSince
<1> QED BY <1>1, <1>2

\* The world only adds to what was so, and time only passes.
LEMMA WorldMoves ==
  ASSUME ProbesInv, TurnsOnce, [ProbesNext]_probesVars
  PROVE  /\ TurnsOnce' /\ clock' >= clock
         /\ \A o \in Options, v \in Facts, t \in Int : SoSince(o, v, t) => SoSince(o, v, t)'
<1>0. /\ clock \in 0 .. MaxClock /\ held \in [Options -> BOOLEAN] /\ MaxClock \in Nat
      /\ turned \in [Options -> 0 .. MaxClock \cup {Undefined}]
      /\ Undefined \notin 0 .. MaxClock
  BY ProbesBounds, UndefinedAssumption DEF ProbesInv, ProbesTypeOK
<1>1. ASSUME held' = held, turned' = turned, clock' \in {clock, clock + 1},
             clock' \in 0 .. MaxClock
      PROVE  /\ TurnsOnce' /\ clock' >= clock
             /\ \A o \in Options, b \in BOOLEAN, t \in Int :
                  WasSince(o, b, t) => WasSince(o, b, t)'
  <2>1. clock' >= clock /\ clock' \in 0 .. MaxClock
    BY <1>0, <1>1
  <2>2. TurnsOnce'
    <3> SUFFICES ASSUME NEW o \in Options
                 PROVE  IF turned[o] = Undefined THEN held[o]
                        ELSE ~held[o] /\ turned[o] <= clock'
      BY <1>1 DEF TurnsOnce
    <3> QED BY <1>0, <2>1 DEF TurnsOnce
  <2>3. ASSUME NEW o \in Options, NEW b \in BOOLEAN, NEW t \in Int, WasSince(o, b, t)
        PROVE  WasSince(o, b, t)'
    <3>1. CASE held[o] = b
      BY <1>0, <1>1, <2>1, <2>3, <3>1 DEF WasSince, LastHeld
    <3>2. CASE held[o] # b
      BY <1>0, <1>1, <2>3, <3>2 DEF WasSince, LastHeld
    <3> QED BY <3>1, <3>2
  <2> QED BY <2>1, <2>2, <2>3
<1>2. ASSUME NEW p \in Options, TrustlineChanges(p) PROVE
        /\ TurnsOnce' /\ clock' >= clock
        /\ \A o \in Options, b \in BOOLEAN, t \in Int : WasSince(o, b, t) => WasSince(o, b, t)'
  <2>1. /\ clock' = clock /\ turned[p] = Undefined
        /\ held' = [held EXCEPT ![p] = ~@] /\ turned' = [turned EXCEPT ![p] = clock]
    BY <1>2 DEF TrustlineChanges
  <2>2. held[p] = TRUE /\ held'[p] = FALSE /\ turned'[p] = clock
    BY <1>0, <2>1 DEF TurnsOnce
  <2>3. TurnsOnce'
    BY <1>0, <2>1, <2>2 DEF TurnsOnce
  <2>4. ASSUME NEW o \in Options, NEW b \in BOOLEAN, NEW t \in Int, WasSince(o, b, t)
        PROVE  WasSince(o, b, t)'
    <3>1. CASE o # p
      BY <1>0, <2>1, <2>4, <3>1 DEF WasSince, LastHeld
    <3>2. CASE o = p
      <4>1. b = TRUE /\ LastHeld(o, b) = clock
        BY <2>2, <2>4, <3>2 DEF WasSince, LastHeld
      <4>2. LastHeld(o, b)' = clock
        BY <2>2, <3>2, <4>1 DEF LastHeld
      <4> QED BY <2>4, <4>1, <4>2 DEF WasSince
    <3> QED BY <3>1, <3>2
  <2> QED BY <1>0, <2>1, <2>3, <2>4
<1>3. \/ /\ held' = held /\ turned' = turned /\ clock' \in {clock, clock + 1}
         /\ clock' \in 0 .. MaxClock
      \/ \E p \in Options : TrustlineChanges(p)
  <2>1. CASE Tick
    BY <1>0, <2>1 DEF Tick, worldVars
  <2>2. CASE BadgeChanges
    BY <1>0, <2>2 DEF BadgeChanges
  <2>3. CASE \E r \in Requests : Ask(r) \/ Annotate(r) \/ BudgetEnds(r) \/ Respond(r)
    BY <1>0, <2>3 DEF Ask, Annotate, BudgetEnds, Respond, worldVars
  <2>4. CASE \E r \in Requests, o \in Options : ApiEnds(r, o) \/ LiveHashEnds(r, o)
    BY <1>0, <2>4 DEF ApiEnds, LiveHashEnds, Verdict, worldVars
  <2>5. CASE \E o \in Options : \/ Resume(o) \/ IdentityAnswers(o) \/ HorizonReads(o)
                                \/ Resolves(o) \/ CallFails(o)
    BY <1>0, <2>5 DEF Resume, IdentityAnswers, HorizonReads, Resolves, CallFails, EndLookup,
       worldVars
  <2>6. CASE UNCHANGED probesVars
    BY <1>0, <2>6 DEF probesVars, worldVars
  <2> QED BY <2>1, <2>2, <2>3, <2>4, <2>5, <2>6 DEF ProbesNext
<1>4. /\ TurnsOnce' /\ clock' >= clock
      /\ \A o \in Options, b \in BOOLEAN, t \in Int : WasSince(o, b, t) => WasSince(o, b, t)'
  BY <1>1, <1>2, <1>3
<1>5. ASSUME NEW o \in Options, NEW v \in Facts, NEW t \in Int, SoSince(o, v, t)
      PROVE  SoSince(o, v, t)'
  <2>1. CASE IsContract(o)
    BY <1>5, <2>1 DEF SoSince
  <2>2. CASE ~IsContract(o)
    <3>1. PICK b \in BOOLEAN : b = (v = "payable")
      BY ToldOf
    <3>2. WasSince(o, b, t)
      BY <1>5, <2>2, <3>1 DEF SoSince, WasSince
    <3>3. WasSince(o, b, t)'
      BY <1>4, <3>2
    <3> QED BY <2>2, <3>1, <3>3 DEF SoSince, WasSince, LastHeld
  <2> QED BY <2>1, <2>2
<1> QED BY <1>4, <1>5

\* The request is not answered otherwise than before.
AsBefore(r) ==
  /\ req'[r].pay = req[r].pay /\ req'[r].due = req[r].due /\ req'[r].took = req[r].took
  /\ req'[r].pc \in {"idle", "trust"} => req[r].pc \in {"idle", "trust"}

\* A lookup ends with the verdict it had, or with none.
LEMMA LookupsTell ==
  ASSUME ProbesInv, NEW o \in Options,
         IdentityAnswers(o) \/ HorizonReads(o) \/ Resolves(o) \/ CallFails(o)
  PROVE  \/ verdicts' = verdicts /\ req' = req
         \/ \E v \in Payability : (v = "unknown" \/ v = lookups[o]) /\ EndLookup(o, v)
<1>1. CASE IdentityAnswers(o) \/ HorizonReads(o)
  BY <1>1 DEF IdentityAnswers, HorizonReads
<1>2. CASE Resolves(o)
  BY <1>2 DEF Resolves
<1>3. CASE CallFails(o)
  BY <1>3 DEF CallFails, Payability
<1> QED BY <1>1, <1>2, <1>3

LEMMA EarliestInt ==
  ASSUME ProbesInv, NEW r \in Requests
  PROVE  req[r].due \in Nat /\ \A o \in Options : Earliest(r, o) \in Int
<1>1. /\ req[r] \in Request /\ Ttl \in Nat /\ BudgetMs \in Nat /\ MaxClock \in Nat
  BY ProbesBounds DEF ProbesInv, ProbesTypeOK
<1>2. req[r].due \in Nat /\ \A o \in Options : req[r].took[o] \in Nat
  BY <1>1 DEF Request
<1> QED BY <1>1, <1>2 DEF Earliest

LEMMA AsBeforeSound ==
  ASSUME ProbesInv, PayInv, [ProbesNext]_probesVars, NEW r \in Requests, AsBefore(r)
  PROVE  AnswerSound(r)'
<1>0. /\ clock \in Nat /\ clock' \in Nat /\ clock' >= clock /\ BudgetMs \in Nat
      /\ \A o \in Options, v \in Facts, t \in Int : SoSince(o, v, t) => SoSince(o, v, t)'
  BY ProbesStep, WorldMoves, ProbesBounds DEF PayInv, ProbesInv, ProbesTypeOK
<1>1. AnswerSound(r)
  BY DEF PayInv, AnswersSound
<1>2. /\ req'[r].pay = req[r].pay /\ req'[r].due = req[r].due /\ req'[r].took = req[r].took
      /\ req'[r].pc \in {"idle", "trust"} => req[r].pc \in {"idle", "trust"}
  BY DEF AsBefore
<1>3. req[r].due \in Nat /\ \A o \in Options : Earliest(r, o) \in Int
  BY EarliestInt
<1>4. req'[r].due - BudgetMs <= clock'
  BY <1>0, <1>1, <1>2, <1>3 DEF AnswerSound
<1>5. ASSUME NEW o \in Options, req'[r].pay[o] \in Facts
      PROVE  SoSince(o, req[r].pay[o], Earliest(r, o))'
  <2>1. PICK v \in Facts : v = req[r].pay[o] /\ v = req'[r].pay[o]
    BY <1>2, <1>5
  <2>2. PICK t \in Int : t = Earliest(r, o)
    BY <1>3
  <2>3. SoSince(o, v, t)
    BY <1>1, <2>1, <2>2 DEF AnswerSound
  <2>4. SoSince(o, v, t)'
    BY <1>0, <2>3
  <2>5. t = Earliest(r, o)'
    BY <1>2, <2>2 DEF Earliest
  <2> QED BY <2>1, <2>4, <2>5 DEF SoSince, LastHeld
<1> QED BY <1>1, <1>2, <1>4, <1>5 DEF AnswerSound

\* A lookup's own verdict tells of no earlier than when Horizon read.
LEMMA VerdictTold ==
  ASSUME ProbesInv, PayInv, NEW o \in Options, NEW v \in Facts, v = lookups[o]
  PROVE  SoSince(o, v, clock - Took(o))
<1>1. CASE IsContract(o)
  BY <1>1 DEF ProbesInv, Founded, SoSince, Facts
<1>2. CASE ~IsContract(o)
  <2>1. read[o] # Undefined /\ SoSince(o, v, read[o])
    BY <1>2 DEF ProbesInv, Founded, PayInv, ReadsSound
  <2> QED BY <2>1, TookBounds
<1> QED BY <1>1, <1>2

LEMMA EndLookupSound ==
  ASSUME ProbesInv, PayInv, [ProbesNext]_probesVars, NEW o \in Options,
         NEW v \in Payability, v = "unknown" \/ v = lookups[o], EndLookup(o, v)
  PROVE  VerdictsSound' /\ AnswersSound'
<1>0. /\ clock \in 0 .. MaxClock /\ clock \in Nat /\ MaxClock \in Nat
      /\ Ttl \in Nat \ {0} /\ BudgetMs \in Nat \ {0}
      /\ verdicts \in [Options -> Found \cup {Undefined}]
      /\ req \in [Requests -> Request]
      /\ \A p \in Options, w \in Facts, t \in Int : SoSince(p, w, t) => SoSince(p, w, t)'
  BY WorldMoves, ProbesBounds DEF PayInv, ProbesInv, ProbesTypeOK
<1>1. /\ clock' = clock /\ held' = held /\ turned' = turned
      /\ verdicts' = [verdicts EXCEPT ![o] = [verdict |-> v, at |-> clock, took |-> Took(o)]]
      /\ req' = [r \in Requests |->
                   IF req[r].pay[o] = "wait"
                   THEN [req[r] EXCEPT !.pay[o] = v, !.took[o] = Took(o)] ELSE req[r]]
  BY DEF EndLookup, worldVars
<1>2. Took(o) \in Nat
  BY <1>0, TookBounds
<1>3. ASSUME NEW t \in Int, t <= clock - Took(o), v \in Facts PROVE SoSince(o, v, t)'
  <2>1. SoSince(o, v, clock - Took(o)) /\ clock - Took(o) \in Int
    BY <1>0, <1>2, <1>3, VerdictTold DEF Facts
  <2>2. SoSince(o, v, t)
    BY <1>3, <2>1, SoEarlier
  <2> QED BY <1>0, <1>3, <2>2
<1>4. VerdictsSound'
  <2> SUFFICES ASSUME NEW p \in Options, verdicts'[p] # Undefined
               PROVE  /\ verdicts'[p].at <= clock'
                      /\ verdicts'[p].verdict \in Facts =>
                           SoSince(p, verdicts[p].verdict, verdicts[p].at - verdicts[p].took)'
    BY DEF VerdictsSound
  <2>1. CASE p = o
    <3>1. /\ verdicts'[p].verdict = v /\ verdicts'[p].at = clock
          /\ verdicts'[p].took = Took(o)
      BY <1>0, <1>1, <2>1
    <3>2. ASSUME v \in Facts
          PROVE  SoSince(p, verdicts[p].verdict, verdicts[p].at - verdicts[p].took)'
      <4>1. PICK t \in Int : t = clock - Took(o)
        BY <1>0, <1>2
      <4>2. SoSince(o, v, t)'
        BY <1>3, <3>2, <4>1
      <4>3. t = (verdicts[p].at - verdicts[p].took)'
        BY <3>1, <4>1
      <4> QED BY <2>1, <3>1, <4>2, <4>3 DEF SoSince, LastHeld
    <3>3. verdicts'[p].at <= clock'
      <4>1. clock <= clock
        BY <1>0
      <4>2. verdicts'[p].at = clock /\ clock' = clock
        BY <1>1, <3>1
      <4> QED BY <4>1, <4>2
    <3>4. v = verdicts'[p].verdict
      BY <3>1
    <3> QED BY <3>2, <3>3, <3>4, Zenon
  <2>2. CASE p # o
    <3>1. verdicts'[p] = verdicts[p] /\ verdicts[p] \in Found
      BY <1>0, <1>1, <2>2
    <3>2. verdicts[p].at \in Nat /\ verdicts[p].took \in Nat /\ verdicts[p].at <= clock
      BY <1>0, <3>1, UndefinedAssumption DEF Found, PayInv, VerdictsSound
    <3>3. ASSUME verdicts[p].verdict \in Facts
          PROVE  SoSince(p, verdicts[p].verdict, verdicts[p].at - verdicts[p].took)'
      <4>1. PICK t \in Int : t = verdicts[p].at - verdicts[p].took
        BY <3>2
      <4>2. PICK w \in Facts : w = verdicts[p].verdict
        BY <3>3
      <4>3. SoSince(p, w, t)
        BY <3>1, <4>1, <4>2 DEF PayInv, VerdictsSound
      <4>4. SoSince(p, w, t)'
        BY <1>0, <4>3
      <4> QED BY <3>1, <4>1, <4>2, <4>4 DEF SoSince, LastHeld
    <3> QED BY <1>1, <3>1, <3>2, <3>3
  <2> QED BY <2>1, <2>2
<1>5. ASSUME NEW r \in Requests PROVE AnswerSound(r)'
  <2>0. req[r] \in Request /\ AnswerSound(r) /\ req[r].due \in Int
    BY <1>0, EarliestInt DEF PayInv, AnswersSound
  <2>1. CASE req[r].pay[o] # "wait"
    <3>1. req'[r] = req[r]
      BY <1>1, <2>1
    <3> QED BY <3>1, AsBeforeSound DEF AsBefore
  <2>2. CASE req[r].pay[o] = "wait"
    <3>1. /\ req'[r].pay = [req[r].pay EXCEPT ![o] = v]
          /\ req'[r].took = [req[r].took EXCEPT ![o] = Took(o)]
          /\ req'[r].pc = req[r].pc /\ req'[r].due = req[r].due
          /\ req[r].pay \in [Options -> Payability \cup {"wait"}]
          /\ req[r].took \in [Options -> 0 .. MaxClock]
      BY <1>1, <2>0, <2>2 DEF Request
    <3>2. req[r].pc \notin {"idle", "trust"} /\ req[r].due - BudgetMs <= clock
      BY <2>0, <2>2 DEF AnswerSound
    <3>3. ASSUME NEW p \in Options, req'[r].pay[p] \in Facts
          PROVE  SoSince(p, req[r].pay[p], Earliest(r, p))'
      <4>1. CASE p = o
        <5>1. req'[r].pay[p] = v /\ req'[r].took[p] = Took(o) /\ v \in Facts
          BY <3>1, <3>3, <4>1
        <5>2. PICK t \in Int : t = req[r].due - BudgetMs - Ttl - Took(o) + 1
          BY <1>0, <1>2, <2>0
        <5>3. t <= clock - Took(o)
          BY <1>0, <1>2, <2>0, <3>2, <5>2
        <5>4. SoSince(o, v, t)'
          BY <1>3, <5>1, <5>3
        <5>5. t = Earliest(r, p)'
          BY <3>1, <5>1, <5>2 DEF Earliest
        <5> QED BY <4>1, <5>1, <5>4, <5>5 DEF SoSince, LastHeld
      <4>2. CASE p # o
        <5>1. PICK w \in Facts : w = req'[r].pay[p] /\ w = req[r].pay[p]
          BY <3>1, <3>3, <4>2
        <5>2. PICK t \in Int : t = Earliest(r, p)
          BY EarliestInt
        <5>3. SoSince(p, w, t)
          BY <2>0, <5>1, <5>2 DEF AnswerSound
        <5>4. SoSince(p, w, t)'
          BY <1>0, <5>3
        <5>5. t = Earliest(r, p)'
          BY <3>1, <4>2, <5>2 DEF Earliest
        <5> QED BY <5>1, <5>4, <5>5 DEF SoSince, LastHeld
      <4> QED BY <4>1, <4>2
    <3> QED BY <1>1, <3>1, <3>2, <3>3 DEF AnswerSound
  <2> QED BY <2>1, <2>2
<1> QED BY <1>4, <1>5 DEF AnswersSound

\* A page's first answers: cached ones within their TTL, and unknown.
LEMMA AnnotateSound ==
  ASSUME ProbesInv, PayInv, [ProbesNext]_probesVars, NEW r \in Requests, Annotate(r)
  PROVE  AnswersSound' /\ verdicts' = verdicts
<1>0. /\ clock \in 0 .. MaxClock /\ clock \in Nat /\ MaxClock \in Nat
      /\ Ttl \in Nat \ {0} /\ BudgetMs \in Nat \ {0}
      /\ verdicts \in [Options -> Found \cup {Undefined}]
      /\ req \in [Requests -> Request]
      /\ \A p \in Options, v \in Facts, t \in Int : SoSince(p, v, t) => SoSince(p, v, t)'
  BY WorldMoves, ProbesBounds DEF PayInv, ProbesInv, ProbesTypeOK
<1>1. clock' = clock /\ held' = held /\ turned' = turned /\ req[r].pc = "trust"
  BY DEF Annotate, Asked, worldVars
<1>2. CASE "payability" \notin layers
  <2>1. verdicts' = verdicts /\ req' = [req EXCEPT ![r].pc = "done"]
    BY <1>2 DEF Annotate, resolverVars
  <2>2. \A q \in Requests : AsBefore(q)
    BY <1>0, <1>1, <2>1 DEF AsBefore, Request
  <2> QED BY <2>1, <2>2, AsBeforeSound DEF AnswersSound
<1>3. CASE "payability" \in layers
  <2> DEFINE pay == [o \in Options |-> IF o \notin Elements(r) THEN "unknown"
                                       ELSE IF Hit(o) THEN verdicts[o].verdict ELSE "wait"]
             took == [o \in Options |-> IF o \in Elements(r) /\ Hit(o)
                                        THEN verdicts[o].took ELSE 0]
             new == [req[r] EXCEPT !.pc = "pay", !.due = clock + BudgetMs, !.pay = pay,
                                   !.took = took]
  <2>1. verdicts' = verdicts /\ req' = [req EXCEPT ![r] = new]
    BY <1>3 DEF Annotate
  <2>2. /\ new.pc = "pay" /\ new.due = clock + BudgetMs /\ new.pay = pay
        /\ new.took = took
    <3>1. req[r] \in Request
      BY <1>0
    <3> HIDE DEF pay, took
    <3> QED BY <3>1 DEF Request
  <2> HIDE DEF new
  <2>3. /\ req'[r].pc = "pay" /\ req'[r].due = clock + BudgetMs /\ req'[r].pay = pay
        /\ req'[r].took = took
        /\ \A q \in Requests \ {r} : req'[q] = req[q]
    BY <1>0, <2>1, <2>2
  <2>4. ASSUME NEW o \in Options, req'[r].pay[o] \in Facts
        PROVE  SoSince(o, req[r].pay[o], Earliest(r, o))'
    <3>1. /\ Hit(o) /\ req'[r].pay[o] = verdicts[o].verdict
          /\ req'[r].took[o] = verdicts[o].took
      BY <2>3, <2>4 DEF Facts
    <3>2. /\ verdicts[o] # Undefined /\ verdicts[o] \in Found
          /\ clock - verdicts[o].at < Ttl
      BY <1>0, <2>4, <3>1 DEF Hit, Fresh, TtlOf, Facts
    <3>3. verdicts[o].at \in Nat /\ verdicts[o].took \in Nat
      BY <1>0, <3>2 DEF Found
    <3>4. PICK v \in Facts : v = verdicts[o].verdict
      BY <2>4, <3>1
    <3>5. PICK t \in Int : t = verdicts[o].at - verdicts[o].took
      BY <3>3
    <3>6. PICK u \in Int : u = clock - Ttl - verdicts[o].took + 1
      BY <1>0, <3>3
    <3>7. SoSince(o, v, t)
      BY <3>2, <3>4, <3>5 DEF PayInv, VerdictsSound
    <3>8. u <= t
      BY <1>0, <3>2, <3>3, <3>5, <3>6
    <3>9. SoSince(o, v, u)
      BY <3>7, <3>8, SoEarlier
    <3>10. SoSince(o, v, u)'
      BY <1>0, <3>9
    <3>11. u = Earliest(r, o)'
      BY <1>0, <2>3, <3>1, <3>3, <3>6 DEF Earliest
    <3> QED BY <3>1, <3>4, <3>10, <3>11 DEF SoSince, LastHeld
  <2>5. req'[r].due - BudgetMs <= clock'
    BY <1>0, <1>1, <2>3
  <2>6. AnswerSound(r)'
    BY <2>3, <2>4, <2>5 DEF AnswerSound
  <2>7. \A q \in Requests \ {r} : AnswerSound(q)'
    BY <2>3, AsBeforeSound DEF AsBefore
  <2> QED BY <2>1, <2>6, <2>7 DEF AnswersSound
<1> QED BY <1>2, <1>3

LEMMA BudgetEndsSound ==
  ASSUME ProbesInv, PayInv, [ProbesNext]_probesVars, NEW r \in Requests, BudgetEnds(r)
  PROVE  AnswersSound' /\ verdicts' = verdicts
<1>0. req \in [Requests -> Request]
  BY DEF ProbesInv, ProbesTypeOK
<1> DEFINE pay == [o \in Options |-> IF req[r].pay[o] = "wait" THEN "unknown"
                                     ELSE req[r].pay[o]]
<1>1. /\ req' = [req EXCEPT ![r].pay = pay] /\ verdicts' = verdicts /\ req[r].pc = "pay"
      /\ clock' = clock /\ held' = held /\ turned' = turned
  BY DEF BudgetEnds, resolverVars, worldVars
<1>2. \A q \in Requests \ {r} : AnswerSound(q)'
  BY <1>0, <1>1, AsBeforeSound DEF AsBefore
<1> HIDE DEF pay
<1>3. /\ req'[r].pay = pay /\ req'[r].pc = "pay" /\ req'[r].due = req[r].due
      /\ req'[r].took = req[r].took
  BY <1>0, <1>1 DEF Request
<1>4. AnswerSound(r)
  BY DEF PayInv, AnswersSound
<1>5. \A o \in Options : req'[r].pay[o] \in Facts => req'[r].pay[o] = req[r].pay[o]
  BY <1>3 DEF pay, Facts
<1>6. \A o \in Options : req'[r].pay[o] \in Facts =>
        SoSince(o, req[r].pay[o], Earliest(r, o))'
  BY <1>1, <1>3, <1>4, <1>5 DEF AnswerSound, SoSince, LastHeld, Earliest
<1>7. AnswerSound(r)'
  BY <1>1, <1>3, <1>4, <1>6 DEF AnswerSound
<1> QED BY <1>1, <1>2, <1>7 DEF AnswersSound

LEMMA VerdictsStay ==
  ASSUME ProbesInv, PayInv, [ProbesNext]_probesVars, verdicts' = verdicts
  PROVE  VerdictsSound'
<1>0. /\ clock \in Nat /\ clock' \in Nat /\ clock' >= clock /\ MaxClock \in Nat
      /\ verdicts \in [Options -> Found \cup {Undefined}]
      /\ \A p \in Options, v \in Facts, t \in Int : SoSince(p, v, t) => SoSince(p, v, t)'
  BY ProbesStep, WorldMoves, ProbesBounds DEF PayInv, ProbesInv, ProbesTypeOK
<1> SUFFICES ASSUME NEW o \in Options, verdicts[o] # Undefined
             PROVE  /\ verdicts[o].at <= clock'
                    /\ verdicts[o].verdict \in Facts =>
                         SoSince(o, verdicts[o].verdict, verdicts[o].at - verdicts[o].took)'
  BY DEF VerdictsSound
<1>1. verdicts[o].at \in Nat /\ verdicts[o].took \in Nat /\ verdicts[o].at <= clock
  BY <1>0 DEF Found, PayInv, VerdictsSound
<1>2. ASSUME verdicts[o].verdict \in Facts
      PROVE  SoSince(o, verdicts[o].verdict, verdicts[o].at - verdicts[o].took)'
  <2>1. PICK v \in Facts : v = verdicts[o].verdict
    BY <1>2
  <2>2. PICK t \in Int : t = verdicts[o].at - verdicts[o].took
    BY <1>1
  <2>3. SoSince(o, v, t)
    BY <2>1, <2>2 DEF PayInv, VerdictsSound
  <2>4. SoSince(o, v, t)'
    BY <1>0, <2>3
  <2> QED BY <2>1, <2>2, <2>4 DEF SoSince, LastHeld
<1> QED BY <1>0, <1>1, <1>2

\* What a lookup of an account knows is what it knew.
KnewBefore(o) ==
  ~IsContract(o) /\ lookups'[o] \in Facts => lookups'[o] = lookups[o] /\ read'[o] = read[o]

LEMMA ReadsStay ==
  ASSUME ProbesInv, PayInv, [ProbesNext]_probesVars, NEW o \in Options, KnewBefore(o),
         ~IsContract(o), lookups'[o] \in Facts
  PROVE  SoSince(o, lookups[o], read[o])'
<1>0. \A v \in Facts, t \in Int : SoSince(o, v, t) => SoSince(o, v, t)'
  BY WorldMoves DEF PayInv
<1>1. PICK v \in Facts : v = lookups'[o] /\ v = lookups[o]
  BY DEF KnewBefore
<1>2. PICK t \in Int : t = read'[o] /\ t = read[o]
  BY <1>1, TookBounds DEF KnewBefore, ProbesInv, Founded
<1>3. SoSince(o, v, t)
  BY <1>1, <1>2 DEF PayInv, ReadsSound
<1>4. SoSince(o, v, t)'
  BY <1>0, <1>3
<1> QED BY <1>1, <1>2, <1>4 DEF SoSince, LastHeld

LEMMA HorizonReadsSound ==
  ASSUME ProbesInv, PayInv, NEW o \in Options, HorizonReads(o), ~IsContract(o),
         lookups'[o] \in Facts
  PROVE  SoSince(o, lookups[o], read[o])'
<1>0. /\ held \in [Options -> BOOLEAN] /\ clock \in 0 .. MaxClock /\ clock >= clock
      /\ lookups \in [Options -> Steps]
      /\ read \in [Options -> 0 .. MaxClock \cup {Undefined}] /\ clock # Undefined
  BY UndefinedAssumption DEF ProbesInv, ProbesTypeOK
<1>1. /\ clock' = clock /\ held' = held /\ turned' = turned /\ read'[o] = clock
      /\ lookups'[o] = IF held[o] THEN "payable"
                       ELSE IF KindOf(AssetOf(o)) = "native" THEN "unknown" ELSE "not_payable"
  BY <1>0 DEF HorizonReads, worldVars
<1>2. PICK b \in BOOLEAN : b = (lookups'[o] = "payable")
  BY ToldOf
<1>3. held[o] = b
  BY <1>0, <1>1, <1>2 DEF Facts
<1>4. LastHeld(o, b)' = clock
  BY <1>1, <1>3 DEF LastHeld
<1> QED BY <1>0, <1>1, <1>2, <1>4 DEF SoSince, LastHeld

LEMMA ReadsStep == ProbesInv /\ PayInv /\ [ProbesNext]_probesVars => ReadsSound'
<1> SUFFICES ASSUME ProbesInv, PayInv, [ProbesNext]_probesVars, NEW o \in Options,
                    ~IsContract(o), lookups'[o] \in Facts
             PROVE  SoSince(o, lookups[o], read[o])'
  BY DEF ReadsSound
<1>0. /\ lookups \in [Options -> Steps]
      /\ read \in [Options -> 0 .. MaxClock \cup {Undefined}]
  BY DEF ProbesInv, ProbesTypeOK
<1>1. CASE UNCHANGED resolverVars
  BY <1>1, ReadsStay DEF KnewBefore, resolverVars
<1>2. ASSUME NEW p \in Options, Resume(p) PROVE KnewBefore(o)
  <2>1. lookups' = [lookups EXCEPT ![p] = FirstStep(p)] /\ read' = read
    BY <1>2 DEF Resume
  <2> QED BY <1>0, <2>1, FirstStepRuns DEF KnewBefore, ProbesInv
<1>3. ASSUME NEW p \in Options, IdentityAnswers(p) PROVE KnewBefore(o)
  <2>1. PICK kind \in {KindOf(AssetOf(p)), "non_sac"} :
          /\ lookups' = [lookups EXCEPT ![p] = AfterIdentity(p, kind)] /\ read' = read
    BY <1>3 DEF IdentityAnswers
  <2> QED BY <1>0, <2>1, AfterIdentityRuns DEF KnewBefore
<1>4. ASSUME NEW p \in Options, HorizonReads(p) PROVE SoSince(o, lookups[o], read[o])'
  <2>1. CASE p = o
    BY <1>4, <2>1, HorizonReadsSound
  <2>2. CASE p # o
    <3>1. lookups'[o] = lookups[o] /\ read'[o] = read[o]
      BY <1>0, <1>4, <2>2 DEF HorizonReads
    <3> QED BY <3>1, ReadsStay DEF KnewBefore
  <2> QED BY <2>1, <2>2
<1>5. ASSUME NEW p \in Options, Resolves(p) \/ CallFails(p) PROVE KnewBefore(o)
  <2>1. PICK v : EndLookup(p, v)
    BY <1>5 DEF Resolves, CallFails
  <2>2. /\ read' = [read EXCEPT ![p] = Undefined]
        /\ lookups'[o] = IF o = p THEN "none"
                         ELSE IF queue # <<>> /\ o = queue[1] THEN "woken" ELSE lookups[o]
    BY <2>1 DEF EndLookup, Release
  <2> QED BY <1>0, <2>2 DEF KnewBefore, Facts
<1>6. ASSUME NEW r \in Requests, Annotate(r) PROVE KnewBefore(o)
  <2>1. CASE "payability" \notin layers
    BY <1>6, <2>1 DEF Annotate, resolverVars, KnewBefore
  <2>2. CASE "payability" \in layers
    <3>1. /\ lookups' = FoldLeft(LookUp, Limiter, Page(r)).lookups
          /\ read' = read
      BY <1>6, <2>2 DEF Annotate, Limiter
    <3>2. /\ Founded(lookups')
          /\ lookups[o] # "none" => lookups'[o] = lookups[o]
      BY <3>1, PageKeeps DEF ProbesInv
    <3>3. lookups[o] = "none" => read[o] = Undefined
      BY DEF ProbesInv, Founded, Payability
    <3> QED BY <3>1, <3>2, <3>3 DEF KnewBefore, Founded
  <2> QED BY <2>1, <2>2
<1>7. CASE \/ Tick \/ BadgeChanges
           \/ \E r \in Requests : Ask(r) \/ BudgetEnds(r) \/ Respond(r)
           \/ \E r \in Requests, p \in Options : ApiEnds(r, p) \/ LiveHashEnds(r, p)
           \/ \E p \in Options : TrustlineChanges(p)
           \/ UNCHANGED probesVars
  BY <1>1, <1>7 DEF Tick, BadgeChanges, Ask, BudgetEnds, Respond, ApiEnds, LiveHashEnds,
     Verdict, TrustlineChanges, probesVars
<1> QED BY <1>2, <1>3, <1>4, <1>5, <1>6, <1>7, ReadsStay DEF ProbesNext

LEMMA PayStep == ProbesInv /\ PayInv /\ [ProbesNext]_probesVars => PayInv'
<1> SUFFICES ASSUME ProbesInv, PayInv, [ProbesNext]_probesVars
             PROVE  VerdictsSound' /\ AnswersSound'
  BY WorldMoves, ReadsStep DEF PayInv
<1>0. req \in [Requests -> Request]
  BY DEF ProbesInv, ProbesTypeOK
<1>1. CASE verdicts' = verdicts /\ \A r \in Requests : AsBefore(r)
  BY <1>1, VerdictsStay, AsBeforeSound DEF AnswersSound
<1>2. CASE \E r \in Requests : Annotate(r) \/ BudgetEnds(r)
  BY <1>2, AnnotateSound, BudgetEndsSound, VerdictsStay
<1>3. ASSUME NEW o \in Options,
             IdentityAnswers(o) \/ HorizonReads(o) \/ Resolves(o) \/ CallFails(o)
      PROVE  VerdictsSound' /\ AnswersSound'
  <2>1. CASE verdicts' = verdicts /\ req' = req
    BY <1>1, <2>1 DEF AsBefore
  <2>2. CASE \E v \in Payability : (v = "unknown" \/ v = lookups[o]) /\ EndLookup(o, v)
    BY <2>2, EndLookupSound
  <2> QED BY <1>3, <2>1, <2>2, LookupsTell
<1>4. CASE Tick \/ (\E o \in Options : TrustlineChanges(o) \/ Resume(o)) \/ UNCHANGED probesVars
  BY <1>1, <1>4 DEF Tick, TrustlineChanges, Resume, probesVars, resolverVars, AsBefore
<1>5. CASE BadgeChanges
  <2>1. \A r \in Requests : AsBefore(r)
    BY <1>0, <1>5 DEF BadgeChanges, AsBefore, Request
  <2> QED BY <1>1, <1>5, <2>1 DEF BadgeChanges, resolverVars
<1>6. ASSUME NEW r \in Requests, Ask(r) \/ Respond(r) PROVE VerdictsSound' /\ AnswersSound'
  <2>1. CASE Ask(r)
    <3>1. \A q \in Requests : AsBefore(q)
      BY <1>0, <2>1 DEF Ask, AsBefore, Request
    <3> QED BY <1>1, <2>1, <3>1 DEF Ask, resolverVars
  <2>2. CASE Respond(r)
    <3>1. \A q \in Requests : AsBefore(q)
      BY <1>0, <2>2 DEF Respond, AsBefore, Request
    <3> QED BY <1>1, <2>2, <3>1 DEF Respond, resolverVars
  <2> QED BY <1>6, <2>1, <2>2
<1>7. ASSUME NEW r \in Requests, NEW o \in Options, ApiEnds(r, o) \/ LiveHashEnds(r, o)
      PROVE  VerdictsSound' /\ AnswersSound'
  <2>1. PICK w : req' = [req EXCEPT ![r].trust[o] = w] /\ verdicts' = verdicts
    BY <1>7 DEF ApiEnds, LiveHashEnds, Verdict, resolverVars
  <2>2. \A q \in Requests : AsBefore(q)
    BY <1>0, <2>1 DEF AsBefore, Request
  <2> QED BY <1>1, <2>1, <2>2
<1> QED BY <1>2, <1>3, <1>4, <1>5, <1>6, <1>7 DEF ProbesNext

LEMMA PayInitInv == ProbesInit => PayInv
<1> SUFFICES ASSUME ProbesInit PROVE PayInv
  OBVIOUS
<1>1. TurnsOnce /\ ReadsSound /\ VerdictsSound
  BY DEF ProbesInit, TurnsOnce, ReadsSound, VerdictsSound, Facts
<1>2. AnswersSound
  BY ProbesBounds DEF ProbesInit, AnswersSound, AnswerSound, Facts
<1> QED BY <1>1, <1>2 DEF PayInv

LEMMA PayCached == ProbesInv /\ PayInv => CachedIsTrue
<1> SUFFICES ASSUME ProbesInv, PayInv, NEW r \in Requests, NEW o \in Options,
                    req[r].pay[o] \in {"payable", "not_payable"}
             PROVE  SoSince(o, req[r].pay[o], req[r].due - BudgetMs - Ttl - req[r].took[o] + 1)
  BY DEF CachedIsTrue, VerdictRecent, ProbesInv
<1> QED BY DEF PayInv, AnswersSound, AnswerSound, Earliest, Facts

\* annotatePayability: a verdict on a page was so less than a TTL before the page was
\* annotated, counted from when Horizon's answer to the lookup arrived, whichever request
\* started it; an identity that is kept for ever is the contract's, or what the RPC said.
THEOREM CachedCorrect == ProbesSpec => []CachedIsTrue
<1>1. ProbesSpec => []PayInv
  BY ProbesAlways, PayInitInv, PayStep, PTL DEF ProbesSpec
<1> QED BY <1>1, ProbesAlways, PayCached, PTL

-----------------------------------------------------------------------------
(* DiscoveryProbes. What the trust layer says.                             *)

\* The API vouched for the asset at t or later.
VouchedSince(a, t) == vouched[a] # Undefined /\ vouched[a] >= t

VouchesSound ==
  \A a \in Assets :
    /\ vouched[a] # Undefined => vouched[a] <= clock
    /\ trustCache[a] # Undefined /\ trustCache[a].verdict = "verified" =>
         VouchedSince(a, trustCache[a].at)

RequestEarned(r) ==
  /\ req[r].from <= clock
  /\ req[r].owner => req[r].badged
  /\ req[r].pc \in {"pay", "done"} => \A o \in Options : req[r].trust[o] \in Verification
  /\ \A o \in Options : req[r].trust[o] = "verified" =>
       VouchedSince(AssetOf(o), req[r].from - TrustTtl + 1)

EarnedInv == VouchesSound /\ \A r \in Requests : RequestEarned(r)

\* The trust layer has said what it said before.
SaidBefore(r) ==
  /\ req'[r].from = req[r].from /\ req'[r].owner = req[r].owner
  /\ req'[r].trust = req[r].trust /\ (req[r].badged => req'[r].badged)
  /\ req'[r].pc \in {"pay", "done"} => req[r].pc \in {"pay", "done"} \/ Asked(r)

LEMMA ProbesClock ==
  ASSUME ProbesInv, PayInv, [ProbesNext]_probesVars
  PROVE  clock \in Nat /\ clock' \in Nat /\ clock' >= clock
BY ProbesStep, WorldMoves, ProbesBounds DEF ProbesInv, ProbesTypeOK, PayInv

LEMMA SaidBeforeEarned ==
  ASSUME ProbesInv, PayInv, EarnedInv, [ProbesNext]_probesVars,
         trustCache' = trustCache, vouched' = vouched
  PROVE  VouchesSound' /\ \A r \in Requests : SaidBefore(r) => RequestEarned(r)'
<1>0. /\ clock \in Nat /\ clock' \in Nat /\ clock' >= clock
      /\ vouched \in [Assets -> 0 .. MaxClock \cup {Undefined}]
      /\ req \in [Requests -> Request]
  BY ProbesClock DEF ProbesInv, ProbesTypeOK
<1>1. VouchesSound'
  <2>1. \A a \in Assets : vouched[a] # Undefined => vouched[a] \in Nat /\ vouched[a] <= clock
    BY <1>0, ProbesBounds DEF EarnedInv, VouchesSound
  <2> QED BY <1>0, <2>1 DEF EarnedInv, VouchesSound, VouchedSince
<1>2. ASSUME NEW r \in Requests, SaidBefore(r) PROVE RequestEarned(r)'
  <2>1. RequestEarned(r) /\ req[r].from \in Nat
    BY <1>0, ProbesBounds DEF EarnedInv, Request
  <2>2. req'[r].from <= clock'
    BY <1>0, <1>2, <2>1 DEF SaidBefore, RequestEarned
  <2>3. req'[r].pc \in {"pay", "done"} => \A o \in Options : req'[r].trust[o] \in Verification
    BY <1>2, <2>1 DEF SaidBefore, RequestEarned, Asked
  <2> QED BY <1>2, <2>1, <2>2, <2>3 DEF SaidBefore, RequestEarned, VouchedSince
<1> QED BY <1>1, <1>2

LEMMA AskEarned ==
  ASSUME ProbesInv, PayInv, EarnedInv, [ProbesNext]_probesVars, NEW r \in Requests, Ask(r)
  PROVE  EarnedInv'
<1>0. /\ clock \in Nat /\ TrustTtl \in Nat /\ req \in [Requests -> Request]
      /\ trustCache \in [Assets -> Cached \cup {Undefined}]
      /\ vouched \in [Assets -> 0 .. MaxClock \cup {Undefined}]
  BY ProbesClock, ProbesBounds DEF ProbesInv, ProbesTypeOK
<1> DEFINE first(o) == IF "trust" \notin layers \/ o \notin Elements(r) THEN "unknown"
                       ELSE IF Fresh(trustCache[AssetOf(o)], TrustTtl)
                            THEN trustCache[AssetOf(o)].verdict ELSE "api"
           trust == [o \in Options |-> first(o)]
           new == [req[r] EXCEPT !.pc = "trust", !.from = clock, !.owner = badge,
                                 !.badged = badge, !.trust = trust]
<1>1. /\ req' = [req EXCEPT ![r] = new] /\ trustCache' = trustCache /\ vouched' = vouched
      /\ clock' = clock
  BY DEF Ask, worldVars
<1> HIDE DEF trust
<1>2. /\ new.pc = "trust" /\ new.from = clock /\ new.owner = badge /\ new.badged = badge
      /\ new.trust = trust
  <2>1. req[r] \in Request
    BY <1>0
  <2> QED BY <2>1 DEF Request
<1> HIDE DEF new
<1>3. req'[r] = new /\ \A q \in Requests \ {r} : req'[q] = req[q]
  BY <1>0, <1>1
<1>4. ASSUME NEW o \in Options, trust[o] = "verified"
      PROVE  VouchedSince(AssetOf(o), clock - TrustTtl + 1)
  <2> DEFINE a == AssetOf(o)
  <2>1. a \in Assets /\ Fresh(trustCache[a], TrustTtl) /\ trustCache[a].verdict = "verified"
    BY <1>4, ProbesBounds DEF trust
  <2>2. trustCache[a] # Undefined /\ clock - trustCache[a].at < TrustTtl
    BY <2>1 DEF Fresh
  <2>3. trustCache[a].at \in Nat
    BY <1>0, <2>1, <2>2, ProbesBounds DEF Cached
  <2>4. vouched[a] # Undefined /\ vouched[a] >= trustCache[a].at
    BY <2>1, <2>2 DEF EarnedInv, VouchesSound, VouchedSince
  <2>5. vouched[a] \in Nat
    BY <1>0, <2>1, <2>4, ProbesBounds
  <2> QED BY <1>0, <2>2, <2>3, <2>4, <2>5 DEF VouchedSince
<1>5. RequestEarned(r)'
  <2>1. \A o \in Options : req'[r].trust[o] = "verified" =>
          VouchedSince(AssetOf(o), req[r].from - TrustTtl + 1)'
    BY <1>1, <1>2, <1>3, <1>4 DEF VouchedSince
  <2> QED BY <1>0, <1>1, <1>2, <1>3, <2>1 DEF RequestEarned
<1>6. VouchesSound'
  BY <1>1, SaidBeforeEarned
<1>7. \A q \in Requests \ {r} : RequestEarned(q)'
  BY <1>1, <1>3, SaidBeforeEarned DEF SaidBefore
<1> QED BY <1>5, <1>6, <1>7 DEF EarnedInv

LEMMA VerdictEarned ==
  ASSUME ProbesInv, PayInv, EarnedInv, [ProbesNext]_probesVars,
         NEW r \in Requests, NEW o \in Options, NEW v \in Verification, Verdict(r, o, v),
         req[r].trust[o] \notin Verification
  PROVE  EarnedInv'
<1> DEFINE a == AssetOf(o)
<1>0. /\ clock \in Nat /\ TrustTtl \in Nat \ {0} /\ a \in Assets
      /\ Undefined \notin Nat \cap 0 .. MaxClock
      /\ req \in [Requests -> Request]
      /\ trustCache \in [Assets -> Cached \cup {Undefined}]
      /\ vouched \in [Assets -> 0 .. MaxClock \cup {Undefined}] /\ clock # Undefined
  BY ProbesClock, ProbesBounds, UndefinedAssumption DEF ProbesInv, ProbesTypeOK
<1>1. /\ clock' = clock /\ req' = [req EXCEPT ![r].trust[o] = v]
      /\ trustCache' = [trustCache EXCEPT ![a] = [verdict |-> v, at |-> clock]]
      /\ vouched' = IF v = "verified" THEN [vouched EXCEPT ![a] = clock] ELSE vouched
  BY DEF Verdict
<1>2. /\ \A b \in Assets \ {a} : vouched'[b] = vouched[b] /\ trustCache'[b] = trustCache[b]
      /\ vouched'[a] = IF v = "verified" THEN clock ELSE vouched[a]
      /\ trustCache'[a] = [verdict |-> v, at |-> clock]
  BY <1>0, <1>1
<1>3. \A b \in Assets : vouched[b] # Undefined => vouched[b] \in Nat /\ vouched[b] <= clock
  BY <1>0, ProbesBounds DEF EarnedInv, VouchesSound
<1>4. \A b \in Assets, t \in Int : VouchedSince(b, t) => VouchedSince(b, t)'
  BY <1>0, <1>2, <1>3 DEF VouchedSince
<1>5. VouchesSound'
  <2> SUFFICES ASSUME NEW b \in Assets
               PROVE  /\ vouched'[b] # Undefined => vouched'[b] <= clock'
                      /\ trustCache'[b] # Undefined /\ trustCache'[b].verdict = "verified" =>
                           VouchedSince(b, trustCache[b].at)'
    BY DEF VouchesSound
  <2>1. CASE b = a
    BY <1>0, <1>1, <1>2, <1>3, <2>1 DEF VouchedSince
  <2>2. CASE b # a
    BY <1>1, <1>2, <2>2 DEF EarnedInv, VouchesSound, VouchedSince
  <2> QED BY <2>1, <2>2
<1>6. ASSUME NEW q \in Requests PROVE RequestEarned(q)'
  <2>1. RequestEarned(q) /\ req[q].from \in Nat
    BY <1>0, ProbesBounds DEF EarnedInv, Request
  <2>2. /\ req'[q].from = req[q].from /\ req'[q].owner = req[q].owner
        /\ req'[q].badged = req[q].badged /\ req'[q].pc = req[q].pc
        /\ \A p \in Options : req'[q].trust[p] = IF q = r /\ p = o THEN v ELSE req[q].trust[p]
    BY <1>0, <1>1 DEF Request
  <2>3. PICK t \in Int : t = req[q].from - TrustTtl + 1
    BY <1>0, <2>1
  <2>4. ASSUME NEW p \in Options, req'[q].trust[p] = "verified"
        PROVE  VouchedSince(AssetOf(p), req[q].from - TrustTtl + 1)'
    <3>1. VouchedSince(AssetOf(p), t)'
      <4>1. CASE q = r /\ p = o
        <5>1. vouched'[AssetOf(p)] = clock
          BY <1>2, <2>2, <2>4, <4>1
        <5>2. clock >= t
          BY <1>0, <2>1, <2>3 DEF RequestEarned
        <5> QED BY <1>0, <5>1, <5>2 DEF VouchedSince
      <4>2. CASE ~(q = r /\ p = o)
        <5>1. VouchedSince(AssetOf(p), t)
          BY <2>1, <2>2, <2>3, <2>4, <4>2 DEF RequestEarned
        <5> QED BY <1>4, <5>1, ProbesBounds
      <4> QED BY <4>1, <4>2
    <3> QED BY <2>2, <2>3, <3>1 DEF VouchedSince
  <2>5. req'[q].pc \in {"pay", "done"} => \A p \in Options : req'[q].trust[p] \in Verification
    BY <2>1, <2>2 DEF RequestEarned
  <2> QED BY <1>1, <2>1, <2>2, <2>4, <2>5 DEF RequestEarned
<1> QED BY <1>5, <1>6 DEF EarnedInv

\* The live hash is asked for after the API has answered.
LEMMA LiveEarned ==
  ASSUME ProbesInv, PayInv, EarnedInv, [ProbesNext]_probesVars,
         NEW r \in Requests, NEW o \in Options, req[r].trust[o] = "api",
         req' = [req EXCEPT ![r].trust[o] = "live"],
         trustCache' = trustCache, vouched' = vouched, clock' = clock
  PROVE  EarnedInv'
<1>0. req \in [Requests -> Request]
  BY DEF ProbesInv, ProbesTypeOK
<1>1. VouchesSound'
  BY SaidBeforeEarned
<1>2. ASSUME NEW q \in Requests PROVE RequestEarned(q)'
  <2>1. RequestEarned(q)
    BY DEF EarnedInv
  <2>2. /\ req'[q].from = req[q].from /\ req'[q].owner = req[q].owner
        /\ req'[q].badged = req[q].badged /\ req'[q].pc = req[q].pc
        /\ \A p \in Options : req'[q].trust[p] =
             IF q = r /\ p = o THEN "live" ELSE req[q].trust[p]
    BY <1>0 DEF Request
  <2>3. q = r => req[q].pc \notin {"pay", "done"}
    BY <2>1 DEF RequestEarned, Verification
  <2>4. req'[q].pc \in {"pay", "done"} => \A p \in Options : req'[q].trust[p] \in Verification
    BY <2>1, <2>2, <2>3 DEF RequestEarned
  <2> QED BY <2>1, <2>2, <2>4 DEF RequestEarned, VouchedSince
<1> QED BY <1>1, <1>2 DEF EarnedInv

LEMMA EarnedStep == ProbesInv /\ PayInv /\ EarnedInv /\ [ProbesNext]_probesVars => EarnedInv'
<1> SUFFICES ASSUME ProbesInv, PayInv, EarnedInv, [ProbesNext]_probesVars PROVE EarnedInv'
  OBVIOUS
<1>0. req \in [Requests -> Request] /\ badge \in BOOLEAN
  BY DEF ProbesInv, ProbesTypeOK
<1>1. CASE /\ trustCache' = trustCache /\ vouched' = vouched
           /\ \A r \in Requests : SaidBefore(r)
  BY <1>1, SaidBeforeEarned DEF EarnedInv
<1>2. CASE Tick \/ (\E o \in Options : TrustlineChanges(o) \/ Resume(o)) \/ UNCHANGED probesVars
  BY <1>1, <1>2 DEF Tick, TrustlineChanges, Resume, probesVars, worldVars, SaidBefore
<1>3. CASE BadgeChanges
  <2>1. \A r \in Requests : SaidBefore(r)
    BY <1>0, <1>3 DEF BadgeChanges, SaidBefore, Request
  <2> QED BY <1>1, <1>3, <2>1 DEF BadgeChanges
<1>4. CASE \E r \in Requests : Ask(r)
  BY <1>4, AskEarned
<1>5. ASSUME NEW r \in Requests, Annotate(r) PROVE EarnedInv'
  <2>1. Asked(r) /\ trustCache' = trustCache /\ vouched' = vouched
    BY <1>5 DEF Annotate, worldVars
  <2>2. \A q \in Requests : SaidBefore(q)
    <3>1. PICK new : /\ req' = [req EXCEPT ![r] = new]
                     /\ new.from = req[r].from /\ new.owner = req[r].owner
                     /\ new.badged = req[r].badged /\ new.trust = req[r].trust
      <4>1. CASE "payability" \notin layers
        <5> DEFINE new == [req[r] EXCEPT !.pc = "done"]
        <5>1. req' = [req EXCEPT ![r] = new]
          BY <1>5, <4>1 DEF Annotate
        <5>2. /\ new.from = req[r].from /\ new.owner = req[r].owner
              /\ new.badged = req[r].badged /\ new.trust = req[r].trust
          <6>1. req[r] \in Request
            BY <1>0
          <6> QED BY <6>1 DEF Request
        <5> QED BY <5>1, <5>2
      <4>2. CASE "payability" \in layers
        <5> DEFINE pay == [o \in Options |-> IF o \notin Elements(r) THEN "unknown"
                                  ELSE IF Hit(o) THEN verdicts[o].verdict ELSE "wait"]
                   took == [o \in Options |-> IF o \in Elements(r) /\ Hit(o)
                                              THEN verdicts[o].took ELSE 0]
                   new == [req[r] EXCEPT !.pc = "pay", !.due = clock + BudgetMs, !.pay = pay,
                                         !.took = took]
        <5>1. req' = [req EXCEPT ![r] = new]
          BY <1>5, <4>2 DEF Annotate
        <5> HIDE DEF pay, took
        <5>2. /\ new.from = req[r].from /\ new.owner = req[r].owner
              /\ new.badged = req[r].badged /\ new.trust = req[r].trust
          <6>1. req[r] \in Request
            BY <1>0
          <6> QED BY <6>1 DEF Request
        <5> QED BY <5>1, <5>2
      <4> QED BY <4>1, <4>2
    <3> QED BY <1>0, <2>1, <3>1 DEF SaidBefore
  <2> QED BY <1>1, <2>1, <2>2
<1>6. ASSUME NEW r \in Requests, BudgetEnds(r) \/ Respond(r) PROVE EarnedInv'
  <2>1. trustCache' = trustCache /\ vouched' = vouched /\ req[r].pc = "pay"
    BY <1>6 DEF BudgetEnds, Respond, worldVars
  <2>2. CASE BudgetEnds(r)
    <3>1. PICK pay : req' = [req EXCEPT ![r].pay = pay]
      BY <2>2 DEF BudgetEnds
    <3>2. \A q \in Requests : SaidBefore(q)
      BY <1>0, <2>1, <3>1 DEF SaidBefore, Request
    <3> QED BY <1>1, <2>1, <3>2
  <2>3. CASE Respond(r)
    <3>1. \A q \in Requests : SaidBefore(q)
      BY <1>0, <2>1, <2>3 DEF Respond, SaidBefore, Request
    <3> QED BY <1>1, <2>1, <3>1
  <2> QED BY <1>6, <2>2, <2>3
<1>7. ASSUME NEW r \in Requests, NEW o \in Options, ApiEnds(r, o) \/ LiveHashEnds(r, o)
      PROVE  EarnedInv'
  <2>1. req[r].trust[o] \in {"api", "live"}
    BY <1>7 DEF ApiEnds, LiveHashEnds
  <2>2. CASE \E v \in Verification : Verdict(r, o, v)
    BY <2>1, <2>2, VerdictEarned DEF Verification
  <2>3. CASE /\ req[r].trust[o] = "api" /\ req' = [req EXCEPT ![r].trust[o] = "live"]
             /\ UNCHANGED <<clock, layers, worldVars, trustCache, resolverVars>>
    BY <2>3, LiveEarned DEF worldVars
  <2> QED BY <1>7, <2>2, <2>3 DEF ApiEnds, LiveHashEnds, Verification
<1>8. ASSUME NEW o \in Options,
             IdentityAnswers(o) \/ HorizonReads(o) \/ Resolves(o) \/ CallFails(o)
      PROVE  EarnedInv'
  <2>1. trustCache' = trustCache /\ vouched' = vouched
    BY <1>8 DEF IdentityAnswers, HorizonReads, Resolves, CallFails, EndLookup, worldVars
  <2>2. CASE req' = req
    BY <1>1, <2>1, <2>2 DEF SaidBefore
  <2>3. CASE \E v \in Payability : EndLookup(o, v)
    <3>1. PICK v : req' = [r \in Requests |->
                            IF req[r].pay[o] = "wait"
                            THEN [req[r] EXCEPT !.pay[o] = v, !.took[o] = Took(o)] ELSE req[r]]
      BY <2>3 DEF EndLookup
    <3>2. \A r \in Requests : SaidBefore(r)
      BY <1>0, <3>1 DEF SaidBefore, Request
    <3> QED BY <1>1, <2>1, <3>2
  <2> QED BY <1>8, <2>2, <2>3, LookupsTell
<1> QED BY <1>2, <1>3, <1>4, <1>5, <1>6, <1>7, <1>8 DEF ProbesNext

LEMMA EarnedInitInv == ProbesInit => EarnedInv
BY ProbesBounds DEF ProbesInit, EarnedInv, VouchesSound, RequestEarned, VouchedSince,
   Verification

LEMMA EarnedVerified == ProbesInv /\ EarnedInv => VerifiedIsEarned
<1> SUFFICES ASSUME ProbesInv, EarnedInv, NEW r \in Requests, req[r].pc \in {"pay", "done"},
                    StrictMin(AcceptsVerification(r)) = "verified"
             PROVE  /\ req[r].badged
                    /\ \A o \in Elements(r) : /\ vouched[AssetOf(o)] # Undefined
                                              /\ vouched[AssetOf(o)] > req[r].from - TrustTtl
  BY DEF VerifiedIsEarned
<1>1. /\ AcceptsVerification(r) # {}
      /\ \A v \in AcceptsVerification(r) : v \notin {"unverified", "unknown"}
  BY DEF StrictMin
<1>2. Elements(r) \subseteq Options
  BY ProbesAssumption DEF Elements, ToSet
<1>3. RequestEarned(r)
  BY DEF EarnedInv
<1>4. \A o \in Elements(r) : req[r].trust[o] = "verified" /\ req[r].owner
  BY <1>1, <1>2, <1>3 DEF AcceptsVerification, ClampByOwner, RequestEarned, Verification
<1>5. \E o \in Elements(r) : TRUE
  BY <1>1 DEF AcceptsVerification
<1>6. req[r].badged
  BY <1>3, <1>4, <1>5 DEF RequestEarned
<1>7. ASSUME NEW o \in Elements(r)
      PROVE  vouched[AssetOf(o)] # Undefined /\ vouched[AssetOf(o)] > req[r].from - TrustTtl
  <2>1. VouchedSince(AssetOf(o), req[r].from - TrustTtl + 1)
    BY <1>2, <1>3, <1>4 DEF RequestEarned
  <2>2. vouched[AssetOf(o)] \in Nat /\ req[r].from \in Nat
    BY <1>2, <2>1, ProbesBounds DEF ProbesInv, ProbesTypeOK, Request, VouchedSince
  <2> QED BY <2>1, <2>2, ProbesBounds DEF VouchedSince
<1> QED BY <1>6, <1>7

\* annotateTrust: a listing that a page calls verified had its owner's badge, and the API
\* vouched for each of its assets within a TTL, through a cache that requests share.
THEOREM VerifiedCorrect == ProbesSpec => []VerifiedIsEarned
<1>1. ProbesSpec => []PayInv
  BY ProbesAlways, PayInitInv, PayStep, PTL DEF ProbesSpec
<1>2. ProbesSpec => []EarnedInv
  BY <1>1, ProbesAlways, EarnedInitInv, EarnedStep, PTL DEF ProbesSpec
<1> QED BY <1>2, ProbesAlways, EarnedVerified, PTL
=============================================================================
