----------------------------- MODULE SearchIndex -----------------------------
(***************************************************************************)
(* The catalog's entries and the vectors that search ranks them by: the    *)
(* end of upsertFromPayment, evictToCap, save and flush, search with its   *)
(* fusion of two rankings, warmQueryVector and embedEntryInBackground of   *)
(* src/catalog.ts, over the entry table of src/store.ts, while the script  *)
(* src/backfill-embeddings.ts runs on the same database.                   *)
(*                                                                         *)
(* A vector is the pair of the key and the text it was computed from. What *)
(* a settlement must pass to be cataloged is in CatalogOwnership: here     *)
(* each one is of the bound owner. Entries of one millisecond, filters,    *)
(* paging and the content of the texts are left out.                       *)
(***************************************************************************)
EXTENDS Integers, FiniteSets, Sequences, SequencesExt

CONSTANTS
  Keys,             \* resource keys that are settled for
  Foreign,          \* keys of rows whose payload has no usable resource url
  Old,              \* keys of the entries there were before
  Texts,            \* what an entry says: its name, tags, description and url
  OldText,          \* what the entries of Old say
  Queries,
  Lexical(_, _),    \* scoreResource: of a query and a text
  Similarity(_, _), \* cosineSimilarity: of a query and the text of a vector
  MaxEntries,       \* MAX_ENTRIES
  MaxQueryVectors,  \* MAX_QUERY_VECTORS
  BatchSize,        \* BATCH_SIZE
  MaxUpserts,       \* bound: settlements that are cataloged
  MaxFlushes,       \* bound: flushes
  MaxCrashes,       \* bound: restarts of the server
  Null

ASSUME SearchAssumption ==
  /\ IsFiniteSet(Keys) /\ IsFiniteSet(Foreign) /\ Keys \cap Foreign = {}
  /\ Old \subseteq Keys /\ Cardinality(Old) <= MaxEntries /\ OldText \in Texts
  /\ {MaxEntries, MaxQueryVectors, BatchSize} \subseteq Nat \ {0}
  /\ {MaxUpserts, MaxFlushes, MaxCrashes} \subseteq Nat
  /\ Null \notin Texts
  /\ \A q \in Queries, t \in Texts : Lexical(q, t) \in Nat /\ Similarity(q, t) \in Nat

VARIABLES
  \* The database.
  table,         \* table entry
  \* The memory of the server.
  entries,       \* this.entries
  owned,         \* the keys of this.ownership
  embeddings,    \* this.embeddings
  queryVectors,  \* the keys of this.queryVectors, oldest first
  queryInFlight, \* this.queryInFlight
  saveTimer,     \* a flush is due
  \* What is under way.
  binds,         \* upserts that await bindOwnership
  embeds,        \* calls of embedEntryInBackground
  flights,       \* flushes sent
  backfill,      \* the script
  \* Counters.
  upserts,       \* settlements cataloged so far: Date.now()
  flushes,
  crashes

serverVars == <<entries, owned, embeddings, queryVectors, queryInFlight, saveTimer>>
pendingVars == <<binds, embeds, flights>>
counters == <<upserts, flushes, crashes>>
searchVars == <<table, serverVars, pendingVars, backfill, counters>>

AllKeys == Keys \cup Foreign
LastUpdate == Cardinality(Old) + MaxUpserts
Stamps == 0 .. LastUpdate + MaxFlushes

IndexEntry == [text: Texts, updated: Stamps]
Vector == AllKeys \X Texts

\* text, updated: of the payload, Null if it is unusable; at: last_updated.
IndexRow == [text: Texts \cup {Null}, updated: Stamps, at: Stamps, vector: Vector \cup {Null}]

ASSUME NullIsNoRow == Null \notin Vector \cup IndexRow

\* f is a Map from some of the keys ks.
IsMap(f, ks, values) == DOMAIN f \subseteq ks /\ \A k \in DOMAIN f : f[k] \in values

\* Elements of backfill.todo and backfill.batch: the rows as they were selected.
Selected == [key: AllKeys, text: Texts \cup {Null}]

Idle == [pc |-> "idle", todo |-> <<>>, batch |-> <<>>]

\* Mutant of Rank: an entry that the list misses ranks before all of it.
RankZero(ranking, k) ==
  IF Contains(ranking, k) THEN CHOOSE i \in DOMAIN ranking : ranking[i] = k ELSE 0

\* 1-based; past the end for an entry that the list misses.
Rank(ranking, k) ==
  IF Contains(ranking, k) THEN CHOOSE i \in DOMAIN ranking : ranking[i] = k
  ELSE Len(ranking) + 1

\* The database is older than the embedding column; the server has just booted.
SearchInit ==
  /\ LET age(k) == Rank(SetToSeq(Old), k) IN
     /\ table = [k \in AllKeys |->
                  IF k \in Old
                  THEN [text |-> OldText, updated |-> age(k), at |-> age(k), vector |-> Null]
                  ELSE IF k \in Foreign
                  THEN [text |-> Null, updated |-> 0, at |-> 0, vector |-> Null]
                  ELSE Null]
     /\ entries = [k \in Old |-> [text |-> OldText, updated |-> age(k)]]
  /\ owned = Old
  /\ embeddings = <<>>
  /\ queryVectors = <<>>
  /\ queryInFlight = {}
  /\ saveTimer = FALSE
  /\ binds = {} /\ embeds = {} /\ flights = {}
  /\ backfill = Idle
  /\ upserts = Cardinality(Old) /\ flushes = 0 /\ crashes = 0

-----------------------------------------------------------------------------
(* A settlement is cataloged.                                              *)

Put(f, k, v) == [j \in DOMAIN f \cup {k} |-> IF j = k THEN v ELSE f[j]]

\* Date.now(): told apart by the settlements and flushes before it.
Now == upserts + flushes

\* The oldest entries beyond the cap: toDrop of them.
BeyondCap(es) ==
  {k \in DOMAIN es :
     Cardinality({j \in DOMAIN es : es[j].updated > es[k].updated}) >= MaxEntries}

EvictToCap(es) == [k \in DOMAIN es \ BeyondCap(es) |-> es[k]]

\* The end of upsertFromPayment: the eviction does not stop the embedding.
Cataloged(k, e) ==
  /\ entries' = EvictToCap(Put(entries, k, e))
  /\ saveTimer' = TRUE
  /\ embeds' = embeds \cup {[key |-> k, text |-> e.text, by |-> e.updated, step |-> "api"]}

\* The entry exists, or was evicted and the key is still owned: no await.
Upsert(k, t) ==
  /\ upserts < LastUpdate
  /\ k \in owned
  /\ upserts' = upserts + 1
  /\ Cataloged(k, [text |-> t, updated |-> upserts + 1])
  /\ UNCHANGED <<table, owned, embeddings, queryVectors, queryInFlight, binds, flights,
                 backfill, flushes, crashes>>

\* A first settlement: lastUpdated is taken before the await of bindOwnership.
StartBind(k, t) ==
  /\ upserts < LastUpdate
  /\ k \notin owned
  /\ upserts' = upserts + 1
  /\ binds' = binds \cup {[key |-> k, entry |-> [text |-> t, updated |-> upserts + 1]]}
  /\ UNCHANGED <<table, serverVars, embeds, flights, backfill, flushes, crashes>>

\* bindAndUpsertEntry commits; the ownership row must not exist.
BindLands(b) ==
  /\ table[b.key] = Null
  /\ table' = [table EXCEPT ![b.key] =
                [text |-> b.entry.text, updated |-> b.entry.updated, at |-> b.entry.updated,
                 vector |-> Null]]
  /\ binds' = binds \ {b}
  /\ owned' = owned \cup {b.key}
  /\ Cataloged(b.key, b.entry)
  /\ UNCHANGED <<embeddings, queryVectors, queryInFlight, flights, backfill, counters>>

\* The write fails, or its answer is lost: the upsert is refused.
BindRefused(b) ==
  /\ binds' = binds \ {b}
  /\ \/ UNCHANGED table
     \/ /\ table[b.key] = Null
        /\ table' = [table EXCEPT ![b.key] =
                      [text |-> b.entry.text, updated |-> b.entry.updated,
                       at |-> b.entry.updated, vector |-> Null]]
  /\ UNCHANGED <<serverVars, embeds, flights, backfill, counters>>

-----------------------------------------------------------------------------
(* Entries are written behind.                                             *)

FlushStarts ==
  /\ saveTimer
  /\ flushes < MaxFlushes
  /\ saveTimer' = FALSE
  /\ flushes' = flushes + 1
  /\ flights' = flights \cup {[snapshot |-> entries, at |-> Now + 1]}
  /\ UNCHANGED <<table, entries, owned, embeddings, queryVectors, queryInFlight, binds,
                 embeds, backfill, upserts, crashes>>

\* ON CONFLICT DO UPDATE SET payload, last_updated: the vector stays.
Kept(row) == IF row = Null THEN Null ELSE row.vector

SaveEntries(f) ==
  /\ flights' = flights \ {f}
  /\ table' = [k \in AllKeys |->
                IF k \in DOMAIN f.snapshot
                THEN [text |-> f.snapshot[k].text, updated |-> f.snapshot[k].updated,
                      at |-> f.at, vector |-> Kept(table[k])]
                ELSE table[k]]
  /\ UNCHANGED <<serverVars, binds, embeds, backfill, counters>>

FlushFails(f) ==
  /\ flights' = flights \ {f}
  /\ UNCHANGED <<table, serverVars, binds, embeds, backfill, counters>>

-----------------------------------------------------------------------------
(* embedEntryInBackground.                                                 *)

EmbedAnswers(c) ==
  /\ c.step = "api"
  /\ embeddings' = Put(embeddings, c.key, <<c.key, c.text>>)
  /\ embeds' = (embeds \ {c}) \cup {[c EXCEPT !.step = "save"]}
  /\ UNCHANGED <<table, entries, owned, queryVectors, queryInFlight, saveTimer, binds,
                 flights, backfill, counters>>

\* UPDATE ... WHERE resource_key: nothing without the row.
WithVector(k, v) == IF table[k] = Null THEN table ELSE [table EXCEPT ![k].vector = v]

SaveEmbedding(c) ==
  /\ c.step = "save"
  /\ table' = WithVector(c.key, <<c.key, c.text>>)
  /\ embeds' = embeds \ {c}
  /\ UNCHANGED <<serverVars, binds, flights, backfill, counters>>

\* Caught and warned: the entry stays searchable.
EmbedFails(c) ==
  /\ embeds' = embeds \ {c}
  /\ UNCHANGED <<table, serverVars, binds, flights, backfill, counters>>

-----------------------------------------------------------------------------
(* search.                                                                 *)

Text(k) == entries[k].text

Newer(j, k) == entries[j].updated > entries[k].updated

LexicalHits(q) == {k \in DOMAIN entries : Lexical(q, Text(k)) > 0}

\* The arrays that sort() may give: what goes before another comes before it, the
\* rest is in some order.
Sorted(S, Before(_, _)) ==
  {s \in SetToSeqs(S) : \A i, j \in DOMAIN s : Before(s[i], s[j]) => i < j}

LexicalRankings(q) ==
  Sorted(LexicalHits(q), LAMBDA j, k :
    \/ Lexical(q, Text(j)) > Lexical(q, Text(k))
    \/ (Lexical(q, Text(j)) = Lexical(q, Text(k)) /\ Newer(j, k)))

Near(q, k) == Similarity(q, embeddings[k][2])

VectorRankings(q) ==
  Sorted(DOMAIN entries \cap DOMAIN embeddings, LAMBDA j, k : Near(q, j) > Near(q, k))

\* rrfScore is 1 / (60 + a) + 1 / (60 + b): compared over the common denominator.
RrfAbove(a, b, c, d) ==
  (120 + a + b) * (60 + c) * (60 + d) > (120 + c + d) * (60 + a) * (60 + b)

\* Whether the fusion of the two rankings places j above k.
FusedAbove(lexical, vector, j, k) ==
  RrfAbove(Rank(lexical, j), Rank(vector, j), Rank(lexical, k), Rank(vector, k))

\* fuseWithVectorRanking: the lexical order unless both rankings exist.
Fused(q, lexical, vector) ==
  IF embeddings = <<>> \/ ~Contains(queryVectors, q) \/ vector = <<>> THEN {lexical}
  ELSE Sorted(ToSet(lexical) \cup ToSet(vector), LAMBDA j, k :
         \/ FusedAbove(lexical, vector, j, k)
         \/ ~FusedAbove(lexical, vector, k, j) /\ Newer(j, k))

Search(q) ==
  UNION {Fused(q, lexical, vector) :
           lexical \in LexicalRankings(q), vector \in VectorRankings(q)}

\* warmQueryVector: what a search leaves behind.
WarmQueryVector(q) ==
  /\ embeddings # <<>>
  /\ ~Contains(queryVectors, q)
  /\ q \notin queryInFlight
  /\ queryInFlight' = queryInFlight \cup {q}
  /\ UNCHANGED <<table, entries, owned, embeddings, queryVectors, saveTimer, pendingVars,
                 backfill, counters>>

\* Oldest out, once the cache is full.
Admit(q) ==
  Append(IF Len(queryVectors) >= MaxQueryVectors THEN Tail(queryVectors) ELSE queryVectors, q)

QueryEmbedded(q) ==
  /\ q \in queryInFlight
  /\ queryVectors' = Admit(q)
  /\ queryInFlight' = queryInFlight \ {q}
  /\ UNCHANGED <<table, entries, owned, embeddings, saveTimer, pendingVars, backfill, counters>>

\* finally: the query may be tried again.
QueryFails(q) ==
  /\ q \in queryInFlight
  /\ queryInFlight' = queryInFlight \ {q}
  /\ UNCHANGED <<table, entries, owned, embeddings, queryVectors, saveTimer, pendingVars,
                 backfill, counters>>

-----------------------------------------------------------------------------
(* backfill-embeddings.ts, one run after the other.                        *)

\* Mutant of Usable: one unusable row costs its batch.
AllOrNothing(batch) == IF \E j \in DOMAIN batch : batch[j].text = Null THEN <<>> ELSE batch

\* Only rows whose payload yields a resource url are sent to the API.
Usable(batch) ==
  LET usable[n \in 0 .. Len(batch)] ==
        IF n = 0 THEN <<>>
        ELSE IF batch[n].text = Null THEN usable[n - 1]
        ELSE Append(usable[n - 1], batch[n])
  IN usable[Len(batch)]

FirstOf(todo) == SubSeq(todo, 1, IF Len(todo) < BatchSize THEN Len(todo) ELSE BatchSize)
RestOf(todo) == SubSeq(todo, BatchSize + 1, Len(todo))

\* The next batch, up to the call of the API; the run ends after the last one.
NextBatch(todo) ==
  IF todo = <<>> THEN Idle
  ELSE [pc |-> IF Usable(FirstOf(todo)) = <<>> THEN "loop" ELSE "api",
        todo |-> RestOf(todo), batch |-> FirstOf(todo)]

\* getEntriesWithoutEmbeddings, in whatever order the database answers.
BackfillStarts ==
  /\ backfill.pc = "idle"
  /\ \E todo \in SetToSeqs({[key |-> k, text |-> table[k].text] :
                              k \in {j \in AllKeys : table[j] # Null /\ Kept(table[j]) = Null}}) :
       backfill' = NextBatch(todo)
  /\ UNCHANGED <<table, serverVars, pendingVars, counters>>

\* continue: the batch had no usable row.
BackfillPasses ==
  /\ backfill.pc = "loop"
  /\ backfill' = NextBatch(backfill.todo)
  /\ UNCHANGED <<table, serverVars, pendingVars, counters>>

\* The vectors of the usable rows, in their order.
Vectors(batch) ==
  LET usable == Usable(batch) IN [j \in DOMAIN usable |-> <<usable[j].key, usable[j].text>>]

\* Mutant of Aligned: the unusable rows are still counted.
Misaligned(batch) ==
  [j \in DOMAIN Vectors(batch) |-> [key |-> batch[j].key, vector |-> Vectors(batch)[j]]]

\* What is saved for each vector: under the key of the row it was computed from.
Aligned(batch) ==
  [j \in DOMAIN Vectors(batch) |-> [key |-> Usable(batch)[j].key, vector |-> Vectors(batch)[j]]]

BackfillAnswered ==
  /\ backfill.pc = "api"
  /\ backfill' = [backfill EXCEPT !.pc = "save", !.batch = Aligned(@)]
  /\ UNCHANGED <<table, serverVars, pendingVars, counters>>

\* One row at a time.
BackfillSaves ==
  /\ backfill.pc = "save"
  /\ LET item == Head(backfill.batch) IN table' = WithVector(item.key, item.vector)
  /\ backfill' = IF Len(backfill.batch) = 1 THEN NextBatch(backfill.todo)
                 ELSE [backfill EXCEPT !.batch = Tail(@)]
  /\ UNCHANGED <<serverVars, pendingVars, counters>>

\* The API past its retries, or one write: the rest of the batch keeps no vector.
BackfillFails ==
  /\ backfill.pc \in {"api", "save"}
  /\ backfill' = NextBatch(backfill.todo)
  /\ UNCHANGED <<table, serverVars, pendingVars, counters>>

-----------------------------------------------------------------------------
(* A restart of the server.                                                *)

Stored == {k \in AllKeys : table[k] # Null}

\* loadEntries: the newest rows, whether or not their payload can be used.
Newest(ks) ==
  /\ ks \subseteq Stored
  /\ Cardinality(ks) = IF Cardinality(Stored) < MaxEntries THEN Cardinality(Stored) ELSE MaxEntries
  /\ \A j \in ks, k \in Stored \ ks : table[j].at >= table[k].at

\* create: ownership, then the entries and the vectors, or none of either when
\* they do not load.
Reload ==
  /\ crashes < MaxCrashes
  /\ crashes' = crashes + 1
  /\ owned' = Stored \cap Keys
  /\ \/ entries' = <<>>
     \/ \E ks \in SUBSET Stored :
          /\ Newest(ks)
          /\ entries' =
               [k \in ks \cap Keys |-> [text |-> table[k].text, updated |-> table[k].updated]]
  /\ embeddings' \in {<<>>, [k \in {j \in Stored : Kept(table[j]) # Null} |-> table[k].vector]}
  /\ queryVectors' = <<>> /\ queryInFlight' = {} /\ saveTimer' = FALSE
  /\ binds' = {} /\ embeds' = {} /\ flights' = {}
  /\ UNCHANGED <<table, backfill, upserts, flushes>>

-----------------------------------------------------------------------------
Backfill == BackfillStarts \/ BackfillPasses \/ BackfillAnswered \/ BackfillSaves \/ BackfillFails

SearchNext ==
  \/ \E k \in Keys, t \in Texts : Upsert(k, t) \/ StartBind(k, t)
  \/ \E b \in binds : BindLands(b) \/ BindRefused(b)
  \/ FlushStarts
  \/ \E f \in flights : SaveEntries(f) \/ FlushFails(f)
  \/ \E c \in embeds : EmbedAnswers(c) \/ SaveEmbedding(c) \/ EmbedFails(c)
  \/ \E q \in Queries : WarmQueryVector(q) \/ QueryEmbedded(q) \/ QueryFails(q)
  \/ Backfill
  \/ Reload

SearchSpec == SearchInit /\ [][SearchNext]_searchVars

\* The script is run until it reports no failure, and the API and the database do
\* not fail for ever.
SearchFairSpec ==
  /\ SearchSpec
  /\ WF_searchVars(BackfillStarts) /\ WF_searchVars(BackfillPasses)
  /\ SF_searchVars(BackfillAnswered) /\ SF_searchVars(BackfillSaves)

-----------------------------------------------------------------------------
(* Properties.                                                             *)

SearchTypeOK ==
  /\ table \in [AllKeys -> IndexRow \cup {Null}]
  /\ IsMap(entries, Keys, IndexEntry)
  /\ owned \subseteq Keys
  /\ IsMap(embeddings, AllKeys, Vector)
  /\ ToSet(queryVectors) \subseteq Queries /\ queryInFlight \subseteq Queries
  /\ saveTimer \in BOOLEAN
  /\ binds \subseteq [key : Keys, entry : IndexEntry]
  /\ embeds \subseteq [key : Keys, text : Texts, by : Stamps, step : {"api", "save"}]
  /\ \A f \in flights : IsMap(f.snapshot, Keys, IndexEntry) /\ f.at \in Stamps
  /\ backfill.pc \in {"idle", "loop", "api", "save"}
  /\ ToSet(backfill.todo) \subseteq Selected
  /\ upserts \in 0 .. LastUpdate /\ flushes \in 0 .. MaxFlushes /\ crashes \in 0 .. MaxCrashes

\* A vector belongs to the resource it is kept under: neither the script, which skips
\* rows inside a batch, nor the writes of the server that race it attach the vector of
\* one resource to another.
OwnVectors ==
  /\ \A k \in DOMAIN embeddings : embeddings[k][1] = k
  /\ \A k \in AllKeys : table[k] # Null /\ table[k].vector # Null => table[k].vector[1] = k

\* j has a place in the ranking, before the place of k if k has one.
Ahead(ranking, j, k) ==
  \E m \in DOMAIN ranking :
    ranking[m] = j /\ \A n \in DOMAIN ranking : ranking[n] = k => m < n

\* Whatever the vectors that have arrived, search has an answer, and each it may give
\* has every entry that matches by its words, only entries of the catalog, each once, and
\* none above another that both rankings put before it.
FusionSound ==
  \A q \in Queries :
    /\ Search(q) # {}
    /\ \A lexical \in LexicalRankings(q), vector \in VectorRankings(q) :
         \A fused \in Fused(q, lexical, vector) :
           /\ IsInjective(fused)
           /\ LexicalHits(q) \subseteq ToSet(fused) /\ ToSet(fused) \subseteq DOMAIN entries
           /\ \A i, j \in DOMAIN fused :
                Ahead(lexical, fused[i], fused[j]) /\ Ahead(vector, fused[i], fused[j])
                => i < j

\* However often the API and single writes fail, and whatever rows a batch skips, every
\* usable row ends up with a vector.
EveryRowEmbedded ==
  \A k \in Keys : table[k] # Null ~> Kept(table[k]) # Null
=============================================================================
