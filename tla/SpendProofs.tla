---------------------------- MODULE SpendProofs ----------------------------
(***************************************************************************)
(* Theorems about the spend ledger, for any number of settles, any budgets *)
(* and windows, any number of crashes, and a store that loses, delays or   *)
(* reorders what it is sent.                                               *)
(*                                                                         *)
(* A reservation id is handed out again after a restart that did not see   *)
(* its row, so an id does not name a settle for ever.  The invariants say  *)
(* where it does: among the entries of one process (OrderInv), and between *)
(* a running settle and its entry (ActiveInv).  BookInv follows one        *)
(* reservation through memory, the writes on their way and its row.        *)
(***************************************************************************)
EXTENDS SpendLedger, FiniteSums, SequenceTheorems

-----------------------------------------------------------------------------
(* The inductive invariant.                                                *)

\* The settles that hold, or held, a reservation.
Reserved == {r \in Requests : pc[r] \notin {"idle", "refused"}}

Active(r) == pc[r] \in {"reserved", "submitted", "reconciling"}

Phases == Over \cup {"reserved", "submitted", "reconciling", "died"}

TypeInv ==
  /\ now \in Epoch..End /\ up \in BOOLEAN
  /\ globalSpend \in Seq(EntryType) /\ writes \in Seq(EntryType)
  /\ counted \subseteq Reserved
  /\ lastDbCleanupAt \in 0..End
  /\ pc \in [Requests -> Phases]
  /\ ident \in [Requests -> Identity \cup {None}]
  /\ token \in [Requests -> Ids \cup {0}]
  /\ madeAt \in [Requests -> 0..End]
  /\ \A r \in Reserved : ident[r] \in Identity /\ madeAt[r] \in Epoch..now
  /\ rows \in [Ids -> EntryType \cup {None}]
  /\ \A cutoff \in sweeps : cutoff \in Int /\ cutoff <= now - Window
  /\ issued \subseteq [owner : Reserved, at : 0..End, stroops : 0..Estimate]
  /\ untidy \subseteq Requests

\* Ids are bounded by the number of reservations made.
TokenInv ==
  /\ nextReservationId \in 1..(Cardinality(Reserved) + 1)
  /\ \A r \in Reserved : token[r] \in 1..Cardinality(Reserved)

\* An entry wherever it is: it is its owner's, and was booked before.
Genuine(e) ==
  /\ e.owner \in Reserved /\ e.id = token[e.owner]
  /\ \/ e.at = 0
     \/ e.at = madeAt[e.owner] /\ Budgeted(e) \in issued

OwnerInv ==
  /\ \A n \in DOMAIN globalSpend : Genuine(globalSpend[n]) /\ globalSpend[n].at # 0
  /\ \A i \in DOMAIN writes : Genuine(writes[i])
  /\ \A id \in Ids : rows[id] # None => Genuine(rows[id]) /\ rows[id].id = id

\* In one process ids are handed out in ascending order.
OrderInv ==
  /\ \A m, n \in DOMAIN globalSpend : m < n => globalSpend[m].id < globalSpend[n].id
  /\ \A n \in DOMAIN globalSpend : globalSpend[n].id < nextReservationId

\* What a running settle finds under its id is its own, at the estimate until
\* it is corrected.
ActiveInv ==
  /\ ~up => globalSpend = <<>>
  /\ \A r \in Requests : Active(r) =>
       /\ up /\ token[r] < nextReservationId
       /\ \A n \in DOMAIN globalSpend : globalSpend[n].id = token[r] =>
            /\ globalSpend[n].owner = r
            /\ pc[r] # "reconciling" => globalSpend[n].stroops = Estimate

\* The last write of r on its way.
LastOf(r, i) ==
  /\ i \in DOMAIN writes /\ writes[i].owner = r
  /\ \A j \in DOMAIN writes : writes[j].owner = r => j <= i

\* The store has, or will have when r's writes have landed, one of E for r.
NewestIn(r, E) ==
  /\ \A i \in DOMAIN writes : LastOf(r, i) => writes[i] \in E
  /\ ~Pending(r) => rows[token[r]] \in E

\* A row that says nothing about a live reservation of r.
Absent(r) == {None} \cup {e \in EntryType : e.owner # r \/ e.at = 0}

Unbooked(r) ==
  /\ NewestIn(r, Absent(r))
  /\ \A n \in DOMAIN globalSpend : globalSpend[n].owner # r

\* No write of another settle lands on r's row after r's own.
Undisturbed(r) ==
  \A i \in DOMAIN writes : writes[i].id = token[r] /\ writes[i].owner # r =>
    \E j \in DOMAIN writes : j > i /\ writes[j].owner = r

BookedAs(r, e) ==
  /\ NewestIn(r, {e})
  /\ e.owner = r /\ e.at = madeAt[r]
  /\ up => \E n \in DOMAIN globalSpend : globalSpend[n] = e

\* Where the reservation of r is while its writes land in order.
Accounted(r) ==
  IF pc[r] = "refunded" THEN Unbooked(r)
  ELSE Undisturbed(r) /\ \E e \in EntryType : BookedAs(r, e)

BookInv ==
  \A r \in Reserved \ untidy : madeAt[r] > now - Window => Accounted(r)

LedgerInv == TypeInv /\ TokenInv /\ OwnerInv /\ OrderInv /\ ActiveInv

-----------------------------------------------------------------------------
(* Lemmas about orders and sequences.                                      *)

LEMMA LeastIn ==
  ASSUME NEW S, S \subseteq Nat, S # {}
  PROVE  Min(S) \in S /\ \A y \in S : Min(S) <= y
<1>1. \E n \in S : \A m \in S : n <= m
  BY LeastNatural
<1> QED BY <1>1 DEF Min

LEMMA GreatestIn ==
  ASSUME NEW S, IsFiniteSet(S)
  PROVE  S \subseteq Nat /\ S # {} =>
           Max(S) \in S /\ \A y \in S : y <= Max(S)
<1> DEFINE Top(s) == \E n \in s : \A m \in s : m <= n
           U == {s \in SUBSET S : s # {} /\ ~Top(s)}
<1>0. U # {} => \E s \in U : \A t \in U : ~(t \subseteq s /\ t # s)
  <2>1. U \in SUBSET (SUBSET S)
    OBVIOUS
  <2> HIDE DEF U
  <2> QED BY <2>1, LeastSubset
<1> HAVE S \subseteq Nat /\ S # {}
<1>1. U = {}
  <2> SUFFICES ASSUME U # {} PROVE FALSE
    OBVIOUS
  <2>1. PICK s \in U : \A t \in U : ~(t \subseteq s /\ t # s)
    BY <1>0
  <2>2. PICK p \in s : TRUE
    BY <2>1
  <2>3. s \ {p} \notin U
    BY <2>1, <2>2
  <2>4. CASE s \ {p} = {}
    <3>1. \A m \in s : m <= p
      BY <2>2, <2>4
    <3> QED BY <2>1, <2>2, <3>1
  <2>5. CASE s \ {p} # {}
    <3>1. PICK n \in s \ {p} : \A m \in s \ {p} : m <= n
      BY <2>1, <2>3, <2>5
    <3>2. n \in Nat /\ p \in Nat /\ \A m \in s : m \in Nat
      BY <2>1, <2>2, <3>1
    <3>3. (\A m \in s : m <= n) \/ (\A m \in s : m <= p)
      BY <3>1, <3>2
    <3> QED BY <2>1, <2>2, <3>1, <3>3
  <2> QED BY <2>4, <2>5
<1>2. Top(S)
  BY <1>1
<1>3. \E x \in S : \A y \in S : x >= y
  BY <1>2
<1> QED BY <1>3 DEF Max

LEMMA AscendingOrder ==
  ASSUME NEW S, IsFiniteSet(S)
  PROVE  S \subseteq Nat =>
         /\ Ascending(S) \in [1..Cardinality(S) -> S]
         /\ \A m, n \in 1..Cardinality(S) : m < n => Ascending(S)[m] < Ascending(S)[n]
         /\ \A x \in S : \E n \in 1..Cardinality(S) : Ascending(S)[n] = x
<1> DEFINE Grows(order) == \A m, n \in DOMAIN order : m < n => order[m] < order[n]
           Ordered(s) == \E order \in [1..Cardinality(s) -> s] : Grows(order)
           U == {s \in SUBSET S : ~Ordered(s)}
<1>0. U # {} => \E s \in U : \A t \in U : ~(t \subseteq s /\ t # s)
  <2>1. U \in SUBSET (SUBSET S)
    OBVIOUS
  <2> HIDE DEF U
  <2> QED BY <2>1, LeastSubset
<1> HAVE S \subseteq Nat
<1>1. U = {}
  <2> SUFFICES ASSUME U # {} PROVE FALSE
    OBVIOUS
  <2>1. PICK s \in U : \A t \in U : ~(t \subseteq s /\ t # s)
    BY <1>0
  <2>2. IsFiniteSet(s) /\ Cardinality(s) \in Nat /\ s \in SUBSET Nat
    BY <2>1, FS_Subset, FS_CardinalityType
  <2>3. CASE s = {}
    <3> DEFINE order == [n \in 1..0 |-> 0]
    <3>1. Cardinality(s) = 0
      BY <2>3, FS_EmptySet
    <3>2. order \in [1..Cardinality(s) -> s] /\ Grows(order)
      BY <3>1
    <3> QED BY <2>1, <3>2
  <2>4. CASE s # {}
    <3> DEFINE top == Max(s)
               t == s \ {top}
               k == Cardinality(s)
    <3>1. top \in s /\ \A y \in s : y <= top
      BY <2>2, <2>4, GreatestIn
    <3> HIDE DEF top
    <3>2. Cardinality(t) = k - 1
      BY <2>2, <3>1, FS_RemoveElement
    <3>3. t \notin U /\ t \in SUBSET S
      BY <2>1, <3>1
    <3>4. PICK order \in [1..(k - 1) -> t] : Grows(order)
      BY <3>2, <3>3
    <3> DEFINE more == [n \in 1..k |-> IF n = k THEN top ELSE order[n]]
    <3>5. \A n \in 1..(k - 1) : order[n] \in t
      BY <3>4
    <3>6. k \in Nat /\ \A n \in 1..k : n # k => n \in 1..(k - 1)
      BY <2>2
    <3>7. more \in [1..k -> s]
      BY <3>1, <3>5, <3>6
    <3>8. \A y \in t : y < top
      BY <2>2, <3>1
    <3>9. \A m, n \in 1..k : m < n => more[m] < more[n]
      <4> SUFFICES ASSUME NEW m \in 1..k, NEW n \in 1..k, m < n
                   PROVE  more[m] < more[n]
        OBVIOUS
      <4>1. m \in 1..(k - 1) /\ more[m] = order[m]
        BY <3>6
      <4>2. CASE n = k
        BY <3>5, <3>8, <4>1, <4>2
      <4>3. CASE n # k
        <5>1. n \in 1..(k - 1) /\ more[n] = order[n]
          BY <3>6, <4>3
        <5> QED BY <3>4, <4>1, <5>1
      <4> QED BY <4>2, <4>3
    <3> QED BY <2>1, <3>7, <3>9
  <2> QED BY <2>3, <2>4
<1>2. Ordered(S)
  BY <1>1
<1> DEFINE o == Ascending(S)
<1>3. o \in [1..Cardinality(S) -> S] /\ Grows(o)
  BY <1>2 DEF Ascending
<1> HIDE DEF o
<1>4. Cardinality(S) \in Nat
  BY FS_CardinalityType
<1>5. \A m, n \in 1..Cardinality(S) : o[m] = o[n] => m = n
  <2> SUFFICES ASSUME NEW m \in 1..Cardinality(S), NEW n \in 1..Cardinality(S),
                      o[m] = o[n], m # n
               PROVE  FALSE
    OBVIOUS
  <2>1. m < n \/ n < m
    BY <1>4
  <2>2. o[m] \in Nat /\ o[n] \in Nat
    BY <1>3
  <2> QED BY <1>3, <2>1, <2>2
<1>6. o \in Injection(1..Cardinality(S), S)
  BY <1>3, <1>5 DEF Injection, IsInjective
<1>7. o \in Surjection(1..Cardinality(S), S)
  <2>1. Cardinality(1..Cardinality(S)) = Cardinality(S)
    BY <1>4, FS_Interval
  <2> QED BY <1>6, <2>1, FS_Injection
<1> QED BY <1>3, <1>7 DEF o, Surjection

\* The sequence s without its k-th element.
LEMMA Removed ==
  ASSUME NEW T, NEW s \in Seq(T), NEW k \in 1..Len(s)
  PROVE  /\ RemoveAt(s, k) \in Seq(T)
         /\ Len(RemoveAt(s, k)) = Len(s) - 1
         /\ \A n \in 1..(Len(s) - 1) :
              RemoveAt(s, k)[n] = s[IF n < k THEN n ELSE n + 1]
<1> DEFINE a == SubSeq(s, 1, k - 1)
           b == SubSeq(s, k + 1, Len(s))
<1>0. Len(s) \in Nat /\ \A i \in 1..Len(s) : s[i] \in T
  BY LenProperties, ElementOfSeq
<1>1. /\ a \in Seq(T) /\ Len(a) = k - 1
      /\ \A i \in 1..(k - 1) : a[i] = s[i]
  <2>1. 1 \in Int /\ k - 1 \in Int /\ \A i \in 1..(k - 1) : s[i] \in T
    BY <1>0
  <2>2. /\ a \in Seq(T) /\ Len(a) = IF 1 <= k - 1 THEN (k - 1) - 1 + 1 ELSE 0
        /\ \A i \in 1..((k - 1) - 1 + 1) : a[i] = s[1 + i - 1]
    BY <2>1, SubSeqProperties
  <2> HIDE DEF a
  <2> QED BY <1>0, <2>2
<1>2. /\ b \in Seq(T) /\ Len(b) = Len(s) - k
      /\ \A i \in 1..(Len(s) - k) : b[i] = s[i + k]
  <2>1. k + 1 \in Int /\ Len(s) \in Int /\ \A i \in (k + 1)..Len(s) : s[i] \in T
    BY <1>0
  <2>2. /\ b \in Seq(T)
        /\ Len(b) = IF k + 1 <= Len(s) THEN Len(s) - (k + 1) + 1 ELSE 0
        /\ \A i \in 1..(Len(s) - (k + 1) + 1) : b[i] = s[(k + 1) + i - 1]
    BY <2>1, SubSeqProperties
  <2> HIDE DEF b
  <2> QED BY <1>0, <2>2
<1> HIDE DEF a, b
<1>3. /\ a \o b \in Seq(T)
      /\ Len(a \o b) = Len(a) + Len(b)
      /\ \A i \in 1..(Len(a) + Len(b)) :
           (a \o b)[i] = IF i <= Len(a) THEN a[i] ELSE b[i - Len(a)]
  BY <1>1, <1>2, ConcatProperties
<1>4. Len(a) + Len(b) = Len(s) - 1
  BY <1>0, <1>1, <1>2
<1>5. ASSUME NEW n \in 1..(Len(s) - 1)
      PROVE  (a \o b)[n] = s[IF n < k THEN n ELSE n + 1]
  <2>1. CASE n < k
    BY <1>0, <1>1, <1>3, <1>4, <2>1
  <2>2. CASE ~(n < k)
    <3>1. n - (k - 1) \in 1..(Len(s) - k) /\ ~(n <= k - 1)
      BY <1>0, <2>2
    <3>2. (a \o b)[n] = b[n - (k - 1)]
      BY <1>1, <1>3, <1>4, <3>1
    <3>3. b[n - (k - 1)] = s[n - (k - 1) + k] /\ n - (k - 1) + k = n + 1
      BY <1>0, <1>2, <3>1
    <3> QED BY <2>2, <3>2, <3>3
  <2> QED BY <2>1, <2>2
<1> QED BY <1>3, <1>4, <1>5 DEF RemoveAt, a, b

LEMMA Appended ==
  ASSUME NEW T, NEW s \in Seq(T), NEW e \in T
  PROVE  /\ s \o <<e>> = Append(s, e)
         /\ Append(s, e) \in Seq(T)
         /\ Len(Append(s, e)) = Len(s) + 1
         /\ \A n \in 1..Len(s) : Append(s, e)[n] = s[n]
         /\ Append(s, e)[Len(s) + 1] = e
BY AppendProperties, AppendIsConcat

\* t is s without the entries at all places but f.
Keeps(t, s, f) ==
  /\ f \in [1..Len(t) -> 1..Len(s)]
  /\ \A m, n \in 1..Len(t) : m < n => f[m] < f[n]
  /\ \A n \in 1..Len(t) : t[n] = s[f[n]]

\* The filter of evaluate() keeps the entries of the window, in their order.
LEMMA LiveEntries ==
  ASSUME globalSpend \in Seq(EntryType)
  PROVE  /\ LiveSpend \in Seq(EntryType)
         /\ \A n \in 1..Len(LiveSpend) : InWindow(LiveSpend[n])
         /\ \E f : /\ Keeps(LiveSpend, globalSpend, f)
                   /\ \A m \in 1..Len(globalSpend) : InWindow(globalSpend[m]) =>
                        \E n \in 1..Len(LiveSpend) : f[n] = m
<1> DEFINE S == {i \in DOMAIN globalSpend : InWindow(globalSpend[i])}
           kept == Ascending(S)
           live == [n \in DOMAIN kept |-> globalSpend[kept[n]]]
<1>1. /\ Len(globalSpend) \in Nat /\ DOMAIN globalSpend = 1..Len(globalSpend)
      /\ \A i \in 1..Len(globalSpend) : globalSpend[i] \in EntryType
  BY LenProperties, ElementOfSeq
<1>2. S \subseteq 1..Len(globalSpend) /\ IsFiniteSet(S) /\ Cardinality(S) \in Nat
  <2>1. S \in SUBSET (1..Len(globalSpend))
    BY <1>1
  <2>2. IsFiniteSet(1..Len(globalSpend))
    BY <1>1, FS_Interval
  <2> HIDE DEF S
  <2> QED BY <2>1, <2>2, FS_Subset, FS_CardinalityType
<1>3. S \subseteq Nat
  BY <1>1, <1>2
<1>4. /\ kept \in [1..Cardinality(S) -> S]
      /\ \A m, n \in 1..Cardinality(S) : m < n => kept[m] < kept[n]
      /\ \A x \in S : \E n \in 1..Cardinality(S) : kept[n] = x
  <2> HIDE DEF S
  <2> QED BY <1>2, <1>3, AscendingOrder
<1>5. LiveSpend = live
  BY DEF LiveSpend
<1>6. \A n \in 1..Cardinality(S) : kept[n] \in S /\ live[n] = globalSpend[kept[n]]
  <2> HIDE DEF S, kept
  <2> QED BY <1>4
<1>7. live \in Seq(EntryType) /\ Len(live) = Cardinality(S)
  <2>1. live \in [1..Cardinality(S) -> EntryType]
    <3>1. DOMAIN kept = 1..Cardinality(S)
      <4> HIDE DEF S, kept
      <4> QED BY <1>4
    <3> HIDE DEF S, kept
    <3> QED BY <1>1, <1>2, <1>6, <3>1
  <2> HIDE DEF live, kept, S
  <2> QED BY <1>2, <2>1
<1> HIDE DEF live, kept
<1>8. \A n \in 1..Len(live) : InWindow(live[n])
  BY <1>6, <1>7
<1>9. Keeps(live, globalSpend, kept)
  <2> HIDE DEF S
  <2> QED BY <1>2, <1>4, <1>6, <1>7 DEF Keeps
<1>10. \A m \in 1..Len(globalSpend) : InWindow(globalSpend[m]) =>
         \E n \in 1..Len(live) : kept[n] = m
  BY <1>1, <1>4, <1>7
<1> QED BY <1>5, <1>7, <1>8, <1>9, <1>10

LEMMA EvaluatedEntries ==
  ASSUME globalSpend \in Seq(EntryType), NEW i
  PROVE  /\ Evaluated(i) \in Seq(EntryType)
         /\ \E f : /\ Keeps(Evaluated(i), globalSpend, f)
                   /\ \A m \in 1..Len(globalSpend) : InWindow(globalSpend[m]) =>
                        \E n \in 1..Len(Evaluated(i)) : f[n] = m
<1>1. CASE RateLimited(i)
  <2> DEFINE f == [n \in 1..Len(globalSpend) |-> n]
  <2>1. Len(globalSpend) \in Nat
    OBVIOUS
  <2>2. Keeps(globalSpend, globalSpend, f)
    BY <2>1 DEF Keeps
  <2>3. \A m \in 1..Len(globalSpend) : \E n \in 1..Len(globalSpend) : f[n] = m
    OBVIOUS
  <2> QED BY <1>1, <2>2, <2>3 DEF Evaluated
<1>2. CASE ~RateLimited(i)
  BY <1>2, LiveEntries DEF Evaluated
<1> QED BY <1>1, <1>2

\* findIndex: the first entry with the id, or none.
LEMMA FoundById ==
  ASSUME globalSpend \in Seq(EntryType), NEW r
  PROVE  /\ Index(r) = 0 => \A n \in 1..Len(globalSpend) : globalSpend[n].id # token[r]
         /\ Index(r) # 0 => /\ Index(r) \in 1..Len(globalSpend)
                            /\ globalSpend[Index(r)].id = token[r]
<1> DEFINE I == {n \in 1..Len(globalSpend) : globalSpend[n].id = token[r]}
<1>1. Index(r) = IF I # {} THEN Min(I) ELSE 0
  BY DEF Index, SelectInSeq, HasToken
<1>2. I \subseteq Nat
  OBVIOUS
<1>3. I # {} => Min(I) \in I
  <2> HIDE DEF I
  <2> QED BY <1>2, LeastIn
<1> QED BY <1>1, <1>3

\* splice() of the entry found, or nothing.
LEMMA SplicedEntries ==
  ASSUME globalSpend \in Seq(EntryType), NEW r
  PROVE  /\ Spliced(r) \in Seq(EntryType)
         /\ Index(r) = 0 => Spliced(r) = globalSpend
         /\ Index(r) # 0 =>
              \E f : /\ Keeps(Spliced(r), globalSpend, f)
                     /\ \A n \in 1..Len(Spliced(r)) : f[n] # Index(r)
                     /\ \A m \in 1..Len(globalSpend) : m # Index(r) =>
                          \E n \in 1..Len(Spliced(r)) : f[n] = m
<1> DEFINE t == Spliced(r)
<1>1. t = IF Index(r) # 0 THEN RemoveAt(globalSpend, Index(r)) ELSE globalSpend
  <2>1. Index(r) = SelectInSeq(globalSpend, LAMBDA e : HasToken(r, e))
    BY DEF Index
  <2>2. Index(r) # 0 <=> \E n \in 1..Len(globalSpend) : HasToken(r, globalSpend[n])
    BY FoundById DEF HasToken
  <2> QED BY <2>1, <2>2 DEF Spliced, RemoveFirstMatch
<1> HIDE DEF t
<1>2. CASE Index(r) = 0
  BY <1>1, <1>2 DEF t
<1>3. CASE Index(r) # 0
  <2> DEFINE k == Index(r)
             f == [n \in 1..(Len(globalSpend) - 1) |-> IF n < k THEN n ELSE n + 1]
  <2>1. k \in 1..Len(globalSpend) /\ Len(globalSpend) \in Nat
    BY <1>3, FoundById
  <2>2. t = RemoveAt(globalSpend, k)
    BY <1>1, <1>3
  <2> HIDE DEF k
  <2>3. /\ t \in Seq(EntryType) /\ Len(t) = Len(globalSpend) - 1
        /\ \A n \in 1..(Len(globalSpend) - 1) : t[n] = globalSpend[IF n < k THEN n ELSE n + 1]
    BY <2>1, <2>2, Removed
  <2>4. \A n \in 1..(Len(globalSpend) - 1) : f[n] \in 1..Len(globalSpend) /\ f[n] # k
    BY <2>1
  <2>5. Keeps(t, globalSpend, f)
    <3>1. f \in [1..Len(t) -> 1..Len(globalSpend)]
      BY <2>3, <2>4
    <3>2. \A m, n \in 1..Len(t) : m < n => f[m] < f[n]
      BY <2>1, <2>3
    <3>3. \A n \in 1..Len(t) : t[n] = globalSpend[f[n]]
      BY <2>3
    <3> HIDE DEF f
    <3> QED BY <3>1, <3>2, <3>3 DEF Keeps
  <2>6. ASSUME NEW m \in 1..Len(globalSpend), m # k
        PROVE  \E n \in 1..(Len(globalSpend) - 1) : f[n] = m
    <3>1. CASE m < k
      <4>1. m \in 1..(Len(globalSpend) - 1) /\ f[m] = m
        BY <2>1, <3>1
      <4> QED BY <4>1
    <3>2. CASE ~(m < k)
      <4>1. m - 1 \in 1..(Len(globalSpend) - 1) /\ f[m - 1] = m
        BY <2>1, <2>6, <3>2
      <4> QED BY <4>1
    <3> QED BY <3>1, <3>2
  <2>7. \A n \in 1..Len(t) : f[n] # k
    BY <2>3, <2>4
  <2>8. \A m \in 1..Len(globalSpend) : m # k => \E n \in 1..Len(t) : f[n] = m
    BY <2>3, <2>6
  <2> HIDE DEF f
  <2> QED BY <1>3, <2>3, <2>5, <2>7, <2>8 DEF k, t
<1> QED BY <1>2, <1>3

-----------------------------------------------------------------------------
(* What a step does.                                                       *)

LEMMA SmallSets ==
  /\ Reserved \subseteq Requests /\ IsFiniteSet(Reserved)
  /\ Cardinality(Reserved) \in Nat /\ Cardinality(Requests) \in Nat
  /\ Cardinality(Reserved) <= Cardinality(Requests)
BY LedgerAssumption, FS_Subset, FS_CardinalityType DEF Reserved

\* The entry at k becomes e, and e is sent to the store.
Lowers(r, k, e) ==
  /\ k \in 1..Len(globalSpend) /\ e \in EntryType
  /\ globalSpend[k].id = token[r] /\ globalSpend[k].owner = r
  /\ e.owner = r /\ e.id = globalSpend[k].id /\ e.at = globalSpend[k].at
  /\ e.stroops <= globalSpend[k].stroops
  /\ globalSpend' = [globalSpend EXCEPT ![k] = e]
  /\ writes' = Append(writes, e)
  /\ issued' = issued \cup {Budgeted(e)}

\* What submitting, keeping, correcting and reconciling have in common.
Runs(r) ==
  /\ up /\ Active(r)
  /\ \E to \in {"submitted", "reconciling", "done"} :
       /\ pc' = [pc EXCEPT ![r] = to]
       /\ to = "submitted" => pc[r] = "reserved"
       /\ \/ UNCHANGED <<globalSpend, writes, issued>>
          \/ to # "submitted" /\ \E k, e : Lowers(r, k, e)
  /\ StepUnchanged

LEMMA AdjustEffect ==
  ASSUME LedgerInv, NEW r \in Requests, Active(r), NEW s \in 0..Estimate,
         AdjustReservation(r, s),
         \A k \in 1..Len(globalSpend) : k = Index(r) => s <= globalSpend[k].stroops
  PROVE  \/ UNCHANGED <<globalSpend, writes, issued>>
         \/ \E k, e : Lowers(r, k, e)
<1>1. CASE Index(r) = 0
  BY <1>1 DEF AdjustReservation
<1>2. CASE Index(r) # 0
  <2> DEFINE k == Index(r)
             e == [globalSpend[k] EXCEPT !.stroops = s]
  <2>1. globalSpend \in Seq(EntryType) /\ writes \in Seq(EntryType)
    BY DEF LedgerInv, TypeInv
  <2>2. k \in 1..Len(globalSpend) /\ globalSpend[k].id = token[r]
    BY <1>2, <2>1, FoundById
  <2>3. globalSpend[k] \in EntryType /\ k \in DOMAIN globalSpend
    BY <2>1, <2>2
  <2>4. globalSpend[k].owner = r
    BY <2>2, <2>3 DEF LedgerInv, ActiveInv
  <2>5. /\ globalSpend' = [globalSpend EXCEPT ![k] = e]
        /\ writes' = writes \o <<[e EXCEPT !.owner = r]>>
        /\ issued' = issued \cup {[owner |-> e.owner, at |-> e.at, stroops |-> s]}
    BY <1>2 DEF AdjustReservation, ReplaceAt, Persist
  <2>6. s <= globalSpend[k].stroops
    BY <2>2
  <2> HIDE DEF k
  <2>7. /\ e \in EntryType /\ e.owner = r /\ e.stroops = s
        /\ e.id = globalSpend[k].id /\ e.at = globalSpend[k].at
        /\ [e EXCEPT !.owner = r] = e
    BY <2>3, <2>4 DEF EntryType
  <2> HIDE DEF e
  <2>8. writes' = Append(writes, e)
    BY <2>1, <2>5, <2>7, Appended
  <2>9. issued' = issued \cup {Budgeted(e)}
    BY <2>5, <2>7 DEF Budgeted
  <2>10. Lowers(r, k, e)
    BY <2>2, <2>4, <2>5, <2>6, <2>7, <2>8, <2>9 DEF Lowers
  <2> QED BY <2>10
<1> QED BY <1>1, <1>2

LEMMA RunSteps ==
  ASSUME LedgerInv, NEW r \in Requests,
         Submit(r) \/ KeepEstimate(r) \/ Correct(r) \/ Reconcile(r)
  PROVE  Runs(r)
<1>1. CASE Submit(r)
  BY <1>1 DEF Submit, Runs, Goto, Active
<1>2. CASE KeepEstimate(r)
  BY <1>2 DEF KeepEstimate, Runs, Goto, Active
<1>3. CASE Correct(r)
  <2>1. PICK fee \in 1..Estimate : AdjustReservation(r, fee)
    BY <1>3 DEF Correct
  <2>2. up /\ pc[r] = "submitted" /\ pc' = [pc EXCEPT ![r] = "reconciling"] /\ Active(r)
    BY <1>3 DEF Correct, Goto, Active
  <2>3. \A k \in 1..Len(globalSpend) : globalSpend[k].id = token[r] =>
          globalSpend[k].stroops = Estimate
    BY <2>2 DEF LedgerInv, ActiveInv, TypeInv
  <2>4. fee \in 0..Estimate /\ fee <= Estimate
    BY LedgerAssumption
  <2>5. \A k \in 1..Len(globalSpend) : k = Index(r) => fee <= globalSpend[k].stroops
    BY <2>3, <2>4, FoundById, LedgerAssumption DEF LedgerInv, TypeInv
  <2>6. \/ UNCHANGED <<globalSpend, writes, issued>>
        \/ \E k, e : Lowers(r, k, e)
    BY <2>1, <2>2, <2>4, <2>5, AdjustEffect
  <2> QED BY <1>3, <2>2, <2>6 DEF Correct, Runs
<1>4. CASE Reconcile(r)
  <2>1. up /\ pc[r] = "reconciling" /\ pc' = [pc EXCEPT ![r] = "done"] /\ Active(r)
    BY <1>4 DEF Reconcile, Goto, Active
  <2>2. ASSUME NEW charged \in 0..Booked(r), AdjustReservation(r, charged)
        PROVE  \/ UNCHANGED <<globalSpend, writes, issued>>
               \/ \E k, e : Lowers(r, k, e)
    <3>1. CASE Index(r) = 0
      BY <2>2, <3>1 DEF AdjustReservation
    <3>2. CASE Index(r) # 0
      <4>1. globalSpend \in Seq(EntryType)
        BY DEF LedgerInv, TypeInv
      <4>2. Index(r) \in 1..Len(globalSpend)
        BY <3>2, <4>1, FoundById
      <4>3. globalSpend[Index(r)].stroops \in 0..Estimate
        <5>1. globalSpend[Index(r)] \in EntryType
          BY <4>1, <4>2, ElementOfSeq
        <5> QED BY <5>1 DEF EntryType
      <4>4. charged \in 0..Estimate /\ charged <= globalSpend[Index(r)].stroops
        <5> DEFINE b == Booked(r)
        <5>1. b = globalSpend[Index(r)].stroops
          BY <3>2 DEF Booked
        <5>2. charged \in 0..b
          OBVIOUS
        <5> HIDE DEF b
        <5>3. b \in 0..Estimate /\ Estimate \in Nat
          BY <4>3, <5>1, LedgerAssumption
        <5> QED BY <5>1, <5>2, <5>3
      <4>5. \A k \in 1..Len(globalSpend) :
              k = Index(r) => charged <= globalSpend[k].stroops
        BY <4>4
      <4>6. Active(r) /\ AdjustReservation(r, charged)
        BY <2>1, <2>2
      <4> QED BY <4>4, <4>5, <4>6, AdjustEffect
    <3> QED BY <3>1, <3>2
  <2>3. \/ UNCHANGED <<globalSpend, writes, issued>>
        \/ \E k, e : Lowers(r, k, e)
    BY <1>4, <2>2 DEF Reconcile
  <2> QED BY <1>4, <2>1, <2>3 DEF Reconcile, Runs
<1> QED BY <1>1, <1>2, <1>3, <1>4

\* A reservation is made once and its id, time and identity stay.
LEMMA ReservationsLast ==
  ASSUME TypeInv, [Next]_vars
  PROVE  /\ Reserved \subseteq Reserved' /\ issued \subseteq issued'
         /\ \A r \in Reserved : /\ token'[r] = token[r] /\ madeAt'[r] = madeAt[r]
                                /\ ident'[r] = ident[r]
         /\ now <= now'
<1> USE DEF Reserved
<1>0. now \in Int /\ pc \in [Requests -> Phases]
  BY LedgerAssumption DEF TypeInv
<1>1. ASSUME NEW r \in Requests, NEW i \in Identity, Refuse(r, i) \/ Reserve(r, i)
      PROVE  /\ Reserved \subseteq Reserved' /\ issued \subseteq issued'
             /\ \A q \in Reserved : /\ token'[q] = token[q] /\ madeAt'[q] = madeAt[q]
                                    /\ ident'[q] = ident[q]
             /\ now <= now'
  <2>1. CASE Refuse(r, i)
    BY <1>0, <2>1 DEF Refuse
  <2>2. CASE Reserve(r, i)
    <3>1. pc[r] = "idle" /\ UNCHANGED now /\ pc' = [pc EXCEPT ![r] = "reserved"]
      BY <2>2 DEF Reserve
    <3>2. /\ ident' = [ident EXCEPT ![r] = i] /\ issued \subseteq issued'
          /\ token' = [token EXCEPT ![r] = nextReservationId]
          /\ madeAt' = [madeAt EXCEPT ![r] = now]
      BY <2>2 DEF Reserve
    <3>3. ident \in [Requests -> Identity \cup {None}]
          /\ token \in [Requests -> Ids \cup {0}] /\ madeAt \in [Requests -> 0..End]
      BY DEF TypeInv
    <3> QED BY <1>0, <3>1, <3>2, <3>3
  <2> QED BY <1>1, <2>1, <2>2
<1>2. ASSUME NEW r \in Requests,
             \/ Submit(r) \/ RefundUnspent(r) \/ KeepEstimate(r)
             \/ Correct(r) \/ Reconcile(r)
      PROVE  /\ Reserved \subseteq Reserved' /\ issued \subseteq issued'
             /\ UNCHANGED <<token, madeAt, ident, now>>
  <2>1. UNCHANGED <<token, madeAt, ident, now>>
    BY <1>2 DEF Submit, RefundUnspent, KeepEstimate, Correct, Reconcile, StepUnchanged
  <2>2. issued \subseteq issued'
    BY <1>2 DEF Submit, RefundUnspent, KeepEstimate, Correct, Reconcile,
       AdjustReservation
  <2>3. \E from \in {"reserved", "submitted", "reconciling"},
            to \in {"submitted", "refunded", "done", "reconciling"} : Goto(r, from, to)
    BY <1>2 DEF Submit, RefundUnspent, KeepEstimate, Correct, Reconcile
  <2>4. Reserved \subseteq Reserved'
    BY <1>0, <2>3 DEF Goto
  <2> QED BY <2>1, <2>2, <2>4
<1>3. CASE Database
  BY <1>0, <1>3 DEF Database, SaveSpendReservation, DeleteElapsedSpendReservations,
     StoreUnchanged, requestVars
<1>4. CASE Crash
  BY <1>0, <1>4 DEF Crash, Over
<1>5. CASE Boot \/ Tick \/ UNCHANGED vars
  BY <1>0, <1>5 DEF Boot, Tick, vars, requestVars
<1> QED BY <1>0, <1>1, <1>2, <1>3, <1>4, <1>5 DEF Next, Request

LEMMA ReservedStays ==
  ASSUME TypeInv
  PROVE  /\ \A r \in Requests : Runs(r) \/ RefundUnspent(r) => Reserved' = Reserved
         /\ \A r \in Requests, i \in Identity : Refuse(r, i) => Reserved' = Reserved
         /\ Database \/ Crash \/ Boot \/ Tick \/ UNCHANGED vars => Reserved' = Reserved
<1> USE DEF Reserved
<1>0. pc \in [Requests -> Phases]
  BY DEF TypeInv
<1>1. ASSUME NEW r \in Requests, NEW i \in Identity, Refuse(r, i)
      PROVE  Reserved' = Reserved
  BY <1>0, <1>1 DEF Refuse
<1>2. ASSUME NEW r \in Requests, Runs(r) PROVE Reserved' = Reserved
  <2>1. Active(r) /\ \E to \in {"submitted", "reconciling", "done"} :
                       pc' = [pc EXCEPT ![r] = to]
    BY <1>2 DEF Runs
  <2> QED BY <1>0, <2>1 DEF Active
<1>3. ASSUME NEW r \in Requests, RefundUnspent(r) PROVE Reserved' = Reserved
  BY <1>0, <1>3 DEF RefundUnspent, Goto
<1>4. CASE Crash
  BY <1>0, <1>4 DEF Crash, Over
<1>5. CASE Database \/ Boot \/ Tick \/ UNCHANGED vars
  BY <1>5 DEF Database, SaveSpendReservation, DeleteElapsedSpendReservations,
     StoreUnchanged, Boot, Tick, vars, requestVars
<1> QED BY <1>1, <1>2, <1>3, <1>4, <1>5

\* What is left of globalSpend is still in order and genuine.
LEMMA KeptEntries ==
  ASSUME LedgerInv, NEW t \in Seq(EntryType), NEW f, Keeps(t, globalSpend, f)
  PROVE  /\ \A n \in 1..Len(t) : \E m \in DOMAIN globalSpend : t[n] = globalSpend[m]
         /\ \A m, n \in DOMAIN t : m < n => t[m].id < t[n].id
<1>1. DOMAIN globalSpend = 1..Len(globalSpend) /\ DOMAIN t = 1..Len(t)
  BY LenProperties DEF LedgerInv, TypeInv
<1>2. \A n \in 1..Len(t) : f[n] \in 1..Len(globalSpend) /\ t[n] = globalSpend[f[n]]
  BY DEF Keeps
<1>3. ASSUME NEW m \in DOMAIN t, NEW n \in DOMAIN t, m < n
      PROVE  t[m].id < t[n].id
  <2>1. f[m] < f[n]
    BY <1>1, <1>3 DEF Keeps
  <2> QED BY <1>1, <1>2, <2>1 DEF LedgerInv, OrderInv
<1> QED BY <1>1, <1>2, <1>3

\* A step that at most drops entries of globalSpend, and at most sends a genuine
\* write, while nothing is reserved.
LEMMA DroppingStep ==
  ASSUME LedgerInv, [Next]_vars, Reserved' = Reserved,
         globalSpend' \in Seq(EntryType),
         \E f : Keeps(globalSpend', globalSpend, f),
         UNCHANGED <<now, up, counted, nextReservationId, lastDbCleanupAt, ident, token,
                     madeAt, rows, sweeps, issued, untidy>>,
         \A r \in Requests : Active(r)' => Active(r) /\ (pc[r] = "reconciling" => pc'[r] = "reconciling"),
         pc' \in [Requests -> Phases],
         writes' \in Seq(EntryType),
         \A i \in DOMAIN writes' :
           Genuine(writes[i])' \/ \E j \in DOMAIN writes : writes'[i] = writes[j]
  PROVE  LedgerInv'
<1>1. PICK f : Keeps(globalSpend', globalSpend, f)
  OBVIOUS
<1>2. /\ \A n \in 1..Len(globalSpend') :
           \E m \in DOMAIN globalSpend : globalSpend'[n] = globalSpend[m]
      /\ \A m, n \in DOMAIN globalSpend' : m < n => globalSpend'[m].id < globalSpend'[n].id
  BY <1>1, KeptEntries
<1>3. DOMAIN globalSpend' = 1..Len(globalSpend')
  BY LenProperties
<1>4. TypeInv'
  BY DEF LedgerInv, TypeInv
<1>5. TokenInv'
  BY DEF LedgerInv, TokenInv
<1>6. OwnerInv'
  <2>1. /\ issued' = issued
        /\ \A r \in Reserved : token'[r] = token[r] /\ madeAt'[r] = madeAt[r]
    OBVIOUS
  <2>2. \A n \in DOMAIN globalSpend' :
          Genuine(globalSpend[n])' /\ globalSpend'[n].at # 0
    BY <1>2, <1>3, <2>1 DEF LedgerInv, OwnerInv, Genuine, Budgeted
  <2>3. ASSUME NEW i \in DOMAIN writes' PROVE Genuine(writes[i])'
    <3>1. SUFFICES ASSUME NEW j \in DOMAIN writes, writes'[i] = writes[j]
                   PROVE  Genuine(writes[i])'
      OBVIOUS
    <3>2. Genuine(writes[j])
      BY DEF LedgerInv, OwnerInv
    <3> QED BY <2>1, <3>1, <3>2 DEF Genuine, Budgeted
  <2>4. \A id \in Ids : rows'[id] # None => Genuine(rows[id])' /\ rows'[id].id = id
    BY <2>1 DEF LedgerInv, OwnerInv, Genuine, Budgeted
  <2> QED BY <2>2, <2>3, <2>4 DEF OwnerInv
<1>7. OrderInv'
  BY <1>2, <1>3 DEF LedgerInv, OrderInv
<1>8. ActiveInv'
  <2>1. ~up => globalSpend' = <<>>
    <3> SUFFICES ASSUME ~up PROVE globalSpend' = <<>>
      OBVIOUS
    <3>1. DOMAIN globalSpend = {}
      BY DEF LedgerInv, ActiveInv
    <3>2. \A n \in 1..Len(globalSpend') : FALSE
      BY <1>2, <3>1
    <3>3. Len(globalSpend') \in Nat
      BY LenProperties
    <3>4. Len(globalSpend') = 0
      BY <3>2, <3>3
    <3> QED BY <3>4, EmptySeq
  <2> QED BY <1>2, <1>3, <2>1 DEF LedgerInv, ActiveInv, Active
<1> QED BY <1>4, <1>5, <1>6, <1>7, <1>8 DEF LedgerInv

-----------------------------------------------------------------------------
(* The steps, one by one.                                                  *)

LEMMA KeepsAll == ASSUME NEW s, Len(s) \in Nat PROVE \E f : Keeps(s, s, f)
<1> DEFINE f == [n \in 1..Len(s) |-> n]
<1>1. Keeps(s, s, f)
  BY DEF Keeps
<1> QED BY <1>1

LEMMA RefuseKeeps ==
  ASSUME LedgerInv, [Next]_vars, NEW r \in Requests, NEW i \in Identity, Refuse(r, i)
  PROVE  LedgerInv'
<1>1. /\ globalSpend' = Evaluated(i) /\ pc' = [pc EXCEPT ![r] = "refused"]
      /\ UNCHANGED <<now, up, counted, nextReservationId, lastDbCleanupAt, ident,
                     token, madeAt, rows, writes, sweeps, issued, untidy>>
  BY DEF Refuse, storeVars
<1>2. globalSpend' \in Seq(EntryType) /\ \E f : Keeps(globalSpend', globalSpend, f)
  BY <1>1, EvaluatedEntries DEF LedgerInv, TypeInv
<1>3. Reserved' = Reserved
  BY ReservedStays DEF LedgerInv
<1>4. pc' \in [Requests -> Phases] /\ writes' \in Seq(EntryType)
  BY <1>1 DEF LedgerInv, TypeInv, Phases, Over
<1>5. \A q \in Requests :
        Active(q)' => Active(q) /\ (pc[q] = "reconciling" => pc'[q] = "reconciling")
  BY <1>1 DEF LedgerInv, TypeInv, Active
<1>6. \A j \in DOMAIN writes' : \E k \in DOMAIN writes : writes'[j] = writes[k]
  BY <1>1
<1> QED BY <1>1, <1>2, <1>3, <1>4, <1>5, <1>6, DroppingStep

LEMMA RefundKeeps ==
  ASSUME LedgerInv, [Next]_vars, NEW r \in Requests, RefundUnspent(r)
  PROVE  LedgerInv'
<1> DEFINE e == Entry(r, token[r], 0, 0)
<1>1. /\ pc[r] = "reserved" /\ pc' = [pc EXCEPT ![r] = "refunded"]
      /\ globalSpend' = Spliced(r)
      /\ writes' = writes \o <<e>>
      /\ UNCHANGED <<now, up, counted, nextReservationId, lastDbCleanupAt, ident,
                     token, madeAt, rows, sweeps, issued, untidy>>
  BY DEF RefundUnspent, Goto, Persist, StepUnchanged
<1>2. globalSpend' \in Seq(EntryType) /\ \E f : Keeps(globalSpend', globalSpend, f)
  <2>1. globalSpend \in Seq(EntryType) /\ Len(globalSpend) \in Nat
    BY DEF LedgerInv, TypeInv
  <2>2. /\ globalSpend' \in Seq(EntryType)
        /\ Index(r) = 0 => globalSpend' = globalSpend
        /\ Index(r) # 0 => \E f : Keeps(globalSpend', globalSpend, f)
    BY <1>1, <2>1, SplicedEntries
  <2> QED BY <2>1, <2>2, KeepsAll
<1>3. Reserved' = Reserved
  BY ReservedStays DEF LedgerInv
<1>4. r \in Reserved /\ token[r] \in Ids
  <2>1. r \in Reserved
    BY <1>1 DEF Reserved
  <2>2. token[r] \in 1..Cardinality(Reserved)
    BY <2>1 DEF LedgerInv, TokenInv
  <2> QED BY <2>1, <2>2, SmallSets DEF Ids
<1>5. e \in EntryType
  BY <1>4, LedgerAssumption DEF Entry, EntryType
<1>6. writes' = Append(writes, e) /\ writes \in Seq(EntryType)
  BY <1>1, <1>5, Appended DEF LedgerInv, TypeInv
<1>7. pc' \in [Requests -> Phases] /\ writes' \in Seq(EntryType)
  BY <1>1, <1>5, <1>6, Appended DEF LedgerInv, TypeInv, Phases, Over
<1>8. \A q \in Requests :
        Active(q)' => Active(q) /\ (pc[q] = "reconciling" => pc'[q] = "reconciling")
  BY <1>1 DEF LedgerInv, TypeInv, Active
<1>9. ASSUME NEW j \in DOMAIN writes'
      PROVE  Genuine(writes[j])' \/ \E k \in DOMAIN writes : writes'[j] = writes[k]
  <2>1. j \in 1..(Len(writes) + 1) /\ Len(writes) \in Nat
    BY <1>5, <1>6, <1>7, Appended, LenProperties
  <2>2. CASE j \in 1..Len(writes)
    BY <1>5, <1>6, <2>2, Appended, LenProperties
  <2>3. CASE j = Len(writes) + 1
    <3>1. writes'[j] = e
      BY <1>5, <1>6, <2>3, Appended
    <3>2. e.owner = r /\ e.id = token[r] /\ e.at = 0
      BY DEF Entry
    <3> HIDE DEF e
    <3> QED BY <1>1, <1>3, <1>4, <3>1, <3>2 DEF Genuine
  <2> QED BY <2>1, <2>2, <2>3
<1> QED BY <1>1, <1>2, <1>3, <1>7, <1>8, <1>9, DroppingStep

LEMMA RunKeeps ==
  ASSUME LedgerInv, [Next]_vars, NEW r \in Requests, Runs(r)
  PROVE  LedgerInv'
<1>0. /\ globalSpend \in Seq(EntryType) /\ writes \in Seq(EntryType)
      /\ pc \in [Requests -> Phases] /\ Len(globalSpend) \in Nat
      /\ DOMAIN globalSpend = 1..Len(globalSpend)
  BY LenProperties DEF LedgerInv, TypeInv
<1>1. /\ up /\ Active(r)
      /\ UNCHANGED <<now, up, counted, nextReservationId, lastDbCleanupAt, ident,
                     token, madeAt, rows, sweeps, untidy>>
  BY DEF Runs, StepUnchanged
<1>2. PICK to \in {"submitted", "reconciling", "done"} :
       /\ pc' = [pc EXCEPT ![r] = to]
       /\ to = "submitted" => pc[r] = "reserved"
       /\ \/ UNCHANGED <<globalSpend, writes, issued>>
          \/ to # "submitted" /\ \E k, e : Lowers(r, k, e)
  BY DEF Runs
<1>3. Reserved' = Reserved
  BY ReservedStays DEF LedgerInv
<1>4. pc' \in [Requests -> Phases]
  BY <1>0, <1>2 DEF Phases, Over
<1>5. \A q \in Requests :
        Active(q)' => Active(q) /\ (pc[q] = "reconciling" => pc'[q] = "reconciling")
  BY <1>0, <1>1, <1>2 DEF Active
<1>6. CASE UNCHANGED <<globalSpend, writes, issued>>
  <2>1. \E f : Keeps(globalSpend', globalSpend, f)
    BY <1>0, <1>6, KeepsAll
  <2>2. \A j \in DOMAIN writes' : \E k \in DOMAIN writes : writes'[j] = writes[k]
    BY <1>6
  <2> QED BY <1>0, <1>1, <1>3, <1>4, <1>5, <1>6, <2>1, <2>2, DroppingStep
<1>7. ASSUME to # "submitted", NEW k, NEW e, Lowers(r, k, e)
      PROVE  LedgerInv'
  <2>1. /\ k \in 1..Len(globalSpend) /\ e \in EntryType
        /\ globalSpend[k].id = token[r] /\ globalSpend[k].owner = r
        /\ e.owner = r /\ e.id = globalSpend[k].id /\ e.at = globalSpend[k].at
        /\ globalSpend' = [globalSpend EXCEPT ![k] = e]
        /\ writes' = Append(writes, e)
        /\ issued' = issued \cup {Budgeted(e)}
    BY <1>7 DEF Lowers
  <2>2. /\ globalSpend' \in Seq(EntryType)
        /\ Len(globalSpend') = Len(globalSpend)
        /\ DOMAIN globalSpend' = 1..Len(globalSpend)
        /\ \A n \in 1..Len(globalSpend) :
             globalSpend'[n] = IF n = k THEN e ELSE globalSpend[n]
    BY <1>0, <2>1, ExceptSeq, LenProperties
  <2>3. /\ writes' \in Seq(EntryType) /\ Len(writes') = Len(writes) + 1
        /\ DOMAIN writes' = 1..(Len(writes) + 1) /\ Len(writes) \in Nat
        /\ \A n \in 1..Len(writes) : writes'[n] = writes[n]
        /\ writes'[Len(writes) + 1] = e
    BY <1>0, <2>1, Appended, LenProperties
  <2>4. Genuine(globalSpend[k]) /\ globalSpend[k].at # 0
    BY <1>0, <2>1 DEF LedgerInv, OwnerInv
  <2>5. /\ e.owner \in Reserved /\ e.id = token[e.owner]
        /\ e.at = madeAt[e.owner] /\ e.at # 0 /\ Budgeted(e) \in issued'
    BY <2>1, <2>4 DEF Genuine
  <2>6. TypeInv'
    <3>1. Budgeted(e) \in [owner : Reserved, at : 0..End, stroops : 0..Estimate]
      BY <2>1, <2>5 DEF Budgeted, EntryType
    <3> QED BY <1>1, <1>3, <1>4, <2>1, <2>2, <2>3, <3>1 DEF LedgerInv, TypeInv
  <2>7. TokenInv'
    BY <1>1, <1>3 DEF LedgerInv, TokenInv
  <2>8. \A x : Genuine(x) => /\ x.owner \in Reserved' /\ x.id = token'[x.owner]
                             /\ \/ x.at = 0
                                \/ x.at = madeAt'[x.owner] /\ Budgeted(x) \in issued'
    BY <1>1, <1>3, <2>1 DEF Genuine
  <2>9. OwnerInv'
    <3>1. \A n \in DOMAIN globalSpend' :
            Genuine(globalSpend[n])' /\ globalSpend'[n].at # 0
      <4> SUFFICES ASSUME NEW n \in DOMAIN globalSpend'
                   PROVE  Genuine(globalSpend[n])' /\ globalSpend'[n].at # 0
        OBVIOUS
      <4>1. CASE n = k
        BY <1>1, <1>3, <2>2, <2>5, <4>1 DEF Genuine, Budgeted
      <4>2. CASE n # k
        <5>1. n \in DOMAIN globalSpend /\ globalSpend'[n] = globalSpend[n]
          BY <1>0, <2>2, <4>2
        <5>2. Genuine(globalSpend[n]) /\ globalSpend[n].at # 0
          BY <5>1 DEF LedgerInv, OwnerInv
        <5> QED BY <2>8, <5>1, <5>2 DEF Genuine, Budgeted
      <4> QED BY <4>1, <4>2
    <3>2. ASSUME NEW n \in DOMAIN writes' PROVE Genuine(writes[n])'
      <4>1. CASE n = Len(writes) + 1
        BY <1>1, <1>3, <2>3, <2>5, <4>1 DEF Genuine, Budgeted
      <4>2. CASE n # Len(writes) + 1
        <5>1. n \in DOMAIN writes /\ writes'[n] = writes[n]
          BY <1>0, <2>3, <4>2, LenProperties
        <5>2. Genuine(writes[n])
          BY <5>1 DEF LedgerInv, OwnerInv
        <5> QED BY <2>8, <5>1, <5>2 DEF Genuine, Budgeted
      <4> QED BY <4>1, <4>2
    <3>3. \A id \in Ids : rows'[id] # None => Genuine(rows[id])' /\ rows'[id].id = id
      BY <1>1, <2>8 DEF LedgerInv, OwnerInv, Genuine, Budgeted
    <3> QED BY <3>1, <3>2, <3>3 DEF OwnerInv
  <2>10. OrderInv'
    BY <1>0, <1>1, <2>1, <2>2 DEF LedgerInv, OrderInv
  <2>11. ActiveInv'
    <3>1. ASSUME NEW q \in Requests, Active(q)',
                 NEW n \in DOMAIN globalSpend', globalSpend'[n].id = token'[q]
          PROVE  /\ globalSpend'[n].owner = q
                 /\ pc'[q] # "reconciling" => globalSpend'[n].stroops = Estimate
      <4>1. Active(q)
        BY <1>5, <3>1
      <4>2. n \in DOMAIN globalSpend /\ globalSpend[n].id = token[q]
        BY <1>0, <1>1, <2>1, <2>2, <3>1
      <4>3. globalSpend[n].owner = q
        BY <4>1, <4>2 DEF LedgerInv, ActiveInv
      <4>4. CASE n = k
        <5>1. q = r
          BY <2>1, <4>3, <4>4
        <5>2. pc'[r] = to
          BY <1>0, <1>2
        <5>3. to = "reconciling"
          BY <1>2, <1>7, <3>1, <5>1, <5>2 DEF Active
        <5> QED BY <1>0, <2>1, <2>2, <4>4, <5>1, <5>2, <5>3
      <4>5. CASE n # k
        BY <1>0, <1>5, <2>2, <3>1, <4>1, <4>2, <4>5 DEF LedgerInv, ActiveInv
      <4> QED BY <4>4, <4>5
    <3>2. \A q \in Requests : Active(q)' => up' /\ token'[q] < nextReservationId'
      BY <1>1, <1>5 DEF LedgerInv, ActiveInv
    <3> QED BY <1>1, <3>1, <3>2 DEF ActiveInv
  <2> QED BY <2>6, <2>7, <2>9, <2>10, <2>11 DEF LedgerInv
<1> QED BY <1>2, <1>6, <1>7

\* The sequence after reserve(): what evaluate() left, and the entry.
LEMMA ReservedEntries ==
  ASSUME LedgerInv, NEW r \in Requests, NEW i \in Identity, Reserve(r, i)
  PROVE  LET entry == Entry(r, nextReservationId, now, Estimate)
         IN  /\ r \notin Reserved /\ Reserved' = Reserved \cup {r}
             /\ Cardinality(Reserved') = Cardinality(Reserved) + 1
             /\ nextReservationId \in Ids /\ entry \in EntryType
             /\ globalSpend' = Append(Evaluated(i), entry)
             /\ globalSpend' \in Seq(EntryType)
             /\ Len(Evaluated(i)) \in Nat
             /\ DOMAIN globalSpend' = 1..(Len(Evaluated(i)) + 1)
             /\ globalSpend'[Len(Evaluated(i)) + 1] = entry
             /\ \A n \in 1..Len(Evaluated(i)) : /\ globalSpend'[n] = Evaluated(i)[n]
                   /\ \E m \in DOMAIN globalSpend : globalSpend'[n] = globalSpend[m]
             /\ \A m, n \in 1..Len(Evaluated(i)) : m < n => globalSpend'[m].id < globalSpend'[n].id
             /\ writes' = Append(writes, entry)
             /\ writes' \in Seq(EntryType)
             /\ Len(writes) \in Nat /\ DOMAIN writes' = 1..(Len(writes) + 1)
             /\ writes'[Len(writes) + 1] = entry
             /\ \A n \in 1..Len(writes) : writes'[n] = writes[n]
<1> DEFINE entry == Entry(r, nextReservationId, now, Estimate)
           left == Evaluated(i)
<1>1. /\ pc[r] = "idle" /\ pc' = [pc EXCEPT ![r] = "reserved"]
      /\ globalSpend' = Append(left, entry) /\ writes' = writes \o <<entry>>
  BY DEF Reserve, Persist
<1>2. /\ pc \in [Requests -> Phases] /\ writes \in Seq(EntryType)
      /\ globalSpend \in Seq(EntryType) /\ now \in 0..End
  BY LedgerAssumption DEF LedgerInv, TypeInv
<1>3. r \notin Reserved /\ Reserved' = Reserved \cup {r}
  BY <1>1, <1>2 DEF Reserved
<1>4. /\ Cardinality(Reserved') = Cardinality(Reserved) + 1
      /\ Cardinality(Reserved') <= Cardinality(Requests)
  <2>1. Cardinality(Reserved \cup {r}) = Cardinality(Reserved) + 1
    BY <1>3, SmallSets, FS_AddElement
  <2>2. Reserved \cup {r} \in SUBSET Requests
    BY SmallSets
  <2>3. Cardinality(Reserved \cup {r}) <= Cardinality(Requests)
    BY <2>2, LedgerAssumption, FS_Subset
  <2> QED BY <1>3, <2>1, <2>3
<1>5. nextReservationId \in Ids
  BY <1>4, SmallSets DEF LedgerInv, TokenInv, Ids
<1>6. entry \in EntryType
  BY <1>2, <1>5, LedgerAssumption DEF Entry, EntryType
<1> HIDE DEF entry
<1>7. left \in Seq(EntryType) /\ Len(left) \in Nat /\ DOMAIN left = 1..Len(left)
      /\ \E f : Keeps(left, globalSpend, f)
  BY <1>2, EvaluatedEntries, LenProperties
<1> HIDE DEF left
<1>8. /\ \A n \in 1..Len(left) : \E m \in DOMAIN globalSpend : left[n] = globalSpend[m]
      /\ \A m, n \in DOMAIN left : m < n => left[m].id < left[n].id
  BY <1>7, KeptEntries
<1>9. /\ globalSpend' \in Seq(EntryType) /\ Len(globalSpend') = Len(left) + 1
      /\ \A n \in 1..Len(left) : globalSpend'[n] = left[n]
      /\ globalSpend'[Len(left) + 1] = entry
  BY <1>1, <1>6, <1>7, AppendProperties
<1>10. DOMAIN globalSpend' = 1..(Len(left) + 1)
  BY <1>9, LenProperties
<1>11. /\ \A n \in 1..Len(left) : \E m \in DOMAIN globalSpend : globalSpend'[n] = globalSpend[m]
       /\ \A m, n \in 1..Len(left) : m < n => globalSpend'[m].id < globalSpend'[n].id
  BY <1>7, <1>8, <1>9
<1>12. writes' = Append(writes, entry) /\ Len(writes) \in Nat
  BY <1>1, <1>2, <1>6, Appended, LenProperties
<1>13. /\ writes' \in Seq(EntryType) /\ Len(writes') = Len(writes) + 1
       /\ \A n \in 1..Len(writes) : writes'[n] = writes[n]
       /\ writes'[Len(writes) + 1] = entry
  BY <1>2, <1>6, <1>12, AppendProperties
<1>14. DOMAIN writes' = 1..(Len(writes) + 1)
  BY <1>13, LenProperties
<1> QED BY <1>1, <1>3, <1>4, <1>5, <1>6, <1>7, <1>9, <1>10, <1>11, <1>12, <1>13, <1>14
    DEF entry, left

LEMMA ReserveKeeps ==
  ASSUME LedgerInv, NEW r \in Requests, NEW i \in Identity, Reserve(r, i)
  PROVE  LedgerInv'
<1> DEFINE entry == Entry(r, nextReservationId, now, Estimate)
           last == Len(Evaluated(i)) + 1
<1>0. /\ r \notin Reserved /\ Reserved' = Reserved \cup {r}
      /\ Cardinality(Reserved') = Cardinality(Reserved) + 1
      /\ nextReservationId \in Ids /\ entry \in EntryType
      /\ globalSpend' \in Seq(EntryType)
      /\ last \in Nat
      /\ DOMAIN globalSpend' = 1..last
      /\ globalSpend'[last] = entry
      /\ \A n \in 1..(last - 1) :
           \E m \in DOMAIN globalSpend : globalSpend'[n] = globalSpend[m]
      /\ \A m, n \in 1..(last - 1) : m < n => globalSpend'[m].id < globalSpend'[n].id
      /\ writes' \in Seq(EntryType)
      /\ Len(writes) \in Nat /\ DOMAIN writes' = 1..(Len(writes) + 1)
      /\ writes'[Len(writes) + 1] = entry
      /\ \A n \in 1..Len(writes) : writes'[n] = writes[n]
  BY ReservedEntries
<1>1. /\ up /\ pc[r] = "idle" /\ pc' = [pc EXCEPT ![r] = "reserved"]
      /\ counted' = counted \cup {r} /\ ident' = [ident EXCEPT ![r] = i]
      /\ token' = [token EXCEPT ![r] = nextReservationId]
      /\ madeAt' = [madeAt EXCEPT ![r] = now]
      /\ nextReservationId' = nextReservationId + 1
      /\ lastDbCleanupAt' \in {now, lastDbCleanupAt}
      /\ sweeps' \subseteq sweeps \cup {now - Window}
      /\ issued' = issued \cup {[owner |-> r, at |-> now, stroops |-> Estimate]}
      /\ UNCHANGED <<now, up, rows, crashes, untidy>>
  BY DEF Reserve
<1>2. /\ now \in Nat /\ now # 0 /\ now <= End /\ Epoch <= now /\ Estimate \in Nat
      /\ Window \in Nat /\ Epoch \in Nat /\ End \in Nat
  BY LedgerAssumption DEF LedgerInv, TypeInv
<1>3. entry.owner = r /\ entry.id = nextReservationId /\ entry.at = now
      /\ entry.stroops = Estimate /\ Budgeted(entry) = [owner |-> r, at |-> now, stroops |-> Estimate]
  BY DEF Entry, Budgeted
<1> HIDE DEF entry, last
<1>4. /\ token \in [Requests -> Ids \cup {0}] /\ madeAt \in [Requests -> 0..End]
      /\ ident \in [Requests -> Identity \cup {None}] /\ pc \in [Requests -> Phases]
  BY DEF LedgerInv, TypeInv
<1>5. TypeInv'
  <2>1. /\ now' \in Epoch..End /\ up' \in BOOLEAN
        /\ globalSpend' \in Seq(EntryType) /\ writes' \in Seq(EntryType)
        /\ counted' \subseteq Reserved' /\ lastDbCleanupAt' \in 0..End
        /\ pc' \in [Requests -> Phases]
    BY <1>0, <1>1, <1>2 DEF LedgerInv, TypeInv, Phases
  <2>2. /\ ident' \in [Requests -> Identity \cup {None}]
        /\ token' \in [Requests -> Ids \cup {0}]
        /\ madeAt' \in [Requests -> 0..End]
    BY <1>0, <1>1, <1>2, <1>4
  <2>3. \A q \in Reserved' : ident'[q] \in Identity /\ madeAt'[q] \in Epoch..now'
    BY <1>0, <1>1, <1>2, <1>4, SmallSets DEF LedgerInv, TypeInv
  <2>4. \A cutoff \in sweeps' : cutoff \in Int /\ cutoff <= now' - Window
    BY <1>1, <1>2 DEF LedgerInv, TypeInv
  <2>5. issued' \subseteq [owner : Reserved', at : 0..End, stroops : 0..Estimate]
    BY <1>0, <1>1, <1>2 DEF LedgerInv, TypeInv
  <2>6. rows' \in [Ids -> EntryType \cup {None}] /\ untidy' \subseteq Requests
    BY <1>1 DEF LedgerInv, TypeInv
  <2> QED BY <2>1, <2>2, <2>3, <2>4, <2>5, <2>6 DEF TypeInv
<1>6. TokenInv'
  <2>1. nextReservationId' \in 1..(Cardinality(Reserved') + 1)
    BY <1>0, <1>1, SmallSets DEF LedgerInv, TokenInv
  <2>2. \A q \in Reserved' : token'[q] \in 1..Cardinality(Reserved')
    BY <1>0, <1>1, <1>4, SmallSets DEF LedgerInv, TokenInv
  <2> QED BY <2>1, <2>2 DEF TokenInv
<1>7. \A x : Genuine(x) => /\ x.owner \in Reserved' /\ x.id = token'[x.owner]
                           /\ \/ x.at = 0
                              \/ x.at = madeAt'[x.owner] /\ Budgeted(x) \in issued'
  BY <1>0, <1>1, <1>4, SmallSets DEF Genuine
<1>8. /\ entry.owner \in Reserved' /\ entry.id = token'[entry.owner]
      /\ entry.at = madeAt'[entry.owner] /\ Budgeted(entry) \in issued'
  BY <1>0, <1>1, <1>3, <1>4
<1>9. OwnerInv'
  <2>1. ASSUME NEW n \in DOMAIN globalSpend'
        PROVE  Genuine(globalSpend[n])' /\ globalSpend'[n].at # 0
    <3>1. CASE n = last
      BY <1>0, <1>2, <1>3, <1>8, <3>1 DEF Genuine, Budgeted
    <3>2. CASE n # last
      <4>1. PICK m \in DOMAIN globalSpend : globalSpend'[n] = globalSpend[m]
        BY <1>0, <3>2
      <4>2. Genuine(globalSpend[m]) /\ globalSpend[m].at # 0
        BY DEF LedgerInv, OwnerInv
      <4> QED BY <1>7, <4>1, <4>2 DEF Genuine, Budgeted
    <3> QED BY <3>1, <3>2
  <2>2. ASSUME NEW n \in DOMAIN writes' PROVE Genuine(writes[n])'
    <3>1. CASE n = Len(writes) + 1
      BY <1>0, <1>8, <3>1 DEF Genuine, Budgeted
    <3>2. CASE n # Len(writes) + 1
      <4>1. n \in DOMAIN writes /\ writes'[n] = writes[n]
        <5>1. DOMAIN writes = 1..Len(writes)
          BY LenProperties DEF LedgerInv, TypeInv
        <5> QED BY <1>0, <3>2, <5>1
      <4>2. Genuine(writes[n])
        BY <4>1 DEF LedgerInv, OwnerInv
      <4> QED BY <1>7, <4>1, <4>2 DEF Genuine, Budgeted
    <3> QED BY <3>1, <3>2
  <2>3. \A id \in Ids : rows'[id] # None => Genuine(rows[id])' /\ rows'[id].id = id
    BY <1>1, <1>7 DEF LedgerInv, OwnerInv, Genuine, Budgeted
  <2> QED BY <2>1, <2>2, <2>3 DEF OwnerInv
<1>10. \A n \in 1..(last - 1) : globalSpend'[n].id < nextReservationId
  BY <1>0 DEF LedgerInv, OrderInv
<1>11. OrderInv'
  <2>1. ASSUME NEW n \in 1..(last - 1) PROVE globalSpend'[n].id \in Nat
    <3>1. n \in DOMAIN globalSpend' /\ DOMAIN globalSpend' = 1..Len(globalSpend')
      BY <1>0, LenProperties
    <3>2. globalSpend'[n] \in EntryType
      BY <1>0, <3>1, ElementOfSeq
    <3> QED BY <3>2 DEF EntryType, Ids
  <2>2. \A m, n \in DOMAIN globalSpend' : m < n => globalSpend'[m].id < globalSpend'[n].id
    BY <1>0, <1>3, <1>10
  <2>3. \A n \in DOMAIN globalSpend' : globalSpend'[n].id < nextReservationId'
    BY <1>0, <1>1, <1>3, <1>10, <2>1 DEF Ids
  <2> QED BY <2>2, <2>3 DEF OrderInv
<1>12. ActiveInv'
  <2>1. ASSUME NEW q \in Requests, Active(q)'
        PROVE  /\ up' /\ token'[q] < nextReservationId'
               /\ \A n \in DOMAIN globalSpend' : globalSpend'[n].id = token'[q] =>
                    /\ globalSpend'[n].owner = q
                    /\ pc'[q] # "reconciling" => globalSpend'[n].stroops = Estimate
    <3>1. CASE q = r
      <4>1. token'[q] = nextReservationId
        BY <1>1, <1>4, <3>1
      <4> QED BY <1>0, <1>1, <1>3, <1>10, <3>1, <4>1 DEF Ids
    <3>2. CASE q # r
      <4>1. Active(q) /\ token'[q] = token[q] /\ pc'[q] = pc[q]
        BY <1>1, <1>4, <2>1, <3>2 DEF Active
      <4>2. token[q] < nextReservationId /\ token[q] \in Nat
        BY <1>4, <4>1 DEF LedgerInv, ActiveInv, Ids
      <4>3. ASSUME NEW n \in DOMAIN globalSpend', globalSpend'[n].id = token'[q]
            PROVE  /\ globalSpend'[n].owner = q
                   /\ pc'[q] # "reconciling" => globalSpend'[n].stroops = Estimate
        <5>1. n # last
          BY <1>0, <1>3, <4>1, <4>2, <4>3 DEF Ids
        <5>2. PICK m \in DOMAIN globalSpend : globalSpend'[n] = globalSpend[m]
          BY <1>0, <5>1
        <5> QED BY <4>1, <4>3, <5>2 DEF LedgerInv, ActiveInv
      <4> QED BY <1>0, <1>1, <4>1, <4>2, <4>3 DEF Ids
    <3> QED BY <3>1, <3>2
  <2> QED BY <1>1, <2>1 DEF ActiveInv
<1> QED BY <1>5, <1>6, <1>9, <1>11, <1>12 DEF LedgerInv

\* The writes after one landed.
LEMMA LandedWrites ==
  ASSUME writes \in Seq(EntryType), NEW i \in DOMAIN writes,
         writes' = RemoveAt(writes, i)
  PROVE  /\ writes' \in Seq(EntryType) /\ Len(writes) \in Nat
         /\ DOMAIN writes = 1..Len(writes) /\ DOMAIN writes' = 1..(Len(writes) - 1)
         /\ writes[i] \in EntryType
         /\ \A n \in 1..(Len(writes) - 1) :
              writes'[n] = writes[IF n < i THEN n ELSE n + 1]
<1>1. i \in 1..Len(writes) /\ Len(writes) \in Nat /\ DOMAIN writes = 1..Len(writes)
  BY LenProperties
<1>2. /\ writes' \in Seq(EntryType) /\ Len(writes') = Len(writes) - 1
      /\ \A n \in 1..(Len(writes) - 1) :
           writes'[n] = writes[IF n < i THEN n ELSE n + 1]
  BY <1>1, Removed
<1>3. DOMAIN writes' = 1..(Len(writes) - 1)
  BY <1>2, LenProperties
<1>4. writes[i] \in EntryType
  BY <1>1, ElementOfSeq
<1> QED BY <1>1, <1>2, <1>3, <1>4

LEMMA DatabaseKeeps == ASSUME LedgerInv, Database PROVE LedgerInv'
<1>0. /\ Reserved' = Reserved
      /\ UNCHANGED <<now, up, memVars, requestVars, crashes, issued>>
  BY ReservedStays DEF LedgerInv, Database, SaveSpendReservation,
     DeleteElapsedSpendReservations, StoreUnchanged
<1>1. UNCHANGED <<globalSpend, counted, nextReservationId, lastDbCleanupAt, pc, ident,
                  token, madeAt>>
  BY <1>0 DEF memVars, requestVars
<1>2. rows \in [Ids -> EntryType \cup {None}] /\ writes \in Seq(EntryType)
  BY DEF LedgerInv, TypeInv
<1>3. SUFFICES ASSUME rows' \in [Ids -> EntryType \cup {None}],
                      writes' \in Seq(EntryType),
                      sweeps' \subseteq sweeps, untidy' \subseteq Requests,
                      \A n \in DOMAIN writes' : Genuine(writes[n])',
                      \A id \in Ids : rows'[id] # None => Genuine(rows[id])' /\ rows'[id].id = id
               PROVE  LedgerInv'
  <2>1. \A x : Genuine(x) => /\ x.owner \in Reserved' /\ x.id = token'[x.owner]
                             /\ \/ x.at = 0
                                \/ x.at = madeAt'[x.owner] /\ Budgeted(x) \in issued'
    BY <1>0, <1>1 DEF Genuine
  <2>2. ASSUME NEW i \in DOMAIN writes, SaveSpendReservation(i)
        PROVE  /\ rows' \in [Ids -> EntryType \cup {None}] /\ writes' \in Seq(EntryType)
               /\ sweeps' \subseteq sweeps /\ untidy' \subseteq Requests
               /\ \A n \in DOMAIN writes' : Genuine(writes[n])'
               /\ \A id \in Ids : rows'[id] # None => Genuine(rows[id])' /\ rows'[id].id = id
    <3>1. /\ rows' = [rows EXCEPT ![writes[i].id] = writes[i]]
          /\ writes' = RemoveAt(writes, i) /\ sweeps' = sweeps
          /\ untidy' \subseteq untidy \cup {writes[j].owner : j \in DOMAIN writes}
      <4>1. DOMAIN writes = 1..Len(writes) /\ Len(writes) \in Nat
        BY <1>2, LenProperties
      <4>2. Overtaken(i) \cup {i} \subseteq DOMAIN writes
        BY <4>1 DEF Overtaken
      <4> QED BY <2>2, <4>2 DEF SaveSpendReservation
    <3>2. /\ writes' \in Seq(EntryType) /\ Len(writes) \in Nat
          /\ DOMAIN writes = 1..Len(writes) /\ DOMAIN writes' = 1..(Len(writes) - 1)
          /\ writes[i] \in EntryType
          /\ \A n \in 1..(Len(writes) - 1) :
               writes'[n] = writes[IF n < i THEN n ELSE n + 1]
      BY <1>2, <3>1, LandedWrites
    <3>3. \A j \in DOMAIN writes : writes[j].owner \in Requests
      BY SmallSets DEF LedgerInv, OwnerInv, Genuine
    <3>4. untidy' \subseteq Requests
      BY <3>1, <3>3 DEF LedgerInv, TypeInv
    <3>5. ASSUME NEW n \in DOMAIN writes' PROVE Genuine(writes[n])'
      <4>1. PICK m \in DOMAIN writes : writes'[n] = writes[m]
        BY <3>2
      <4>2. Genuine(writes[m])
        BY DEF LedgerInv, OwnerInv
      <4> QED BY <2>1, <4>1, <4>2 DEF Genuine, Budgeted
    <3>6. ASSUME NEW id \in Ids, rows'[id] # None
          PROVE  Genuine(rows[id])' /\ rows'[id].id = id
      <4>1. CASE id = writes[i].id
        <5>1. rows'[id] = writes[i] /\ Genuine(writes[i])
          BY <1>2, <3>1, <4>1 DEF LedgerInv, OwnerInv
        <5> QED BY <2>1, <4>1, <5>1 DEF Genuine, Budgeted
      <4>2. CASE id # writes[i].id
        <5>1. rows'[id] = rows[id]
          BY <1>2, <3>1, <4>2
        <5>2. Genuine(rows[id]) /\ rows[id].id = id
          BY <3>6, <5>1 DEF LedgerInv, OwnerInv
        <5> QED BY <2>1, <5>1, <5>2 DEF Genuine, Budgeted
      <4> QED BY <4>1, <4>2
    <3>7. rows' \in [Ids -> EntryType \cup {None}]
      BY <1>2, <3>1, <3>2
    <3> QED BY <3>1, <3>2, <3>4, <3>5, <3>6, <3>7
  <2>3. ASSUME NEW cutoff \in sweeps, DeleteElapsedSpendReservations(cutoff)
        PROVE  /\ rows' \in [Ids -> EntryType \cup {None}] /\ writes' \in Seq(EntryType)
               /\ sweeps' \subseteq sweeps /\ untidy' \subseteq Requests
               /\ \A n \in DOMAIN writes' : Genuine(writes[n])'
               /\ \A id \in Ids : rows'[id] # None => Genuine(rows[id])' /\ rows'[id].id = id
    <3>1. /\ \A id \in Ids : rows'[id] \in {None, rows[id]}
          /\ rows' \in [Ids -> EntryType \cup {None}]
      BY <1>2, <2>3 DEF DeleteElapsedSpendReservations, Swept
    <3>2. sweeps' \subseteq sweeps /\ UNCHANGED <<writes, untidy>>
      BY <2>3 DEF DeleteElapsedSpendReservations
    <3>3. ASSUME NEW n \in DOMAIN writes' PROVE Genuine(writes[n])'
      <4>1. Genuine(writes[n]) /\ writes'[n] = writes[n]
        BY <3>2 DEF LedgerInv, OwnerInv
      <4> QED BY <2>1, <4>1 DEF Genuine, Budgeted
    <3>4. ASSUME NEW id \in Ids, rows'[id] # None
          PROVE  Genuine(rows[id])' /\ rows'[id].id = id
      <4>1. rows'[id] = rows[id] /\ Genuine(rows[id]) /\ rows[id].id = id
        BY <3>1, <3>4 DEF LedgerInv, OwnerInv
      <4> QED BY <2>1, <4>1 DEF Genuine, Budgeted
    <3> QED BY <1>2, <3>1, <3>2, <3>3, <3>4 DEF LedgerInv, TypeInv
  <2> QED BY <1>3, <2>2, <2>3 DEF Database
<1>4. TypeInv' /\ TokenInv'
  BY <1>0, <1>1, <1>3 DEF LedgerInv, TypeInv, TokenInv
<1>5. OwnerInv'
  <2>1. ASSUME NEW n \in DOMAIN globalSpend'
        PROVE  Genuine(globalSpend[n])' /\ globalSpend'[n].at # 0
    <3>1. Genuine(globalSpend[n]) /\ globalSpend[n].at # 0
      BY <1>1 DEF LedgerInv, OwnerInv
    <3> QED BY <1>0, <1>1, <3>1 DEF Genuine, Budgeted
  <2> QED BY <1>3, <2>1 DEF OwnerInv
<1>6. OrderInv' /\ ActiveInv'
  BY <1>0, <1>1 DEF LedgerInv, OrderInv, ActiveInv, Active
<1> QED BY <1>4, <1>5, <1>6 DEF LedgerInv

LEMMA CrashKeeps == ASSUME LedgerInv, Crash PROVE LedgerInv'
<1>1. /\ up' = FALSE /\ globalSpend' = <<>> /\ counted' = {}
      /\ nextReservationId' = 1 /\ lastDbCleanupAt' = 0
      /\ pc' = [r \in Requests |-> IF pc[r] \in Over THEN pc[r] ELSE "died"]
      /\ UNCHANGED <<now, ident, token, madeAt, rows, writes, sweeps, issued, untidy>>
  BY DEF Crash, storeVars
<1>2. Reserved' = Reserved
  BY ReservedStays DEF LedgerInv
<1>3. globalSpend' \in Seq(EntryType) /\ DOMAIN globalSpend' = {}
  BY <1>1, EmptySeq, LenProperties
<1>4. TypeInv'
  <2>1. pc' \in [Requests -> Phases]
    BY <1>1 DEF LedgerInv, TypeInv, Phases
  <2>2. 0 \in 0..End /\ FALSE \in BOOLEAN /\ {} \subseteq Reserved
    BY LedgerAssumption
  <2>3. \A r \in Reserved' : ident'[r] \in Identity /\ madeAt'[r] \in Epoch..now'
    BY <1>1, <1>2 DEF LedgerInv, TypeInv
  <2> QED BY <1>1, <1>2, <1>3, <2>1, <2>2, <2>3 DEF LedgerInv, TypeInv
<1>5. TokenInv'
  BY <1>1, <1>2, SmallSets DEF LedgerInv, TokenInv
<1>6. OwnerInv'
  <2>1. \A x : Genuine(x) => /\ x.owner \in Reserved' /\ x.id = token'[x.owner]
                             /\ \/ x.at = 0
                                \/ x.at = madeAt'[x.owner] /\ Budgeted(x) \in issued'
    BY <1>1, <1>2 DEF Genuine
  <2>2. \A n \in DOMAIN writes' : Genuine(writes[n])'
    BY <1>1, <2>1 DEF LedgerInv, OwnerInv, Genuine, Budgeted
  <2>3. \A id \in Ids : rows'[id] # None => Genuine(rows[id])' /\ rows'[id].id = id
    BY <1>1, <2>1 DEF LedgerInv, OwnerInv, Genuine, Budgeted
  <2> QED BY <1>3, <2>2, <2>3 DEF OwnerInv
<1>7. OrderInv'
  BY <1>3 DEF OrderInv
<1>8. ActiveInv'
  BY <1>1 DEF ActiveInv, Active, Over
<1> QED BY <1>4, <1>5, <1>6, <1>7, <1>8 DEF LedgerInv

LEMMA TickKeeps == ASSUME LedgerInv, Tick PROVE LedgerInv'
<1>1. /\ now < End /\ now' = now + 1
      /\ UNCHANGED <<up, globalSpend, counted, nextReservationId, lastDbCleanupAt, pc,
                     ident, token, madeAt, rows, writes, sweeps, issued, untidy>>
  BY DEF Tick, memVars, requestVars, storeVars
<1>2. Reserved' = Reserved
  BY ReservedStays DEF LedgerInv
<1>3. now \in Epoch..End /\ Epoch \in Int /\ End \in Int /\ Window \in Int
  BY LedgerAssumption DEF LedgerInv, TypeInv
<1>4. TypeInv'
  <2>1. now' \in Epoch..End
    BY <1>1, <1>3
  <2>2. \A r \in Reserved' : ident'[r] \in Identity /\ madeAt'[r] \in Epoch..now'
    BY <1>1, <1>2, <1>3 DEF LedgerInv, TypeInv
  <2>3. \A cutoff \in sweeps' : cutoff \in Int /\ cutoff <= now' - Window
    BY <1>1, <1>3 DEF LedgerInv, TypeInv
  <2> QED BY <1>1, <1>2, <2>1, <2>2, <2>3 DEF LedgerInv, TypeInv
<1>5. TokenInv' /\ OrderInv' /\ ActiveInv'
  BY <1>1, <1>2 DEF LedgerInv, TokenInv, OrderInv, ActiveInv, Active
<1>6. OwnerInv'
  <2>1. \A x : Genuine(x) => /\ x.owner \in Reserved' /\ x.id = token'[x.owner]
                             /\ \/ x.at = 0
                                \/ x.at = madeAt'[x.owner] /\ Budgeted(x) \in issued'
    BY <1>1, <1>2 DEF Genuine
  <2>2. \A n \in DOMAIN globalSpend' : Genuine(globalSpend[n])' /\ globalSpend'[n].at # 0
    BY <1>1, <2>1 DEF LedgerInv, OwnerInv, Genuine, Budgeted
  <2>3. \A n \in DOMAIN writes' : Genuine(writes[n])'
    BY <1>1, <2>1 DEF LedgerInv, OwnerInv, Genuine, Budgeted
  <2>4. \A id \in Ids : rows'[id] # None => Genuine(rows[id])' /\ rows'[id].id = id
    BY <1>1, <2>1 DEF LedgerInv, OwnerInv, Genuine, Budgeted
  <2> QED BY <2>2, <2>3, <2>4 DEF OwnerInv
<1> QED BY <1>4, <1>5, <1>6 DEF LedgerInv

\* What boot() loads.
LEMMA LoadedEntries ==
  ASSUME LedgerInv, Boot
  PROVE  /\ globalSpend' \in Seq(EntryType)
         /\ \A n \in DOMAIN globalSpend' : \E id \in OpenRows :
              globalSpend'[n] = rows[id] /\ rows[id].id = id
         /\ \A id \in OpenRows : \E n \in DOMAIN globalSpend' : globalSpend'[n] = rows[id]
         /\ \A m, n \in DOMAIN globalSpend' : m < n => globalSpend'[m].id < globalSpend'[n].id
         /\ \A id \in OpenRows : /\ id \in Nat /\ rows[id] \in EntryType
                                 /\ rows[id].at > now - Window /\ Genuine(rows[id])
                                 /\ id < nextReservationId'
         /\ nextReservationId' \in 1..(Cardinality(Reserved) + 1)
<1> DEFINE S == OpenRows
           order == Ascending(S)
           k == Cardinality(S)
<1>1. /\ globalSpend' = [n \in 1..k |-> rows[order[n]]]
      /\ nextReservationId' = IF S = {} THEN 1 ELSE Max(S) + 1
  BY DEF Boot, SeededId
<1>2. \A id \in S : /\ id \in Ids /\ rows[id] \in EntryType /\ rows[id].at > now - Window
                    /\ Genuine(rows[id]) /\ rows[id].id = id
  BY DEF OpenRows, InWindow, LedgerInv, TypeInv, OwnerInv
<1>3. \A id \in S : id \in 1..Cardinality(Reserved)
  BY <1>2 DEF LedgerInv, TokenInv, Genuine
<1>4. IsFiniteSet(S) /\ S \subseteq Nat /\ k \in Nat
  <2>1. S \subseteq 1..Cardinality(Reserved) /\ Cardinality(Reserved) \in Nat
    BY <1>3, SmallSets
  <2>2. IsFiniteSet(1..Cardinality(Reserved))
    BY <2>1, FS_Interval
  <2>3. S \in SUBSET (1..Cardinality(Reserved))
    BY <2>1
  <2>4. IsFiniteSet(S) /\ k \in Nat
    <3> HIDE DEF S
    <3> QED BY <2>2, <2>3, FS_Subset, FS_CardinalityType
  <2> QED BY <2>1, <2>4
<1> HIDE DEF S
<1>5. /\ order \in [1..k -> S]
      /\ \A m, n \in 1..k : m < n => order[m] < order[n]
      /\ \A x \in S : \E n \in 1..k : order[n] = x
  BY <1>4, AscendingOrder
<1> HIDE DEF order
<1>6. /\ globalSpend' \in Seq(EntryType) /\ DOMAIN globalSpend' = 1..k
      /\ \A n \in 1..k : order[n] \in S /\ globalSpend'[n] = rows[order[n]]
  <2>1. \A n \in 1..k : order[n] \in S /\ rows[order[n]] \in EntryType
    BY <1>2, <1>5
  <2>2. globalSpend' \in [1..k -> EntryType]
    BY <1>1, <2>1
  <2> HIDE DEF k
  <2> QED BY <1>1, <1>4, <2>1, <2>2
<1>7. \A m, n \in 1..k : m < n => globalSpend'[m].id < globalSpend'[n].id
  BY <1>2, <1>5, <1>6
<1>8. /\ nextReservationId' \in 1..(Cardinality(Reserved) + 1)
      /\ \A id \in S : id < nextReservationId'
  <2>1. CASE S = {}
    BY <1>1, <2>1, SmallSets
  <2>2. CASE S # {}
    <3>1. Max(S) \in S /\ \A y \in S : y <= Max(S)
      BY <1>4, <2>2, GreatestIn
    <3>2. nextReservationId' = Max(S) + 1
      BY <1>1, <2>2
    <3>3. Max(S) \in 1..Cardinality(Reserved)
      BY <1>3, <3>1
    <3> QED BY <1>4, <3>1, <3>2, <3>3, SmallSets
  <2> QED BY <2>1, <2>2
<1>9. \A n \in DOMAIN globalSpend' : \E id \in S : globalSpend'[n] = rows[id] /\ rows[id].id = id
  BY <1>2, <1>6
<1>10. \A id \in S : \E n \in DOMAIN globalSpend' : globalSpend'[n] = rows[id]
  BY <1>5, <1>6
<1> QED BY <1>2, <1>4, <1>6, <1>7, <1>8, <1>9, <1>10 DEF S

LEMMA BootKeeps == ASSUME LedgerInv, Boot PROVE LedgerInv'
<1>1. /\ ~up /\ up' = TRUE /\ sweeps' = sweeps \cup {now - Window}
      /\ untidy' = untidy \cup {writes[i].owner : i \in DOMAIN writes}
      /\ UNCHANGED <<now, counted, lastDbCleanupAt, pc, ident, token, madeAt, rows,
                     writes, issued>>
  BY DEF Boot, requestVars
<1>2. Reserved' = Reserved
  BY ReservedStays DEF LedgerInv
<1>3. /\ globalSpend' \in Seq(EntryType)
      /\ \A n \in DOMAIN globalSpend' : \E id \in OpenRows :
           globalSpend'[n] = rows[id] /\ rows[id].id = id
      /\ \A m, n \in DOMAIN globalSpend' : m < n => globalSpend'[m].id < globalSpend'[n].id
      /\ \A id \in OpenRows : /\ id \in Nat /\ rows[id] \in EntryType
                              /\ rows[id].at > now - Window /\ Genuine(rows[id])
                              /\ id < nextReservationId'
      /\ nextReservationId' \in 1..(Cardinality(Reserved) + 1)
  BY LoadedEntries
<1>4. now - Window > 0 /\ now - Window \in Int
  BY LedgerAssumption DEF LedgerInv, TypeInv
<1>5. \A r \in Requests : ~Active(r)'
  BY <1>1 DEF LedgerInv, ActiveInv, Active
<1>6. TypeInv'
  <2>1. \A i \in DOMAIN writes : writes[i].owner \in Requests
    BY SmallSets DEF LedgerInv, OwnerInv, Genuine
  <2>2. untidy' \subseteq Requests
    BY <1>1, <2>1 DEF LedgerInv, TypeInv
  <2>3. \A cutoff \in sweeps' : cutoff \in Int /\ cutoff <= now' - Window
    BY <1>1, <1>4 DEF LedgerInv, TypeInv
  <2>4. \A r \in Reserved' : ident'[r] \in Identity /\ madeAt'[r] \in Epoch..now'
    BY <1>1, <1>2 DEF LedgerInv, TypeInv
  <2> QED BY <1>1, <1>2, <1>3, <2>2, <2>3, <2>4 DEF LedgerInv, TypeInv
<1>7. TokenInv'
  BY <1>1, <1>2, <1>3 DEF LedgerInv, TokenInv
<1>8. \A x : Genuine(x) => /\ x.owner \in Reserved' /\ x.id = token'[x.owner]
                           /\ \/ x.at = 0
                              \/ x.at = madeAt'[x.owner] /\ Budgeted(x) \in issued'
  BY <1>1, <1>2 DEF Genuine
<1>9. OwnerInv'
  <2>1. ASSUME NEW n \in DOMAIN globalSpend'
        PROVE  Genuine(globalSpend[n])' /\ globalSpend'[n].at # 0
    <3>1. PICK id \in OpenRows : globalSpend'[n] = rows[id]
      BY <1>3
    <3>2. Genuine(rows[id]) /\ rows[id].at > now - Window /\ rows[id] \in EntryType
      BY <1>3
    <3>3. rows[id].at # 0
      BY <1>4, <3>2 DEF EntryType
    <3> QED BY <1>8, <3>1, <3>2, <3>3 DEF Genuine, Budgeted
  <2>2. ASSUME NEW n \in DOMAIN writes' PROVE Genuine(writes[n])'
    <3>1. Genuine(writes[n]) /\ writes'[n] = writes[n]
      BY <1>1 DEF LedgerInv, OwnerInv
    <3> QED BY <1>8, <3>1 DEF Genuine, Budgeted
  <2>3. \A id \in Ids : rows'[id] # None => Genuine(rows[id])' /\ rows'[id].id = id
    BY <1>1, <1>8 DEF LedgerInv, OwnerInv, Genuine, Budgeted
  <2> QED BY <2>1, <2>2, <2>3 DEF OwnerInv
<1>10. OrderInv'
  BY <1>3 DEF OrderInv
<1>11. ActiveInv'
  BY <1>1, <1>5 DEF ActiveInv
<1> QED BY <1>6, <1>7, <1>9, <1>10, <1>11 DEF LedgerInv

-----------------------------------------------------------------------------
(* Type correctness.                                                       *)

LEMMA StutterKeeps == ASSUME LedgerInv, UNCHANGED vars PROVE LedgerInv'
<1>1. UNCHANGED <<now, up, globalSpend, counted, nextReservationId, lastDbCleanupAt, pc,
                  ident, token, madeAt, rows, writes, sweeps, issued, untidy>>
  BY DEF vars, memVars, requestVars, storeVars
<1>2. Reserved' = Reserved
  BY ReservedStays DEF LedgerInv
<1>3. TypeInv' /\ TokenInv' /\ OrderInv' /\ ActiveInv'
  BY <1>1, <1>2 DEF LedgerInv, TypeInv, TokenInv, OrderInv, ActiveInv, Active
<1>4. OwnerInv'
  BY <1>1, <1>2 DEF LedgerInv, OwnerInv, Genuine, Budgeted
<1> QED BY <1>3, <1>4 DEF LedgerInv

LEMMA LedgerInit == Init => LedgerInv
<1> SUFFICES ASSUME Init PROVE LedgerInv
  OBVIOUS
<1>1. Reserved = {} /\ \A r \in Requests : ~Active(r)
  BY DEF Init, Reserved, Active
<1>2. DOMAIN globalSpend = {} /\ DOMAIN writes = {}
      /\ globalSpend \in Seq(EntryType) /\ writes \in Seq(EntryType)
  BY EmptySeq, LenProperties DEF Init
<1>3. TypeInv
  <2>1. pc \in [Requests -> Phases]
    BY DEF Init, Phases, Over
  <2>2. now \in Epoch..End
    BY LedgerAssumption DEF Init
  <2>3. /\ ident \in [Requests -> Identity \cup {None}]
        /\ token \in [Requests -> Ids \cup {0}]
        /\ rows \in [Ids -> EntryType \cup {None}]
    BY DEF Init
  <2>4. madeAt \in [Requests -> 0..End] /\ lastDbCleanupAt \in 0..End
    BY LedgerAssumption DEF Init
  <2>5. counted = {} /\ issued = {} /\ untidy = {} /\ sweeps = {} /\ up \in BOOLEAN
    BY DEF Init
  <2> QED BY <1>1, <1>2, <2>1, <2>2, <2>3, <2>4, <2>5 DEF TypeInv
<1>4. TokenInv
  BY <1>1, SmallSets DEF Init, TokenInv
<1>5. OwnerInv
  BY <1>2 DEF Init, OwnerInv
<1>6. OrderInv /\ ActiveInv
  BY <1>1, <1>2 DEF Init, OrderInv, ActiveInv
<1> QED BY <1>3, <1>4, <1>5, <1>6 DEF LedgerInv

LEMMA LedgerStep == ASSUME LedgerInv, [Next]_vars PROVE LedgerInv'
<1>1. ASSUME NEW r \in Requests, NEW i \in Identity, Refuse(r, i) \/ Reserve(r, i)
      PROVE  LedgerInv'
  BY <1>1, RefuseKeeps, ReserveKeeps
<1>2. ASSUME NEW r \in Requests,
             Submit(r) \/ KeepEstimate(r) \/ Correct(r) \/ Reconcile(r)
      PROVE  LedgerInv'
  BY <1>2, RunSteps, RunKeeps
<1>3. ASSUME NEW r \in Requests, RefundUnspent(r) PROVE LedgerInv'
  BY <1>3, RefundKeeps
<1>4. CASE Database
  BY <1>4, DatabaseKeeps
<1>5. CASE Crash \/ Boot \/ Tick \/ UNCHANGED vars
  BY <1>5, CrashKeeps, BootKeeps, TickKeeps, StutterKeeps
<1> QED BY <1>1, <1>2, <1>3, <1>4, <1>5 DEF Next, Request

LEMMA Invariant == Spec => []LedgerInv
BY LedgerInit, LedgerStep, PTL DEF Spec

\* The types of the state, with ids that never outrun the table's.
THEOREM TypeCorrect == Spec => []TypeOK
<1>1. LedgerInv => TypeOK
  <2> SUFFICES ASSUME LedgerInv PROVE TypeOK
    OBVIOUS
  <2>1. Range(globalSpend) \subseteq EntryType /\ Range(writes) \subseteq EntryType
    BY LenProperties, ElementOfSeq DEF LedgerInv, TypeInv, Range
  <2>2. nextReservationId \in Ids \cup {Cardinality(Requests) + 1}
    BY SmallSets DEF LedgerInv, TokenInv, Ids
  <2>3. counted \subseteq Requests /\ sweeps \subseteq Int
    BY SmallSets DEF LedgerInv, TypeInv
  <2> QED BY <2>1, <2>2, <2>3 DEF LedgerInv, TypeInv, TypeOK
<1> QED BY <1>1, Invariant, PTL

-----------------------------------------------------------------------------
(* The rate budgets.                                                       *)

\* The settles of the identities K admitted in the stretch that begins at s.
Within(K, s) ==
  {r \in counted : ident[r] \in K /\ madeAt[r] \in s..(s + RateWindow - 1)}

OfAddress(p) == {j \in Identity : j.payTo = p}
OfBoundUrl(u) == {j \in Identity : j.bound /\ j.url = u}
Unbound == {j \in Identity : ~j.bound}

RatesInv ==
  Enforced => \A s \in Epoch..End :
    /\ \A p \in PayTos : Cardinality(Within(OfAddress(p), s)) <= PerPayToMax
    /\ \A u \in Urls : Cardinality(Within(OfBoundUrl(u), s)) <= PerUrlMax
    /\ Cardinality(Within(Unbound, s)) <= UnboundPoolMax

LEMMA RatesByIdentity == TypeInv => (RatesBounded <=> RatesInv)
<1> HAVE TypeInv
<1>1. \A r \in counted : ident[r] \in Identity
  BY DEF TypeInv
<1>2. \A s : /\ \A p : Within(OfAddress(p), s) =
                       {r \in counted : ident[r].payTo = p /\ madeAt[r] \in s..(s + RateWindow - 1)}
             /\ \A u : Within(OfBoundUrl(u), s) =
                       {r \in counted : /\ ident[r].bound /\ ident[r].url = u
                                        /\ madeAt[r] \in s..(s + RateWindow - 1)}
             /\ Within(Unbound, s) =
                  {r \in counted : ~ident[r].bound /\ madeAt[r] \in s..(s + RateWindow - 1)}
  BY <1>1 DEF Within, OfAddress, OfBoundUrl, Unbound
<1>3. \A s : /\ \A p : Admitted(LAMBDA j : j.payTo = p, s) = Cardinality(Within(OfAddress(p), s))
             /\ \A u : Admitted(LAMBDA j : j.bound /\ j.url = u, s) =
                         Cardinality(Within(OfBoundUrl(u), s))
             /\ Admitted(LAMBDA j : ~j.bound, s) = Cardinality(Within(Unbound, s))
  BY <1>2 DEF Admitted
<1> QED BY <1>3 DEF RatesBounded, RatesInv

\* A settle is admitted when fewer than m of its kind were in the last stretch
\* of RateWindow: every stretch it falls in had fewer than m too.
LEMMA AdmittedUnderBudget ==
  ASSUME LedgerInv, NEW r \in Requests, NEW i \in Identity, Reserve(r, i),
         NEW K, NEW s \in Int, NEW m \in Nat,
         i \in K => Cardinality({q \in Recent : ident[q] \in K}) < m,
         Cardinality(Within(K, s)) <= m
  PROVE  Cardinality(Within(K, s)') <= m
<1>1. /\ pc[r] = "idle" /\ counted' = counted \cup {r}
      /\ ident' = [ident EXCEPT ![r] = i] /\ madeAt' = [madeAt EXCEPT ![r] = now]
  BY DEF Reserve
<1>2. /\ r \notin counted /\ counted \subseteq Requests
      /\ ident \in [Requests -> Identity \cup {None}] /\ madeAt \in [Requests -> 0..End]
      /\ \A q \in counted : madeAt[q] \in Int
      /\ now \in Int /\ RateWindow \in Nat
  BY <1>1, SmallSets, LedgerAssumption DEF LedgerInv, TypeInv, Reserved
<1>3. IsFiniteSet(counted)
  BY <1>2, FS_Subset, LedgerAssumption
<1> DEFINE W == Within(K, s)
           R == {q \in Recent : ident[q] \in K}
<1>4. IsFiniteSet(W) /\ W \subseteq counted
  <2>1. W \in SUBSET counted
    BY DEF Within
  <2> HIDE DEF W
  <2> QED BY <1>3, <2>1, FS_Subset
<1>5. CASE i \in K /\ now \in s..(s + RateWindow - 1)
  <2>1. W' = W \cup {r}
    BY <1>1, <1>2, <1>5 DEF Within
  <2>2. W \in SUBSET R /\ R \in SUBSET counted
    BY <1>2, <1>5 DEF Within, Recent
  <2>3. r \notin W
    BY <1>2, <1>4
  <2> HIDE DEF W, R
  <2>4. IsFiniteSet(R)
    BY <1>3, <2>2, FS_Subset
  <2>5. Cardinality(W) <= Cardinality(R)
    BY <2>2, <2>4, FS_Subset
  <2>6. Cardinality(W) \in Nat /\ Cardinality(R) \in Nat
    BY <1>4, <2>4, FS_CardinalityType
  <2>7. Cardinality(R) < m
    BY <1>5 DEF R
  <2>8. Cardinality(W \cup {r}) = Cardinality(W) + 1
    BY <1>4, <2>3, FS_AddElement
  <2>9. Cardinality(W') <= m
    BY <2>1, <2>5, <2>6, <2>7, <2>8
  <2> QED BY <2>9 DEF W
<1>6. CASE ~(i \in K /\ now \in s..(s + RateWindow - 1))
  <2>1. W' = W
    BY <1>1, <1>2, <1>6 DEF Within
  <2> QED BY <2>1
<1> QED BY <1>5, <1>6

LEMMA RatesKept ==
  ASSUME LedgerInv, LedgerInv', RatesInv, [Next]_vars
  PROVE  RatesInv'
<1>0. TypeInv /\ TypeInv'
  BY DEF LedgerInv
<1>1. Enforced => \A s \in Epoch..End :
        /\ \A p \in PayTos : Cardinality(Within(OfAddress(p), s)) <= PerPayToMax
        /\ \A u \in Urls : Cardinality(Within(OfBoundUrl(u), s)) <= PerUrlMax
        /\ Cardinality(Within(Unbound, s)) <= UnboundPoolMax
  BY DEF RatesInv
<1>2. SUFFICES ASSUME Enforced, NEW s \in Epoch..End
               PROVE  /\ \A p \in PayTos : Cardinality(Within(OfAddress(p), s)') <= PerPayToMax
                      /\ \A u \in Urls : Cardinality(Within(OfBoundUrl(u), s)') <= PerUrlMax
                      /\ Cardinality(Within(Unbound, s)') <= UnboundPoolMax
  BY DEF RatesInv
<1>3. s \in Int /\ {PerPayToMax, PerUrlMax, UnboundPoolMax} \subseteq Nat
  BY LedgerAssumption
<1>4. CASE \E r \in Requests, i \in Identity : Reserve(r, i)
  <2>1. PICK r \in Requests, i \in Identity : Reserve(r, i)
    BY <1>4
  <2>2. ~RateLimited(i)
    BY <1>2, <2>1 DEF Reserve
  <2>3. \A q \in Recent : ident[q] \in Identity
    BY <1>0 DEF Recent, TypeInv
  <2>4. ASSUME NEW p \in PayTos
        PROVE  Cardinality(Within(OfAddress(p), s)') <= PerPayToMax
    <3> DEFINE R == {q \in Recent : ident[q] \in OfAddress(p)}
    <3>1. R = {q \in Recent : ident[q].payTo = p}
      BY <2>3 DEF OfAddress
    <3>2. i \in OfAddress(p) => ~(Cardinality(R) >= PerPayToMax)
      BY <2>2, <3>1 DEF OfAddress, RateLimited, OfPayTo
    <3>3. Cardinality(R) \in Nat
      <4> HIDE DEF R
      <4>1. R \in SUBSET Requests
        BY <1>0, <3>1, SmallSets DEF TypeInv, Recent
      <4> QED BY <4>1, LedgerAssumption, FS_Subset, FS_CardinalityType
    <3>4. i \in OfAddress(p) => Cardinality(R) < PerPayToMax
      BY <1>3, <3>2, <3>3
    <3> QED BY <1>1, <1>2, <1>3, <2>1, <3>4, AdmittedUnderBudget
  <2>5. ASSUME NEW u \in Urls
        PROVE  Cardinality(Within(OfBoundUrl(u), s)') <= PerUrlMax
    <3> DEFINE R == {q \in Recent : ident[q] \in OfBoundUrl(u)}
    <3>1. R = {q \in Recent : ident[q].bound /\ ident[q].url = u}
      BY <2>3 DEF OfBoundUrl
    <3>2. i \in OfBoundUrl(u) => ~(Cardinality(R) >= PerUrlMax)
      BY <2>2, <3>1 DEF OfBoundUrl, RateLimited, OfUrl
    <3>3. Cardinality(R) \in Nat
      <4> HIDE DEF R
      <4>1. R \in SUBSET Requests
        BY <1>0, <3>1, SmallSets DEF TypeInv, Recent
      <4> QED BY <4>1, LedgerAssumption, FS_Subset, FS_CardinalityType
    <3>4. i \in OfBoundUrl(u) => Cardinality(R) < PerUrlMax
      BY <1>3, <3>2, <3>3
    <3> QED BY <1>1, <1>2, <1>3, <2>1, <3>4, AdmittedUnderBudget
  <2>6. Cardinality(Within(Unbound, s)') <= UnboundPoolMax
    <3> DEFINE R == {q \in Recent : ident[q] \in Unbound}
    <3>1. R = {q \in Recent : ~ident[q].bound}
      BY <2>3 DEF Unbound
    <3>2. i \in Unbound => ~(Cardinality(R) >= UnboundPoolMax)
      BY <2>2, <3>1 DEF Unbound, RateLimited, InUnboundPool
    <3>3. Cardinality(R) \in Nat
      <4> HIDE DEF R
      <4>1. R \in SUBSET Requests
        BY <1>0, <3>1, SmallSets DEF TypeInv, Recent
      <4> QED BY <4>1, LedgerAssumption, FS_Subset, FS_CardinalityType
    <3>4. i \in Unbound => Cardinality(R) < UnboundPoolMax
      BY <1>3, <3>2, <3>3
    <3> QED BY <1>1, <1>2, <1>3, <2>1, <3>4, AdmittedUnderBudget
  <2> QED BY <2>4, <2>5, <2>6
<1>5. CASE ~ \E r \in Requests, i \in Identity : Reserve(r, i)
  <2>1. counted' \subseteq counted
    BY <1>5 DEF Next, Request, Refuse, Submit, RefundUnspent, KeepEstimate, Correct,
       Reconcile, StepUnchanged, Database, SaveSpendReservation,
       DeleteElapsedSpendReservations, StoreUnchanged, memVars, Crash, Boot, Tick, vars
  <2>2. \A r \in counted : ident'[r] = ident[r] /\ madeAt'[r] = madeAt[r]
    BY <1>0, ReservationsLast DEF TypeInv
  <2>3. ASSUME NEW K PROVE /\ Within(K, s)' \in SUBSET Within(K, s)
                           /\ Within(K, s) \in SUBSET Requests
    BY <1>0, <2>1, <2>2, SmallSets DEF Within, TypeInv
  <2>4. ASSUME NEW K, NEW m \in Nat, Cardinality(Within(K, s)) <= m
        PROVE  Cardinality(Within(K, s)') <= m
    <3>1. IsFiniteSet(Within(K, s))
      BY <2>3, LedgerAssumption, FS_Subset
    <3>2. /\ IsFiniteSet(Within(K, s)')
          /\ Cardinality(Within(K, s)') <= Cardinality(Within(K, s))
      BY <2>3, <3>1, FS_Subset
    <3> QED BY <2>4, <3>1, <3>2, FS_CardinalityType
  <2> QED BY <1>1, <1>2, <1>3, <2>4
<1> QED BY <1>4, <1>5

\* On pubnet no stretch of RateWindow, wherever it begins, holds more admitted
\* settles of one address, of one bound URL, or of the unbound URLs together
\* than their budgets.
THEOREM RatesHold == Spec => []RatesBounded
<1>1. Init => RatesInv
  <2> SUFFICES ASSUME Init PROVE RatesInv
    OBVIOUS
  <2>1. counted = {}
    BY DEF Init
  <2>2. \A K, s : Within(K, s) = {}
    BY <2>1 DEF Within
  <2>3. \A K, s : Cardinality(Within(K, s)) = 0
    BY <2>2, FS_EmptySet
  <2> QED BY <2>3, LedgerAssumption DEF RatesInv
<1>2. LedgerInv /\ LedgerInv' /\ RatesInv /\ [Next]_vars => RatesInv'
  BY RatesKept
<1>3. LedgerInv /\ RatesInv => RatesBounded
  BY RatesByIdentity DEF LedgerInv
<1> QED BY <1>1, <1>2, <1>3, Invariant, PTL DEF Spec

-----------------------------------------------------------------------------
(* The ledger is a budget.                                                 *)

\* What a sequence of entries says to the budget.
Ledger(s) == {Budgeted(s[n]) : n \in DOMAIN s}

LEMMA LedgerIsBooked ==
  {Budgeted(e) : e \in Range(globalSpend)} = Ledger(globalSpend)
BY DEF Range, Ledger

\* The entries of one process are of different settles.
LEMMA OneEntryEach ==
  ASSUME LedgerInv
  PROVE  \A m, n \in DOMAIN globalSpend :
           globalSpend[m].owner = globalSpend[n].owner => m = n
<1> SUFFICES ASSUME NEW m \in DOMAIN globalSpend, NEW n \in DOMAIN globalSpend,
                    globalSpend[m].owner = globalSpend[n].owner
             PROVE  m = n
  OBVIOUS
<1>1. DOMAIN globalSpend = 1..Len(globalSpend) /\ Len(globalSpend) \in Nat
  BY LenProperties DEF LedgerInv, TypeInv
<1>2. globalSpend[m].id = globalSpend[n].id /\ globalSpend[m].id \in Nat
  <2>1. globalSpend[m] \in EntryType
    BY <1>1, ElementOfSeq DEF LedgerInv, TypeInv
  <2> QED BY <2>1 DEF LedgerInv, OwnerInv, Genuine, EntryType, Ids
<1>3. ~(m < n) /\ ~(n < m)
  BY <1>2 DEF LedgerInv, OrderInv
<1> QED BY <1>1, <1>3

\* Different places of globalSpend have different ids.
LEMMA DifferentIds ==
  ASSUME LedgerInv, NEW m \in DOMAIN globalSpend, NEW n \in DOMAIN globalSpend, m # n
  PROVE  globalSpend[m].id # globalSpend[n].id
<1>1. DOMAIN globalSpend = 1..Len(globalSpend) /\ Len(globalSpend) \in Nat
  BY LenProperties DEF LedgerInv, TypeInv
<1>2. globalSpend[m].id \in Nat /\ globalSpend[n].id \in Nat
  <2>1. globalSpend[m] \in EntryType /\ globalSpend[n] \in EntryType
    BY <1>1, ElementOfSeq DEF LedgerInv, TypeInv
  <2> QED BY <2>1 DEF EntryType, Ids
<1>3. m < n \/ n < m
  BY <1>1
<1> QED BY <1>2, <1>3 DEF LedgerInv, OrderInv

\* A running settle's splice() takes out its own entry, and no other.
LEMMA SplicedOwn ==
  ASSUME LedgerInv, NEW r \in Requests, Active(r)
  PROVE  /\ \A n \in DOMAIN Spliced(r) :
              /\ \E m \in DOMAIN globalSpend : Spliced(r)[n] = globalSpend[m]
              /\ Spliced(r)[n].owner # r
         /\ \A m \in DOMAIN globalSpend : globalSpend[m].owner # r =>
              \E n \in DOMAIN Spliced(r) : Spliced(r)[n] = globalSpend[m]
<1> DEFINE t == Spliced(r)
<1>1. globalSpend \in Seq(EntryType) /\ DOMAIN globalSpend = 1..Len(globalSpend)
  BY LenProperties DEF LedgerInv, TypeInv
<1>2. \A m \in DOMAIN globalSpend :
        globalSpend[m].id = token[r] <=> globalSpend[m].owner = r
  BY DEF LedgerInv, ActiveInv, OwnerInv, Genuine
<1>3. CASE Index(r) = 0
  <2>1. t = globalSpend
    BY <1>1, <1>3, SplicedEntries
  <2>2. \A m \in DOMAIN globalSpend : globalSpend[m].owner # r
    BY <1>1, <1>2, <1>3, FoundById
  <2> QED BY <2>1, <2>2
<1>4. CASE Index(r) # 0
  <2> DEFINE k == Index(r)
             Left(f) == /\ Keeps(t, globalSpend, f)
                        /\ \A n \in 1..Len(t) : f[n] # k
                        /\ \A m \in 1..Len(globalSpend) : m # k => \E n \in 1..Len(t) : f[n] = m
  <2>1. k \in DOMAIN globalSpend /\ globalSpend[k].owner = r
    BY <1>1, <1>2, <1>4, FoundById
  <2>2. t \in Seq(EntryType)
    BY <1>1, SplicedEntries
  <2>3. \E f : Left(f)
    BY <1>1, <1>4, SplicedEntries
  <2> HIDE DEF k, t
  <2> PICK f : Left(f)
    BY <2>3
  <2>4. DOMAIN t = 1..Len(t)
    BY <2>2, LenProperties
  <2>5. Keeps(t, globalSpend, f) /\ \A n \in DOMAIN t : f[n] # k
    BY <2>4
  <2>6. \A m \in DOMAIN globalSpend : m # k => \E n \in DOMAIN t : f[n] = m
    BY <1>1, <2>4
  <2> HIDE DEF Left
  <2>7. \A n \in DOMAIN t : f[n] \in DOMAIN globalSpend /\ t[n] = globalSpend[f[n]]
    BY <1>1, <2>4, <2>5 DEF Keeps
  <2>8. \A n \in DOMAIN t : t[n].owner # r
    <3> SUFFICES ASSUME NEW n \in DOMAIN t, t[n].owner = r PROVE FALSE
      OBVIOUS
    <3>1. f[n] \in DOMAIN globalSpend /\ f[n] # k /\ globalSpend[f[n]].owner = r
      BY <2>5, <2>7
    <3> QED BY <2>1, <3>1, OneEntryEach
  <2>9. \A m \in DOMAIN globalSpend : globalSpend[m].owner # r =>
          \E n \in DOMAIN t : t[n] = globalSpend[m]
    BY <2>1, <2>6, <2>7
  <2>10. \A n \in DOMAIN t : \E m \in DOMAIN globalSpend : t[n] = globalSpend[m]
    BY <2>7
  <2> QED BY <2>8, <2>9, <2>10 DEF t
<1> QED BY <1>3, <1>4

LEMMA LiveLedger == ASSUME LedgerInv PROVE Ledger(LiveSpend) = Budget!Live(Ledger(globalSpend))
<1>1. globalSpend \in Seq(EntryType)
  BY DEF LedgerInv, TypeInv
<1>2. PICK f : /\ Keeps(LiveSpend, globalSpend, f)
               /\ \A m \in 1..Len(globalSpend) : InWindow(globalSpend[m]) =>
                    \E n \in 1..Len(LiveSpend) : f[n] = m
  BY <1>1, LiveEntries
<1>3. /\ LiveSpend \in Seq(EntryType)
      /\ \A n \in 1..Len(LiveSpend) : InWindow(LiveSpend[n])
  BY <1>1, LiveEntries
<1> DEFINE live == LiveSpend
<1> HIDE DEF live
<1>4. DOMAIN live = 1..Len(live) /\ DOMAIN globalSpend = 1..Len(globalSpend)
  BY <1>1, <1>3, LenProperties DEF live
<1>5. \A n \in DOMAIN live : /\ f[n] \in DOMAIN globalSpend /\ live[n] = globalSpend[f[n]]
                             /\ InWindow(live[n])
  BY <1>2, <1>3, <1>4 DEF Keeps, live
<1>6. \A m \in DOMAIN globalSpend : InWindow(globalSpend[m]) =>
        \E n \in DOMAIN live : live[n] = globalSpend[m]
  BY <1>2, <1>4, <1>5 DEF live
<1>7. \A n \in DOMAIN live : \E m \in DOMAIN globalSpend :
        /\ Budgeted(live[n]) = Budgeted(globalSpend[m])
        /\ Budgeted(globalSpend[m]).at > now - Window
  BY <1>5 DEF InWindow, Budgeted
<1>8. \A m \in DOMAIN globalSpend : Budgeted(globalSpend[m]).at > now - Window =>
        \E n \in DOMAIN live : Budgeted(live[n]) = Budgeted(globalSpend[m])
  BY <1>6 DEF InWindow, Budgeted
<1> HIDE DEF Budgeted
<1>9. Ledger(live) = Budget!Live(Ledger(globalSpend))
  BY <1>7, <1>8 DEF Ledger, Budget!Live
<1> QED BY <1>9 DEF live

\* The sum evaluate() computes is the budget's.
LEMMA SpendIsTotal ==
  ASSUME LedgerInv
  PROVE  /\ WindowSpend = Budget!Total(Budget!Live(Ledger(globalSpend)))
         /\ WindowSpend \in Nat
<1> DEFINE live == LiveSpend
           T == Ledger(live)
           f == [n \in DOMAIN live |-> live[n].stroops]
           g == [e \in T |-> e.stroops]
           b == [n \in DOMAIN live |-> Budgeted(live[n])]
<1>1. globalSpend \in Seq(EntryType)
  BY DEF LedgerInv, TypeInv
<1>2. live \in Seq(EntryType) /\ \E h : Keeps(live, globalSpend, h)
  BY <1>1, LiveEntries
<1>3. /\ WindowSpend = SumFunction(f)
      /\ Budget!Total(Budget!Live(Ledger(globalSpend))) = SumFunction(g)
  BY LiveLedger DEF WindowSpend, Budget!Total, SumFunction, SumFunctionOnSet,
     FoldFunctionOnSet, MapThenFoldSet, Budget!SumFunction, Budget!SumFunctionOnSet,
     Budget!FoldFunctionOnSet, Budget!MapThenFoldSet
<1> HIDE DEF live
<1>4. DOMAIN live = 1..Len(live) /\ Len(live) \in Nat
  BY <1>2, LenProperties
<1>5. \A n \in DOMAIN live : live[n] \in EntryType
  BY <1>2, <1>4, ElementOfSeq
<1>6. \A m, n \in DOMAIN live : live[m].owner = live[n].owner => m = n
  <2>1. PICK h : Keeps(live, globalSpend, h)
    BY <1>2
  <2>2. DOMAIN globalSpend = 1..Len(globalSpend)
    BY <1>1, LenProperties
  <2>3. \A n \in DOMAIN live : h[n] \in DOMAIN globalSpend /\ live[n] = globalSpend[h[n]]
    BY <1>4, <2>1, <2>2 DEF Keeps
  <2>4. \A m, n \in DOMAIN live : live[m].owner = live[n].owner => h[m] = h[n]
    BY <2>3, OneEntryEach
  <2>5. \A m, n \in DOMAIN live : m < n => h[m] < h[n]
    BY <1>4, <2>1 DEF Keeps
  <2>6. \A n \in DOMAIN live : h[n] \in Int
    BY <2>2, <2>3
  <2> QED BY <1>4, <2>4, <2>5, <2>6
<1>7. /\ IsFiniteSet(DOMAIN live) /\ IsFiniteSet(T)
  <2>1. IsFiniteSet(DOMAIN live)
    BY <1>4, FS_Interval
  <2>2. b \in [DOMAIN live -> T]
    BY DEF Ledger
  <2>3. \A z \in T : \E n \in DOMAIN live : b[n] = z
    BY DEF Ledger
  <2> HIDE DEF T, b
  <2>4. b \in Surjection(DOMAIN live, T)
    BY <2>2, <2>3 DEF Surjection
  <2> QED BY <2>1, <2>4, FS_Surjection
<1>8. f \in [DOMAIN live -> Nat] /\ g \in [T -> Nat] /\ b \in [DOMAIN live -> T]
  <2>1. \A n \in DOMAIN live : live[n].stroops \in Nat
    BY <1>5, LedgerAssumption DEF EntryType
  <2>2. \A e \in T : e.stroops \in Nat
    BY <2>1 DEF Ledger, Budgeted
  <2>3. \A n \in DOMAIN live : Budgeted(live[n]) \in T
    BY DEF Ledger
  <2> HIDE DEF T
  <2> QED BY <2>1, <2>2, <2>3
<1>9. /\ \A m, n \in DOMAIN live : b[m] = b[n] => m = n
      /\ \A z \in T : \E n \in DOMAIN live : b[n] = z
      /\ \A n \in DOMAIN live : g[b[n]] = f[n]
  <2>1. \A m, n \in DOMAIN live : b[m] = b[n] => live[m].owner = live[n].owner
    BY DEF Budgeted
  <2>2. \A z \in T : \E n \in DOMAIN live : b[n] = z
    BY DEF Ledger
  <2>3. \A n \in DOMAIN live : g[b[n]] = f[n]
    <3> SUFFICES ASSUME NEW n \in DOMAIN live PROVE g[b[n]] = f[n]
      OBVIOUS
    <3>1. b[n] \in T /\ b[n].stroops = live[n].stroops
      BY DEF Ledger, Budgeted
    <3> HIDE DEF b, T
    <3> QED BY <3>1
  <2> HIDE DEF b, T, f, g
  <2> QED BY <1>6, <2>1, <2>2, <2>3
<1>10. SumFunction(f) = SumOf(f, DOMAIN live) /\ SumFunction(g) = SumOf(g, T)
  <2>1. DOMAIN f = DOMAIN live /\ DOMAIN g = T
    OBVIOUS
  <2> HIDE DEF f, g, T
  <2> QED BY <2>1, SumOfFunction
<1> HIDE DEF f, g, b, T
<1>11. SumOf(f, DOMAIN live) = SumOf(g, T)
  BY <1>7, <1>8, <1>9, SumTransfer
<1>12. SumOf(f, DOMAIN live) \in Nat
  BY <1>7, <1>8, SumNat
<1> QED BY <1>3, <1>10, <1>11, <1>12

\* Some entries less than before, with a new one or not.
LEMMA EvaluatedLedger ==
  ASSUME LedgerInv, NEW i
  PROVE  Ledger(Evaluated(i)) \in {Ledger(globalSpend), Budget!Live(Ledger(globalSpend))}
BY LiveLedger DEF Evaluated

LEMMA ReserveBooks ==
  ASSUME LedgerInv, NEW r \in Requests, NEW i \in Identity, Reserve(r, i)
  PROVE  Budget!Book(r)
<1> DEFINE entry == Entry(r, nextReservationId, now, Estimate)
           e == [owner |-> r, at |-> now, stroops |-> Estimate]
           B == Ledger(globalSpend)
           left == Evaluated(i)
<1>1. /\ r \notin Reserved
      /\ Len(left) \in Nat
      /\ DOMAIN globalSpend' = 1..(Len(left) + 1)
      /\ globalSpend'[Len(left) + 1] = entry
      /\ \A n \in 1..Len(left) : globalSpend'[n] = left[n]
  BY ReservedEntries
<1>2. DOMAIN left = 1..Len(left)
  <2>1. left \in Seq(EntryType)
    BY EvaluatedEntries DEF LedgerInv, TypeInv
  <2> HIDE DEF left
  <2> QED BY <2>1, LenProperties
<1>3. Budgeted(entry) = e
  BY DEF Budgeted, Entry
<1>4. Ledger(globalSpend)' = Ledger(left) \cup {e}
  <2>1. \A n \in DOMAIN globalSpend' :
          \/ Budgeted(globalSpend'[n]) = e
          \/ \E m \in DOMAIN left : Budgeted(globalSpend'[n]) = Budgeted(left[m])
    <3> SUFFICES ASSUME NEW n \in DOMAIN globalSpend'
                 PROVE  \/ Budgeted(globalSpend'[n]) = e
                        \/ \E m \in DOMAIN left : Budgeted(globalSpend'[n]) = Budgeted(left[m])
      OBVIOUS
    <3> HIDE DEF left, e, entry
    <3>1. CASE n = Len(left) + 1
      BY <1>1, <1>3, <3>1
    <3>2. CASE n # Len(left) + 1
      <4>1. n \in 1..Len(left)
        BY <1>1, <3>2
      <4> QED BY <1>1, <1>2, <4>1
    <3> QED BY <3>1, <3>2
  <2>2. \A m \in DOMAIN left :
          m \in DOMAIN globalSpend' /\ globalSpend'[m] = left[m]
    <3> HIDE DEF left
    <3> QED BY <1>1, <1>2
  <2>3. \E n \in DOMAIN globalSpend' : Budgeted(globalSpend'[n]) = e
    <3> HIDE DEF left, entry, e
    <3>1. Len(left) + 1 \in DOMAIN globalSpend'
      BY <1>1
    <3> QED BY <1>1, <1>3, <3>1
  <2> DEFINE L == Ledger(globalSpend)'
  <2>4. L = {Budgeted(globalSpend'[n]) : n \in DOMAIN globalSpend'}
    BY DEF Ledger, Budgeted
  <2>5. Ledger(left) = {Budgeted(left[n]) : n \in DOMAIN left}
    BY DEF Ledger
  <2> HIDE DEF L, left, e, Budgeted
  <2>6. L = Ledger(left) \cup {e}
    BY <2>1, <2>2, <2>3, <2>4, <2>5
  <2> QED BY <2>6 DEF L
<1>5. Ledger(left) \in {B, Budget!Live(B)}
  BY EvaluatedLedger
<1>6. Enforced => Budget!Total(Budget!Live(B)) + Estimate <= Ceiling
  <2> HIDE DEF B
  <2>1. Enforced => ~(Budget!Total(Budget!Live(B)) + Estimate > Ceiling)
    BY SpendIsTotal DEF Reserve, OverCeiling, B
  <2>2. Budget!Total(Budget!Live(B)) \in Int
    BY SpendIsTotal DEF B
  <2> QED BY <2>1, <2>2, LedgerAssumption
<1>7. \A x \in issued : x.owner # r
  BY <1>1 DEF LedgerInv, TypeInv
<1>8. issued' = issued \cup {e} /\ now' = now
  BY DEF Reserve
<1>9. /\ {Budgeted(x) : x \in Range(globalSpend)} = B
      /\ {Budgeted(x) : x \in Range(globalSpend)}' = Ledger(left) \cup {e}
  <2>1. {Budgeted(x) : x \in Range(globalSpend)}' = Ledger(globalSpend)'
    BY DEF Range, Ledger, Budgeted
  <2> QED BY <1>4, <2>1, LedgerIsBooked
<1> HIDE DEF B, left, e
<1>10. \E kept \in {B, Budget!Live(B)} :
         {Budgeted(x) : x \in Range(globalSpend)}' = kept \cup {e}
  BY <1>5, <1>9
<1> QED BY <1>6, <1>7, <1>8, <1>9, <1>10 DEF Budget!Book, e

LEMMA RefusePrunes ==
  ASSUME LedgerInv, NEW r \in Requests, NEW i \in Identity, Refuse(r, i)
  PROVE  Budget!Prune \/ UNCHANGED Budget!vars
<1>1. globalSpend' = Evaluated(i) /\ UNCHANGED <<now, issued>>
  BY DEF Refuse
<1>2. Ledger(Evaluated(i)) \in {Ledger(globalSpend), Budget!Live(Ledger(globalSpend))}
  BY EvaluatedLedger
<1>3. Ledger(globalSpend)' = Ledger(Evaluated(i))
  BY <1>1 DEF Ledger, Budgeted
<1>4. {Budgeted(x) : x \in Range(globalSpend)}' = Ledger(globalSpend)'
  BY DEF Range, Ledger, Budgeted
<1> QED BY <1>1, <1>2, <1>3, <1>4, LedgerIsBooked DEF Budget!Prune, Budget!vars

LEMMA LowersCorrects ==
  ASSUME LedgerInv, NEW r, NEW k, NEW e, Lowers(r, k, e), now' = now
  PROVE  Budget!Correct
<1>1. /\ k \in 1..Len(globalSpend) /\ e \in EntryType
      /\ globalSpend[k].owner = r /\ e.owner = r /\ e.at = globalSpend[k].at
      /\ e.stroops <= globalSpend[k].stroops
      /\ globalSpend' = [globalSpend EXCEPT ![k] = e]
      /\ issued' = issued \cup {Budgeted(e)}
  BY DEF Lowers
<1>2. globalSpend \in Seq(EntryType) /\ DOMAIN globalSpend = 1..Len(globalSpend)
  BY LenProperties DEF LedgerInv, TypeInv
<1>3. /\ DOMAIN globalSpend' = DOMAIN globalSpend /\ k \in DOMAIN globalSpend
      /\ \A n \in DOMAIN globalSpend :
           globalSpend'[n] = IF n = k THEN e ELSE globalSpend[n]
  BY <1>1, <1>2
<1> DEFINE B == Ledger(globalSpend)
           old == Budgeted(globalSpend[k])
           L == Ledger(globalSpend)'
<1>4. \A n \in DOMAIN globalSpend : n # k => Budgeted(globalSpend[n]) # old
  BY <1>3, OneEntryEach DEF Budgeted
<1>5. L = {Budgeted(globalSpend'[n]) : n \in DOMAIN globalSpend'}
  BY DEF Ledger, Budgeted
<1>6. L = (B \ {old}) \cup {Budgeted(e)}
  <2> HIDE DEF L, old, Budgeted
  <2> QED BY <1>3, <1>4, <1>5 DEF Ledger, old
<1>7. old \in B /\ Budgeted(e) = [old EXCEPT !.stroops = e.stroops]
      /\ e.stroops <= old.stroops /\ e.stroops \in 0..Estimate
  BY <1>1, <1>3 DEF Ledger, Budgeted, EntryType
<1>8. {Budgeted(x) : x \in Range(globalSpend)}' = L
  BY DEF Range, Ledger, Budgeted
<1>9. {Budgeted(x) : x \in Range(globalSpend)} = B
  BY LedgerIsBooked
<1> HIDE DEF B, old, L
<1> QED BY <1>1, <1>6, <1>7, <1>8, <1>9 DEF Budget!Correct

LEMMA RefundReleases ==
  ASSUME LedgerInv, NEW r \in Requests, RefundUnspent(r)
  PROVE  Budget!Release \/ UNCHANGED Budget!vars
<1>1. globalSpend' = Spliced(r) /\ UNCHANGED <<now, issued>> /\ Active(r)
  BY DEF RefundUnspent, StepUnchanged, Goto, Active
<1>2. /\ \A n \in DOMAIN globalSpend' :
           /\ \E m \in DOMAIN globalSpend : globalSpend'[n] = globalSpend[m]
           /\ globalSpend'[n].owner # r
      /\ \A m \in DOMAIN globalSpend : globalSpend[m].owner # r =>
           \E n \in DOMAIN globalSpend' : globalSpend'[n] = globalSpend[m]
  BY <1>1, SplicedOwn
<1> DEFINE B == Ledger(globalSpend)
           L == Ledger(globalSpend)'
<1>3. /\ {Budgeted(x) : x \in Range(globalSpend)}' = L
      /\ {Budgeted(x) : x \in Range(globalSpend)} = B
  BY LedgerIsBooked DEF Range, Ledger, Budgeted
<1>4. L = {x \in B : x.owner # r}
  <2>1. L = {Budgeted(globalSpend'[n]) : n \in DOMAIN globalSpend'}
    BY DEF Ledger, Budgeted
  <2>2. \A m \in DOMAIN globalSpend : Budgeted(globalSpend[m]).owner = globalSpend[m].owner
    BY DEF Budgeted
  <2> HIDE DEF L, Budgeted
  <2> QED BY <1>2, <2>1, <2>2 DEF Ledger
<1> HIDE DEF L
<1>5. CASE \E m \in DOMAIN globalSpend : globalSpend[m].owner = r
  <2>1. PICK m \in DOMAIN globalSpend : globalSpend[m].owner = r
    BY <1>5
  <2>2. /\ Budgeted(globalSpend[m]) \in B
        /\ \A x \in B : x.owner = r <=> x = Budgeted(globalSpend[m])
    BY <2>1, OneEntryEach DEF Ledger, Budgeted
  <2>3. L = B \ {Budgeted(globalSpend[m])}
    BY <1>4, <2>2
  <2> HIDE DEF B
  <2> QED BY <1>1, <1>3, <2>2, <2>3 DEF Budget!Release
<1>6. CASE \A m \in DOMAIN globalSpend : globalSpend[m].owner # r
  <2>1. \A x \in B : x.owner # r
    BY <1>6 DEF Ledger, Budgeted
  <2> HIDE DEF B
  <2>2. L = B
    BY <1>4, <2>1
  <2> QED BY <1>1, <1>3, <2>2 DEF Budget!vars
<1> QED BY <1>5, <1>6

LEMMA BootRestarts ==
  ASSUME LedgerInv, LedgerInv', Boot
  PROVE  Budget!Restart
<1>1. /\ \A n \in DOMAIN globalSpend' : \E id \in OpenRows : globalSpend'[n] = rows[id]
      /\ \A id \in OpenRows : /\ rows[id].at > now - Window /\ Genuine(rows[id])
                              /\ rows[id] \in EntryType
  BY LoadedEntries
<1>2. UNCHANGED <<now, issued>>
  BY DEF Boot
<1>3. now - Window > 0 /\ now - Window \in Int
  BY LedgerAssumption DEF LedgerInv, TypeInv
<1>4. \A n \in DOMAIN globalSpend' : /\ Budgeted(globalSpend'[n]) \in issued
                                     /\ globalSpend'[n].at > now - Window
  BY <1>1, <1>3 DEF Genuine, EntryType
<1>5. \A m, n \in DOMAIN globalSpend' :
        globalSpend'[m].owner = globalSpend'[n].owner => m = n
  <2>1. \A m, n \in DOMAIN globalSpend' : m < n => globalSpend'[m].id < globalSpend'[n].id
    BY DEF LedgerInv, OrderInv
  <2>2. \A n \in DOMAIN globalSpend' :
          n \in Int /\ globalSpend'[n].id \in Int
          /\ globalSpend'[n].id = token'[globalSpend'[n].owner]
    <3>1. globalSpend' \in Seq(EntryType)
      BY DEF LedgerInv, TypeInv
    <3>2. \A n \in DOMAIN globalSpend' : n \in Int /\ globalSpend'[n] \in EntryType
      BY <3>1, LenProperties, ElementOfSeq
    <3>3. \A n \in DOMAIN globalSpend' : globalSpend'[n].id = token'[globalSpend'[n].owner]
      BY DEF LedgerInv, OwnerInv, Genuine
    <3> QED BY <3>2, <3>3 DEF EntryType, Ids
  <2> QED BY <2>1, <2>2
<1> DEFINE L == {Budgeted(x) : x \in Range(globalSpend)}'
<1>6. L = {Budgeted(globalSpend'[n]) : n \in DOMAIN globalSpend'}
  BY DEF Range, Budgeted
<1> HIDE DEF L
<1>7. L \subseteq Budget!Live(issued)
  <2>1. \A n \in DOMAIN globalSpend' : Budgeted(globalSpend'[n]).at = globalSpend'[n].at
    BY DEF Budgeted
  <2> HIDE DEF Budgeted
  <2> QED BY <1>4, <1>6, <2>1 DEF Budget!Live
<1>8. \A e, f \in L : e.owner = f.owner => e = f
  BY <1>5, <1>6 DEF Budgeted
<1> QED BY <1>2, <1>7, <1>8 DEF Budget!Restart, L

LEMMA CrashRestarts == ASSUME Crash PROVE Budget!Restart
<1>1. globalSpend' = <<>> /\ UNCHANGED <<now, issued>>
  BY DEF Crash
<1>2. {Budgeted(x) : x \in Range(globalSpend)}' = {}
  BY <1>1, EmptySeq, LenProperties DEF Range, Budgeted
<1> QED BY <1>1, <1>2 DEF Budget!Restart

LEMMA LedgerStepIsBudgetStep ==
  ASSUME LedgerInv, LedgerInv', [Next]_vars
  PROVE  [Budget!Next]_(Budget!vars)
<1>1. ASSUME NEW r \in Requests, NEW i \in Identity, Refuse(r, i) \/ Reserve(r, i)
      PROVE  [Budget!Next]_(Budget!vars)
  <2>1. CASE Refuse(r, i)
    BY <2>1, RefusePrunes DEF Budget!Next
  <2>2. CASE Reserve(r, i)
    BY <2>2, ReserveBooks DEF Budget!Next
  <2> QED BY <1>1, <2>1, <2>2
<1>2. ASSUME NEW r \in Requests,
             Submit(r) \/ KeepEstimate(r) \/ Correct(r) \/ Reconcile(r)
      PROVE  [Budget!Next]_(Budget!vars)
  <2>1. /\ now' = now
        /\ \/ UNCHANGED <<globalSpend, issued>>
           \/ \E k, e : Lowers(r, k, e)
    BY <1>2, RunSteps DEF Runs, StepUnchanged
  <2>2. CASE UNCHANGED <<globalSpend, issued>>
    BY <2>1, <2>2 DEF Budget!vars, Range, Budgeted
  <2>3. CASE \E k, e : Lowers(r, k, e)
    BY <2>1, <2>3, LowersCorrects DEF Budget!Next
  <2> QED BY <2>1, <2>2, <2>3
<1>3. ASSUME NEW r \in Requests, RefundUnspent(r) PROVE [Budget!Next]_(Budget!vars)
  BY <1>3, RefundReleases DEF Budget!Next
<1>4. CASE Database \/ UNCHANGED vars
  <2>1. UNCHANGED <<now, globalSpend, issued>>
    BY <1>4 DEF Database, SaveSpendReservation, DeleteElapsedSpendReservations,
       StoreUnchanged, memVars, vars
  <2> QED BY <2>1 DEF Budget!vars, Range, Budgeted
<1>5. CASE Crash \/ Boot
  BY <1>5, CrashRestarts, BootRestarts DEF Budget!Next
<1>6. CASE Tick
  <2>1. now' = now + 1 /\ UNCHANGED <<globalSpend, issued>>
    BY <1>6 DEF Tick, memVars
  <2>2. Budget!Tick
    BY <2>1 DEF Budget!Tick, Range, Budgeted
  <2> QED BY <2>2 DEF Budget!Next
<1> QED BY <1>1, <1>2, <1>3, <1>4, <1>5, <1>6 DEF Next, Request

\* Whatever the store loses, delays or reorders, and across crashes and
\* restarts, the ledger is a budget: an entry is booked once, by its own settle,
\* and on pubnet only under the ceiling; it is only lowered or released by its
\* own settle; and a restart brings back nothing that was never booked or whose
\* window is over, and never two entries of one settle.
THEOREM LedgerImplementsBudget == Spec => ImplementsBudget
<1>1. Init => Budget!Init
  <2> SUFFICES ASSUME Init PROVE Budget!Init
    OBVIOUS
  <2>1. {Budgeted(x) : x \in Range(globalSpend)} = {}
    BY EmptySeq, LenProperties DEF Init, Range
  <2> QED BY <2>1, LedgerAssumption DEF Init, Budget!Init
<1>2. LedgerInv /\ LedgerInv' /\ [Next]_vars => [Budget!Next]_(Budget!vars)
  BY LedgerStepIsBudgetStep
<1> QED BY <1>1, <1>2, Invariant, PTL DEF Spec, ImplementsBudget, Budget!Spec

-----------------------------------------------------------------------------
(* One reservation in memory, on its way and in its row.                   *)

\* evaluate() keeps the entries whose window has not elapsed, and no others.
LEMMA EvaluatedKeeps ==
  ASSUME LedgerInv, NEW i
  PROVE  /\ \A n \in DOMAIN Evaluated(i) :
              \E m \in DOMAIN globalSpend : Evaluated(i)[n] = globalSpend[m]
         /\ \A m \in DOMAIN globalSpend : InWindow(globalSpend[m]) =>
              \E n \in DOMAIN Evaluated(i) : Evaluated(i)[n] = globalSpend[m]
<1> DEFINE t == Evaluated(i)
<1>1. globalSpend \in Seq(EntryType) /\ DOMAIN globalSpend = 1..Len(globalSpend)
  BY LenProperties DEF LedgerInv, TypeInv
<1>2. /\ t \in Seq(EntryType)
      /\ \E f : /\ Keeps(t, globalSpend, f)
                /\ \A m \in 1..Len(globalSpend) : InWindow(globalSpend[m]) =>
                     \E n \in 1..Len(t) : f[n] = m
  BY <1>1, EvaluatedEntries
<1> HIDE DEF t
<1>3. PICK f : /\ Keeps(t, globalSpend, f)
               /\ \A m \in 1..Len(globalSpend) : InWindow(globalSpend[m]) =>
                    \E n \in 1..Len(t) : f[n] = m
  BY <1>2
<1>4. DOMAIN t = 1..Len(t)
  BY <1>2, LenProperties
<1>5. \A n \in DOMAIN t : f[n] \in DOMAIN globalSpend /\ t[n] = globalSpend[f[n]]
  BY <1>1, <1>3, <1>4 DEF Keeps
<1>6. \A m \in DOMAIN globalSpend : InWindow(globalSpend[m]) =>
        \E n \in DOMAIN t : f[n] = m
  BY <1>1, <1>3, <1>4
<1>7. \A m \in DOMAIN globalSpend : InWindow(globalSpend[m]) =>
        \E n \in DOMAIN t : t[n] = globalSpend[m]
  BY <1>5, <1>6
<1> QED BY <1>5, <1>7 DEF t

\* Another settle's write is sent.
LEMMA SendOther ==
  ASSUME writes \in Seq(EntryType), NEW w \in EntryType, writes' = Append(writes, w),
         NEW r, w.owner # r, rows' = rows, token'[r] = token[r]
  PROVE  /\ \A E : NewestIn(r, E) => NewestIn(r, E)'
         /\ w.id # token[r] /\ Undisturbed(r) => Undisturbed(r)'
<1>1. /\ Len(writes) \in Nat /\ DOMAIN writes = 1..Len(writes)
      /\ DOMAIN writes' = 1..(Len(writes) + 1)
      /\ \A n \in 1..Len(writes) : writes'[n] = writes[n]
      /\ writes'[Len(writes) + 1] = w
  BY Appended, LenProperties
<1>2. \A n \in DOMAIN writes' : writes'[n].owner = r =>
        n \in DOMAIN writes /\ writes'[n] = writes[n]
  BY <1>1
<1>3. \A n \in DOMAIN writes : n \in DOMAIN writes' /\ writes'[n] = writes[n]
  BY <1>1
<1>4. ASSUME NEW E, NewestIn(r, E) PROVE NewestIn(r, E)'
  <2>1. \A n \in DOMAIN writes' : LastOf(r, n)' => LastOf(r, n) /\ writes'[n] = writes[n]
    BY <1>2, <1>3 DEF LastOf
  <2>2. Pending(r) => Pending(r)'
    BY <1>3 DEF Pending
  <2>3. \A n \in DOMAIN writes' : LastOf(r, n)' => writes'[n] \in E
    BY <1>2, <1>4, <2>1 DEF NewestIn, LastOf
  <2>4. ~Pending(r)' => rows'[token'[r]] \in E
    BY <1>4, <2>2 DEF NewestIn
  <2> QED BY <2>3, <2>4 DEF NewestIn
<1>5. ASSUME w.id # token[r], Undisturbed(r) PROVE Undisturbed(r)'
  <2> SUFFICES ASSUME NEW n \in DOMAIN writes', writes'[n].id = token[r], writes'[n].owner # r
               PROVE  \E j \in DOMAIN writes' : j > n /\ writes'[j].owner = r
    BY DEF Undisturbed
  <2>1. n \in DOMAIN writes /\ writes'[n] = writes[n]
    BY <1>1, <1>5
  <2>2. PICK j \in DOMAIN writes : j > n /\ writes[j].owner = r
    BY <1>5, <2>1 DEF Undisturbed
  <2> QED BY <1>3, <2>2
<1> QED BY <1>4, <1>5

\* A write of r is sent.
LEMMA SendOwn ==
  ASSUME writes \in Seq(EntryType), NEW w \in EntryType, writes' = Append(writes, w),
         NEW r, w.owner = r
  PROVE  /\ \A E : w \in E => NewestIn(r, E)'
         /\ Undisturbed(r)'
<1>1. /\ Len(writes) \in Nat
      /\ DOMAIN writes' = 1..(Len(writes) + 1)
      /\ writes'[Len(writes) + 1] = w
  BY Appended, LenProperties
<1>2. Len(writes) + 1 \in DOMAIN writes' /\ \A n \in DOMAIN writes' : n <= Len(writes) + 1
  BY <1>1
<1>3. ASSUME NEW n \in DOMAIN writes', LastOf(r, n)' PROVE writes'[n] = w
  <2>1. Len(writes) + 1 <= n
    BY <1>1, <1>2, <1>3 DEF LastOf
  <2>2. n = Len(writes) + 1
    BY <1>1, <2>1
  <2> QED BY <1>1, <2>2
<1>4. Pending(r)'
  BY <1>1, <1>2 DEF Pending
<1>5. ASSUME NEW n \in DOMAIN writes', writes'[n].owner # r
      PROVE  \E j \in DOMAIN writes' : j > n /\ writes'[j].owner = r
  <2>1. n # Len(writes) + 1
    BY <1>1, <1>5
  <2> QED BY <1>1, <1>2, <2>1
<1> QED BY <1>3, <1>4, <1>5 DEF NewestIn, LastOf, Undisturbed

\* Nothing is sent and nothing lands.
LEMMA StoreQuiet ==
  ASSUME NEW r, UNCHANGED <<writes, rows, token>>
  PROVE  /\ \A E : NewestIn(r, E) => NewestIn(r, E)'
         /\ Undisturbed(r) => Undisturbed(r)'
BY DEF NewestIn, LastOf, Pending, Undisturbed

\* A write lands: the places of the others.
LEMMA LandedPlaces ==
  ASSUME writes \in Seq(EntryType), NEW i \in DOMAIN writes, writes' = RemoveAt(writes, i)
  PROVE  \E h : /\ h \in [DOMAIN writes' -> DOMAIN writes \ {i}]
                /\ \A m, n \in DOMAIN writes' : m <= n <=> h[m] <= h[n]
                /\ \A n \in DOMAIN writes' : writes'[n] = writes[h[n]]
                /\ \A j \in DOMAIN writes \ {i} : \E n \in DOMAIN writes' : h[n] = j
<1>1. /\ Len(writes) \in Nat
      /\ DOMAIN writes = 1..Len(writes) /\ DOMAIN writes' = 1..(Len(writes) - 1)
      /\ \A n \in 1..(Len(writes) - 1) : writes'[n] = writes[IF n < i THEN n ELSE n + 1]
  BY LandedWrites
<1> DEFINE h == [n \in DOMAIN writes' |-> IF n < i THEN n ELSE n + 1]
<1>2. h \in [DOMAIN writes' -> DOMAIN writes \ {i}]
  BY <1>1
<1>3. \A m, n \in DOMAIN writes' : m <= n <=> h[m] <= h[n]
  BY <1>1
<1>4. \A n \in DOMAIN writes' : writes'[n] = writes[h[n]]
  BY <1>1
<1>5. ASSUME NEW j \in DOMAIN writes \ {i} PROVE \E n \in DOMAIN writes' : h[n] = j
  <2>1. CASE j < i
    <3>1. j \in DOMAIN writes' /\ h[j] = j
      BY <1>1, <2>1
    <3> QED BY <3>1
  <2>2. CASE ~(j < i)
    <3>1. j - 1 \in DOMAIN writes' /\ ~(j - 1 < i) /\ (j - 1) + 1 = j
      BY <1>1, <2>2
    <3>2. h[j - 1] = j
      BY <3>1
    <3> QED BY <3>1, <3>2
  <2> QED BY <2>1, <2>2
<1> HIDE DEF h
<1> QED BY <1>2, <1>3, <1>4, <1>5

\* Another settle's write lands.
LEMMA LandOther ==
  ASSUME LedgerInv, NEW i \in DOMAIN writes, SaveSpendReservation(i),
         NEW r \in Reserved, writes[i].owner # r
  PROVE  /\ NewestIn(r, Absent(r)) => NewestIn(r, Absent(r))'
         /\ \A E : NewestIn(r, E) /\ Undisturbed(r) => NewestIn(r, E)'
         /\ Undisturbed(r) => Undisturbed(r)'
<1> DEFINE w == writes[i]
<1>1. /\ rows' = [rows EXCEPT ![w.id] = w] /\ writes' = RemoveAt(writes, i)
      /\ token' = token
  BY DEF SaveSpendReservation, StoreUnchanged, requestVars
<1>2. /\ writes \in Seq(EntryType) /\ DOMAIN rows = Ids /\ w \in EntryType
      /\ DOMAIN writes = 1..Len(writes) /\ Len(writes) \in Nat
  BY LenProperties, ElementOfSeq DEF LedgerInv, TypeInv
<1>3. PICK h : /\ h \in [DOMAIN writes' -> DOMAIN writes \ {i}]
               /\ \A m, n \in DOMAIN writes' : m <= n <=> h[m] <= h[n]
               /\ \A n \in DOMAIN writes' : writes'[n] = writes[h[n]]
               /\ \A j \in DOMAIN writes \ {i} : \E n \in DOMAIN writes' : h[n] = j
  BY <1>1, <1>2, LandedPlaces
<1>4. \A j \in DOMAIN writes : writes[j].owner = r =>
        \E n \in DOMAIN writes' : h[n] = j /\ writes'[n] = writes[j]
  BY <1>3
<1>5. ASSUME NEW n \in DOMAIN writes', LastOf(r, n)'
      PROVE  LastOf(r, h[n]) /\ writes'[n] = writes[h[n]]
  <2>1. \A m \in DOMAIN writes' : writes'[m].owner = r => m <= n
    BY <1>5 DEF LastOf
  <2>2. writes'[n].owner = r /\ h[n] \in DOMAIN writes /\ writes'[n] = writes[h[n]]
    BY <1>3, <1>5 DEF LastOf
  <2>3. ASSUME NEW j \in DOMAIN writes, writes[j].owner = r PROVE j <= h[n]
    <3>1. PICK m \in DOMAIN writes' : h[m] = j /\ writes'[m] = writes[j]
      BY <1>4, <2>3
    <3> QED BY <1>3, <2>1, <2>3, <3>1
  <2> QED BY <2>2, <2>3 DEF LastOf
<1>6. Pending(r) => Pending(r)'
  BY <1>4 DEF Pending
<1>7. rows'[token[r]] \in {rows[token[r]], w}
      /\ (w.id # token[r] => rows'[token[r]] = rows[token[r]])
  BY <1>1, <1>2, SmallSets DEF LedgerInv, TokenInv, Ids
<1>8. ASSUME NewestIn(r, Absent(r)) PROVE NewestIn(r, Absent(r))'
  <2>1. w \in Absent(r)
    BY <1>2 DEF Absent
  <2>2. \A n \in DOMAIN writes' : LastOf(r, n)' => writes'[n] \in Absent(r)
    BY <1>5, <1>8 DEF NewestIn, LastOf
  <2>3. ~Pending(r)' => rows'[token[r]] \in Absent(r)
    BY <1>6, <1>7, <1>8, <2>1 DEF NewestIn
  <2> QED BY <1>1, <2>2, <2>3 DEF NewestIn, Absent
<1>9. ASSUME NEW E, NewestIn(r, E), Undisturbed(r) PROVE NewestIn(r, E)'
  <2>1. w.id = token[r] => Pending(r)
    BY <1>9 DEF Undisturbed, Pending
  <2>2. \A n \in DOMAIN writes' : LastOf(r, n)' => writes'[n] \in E
    BY <1>5, <1>9 DEF NewestIn, LastOf
  <2>3. ~Pending(r)' => rows'[token[r]] \in E
    BY <1>6, <1>7, <1>9, <2>1 DEF NewestIn
  <2> QED BY <1>1, <2>2, <2>3 DEF NewestIn
<1>10. ASSUME Undisturbed(r) PROVE Undisturbed(r)'
  <2> SUFFICES ASSUME NEW n \in DOMAIN writes', writes'[n].id = token[r], writes'[n].owner # r
               PROVE  \E m \in DOMAIN writes' : m > n /\ writes'[m].owner = r
    BY <1>1 DEF Undisturbed
  <2>1. h[n] \in DOMAIN writes /\ writes'[n] = writes[h[n]]
    BY <1>3
  <2>2. PICK j \in DOMAIN writes : j > h[n] /\ writes[j].owner = r
    BY <1>10, <2>1 DEF Undisturbed
  <2>3. PICK m \in DOMAIN writes' : h[m] = j /\ writes'[m] = writes[j]
    BY <1>4, <2>2
  <2>4. DOMAIN writes' \subseteq Int
    <3>1. DOMAIN writes' = 1..(Len(writes) - 1)
      BY <1>1, <1>2, LandedWrites
    <3> QED BY <1>2, <3>1
  <2>5. ~(h[m] <= h[n])
    BY <1>2, <2>1, <2>2, <2>3
  <2>6. m > n
    BY <1>3, <2>4, <2>5
  <2> QED BY <2>2, <2>3, <2>6
<1> QED BY <1>8, <1>9, <1>10

\* The first of r's writes lands, and no write it could overwrite is before it.
LEMMA LandOwn ==
  ASSUME LedgerInv, NEW i \in DOMAIN writes, SaveSpendReservation(i),
         NEW r \in Reserved, writes[i].owner = r, r \notin untidy'
  PROVE  /\ \A E : NewestIn(r, E) => NewestIn(r, E)'
         /\ Undisturbed(r) => Undisturbed(r)'
<1> DEFINE w == writes[i]
<1>1. /\ rows' = [rows EXCEPT ![w.id] = w] /\ writes' = RemoveAt(writes, i)
      /\ token' = token
      /\ untidy' = untidy \cup IF Overtaken(i) = {} THEN {}
                               ELSE {writes[j].owner : j \in Overtaken(i) \cup {i}}
  BY DEF SaveSpendReservation, StoreUnchanged, requestVars
<1>2. /\ writes \in Seq(EntryType) /\ DOMAIN rows = Ids /\ w \in EntryType
      /\ DOMAIN writes = 1..Len(writes) /\ Len(writes) \in Nat
  BY LenProperties, ElementOfSeq DEF LedgerInv, TypeInv
<1>3. PICK h : /\ h \in [DOMAIN writes' -> DOMAIN writes \ {i}]
               /\ \A m, n \in DOMAIN writes' : m <= n <=> h[m] <= h[n]
               /\ \A n \in DOMAIN writes' : writes'[n] = writes[h[n]]
               /\ \A j \in DOMAIN writes \ {i} : \E n \in DOMAIN writes' : h[n] = j
  BY <1>1, <1>2, LandedPlaces
<1>4. Overtaken(i) = {}
  <2>1. Overtaken(i) # {} => w.owner \in untidy'
    BY <1>1
  <2> QED BY <2>1
<1>5. /\ \A j \in DOMAIN writes : writes[j].owner = r => writes[j].id = token[r]
      /\ w.id = token[r] /\ token[r] \in Ids
  BY <1>2 DEF LedgerInv, OwnerInv, Genuine, EntryType
<1>6. \A j \in DOMAIN writes : writes[j].id = token[r] => i <= j
  BY <1>2, <1>4, <1>5 DEF Overtaken
<1>7. rows'[token[r]] = w
  BY <1>1, <1>2, <1>5
<1>8. DOMAIN writes' \subseteq Int
  <2>1. DOMAIN writes' = 1..(Len(writes) - 1)
    BY <1>1, <1>2, LandedWrites
  <2> QED BY <1>2, <2>1
<1>9. \A j \in DOMAIN writes : j # i /\ writes[j].owner = r =>
        \E n \in DOMAIN writes' : h[n] = j /\ writes'[n] = writes[j]
  BY <1>3
<1>10. ASSUME NEW E, NewestIn(r, E) PROVE NewestIn(r, E)'
  <2>1. ASSUME NEW n \in DOMAIN writes', LastOf(r, n)' PROVE writes'[n] \in E
    <3>1. \A m \in DOMAIN writes' : writes'[m].owner = r => m <= n
      BY <2>1 DEF LastOf
    <3>2. /\ writes'[n].owner = r /\ h[n] \in DOMAIN writes \ {i}
          /\ writes'[n] = writes[h[n]]
      BY <1>3, <2>1 DEF LastOf
    <3>3. i <= h[n]
      BY <1>5, <1>6, <3>2
    <3>4. ASSUME NEW j \in DOMAIN writes, writes[j].owner = r PROVE j <= h[n]
      <4>1. CASE j = i
        BY <3>3, <4>1
      <4>2. CASE j # i
        <5>1. PICK m \in DOMAIN writes' : h[m] = j /\ writes'[m] = writes[j]
          BY <1>9, <3>4, <4>2
        <5> QED BY <1>3, <3>1, <3>4, <5>1
      <4> QED BY <4>1, <4>2
    <3>5. LastOf(r, h[n])
      BY <3>2, <3>4 DEF LastOf
    <3> QED BY <1>10, <3>2, <3>5 DEF NewestIn
  <2>2. ASSUME ~Pending(r)' PROVE w \in E
    <3>1. \A j \in DOMAIN writes : writes[j].owner = r => j = i
      BY <1>9, <2>2 DEF Pending
    <3>2. LastOf(r, i)
      BY <1>2, <3>1 DEF LastOf
    <3> QED BY <1>10, <3>2 DEF NewestIn
  <2> QED BY <1>1, <1>7, <2>1, <2>2 DEF NewestIn, LastOf
<1>11. ASSUME Undisturbed(r) PROVE Undisturbed(r)'
  <2> SUFFICES ASSUME NEW n \in DOMAIN writes', writes'[n].id = token[r], writes'[n].owner # r
               PROVE  \E m \in DOMAIN writes' : m > n /\ writes'[m].owner = r
    BY <1>1 DEF Undisturbed
  <2>1. h[n] \in DOMAIN writes \ {i} /\ writes'[n] = writes[h[n]]
    BY <1>3
  <2>2. PICK j \in DOMAIN writes : j > h[n] /\ writes[j].owner = r
    BY <1>11, <2>1 DEF Undisturbed
  <2>3. j # i
    BY <1>2, <1>6, <2>1, <2>2
  <2>4. PICK m \in DOMAIN writes' : h[m] = j /\ writes'[m] = writes[j]
    BY <1>9, <2>2, <2>3
  <2>5. ~(h[m] <= h[n])
    BY <1>2, <2>1, <2>2, <2>4
  <2>6. m > n
    BY <1>3, <1>8, <2>5
  <2> QED BY <2>2, <2>4, <2>6
<1> QED BY <1>10, <1>11

\* A step accounts for r when it keeps what the store has of it, and globalSpend
\* neither loses its entry nor gains one.
LEMMA AccountedKept ==
  ASSUME NEW r, Accounted(r),
         pc'[r] = "refunded" <=> pc[r] = "refunded", madeAt'[r] = madeAt[r],
         NewestIn(r, Absent(r)) => NewestIn(r, Absent(r))',
         \A e \in EntryType : Undisturbed(r) /\ BookedAs(r, e) =>
           /\ NewestIn(r, {e})' /\ Undisturbed(r)'
           /\ up' => \E n \in DOMAIN globalSpend' : globalSpend'[n] = e,
         Unbooked(r) => \A n \in DOMAIN globalSpend' : globalSpend'[n].owner # r
  PROVE  Accounted(r)'
<1>1. CASE pc[r] = "refunded"
  <2>1. Unbooked(r)
    BY <1>1 DEF Accounted
  <2>2. Unbooked(r)'
    BY <2>1 DEF Unbooked, Absent, EntryType
  <2> QED BY <1>1, <2>2 DEF Accounted
<1>2. CASE pc[r] # "refunded"
  <2>1. Undisturbed(r)
    BY <1>2 DEF Accounted
  <2>2. PICK e \in EntryType : BookedAs(r, e)
    BY <1>2 DEF Accounted
  <2>3. BookedAs(r, e)' /\ Undisturbed(r)'
    BY <2>1, <2>2 DEF BookedAs
  <2> QED BY <1>2, <2>3 DEF Accounted
<1> QED BY <1>1, <1>2

LEMMA AccountedRefuse ==
  ASSUME LedgerInv, NEW q \in Requests, NEW i \in Identity, Refuse(q, i),
         NEW r \in Reserved, madeAt[r] > now - Window, Accounted(r)
  PROVE  Accounted(r)'
<1>1. /\ globalSpend' = Evaluated(i) /\ pc[q] = "idle" /\ pc' = [pc EXCEPT ![q] = "refused"]
      /\ UNCHANGED <<up, token, madeAt, rows, writes>>
  BY DEF Refuse, storeVars
<1>2. pc'[r] = pc[r]
  BY <1>1 DEF Reserved
<1>3. /\ \A n \in DOMAIN globalSpend' :
           \E m \in DOMAIN globalSpend : globalSpend'[n] = globalSpend[m]
      /\ \A m \in DOMAIN globalSpend : InWindow(globalSpend[m]) =>
           \E n \in DOMAIN globalSpend' : globalSpend'[n] = globalSpend[m]
  BY <1>1, EvaluatedKeeps
<1>4. /\ \A E : NewestIn(r, E) => NewestIn(r, E)'
      /\ Undisturbed(r) => Undisturbed(r)'
  BY <1>1, StoreQuiet
<1>5. ASSUME NEW e, Undisturbed(r), BookedAs(r, e)
      PROVE  /\ NewestIn(r, {e})' /\ Undisturbed(r)'
             /\ up' => \E n \in DOMAIN globalSpend' : globalSpend'[n] = e
  <2>1. NewestIn(r, {e})' /\ Undisturbed(r)'
    BY <1>4, <1>5 DEF BookedAs
  <2>2. InWindow(e)
    BY <1>5 DEF BookedAs, InWindow
  <2> QED BY <1>1, <1>3, <1>5, <2>1, <2>2 DEF BookedAs
<1>6. NewestIn(r, Absent(r)) => NewestIn(r, Absent(r))'
  BY <1>4 DEF Absent, EntryType
<1>7. Unbooked(r) => \A n \in DOMAIN globalSpend' : globalSpend'[n].owner # r
  BY <1>3 DEF Unbooked
<1> QED BY <1>1, <1>2, <1>5, <1>6, <1>7, AccountedKept

LEMMA AccountedReserve ==
  ASSUME LedgerInv, NEW q \in Requests, NEW i \in Identity, Reserve(q, i)
  PROVE  /\ Accounted(q)'
         /\ \A r \in Reserved : madeAt[r] > now - Window /\ Accounted(r) => Accounted(r)'
<1> DEFINE t == Evaluated(i)
<1> PICK entry : entry = Entry(q, nextReservationId, now, Estimate)
  OBVIOUS
<1>1. /\ q \notin Reserved /\ nextReservationId \in Ids /\ entry \in EntryType
      /\ Len(t) \in Nat
      /\ DOMAIN globalSpend' = 1..(Len(t) + 1)
      /\ globalSpend'[Len(t) + 1] = entry
      /\ \A n \in 1..Len(t) : globalSpend'[n] = t[n]
      /\ writes' = Append(writes, entry)
  BY ReservedEntries DEF Entry
<1>2. /\ up /\ up' = up /\ pc[q] = "idle" /\ pc' = [pc EXCEPT ![q] = "reserved"] /\ rows' = rows
      /\ token' = [token EXCEPT ![q] = nextReservationId]
      /\ madeAt' = [madeAt EXCEPT ![q] = now]
  BY DEF Reserve
<1>3. /\ writes \in Seq(EntryType) /\ pc \in [Requests -> Phases]
      /\ token \in [Requests -> Ids \cup {0}] /\ madeAt \in [Requests -> 0..End]
      /\ \A m \in DOMAIN globalSpend : globalSpend[m].id < nextReservationId
  BY DEF LedgerInv, TypeInv, OrderInv
<1>4. DOMAIN t = 1..Len(t)
  <2>1. t \in Seq(EntryType)
    BY EvaluatedEntries DEF LedgerInv, TypeInv
  <2> HIDE DEF t
  <2> QED BY <2>1, LenProperties
<1>5. /\ \A n \in DOMAIN t : \E m \in DOMAIN globalSpend : t[n] = globalSpend[m]
      /\ \A m \in DOMAIN globalSpend : InWindow(globalSpend[m]) =>
           \E n \in DOMAIN t : t[n] = globalSpend[m]
  BY EvaluatedKeeps
<1>6. entry.owner = q /\ entry.id = nextReservationId /\ entry.at = now
  BY DEF Entry
<1> HIDE DEF t
<1>7. Len(t) + 1 \in DOMAIN globalSpend'
      /\ \A n \in DOMAIN t : n \in DOMAIN globalSpend' /\ globalSpend'[n] = t[n]
  BY <1>1, <1>4
<1>8. \A n \in DOMAIN globalSpend' : globalSpend'[n] = entry \/ n \in DOMAIN t
  BY <1>1, <1>4
<1>9. Accounted(q)'
  <2>1. NewestIn(q, {entry})' /\ Undisturbed(q)'
    BY <1>1, <1>3, <1>6, SendOwn
  <2>2. entry.at = madeAt'[q] /\ pc'[q] = "reserved"
    BY <1>2, <1>3, <1>6
  <2>3. BookedAs(q, entry)'
    BY <1>1, <1>6, <1>7, <2>1, <2>2 DEF BookedAs
  <2> QED BY <1>1, <2>1, <2>2, <2>3 DEF Accounted
<1>10. ASSUME NEW r \in Reserved, madeAt[r] > now - Window, Accounted(r)
       PROVE  Accounted(r)'
  <2>1. r # q /\ pc'[r] = pc[r] /\ token'[r] = token[r] /\ madeAt'[r] = madeAt[r]
    BY <1>1, <1>2, <1>3, SmallSets
  <2>2. /\ \A E : NewestIn(r, E) => NewestIn(r, E)'
        /\ entry.id # token[r] /\ Undisturbed(r) => Undisturbed(r)'
    BY <1>1, <1>2, <1>3, <1>6, <2>1, SendOther
  <2>3. ASSUME NEW e, Undisturbed(r), BookedAs(r, e)
        PROVE  /\ NewestIn(r, {e})' /\ Undisturbed(r)'
               /\ up' => \E n \in DOMAIN globalSpend' : globalSpend'[n] = e
    <3>1. PICK m \in DOMAIN globalSpend : globalSpend[m] = e
      BY <1>2, <2>3 DEF BookedAs
    <3>2. e.id = token[r] /\ e.id < nextReservationId /\ e.owner = r
      BY <1>3, <2>3, <3>1 DEF LedgerInv, OwnerInv, Genuine, BookedAs
    <3>3. entry.id # token[r]
      <4>1. token[r] \in Nat
        BY <1>3, SmallSets DEF Ids
      <4> QED BY <1>1, <1>6, <3>2, <4>1 DEF Ids
    <3>4. InWindow(e)
      BY <1>10, <2>3 DEF BookedAs, InWindow
    <3>5. \E n \in DOMAIN globalSpend' : globalSpend'[n] = e
      BY <1>5, <1>7, <3>1, <3>4
    <3> QED BY <2>2, <2>3, <3>3, <3>5 DEF BookedAs
  <2>4. NewestIn(r, Absent(r)) => NewestIn(r, Absent(r))'
    BY <2>2 DEF Absent, EntryType
  <2>5. Unbooked(r) => \A n \in DOMAIN globalSpend' : globalSpend'[n].owner # r
    BY <1>5, <1>6, <1>7, <1>8, <2>1 DEF Unbooked
  <2> QED BY <1>10, <2>1, <2>3, <2>4, <2>5, AccountedKept
<1> QED BY <1>9, <1>10

LEMMA AccountedRun ==
  ASSUME LedgerInv, NEW q \in Requests, Runs(q),
         NEW r \in Reserved, Accounted(r)
  PROVE  Accounted(r)'
<1>1. /\ up /\ Active(q) /\ UNCHANGED <<up, token, madeAt, rows>>
  BY DEF Runs, StepUnchanged
<1>2. PICK to \in {"submitted", "reconciling", "done"} :
        /\ pc' = [pc EXCEPT ![q] = to]
        /\ \/ UNCHANGED <<globalSpend, writes, issued>>
           \/ \E k, e : Lowers(q, k, e)
  BY DEF Runs
<1>3. pc'[r] = "refunded" <=> pc[r] = "refunded"
  BY <1>1, <1>2, SmallSets DEF LedgerInv, TypeInv, Active
<1>4. CASE UNCHANGED <<globalSpend, writes>>
  <2>1. /\ \A E : NewestIn(r, E) => NewestIn(r, E)'
        /\ Undisturbed(r) => Undisturbed(r)'
    BY <1>1, <1>4, StoreQuiet
  <2>2. \A e : Undisturbed(r) /\ BookedAs(r, e) =>
          /\ NewestIn(r, {e})' /\ Undisturbed(r)'
          /\ up' => \E n \in DOMAIN globalSpend' : globalSpend'[n] = e
    BY <1>1, <1>4, <2>1 DEF BookedAs
  <2>3. NewestIn(r, Absent(r)) => NewestIn(r, Absent(r))'
    BY <2>1 DEF Absent, EntryType
  <2>4. Unbooked(r) => \A n \in DOMAIN globalSpend' : globalSpend'[n].owner # r
    BY <1>4 DEF Unbooked
  <2> QED BY <1>1, <1>3, <2>2, <2>3, <2>4, AccountedKept
<1>5. ASSUME NEW k, NEW w, Lowers(q, k, w) PROVE Accounted(r)'
  <2>1. /\ k \in DOMAIN globalSpend /\ w \in EntryType
        /\ globalSpend[k].id = token[q] /\ globalSpend[k].owner = q
        /\ w.owner = q /\ w.id = token[q] /\ w.at = globalSpend[k].at
        /\ globalSpend' = [globalSpend EXCEPT ![k] = w]
        /\ writes' = Append(writes, w)
    BY <1>5, LenProperties DEF Lowers, LedgerInv, TypeInv
  <2>2. /\ DOMAIN globalSpend' = DOMAIN globalSpend /\ globalSpend'[k] = w
        /\ \A n \in DOMAIN globalSpend : n # k => globalSpend'[n] = globalSpend[n]
    BY <2>1
  <2>3. writes \in Seq(EntryType)
    BY DEF LedgerInv, TypeInv
  <2>4. CASE r = q
    <3>1. pc[r] # "refunded" /\ pc'[r] # "refunded"
      BY <1>1, <1>3, <2>4 DEF Active
    <3>2. NewestIn(r, {w})' /\ Undisturbed(r)'
      BY <2>1, <2>3, <2>4, SendOwn
    <3>3. w.at = madeAt'[r]
      BY <1>1, <2>1, <2>4 DEF LedgerInv, OwnerInv, Genuine
    <3>4. BookedAs(r, w)'
      BY <2>1, <2>2, <2>4, <3>2, <3>3 DEF BookedAs
    <3> QED BY <2>1, <3>1, <3>2, <3>4 DEF Accounted
  <2>5. CASE r # q
    <3>1. /\ \A E : NewestIn(r, E) => NewestIn(r, E)'
          /\ w.id # token[r] /\ Undisturbed(r) => Undisturbed(r)'
      BY <1>1, <2>1, <2>3, <2>5, SendOther
    <3>2. ASSUME NEW e, Undisturbed(r), BookedAs(r, e)
          PROVE  /\ NewestIn(r, {e})' /\ Undisturbed(r)'
                 /\ up' => \E n \in DOMAIN globalSpend' : globalSpend'[n] = e
      <4>1. PICK m \in DOMAIN globalSpend : globalSpend[m] = e /\ e.owner = r
        BY <1>1, <3>2 DEF BookedAs
      <4>2. m # k /\ e.id = token[r]
        BY <2>1, <2>5, <4>1 DEF LedgerInv, OwnerInv, Genuine
      <4>3. w.id # token[r]
        BY <2>1, <4>1, <4>2, DifferentIds
      <4> QED BY <2>2, <3>1, <3>2, <4>1, <4>2, <4>3 DEF BookedAs
    <3>3. NewestIn(r, Absent(r)) => NewestIn(r, Absent(r))'
      BY <3>1 DEF Absent, EntryType
    <3>4. Unbooked(r) => \A n \in DOMAIN globalSpend' : globalSpend'[n].owner # r
      BY <2>1, <2>2, <2>5 DEF Unbooked
    <3> QED BY <1>1, <1>3, <3>2, <3>3, <3>4, AccountedKept
  <2> QED BY <2>4, <2>5
<1> QED BY <1>2, <1>4, <1>5

LEMMA AccountedRefund ==
  ASSUME LedgerInv, NEW q \in Requests, RefundUnspent(q),
         NEW r \in Reserved, Accounted(r)
  PROVE  Accounted(r)'
<1> DEFINE w == Entry(q, token[q], 0, 0)
<1>1. /\ up /\ pc[q] = "reserved" /\ pc' = [pc EXCEPT ![q] = "refunded"]
      /\ globalSpend' = Spliced(q) /\ writes' = writes \o <<w>>
      /\ UNCHANGED <<up, token, madeAt, rows>>
  BY DEF RefundUnspent, Goto, Persist, StepUnchanged
<1>2. /\ Active(q) /\ q \in Reserved /\ token[q] \in Ids
  <2>1. Active(q) /\ q \in Reserved
    BY <1>1 DEF Active, Reserved
  <2>2. token[q] \in 1..Cardinality(Reserved)
    BY <2>1 DEF LedgerInv, TokenInv
  <2> QED BY <2>1, <2>2, SmallSets DEF Ids
<1>3. w \in EntryType /\ w.owner = q /\ w.id = token[q] /\ w.at = 0
  BY <1>2, LedgerAssumption DEF Entry, EntryType
<1>4. writes \in Seq(EntryType) /\ writes' = Append(writes, w)
  BY <1>1, <1>3, Appended DEF LedgerInv, TypeInv
<1> HIDE DEF w
<1>5. /\ \A n \in DOMAIN globalSpend' : /\ \E m \in DOMAIN globalSpend : globalSpend'[n] = globalSpend[m]
                                        /\ globalSpend'[n].owner # q
      /\ \A m \in DOMAIN globalSpend : globalSpend[m].owner # q =>
           \E n \in DOMAIN globalSpend' : globalSpend'[n] = globalSpend[m]
  BY <1>1, <1>2, SplicedOwn
<1>6. CASE r = q
  <2>1. w \in Absent(r)
    BY <1>3 DEF Absent
  <2>2. NewestIn(r, Absent(r))'
    <3>1. \A E : w \in E => NewestIn(r, E)'
      BY <1>3, <1>4, <1>6, SendOwn
    <3> QED BY <2>1, <3>1 DEF Absent, EntryType
  <2>3. pc'[r] = "refunded"
    BY <1>1, <1>6 DEF LedgerInv, TypeInv
  <2>4. Unbooked(r)'
    BY <1>5, <1>6, <2>2 DEF Unbooked
  <2> QED BY <2>3, <2>4 DEF Accounted
<1>7. CASE r # q
  <2>1. pc'[r] = pc[r]
    BY <1>1, <1>7 DEF LedgerInv, TypeInv
  <2>2. /\ \A E : NewestIn(r, E) => NewestIn(r, E)'
        /\ w.id # token[r] /\ Undisturbed(r) => Undisturbed(r)'
    BY <1>1, <1>3, <1>4, <1>7, SendOther
  <2>3. ASSUME NEW e, Undisturbed(r), BookedAs(r, e)
        PROVE  /\ NewestIn(r, {e})' /\ Undisturbed(r)'
               /\ up' => \E n \in DOMAIN globalSpend' : globalSpend'[n] = e
    <3>1. PICK m \in DOMAIN globalSpend : globalSpend[m] = e /\ e.owner = r
      BY <1>1, <2>3 DEF BookedAs
    <3>2. e.id = token[r]
      BY <3>1 DEF LedgerInv, OwnerInv, Genuine
    <3>3. w.id # token[r]
      BY <1>2, <1>3, <1>7, <3>1, <3>2 DEF LedgerInv, ActiveInv
    <3> QED BY <1>5, <1>7, <2>2, <2>3, <3>1, <3>3 DEF BookedAs
  <2>4. NewestIn(r, Absent(r)) => NewestIn(r, Absent(r))'
    BY <2>2 DEF Absent, EntryType
  <2>5. Unbooked(r) => \A n \in DOMAIN globalSpend' : globalSpend'[n].owner # r
    BY <1>5 DEF Unbooked
  <2> QED BY <1>1, <2>1, <2>3, <2>4, <2>5, AccountedKept
<1> QED BY <1>6, <1>7

LEMMA AccountedDatabase ==
  ASSUME LedgerInv, Database,
         NEW r \in Reserved, r \notin untidy', madeAt[r] > now - Window, Accounted(r)
  PROVE  Accounted(r)'
<1>1. UNCHANGED <<up, now, globalSpend, pc, token, madeAt>>
  BY DEF Database, SaveSpendReservation, DeleteElapsedSpendReservations, StoreUnchanged,
     memVars, requestVars
<1>2. SUFFICES ASSUME NewestIn(r, Absent(r)) => NewestIn(r, Absent(r))',
                      \A e : Undisturbed(r) /\ BookedAs(r, e) =>
                        NewestIn(r, {e})' /\ Undisturbed(r)'
               PROVE  Accounted(r)'
  <2>1. ASSUME NEW i \in DOMAIN writes, SaveSpendReservation(i)
        PROVE  /\ NewestIn(r, Absent(r)) => NewestIn(r, Absent(r))'
               /\ \A e : Undisturbed(r) /\ BookedAs(r, e) =>
                    NewestIn(r, {e})' /\ Undisturbed(r)'
    <3>1. CASE writes[i].owner = r
      <4>1. /\ \A E : NewestIn(r, E) => NewestIn(r, E)'
            /\ Undisturbed(r) => Undisturbed(r)'
        BY <2>1, <3>1, LandOwn
      <4>2. NewestIn(r, Absent(r)) => NewestIn(r, Absent(r))'
        BY <4>1 DEF Absent, EntryType
      <4> QED BY <4>1, <4>2 DEF BookedAs
    <3>2. CASE writes[i].owner # r
      <4>1. /\ NewestIn(r, Absent(r)) => NewestIn(r, Absent(r))'
            /\ \A E : NewestIn(r, E) /\ Undisturbed(r) => NewestIn(r, E)'
            /\ Undisturbed(r) => Undisturbed(r)'
        BY <2>1, <3>2, LandOther
      <4> QED BY <4>1 DEF BookedAs
    <3> QED BY <3>1, <3>2
  <2>2. ASSUME NEW cutoff \in sweeps, DeleteElapsedSpendReservations(cutoff)
        PROVE  /\ NewestIn(r, Absent(r)) => NewestIn(r, Absent(r))'
               /\ \A e : Undisturbed(r) /\ BookedAs(r, e) =>
                    NewestIn(r, {e})' /\ Undisturbed(r)'
    <3>1. /\ writes' = writes /\ token' = token
          /\ rows' = [id \in Ids |-> IF rows[id] # None /\ rows[id].at <= cutoff
                                     THEN None ELSE rows[id]]
      BY <1>1, <2>2 DEF DeleteElapsedSpendReservations, Swept
    <3>2. /\ cutoff \in Int /\ cutoff <= now - Window /\ now \in Int /\ Window \in Int
          /\ token[r] \in Ids
      <4>1. token[r] \in 1..Cardinality(Reserved)
        BY DEF LedgerInv, TokenInv
      <4> QED BY <4>1, SmallSets, LedgerAssumption DEF LedgerInv, TypeInv, Ids
    <3>3. rows'[token[r]] \in {None, rows[token[r]]}
      BY <3>1, <3>2
    <3>4. ASSUME NewestIn(r, Absent(r)) PROVE NewestIn(r, Absent(r))'
      BY <3>1, <3>3, <3>4 DEF NewestIn, LastOf, Pending, Absent, EntryType
    <3>5. ASSUME NEW e, Undisturbed(r), BookedAs(r, e)
          PROVE  NewestIn(r, {e})' /\ Undisturbed(r)'
      <4>1. e.at > cutoff
        <5>1. e.at = madeAt[r] /\ madeAt[r] \in Int
          BY <3>5, LedgerAssumption DEF BookedAs, LedgerInv, TypeInv
        <5> QED BY <3>2, <5>1
      <4>2. ~Pending(r) => rows[token[r]] = e
        BY <3>5 DEF BookedAs, NewestIn
      <4>3. ~Pending(r) => rows'[token[r]] = e
        <5>1. e.at \in Int
          BY <3>5, LedgerAssumption DEF BookedAs, LedgerInv, TypeInv
        <5> QED BY <3>1, <3>2, <4>1, <4>2, <5>1
      <4>4. NewestIn(r, {e})'
        BY <3>1, <3>5, <4>3 DEF BookedAs, NewestIn, LastOf, Pending
      <4>5. Undisturbed(r)'
        BY <3>1, <3>5 DEF Undisturbed
      <4> QED BY <4>4, <4>5
    <3> QED BY <3>4, <3>5
  <2> QED BY <2>1, <2>2 DEF Database
<1>3. \A e : Undisturbed(r) /\ BookedAs(r, e) =>
        /\ NewestIn(r, {e})' /\ Undisturbed(r)'
        /\ up' => \E n \in DOMAIN globalSpend' : globalSpend'[n] = e
  BY <1>1, <1>2 DEF BookedAs
<1>4. Unbooked(r) => \A n \in DOMAIN globalSpend' : globalSpend'[n].owner # r
  BY <1>1 DEF Unbooked
<1> QED BY <1>1, <1>2, <1>3, <1>4, AccountedKept

LEMMA AccountedCrash ==
  ASSUME LedgerInv, Crash, NEW r \in Reserved, Accounted(r)
  PROVE  Accounted(r)'
<1>1. /\ up' = FALSE /\ globalSpend' = <<>>
      /\ pc' = [q \in Requests |-> IF pc[q] \in Over THEN pc[q] ELSE "died"]
      /\ UNCHANGED <<token, madeAt, rows, writes>>
  BY DEF Crash, storeVars
<1>2. pc'[r] = "refunded" <=> pc[r] = "refunded"
  BY <1>1, SmallSets DEF Over
<1>3. DOMAIN globalSpend' = {}
  BY <1>1, EmptySeq, LenProperties
<1>4. /\ \A E : NewestIn(r, E) => NewestIn(r, E)'
      /\ Undisturbed(r) => Undisturbed(r)'
  BY <1>1, StoreQuiet
<1>5. NewestIn(r, Absent(r)) => NewestIn(r, Absent(r))'
  BY <1>4 DEF Absent, EntryType
<1>6. \A e : Undisturbed(r) /\ BookedAs(r, e) => NewestIn(r, {e})' /\ Undisturbed(r)'
  BY <1>4 DEF BookedAs
<1> QED BY <1>1, <1>2, <1>3, <1>5, <1>6, AccountedKept

\* boot() makes no difference to a settle without writes on their way: its row
\* says what memory said.
LEMMA AccountedBoot ==
  ASSUME LedgerInv, Boot,
         NEW r \in Reserved, r \notin untidy', madeAt[r] > now - Window, Accounted(r)
  PROVE  Accounted(r)'
<1>1. /\ untidy' = untidy \cup {writes[i].owner : i \in DOMAIN writes}
      /\ UNCHANGED <<pc, token, madeAt, rows, writes>>
  BY DEF Boot, requestVars
<1>2. ~Pending(r)
  BY <1>1 DEF Pending
<1>3. /\ \A n \in DOMAIN globalSpend' : \E id \in OpenRows :
           globalSpend'[n] = rows[id] /\ rows[id].id = id
      /\ \A id \in OpenRows : \E n \in DOMAIN globalSpend' : globalSpend'[n] = rows[id]
      /\ \A id \in OpenRows : Genuine(rows[id]) /\ rows[id].at > now - Window
  BY LoadedEntries
<1>4. /\ \A E : NewestIn(r, E) => NewestIn(r, E)'
      /\ Undisturbed(r) => Undisturbed(r)'
  BY <1>1, StoreQuiet
<1>5. NewestIn(r, Absent(r)) => NewestIn(r, Absent(r))'
  BY <1>4 DEF Absent, EntryType
<1>6. token[r] \in Ids /\ now - Window > 0 /\ now - Window \in Int
  <2>1. token[r] \in 1..Cardinality(Reserved)
    BY DEF LedgerInv, TokenInv
  <2> QED BY <2>1, SmallSets, LedgerAssumption DEF LedgerInv, TypeInv, Ids
<1>7. ASSUME NEW e \in EntryType, Undisturbed(r), BookedAs(r, e)
      PROVE  /\ NewestIn(r, {e})' /\ Undisturbed(r)'
             /\ up' => \E n \in DOMAIN globalSpend' : globalSpend'[n] = e
  <2>1. rows[token[r]] = e /\ e.at = madeAt[r] /\ e.owner = r
    BY <1>2, <1>7 DEF BookedAs, NewestIn
  <2>2. e # None
    BY <1>7, NoneIsNoEntry
  <2>3. token[r] \in OpenRows
    BY <1>6, <2>1, <2>2 DEF OpenRows, InWindow
  <2> QED BY <1>3, <1>4, <1>7, <2>1, <2>3 DEF BookedAs
<1>8. ASSUME Unbooked(r), NEW n \in DOMAIN globalSpend', globalSpend'[n].owner = r
      PROVE  FALSE
  <2>1. PICK id \in OpenRows : globalSpend'[n] = rows[id] /\ rows[id].id = id
    BY <1>3, <1>8
  <2>2. id = token[r] /\ rows[id].at > now - Window /\ rows[id].owner = r
    BY <1>3, <1>8, <2>1 DEF Genuine
  <2>3. rows[token[r]] \in Absent(r)
    BY <1>2, <1>8 DEF Unbooked, NewestIn
  <2>4. rows[id] # None /\ id \in Ids
    BY <2>1 DEF OpenRows
  <2> QED BY <1>6, <2>2, <2>3, <2>4 DEF Absent
<1> QED BY <1>1, <1>5, <1>7, <1>8, AccountedKept

LEMMA BookKept == ASSUME LedgerInv, BookInv, [Next]_vars PROVE BookInv'
<1> SUFFICES ASSUME NEW r \in Reserved', r \notin untidy', madeAt'[r] > now' - Window
             PROVE  Accounted(r)'
  BY DEF BookInv
<1>1. /\ \A q \in Reserved : madeAt'[q] = madeAt[q]
      /\ now <= now' /\ now \in Int /\ now' \in Int /\ Window \in Int
      /\ \A q \in Reserved : madeAt[q] \in Int
  <2>1. now' \in Int
    BY LedgerStep, LedgerAssumption DEF LedgerInv, TypeInv
  <2>2. now \in Int /\ Window \in Int /\ \A q \in Reserved : madeAt[q] \in Int
    BY LedgerAssumption DEF LedgerInv, TypeInv
  <2>3. now <= now' /\ \A q \in Reserved : madeAt'[q] = madeAt[q]
    BY ReservationsLast DEF LedgerInv
  <2> QED BY <2>1, <2>2, <2>3
<1>2. untidy \subseteq untidy'
  BY DEF Next, Request, Refuse, Reserve, Submit, RefundUnspent, KeepEstimate, Correct,
     Reconcile, StepUnchanged, Database, SaveSpendReservation,
     DeleteElapsedSpendReservations, Crash, Boot, Tick, vars
<1>3. CASE \E q \in Requests, i \in Identity : Reserve(q, i)
  <2>1. PICK q \in Requests, i \in Identity : Reserve(q, i)
    BY <1>3
  <2>2. /\ Accounted(q)'
        /\ \A p \in Reserved : madeAt[p] > now - Window /\ Accounted(p) => Accounted(p)'
    BY <2>1, AccountedReserve
  <2>3. Reserved' = Reserved \cup {q} /\ now' = now
    BY <2>1, ReservedEntries DEF Reserve
  <2>4. CASE r = q
    BY <2>2, <2>4
  <2>5. CASE r # q
    <3>1. r \in Reserved /\ madeAt[r] > now - Window /\ r \notin untidy
      BY <1>1, <1>2, <2>3, <2>5
    <3>2. Accounted(r)
      BY <3>1 DEF BookInv
    <3> QED BY <2>2, <3>1, <3>2
  <2> QED BY <2>4, <2>5
<1>4. CASE ~ \E q \in Requests, i \in Identity : Reserve(q, i)
  <2>1. Reserved' = Reserved
    <3>1. ASSUME NEW q \in Requests, NEW i \in Identity, Refuse(q, i)
          PROVE  Reserved' = Reserved
      BY <3>1, ReservedStays DEF LedgerInv
    <3>2. ASSUME NEW q \in Requests,
                 Submit(q) \/ RefundUnspent(q) \/ KeepEstimate(q) \/ Correct(q) \/ Reconcile(q)
          PROVE  Reserved' = Reserved
      BY <3>2, RunSteps, ReservedStays DEF LedgerInv
    <3>3. CASE Database \/ Crash \/ Boot \/ Tick \/ UNCHANGED vars
      BY <3>3, ReservedStays DEF LedgerInv
    <3> QED BY <1>4, <3>1, <3>2, <3>3 DEF Next, Request
  <2>2. r \in Reserved /\ madeAt[r] > now - Window /\ r \notin untidy
    BY <1>1, <1>2, <2>1
  <2>3. Accounted(r)
    BY <2>2 DEF BookInv
  <2>4. ASSUME NEW q \in Requests, NEW i \in Identity, Refuse(q, i) PROVE Accounted(r)'
    BY <2>2, <2>3, <2>4, AccountedRefuse
  <2>5. ASSUME NEW q \in Requests,
               Submit(q) \/ KeepEstimate(q) \/ Correct(q) \/ Reconcile(q)
        PROVE  Accounted(r)'
    BY <2>2, <2>3, <2>5, RunSteps, AccountedRun
  <2>6. ASSUME NEW q \in Requests, RefundUnspent(q) PROVE Accounted(r)'
    BY <2>2, <2>3, <2>6, AccountedRefund
  <2>7. CASE Database
    BY <2>2, <2>3, <2>7, AccountedDatabase
  <2>8. CASE Crash
    BY <2>2, <2>3, <2>8, AccountedCrash
  <2>9. CASE Boot
    BY <2>2, <2>3, <2>9, AccountedBoot
  <2>10. CASE Tick \/ UNCHANGED vars
    <3>1. UNCHANGED <<up, globalSpend, pc, token, madeAt, rows, writes>>
      BY <2>10 DEF Tick, vars, memVars, requestVars, storeVars
    <3> QED BY <2>3, <3>1 DEF Accounted, Unbooked, NewestIn, LastOf, Pending, Absent,
            EntryType, Undisturbed, BookedAs
  <2> QED BY <1>4, <2>4, <2>5, <2>6, <2>7, <2>8, <2>9, <2>10 DEF Next, Request
<1> QED BY <1>3, <1>4

\* A reservation all of whose writes landed in the order they were sent is in
\* every process at its last amount until its window elapses, and one that was
\* refunded in none: a restart neither loses nor revives it.
THEOREM BookedSurvives == Spec => []BookedSurvivesRestart
<1>1. Init => BookInv
  BY DEF Init, BookInv, Reserved
<1>2. LedgerInv /\ BookInv /\ [Next]_vars => BookInv'
  BY BookKept
<1>3. LedgerInv /\ BookInv => BookedSurvivesRestart
  <2> SUFFICES ASSUME LedgerInv, BookInv, up, NEW r \in Requests \ untidy,
                      pc[r] \notin {"idle", "refused"}, ~Pending(r),
                      madeAt[r] > now - Window
               PROVE  LET mine == {e \in Range(globalSpend) : e.owner = r}
                      IN  IF pc[r] = "refunded" THEN mine = {}
                          ELSE \E e \in mine : mine = {e} /\ rows[token[r]] = e
    BY DEF BookedSurvivesRestart
  <2>1. Accounted(r)
    BY DEF BookInv, Reserved
  <2>2. CASE pc[r] = "refunded"
    BY <2>1, <2>2 DEF Accounted, Unbooked, Range
  <2>3. CASE pc[r] # "refunded"
    <3>1. PICK e \in EntryType : BookedAs(r, e)
      BY <2>1, <2>3 DEF Accounted
    <3>2. PICK n \in DOMAIN globalSpend : globalSpend[n] = e
      BY <3>1 DEF BookedAs
    <3>3. rows[token[r]] = e /\ e.owner = r
      BY <3>1 DEF BookedAs, NewestIn
    <3>4. \A m \in DOMAIN globalSpend : globalSpend[m].owner = r => globalSpend[m] = e
      BY <3>2, <3>3, OneEntryEach
    <3> QED BY <2>3, <3>2, <3>3, <3>4 DEF Range
  <2> QED BY <2>2, <2>3
<1> QED BY <1>1, <1>2, <1>3, Invariant, PTL DEF Spec
=============================================================================
