----------------------------- MODULE FiniteSums -----------------------------
(***************************************************************************)
(* Lemmas about sums over finite sets, as MapThenSumSet of FiniteSetsExt   *)
(* computes them, for the theorems about budgets.  MapThenSumSet recurs    *)
(* over the subsets of its set; that this recursion defines a function is  *)
(* proved first, by taking the least cardinality at which it would not.    *)
(* Facts about that function are proved likewise, from a least subset      *)
(* that would be a counterexample.                                         *)
(***************************************************************************)
EXTENDS Integers, FiniteSetsExt, Functions, FiniteSetTheorems, TLAPS

\* The sum of f over S, as a budget writes it.
SumOf(f, S) == MapThenSumSet(LAMBDA x : f[x], S)

\* The element MapThenSumSet takes out of s next.
Pick(s) == CHOOSE x \in s : TRUE

\* The equation of the recursion at s.
Adds(g, f, s) == g[s] = IF s = {} THEN 0 ELSE f[Pick(s)] + g[s \ {Pick(s)}]

\* The function the recursion over the subsets of S defines.
PartialSums(f, S) ==
  CHOOSE g : g = [s \in SUBSET S |->
                    IF s = {} THEN 0 ELSE f[Pick(s)] + g[s \ {Pick(s)}]]

LEMMA SumUnfolds ==
  ASSUME NEW f, NEW S
  PROVE  SumOf(f, S) = PartialSums(f, S)[S]
BY DEF SumOf, MapThenSumSet, MapThenFoldSet, PartialSums, Pick

-----------------------------------------------------------------------------
(* Least elements, which take the place of induction.                      *)

LEMMA LeastNatural ==
  ASSUME NEW U \in SUBSET Nat, U # {}
  PROVE  \E n \in U : \A m \in U : ~(m < n)
<1>1. \E n \in U : \A m \in U : <<m, n>> \notin OpToRel(<, Nat)
  BY NatLessThanWellFounded, WFMin
<1> QED BY <1>1 DEF OpToRel

LEMMA LeastSubset ==
  ASSUME NEW S, IsFiniteSet(S), NEW U \in SUBSET (SUBSET S), U # {}
  PROVE  \E s \in U : \A t \in U : ~(t \subseteq s /\ t # s)
<1>1. IsWellFoundedOn(StrictSubsetOrdering(S), SUBSET S)
  BY FS_StrictSubsetOrderingWellFounded, FS_FiniteSubsetsOfFinite
<1>2. \E x \in U : \A y \in U : <<y, x>> \notin StrictSubsetOrdering(S)
  BY <1>1, WFMin
<1> QED BY <1>2 DEF StrictSubsetOrdering

-----------------------------------------------------------------------------
(* The recursion defines a function.                                       *)

LEMMA PickIn == ASSUME NEW s, s # {} PROVE Pick(s) \in s
BY DEF Pick

\* If it failed for the subsets of some least size n, a solution h for them
\* could be computed from a solution g for the smaller ones.
LEMMA PartialSumsExist ==
  ASSUME NEW f, NEW S, IsFiniteSet(S)
  PROVE  \A s \in SUBSET S : Adds(PartialSums(f, S), f, s)
<1> DEFINE Upto(n) == {s \in SUBSET S : Cardinality(s) <= n}
           U == {n \in Nat : ~ \E g : \A s \in Upto(n) : Adds(g, f, s)}
<1>0. \A s \in SUBSET S : IsFiniteSet(s) /\ Cardinality(s) \in Nat
  BY FS_Subset, FS_CardinalityType
<1>1. U = {}
  <2> SUFFICES ASSUME U # {} PROVE FALSE
    OBVIOUS
  <2>1. PICK n \in U : \A m \in U : ~(m < n)
    <3> HIDE DEF Upto
    <3>1. U \in SUBSET Nat
      OBVIOUS
    <3> HIDE DEF U
    <3> QED BY <3>1, LeastNatural
  <2>2. n # 0
    <3> SUFFICES ASSUME n = 0 PROVE FALSE
      OBVIOUS
    <3> DEFINE g == [s \in {{}} |-> 0]
    <3>1. \A s \in Upto(n) : s = {}
      BY <1>0, FS_EmptySet
    <3>2. Adds(g, f, {})
      BY DEF Adds
    <3> QED BY <2>1, <3>1, <3>2
  <2>3. PICK g : \A s \in Upto(n - 1) : Adds(g, f, s)
    BY <2>1, <2>2
  <2> DEFINE h == [s \in SUBSET S |->
                     IF s = {} THEN 0 ELSE f[Pick(s)] + g[s \ {Pick(s)}]]
  <2>4. ASSUME NEW s \in Upto(n) PROVE Adds(h, f, s)
    <3>1. CASE s = {}
      BY <3>1 DEF Adds
    <3>2. CASE s # {}
      <4> DEFINE u == s \ {Pick(s)}
      <4>1. Cardinality(u) = Cardinality(s) - 1
        BY <3>2, <1>0, PickIn, FS_RemoveElement
      <4>2. u \in Upto(n - 1)
        BY <4>1, <1>0, <2>1
      <4>3. h[u] = g[u]
        BY <4>2, <2>3 DEF Adds
      <4>4. h[s] = f[Pick(s)] + g[u]
        BY <3>2
      <4> HIDE DEF h
      <4> QED BY <3>2, <4>3, <4>4 DEF Adds
    <3> QED BY <3>1, <3>2
  <2> QED BY <2>1, <2>4
<1>2. PICK g : \A s \in SUBSET S : Adds(g, f, s)
  <2>1. Cardinality(S) \in Nat /\ Cardinality(S) \notin U
    BY <1>1, FS_CardinalityType
  <2>2. Upto(Cardinality(S)) = SUBSET S
    BY FS_Subset
  <2> QED BY <2>1, <2>2
<1> DEFINE h == [s \in SUBSET S |-> g[s]]
<1>3. h = [s \in SUBSET S |->
             IF s = {} THEN 0 ELSE f[Pick(s)] + h[s \ {Pick(s)}]]
  BY <1>2 DEF Adds
<1> HIDE DEF h
<1>4. PartialSums(f, S) = [s \in SUBSET S |->
        IF s = {} THEN 0 ELSE f[Pick(s)] + PartialSums(f, S)[s \ {Pick(s)}]]
  BY <1>3 DEF PartialSums
<1> QED BY <1>4 DEF Adds

-----------------------------------------------------------------------------
(* Facts about sums.                                                       *)

LEMMA PartialSumsNat ==
  ASSUME NEW S, IsFiniteSet(S), NEW f \in [S -> Nat]
  PROVE  \A s \in SUBSET S : PartialSums(f, S)[s] \in Nat
<1> DEFINE U == {s \in SUBSET S : PartialSums(f, S)[s] \notin Nat}
<1> SUFFICES ASSUME U # {} PROVE FALSE
  OBVIOUS
<1>1. PICK s \in U : \A t \in U : ~(t \subseteq s /\ t # s)
  <2>1. U \in SUBSET (SUBSET S)
    OBVIOUS
  <2> HIDE DEF U
  <2> QED BY <2>1, LeastSubset
<1>2. Adds(PartialSums(f, S), f, s)
  BY PartialSumsExist
<1>3. CASE s = {}
  BY <1>2, <1>3 DEF Adds
<1>4. CASE s # {}
  <2>1. Pick(s) \in s /\ f[Pick(s)] \in Nat
    BY <1>4, PickIn
  <2>2. s \ {Pick(s)} \notin U
    BY <1>1, <2>1
  <2> QED BY <1>1, <1>2, <1>4, <2>1, <2>2 DEF Adds
<1> QED BY <1>3, <1>4

LEMMA SumNat ==
  ASSUME NEW S, IsFiniteSet(S), NEW f \in [S -> Nat]
  PROVE  SumOf(f, S) \in Nat
BY SumUnfolds, PartialSumsNat

LEMMA SumEmpty == ASSUME NEW f PROVE SumOf(f, {}) = 0
<1>1. Adds(PartialSums(f, {}), f, {})
  BY PartialSumsExist, FS_EmptySet
<1> QED BY <1>1, SumUnfolds DEF Adds

LEMMA SumZero ==
  ASSUME NEW S, IsFiniteSet(S), NEW f, \A x \in S : f[x] = 0
  PROVE  SumOf(f, S) = 0
<1> DEFINE U == {s \in SUBSET S : PartialSums(f, S)[s] # 0}
<1> SUFFICES ASSUME U # {} PROVE FALSE
  BY SumUnfolds
<1>1. PICK s \in U : \A t \in U : ~(t \subseteq s /\ t # s)
  <2>1. U \in SUBSET (SUBSET S)
    OBVIOUS
  <2> HIDE DEF U
  <2> QED BY <2>1, LeastSubset
<1>2. Adds(PartialSums(f, S), f, s)
  BY PartialSumsExist
<1>3. CASE s = {}
  BY <1>2, <1>3 DEF Adds
<1>4. CASE s # {}
  <2>1. Pick(s) \in s /\ f[Pick(s)] = 0
    BY <1>4, PickIn
  <2>2. s \ {Pick(s)} \notin U
    BY <1>1, <2>1
  <2> QED BY <1>1, <1>2, <1>4, <2>1, <2>2 DEF Adds
<1> QED BY <1>3, <1>4

\* One entry changes: the sum changes by as much.
LEMMA SumChanges ==
  ASSUME NEW S, IsFiniteSet(S), NEW f \in [S -> Nat], NEW g \in [S -> Nat],
         NEW r \in S, \A x \in S \ {r} : g[x] = f[x]
  PROVE  SumOf(g, S) = SumOf(f, S) - f[r] + g[r]
<1> DEFINE F == PartialSums(f, S)
           G == PartialSums(g, S)
           D(s) == IF r \in s THEN g[r] - f[r] ELSE 0
           U == {s \in SUBSET S : G[s] # F[s] + D(s)}
<1>0. \A s \in SUBSET S : /\ F[s] \in Nat /\ G[s] \in Nat
                          /\ Adds(F, f, s) /\ Adds(G, g, s)
  BY PartialSumsNat, PartialSumsExist
<1>1. SumOf(g, S) = G[S] /\ SumOf(f, S) = F[S]
  BY SumUnfolds
<1> HIDE DEF F, G
<1>2. SUFFICES ASSUME U # {} PROVE FALSE
  BY <1>0, <1>1
<1>3. PICK s \in U : \A t \in U : ~(t \subseteq s /\ t # s)
  <2>1. U \in SUBSET (SUBSET S)
    OBVIOUS
  <2> HIDE DEF U
  <2> QED BY <1>2, <2>1, LeastSubset
<1>4. CASE s = {}
  <2>1. D(s) = 0
    BY <1>4
  <2>2. F[s] = 0 /\ G[s] = 0
    BY <1>0, <1>4 DEF Adds
  <2> QED BY <1>3, <2>1, <2>2
<1>5. CASE s # {}
  <2> DEFINE p == Pick(s)
             t == s \ {p}
  <2>1. p \in s /\ p \in S
    BY <1>5, PickIn
  <2>2. F[s] = f[p] + F[t] /\ G[s] = g[p] + G[t]
    BY <1>0, <1>5 DEF Adds
  <2>3. t \in SUBSET S /\ t \notin U
    BY <1>3, <2>1
  <2>4. G[t] = F[t] + D(t)
    BY <2>3
  <2>5. f[p] \in Nat /\ g[p] \in Nat /\ f[r] \in Nat /\ g[r] \in Nat
        /\ F[t] \in Nat /\ G[t] \in Nat
    BY <1>0, <2>1, <2>3
  <2>6. CASE p = r
    <3>1. D(t) = 0 /\ D(s) = g[r] - f[r]
      BY <2>1, <2>6
    <3> QED BY <2>2, <2>4, <2>5, <2>6, <3>1, <1>3
  <2>7. CASE p # r
    <3>1. D(t) = D(s) /\ g[p] = f[p]
      BY <2>1, <2>7
    <3>2. D(s) \in Int
      BY <2>5
    <3> QED BY <2>2, <2>4, <2>5, <3>1, <3>2, <1>3
  <2> QED BY <2>6, <2>7
<1> QED BY <1>4, <1>5

\* An element may be taken out first, whichever CHOOSE takes.
LEMMA SumRemove ==
  ASSUME NEW S, IsFiniteSet(S), NEW f \in [S -> Nat]
  PROVE  \A s \in SUBSET S : \A x \in s :
           PartialSums(f, S)[s] = f[x] + PartialSums(f, S)[s \ {x}]
<1> DEFINE F == PartialSums(f, S)
           U == {s \in SUBSET S : \E x \in s : F[s] # f[x] + F[s \ {x}]}
<1>0. \A s \in SUBSET S : F[s] \in Nat /\ Adds(F, f, s)
  BY PartialSumsNat, PartialSumsExist
<1> HIDE DEF F
<1> SUFFICES ASSUME U # {} PROVE FALSE
  BY DEF F
<1>1. PICK s \in U : \A t \in U : ~(t \subseteq s /\ t # s)
  <2>1. U \in SUBSET (SUBSET S)
    OBVIOUS
  <2> HIDE DEF U
  <2> QED BY <2>1, LeastSubset
<1>2. PICK x \in s : F[s] # f[x] + F[s \ {x}]
  BY <1>1
<1> DEFINE p == Pick(s)
           t == s \ {p}
           u == s \ {x}
           v == s \ {p, x}
<1>3. p \in s /\ p \in S /\ x \in S /\ F[s] = f[p] + F[t]
  BY <1>0, <1>1, <1>2, PickIn DEF Adds
<1>4. p # x
  BY <1>2, <1>3
<1>5. t \notin U /\ u \notin U /\ t \in SUBSET S /\ u \in SUBSET S
  BY <1>1, <1>2, <1>3
<1>6. x \in t /\ t \ {x} = v /\ p \in u /\ u \ {p} = v
  BY <1>2, <1>3, <1>4
<1>7. F[t] = f[x] + F[v] /\ F[u] = f[p] + F[v]
  BY <1>5, <1>6
<1>8. f[p] \in Nat /\ f[x] \in Nat /\ F[v] \in Nat
  BY <1>0, <1>3
<1> HIDE DEF p, t, u, v
<1>9. F[s] = f[x] + F[u]
  BY <1>3, <1>7, <1>8
<1> QED BY <1>2, <1>9 DEF u

\* The same terms under other names have the same sum.
LEMMA SumTransfer ==
  ASSUME NEW S, IsFiniteSet(S), NEW T, IsFiniteSet(T),
         NEW f \in [S -> Nat], NEW g \in [T -> Nat], NEW b \in [S -> T],
         \A x, y \in S : b[x] = b[y] => x = y,
         \A z \in T : \E x \in S : b[x] = z,
         \A x \in S : g[b[x]] = f[x]
  PROVE  SumOf(f, S) = SumOf(g, T)
<1> DEFINE F == PartialSums(f, S)
           G == PartialSums(g, T)
           Image(s) == {b[x] : x \in s}
           U == {s \in SUBSET S : F[s] # G[Image(s)]}
<1>0. /\ \A s \in SUBSET S : F[s] \in Nat /\ Adds(F, f, s)
      /\ \A s \in SUBSET T : G[s] \in Nat /\ Adds(G, g, s)
      /\ \A s \in SUBSET T : \A x \in s : G[s] = g[x] + G[s \ {x}]
  BY PartialSumsNat, PartialSumsExist, SumRemove
<1>1. SumOf(f, S) = F[S] /\ SumOf(g, T) = G[T]
  BY SumUnfolds
<1> HIDE DEF F, G
<1>2. Image(S) = T
  OBVIOUS
<1>3. SUFFICES ASSUME U # {} PROVE FALSE
  BY <1>1, <1>2
<1>4. PICK s \in U : \A t \in U : ~(t \subseteq s /\ t # s)
  <2>1. U \in SUBSET (SUBSET S)
    OBVIOUS
  <2> HIDE DEF U
  <2> QED BY <1>3, <2>1, LeastSubset
<1>5. CASE s = {}
  <2>1. Image(s) = {}
    BY <1>5
  <2>2. F[s] = 0
    BY <1>0, <1>5 DEF Adds
  <2>3. G[{}] = 0
    BY <1>0 DEF Adds
  <2> QED BY <1>4, <2>1, <2>2, <2>3
<1>6. CASE s # {}
  <2> DEFINE p == Pick(s)
             t == s \ {p}
  <2>1. p \in s /\ p \in S
    BY <1>4, <1>6, PickIn
  <2>2. F[s] = f[p] + F[t]
    BY <1>0, <1>4, <1>6 DEF Adds
  <2>3. F[t] = G[Image(t)]
    <3>1. t \in SUBSET S /\ t \subseteq s /\ t # s
      BY <2>1
    <3>2. t \notin U
      <4> HIDE DEF t, U
      <4> QED BY <1>4, <3>1
    <3> HIDE DEF Image, t
    <3> QED BY <3>1, <3>2
  <2>4. Image(s) \in SUBSET T /\ b[p] \in Image(s)
    BY <1>4, <2>1
  <2>5. Image(s) \ {b[p]} = Image(t)
    BY <1>4, <2>1
  <2>6. G[Image(s)] = g[b[p]] + G[Image(t)]
    <3> DEFINE I == Image(s)
               x == b[p]
    <3>1. I \in SUBSET T /\ x \in I /\ I \ {x} = Image(t)
      BY <2>4, <2>5
    <3> HIDE DEF I, x, Image
    <3>2. G[I] = g[x] + G[I \ {x}]
      BY <1>0, <3>1
    <3> QED BY <3>1, <3>2 DEF I, x
  <2> QED BY <1>4, <2>1, <2>2, <2>3, <2>6
<1> QED BY <1>5, <1>6

\* SumFunction of the community modules is this sum.
LEMMA SumOfFunction == ASSUME NEW f PROVE SumFunction(f) = SumOf(f, DOMAIN f)
BY DEF SumFunction, SumFunctionOnSet, FoldFunctionOnSet, SumOf, MapThenSumSet,
   MapThenFoldSet
=============================================================================
