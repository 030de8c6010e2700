-------------------------------- MODULE Sums --------------------------------
(***************************************************************************)
(* What the sums over finite sets that the budgets are kept with obey.     *)
(* They are folds, defined by recursion over the subsets of a set; a       *)
(* property of all subsets is shown by looking at a least subset that does *)
(* not have it (SetInduction).                                             *)
(***************************************************************************)
EXTENDS Functions, FiniteSetTheorems, TLAPS

Pick(s) == CHOOSE x \in s : TRUE

\* g[s] is the sum of f over s, for all subsets s of S.
AddsUp(g, f, S) ==
  g = [s \in SUBSET S |-> IF s = {} THEN 0 ELSE f[Pick(s)] + g[s \ {Pick(s)}]]

\* CHOOSE from a set that is not empty.
LEMMA PickIn == ASSUME NEW s, s # {} PROVE Pick(s) \in s
BY DEF Pick

\* Induction over the subsets of a finite set, for a set G of good ones.
LEMMA SetInduction ==
  ASSUME NEW S, IsFiniteSet(S), NEW G,
         \A T \in SUBSET S : (\A U \in SUBSET T : U # T => U \in G) => T \in G
  PROVE  \A T \in SUBSET S : T \in G
<1> DEFINE B == {T \in SUBSET S : T \notin G}
<1> SUFFICES ASSUME B # {} PROVE FALSE
  OBVIOUS
<1>1. IsWellFoundedOn(StrictSubsetOrdering(S), SUBSET S)
  <2>1. FiniteSubsetsOf(S) = SUBSET S
    BY FS_FiniteSubsetsOfFinite
  <2>2. IsWellFoundedOn(StrictSubsetOrdering(S), FiniteSubsetsOf(S))
    BY FS_StrictSubsetOrderingWellFounded
  <2> QED BY <2>1, <2>2
<1>2. B \subseteq SUBSET S
  OBVIOUS
<1> HIDE DEF B
<1>3. PICK T \in B : \A U \in B : ~ (<<U, T>> \in StrictSubsetOrdering(S))
  BY <1>1, <1>2, WFMin
<1>4. \A U \in B : U \subseteq T => U = T
  BY <1>2, <1>3 DEF StrictSubsetOrdering
<1> QED BY <1>2, <1>4 DEF B

\* What the recursion says of one set and of the same without one of its elements.
LEMMA AddsUpAt ==
  ASSUME NEW S, NEW f, NEW g, AddsUp(g, f, S), NEW s \in SUBSET S
  PROVE  /\ s = {} => g[s] = 0
         /\ s # {} => g[s] = f[Pick(s)] + g[s \ {Pick(s)}]
BY DEF AddsUp

\* Two ways to add up agree.
LEMMA AddsUpUnique ==
  ASSUME NEW S, IsFiniteSet(S), NEW T \in SUBSET S, NEW f, NEW g, NEW h,
         AddsUp(g, f, S), AddsUp(h, f, T)
  PROVE  \A s \in SUBSET T : g[s] = h[s]
<1> DEFINE G == {s \in SUBSET T : g[s] = h[s]}
<1>1. IsFiniteSet(T)
  BY FS_Subset
<1>2. ASSUME NEW U \in SUBSET T, \A V \in SUBSET U : V # U => V \in G
      PROVE  U \in G
  <2>0. U \in SUBSET S
    OBVIOUS
  <2>1. CASE U = {}
    <3>1. g[U] = 0
      BY <2>0, <2>1, AddsUpAt
    <3>2. h[U] = 0
      BY <2>1, AddsUpAt
    <3> QED BY <3>1, <3>2
  <2>2. CASE U # {}
    <3>1. Pick(U) \in U
      BY <2>2, PickIn
    <3>2. g[U \ {Pick(U)}] = h[U \ {Pick(U)}]
      BY <3>1, <1>2
    <3>3. g[U] = f[Pick(U)] + g[U \ {Pick(U)}]
      BY <2>0, <2>2, AddsUpAt
    <3>4. h[U] = f[Pick(U)] + h[U \ {Pick(U)}]
      BY <2>2, AddsUpAt
    <3> QED BY <3>2, <3>3, <3>4
  <2> QED BY <2>1, <2>2
<1> HIDE DEF G
<1>3. \A U \in SUBSET T : U \in G
  BY <1>1, <1>2, SetInduction
<1> QED BY <1>3 DEF G

\* The recursion has a solution.
LEMMA AddsUpExists ==
  ASSUME NEW S, IsFiniteSet(S), NEW f
  PROVE  \E g : AddsUp(g, f, S)
<1> DEFINE G == {T \in SUBSET S : \E g : AddsUp(g, f, T)}
           At(T) == (CHOOSE g : AddsUp(g, f, T))[T]
<1>1. ASSUME NEW T \in SUBSET S, \A U \in SUBSET T : U # T => U \in G
      PROVE  T \in G
  <2>1. ASSUME NEW U \in SUBSET T, U # T, U # {}
        PROVE  At(U) = f[Pick(U)] + At(U \ {Pick(U)})
    <3> DEFINE V == U \ {Pick(U)}
               g == CHOOSE g : AddsUp(g, f, U)
               h == CHOOSE h : AddsUp(h, f, V)
    <3>1. Pick(U) \in U
      BY <2>1, PickIn
    <3>2. V \in SUBSET T /\ V # T
      BY <2>1, <3>1
    <3>3. AddsUp(g, f, U)
      BY <2>1, <1>1
    <3>4. AddsUp(h, f, V)
      BY <3>2, <1>1
    <3>5. IsFiniteSet(U)
      BY FS_Subset
    <3> HIDE DEF g, h
    <3>6. g[V] = h[V]
      BY <3>3, <3>4, <3>5, AddsUpUnique
    <3>7. g[U] = f[Pick(U)] + g[V]
      BY <2>1, <3>3, AddsUpAt
    <3> QED BY <3>6, <3>7 DEF g, h
  <2>2. At({}) = 0 \/ T = {}
    <3> SUFFICES ASSUME T # {} PROVE At({}) = 0
      OBVIOUS
    <3>1. AddsUp(CHOOSE g : AddsUp(g, f, {}), f, {})
      BY <1>1
    <3> QED BY <3>1, AddsUpAt
  <2> DEFINE h == [s \in SUBSET T |->
                     IF s = T THEN IF T = {} THEN 0 ELSE f[Pick(T)] + At(T \ {Pick(T)})
                     ELSE At(s)]
  <2>3. AddsUp(h, f, T)
    <3> HIDE DEF At
    <3>1. ASSUME NEW s \in SUBSET T
          PROVE  h[s] = IF s = {} THEN 0 ELSE f[Pick(s)] + h[s \ {Pick(s)}]
      <4>1. CASE s = {}
        BY <4>1, <2>2
      <4>2. CASE s # {}
        <5>1. Pick(s) \in s
          BY <4>2, PickIn
        <5>2. s \ {Pick(s)} \in SUBSET T /\ s \ {Pick(s)} # T
          BY <5>1
        <5>3. h[s \ {Pick(s)}] = At(s \ {Pick(s)})
          BY <5>2
        <5>4. h[s] = f[Pick(s)] + At(s \ {Pick(s)})
          BY <4>2, <2>1
        <5> QED BY <4>2, <5>3, <5>4
      <4> QED BY <4>1, <4>2
    <3> DEFINE k == [s \in SUBSET T |-> IF s = {} THEN 0 ELSE f[Pick(s)] + h[s \ {Pick(s)}]]
    <3>2. h = k
      BY <3>1
    <3> HIDE DEF h
    <3> QED BY <3>2 DEF AddsUp
  <2> HIDE DEF h
  <2> QED BY <2>3
<1> HIDE DEF G
<1>2. \A T \in SUBSET S : T \in G
  BY <1>1, SetInduction
<1> QED BY <1>2 DEF G

\* The sum of the community module is that of the recursion.
LEMMA SumIs ==
  ASSUME NEW S, IsFiniteSet(S), NEW f
  PROVE  \E g : AddsUp(g, f, S) /\ SumFunctionOnSet(f, S) = g[S]
<1>1. SumFunctionOnSet(f, S) = (CHOOSE g : AddsUp(g, f, S))[S]
  BY DEF SumFunctionOnSet, FoldFunctionOnSet, MapThenFoldSet, AddsUp, Pick
<1>2. AddsUp(CHOOSE g : AddsUp(g, f, S), f, S)
  BY AddsUpExists
<1> QED BY <1>1, <1>2

-----------------------------------------------------------------------------
(* The laws of sums of natural numbers.                                    *)

\* The sum over no elements is none.
LEMMA SumEmpty == ASSUME NEW f PROVE SumFunctionOnSet(f, {}) = 0
<1>1. PICK g : AddsUp(g, f, {}) /\ SumFunctionOnSet(f, {}) = g[{}]
  BY FS_EmptySet, SumIs
<1> QED BY <1>1, AddsUpAt

\* The sum is the element that is picked and the sum of the others.
LEMMA SumPick ==
  ASSUME NEW S, IsFiniteSet(S), NEW f, S # {}
  PROVE  SumFunctionOnSet(f, S) = f[Pick(S)] + SumFunctionOnSet(f, S \ {Pick(S)})
<1> DEFINE T == S \ {Pick(S)}
<1>1. IsFiniteSet(T) /\ T \in SUBSET S
  BY FS_Subset
<1>2. PICK g : AddsUp(g, f, S) /\ SumFunctionOnSet(f, S) = g[S]
  BY SumIs
<1>3. PICK h : AddsUp(h, f, T) /\ SumFunctionOnSet(f, T) = h[T]
  BY <1>1, SumIs
<1>4. g[T] = h[T]
  BY <1>1, <1>2, <1>3, AddsUpUnique
<1>5. g[S] = f[Pick(S)] + g[T]
  BY <1>2, AddsUpAt
<1> QED BY <1>2, <1>3, <1>4, <1>5

\* A sum of naturals is a natural.
LEMMA SumNat ==
  ASSUME NEW S, IsFiniteSet(S), NEW f, \A x \in S : f[x] \in Nat
  PROVE  SumFunctionOnSet(f, S) \in Nat
<1> DEFINE G == {T \in SUBSET S : SumFunctionOnSet(f, T) \in Nat}
<1>1. ASSUME NEW T \in SUBSET S, \A U \in SUBSET T : U # T => U \in G
      PROVE  T \in G
  <2>1. CASE T = {}
    BY <2>1, SumEmpty
  <2>2. CASE T # {}
    <3>1. Pick(T) \in T /\ IsFiniteSet(T)
      BY <2>2, PickIn, FS_Subset
    <3>2. SumFunctionOnSet(f, T \ {Pick(T)}) \in Nat /\ f[Pick(T)] \in Nat
      BY <3>1, <1>1
    <3>3. SumFunctionOnSet(f, T) = f[Pick(T)] + SumFunctionOnSet(f, T \ {Pick(T)})
      BY <2>2, <3>1, SumPick
    <3> QED BY <3>2, <3>3
  <2> QED BY <2>1, <2>2
<1> HIDE DEF G
<1>2. \A T \in SUBSET S : T \in G
  BY <1>1, SetInduction
<1> QED BY <1>2 DEF G

\* Any element may be taken out first.
LEMMA SumTakeOut ==
  ASSUME NEW S, IsFiniteSet(S), NEW f, \A x \in S : f[x] \in Nat, NEW x \in S
  PROVE  SumFunctionOnSet(f, S) = f[x] + SumFunctionOnSet(f, S \ {x})
<1> DEFINE sum(T) == SumFunctionOnSet(f, T)
           G == {T \in SUBSET S : \A y \in T : sum(T) = f[y] + sum(T \ {y})}
<1>0. \A T \in SUBSET S : IsFiniteSet(T) /\ sum(T) \in Nat
  BY FS_Subset, SumNat
<1>1. ASSUME NEW T \in SUBSET S, \A U \in SUBSET T : U # T => U \in G
      PROVE  T \in G
  <2> SUFFICES ASSUME NEW y \in T PROVE sum(T) = f[y] + sum(T \ {y})
    OBVIOUS
  <2> DEFINE p == Pick(T)
  <2>1. p \in T
    BY PickIn
  <2>2. sum(T) = f[p] + sum(T \ {p})
    BY <1>0, SumPick
  <2>3. CASE y = p
    BY <2>2, <2>3
  <2>4. CASE y # p
    <3>1. y \in T \ {p} /\ p \in T \ {y}
      BY <2>1, <2>4
    <3>2. T \ {p} \in G /\ T \ {y} \in G
      BY <2>1, <1>1
    <3> HIDE DEF p, sum
    <3>3. sum(T \ {p}) = f[y] + sum((T \ {p}) \ {y})
      BY <3>1, <3>2
    <3>4. sum(T \ {y}) = f[p] + sum((T \ {y}) \ {p})
      BY <3>1, <3>2
    <3>5. (T \ {p}) \ {y} = (T \ {y}) \ {p}
      OBVIOUS
    <3> DEFINE V == (T \ {y}) \ {p}
    <3>6. sum(V) \in Nat /\ f[p] \in Nat /\ f[y] \in Nat
      BY <1>0, <2>1
    <3> HIDE DEF V
    <3> QED BY <2>2, <3>3, <3>4, <3>5, <3>6 DEF V
  <2> QED BY <2>3, <2>4
<1> HIDE DEF G
<1>2. \A T \in SUBSET S : T \in G
  BY <1>1, SetInduction
<1> QED BY <1>2 DEF G

\* A sum depends on the values in its set alone.
LEMMA SumSame ==
  ASSUME NEW S, IsFiniteSet(S), NEW f, NEW h, \A x \in S : f[x] = h[x]
  PROVE  SumFunctionOnSet(f, S) = SumFunctionOnSet(h, S)
<1> DEFINE G == {T \in SUBSET S : SumFunctionOnSet(f, T) = SumFunctionOnSet(h, T)}
<1>1. ASSUME NEW T \in SUBSET S, \A U \in SUBSET T : U # T => U \in G
      PROVE  T \in G
  <2>1. CASE T = {}
    BY <2>1, SumEmpty
  <2>2. CASE T # {}
    <3> DEFINE p == Pick(T)
    <3>1. p \in T /\ IsFiniteSet(T)
      BY <2>2, PickIn, FS_Subset
    <3>2. SumFunctionOnSet(f, T \ {p}) = SumFunctionOnSet(h, T \ {p}) /\ f[p] = h[p]
      BY <3>1, <1>1
    <3>3. SumFunctionOnSet(f, T) = f[p] + SumFunctionOnSet(f, T \ {p})
      BY <2>2, <3>1, SumPick
    <3>4. SumFunctionOnSet(h, T) = h[p] + SumFunctionOnSet(h, T \ {p})
      BY <2>2, <3>1, SumPick
    <3> QED BY <3>2, <3>3, <3>4
  <2> QED BY <2>1, <2>2
<1> HIDE DEF G
<1>2. \A T \in SUBSET S : T \in G
  BY <1>1, SetInduction
<1> QED BY <1>2 DEF G

\* A sum over a set that falls into two parts.
LEMMA SumParts ==
  ASSUME NEW S, IsFiniteSet(S), NEW f, \A x \in S : f[x] \in Nat,
         NEW A \in SUBSET S
  PROVE  SumFunctionOnSet(f, S) = SumFunctionOnSet(f, A) + SumFunctionOnSet(f, S \ A)
<1> DEFINE sum(T) == SumFunctionOnSet(f, T)
           G == {T \in SUBSET A : sum((S \ A) \cup T) = sum(T) + sum(S \ A)}
<1>0. \A T \in SUBSET S : IsFiniteSet(T) /\ sum(T) \in Nat
  BY FS_Subset, SumNat
<1>1. ASSUME NEW T \in SUBSET A, \A U \in SUBSET T : U # T => U \in G
      PROVE  T \in G
  <2>1. CASE T = {}
    <3>1. sum({}) = 0 /\ (S \ A) \cup T = S \ A /\ sum(S \ A) \in Nat
      BY <2>1, <1>0, SumEmpty
    <3> QED BY <2>1, <3>1
  <2>2. CASE T # {}
    <3> PICK y : y \in T
      BY <2>2
    <3> DEFINE U == T \ {y}  W == (S \ A) \cup T  V == (S \ A) \cup U
    <3>1. U \in G
      BY <1>1
    <3>2. W \ {y} = V /\ y \in W /\ W \in SUBSET S /\ T \in SUBSET S /\ f[y] \in Nat
          /\ U \in SUBSET S /\ S \ A \in SUBSET S
      OBVIOUS
    <3> HIDE DEF sum
    <3>3. sum(W) = f[y] + sum(V)
      BY <3>2, <1>0, SumTakeOut DEF sum
    <3>4. sum(T) = f[y] + sum(U)
      BY <3>2, <1>0, SumTakeOut DEF sum
    <3>5. sum(V) = sum(U) + sum(S \ A)
      BY <3>1
    <3>6. sum(U) \in Nat /\ sum(S \ A) \in Nat /\ f[y] \in Nat
      BY <3>2, <1>0
    <3>7. sum(W) = sum(T) + sum(S \ A)
      <4> HIDE DEF W, V, U
      <4> QED BY <3>3, <3>4, <3>5, <3>6
    <3> QED BY <3>7
  <2> QED BY <2>1, <2>2
<1> HIDE DEF G
<1>2. IsFiniteSet(A)
  BY FS_Subset
<1>3. \A T \in SUBSET A : T \in G
  BY <1>1, <1>2, SetInduction
<1>4. (S \ A) \cup A = S
  OBVIOUS
<1> QED BY <1>3, <1>4 DEF G

\* Larger terms, larger sum.
LEMMA SumMore ==
  ASSUME NEW S, IsFiniteSet(S), NEW f, NEW h,
         \A x \in S : f[x] \in Nat /\ h[x] \in Nat /\ f[x] <= h[x]
  PROVE  SumFunctionOnSet(f, S) <= SumFunctionOnSet(h, S)
<1> DEFINE G == {T \in SUBSET S : SumFunctionOnSet(f, T) <= SumFunctionOnSet(h, T)}
<1>1. ASSUME NEW T \in SUBSET S, \A U \in SUBSET T : U # T => U \in G
      PROVE  T \in G
  <2>1. CASE T = {}
    BY <2>1, SumEmpty
  <2>2. CASE T # {}
    <3> DEFINE p == Pick(T)
    <3>1. p \in T /\ IsFiniteSet(T) /\ IsFiniteSet(T \ {p})
      BY <2>2, PickIn, FS_Subset
    <3>2. SumFunctionOnSet(f, T \ {p}) <= SumFunctionOnSet(h, T \ {p})
      BY <3>1, <1>1
    <3>3. SumFunctionOnSet(f, T) = f[p] + SumFunctionOnSet(f, T \ {p})
      BY <2>2, <3>1, SumPick
    <3>4. SumFunctionOnSet(h, T) = h[p] + SumFunctionOnSet(h, T \ {p})
      BY <2>2, <3>1, SumPick
    <3>5. /\ SumFunctionOnSet(f, T \ {p}) \in Nat /\ SumFunctionOnSet(h, T \ {p}) \in Nat
          /\ f[p] \in Nat /\ h[p] \in Nat /\ f[p] <= h[p]
      BY <3>1, SumNat
    <3> QED BY <3>2, <3>3, <3>4, <3>5
  <2> QED BY <2>1, <2>2
<1> HIDE DEF G
<1>2. \A T \in SUBSET S : T \in G
  BY <1>1, SetInduction
<1> QED BY <1>2 DEF G

\* A sum of zeros is zero.
LEMMA SumZero ==
  ASSUME NEW S, IsFiniteSet(S), NEW f, \A x \in S : f[x] = 0
  PROVE  SumFunctionOnSet(f, S) = 0
<1> DEFINE G == {T \in SUBSET S : SumFunctionOnSet(f, T) = 0}
<1>1. ASSUME NEW T \in SUBSET S, \A U \in SUBSET T : U # T => U \in G
      PROVE  T \in G
  <2>1. CASE T = {}
    BY <2>1, SumEmpty
  <2>2. CASE T # {}
    <3>1. Pick(T) \in T /\ IsFiniteSet(T)
      BY <2>2, PickIn, FS_Subset
    <3>2. SumFunctionOnSet(f, T \ {Pick(T)}) = 0 /\ f[Pick(T)] = 0
      BY <3>1, <1>1
    <3> QED BY <2>2, <3>1, <3>2, SumPick
  <2> QED BY <2>1, <2>2
<1> HIDE DEF G
<1>2. \A T \in SUBSET S : T \in G
  BY <1>1, SetInduction
<1> QED BY <1>2 DEF G

\* A sum of n numbers that are at most u.
LEMMA SumAtMost ==
  ASSUME NEW S, IsFiniteSet(S), NEW f, NEW u \in Nat,
         \A x \in S : f[x] \in Nat /\ f[x] <= u
  PROVE  SumFunctionOnSet(f, S) <= Cardinality(S) * u
<1> DEFINE G == {T \in SUBSET S : SumFunctionOnSet(f, T) <= Cardinality(T) * u}
<1>1. ASSUME NEW T \in SUBSET S, \A U \in SUBSET T : U # T => U \in G
      PROVE  T \in G
  <2>1. CASE T = {}
    <3>1. SumFunctionOnSet(f, T) = 0 /\ Cardinality(T) = 0
      BY <2>1, SumEmpty, FS_EmptySet
    <3> QED BY <3>1
  <2>2. CASE T # {}
    <3> DEFINE R == T \ {Pick(T)}
    <3>1. Pick(T) \in T /\ IsFiniteSet(T) /\ IsFiniteSet(R)
      BY <2>2, PickIn, FS_Subset
    <3>2. Cardinality(R) = Cardinality(T) - 1 /\ Cardinality(T) \in Nat
      BY <3>1, FS_RemoveElement, FS_CardinalityType
    <3>3. SumFunctionOnSet(f, R) <= Cardinality(R) * u
      BY <3>1, <1>1
    <3>4. SumFunctionOnSet(f, T) = f[Pick(T)] + SumFunctionOnSet(f, R)
      BY <2>2, <3>1, SumPick
    <3>5. SumFunctionOnSet(f, R) \in Nat /\ f[Pick(T)] \in Nat /\ f[Pick(T)] <= u
      BY <3>1, SumNat
    <3>6. \A n \in Nat : (n - 1) * u + u = n * u
      OBVIOUS
    <3>7. Cardinality(R) * u + u = Cardinality(T) * u
      BY <3>2, <3>6
    <3>8. Cardinality(R) \in Nat
      BY <3>1, FS_CardinalityType
    <3>9. Cardinality(R) * u \in Nat /\ Cardinality(T) * u \in Nat
      BY <3>2, <3>8
    <3> QED BY <3>3, <3>4, <3>5, <3>7, <3>9
  <2> QED BY <2>1, <2>2
<1> HIDE DEF G
<1>2. \A T \in SUBSET S : T \in G
  BY <1>1, SetInduction
<1> QED BY <1>2 DEF G

\* A sum in which each class of a partition stays within its own bound.
LEMMA SumByKey ==
  ASSUME NEW S, IsFiniteSet(S), NEW f, \A x \in S : f[x] \in Nat,
         NEW K, IsFiniteSet(K), NEW key, \A x \in S : key[x] \in K,
         NEW b, \A k \in K : /\ b[k] \in Nat
                            /\ SumFunctionOnSet(f, {x \in S : key[x] = k}) <= b[k]
  PROVE  SumFunctionOnSet(f, S) <= SumFunctionOnSet(b, K)
<1> DEFINE in(L) == {x \in S : key[x] \in L}
           G == {L \in SUBSET K : SumFunctionOnSet(f, in(L)) <= SumFunctionOnSet(b, L)}
<1>1. ASSUME NEW L \in SUBSET K, \A U \in SUBSET L : U # L => U \in G
      PROVE  L \in G
  <2>1. CASE L = {}
    <3>1. in(L) = {}
      BY <2>1
    <3>2. SumFunctionOnSet(f, in(L)) = 0 /\ SumFunctionOnSet(b, L) = 0
      BY <2>1, <3>1, SumEmpty
    <3> QED BY <3>2
  <2>2. CASE L # {}
    <3> DEFINE p == Pick(L)
               R == L \ {p}
               A == {x \in S : key[x] = p}
    <3>1. p \in L /\ IsFiniteSet(L) /\ IsFiniteSet(R) /\ R \in SUBSET L /\ R # L
      BY <2>2, PickIn, FS_Subset
    <3>2. IsFiniteSet(in(L)) /\ A \in SUBSET in(L) /\ in(L) \ A = in(R)
      BY <3>1, FS_Subset
    <3>3. SumFunctionOnSet(f, in(L)) = SumFunctionOnSet(f, A) + SumFunctionOnSet(f, in(R))
      <4> HIDE DEF A, in, R, p
      <4>1. \A x \in in(L) : f[x] \in Nat
        BY DEF in
      <4> QED BY <3>2, <4>1, SumParts
    <3>4. SumFunctionOnSet(b, L) = b[p] + SumFunctionOnSet(b, R)
      BY <2>2, <3>1, SumPick
    <3>5. SumFunctionOnSet(f, in(R)) <= SumFunctionOnSet(b, R)
      BY <3>1, <1>1
    <3>6. SumFunctionOnSet(f, A) <= b[p] /\ b[p] \in Nat
      BY <3>1
    <3>7. SumFunctionOnSet(f, in(R)) \in Nat /\ SumFunctionOnSet(f, A) \in Nat
      <4>1. IsFiniteSet(in(R)) /\ IsFiniteSet(A)
        BY FS_Subset
      <4> QED BY <4>1, SumNat
    <3>8. SumFunctionOnSet(b, R) \in Nat
      BY <3>1, SumNat
    <3> HIDE DEF A, in, R, p
    <3>9. SumFunctionOnSet(f, in(L)) <= SumFunctionOnSet(b, L)
      BY <3>3, <3>4, <3>5, <3>6, <3>7, <3>8
    <3> QED BY <3>9
  <2> QED BY <2>1, <2>2
<1> HIDE DEF G
<1>2. \A L \in SUBSET K : L \in G
  BY <1>1, SetInduction
<1>3. in(K) = S
  OBVIOUS
<1> QED BY <1>2, <1>3 DEF G
=============================================================================
