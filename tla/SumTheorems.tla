---------------------------- MODULE SumTheorems -----------------------------
(***************************************************************************)
(* Induction over the subsets of a finite set, and what a sum of a         *)
(* function over one is when elements are taken out, split off, grouped or *)
(* swapped.                                                                *)
(***************************************************************************)
EXTENDS Integers, FiniteSets, Functions, FiniteSetsExt, FiniteSetTheorems,
        WellFoundedInduction, SequenceTheorems, TLAPS

\* A set of subsets of a finite set has a smallest one.
LEMMA SmallestSubset ==
  ASSUME NEW S, IsFiniteSet(S), NEW B, B \subseteq SUBSET S, B # {}
  PROVE  \E T \in B : \A U \in B : U \subseteq T => U = T
<1>1. IsWellFoundedOn(StrictSubsetOrdering(S), SUBSET S)
  BY FS_FiniteSubsetsOfFinite, FS_StrictSubsetOrderingWellFounded, Zenon
<1>2. PICK T \in B : \A U \in B : ~ (<<U, T>> \in StrictSubsetOrdering(S))
  BY <1>1, WFMin, Zenon
<1>. QED
  BY <1>2 DEF StrictSubsetOrdering

\* Induction over the subsets of a finite set, with a set of subsets for the
\* property.
LEMMA SubsetInduction ==
  ASSUME NEW S, IsFiniteSet(S), NEW P,
         \A T \in SUBSET S : (\A U \in (SUBSET T) \ {T} : U \in P) => T \in P
  PROVE  SUBSET S \subseteq P
<1> DEFINE Bad == (SUBSET S) \ P
<1>1. SUFFICES ASSUME Bad # {} PROVE FALSE
  OBVIOUS
<1>2. Bad \subseteq SUBSET S
  OBVIOUS
<1>3. \E T \in Bad : \A U \in Bad : U \subseteq T => U = T
  <2>. HIDE DEF Bad
  <2>. QED  BY <1>1, <1>2, SmallestSubset
<1>. QED
  BY <1>3

\* The recursion behind SumFunctionOnSet.
IsIter(g, f, S) ==
  g = [s \in SUBSET S |->
         IF s = {} THEN 0
         ELSE LET x == CHOOSE x \in s : TRUE IN f[x] + g[s \ {x}]]

\* The fold of the library picks the solution of this recursion.
LEMMA SumIsIter ==
  ASSUME NEW f, NEW S
  PROVE  SumFunctionOnSet(f, S) = (CHOOSE g : IsIter(g, f, S))[S]
BY DEF SumFunctionOnSet, FoldFunctionOnSet, MapThenFoldSet, IsIter

\* A solution for S, cut down to the subsets of T, is one for T; there is only one.
LEMMA IterCut ==
  ASSUME NEW f, NEW S, NEW g, IsIter(g, f, S), NEW T \in SUBSET S
  PROVE  IsIter([s \in SUBSET T |-> g[s]], f, T)
<1> DEFINE h == [s \in SUBSET T |-> g[s]]
<1>1. SUFFICES ASSUME NEW s \in SUBSET T
               PROVE  h[s] = IF s = {} THEN 0
                             ELSE LET x == CHOOSE x \in s : TRUE IN f[x] + h[s \ {x}]
  BY DEF IsIter
<1>2. g[s] = IF s = {} THEN 0
             ELSE LET x == CHOOSE x \in s : TRUE IN f[x] + g[s \ {x}]
  BY DEF IsIter
<1>. QED
  BY <1>2

\* On a finite set the recursion has one solution at most.
LEMMA IterUnique ==
  ASSUME NEW f, NEW S, IsFiniteSet(S), NEW g, NEW h, IsIter(g, f, S), IsIter(h, f, S)
  PROVE  g = h
<1> DEFINE P == {s \in SUBSET S : g[s] = h[s]}
<1>1. ASSUME NEW T \in SUBSET S, \A U \in (SUBSET T) \ {T} : U \in P
      PROVE  T \in P
  <2>1. g[T] = IF T = {} THEN 0
               ELSE LET x == CHOOSE x \in T : TRUE IN f[x] + g[T \ {x}]
    BY DEF IsIter
  <2>2. h[T] = IF T = {} THEN 0
               ELSE LET x == CHOOSE x \in T : TRUE IN f[x] + h[T \ {x}]
    BY DEF IsIter
  <2>3. CASE T = {}
    BY <2>1, <2>2, <2>3
  <2>4. CASE T # {}
    <3>1. PICK x : x = CHOOSE y \in T : TRUE
      OBVIOUS
    <3>2. x \in T
      BY <2>4, <3>1
    <3>3. g[T \ {x}] = h[T \ {x}]
      BY <1>1, <3>2
    <3>. QED
      BY <2>1, <2>2, <2>4, <3>1, <3>3
  <2>. QED
    BY <2>3, <2>4
<1>2. SUBSET S \subseteq P
  <2>. HIDE DEF P
  <2>. QED  BY <1>1, SubsetInduction
<1>. QED
  BY <1>2 DEF IsIter

\* On a finite set the recursion has a solution: it grows with the subsets.
LEMMA IterExists ==
  ASSUME NEW f, NEW S, IsFiniteSet(S)
  PROVE  \E g : IsIter(g, f, S)
<1> DEFINE P == {T \in SUBSET S : \E g : IsIter(g, f, T)}
<1>1. ASSUME NEW T \in SUBSET S, \A U \in (SUBSET T) \ {T} : U \in P
      PROVE  T \in P
  <2>1. CASE T = {}
    <3>1. IsIter([s \in SUBSET T |-> 0], f, T)
      BY <2>1 DEF IsIter
    <3>. QED
      BY <3>1
  <2>2. CASE T # {}
    <3> DEFINE k == [s \in (SUBSET T) \ {T} |-> (CHOOSE g : IsIter(g, f, s))[s]]
               c == CHOOSE x \in T : TRUE
               h == [s \in SUBSET T |-> IF s = T THEN f[c] + k[T \ {c}] ELSE k[s]]
    <3>1. \A U \in (SUBSET T) \ {T} : IsIter(CHOOSE g : IsIter(g, f, U), f, U)
      BY <1>1
    <3>2. c \in T
      BY <2>2
    <3>3. ASSUME NEW s \in (SUBSET T) \ {T}, s # {}
          PROVE  k[s] = f[CHOOSE x \in s : TRUE] + k[s \ {CHOOSE x \in s : TRUE}]
      <4> DEFINE x == CHOOSE y \in s : TRUE
                 g == CHOOSE g : IsIter(g, f, s)
                 u == s \ {x}
      <4>1. x \in s
        BY <3>3
      <4>2. IsIter(g, f, s)
        BY <3>1
      <4>3. g[s] = f[x] + g[u]
        BY <4>2, <3>3 DEF IsIter
      <4>4. u \in SUBSET s /\ u \in (SUBSET T) \ {T}
        BY <4>1
      <4>5. IsIter([v \in SUBSET u |-> g[v]], f, u)
        <5>. HIDE DEF g, u
        <5>. QED  BY <4>2, <4>4, IterCut
      <4>6. IsFiniteSet(u)
        BY <4>4, FS_Subset
      <4>7. (CHOOSE g1 : IsIter(g1, f, u)) = [v \in SUBSET u |-> g[v]]
        <5>1. IsIter(CHOOSE g1 : IsIter(g1, f, u), f, u)
          BY <3>1, <4>4
        <5>. HIDE DEF g, u
        <5>. QED  BY <4>5, <4>6, <5>1, IterUnique
      <4>8. k[u] = g[u]
        BY <4>4, <4>7
      <4>. QED
        BY <4>3, <4>8
    <3>4. \A s \in (SUBSET T) \ {T} : s = {} => k[s] = 0
      BY <3>1 DEF IsIter
    <3>5. IsIter(h, f, T)
      <4>1. ASSUME NEW s \in SUBSET T
            PROVE  h[s] = IF s = {} THEN 0
                          ELSE LET x == CHOOSE x \in s : TRUE IN f[x] + h[s \ {x}]
        <5>1. CASE s = T
          BY <5>1, <3>2, <2>2
        <5>2. CASE s # T /\ s = {}
          BY <5>2, <3>4
        <5>3. CASE s # T /\ s # {}
          <6> DEFINE x == CHOOSE x \in s : TRUE
          <6>1. x \in s
            BY <5>3
          <6>2. h[s] = k[s] /\ h[s \ {x}] = k[s \ {x}]
            BY <5>3, <6>1
          <6>3. k[s] = f[x] + k[s \ {x}]
            BY <5>3, <3>3
          <6>. QED
            BY <5>3, <6>2, <6>3
        <5>. QED
          BY <5>1, <5>2, <5>3
      <4>. HIDE DEF k, c
      <4>. QED  BY <4>1 DEF IsIter
    <3>. QED
      BY <3>5
  <2>. QED
    BY <2>1, <2>2
<1>2. SUBSET S \subseteq P
  <2>. HIDE DEF P
  <2>. QED  BY <1>1, SubsetInduction
<1>. QED
  BY <1>2

-----------------------------------------------------------------------------
\* Adding one element at a time.
LEMMA GrowInduction ==
  ASSUME NEW S, IsFiniteSet(S), NEW P, {} \in P,
         \A T \in SUBSET S : \A x \in S \ T : T \in P => T \union {x} \in P
  PROVE  S \in P
<1>1. ASSUME NEW T \in SUBSET S, \A U \in (SUBSET T) \ {T} : U \in P
      PROVE  T \in P
  <2>1. CASE T = {}
    BY <2>1
  <2>2. CASE T # {}
    <3>1. PICK x \in T : TRUE
      BY <2>2
    <3>2. T \ {x} \in P /\ T \ {x} \in SUBSET S /\ x \in S \ (T \ {x})
      BY <1>1, <3>1
    <3>3. (T \ {x}) \union {x} \in P
      BY <3>2
    <3>4. (T \ {x}) \union {x} = T
      BY <3>1
    <3>. QED
      BY <3>3, <3>4
  <2>. QED
    BY <2>1, <2>2
<1>. QED
  BY <1>1, SubsetInduction

\* Nothing adds up to zero.
LEMMA SumEmpty == ASSUME NEW f PROVE SumFunctionOnSet(f, {}) = 0
<1>1. PICK g : IsIter(g, f, {})
  BY FS_EmptySet, IterExists
<1>2. IsIter(CHOOSE h : IsIter(h, f, {}), f, {})
  BY <1>1
<1>. QED
  BY <1>2, SumIsIter DEF IsIter

\* The recursion, for some element.
LEMMA SumSome ==
  ASSUME NEW f, NEW S, IsFiniteSet(S), S # {}
  PROVE  \E x \in S :
           SumFunctionOnSet(f, S) = f[x] + SumFunctionOnSet(f, S \ {x})
<1> DEFINE c == CHOOSE x \in S : TRUE
           T == S \ {c}
           g == CHOOSE h : IsIter(h, f, S)
           k == CHOOSE h : IsIter(h, f, T)
<1>1. c \in S /\ T \in SUBSET S /\ IsFiniteSet(T)
  BY FS_Subset
<1>2. IsIter(g, f, S)
  BY IterExists
<1>3. IsIter(k, f, T)
  BY <1>1, IterExists
<1>4. g[S] = f[c] + g[T]
  BY <1>2 DEF IsIter
<1>5. SumFunctionOnSet(f, S) = g[S] /\ SumFunctionOnSet(f, T) = k[T]
  BY SumIsIter
<1>6. k = [s \in SUBSET T |-> g[s]]
  <2>1. IsIter([s \in SUBSET T |-> g[s]], f, T)
    <3>. HIDE DEF g, T
    <3>. QED  BY <1>1, <1>2, IterCut
  <2>. HIDE DEF g, T, k
  <2>. QED  BY <1>1, <1>3, <2>1, IterUnique
<1>7. k[T] = g[T]
  BY <1>6
<1>. QED
  BY <1>1, <1>4, <1>5, <1>7

\* A sum depends on the values over its set only.
LEMMA SumSame ==
  ASSUME NEW S, IsFiniteSet(S), NEW f, NEW g, \A x \in S : f[x] = g[x]
  PROVE  SumFunctionOnSet(f, S) = SumFunctionOnSet(g, S)
<1> DEFINE It(h) == [s \in SUBSET S |->
                       IF s = {} THEN 0
                       ELSE LET x == CHOOSE x \in s : TRUE IN f[x] + h[s \ {x}]]
<1>1. \A h : IsIter(h, f, S) <=> h = It(h)
  BY DEF IsIter
<1>2. ASSUME NEW h PROVE IsIter(h, f, S) <=> IsIter(h, g, S)
  <2>1. ASSUME NEW s \in SUBSET S, s # {}
        PROVE  f[CHOOSE x \in s : TRUE] = g[CHOOSE x \in s : TRUE]
    <3>1. (CHOOSE x \in s : TRUE) \in s
      BY <2>1
    <3>. QED
      BY <3>1
  <2>. QED
    BY <2>1 DEF IsIter
<1>3. PICK h : IsIter(h, f, S)
  BY IterExists
<1>4. /\ IsIter(CHOOSE k : IsIter(k, f, S), f, S)
      /\ IsIter(CHOOSE k : IsIter(k, g, S), g, S)
  BY <1>2, <1>3
<1>5. (CHOOSE k : IsIter(k, f, S)) = (CHOOSE k : IsIter(k, g, S))
  BY <1>2, <1>4, IterUnique
<1>. QED
  BY <1>5, SumIsIter

\* Integers add up to an integer.
LEMMA SumInt ==
  ASSUME NEW S, IsFiniteSet(S), NEW f, \A x \in S : f[x] \in Int
  PROVE  SumFunctionOnSet(f, S) \in Int
<1> DEFINE P == {T \in SUBSET S : SumFunctionOnSet(f, T) \in Int}
<1>1. ASSUME NEW T \in SUBSET S, \A U \in (SUBSET T) \ {T} : U \in P
      PROVE  T \in P
  <2>1. CASE T = {}
    BY <2>1, SumEmpty
  <2>2. CASE T # {}
    <3>1. IsFiniteSet(T)
      BY FS_Subset
    <3>2. PICK x \in T : SumFunctionOnSet(f, T) = f[x] + SumFunctionOnSet(f, T \ {x})
      BY <2>2, <3>1, SumSome
    <3>3. T \ {x} \in P
      BY <1>1, <3>2
    <3>. QED
      BY <3>2, <3>3
  <2>. QED
    BY <2>1, <2>2
<1>2. SUBSET S \subseteq P
  <2>. HIDE DEF P
  <2>. QED  BY <1>1, SubsetInduction
<1>. QED
  BY <1>2

\* Any element may be taken out of a sum first.
LEMMA SumTake ==
  ASSUME NEW S, IsFiniteSet(S), NEW f, \A x \in S : f[x] \in Int, NEW x \in S
  PROVE  SumFunctionOnSet(f, S) = f[x] + SumFunctionOnSet(f, S \ {x})
<1> DEFINE P == {T \in SUBSET S : \A y \in T :
                   SumFunctionOnSet(f, T) = f[y] + SumFunctionOnSet(f, T \ {y})}
<1>1. ASSUME NEW T \in SUBSET S, \A U \in (SUBSET T) \ {T} : U \in P
      PROVE  T \in P
  <2>1. SUFFICES ASSUME NEW y \in T
        PROVE  SumFunctionOnSet(f, T) = f[y] + SumFunctionOnSet(f, T \ {y})
    OBVIOUS
  <2>2. IsFiniteSet(T)
    BY FS_Subset
  <2>3. PICK z \in T : SumFunctionOnSet(f, T) = f[z] + SumFunctionOnSet(f, T \ {z})
    BY <2>2, SumSome
  <2>4. CASE z = y
    BY <2>3, <2>4
  <2>5. CASE z # y
    <3>1. T \ {z} \in P /\ T \ {y} \in P /\ y \in T \ {z} /\ z \in T \ {y}
      BY <1>1, <2>5
    <3>2. SumFunctionOnSet(f, T \ {z}) = f[y] + SumFunctionOnSet(f, (T \ {z}) \ {y})
      BY <3>1
    <3>3. SumFunctionOnSet(f, T \ {y}) = f[z] + SumFunctionOnSet(f, (T \ {y}) \ {z})
      BY <3>1
    <3>4. (T \ {z}) \ {y} = (T \ {y}) \ {z}
      OBVIOUS
    <3>5. SumFunctionOnSet(f, (T \ {y}) \ {z}) \in Int
      <4>1. IsFiniteSet((T \ {y}) \ {z})
        BY <2>2, FS_Subset
      <4>. QED
        BY <4>1, SumInt
    <3>6. f[y] \in Int /\ f[z] \in Int
      OBVIOUS
    <3>7. \A a, b, r \in Int : a + (b + r) = b + (a + r)
      OBVIOUS
    <3>8. f[z] + (f[y] + SumFunctionOnSet(f, (T \ {y}) \ {z}))
            = f[y] + (f[z] + SumFunctionOnSet(f, (T \ {y}) \ {z}))
      BY <3>5, <3>6, <3>7, Zenon
    <3>. QED
      BY <2>3, <3>2, <3>3, <3>4, <3>8, Zenon
  <2>. QED
    BY <2>4, <2>5
<1>2. SUBSET S \subseteq P
  <2>. HIDE DEF P
  <2>. QED  BY <1>1, SubsetInduction
<1>. QED
  BY <1>2

\* An element is added to a sum.
LEMMA SumAdd ==
  ASSUME NEW S, IsFiniteSet(S), NEW f, \A y \in S : f[y] \in Int,
         NEW x, x \notin S, f[x] \in Int
  PROVE  SumFunctionOnSet(f, S \union {x}) = SumFunctionOnSet(f, S) + f[x]
<1> DEFINE T == S \union {x}
<1>1. IsFiniteSet(T)
  BY FS_AddElement
<1>2. \A y \in T : f[y] \in Int
  OBVIOUS
<1>3. x \in T /\ T \ {x} = S
  OBVIOUS
<1>4. SumFunctionOnSet(f, T) = f[x] + SumFunctionOnSet(f, T \ {x})
  <2>. HIDE DEF T
  <2>. QED  BY <1>1, <1>2, <1>3, SumTake
<1>5. SumFunctionOnSet(f, S) \in Int
  BY SumInt
<1>6. SumFunctionOnSet(f, T) = f[x] + SumFunctionOnSet(f, S)
  <2>. HIDE DEF T
  <2>. QED  BY <1>3, <1>4, Zenon
<1>7. f[x] + SumFunctionOnSet(f, S) = SumFunctionOnSet(f, S) + f[x]
  BY <1>5
<1>. QED
  BY <1>6, <1>7, Zenon

\* Elements that count nothing may be left out.
LEMMA SumSupport ==
  ASSUME NEW S, IsFiniteSet(S), NEW T \in SUBSET S, NEW f,
         \A x \in S : f[x] \in Int, \A x \in S \ T : f[x] = 0
  PROVE  SumFunctionOnSet(f, S) = SumFunctionOnSet(f, T)
<1> DEFINE P == {U \in SUBSET S : SumFunctionOnSet(f, U) = SumFunctionOnSet(f, U \intersect T)}
<1>1. {} \in P
  <2>1. {} \intersect T = {}
    OBVIOUS
  <2>. QED
    BY <2>1
<1>2. ASSUME NEW U \in SUBSET S, NEW x \in S \ U, U \in P
      PROVE  U \union {x} \in P
  <2>1. IsFiniteSet(U) /\ IsFiniteSet(U \intersect T)
    BY FS_Subset, FS_Intersection
  <2>2. SumFunctionOnSet(f, U \union {x}) = SumFunctionOnSet(f, U) + f[x]
    BY <2>1, SumAdd
  <2>3. SumFunctionOnSet(f, U) \in Int
    BY <2>1, SumInt
  <2>4. CASE x \in T
    <3>1. (U \union {x}) \intersect T = (U \intersect T) \union {x}
      BY <2>4
    <3>2. SumFunctionOnSet(f, (U \intersect T) \union {x})
            = SumFunctionOnSet(f, U \intersect T) + f[x]
      BY <2>1, SumAdd
    <3>. QED
      BY <1>2, <2>2, <3>1, <3>2
  <2>5. CASE x \notin T
    <3>1. (U \union {x}) \intersect T = U \intersect T
      BY <2>5
    <3>2. f[x] = 0
      BY <2>5
    <3>3. SumFunctionOnSet(f, U \union {x}) = SumFunctionOnSet(f, U)
      BY <2>2, <2>3, <3>2
    <3>4. SumFunctionOnSet(f, (U \union {x}) \intersect T) = SumFunctionOnSet(f, U \intersect T)
      BY <3>1, Zenon
    <3>. QED
      BY <1>2, <3>3, <3>4
  <2>. QED
    BY <2>4, <2>5
<1>3. S \in P
  <2>. HIDE DEF P
  <2>. QED  BY <1>1, <1>2, GrowInduction
<1>4. S \intersect T = T
  OBVIOUS
<1>. QED
  BY <1>3, <1>4

\* Naturals add up to a natural.
LEMMA SumNat ==
  ASSUME NEW S, IsFiniteSet(S), NEW f, \A x \in S : f[x] \in Nat
  PROVE  SumFunctionOnSet(f, S) \in Nat
<1> DEFINE P == {U \in SUBSET S : SumFunctionOnSet(f, U) \in Nat}
<1>1. {} \in P
  BY SumEmpty
<1>2. ASSUME NEW U \in SUBSET S, NEW x \in S \ U, U \in P
      PROVE  U \union {x} \in P
  <2>1. IsFiniteSet(U)
    BY FS_Subset
  <2>2. SumFunctionOnSet(f, U \union {x}) = SumFunctionOnSet(f, U) + f[x]
    BY <2>1, SumAdd
  <2>. QED
    BY <1>2, <2>2
<1>3. S \in P
  <2>. HIDE DEF P
  <2>. QED  BY <1>1, <1>2, GrowInduction
<1>. QED
  BY <1>3

\* Sums of sums and differences, element by element.
LEMMA SumPlus ==
  ASSUME NEW S, IsFiniteSet(S), NEW f, NEW g, NEW h,
         \A x \in S : f[x] \in Int /\ g[x] \in Int /\ h[x] = f[x] + g[x]
  PROVE  SumFunctionOnSet(h, S) = SumFunctionOnSet(f, S) + SumFunctionOnSet(g, S)
<1> DEFINE P == {U \in SUBSET S : SumFunctionOnSet(h, U) =
                   SumFunctionOnSet(f, U) + SumFunctionOnSet(g, U)}
<1>1. {} \in P
  BY SumEmpty
<1>2. ASSUME NEW U \in SUBSET S, NEW x \in S \ U, U \in P
      PROVE  U \union {x} \in P
  <2>1. IsFiniteSet(U)
    BY FS_Subset
  <2>2. /\ SumFunctionOnSet(f, U \union {x}) = SumFunctionOnSet(f, U) + f[x]
        /\ SumFunctionOnSet(g, U \union {x}) = SumFunctionOnSet(g, U) + g[x]
        /\ SumFunctionOnSet(h, U \union {x}) = SumFunctionOnSet(h, U) + h[x]
    BY <2>1, SumAdd
  <2>3. SumFunctionOnSet(f, U) \in Int /\ SumFunctionOnSet(g, U) \in Int
    BY <2>1, SumInt
  <2>. QED
    BY <1>2, <2>2, <2>3
<1>3. S \in P
  <2>. HIDE DEF P
  <2>. QED  BY <1>1, <1>2, GrowInduction
<1>. QED
  BY <1>3

\* A sum of smaller values is smaller.
LEMMA SumLeq ==
  ASSUME NEW S, IsFiniteSet(S), NEW f, NEW g,
         \A x \in S : f[x] \in Int /\ g[x] \in Int /\ f[x] <= g[x]
  PROVE  SumFunctionOnSet(f, S) <= SumFunctionOnSet(g, S)
<1> DEFINE h == [x \in S |-> g[x] - f[x]]
<1>1. \A x \in S : h[x] \in Nat
  OBVIOUS
<1>2. \A x \in S : f[x] \in Int /\ h[x] \in Int /\ g[x] = f[x] + h[x]
  OBVIOUS
<1>3. SumFunctionOnSet(g, S) = SumFunctionOnSet(f, S) + SumFunctionOnSet(h, S)
  <2>. HIDE DEF h
  <2>. QED  BY <1>2, SumPlus
<1>4. SumFunctionOnSet(h, S) \in Nat /\ SumFunctionOnSet(f, S) \in Int
  <2>. HIDE DEF h
  <2>. QED  BY <1>1, SumNat, SumInt
<1>. QED
  BY <1>3, <1>4

\* A sum over a set is that over a part of it and that over the rest.
LEMMA SumSplit ==
  ASSUME NEW S, IsFiniteSet(S), NEW T \in SUBSET S, NEW f, \A x \in S : f[x] \in Int
  PROVE  SumFunctionOnSet(f, S) = SumFunctionOnSet(f, T) + SumFunctionOnSet(f, S \ T)
<1> DEFINE g == [x \in S |-> IF x \in T THEN f[x] ELSE 0]
           h == [x \in S |-> IF x \in T THEN 0 ELSE f[x]]
<1>1. SumFunctionOnSet(f, S) = SumFunctionOnSet(g, S) + SumFunctionOnSet(h, S)
  <2>1. \A x \in S : g[x] \in Int /\ h[x] \in Int /\ f[x] = g[x] + h[x]
    OBVIOUS
  <2>. HIDE DEF g, h
  <2>. QED  BY <2>1, SumPlus
<1>2. SumFunctionOnSet(g, S) = SumFunctionOnSet(g, T)
  <2>1. \A x \in S : g[x] \in Int
    OBVIOUS
  <2>2. \A x \in S \ T : g[x] = 0
    OBVIOUS
  <2>. HIDE DEF g
  <2>. QED  BY <2>1, <2>2, SumSupport
<1>3. SumFunctionOnSet(h, S) = SumFunctionOnSet(h, S \ T)
  <2>1. \A x \in S : h[x] \in Int
    OBVIOUS
  <2>2. \A x \in S \ (S \ T) : h[x] = 0
    OBVIOUS
  <2>. HIDE DEF h
  <2>. QED  BY <2>1, <2>2, SumSupport
<1>4. IsFiniteSet(T) /\ IsFiniteSet(S \ T)
  BY FS_Subset
<1>5. \A x \in T : g[x] = f[x]
  OBVIOUS
<1>6. \A x \in S \ T : h[x] = f[x]
  OBVIOUS
<1>7. SumFunctionOnSet(g, T) = SumFunctionOnSet(f, T)
  <2>. HIDE DEF g
  <2>. QED  BY <1>4, <1>5, SumSame
<1>8. SumFunctionOnSet(h, S \ T) = SumFunctionOnSet(f, S \ T)
  <2>. HIDE DEF h
  <2>. QED  BY <1>4, <1>6, SumSame
<1>. QED
  BY <1>1, <1>2, <1>3, <1>7, <1>8

\* One element changes.
LEMMA SumChange ==
  ASSUME NEW S, IsFiniteSet(S), NEW f, NEW g, NEW x \in S,
         \A y \in S : f[y] \in Int, g[x] \in Int, \A y \in S \ {x} : g[y] = f[y]
  PROVE  SumFunctionOnSet(g, S) = SumFunctionOnSet(f, S) - f[x] + g[x]
<1>1. \A y \in S : g[y] \in Int
  OBVIOUS
<1>2. IsFiniteSet(S \ {x})
  BY FS_Subset
<1>3. SumFunctionOnSet(g, S \ {x}) = SumFunctionOnSet(f, S \ {x})
  BY <1>2, SumSame
<1>4. /\ SumFunctionOnSet(g, S) = g[x] + SumFunctionOnSet(g, S \ {x})
      /\ SumFunctionOnSet(f, S) = f[x] + SumFunctionOnSet(f, S \ {x})
  BY <1>1, SumTake
<1>5. SumFunctionOnSet(f, S \ {x}) \in Int
  BY <1>2, SumInt
<1>. QED
  BY <1>3, <1>4, <1>5

\* The sum over one element.
LEMMA SumOne ==
  ASSUME NEW f, NEW x, f[x] \in Int
  PROVE  SumFunctionOnSet(f, {x}) = f[x]
<1>1. IsFiniteSet({x}) /\ {x} # {}
  BY FS_Singleton
<1>2. PICK y \in {x} :
        SumFunctionOnSet(f, {x}) = f[y] + SumFunctionOnSet(f, {x} \ {y})
  <2>. DEFINE S == {x}
  <2>1. IsFiniteSet(S) /\ S # {}
    BY <1>1
  <2>2. \E y \in S : SumFunctionOnSet(f, S) = f[y] + SumFunctionOnSet(f, S \ {y})
    <3>. HIDE DEF S
    <3>. QED  BY <2>1, SumSome
  <2>. QED  BY <2>2
<1>3. y = x /\ {x} \ {y} = {}
  OBVIOUS
<1>4. SumFunctionOnSet(f, {x}) = f[x] + SumFunctionOnSet(f, {})
  BY <1>2, <1>3, Zenon
<1>. QED
  BY <1>4, SumEmpty

Group(S, key, k) == {x \in S : key[x] = k}

\* Grouped by a key, the same sum.
LEMMA SumByKey ==
  ASSUME NEW S, IsFiniteSet(S), NEW K, IsFiniteSet(K), NEW key \in [S -> K],
         NEW f, \A x \in S : f[x] \in Int, NEW g,
         \A k \in K : g[k] = SumFunctionOnSet(f, Group(S, key, k))
  PROVE  SumFunctionOnSet(g, K) = SumFunctionOnSet(f, S)
<1> DEFINE Part(U) == [k \in K |-> SumFunctionOnSet(f, {x \in U : key[x] = k})]
           P == {U \in SUBSET S : SumFunctionOnSet(Part(U), K) = SumFunctionOnSet(f, U)}
<1>1. {} \in P
  <2>1. \A k \in K : Part({})[k] = 0
    <3>1. \A k : {x \in {} : key[x] = k} = {}
      OBVIOUS
    <3>. QED
      BY <3>1, SumEmpty
  <2>2. SumFunctionOnSet(Part({}), K) = SumFunctionOnSet(Part({}), {})
    <3> DEFINE p == Part({})
    <3>1. /\ \A x \in K : p[x] \in Int
          /\ \A x \in K \ {} : p[x] = 0
      BY <2>1
    <3>. HIDE DEF p
    <3>2. SumFunctionOnSet(p, K) = SumFunctionOnSet(p, {})
      BY <3>1, SumSupport
    <3>. QED
      BY <3>2 DEF p
  <2>. QED
    BY <2>2, SumEmpty
<1>2. ASSUME NEW U \in SUBSET S, NEW x \in S \ U, U \in P
      PROVE  U \union {x} \in P
  <2> DEFINE p == Part(U)
             q == Part(U \union {x})
  <2>1. IsFiniteSet(U) /\ \A k \in K : IsFiniteSet({y \in U : key[y] = k})
    BY FS_Subset
  <2>2. \A k \in K : p[k] \in Int
    BY <2>1, SumInt
  <2>3. \A k \in K \ {key[x]} : q[k] = p[k]
    <3>1. \A k \in K \ {key[x]} :
            {y \in U \union {x} : key[y] = k} = {y \in U : key[y] = k}
      OBVIOUS
    <3>. QED
      BY <3>1
  <2>4. q[key[x]] = p[key[x]] + f[x]
    <3> DEFINE A == {y \in U : key[y] = key[x]}
    <3>1. {y \in U \union {x} : key[y] = key[x]} = A \union {x}
      OBVIOUS
    <3>2. IsFiniteSet(A) /\ x \notin A /\ \A y \in A : f[y] \in Int
      BY <2>1
    <3>3. SumFunctionOnSet(f, A \union {x}) = SumFunctionOnSet(f, A) + f[x]
      <4>. HIDE DEF A
      <4>. QED  BY <3>2, SumAdd
    <3>4. q[key[x]] = SumFunctionOnSet(f, A \union {x})
      BY <3>1
    <3>. QED
      BY <3>3, <3>4
  <2>5. SumFunctionOnSet(q, K) = SumFunctionOnSet(p, K) - p[key[x]] + q[key[x]]
    <3> DEFINE k == key[x]
    <3>1. k \in K /\ q[k] \in Int
      BY <2>2, <2>4
    <3>2. \A j \in K \ {k} : q[j] = p[j]
      BY <2>3
    <3>4. \A j \in K : p[j] \in Int
      BY <2>2
    <3>3. SumFunctionOnSet(q, K) = SumFunctionOnSet(p, K) - p[k] + q[k]
      <4>. HIDE DEF p, q, k
      <4>. QED  BY <3>1, <3>2, <3>4, SumChange
    <3>. QED
      BY <3>3
  <2>6. SumFunctionOnSet(f, U \union {x}) = SumFunctionOnSet(f, U) + f[x]
    BY <2>1, SumAdd
  <2>7. SumFunctionOnSet(p, K) = SumFunctionOnSet(f, U) /\ SumFunctionOnSet(f, U) \in Int
    BY <1>2, <2>1, SumInt
  <2>8. p[key[x]] \in Int /\ f[x] \in Int
    BY <2>2
  <2>9. SumFunctionOnSet(q, K) = SumFunctionOnSet(f, U \union {x})
    <3>. HIDE DEF p, q
    <3>. QED  BY <2>4, <2>5, <2>6, <2>7, <2>8
  <2>. QED
    BY <2>9
<1>3. S \in P
  <2>. HIDE DEF P
  <2>. QED  BY <1>1, <1>2, GrowInduction
<1>4. SumFunctionOnSet(g, K) = SumFunctionOnSet(Part(S), K)
  <2> DEFINE p == Part(S)
  <2>1. \A k \in K : g[k] = p[k]
    BY DEF Group
  <2>2. SumFunctionOnSet(g, K) = SumFunctionOnSet(p, K)
    <3>. HIDE DEF p
    <3>. QED  BY <2>1, SumSame
  <2>. QED
    BY <2>2
<1>. QED
  BY <1>3, <1>4

Column(f, S, y) == [x \in S |-> f[x][y]]

\* The order of two sums.
LEMMA SumSwap ==
  ASSUME NEW S, IsFiniteSet(S), NEW T, IsFiniteSet(T), NEW f,
         \A x \in S : \A y \in T : f[x][y] \in Int,
         NEW g, \A x \in S : g[x] = SumFunctionOnSet(f[x], T),
         NEW h, \A y \in T : h[y] = SumFunctionOnSet(Column(f, S, y), S)
  PROVE  SumFunctionOnSet(g, S) = SumFunctionOnSet(h, T)
<1> DEFINE Col(U) == [y \in T |-> SumFunctionOnSet([x \in S |-> f[x][y]], U)]
           P == {U \in SUBSET S : SumFunctionOnSet(g, U) = SumFunctionOnSet(Col(U), T)}
<1>1. {} \in P
  <2> DEFINE p == Col({})
  <2>1. \A y \in T : p[y] = 0
    BY SumEmpty
  <2>2. SumFunctionOnSet(p, T) = SumFunctionOnSet(p, {})
    <3>1. /\ \A y \in T : p[y] \in Int
          /\ \A y \in T \ {} : p[y] = 0
      BY <2>1
    <3>. HIDE DEF p
    <3>. QED
      BY <3>1, SumSupport
  <2>. QED
    BY <2>2, SumEmpty
<1>2. ASSUME NEW U \in SUBSET S, NEW x \in S \ U, U \in P
      PROVE  U \union {x} \in P
  <2> DEFINE p == Col(U)
             q == Col(U \union {x})
             r == f[x]
  <2>1. IsFiniteSet(U)
    BY FS_Subset
  <2>2. \A y \in T : p[y] \in Int /\ r[y] \in Int /\ q[y] = p[y] + r[y]
    <3>1. SUFFICES ASSUME NEW y \in T
                   PROVE  p[y] \in Int /\ r[y] \in Int /\ q[y] = p[y] + r[y]
      OBVIOUS
    <3> DEFINE c == [z \in S |-> f[z][y]]
    <3>2. (\A z \in U : c[z] \in Int) /\ c[x] \in Int /\ x \notin U
      OBVIOUS
    <3>3. SumFunctionOnSet(c, U) \in Int
      <4>. HIDE DEF c
      <4>. QED  BY <2>1, <3>2, SumInt
    <3>4. SumFunctionOnSet(c, U \union {x}) = SumFunctionOnSet(c, U) + c[x]
      <4>. HIDE DEF c
      <4>. QED  BY <2>1, <3>2, SumAdd
    <3>. QED
      BY <3>3, <3>4
  <2>3. SumFunctionOnSet(q, T) = SumFunctionOnSet(p, T) + SumFunctionOnSet(r, T)
    <3>. HIDE DEF p, q, r
    <3>. QED  BY <2>2, SumPlus
  <2>4. \A z \in S : g[z] \in Int
    BY SumInt
  <2>5. SumFunctionOnSet(g, U \union {x}) = SumFunctionOnSet(g, U) + g[x]
    BY <2>1, <2>4, SumAdd
  <2>6. SumFunctionOnSet(g, U) = SumFunctionOnSet(p, T) /\ g[x] = SumFunctionOnSet(r, T)
    BY <1>2
  <2>7. SumFunctionOnSet(g, U \union {x}) = SumFunctionOnSet(q, T)
    <3>. HIDE DEF p, q, r
    <3>. QED  BY <2>3, <2>5, <2>6
  <2>. QED
    BY <2>7
<1>3. S \in P
  <2>. HIDE DEF P
  <2>. QED  BY <1>1, <1>2, GrowInduction
<1>4. SumFunctionOnSet(Col(S), T) = SumFunctionOnSet(h, T)
  <2> DEFINE p == Col(S)
  <2>1. \A y \in T : p[y] = h[y]
    BY DEF Column
  <2>2. SumFunctionOnSet(p, T) = SumFunctionOnSet(h, T)
    <3>. HIDE DEF p
    <3>. QED  BY <2>1, SumSame
  <2>. QED
    BY <2>2
<1>. QED
  BY <1>3, <1>4

\* The sum of differences is the difference of the sums.
LEMMA SumMinus ==
  ASSUME NEW S, IsFiniteSet(S), NEW f, NEW g, NEW h,
         \A x \in S : f[x] \in Int /\ g[x] \in Int /\ h[x] = f[x] - g[x]
  PROVE  SumFunctionOnSet(h, S) = SumFunctionOnSet(f, S) - SumFunctionOnSet(g, S)
<1>1. \A x \in S : h[x] \in Int /\ g[x] \in Int /\ f[x] = h[x] + g[x]
  OBVIOUS
<1>2. SumFunctionOnSet(f, S) = SumFunctionOnSet(h, S) + SumFunctionOnSet(g, S)
  BY <1>1, SumPlus
<1>3. /\ SumFunctionOnSet(f, S) \in Int /\ SumFunctionOnSet(g, S) \in Int
      /\ SumFunctionOnSet(h, S) \in Int
  BY <1>1, SumInt
<1>. QED
  BY <1>2, <1>3

\* Zeros add up to zero.
LEMMA SumZero ==
  ASSUME NEW S, IsFiniteSet(S), NEW f, \A x \in S : f[x] = 0
  PROVE  SumFunctionOnSet(f, S) = 0
<1>1. /\ {} \in SUBSET S /\ \A x \in S : f[x] \in Int
      /\ \A x \in S \ {} : f[x] = 0
  OBVIOUS
<1>2. SumFunctionOnSet(f, S) = SumFunctionOnSet(f, {})
  BY <1>1, SumSupport
<1>. QED
  BY <1>2, SumEmpty

\* A common factor.
LEMMA SumTimes ==
  ASSUME NEW S, IsFiniteSet(S), NEW f, NEW g, NEW c \in Int,
         \A x \in S : f[x] \in Int /\ g[x] = c * f[x]
  PROVE  SumFunctionOnSet(g, S) = c * SumFunctionOnSet(f, S)
<1> DEFINE P == {U \in SUBSET S : SumFunctionOnSet(g, U) = c * SumFunctionOnSet(f, U)}
<1>1. {} \in P
  BY SumEmpty
<1>2. ASSUME NEW U \in SUBSET S, NEW x \in S \ U, U \in P
      PROVE  U \union {x} \in P
  <2>1. IsFiniteSet(U) /\ (\A y \in U : f[y] \in Int /\ g[y] \in Int)
        /\ f[x] \in Int /\ g[x] \in Int
    BY FS_Subset
  <2>2. /\ SumFunctionOnSet(f, U \union {x}) = SumFunctionOnSet(f, U) + f[x]
        /\ SumFunctionOnSet(g, U \union {x}) = SumFunctionOnSet(g, U) + g[x]
        /\ SumFunctionOnSet(f, U) \in Int
    BY <2>1, SumAdd, SumInt
  <2>3. \A a, b \in Int : c * (a + b) = c * a + c * b
    OBVIOUS
  <2>. QED
    BY <1>2, <2>1, <2>2, <2>3
<1>3. S \in P
  <2>. HIDE DEF P
  <2>. QED  BY <1>1, <1>2, GrowInduction
<1>. QED
  BY <1>3

\* Ones add up to how many they are.
LEMMA SumOnes ==
  ASSUME NEW S, IsFiniteSet(S), NEW f, \A x \in S : f[x] = 1
  PROVE  SumFunctionOnSet(f, S) = Cardinality(S)
<1> DEFINE P == {U \in SUBSET S : SumFunctionOnSet(f, U) = Cardinality(U)}
<1>1. {} \in P
  BY SumEmpty, FS_EmptySet
<1>2. ASSUME NEW U \in SUBSET S, NEW x \in S \ U, U \in P
      PROVE  U \union {x} \in P
  <2>1. IsFiniteSet(U) /\ (\A y \in U : f[y] \in Int) /\ f[x] = 1
    BY FS_Subset
  <2>2. SumFunctionOnSet(f, U \union {x}) = SumFunctionOnSet(f, U) + f[x]
    BY <2>1, SumAdd
  <2>3. Cardinality(U \union {x}) = Cardinality(U) + 1
    BY <2>1, FS_AddElement
  <2>. QED
    BY <1>2, <2>1, <2>2, <2>3
<1>3. S \in P
  <2>. HIDE DEF P
  <2>. QED  BY <1>1, <1>2, GrowInduction
<1>. QED
  BY <1>3

\* Ones where a set is and zeros elsewhere count the set.
LEMMA SumMarked ==
  ASSUME NEW S, IsFiniteSet(S), NEW T \in SUBSET S, NEW f,
         \A x \in S : f[x] = IF x \in T THEN 1 ELSE 0
  PROVE  SumFunctionOnSet(f, S) = Cardinality(T)
<1>1. (\A x \in S : f[x] \in Int) /\ (\A x \in S \ T : f[x] = 0)
      /\ (\A x \in T : f[x] = 1) /\ IsFiniteSet(T)
  BY FS_Subset
<1>. QED
  BY <1>1, SumSupport, SumOnes

\* A sum over 1 .. n with one position more.
LEMMA SumAppend ==
  ASSUME NEW n \in Nat, NEW f, NEW g, \A i \in 1 .. n : f[i] \in Int /\ g[i] = f[i],
         g[n + 1] \in Int
  PROVE  SumFunctionOnSet(g, 1 .. (n + 1)) = SumFunctionOnSet(f, 1 .. n) + g[n + 1]
<1> DEFINE S == 1 .. n
           x == n + 1
<1>1. IsFiniteSet(S) /\ x \notin S /\ 1 .. x = S \union {x}
  <2>1. IsFiniteSet(1 .. n)
    BY FS_Interval
  <2>2. x \notin S /\ 1 .. x = S \union {x}
    OBVIOUS
  <2>. QED  BY <2>1, <2>2
<1>2. (\A i \in S : g[i] \in Int /\ f[i] = g[i]) /\ g[x] \in Int
  OBVIOUS
<1>. HIDE DEF S, x
<1>3. SumFunctionOnSet(f, S) = SumFunctionOnSet(g, S)
  BY <1>1, <1>2, SumSame
<1>4. SumFunctionOnSet(g, S \union {x}) = SumFunctionOnSet(g, S) + g[x]
  BY <1>1, <1>2, SumAdd
<1>. QED
  BY <1>1, <1>3, <1>4 DEF S, x
=============================================================================
