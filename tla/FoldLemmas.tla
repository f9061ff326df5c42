------------------------------ MODULE FoldLemmas ------------------------------
(***************************************************************************)
(* Lemmas about induction and about the folds of the community modules.      *)
(*                                                                          *)
(* The library states induction for an operator parameter; here it is stated  *)
(* for a set of numbers.  A fold is a recursive function over the subsets of  *)
(* the positions of a sequence: that there is such a function is proved once,  *)
(* for a step given as a function of what is folded so far and the next        *)
(* element.                                                                  *)
(***************************************************************************)
EXTENDS Integers, Sequences, SequencesExt, FiniteSetTheorems, WellFoundedInduction, TLAPS

\* Induction over the naturals.
LEMMA NatInductive ==
  ASSUME NEW S, 0 \in S, \A n \in Nat : n \in S => n + 1 \in S
  PROVE  Nat \subseteq S
  <1> DEFINE B == Nat \ S
  <1> SUFFICES ASSUME B # {} PROVE FALSE
    OBVIOUS
  <1>1. PICK n \in B : \A k \in B : ~(<<k, n>> \in OpToRel(<, Nat))
    BY NatLessThanWellFounded, WFMin
  <1>2. \A k \in B : ~(k < n)
    BY <1>1, Zenon DEF OpToRel
  <1>3. n # 0 /\ n - 1 \in Nat /\ n - 1 < n
    OBVIOUS
  <1>4. n - 1 \in S
    BY <1>2, <1>3
  <1> QED BY <1>3, <1>4

\* The greatest of the first positions of a sequence.
LEMMA LastPosition ==
  ASSUME NEW n \in Nat, NEW S \in SUBSET (1 .. n), S # {}
  PROVE  /\ Max(S) \in S
         /\ n \in S => Max(S) = n
  <1> DEFINE Has == {k \in Nat : \A T \in SUBSET (1 .. k) : T # {} => \E m \in T : \A j \in T : j <= m}
  <1>1. 0 \in Has
    <2>1. 1 .. 0 = {}
      OBVIOUS
    <2> QED BY <2>1
  <1>2. ASSUME NEW k \in Nat, k \in Has PROVE k + 1 \in Has
    <2> SUFFICES ASSUME NEW T \in SUBSET (1 .. k + 1), T # {} PROVE \E m \in T : \A j \in T : j <= m
      OBVIOUS
    <2>1. CASE k + 1 \in T
      BY <2>1
    <2>2. CASE k + 1 \notin T
      <3>1. T \in SUBSET (1 .. k)
        BY <2>2
      <3> QED BY <3>1, <1>2
    <2> QED BY <2>1, <2>2
  <1>3. Nat \subseteq Has
    <2> HIDE DEF Has
    <2> QED BY <1>1, <1>2, NatInductive
  <1>4. \E m \in S : \A j \in S : j <= m
    BY <1>3
  <1>5. Max(S) \in S /\ \A j \in S : j <= Max(S)
    BY <1>4 DEF Max
  <1>6. ASSUME n \in S PROVE Max(S) = n
    <2>1. Max(S) \in 1 .. n /\ n <= Max(S)
      BY <1>5, <1>6
    <2> QED BY <2>1
  <1> QED BY <1>5, <1>6

\* g folds the elements at each subset of the first n positions of s, from the first to the last.
IsFold(g, A, f, base, s, n) ==
  /\ g \in [SUBSET (1 .. n) -> A]
  /\ \A S \in SUBSET (1 .. n) : g[S] = IF S = {} THEN base ELSE f[g[S \ {Max(S)}], s[Max(S)]]

\* There is a function that folds every subset of the first n positions of s.
LEMMA FoldExists ==
  ASSUME NEW A, NEW E, NEW f \in [A \X E -> A], NEW base \in A, NEW s \in Seq(E), NEW n \in Nat, n <= Len(s)
  PROVE  \E g : IsFold(g, A, f, base, s, n)
  <1> DEFINE Folds(g, k) ==
               \A S \in SUBSET (1 .. k) : g[S] = IF S = {} THEN base ELSE f[g[S \ {Max(S)}], s[Max(S)]]
             Folded(k) == \E g \in [SUBSET (1 .. k) -> A] : Folds(g, k)
             Has == {k \in Nat : k <= Len(s) => Folded(k)}
  <1>1. 0 \in Has
    <2> DEFINE g0 == [S \in SUBSET (1 .. 0) |-> base]
    <2>1. g0 \in [SUBSET (1 .. 0) -> A]
      OBVIOUS
    <2>2. Folds(g0, 0)
      <3>1. 1 .. 0 = {}
        OBVIOUS
      <3>2. \A S \in SUBSET (1 .. 0) : S = {}
        BY <3>1
      <3> QED BY <3>2
    <2> QED BY <2>1, <2>2
  <1>2. ASSUME NEW k \in Nat, k \in Has PROVE k + 1 \in Has
    <2> HIDE DEF Folds, Folded
    <2> SUFFICES ASSUME k + 1 <= Len(s) PROVE Folded(k + 1)
      OBVIOUS
    <2>0. k <= Len(s) /\ Folded(k)
      BY <1>2
    <2>1. PICK g \in [SUBSET (1 .. k) -> A] : Folds(g, k)
      BY <2>0 DEF Folded
    <2> USE DEF Folds
    <2> DEFINE D == SUBSET (1 .. k + 1)
               h == [S \in D |-> IF k + 1 \in S THEN f[g[S \ {k + 1}], s[k + 1]] ELSE g[S]]
    <2>2. \A S \in D : k + 1 \notin S => S \in SUBSET (1 .. k)
      OBVIOUS
    <2>3. \A S \in D : S \ {k + 1} \in SUBSET (1 .. k)
      OBVIOUS
    <2>4. s[k + 1] \in E
      OBVIOUS
    <2>5. h \in [D -> A]
      BY <2>2, <2>3, <2>4
    <2>6. ASSUME NEW S \in D PROVE h[S] = IF S = {} THEN base ELSE f[h[S \ {Max(S)}], s[Max(S)]]
      <3>1. CASE S = {}
        BY <2>1, <3>1
      <3>2. CASE k + 1 \in S
        <4>1. Max(S) = k + 1
          BY <3>2, LastPosition
        <4>2. h[S \ {k + 1}] = g[S \ {k + 1}]
          BY <2>3
        <4> QED BY <3>2, <4>1, <4>2
      <3>3. CASE S # {} /\ k + 1 \notin S
        <4>1. S \in SUBSET (1 .. k)
          BY <2>2, <3>3
        <4>2. Max(S) \in S
          BY <3>3, <4>1, LastPosition
        <4>3. S \ {Max(S)} \in SUBSET (1 .. k) /\ k + 1 \notin S \ {Max(S)} /\ S \ {Max(S)} \in D
          BY <3>3, <4>1
        <4>4. h[S] = g[S] /\ h[S \ {Max(S)}] = g[S \ {Max(S)}]
          BY <3>3, <4>3
        <4>5. g[S] = f[g[S \ {Max(S)}], s[Max(S)]]
          BY <2>1, <3>3, <4>1
        <4> QED BY <3>3, <4>4, <4>5
      <3> QED BY <3>1, <3>2, <3>3
    <2>7. Folds(h, k + 1)
      <3> HIDE DEF h
      <3> QED BY <2>6
    <2> HIDE DEF Folds, h
    <2> QED BY <2>5, <2>7 DEF Folded
  <1>3. Nat \subseteq Has
    <2> HIDE DEF Has
    <2> QED BY <1>1, <1>2, NatInductive
  <1> QED BY <1>3 DEF IsFold

\* Places that are all different.
LEMMA PlacesFit ==
  ASSUME NEW m \in Nat, NEW n \in Nat, NEW e \in [1 .. m -> 1 .. n],
         \A i, j \in 1 .. m : i # j => e[i] # e[j]
  PROVE  m <= n
  <1>1. IsFiniteSet(1 .. m) /\ IsFiniteSet(1 .. n)
    BY FS_Interval
  <1>2. Cardinality(1 .. m) = m
    BY FS_Interval
  <1>3. Cardinality(1 .. n) = n
    BY FS_Interval
  <1>4. e \in Injection(1 .. m, 1 .. n)
    BY DEF Injection, IsInjective
  <1>5. Cardinality(1 .. m) <= Cardinality(1 .. n)
    BY <1>1, <1>4, FS_Injection
  <1> QED BY <1>2, <1>3, <1>5
-----------------------------------------------------------------------------
(* Sums over finite sets. *)

\* Induction over the subsets of a finite set.
LEMMA FiniteInductive ==
  ASSUME NEW D, IsFiniteSet(D), NEW C, {} \in C,
         \A S \in SUBSET D : \A x \in D \ S : S \in C => S \cup {x} \in C
  PROVE  SUBSET D \subseteq C
  <1> DEFINE Has == {n \in Nat : \A S \in SUBSET D : Cardinality(S) = n => S \in C}
  <1>0. \A S \in SUBSET D : IsFiniteSet(S)
    BY FS_Subset
  <1>1. 0 \in Has
    BY <1>0, FS_EmptySet
  <1>2. ASSUME NEW n \in Nat, n \in Has PROVE n + 1 \in Has
    <2> SUFFICES ASSUME NEW S \in SUBSET D, Cardinality(S) = n + 1 PROVE S \in C
      OBVIOUS
    <2>1. IsFiniteSet(S) /\ S # {}
      BY <1>0, FS_EmptySet
    <2>2. PICK x \in S : TRUE
      BY <2>1
    <2>3. Cardinality(S \ {x}) = n
      <3>1. Cardinality(S \ {x}) = Cardinality(S) - 1
        BY <2>1, FS_RemoveElement
      <3> QED BY <3>1
    <2>4. S \ {x} \in C /\ x \in D \ (S \ {x}) /\ S = (S \ {x}) \cup {x}
      BY <1>2, <2>3
    <2> QED BY <2>4
  <1>3. Nat \subseteq Has
    <2> HIDE DEF Has
    <2> QED BY <1>1, <1>2, NatInductive
  <1>4. ASSUME NEW S \in SUBSET D PROVE S \in C
    <2>1. Cardinality(S) \in Nat
      BY <1>0, FS_CardinalityType
    <2> QED BY <1>3, <2>1
  <1> QED BY <1>4

\* g sums f over each subset of D: any element may be taken out first.
IsSum(g, f, D) ==
  /\ g \in [SUBSET D -> Int] /\ g[{}] = 0
  /\ \A S \in SUBSET D : \A i \in S : g[S] = f[i] + g[S \ {i}]

LEMMA SumExists ==
  ASSUME NEW D, IsFiniteSet(D), NEW f \in [D -> Int]
  PROVE  \E g : IsSum(g, f, D)
  <1> DEFINE C == {S \in SUBSET D : \E g : IsSum(g, f, S)}
  <1>1. {} \in C
    <2>1. IsSum([S \in SUBSET {} |-> 0], f, {})
      BY DEF IsSum
    <2> QED BY <2>1
  <1>2. ASSUME NEW S \in SUBSET D, NEW x \in D \ S, S \in C PROVE S \cup {x} \in C
    <2> DEFINE E == S \cup {x}
    <2>1. PICK g : IsSum(g, f, S)
      BY <1>2
    <2> DEFINE h == [T \in SUBSET E |-> IF x \in T THEN f[x] + g[T \ {x}] ELSE g[T]]
    <2>2. \A T \in SUBSET E : T \ {x} \in SUBSET S /\ (x \notin T => T \in SUBSET S)
      OBVIOUS
    <2>3. \A i \in E : f[i] \in Int
      OBVIOUS
    <2>4. h \in [SUBSET E -> Int] /\ h[{}] = 0
      BY <2>1, <2>2, <2>3 DEF IsSum
    <2>5. ASSUME NEW T \in SUBSET E, NEW i \in T PROVE h[T] = f[i] + h[T \ {i}]
      <3>1. CASE x \notin T
        <4>1. T \in SUBSET S /\ T \ {i} \in SUBSET E /\ x \notin T \ {i}
          BY <2>2, <3>1
        <4>2. h[T] = g[T] /\ h[T \ {i}] = g[T \ {i}]
          BY <3>1, <4>1
        <4> QED BY <2>1, <4>1, <4>2 DEF IsSum
      <3>2. CASE x \in T /\ i = x
        <4>1. h[T] = f[x] + g[T \ {x}] /\ h[T \ {x}] = g[T \ {x}]
          BY <3>2
        <4> QED BY <3>2, <4>1
      <3>3. CASE x \in T /\ i # x
        <4>1. T \ {i} \in SUBSET E /\ x \in T \ {i} /\ T \ {x} \in SUBSET S /\ i \in T \ {x}
          BY <2>2, <3>3
        <4>2. h[T] = f[x] + g[T \ {x}] /\ h[T \ {i}] = f[x] + g[(T \ {i}) \ {x}]
          BY <3>3, <4>1
        <4>3. g[T \ {x}] = f[i] + g[(T \ {x}) \ {i}]
          BY <2>1, <4>1 DEF IsSum
        <4>4. (T \ {x}) \ {i} = (T \ {i}) \ {x} /\ (T \ {x}) \ {i} \in SUBSET S
          BY <4>1
        <4>5. f[x] \in Int /\ f[i] \in Int /\ g[(T \ {x}) \ {i}] \in Int
          BY <2>1, <2>3, <4>4 DEF IsSum
        <4> DEFINE a == g[(T \ {x}) \ {i}]
        <4>6. h[T] = f[x] + (f[i] + a) /\ h[T \ {i}] = f[x] + a
          BY <4>2, <4>3, <4>4
        <4> HIDE DEF a, h
        <4>7. a \in Int
          BY <4>5 DEF a
        <4> QED BY <4>5, <4>6, <4>7
      <3> QED BY <3>1, <3>2, <3>3
    <2>6. IsSum(h, f, E)
      <3> HIDE DEF h
      <3> QED BY <2>4, <2>5 DEF IsSum
    <2> QED BY <2>6
  <1>3. SUBSET D \subseteq C
    <2> HIDE DEF C
    <2> QED BY <1>1, <1>2, FiniteInductive
  <1> QED BY <1>3

\* The sum of the community modules, which takes the elements out in an order of its own.
LEMMA SumIs ==
  ASSUME NEW D, IsFiniteSet(D), NEW f, NEW g, IsSum(g, f, D), NEW U \in SUBSET D
  PROVE  SumFunctionOnSet(f, U) = g[U]
  <1> DEFINE x(S) == CHOOSE x \in S : TRUE
             Folds(k) == k = [S \in SUBSET U |-> IF S = {} THEN 0 ELSE f[x(S)] + k[S \ {x(S)}]]
             h == CHOOSE k : Folds(k)
  <1>1. SumFunctionOnSet(f, U) = h[U]
    BY DEF SumFunctionOnSet, FoldFunctionOnSet, MapThenFoldSet
  <1>2. \A S \in SUBSET U : S # {} => x(S) \in S /\ S \ {x(S)} \in SUBSET U
    OBVIOUS
  <1>3. Folds([S \in SUBSET U |-> g[S]])
    <2>1. \A S \in SUBSET U : S \in SUBSET D
      OBVIOUS
    <2>2. ASSUME NEW S \in SUBSET U PROVE g[S] = IF S = {} THEN 0 ELSE f[x(S)] + g[S \ {x(S)}]
      <3> HIDE DEF x
      <3> QED BY <1>2, <2>1 DEF IsSum
    <2> HIDE DEF x
    <2> QED BY <1>2, <2>2
  <1>4. Folds(h)
    <2> HIDE DEF Folds
    <2> QED BY <1>3
  <1> DEFINE Has == {n \in Nat : \A S \in SUBSET U : Cardinality(S) = n => h[S] = g[S]}
  <1> HIDE DEF h, x
  <1>0. \A S \in SUBSET U : IsFiniteSet(S)
    BY FS_Subset
  <1>5. 0 \in Has
    <2> SUFFICES ASSUME NEW S \in SUBSET U, Cardinality(S) = 0 PROVE h[S] = g[S]
      OBVIOUS
    <2>1. S = {}
      BY <1>0, FS_EmptySet
    <2> QED BY <1>4, <2>1 DEF IsSum
  <1>6. ASSUME NEW n \in Nat, n \in Has PROVE n + 1 \in Has
    <2> SUFFICES ASSUME NEW S \in SUBSET U, Cardinality(S) = n + 1 PROVE h[S] = g[S]
      OBVIOUS
    <2>1. S # {}
      BY FS_EmptySet
    <2>2. x(S) \in S /\ S \ {x(S)} \in SUBSET U
      BY <1>2, <2>1
    <2>3. Cardinality(S \ {x(S)}) = n
      <3> DEFINE y == x(S)
      <3> HIDE DEF y
      <3>1. IsFiniteSet(S) /\ y \in S
        BY <1>0, <2>2 DEF y
      <3>2. Cardinality(S \ {y}) = Cardinality(S) - 1
        BY <3>1, FS_RemoveElement
      <3>3. Cardinality(S \ {y}) = n
        BY <3>2
      <3> QED BY <3>3 DEF y
    <2>4. h[S] = f[x(S)] + h[S \ {x(S)}]
      BY <1>4, <2>1
    <2>5. g[S] = f[x(S)] + g[S \ {x(S)}]
      BY <2>2 DEF IsSum
    <2> QED BY <1>6, <2>2, <2>3, <2>4, <2>5
  <1>7. Nat \subseteq Has
    <2> HIDE DEF Has
    <2> QED BY <1>5, <1>6, NatInductive
  <1>8. h[U] = g[U]
    <2>1. Cardinality(U) \in Nat
      BY <1>0, FS_CardinalityType
    <2> QED BY <1>7, <2>1
  <1> QED BY <1>1, <1>8

LEMMA SumOfNone ==
  ASSUME NEW f
  PROVE  SumFunctionOnSet(f, {}) = 0
  <1>1. PICK g : IsSum(g, f, {})
    <2>1. IsSum([S \in SUBSET {} |-> 0], f, {})
      BY DEF IsSum
    <2> QED BY <2>1
  <1> DEFINE none == {}
  <1>2. IsFiniteSet(none) /\ none \in SUBSET none
    BY FS_EmptySet
  <1>3. IsSum(g, f, none)
    BY <1>1
  <1> HIDE DEF none
  <1>4. SumFunctionOnSet(f, none) = g[none]
    BY <1>2, <1>3, SumIs
  <1>5. SumFunctionOnSet(f, {}) = g[{}]
    BY <1>4 DEF none
  <1> QED BY <1>1, <1>5 DEF IsSum

Summable(f, S) == IsFiniteSet(S) /\ \A i \in S : f[i] \in Int

\* Any element may be taken out of a sum.
LEMMA SumTakes ==
  ASSUME NEW f, NEW S, Summable(f, S), NEW i \in S
  PROVE  /\ Summable(f, S \ {i})
         /\ SumFunctionOnSet(f, S) = f[i] + SumFunctionOnSet(f, S \ {i})
  <1> DEFINE e == [x \in S |-> f[x]]
  <1>1. e \in [S -> Int]
    BY DEF Summable
  <1> HIDE DEF e
  <1>2. PICK g : IsSum(g, e, S)
    BY <1>1, SumExists DEF Summable
  <1>3. IsSum(g, f, S)
    BY <1>2 DEF IsSum, e
  <1>4. \A T \in SUBSET S : SumFunctionOnSet(f, T) = g[T]
    BY <1>3, SumIs DEF Summable
  <1>5. SumFunctionOnSet(f, S) = g[S] /\ SumFunctionOnSet(f, S \ {i}) = g[S \ {i}]
    BY <1>4
  <1>6. Summable(f, S \ {i})
    BY FS_Subset DEF Summable
  <1> QED BY <1>3, <1>5, <1>6 DEF IsSum

LEMMA SumIsInt ==
  ASSUME NEW f, NEW S, Summable(f, S)
  PROVE  SumFunctionOnSet(f, S) \in Int
  <1> DEFINE e == [x \in S |-> f[x]]
  <1>1. e \in [S -> Int]
    BY DEF Summable
  <1> HIDE DEF e
  <1>2. PICK g : IsSum(g, e, S)
    BY <1>1, SumExists DEF Summable
  <1>3. IsSum(g, f, S)
    BY <1>2 DEF IsSum, e
  <1>4. SumFunctionOnSet(f, S) = g[S]
    BY <1>3, SumIs DEF Summable
  <1> QED BY <1>3, <1>4 DEF IsSum

\* f2 has at T what f has at S, under other names.
Renames(m, f, S, f2, T) ==
  /\ T = {m[i] : i \in S}
  /\ \A i, j \in S : i # j => m[i] # m[j]
  /\ \A i \in S : f2[m[i]] = f[i]

LEMMA SumMoves ==
  ASSUME NEW f, NEW S, Summable(f, S), NEW f2, NEW T, NEW m, Renames(m, f, S, f2, T)
  PROVE  Summable(f2, T) /\ SumFunctionOnSet(f2, T) = SumFunctionOnSet(f, S)
  <1> DEFINE Image(A) == {m[i] : i \in A}
             C == {A \in SUBSET S : /\ Summable(f2, Image(A))
                                    /\ SumFunctionOnSet(f2, Image(A)) = SumFunctionOnSet(f, A)}
  <1>0. IsFiniteSet(S)
    BY DEF Summable
  <1>1. {} \in C
    <2>1. Image({}) = {}
      OBVIOUS
    <2>2. Summable(f2, {})
      BY FS_EmptySet DEF Summable
    <2> QED BY <2>1, <2>2, SumOfNone
  <1>2. ASSUME NEW A \in SUBSET S, NEW x \in S \ A, A \in C PROVE A \cup {x} \in C
    <2> DEFINE U == A \cup {x}
               V == Image(U)
    <2>1. x \in U /\ m[x] \in V /\ U \in SUBSET S /\ V = Image(A) \cup {m[x]}
      OBVIOUS
    <2>2. U \ {x} = A /\ V \ {m[x]} = Image(A)
      BY DEF Renames
    <2>3. f2[m[x]] = f[x] /\ f[x] \in Int
      BY DEF Renames, Summable
    <2>4. Summable(f, U)
      <3> HIDE DEF U
      <3>1. IsFiniteSet(U)
        BY <1>0, <2>1, FS_Subset
      <3> QED BY <2>1, <3>1 DEF Summable
    <2>5. Summable(f2, V)
      <3>1. Summable(f2, Image(A))
        BY <1>2
      <3> HIDE DEF V, Image
      <3>2. IsFiniteSet(V)
        BY <2>1, <3>1, FS_AddElement DEF Summable
      <3> QED BY <2>1, <2>3, <3>1, <3>2 DEF Summable
    <2> HIDE DEF U, V, Image
    <2>6. SumFunctionOnSet(f, U) = f[x] + SumFunctionOnSet(f, A)
      BY <2>1, <2>2, <2>4, SumTakes
    <2>7. SumFunctionOnSet(f2, V) = f2[m[x]] + SumFunctionOnSet(f2, Image(A))
      BY <2>1, <2>2, <2>5, SumTakes
    <2>8. SumFunctionOnSet(f2, V) = SumFunctionOnSet(f, U)
      BY <1>2, <2>3, <2>6, <2>7
    <2> QED BY <2>1, <2>5, <2>8 DEF U, V
  <1>3. SUBSET S \subseteq C
    <2> HIDE DEF C
    <2> QED BY <1>0, <1>1, <1>2, FiniteInductive
  <1>4. S \in C /\ T = Image(S)
    BY <1>3 DEF Renames
  <1> QED BY <1>4

\* Two functions that agree on a set have the same sum over it.
LEMMA SumAgrees ==
  ASSUME NEW f, NEW S, Summable(f, S), NEW f2, \A i \in S : f2[i] = f[i]
  PROVE  SumFunctionOnSet(f2, S) = SumFunctionOnSet(f, S)
  <1> DEFINE m == [i \in S |-> i]
  <1>1. Renames(m, f, S, f2, S)
    BY DEF Renames
  <1> HIDE DEF m
  <1> QED BY <1>1, SumMoves

\* A sum of naturals is one.
LEMMA SumIsNat ==
  ASSUME NEW f, NEW S, Summable(f, S), \A i \in S : f[i] \in Nat
  PROVE  SumFunctionOnSet(f, S) \in Nat
  <1> DEFINE C == {T \in SUBSET S : SumFunctionOnSet(f, T) \in Nat}
  <1>1. {} \in C
    BY SumOfNone
  <1>2. ASSUME NEW T \in SUBSET S, NEW x \in S \ T, T \in C PROVE T \cup {x} \in C
    <2> DEFINE U == T \cup {x}
    <2>1. U \in SUBSET S /\ x \in U /\ U \ {x} = T
      OBVIOUS
    <2> HIDE DEF U
    <2>2. Summable(f, U)
      BY <2>1, FS_Subset DEF Summable
    <2>3. SumFunctionOnSet(f, U) = f[x] + SumFunctionOnSet(f, T)
      BY <2>1, <2>2, SumTakes
    <2>4. f[x] \in Nat /\ SumFunctionOnSet(f, T) \in Nat
      BY <1>2
    <2>5. SumFunctionOnSet(f, U) \in Nat
      BY <2>3, <2>4
    <2> QED BY <2>1, <2>5 DEF U
  <1>3. SUBSET S \subseteq C
    <2> HIDE DEF C
    <2> QED BY <1>1, <1>2, FiniteInductive DEF Summable
  <1> QED BY <1>3

\* A set that every step of a fold stays in.
LEMMA FoldStays ==
  ASSUME NEW A, NEW n \in Nat, NEW h, h[{}] \in A,
         \A S \in SUBSET (1 .. n) : S # {} /\ h[S \ {Max(S)}] \in A => h[S] \in A
  PROVE  h[1 .. n] \in A
  <1> DEFINE Has == {k \in Nat : k <= n => h[1 .. k] \in A}
  <1>1. 0 \in Has
    <2>1. 1 .. 0 = {}
      OBVIOUS
    <2> QED BY <2>1
  <1>2. ASSUME NEW k \in Nat, k \in Has PROVE k + 1 \in Has
    <2> SUFFICES ASSUME k + 1 <= n PROVE h[1 .. k + 1] \in A
      OBVIOUS
    <2>1. h[1 .. k] \in A
      BY <1>2
    <2> DEFINE S == 1 .. k + 1
    <2>2. S \in SUBSET (1 .. n) /\ S # {} /\ S \in SUBSET (1 .. k + 1) /\ k + 1 \in S /\ k + 1 \in Nat
      OBVIOUS
    <2>3. S \ {k + 1} = 1 .. k
      OBVIOUS
    <2> HIDE DEF S
    <2>4. Max(S) = k + 1
      BY <2>2, LastPosition
    <2>5. h[S] \in A
      BY <2>1, <2>2, <2>3, <2>4
    <2> QED BY <2>5 DEF S
  <1>3. Nat \subseteq Has
    <2> HIDE DEF Has
    <2> QED BY <1>1, <1>2, NatInductive
  <1> QED BY <1>3

\* The greatest element of a finite set of integers.
LEMMA MaxIsGreatest ==
  ASSUME NEW S \in SUBSET Int, IsFiniteSet(S), S # {}
  PROVE  /\ Max(S) \in S
         /\ \A x \in S : x <= Max(S)
  <1> DEFINE C == {T \in SUBSET S : T = {} \/ \E m \in T : \A x \in T : x <= m}
  <1>1. {} \in C
    OBVIOUS
  <1>2. ASSUME NEW T \in SUBSET S, NEW y \in S \ T, T \in C PROVE T \cup {y} \in C
    <2>1. CASE T = {}
      <3>1. \A x \in T \cup {y} : x <= y
        BY <2>1
      <3> QED BY <3>1
    <2>2. CASE T # {}
      <3>1. PICK m \in T : \A x \in T : x <= m
        BY <1>2, <2>2
      <3>2. CASE m <= y
        <4>1. \A x \in T \cup {y} : x <= y
          BY <3>1, <3>2
        <4> QED BY <4>1
      <3>3. CASE ~(m <= y)
        <4>1. \A x \in T \cup {y} : x <= m
          BY <3>1, <3>3
        <4> QED BY <4>1
      <3> QED BY <3>2, <3>3
    <2> QED BY <2>1, <2>2
  <1>3. S \in C
    <2> HIDE DEF C
    <2>1. SUBSET S \subseteq C
      BY <1>1, <1>2, FiniteInductive
    <2> QED BY <2>1
  <1>4. \E m \in S : \A x \in S : m >= x
    BY <1>3
  <1>5. Max(S) \in S /\ \A x \in S : Max(S) >= x
    BY <1>4 DEF Max
  <1> QED BY <1>5

\* Finitely many places have finitely many values.
LEMMA FewValues ==
  ASSUME NEW S, IsFiniteSet(S), NEW f
  PROVE  IsFiniteSet({f[i] : i \in S})
  <1> DEFINE T == {f[i] : i \in S}
             m == [i \in S |-> f[i]]
  <1>1. m \in Surjection(S, T)
    BY DEF Surjection
  <1> HIDE DEF m
  <1> QED BY <1>1, FS_Surjection
===============================================================================
