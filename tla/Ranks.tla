--------------------------------- MODULE Ranks ---------------------------------
(***************************************************************************)
(* Lemmas about numbered things that the proofs share: the first and the   *)
(* last of some numbers, and the rank of each thing among finitely many,   *)
(* that is how many of them come before it.                                *)
(***************************************************************************)
EXTENDS Naturals, FiniteSets, FiniteSetsExt, FiniteSetTheorems, FunctionTheorems,
        WellFoundedInduction, TLAPS

-----------------------------------------------------------------------------
(* The first and the last of some numbers. *)

LEMMA FirstLine ==
  ASSUME NEW S, S \subseteq Nat, S # {}
  PROVE  /\ Min(S) \in S
         /\ \A y \in S : Min(S) <= y
<1> DEFINE Before == {ss \in Nat \X Nat : ss[1] < ss[2]}
<1>1. IsWellFoundedOn(Before, Nat)
  BY NatLessThanWellFounded, Zenon DEF OpToRel
<1>2. PICK x \in S : \A y \in S : <<y, x>> \notin Before
  BY <1>1, WFMin, Zenon
<1>3. ASSUME NEW y \in S PROVE x <= y
  <2>1. <<y, x>> \in Nat \X Nat /\ <<y, x>>[1] = y /\ <<y, x>>[2] = x
    OBVIOUS
  <2>2. ~ (y < x)
    BY <1>2, <2>1, Zenon
  <2> QED
    BY <2>1, <2>2
<1> QED
  BY <1>3, Zenon DEF Min

(* What holds of a number if it holds of all smaller ones holds of all. *)
LEMMA Induction ==
  ASSUME NEW Good,
         \A m \in Nat : (\A k \in Nat : k < m => k \in Good) => m \in Good
  PROVE  Nat \subseteq Good
<1> SUFFICES ASSUME Nat \ Good # {} PROVE FALSE
  OBVIOUS
<1>1. Nat \ Good \subseteq Nat
  OBVIOUS
<1>2. PICK m \in Nat \ Good : \A k \in Nat \ Good : m <= k
  BY <1>1, FirstLine, Zenon
<1>3. \A k \in Nat : k < m => k \in Good
  BY <1>2
<1> QED
  BY <1>2, <1>3

LEMMA LastLine ==
  ASSUME NEW n \in Nat, NEW S, S \subseteq 1 .. n, S # {}
  PROVE  /\ Max(S) \in S
         /\ \A y \in S : Max(S) >= y
<1> DEFINE T == {n - x : x \in S}
<1>1. T \subseteq Nat /\ T # {}
  <2>1. \A x \in S : x \in Int /\ x <= n
    OBVIOUS
  <2>2. \A x \in S : n - x \in Nat
    BY <2>1
  <2> QED
    BY <2>2
<1>2. Min(T) \in T /\ \A y \in T : Min(T) <= y
  BY <1>1, FirstLine
<1>3. PICK x \in S : Min(T) = n - x
  BY <1>2
<1>4. \A y \in S : n - x <= n - y
  BY <1>2, <1>3
<1>5. \A y \in S : x >= y
  BY <1>4
<1> QED
  BY <1>5, Zenon DEF Max

-----------------------------------------------------------------------------
(* Ranks. *)

(* How many of S come before x. *)
RankBy(S, before, x) == Cardinality({y \in S : <<y, x>> \in before})

(* In an order the ranks are 0, 1, 2, ... *)
LEMMA RanksOfOrder ==
  ASSUME NEW S, IsFiniteSet(S), NEW before,
         \A x \in S : <<x, x>> \notin before,
         \A x, y \in S : x # y => <<x, y>> \in before \/ <<y, x>> \in before,
         \A x, y, z \in S : <<x, y>> \in before /\ <<y, z>> \in before => <<x, z>> \in before
  PROVE  /\ Cardinality(S) \in Nat
         /\ \A x \in S : RankBy(S, before, x) \in 0 .. Cardinality(S) - 1
         /\ \A x, y \in S : <<x, y>> \in before <=> RankBy(S, before, x) < RankBy(S, before, y)
         /\ \A x, y \in S : RankBy(S, before, x) = RankBy(S, before, y) => x = y
         /\ \A k \in 1 .. Cardinality(S) : \E x \in S : RankBy(S, before, x) = k - 1
<1> DEFINE N == Cardinality(S)
           B(x) == {y \in S : <<y, x>> \in before}
           R(x) == RankBy(S, before, x)
<1>1. N \in Nat /\ \A x \in S : IsFiniteSet(B(x)) /\ Cardinality(B(x)) \in Nat
  BY FS_CardinalityType, FS_Subset
<1>2. ASSUME NEW x \in S PROVE R(x) \in 0 .. N - 1
  <2>1. IsFiniteSet(S \ {x}) /\ Cardinality(S \ {x}) = N - 1
    BY FS_RemoveElement
  <2>2. B(x) \subseteq S \ {x}
    OBVIOUS
  <2>3. Cardinality(B(x)) <= N - 1
    <3> HIDE DEF B, N
    <3> QED
      BY <2>1, <2>2, FS_Subset
  <2> QED
    BY <1>1, <2>3 DEF RankBy
<1>3. ASSUME NEW x \in S, NEW y \in S, <<x, y>> \in before
      PROVE  R(x) < R(y)
  <2>1. B(x) \cup {x} \subseteq B(y)
    BY <1>3
  <2>2. Cardinality(B(x) \cup {x}) = Cardinality(B(x)) + 1
    <3>1. x \notin B(x)
      OBVIOUS
    <3> QED
      BY <1>1, <3>1, FS_AddElement
  <2>3. Cardinality(B(x) \cup {x}) <= Cardinality(B(y))
    BY <1>1, <2>1, FS_Subset
  <2> QED
    <3>1. R(x) = Cardinality(B(x)) /\ R(y) = Cardinality(B(y))
      BY DEF RankBy
    <3> HIDE DEF R, B
    <3> QED
      BY <1>1, <2>2, <2>3, <3>1
<1> HIDE DEF R
<1>4. \A x, y \in S : R(x) = R(y) => x = y
  <2> SUFFICES ASSUME NEW x \in S, NEW y \in S, x # y PROVE R(x) # R(y)
    OBVIOUS
  <2>1. R(x) < R(y) \/ R(y) < R(x)
    BY <1>3
  <2> QED
    BY <1>1, <1>2, <2>1
<1>5. \A x, y \in S : <<x, y>> \in before <=> R(x) < R(y)
  <2> SUFFICES ASSUME NEW x \in S, NEW y \in S, R(x) < R(y) PROVE <<x, y>> \in before
    BY <1>3
  <2>1. x # y /\ <<y, x>> \notin before
    BY <1>1, <1>2, <1>3
  <2> QED
    BY <2>1
<1> DEFINE rank == [x \in S |-> R(x)]
<1>6. rank \in Surjection(S, 0 .. N - 1)
  <2>1. rank \in Injection(S, 0 .. N - 1)
    <3>1. rank \in [S -> 0 .. N - 1]
      BY <1>2
    <3>2. \A x, y \in S : rank[x] = rank[y] => x = y
      BY <1>4
    <3> QED
      BY <3>1, <3>2 DEF Injection, IsInjective
  <2>2. IsFiniteSet(0 .. N - 1) /\ Cardinality(0 .. N - 1) = N
    <3> HIDE DEF N
    <3> QED
      BY <1>1, FS_Interval
  <2> QED
    BY <2>1, <2>2, FS_Injection
<1>7. \A k \in 1 .. N : \E x \in S : R(x) = k - 1
  <2>1. \A n \in 0 .. N - 1 : \E x \in S : rank[x] = n
    BY <1>6 DEF Surjection
  <2>2. \A k \in 1 .. N : k - 1 \in 0 .. N - 1
    BY <1>1
  <2> QED
    BY <2>1, <2>2
<1> QED
  BY <1>1, <1>2, <1>4, <1>5, <1>7 DEF R

(* How many of S have a smaller number than x, f being the numbering. *)
Rank(S, f, x) == Cardinality({y \in S : f[y] < f[x]})

(* Different numbers make the ranks 0, 1, 2, ... in the same order. *)
LEMMA RanksAreInterval ==
  ASSUME NEW S, IsFiniteSet(S), NEW f \in Injection(S, Nat)
  PROVE  /\ Cardinality(S) \in Nat
         /\ \A x \in S : Rank(S, f, x) \in 0 .. Cardinality(S) - 1
         /\ \A x, y \in S : f[x] < f[y] <=> Rank(S, f, x) < Rank(S, f, y)
         /\ \A x, y \in S : Rank(S, f, x) = Rank(S, f, y) => x = y
         /\ \A k \in 1 .. Cardinality(S) : \E x \in S : Rank(S, f, x) = k - 1
<1> DEFINE before == {xy \in S \X S : f[xy[1]] < f[xy[2]]}
<1>1. /\ \A x \in S : f[x] \in Nat
      /\ \A x, y \in S : f[x] = f[y] => x = y
  BY DEF Injection, IsInjective
<1>2. \A x, y \in S : <<x, y>> \in before <=> f[x] < f[y]
  OBVIOUS
<1>3. \A x \in S : Rank(S, f, x) = RankBy(S, before, x)
  <2> SUFFICES ASSUME NEW x \in S PROVE Rank(S, f, x) = RankBy(S, before, x)
    OBVIOUS
  <2>1. {y \in S : f[y] < f[x]} = {y \in S : <<y, x>> \in before}
    BY <1>2
  <2> QED
    BY <2>1 DEF Rank, RankBy
<1> HIDE DEF before
<1>4. /\ \A x \in S : <<x, x>> \notin before
      /\ \A x, y \in S : x # y => <<x, y>> \in before \/ <<y, x>> \in before
      /\ \A x, y, z \in S : <<x, y>> \in before /\ <<y, z>> \in before => <<x, z>> \in before
  BY <1>1, <1>2
<1>5. /\ Cardinality(S) \in Nat
      /\ \A x \in S : RankBy(S, before, x) \in 0 .. Cardinality(S) - 1
      /\ \A x, y \in S : <<x, y>> \in before <=> RankBy(S, before, x) < RankBy(S, before, y)
      /\ \A x, y \in S : RankBy(S, before, x) = RankBy(S, before, y) => x = y
      /\ \A k \in 1 .. Cardinality(S) : \E x \in S : RankBy(S, before, x) = k - 1
  BY <1>4, RanksOfOrder
<1> QED
  BY <1>2, <1>3, <1>5

(* The things with at least b before them are all but b of them. *)
LEMMA RanksAbove ==
  ASSUME NEW S, IsFiniteSet(S), NEW f \in Injection(S, Nat), NEW b \in Nat
  PROVE  LET T == {x \in S : Rank(S, f, x) >= b}
         IN  /\ IsFiniteSet(T)
             /\ Cardinality(T) = IF Cardinality(S) > b THEN Cardinality(S) - b ELSE 0
<1> DEFINE N == Cardinality(S)
           T == {x \in S : Rank(S, f, x) >= b}
           R == [x \in T |-> Rank(S, f, x)]
<1>1. /\ N \in Nat
      /\ \A x \in S : Rank(S, f, x) \in 0 .. N - 1
      /\ \A x, y \in S : Rank(S, f, x) = Rank(S, f, y) => x = y
      /\ \A k \in 1 .. N : \E x \in S : Rank(S, f, x) = k - 1
  BY RanksAreInterval
<1>2. IsFiniteSet(T)
  BY FS_Subset
<1>3. R \in Bijection(T, b .. N - 1)
  <2>1. R \in [T -> b .. N - 1]
    BY <1>1
  <2>2. \A x, y \in T : R[x] = R[y] => x = y
    BY <1>1
  <2>3. \A n \in b .. N - 1 : \E x \in T : R[x] = n
    <3> SUFFICES ASSUME NEW n \in b .. N - 1 PROVE \E x \in T : R[x] = n
      OBVIOUS
    <3>1. PICK x \in S : Rank(S, f, x) = (n + 1) - 1
      BY <1>1
    <3> QED
      BY <3>1
  <2>4. R \in Injection(T, b .. N - 1)
    BY <2>1, <2>2 DEF Injection, IsInjective
  <2>5. R \in Surjection(T, b .. N - 1)
    BY <2>1, <2>3 DEF Surjection
  <2> QED
    BY <2>4, <2>5 DEF Bijection
<1>4. Cardinality(b .. N - 1) = Cardinality(T)
  BY <1>2, <1>3, FS_Bijection DEF ExistsBijection
<1>5. Cardinality(b .. N - 1) = IF b > N - 1 THEN 0 ELSE (N - 1) - b + 1
  <2>1. b \in Int /\ N - 1 \in Int
    BY <1>1
  <2> HIDE DEF N
  <2> QED
    BY <2>1, FS_Interval
<1> QED
  BY <1>1, <1>2, <1>4, <1>5

(* Of numbered things, those that are not the first of their value are all *)
(* but one for each value.                                                  *)
AgainIn(D, f) == {i \in D : \E j \in D : j < i /\ f[j] = f[i]}
ValuesIn(D, f) == {f[i] : i \in D}

LEMMA AllButTheFirst ==
  ASSUME NEW n \in Nat, NEW D \in SUBSET (1 .. n), NEW f
  PROVE  /\ IsFiniteSet(D) /\ Cardinality(D) \in Nat
         /\ Cardinality(AgainIn(D, f)) = Cardinality(D) - Cardinality(ValuesIn(D, f))
<1> DEFINE again == {i \in D : \E j \in D : j < i /\ f[j] = f[i]}
           values == {f[i] : i \in D}
           firsts == D \ again
           g == [i \in firsts |-> f[i]]
<1>1. IsFiniteSet(D) /\ IsFiniteSet(again) /\ IsFiniteSet(firsts)
  <2>1. IsFiniteSet(1 .. n)
    BY FS_Interval
  <2>2. again \in SUBSET D /\ firsts \in SUBSET D
    OBVIOUS
  <2> HIDE DEF again, firsts
  <2>3. IsFiniteSet(D)
    BY <2>1, FS_Subset
  <2> QED
    BY <2>2, <2>3, FS_Subset
<1>2. \A i \in D : i \in Nat
  OBVIOUS
<1>3. g \in Bijection(firsts, values)
  <2>1. g \in [firsts -> values]
    OBVIOUS
  <2>2. \A i, j \in firsts : g[i] = g[j] => i = j
    <3> SUFFICES ASSUME NEW i \in firsts, NEW j \in firsts, g[i] = g[j], i # j PROVE FALSE
      OBVIOUS
    <3>1. i < j \/ j < i
      BY <1>2
    <3> QED
      BY <3>1
  <2>3. \A v \in values : \E i \in firsts : g[i] = v
    <3> SUFFICES ASSUME NEW v \in values PROVE \E i \in firsts : g[i] = v
      OBVIOUS
    <3> DEFINE with == {i \in D : f[i] = v}
    <3>1. with \subseteq Nat /\ with # {}
      BY <1>2
    <3>2. Min(with) \in with /\ \A y \in with : Min(with) <= y
      <4> HIDE DEF with
      <4> QED
        BY <3>1, FirstLine
    <3> DEFINE i == Min(with)
    <3>3. i \in D /\ f[i] = v /\ \A j \in D : f[j] = v => i <= j
      BY <3>2
    <3> HIDE DEF i, with
    <3>4. i \in firsts
      BY <1>2, <3>3
    <3> QED
      BY <3>3, <3>4
  <2> HIDE DEF firsts, values, g
  <2>4. g \in Injection(firsts, values) /\ g \in Surjection(firsts, values)
    BY <2>1, <2>2, <2>3 DEF Injection, IsInjective, Surjection
  <2> QED
    BY <2>4 DEF Bijection
<1>4. Cardinality(firsts) = Cardinality(values)
  BY <1>1, <1>3, FS_Bijection DEF ExistsBijection
<1>5. Cardinality(firsts) = Cardinality(D) - Cardinality(D \cap again)
  BY <1>1, FS_Difference
<1>6. D \cap again = again
  OBVIOUS
<1>7. Cardinality(D) \in Nat /\ Cardinality(again) \in Nat
  BY <1>1, FS_CardinalityType
<1>8. Cardinality(again) = Cardinality(D) - Cardinality(values)
  <2> HIDE DEF again, values, firsts
  <2> QED
    BY <1>4, <1>5, <1>6, <1>7
<1>9. again = AgainIn(D, f) /\ values = ValuesIn(D, f)
  BY DEF AgainIn, ValuesIn
<1> QED
  BY <1>1, <1>7, <1>8, <1>9
=================================================================================
