---------------------------- MODULE FilterProofs ----------------------------
(***************************************************************************)
(* What a filter keeps: exactly the elements at the positions it is given, *)
(* in the order they had.                                                  *)
(***************************************************************************)
EXTENDS Filters, FiniteSetTheorems, FunctionTheorems, TLAPS

\* The rank of a position counts from 1 and grows with the position.
LEMMA RankGrows ==
    ASSUME NEW I, I \subseteq Nat, IsFiniteSet(I)
    PROVE  /\ \A i \in I : Rank(I, i) \in 1..Cardinality(I)
           /\ \A i, j \in I : i < j => Rank(I, i) < Rank(I, j)
<1> DEFINE Upto(i) == {j \in I : j <= i}
<1>0. Cardinality(I) \in Nat
  BY FS_CardinalityType
<1>1. \A i \in I : IsFiniteSet(Upto(i)) /\ Upto(i) \in SUBSET I
  BY FS_Subset
<1>2. ASSUME NEW i \in I PROVE Rank(I, i) \in 1..Cardinality(I)
  <2>1. Upto(i) # {}
    BY <1>2
  <2>2. Cardinality(Upto(i)) \in Nat /\ Cardinality(Upto(i)) # 0
    BY <1>1, <1>2, <2>1, FS_EmptySet, FS_CardinalityType
  <2>3. Cardinality(Upto(i)) <= Cardinality(I)
    BY <1>1, <1>2, FS_Subset
  <2> QED
    BY <1>0, <2>2, <2>3 DEF Rank
<1>3. ASSUME NEW i \in I, NEW j \in I, i < j PROVE Rank(I, i) < Rank(I, j)
  <2>1. Upto(i) \in SUBSET Upto(j) /\ Upto(i) # Upto(j)
    <3>1. i \in Nat /\ j \in Nat /\ \A k \in I : k \in Nat
      OBVIOUS
    <3>2. j \in Upto(j) /\ j \notin Upto(i)
      BY <1>3, <3>1
    <3>3. \A k \in Upto(i) : k \in Upto(j)
      <4> SUFFICES ASSUME NEW k \in I, k <= i PROVE k <= j
        OBVIOUS
      <4>1. k \in Nat
        BY <3>1
      <4> QED
        BY <1>3, <3>1, <4>1
    <3> QED
      BY <3>2, <3>3
  <2>2. Cardinality(Upto(i)) <= Cardinality(Upto(j)) /\ Cardinality(Upto(i)) # Cardinality(Upto(j))
    BY <1>1, <2>1, FS_Subset
  <2>3. Cardinality(Upto(i)) \in Nat /\ Cardinality(Upto(j)) \in Nat
    BY <1>1, FS_CardinalityType
  <2> QED
    BY <2>2, <2>3 DEF Rank
<1> QED
  BY <1>2, <1>3

\* Every rank is taken: by the pigeonhole principle, none can be missing.
LEMMA RankTaken ==
    ASSUME NEW I, I \subseteq Nat, IsFiniteSet(I), NEW k \in 1..Cardinality(I)
    PROVE  \E i \in I : Rank(I, i) = k
<1> SUFFICES ASSUME \A i \in I : Rank(I, i) # k PROVE FALSE
  OBVIOUS
<1> DEFINE Others == (1..Cardinality(I)) \ {k}
           f == [i \in I |-> Rank(I, i)]
<1>0. /\ \A i \in I : Rank(I, i) \in 1..Cardinality(I)
      /\ \A i, j \in I : i < j => Rank(I, i) < Rank(I, j)
  BY RankGrows, Zenon
<1>1. Cardinality(I) \in Nat /\ IsFiniteSet(I)
  BY FS_CardinalityType
<1>2. IsFiniteSet(1..Cardinality(I)) /\ Cardinality(1..Cardinality(I)) = Cardinality(I)
  BY <1>1, FS_Interval
<1>3. IsFiniteSet(Others) /\ Cardinality(Others) = Cardinality(I) - 1
  BY <1>2, FS_RemoveElement
<1>4. f \in [I -> Others]
  BY RankGrows
<1>5. \E i, j \in I : i # j /\ f[i] = f[j]
  <2> HIDE DEF f, Others
  <2> QED
    BY <1>1, <1>3, <1>4, Cardinality(Others) < Cardinality(I), FS_PigeonHole
<1>6. \A i, j \in I : i # j => i < j \/ j < i
  OBVIOUS
<1>7. \A i \in I : Rank(I, i) \in Nat
  BY <1>0, <1>1
<1> QED
  <2>1. PICK i \in I, j \in I : i < j /\ Rank(I, i) = Rank(I, j)
    BY <1>5, <1>6
  <2> QED
    BY <1>0, <1>7, <2>1

\* Nth enumerates the positions in increasing order.
LEMMA NthIs ==
    ASSUME NEW I, I \subseteq Nat, IsFiniteSet(I)
    PROVE  /\ Cardinality(I) \in Nat
           /\ \A k \in 1..Cardinality(I) : Nth(I, k) \in I
           /\ \A k, l \in 1..Cardinality(I) : k < l <=> Nth(I, k) < Nth(I, l)
           /\ \A i \in I : \E k \in 1..Cardinality(I) : Nth(I, k) = i
<1>0. /\ \A i \in I : Rank(I, i) \in 1..Cardinality(I)
      /\ \A i, j \in I : i < j => Rank(I, i) < Rank(I, j)
  BY RankGrows, Zenon
<1>1. Cardinality(I) \in Nat
  BY FS_CardinalityType
<1>2. \A k \in 1..Cardinality(I) : Nth(I, k) \in I /\ Rank(I, Nth(I, k)) = k
  BY RankTaken DEF Nth
<1>3. \A i, j \in I : i < j \/ j < i \/ i = j
  OBVIOUS
<1>4. ASSUME NEW k \in 1..Cardinality(I), NEW l \in 1..Cardinality(I)
      PROVE  k < l <=> Nth(I, k) < Nth(I, l)
  <2> DEFINE i == Nth(I, k)
             j == Nth(I, l)
  <2>1. i \in I /\ j \in I /\ Rank(I, i) = k /\ Rank(I, j) = l
    BY <1>2
  <2>2. (i < j => k < l) /\ (j < i => l < k) /\ (i = j => k = l)
    BY <1>0, <2>1
  <2>3. k \in Nat /\ l \in Nat /\ i \in Nat /\ j \in Nat
    <3>1. k \in Nat /\ l \in Nat
      BY <1>1
    <3> HIDE DEF i, j
    <3> QED
      BY <2>1, <3>1
  <2>4. i < j \/ j < i \/ i = j
    BY <2>3
  <2> QED
    BY <2>2, <2>3, <2>4
<1>5. ASSUME NEW i \in I PROVE \E k \in 1..Cardinality(I) : Nth(I, k) = i
  <2> DEFINE k == Rank(I, i)
             j == Nth(I, k)
  <2>1. k \in 1..Cardinality(I)
    BY RankGrows
  <2>2. j \in I /\ Rank(I, j) = k
    BY <1>2, <2>1
  <2>3. k \in Nat
    BY <1>1, <2>1
  <2>4. ~(i < j) /\ ~(j < i)
    <3>1. Rank(I, i) = Rank(I, j) /\ Rank(I, i) \in Nat
      BY <2>2, <2>3
    <3> HIDE DEF j, k
    <3> QED
      BY <1>0, <2>2, <3>1
  <2> QED
    BY <1>3, <2>1, <2>2, <2>4
<1> QED
  BY <1>1, <1>2, <1>4, <1>5

\* A set of positions has a first and a last one.
LEMMA FirstAndLast ==
    ASSUME NEW I, I \subseteq Nat, IsFiniteSet(I), I # {}
    PROVE  \E a, b \in I : \A i \in I : a <= i /\ i <= b
<1> DEFINE n == Cardinality(I)
           a == Nth(I, 1)
           b == Nth(I, n)
<1>1. n \in Nat /\ n # 0
  BY FS_CardinalityType, FS_EmptySet
<1>2. /\ \A k \in 1..n : Nth(I, k) \in I
      /\ \A k, l \in 1..n : k < l <=> Nth(I, k) < Nth(I, l)
      /\ \A i \in I : \E k \in 1..n : Nth(I, k) = i
  BY NthIs
<1>3. a \in I /\ b \in I
  BY <1>1, <1>2
<1>4. ASSUME NEW i \in I PROVE a <= i /\ i <= b
  <2>1. PICK k \in 1..n : Nth(I, k) = i
    BY <1>2
  <2>2. (1 = k \/ 1 < k) /\ (k = n \/ k < n)
    BY <1>1
  <2>3. (a = i \/ a < i) /\ (i = b \/ i < b)
    BY <1>1, <1>2, <2>1, <2>2
  <2>4. a \in Nat /\ b \in Nat /\ i \in Nat
    BY <1>3
  <2> HIDE DEF a, b
  <2> QED
    BY <2>3, <2>4
<1> QED
  BY <1>3, <1>4

\* t holds the elements of s at the positions I in their order: f says where
\* each of them was.
Selects(t, s, I) ==
    \E f \in [DOMAIN t -> I] :
        /\ \A k \in DOMAIN t : t[k] = s[f[k]]
        /\ \A k, l \in DOMAIN t : k < l <=> f[k] < f[l]
        /\ \A i \in I : \E k \in DOMAIN t : f[k] = i

\* A filter keeps exactly the elements at the given positions, in their order
\* (the loops over giden, the history and the backups that build `kalan').
THEOREM FilterKeeps ==
    ASSUME NEW S, NEW s \in Seq(S), NEW I \in SUBSET (DOMAIN s)
    PROVE  /\ AtPositions(s, I) \in Seq(S)
           /\ DOMAIN AtPositions(s, I) = 1..Cardinality(I) /\ Cardinality(I) \in Nat
           /\ Selects(AtPositions(s, I), s, I)
<1> DEFINE t == AtPositions(s, I)
           n == Cardinality(I)
           f == [k \in 1..n |-> Nth(I, k)]
<1>1. I \subseteq Nat /\ IsFiniteSet(I) /\ \A i \in I : s[i] \in S
  <2>1. Len(s) \in Nat /\ I \in SUBSET (1..Len(s))
    OBVIOUS
  <2>2. IsFiniteSet(1..Len(s))
    BY <2>1, FS_Interval
  <2>3. IsFiniteSet(I)
    BY <2>1, <2>2, FS_Subset
  <2> QED
    BY <2>1, <2>3
<1>2. /\ n \in Nat
      /\ \A k \in 1..n : Nth(I, k) \in I
      /\ \A k, l \in 1..n : k < l <=> Nth(I, k) < Nth(I, l)
      /\ \A i \in I : \E k \in 1..n : Nth(I, k) = i
  BY <1>1, NthIs
<1>3. t = [k \in 1..n |-> s[Nth(I, k)]]
  BY DEF AtPositions
<1>4. \A k \in 1..n : s[Nth(I, k)] \in S
  BY <1>1, <1>2
<1> HIDE DEF t, n
<1>5. t \in [1..n -> S] /\ t \in Seq(S) /\ DOMAIN t = 1..n
  BY <1>2, <1>3, <1>4
<1>6. /\ f \in [1..n -> I]
      /\ \A k \in 1..n : t[k] = s[f[k]]
      /\ \A k, l \in 1..n : k < l <=> f[k] < f[l]
      /\ \A i \in I : \E k \in 1..n : f[k] = i
  BY <1>2, <1>3
<1> HIDE DEF f
<1>7. Selects(t, s, I)
  <2> SUFFICES /\ f \in [DOMAIN t -> I]
               /\ \A k \in DOMAIN t : t[k] = s[f[k]]
               /\ \A k, l \in DOMAIN t : k < l <=> f[k] < f[l]
               /\ \A i \in I : \E k \in DOMAIN t : f[k] = i
    BY Zenon DEF Selects
  <2> QED
    BY <1>5, <1>6
<1> QED
  BY <1>2, <1>5, <1>7 DEF t, n

\* The positions among I where s has an element of X.
Hits(s, I, X) == {i \in I : s[i] \in X}

\* So nothing that is kept is counted twice or left out.
THEOREM FilterCounts ==
    ASSUME NEW S, NEW s \in Seq(S), NEW I \in SUBSET (DOMAIN s), NEW X
    PROVE  LET t == AtPositions(s, I)
           IN  /\ Cardinality(Hits(t, DOMAIN t, X)) = Cardinality(Hits(s, I, X))
               /\ Cardinality(Hits(s, I, X)) \in Nat
<1> DEFINE t == AtPositions(s, I)
           K == {k \in DOMAIN t : t[k] \in X}
           J == {i \in I : s[i] \in X}
<1>1. IsFiniteSet(J)
  <2>1. Len(s) \in Nat /\ J \in SUBSET (1..Len(s))
    OBVIOUS
  <2>2. IsFiniteSet(1..Len(s))
    BY <2>1, FS_Interval
  <2> QED
    BY <2>1, <2>2, FS_Subset
<1>2. /\ Selects(t, s, I) /\ DOMAIN t \subseteq Nat
  BY FilterKeeps
<1> HIDE DEF t
<1>3. PICK f \in [DOMAIN t -> I] :
        /\ \A k \in DOMAIN t : t[k] = s[f[k]]
        /\ \A k, l \in DOMAIN t : k < l <=> f[k] < f[l]
        /\ \A i \in I : \E k \in DOMAIN t : f[k] = i
  BY <1>2 DEF Selects
<1> DEFINE g == [k \in K |-> f[k]]
<1>4. g \in [K -> J]
  BY <1>3
<1>5. \A k, l \in K : g[k] = g[l] => k = l
  <2> SUFFICES ASSUME NEW k \in K, NEW l \in K, g[k] = g[l] PROVE k = l
    OBVIOUS
  <2>1. k \in Nat /\ l \in Nat /\ f[k] = f[l] /\ f[k] \in Nat
    BY <1>2, <1>3
  <2>2. ~(k < l) /\ ~(l < k)
    BY <1>3, <2>1
  <2> QED
    BY <2>1, <2>2
<1>6. \A i \in J : \E k \in K : g[k] = i
  BY <1>3
<1>7. g \in Bijection(K, J)
  <2> HIDE DEF g, K, J
  <2> QED
    BY <1>4, <1>5, <1>6, Fun_IsBij
<1> HIDE DEF g, K, J
<1>8. Cardinality(K) = Cardinality(J)
  <2>1. ExistsBijection(K, J)
    BY <1>7 DEF ExistsBijection
  <2>2. ExistsBijection(J, K)
    BY <2>1, Fun_ExistsBijSymmetric
  <2> QED
    BY <1>1, <2>2, FS_Bijection
<1>9. Cardinality(J) \in Nat
  BY <1>1, FS_CardinalityType
<1> QED
  BY <1>8, <1>9 DEF t, K, J, Hits
=============================================================================
