---------------------------- MODULE OrdersAndFolds ----------------------------
(***************************************************************************)
(* What the proofs of several components need of the operators of Orders   *)
(* and of the folds of the community modules: the elements of a finite set *)
(* are at one place each of its order; the function of the subsets by which*)
(* a fold is defined exists, so the fold obeys its equation; a sum does not*)
(* depend on the order of its terms.                                       *)
(***************************************************************************)
EXTENDS Orders, SequencesExt, SequenceTheorems, FiniteSetTheorems,
        WellFoundedInduction, TLAPS

-----------------------------------------------------------------------------
(* Numbers.                                                                 *)

\* A set of numbers has a least one.
LEMMA LeastOf ==
    ASSUME NEW T, T \subseteq Nat, T # {}
    PROVE  \E n \in T : \A m \in T : n <= m
<1> DEFINE R == {ss \in Nat \X Nat : ss[1] < ss[2]}
<1>1. IsWellFoundedOn(R, Nat)
  BY NatLessThanWellFounded DEF OpToRel
<1>2. \E n \in T : \A m \in T : <<m, n>> \notin R
  <2> HIDE DEF R
  <2> QED  BY <1>1, WFMin
<1>3. PICK n \in T : \A m \in T : <<m, n>> \notin R
  BY <1>2
<1>4. ASSUME NEW m \in T PROVE n <= m
  <2>1. m \in Nat /\ n \in Nat /\ ~(m < n)
    BY <1>3
  <2> QED  BY <2>1
<1> QED  BY <1>4

\* Induction over the numbers, for sets.
LEMMA NatInductive ==
    ASSUME NEW T, T \subseteq Nat, 0 \in T, \A n \in T : n + 1 \in T
    PROVE  T = Nat
<1>1. SUFFICES ASSUME Nat \ T # {} PROVE FALSE
  OBVIOUS
<1>2. PICK n \in Nat \ T : \A m \in Nat \ T : n <= m
  <2> DEFINE U == Nat \ T
  <2>1. U \subseteq Nat /\ U # {}
    BY <1>1
  <2> HIDE DEF U
  <2>2. \E n \in U : \A m \in U : n <= m
    BY <2>1, LeastOf
  <2> QED  BY <2>2 DEF U
<1>3. n - 1 \in Nat /\ n - 1 < n /\ (n - 1) + 1 = n
  BY <1>2
<1>4. n - 1 \in T
  BY <1>2, <1>3
<1> QED  BY <1>2, <1>3, <1>4

LEMMA MinOf ==
    ASSUME NEW T, T \subseteq Nat, T # {}
    PROVE  Min(T) \in T /\ \A m \in T : Min(T) <= m
BY LeastOf DEF Min

LEMMA MaxOf ==
    ASSUME NEW n \in Nat, NEW T, T \subseteq 0 .. n, T # {}
    PROVE  Max(T) \in T /\ \A m \in T : Max(T) >= m
<1> DEFINE U == {n - x : x \in T}
<1>1. U \subseteq Nat /\ U # {}
  <2>1. \A x \in T : n - x \in Nat
    OBVIOUS
  <2> QED  BY <2>1
<1>2. PICK u \in U : \A v \in U : u <= v
  <2> HIDE DEF U
  <2> QED  BY <1>1, LeastOf
<1>3. PICK x \in T : u = n - x
  BY <1>2
<1>4. \A m \in T : x >= m
  <2> TAKE m \in T
  <2>1. n - m \in U
    OBVIOUS
  <2>2. u <= n - m
    BY <1>2, <2>1
  <2>3. m \in Nat /\ x \in Nat
    OBVIOUS
  <2> QED  BY <1>3, <2>2, <2>3
<1> QED  BY <1>4 DEF Max

\* The smaller of two numbers.
LEMMA SmallerOf ==
    ASSUME NEW m \in Nat, NEW n \in Nat
    PROVE  /\ Min({m, n}) = IF m <= n THEN m ELSE n
           /\ Max({m, n}) = IF m >= n THEN m ELSE n
<1>1. Min({m, n}) \in {m, n} /\ \A x \in {m, n} : Min({m, n}) <= x
  BY MinOf
<1>2. CASE m <= n
  <2>1. {m, n} \subseteq 0 .. n
    BY <1>2
  <2>2. Max({m, n}) \in {m, n} /\ \A x \in {m, n} : Max({m, n}) >= x
    BY <2>1, MaxOf
  <2> QED  BY <1>1, <1>2, <2>2
<1>3. CASE n <= m
  <2>1. {m, n} \subseteq 0 .. m
    BY <1>3
  <2>2. Max({m, n}) \in {m, n} /\ \A x \in {m, n} : Max({m, n}) >= x
    BY <2>1, MaxOf
  <2> QED  BY <1>1, <1>3, <2>2
<1> QED  BY <1>2, <1>3

\* A function of finitely many arguments has finitely many values.
LEMMA ValuesFinite ==
    ASSUME NEW S, IsFiniteSet(S), NEW f, DOMAIN f = S
    PROVE  IsFiniteSet({f[x] : x \in S})
<1> DEFINE g == [x \in S |-> f[x]]
           T == {f[x] : x \in S}
<1>1. g \in Surjection(S, T)
  BY DEF Surjection
<1> HIDE DEF g, T
<1>2. IsFiniteSet(T)
  BY <1>1, FS_Surjection
<1> QED  BY <1>2 DEF T

-----------------------------------------------------------------------------
(* Orders.                                                                  *)

\* R orders the elements of S, as pairs of an element and a later one.
Orders(R, S) ==
    /\ \A x \in S : <<x, x>> \notin R
    /\ \A x, y \in S : x = y \/ <<x, y>> \in R \/ <<y, x>> \in R
    /\ \A x, y, z \in S : <<x, y>> \in R /\ <<y, z>> \in R => <<x, z>> \in R

LEMMA RankGrows ==
    ASSUME NEW S, IsFiniteSet(S), NEW R, Orders(R, S),
           NEW x \in S, NEW y \in S, <<x, y>> \in R
    PROVE  /\ Rank(S, R, x) \in Nat /\ Rank(S, R, y) \in Nat
           /\ Rank(S, R, x) < Rank(S, R, y)
<1> DEFINE A == {z \in S : <<z, x>> \in R}
           B == {z \in S : <<z, y>> \in R}
<1>1. A \subseteq B /\ x \in B /\ x \notin A
  BY DEF Orders
<1>2. A \in SUBSET S /\ B \in SUBSET S
  OBVIOUS
<1>3. Rank(S, R, x) = Cardinality(A) /\ Rank(S, R, y) = Cardinality(B)
  BY DEF Rank
<1> HIDE DEF A, B
<1>4. IsFiniteSet(A) /\ IsFiniteSet(B)
  BY <1>2, FS_Subset
<1>5. A \in SUBSET B /\ A # B
  BY <1>1
<1>6. Cardinality(A) <= Cardinality(B) /\ Cardinality(A) # Cardinality(B)
  BY <1>4, <1>5, FS_Subset
<1>7. Cardinality(A) \in Nat /\ Cardinality(B) \in Nat
  BY <1>4, FS_CardinalityType
<1> QED  BY <1>3, <1>6, <1>7

LEMMA RankBelow ==
    ASSUME NEW S, IsFiniteSet(S), NEW R, Orders(R, S), NEW x \in S
    PROVE  Cardinality(S) \in Nat /\ Rank(S, R, x) \in 0 .. (Cardinality(S) - 1)
<1> DEFINE A == {z \in S : <<z, x>> \in R}
<1>1. A \in SUBSET S /\ x \notin A
  BY DEF Orders
<1>2. Rank(S, R, x) = Cardinality(A)
  BY DEF Rank
<1> HIDE DEF A
<1>3. IsFiniteSet(A) /\ Cardinality(A) <= Cardinality(S) /\ Cardinality(A) # Cardinality(S)
  BY <1>1, FS_Subset
<1>4. Cardinality(A) \in Nat /\ Cardinality(S) \in Nat
  BY <1>3, FS_CardinalityType
<1> QED  BY <1>2, <1>3, <1>4

LEMMA RankOnto ==
    ASSUME NEW S, IsFiniteSet(S), NEW R, Orders(R, S),
           NEW i \in 0 .. (Cardinality(S) - 1)
    PROVE  \E x \in S : Rank(S, R, x) = i
<1> DEFINE n == Cardinality(S)
           T == 0 .. (n - 1)
           f == [x \in S |-> Rank(S, R, x)]
<1>1. n \in Nat
  BY FS_CardinalityType
<1>2. \A x \in S : f[x] \in T
  BY RankBelow
<1>3. \A x, y \in S : f[x] = f[y] => x = y
  <2> SUFFICES ASSUME NEW x \in S, NEW y \in S, x # y PROVE f[x] # f[y]
    OBVIOUS
  <2>1. <<x, y>> \in R \/ <<y, x>> \in R
    BY DEF Orders
  <2>2. CASE <<x, y>> \in R
    <3>1. Rank(S, R, x) \in Nat /\ Rank(S, R, y) \in Nat /\ Rank(S, R, x) < Rank(S, R, y)
      BY <2>2, RankGrows
    <3> QED  BY <3>1
  <2>3. CASE <<y, x>> \in R
    <3>1. Rank(S, R, x) \in Nat /\ Rank(S, R, y) \in Nat /\ Rank(S, R, y) < Rank(S, R, x)
      BY <2>3, RankGrows
    <3> QED  BY <3>1
  <2> QED  BY <2>1, <2>2, <2>3
<1>4. f \in Injection(S, T)
  <2>1. f \in [S -> T]
    BY <1>2
  <2>2. IsInjective(f)
    BY <1>3 DEF IsInjective
  <2> QED  BY <2>1, <2>2 DEF Injection
<1>5. IsFiniteSet(T) /\ Cardinality(T) = n
  <2> HIDE DEF n
  <2>1. IsFiniteSet(T) /\ Cardinality(T) = IF 0 > n - 1 THEN 0 ELSE (n - 1) - 0 + 1
    BY <1>1, FS_Interval
  <2> QED  BY <1>1, <2>1
<1>6. f \in Surjection(S, T)
  <2> HIDE DEF f, T
  <2>1. Cardinality(S) = Cardinality(T) <=> f \in Surjection(S, T)
    BY <1>4, <1>5, FS_Injection
  <2> QED  BY <1>5, <2>1
<1>7. \E x \in S : f[x] = i
  <2> HIDE DEF f
  <2> QED  BY <1>6 DEF Surjection
<1> QED  BY <1>7

\* A finite set has a first element.
LEMMA FirstOf ==
    ASSUME NEW S, IsFiniteSet(S), S # {}, NEW R, Orders(R, S)
    PROVE  \E x \in S : \A y \in S \ {x} : <<x, y>> \in R
<1>1. Cardinality(S) \in Nat /\ Cardinality(S) # 0
  BY FS_CardinalityType, FS_EmptySet
<1>2. 0 \in 0 .. (Cardinality(S) - 1)
  BY <1>1
<1>3. PICK x \in S : Rank(S, R, x) = 0
  BY <1>2, RankOnto
<1>4. ASSUME NEW y \in S \ {x} PROVE <<x, y>> \in R
  <2>1. <<x, y>> \in R \/ <<y, x>> \in R
    BY DEF Orders
  <2>2. CASE <<y, x>> \in R
    <3>1. Rank(S, R, y) \in Nat /\ Rank(S, R, y) < Rank(S, R, x)
      BY <2>2, RankGrows
    <3> QED  BY <1>3, <3>1
  <2> QED  BY <2>1, <2>2
<1> QED  BY <1>4

\* The list of a finite set in an order: each element once, one that comes
\* before another at an earlier place.
LEMMA InOrderLists ==
    ASSUME NEW S, IsFiniteSet(S), NEW R, Orders(R, S)
    PROVE  /\ Cardinality(S) \in Nat
           /\ InOrder(S, R) \in Seq(S) /\ Len(InOrder(S, R)) = Cardinality(S)
           /\ DOMAIN InOrder(S, R) = 1 .. Cardinality(S)
           /\ \A i \in 1 .. Cardinality(S) : InOrder(S, R)[i] \in S
           /\ \A x \in S : \E i \in 1 .. Cardinality(S) : InOrder(S, R)[i] = x
           /\ \A i, j \in 1 .. Cardinality(S) :
                 /\ i < j <=> <<InOrder(S, R)[i], InOrder(S, R)[j]>> \in R
                 /\ i = j <=> InOrder(S, R)[i] = InOrder(S, R)[j]
<1> DEFINE n == Cardinality(S)
           D == 1 .. n
           l == InOrder(S, R)
<1>1. n \in Nat
  BY FS_CardinalityType
<1>2. \A i \in D : l[i] \in S /\ Rank(S, R, l[i]) = i - 1
  <2> SUFFICES ASSUME NEW i \in D PROVE l[i] \in S /\ Rank(S, R, l[i]) = i - 1
    OBVIOUS
  <2>1. i - 1 \in 0 .. (n - 1)
    BY <1>1
  <2>2. \E x \in S : Rank(S, R, x) = i - 1
    BY <2>1, RankOnto
  <2>3. l[i] = CHOOSE x \in S : Rank(S, R, x) = i - 1
    BY DEF InOrder
  <2> HIDE DEF l
  <2> QED  BY <2>2, <2>3
<1>3. DOMAIN l = D
  BY DEF InOrder
<1>4. l \in Seq(S) /\ Len(l) = n
  <2>1. l = [i \in D |-> l[i]]
    BY DEF InOrder
  <2> HIDE DEF l
  <2>2. l \in [D -> S]
    BY <1>2, <2>1
  <2> HIDE DEF n
  <2> QED  BY <1>1, <2>2, SeqDef, LenProperties
<1>5. ASSUME NEW i \in D, NEW j \in D, <<l[i], l[j]>> \in R PROVE i < j
  <2> PICK a, b : a = l[i] /\ b = l[j]
    OBVIOUS
  <2>1. a \in S /\ b \in S /\ <<a, b>> \in R /\ Rank(S, R, a) = i - 1 /\ Rank(S, R, b) = j - 1
    BY <1>2, <1>5
  <2>2. Rank(S, R, a) < Rank(S, R, b)
    BY <2>1, RankGrows
  <2> QED  BY <1>1, <2>1, <2>2
<1>6. ASSUME NEW i \in D, NEW j \in D PROVE l[i] = l[j] => i = j
  <2> HIDE DEF l
  <2> QED  BY <1>1, <1>2
<1>7. ASSUME NEW i \in D, NEW j \in D, i < j PROVE <<l[i], l[j]>> \in R
  <2>1. l[i] = l[j] \/ <<l[i], l[j]>> \in R \/ <<l[j], l[i]>> \in R
    <3> HIDE DEF l
    <3> QED  BY <1>2 DEF Orders
  <2>2. CASE l[i] = l[j]
    <3> HIDE DEF l
    <3> QED  BY <1>1, <1>6, <1>7, <2>2
  <2>3. CASE <<l[j], l[i]>> \in R
    <3>1. j < i
      BY <1>5, <2>3
    <3> QED  BY <1>1, <1>7, <3>1
  <2> QED  BY <2>1, <2>2, <2>3
<1>8. \A x \in S : \E i \in D : l[i] = x
  <2> SUFFICES ASSUME NEW x \in S PROVE \E i \in D : l[i] = x
    OBVIOUS
  <2> PICK r : r = Rank(S, R, x)
    OBVIOUS
  <2>1. r \in 0 .. (n - 1)
    BY RankBelow
  <2>2. r + 1 \in D /\ (r + 1) - 1 = r
    BY <1>1, <2>1
  <2> PICK y : y = l[r + 1]
    OBVIOUS
  <2>3. y \in S /\ Rank(S, R, y) = Rank(S, R, x)
    BY <1>2, <2>2
  <2>4. y = x
    <3>1. y = x \/ <<x, y>> \in R \/ <<y, x>> \in R
      BY <2>3 DEF Orders
    <3>2. <<x, y>> \notin R
      <4> SUFFICES ASSUME <<x, y>> \in R PROVE FALSE
        OBVIOUS
      <4>1. /\ Rank(S, R, x) \in Nat /\ Rank(S, R, y) \in Nat
            /\ Rank(S, R, x) < Rank(S, R, y)
        BY <2>3, RankGrows
      <4> QED  BY <2>3, <4>1
    <3>3. <<y, x>> \notin R
      <4> SUFFICES ASSUME <<y, x>> \in R PROVE FALSE
        OBVIOUS
      <4>1. /\ Rank(S, R, x) \in Nat /\ Rank(S, R, y) \in Nat
            /\ Rank(S, R, y) < Rank(S, R, x)
        BY <2>3, RankGrows
      <4> QED  BY <2>3, <4>1
    <3> QED  BY <3>1, <3>2, <3>3
  <2> QED  BY <2>2, <2>4
<1> HIDE DEF l
<1> QED  BY <1>1, <1>2, <1>3, <1>4, <1>5, <1>6, <1>7, <1>8 DEF l

\* Numbers in their order.
LEMMA AscendingLists ==
    ASSUME NEW S, IsFiniteSet(S), S \subseteq Nat
    PROVE  /\ Cardinality(S) \in Nat
           /\ Ascending(S) \in Seq(S) /\ Len(Ascending(S)) = Cardinality(S)
           /\ DOMAIN Ascending(S) = 1 .. Cardinality(S)
           /\ \A i \in 1 .. Cardinality(S) : Ascending(S)[i] \in S
           /\ \A x \in S : \E i \in 1 .. Cardinality(S) : Ascending(S)[i] = x
           /\ \A i, j \in 1 .. Cardinality(S) :
                 /\ i < j <=> Ascending(S)[i] < Ascending(S)[j]
                 /\ i = j <=> Ascending(S)[i] = Ascending(S)[j]
<1>1. \A x, y \in S : <<x, y>> \in Less(S) <=> x < y
  BY DEF Less
<1>2. Orders(Less(S), S)
  BY <1>1 DEF Orders
<1> PICK l : l = InOrder(S, Less(S))
  OBVIOUS
<1>3. Ascending(S) = l
  BY DEF Ascending
<1>4. /\ Cardinality(S) \in Nat
      /\ l \in Seq(S) /\ Len(l) = Cardinality(S) /\ DOMAIN l = 1 .. Cardinality(S)
      /\ \A i \in 1 .. Cardinality(S) : l[i] \in S
      /\ \A x \in S : \E i \in 1 .. Cardinality(S) : l[i] = x
      /\ \A i, j \in 1 .. Cardinality(S) : /\ i < j <=> <<l[i], l[j]>> \in Less(S)
                                           /\ i = j <=> l[i] = l[j]
  BY <1>2, InOrderLists
<1> QED  BY <1>1, <1>3, <1>4

\* An ascending list of all the numbers up to n.
LEMMA AscendingAll ==
    ASSUME NEW n \in Nat
    PROVE  Ascending(1 .. n) = [i \in 1 .. n |-> i] /\ Cardinality(1 .. n) = n
<1>1. IsFiniteSet(1 .. n) /\ Cardinality(1 .. n) = n
  BY FS_Interval
<1> PICK l : l = Ascending(1 .. n)
  OBVIOUS
<1>2. /\ l \in Seq(1 .. n) /\ DOMAIN l = 1 .. n /\ \A i \in 1 .. n : l[i] \in 1 .. n
      /\ \A i, j \in 1 .. n : i < j <=> l[i] < l[j]
  <2>1. 1 .. n \subseteq Nat
    OBVIOUS
  <2> QED  BY <1>1, <2>1, AscendingLists
<1> DEFINE T == {k \in Nat : k + 1 \in 1 .. n => l[k + 1] >= k + 1}
           U == {k \in Nat : k < n => l[n - k] <= n - k}
<1>3. T = Nat
  <2>1. 0 \in T
    BY <1>2
  <2>2. ASSUME NEW k \in T PROVE k + 1 \in T
    <3>1. SUFFICES ASSUME (k + 1) + 1 \in 1 .. n PROVE l[(k + 1) + 1] >= (k + 1) + 1
      OBVIOUS
    <3> PICK i, j, a, b : i = k + 1 /\ j = (k + 1) + 1 /\ a = l[i] /\ b = l[j]
      OBVIOUS
    <3>2. i \in 1 .. n /\ j \in 1 .. n /\ i < j /\ a >= i
      BY <3>1
    <3>3. a < b /\ a \in 1 .. n /\ b \in 1 .. n
      BY <1>2, <3>2
    <3> QED  BY <3>2, <3>3
  <2> HIDE DEF T
  <2> QED  BY <2>1, <2>2, NatInductive DEF T
<1>4. U = Nat
  <2>1. 0 \in U
    BY <1>2
  <2>2. ASSUME NEW k \in U PROVE k + 1 \in U
    <3>1. SUFFICES ASSUME k + 1 < n PROVE l[n - (k + 1)] <= n - (k + 1)
      OBVIOUS
    <3> PICK i, j, a, b : i = n - (k + 1) /\ j = n - k /\ a = l[i] /\ b = l[j]
      OBVIOUS
    <3>2. i \in 1 .. n /\ j \in 1 .. n /\ i < j /\ b <= j /\ i = j - 1
      BY <3>1
    <3>3. a < b /\ a \in 1 .. n /\ b \in 1 .. n
      BY <1>2, <3>2
    <3> QED  BY <3>2, <3>3
  <2> HIDE DEF U
  <2> QED  BY <2>1, <2>2, NatInductive DEF U
<1>5. \A i \in 1 .. n : l[i] = i
  <2> SUFFICES ASSUME NEW i \in 1 .. n PROVE l[i] = i
    OBVIOUS
  <2>1. i - 1 \in T /\ n - i \in U
    <3>1. i - 1 \in Nat /\ n - i \in Nat
      OBVIOUS
    <3> HIDE DEF T, U
    <3> QED  BY <1>3, <1>4, <3>1
  <2>2. (i - 1) + 1 = i /\ n - (n - i) = i /\ n - i < n
    OBVIOUS
  <2>3. l[i] >= i /\ l[i] <= i
    BY <2>1, <2>2
  <2> QED  BY <1>2, <2>3
<1>6. l = [i \in 1 .. n |-> i]
  BY <1>2, <1>5
<1> QED  BY <1>1, <1>6

\* The entries at some places, and at all of them.
LEMMA AtPlacesLists ==
    ASSUME NEW E, NEW s \in Seq(E), NEW K \in SUBSET (1 .. Len(s))
    PROVE  /\ Cardinality(K) \in Nat
           /\ AtPlaces(s, K) \in Seq(E) /\ Len(AtPlaces(s, K)) = Cardinality(K)
           /\ \A i \in 1 .. Cardinality(K) : \E k \in K : AtPlaces(s, K)[i] = s[k]
           /\ \A k \in K : \E i \in 1 .. Cardinality(K) : AtPlaces(s, K)[i] = s[k]
<1>1. IsFiniteSet(K) /\ K \subseteq Nat
  <2>1. Len(s) \in Nat
    BY LenProperties
  <2>2. IsFiniteSet(1 .. Len(s))
    BY <2>1, FS_Interval
  <2>3. IsFiniteSet(K)
    BY <2>2, FS_Subset
  <2>4. 1 .. Len(s) \subseteq Nat
    BY <2>1
  <2> QED  BY <2>3, <2>4
<1> PICK n, l : n = Cardinality(K) /\ l = Ascending(K)
  OBVIOUS
<1>2. /\ n \in Nat /\ l \in Seq(K) /\ Len(l) = n /\ \A i \in 1 .. n : l[i] \in K
      /\ \A x \in K : \E i \in 1 .. n : l[i] = x
      /\ \A i, j \in 1 .. n : (i < j <=> l[i] < l[j]) /\ (i = j <=> l[i] = l[j])
  <2>1. /\ Cardinality(K) \in Nat
        /\ Ascending(K) \in Seq(K) /\ Len(Ascending(K)) = Cardinality(K)
        /\ \A i \in 1 .. Cardinality(K) : Ascending(K)[i] \in K
        /\ \A x \in K : \E i \in 1 .. Cardinality(K) : Ascending(K)[i] = x
        /\ \A i, j \in 1 .. Cardinality(K) :
              /\ i < j <=> Ascending(K)[i] < Ascending(K)[j]
              /\ i = j <=> Ascending(K)[i] = Ascending(K)[j]
    BY <1>1, AscendingLists
  <2> QED  BY <2>1
<1>3. AtPlaces(s, K) = [i \in 1 .. n |-> s[l[i]]]
  BY DEF AtPlaces
<1>4. \A i \in 1 .. n : s[l[i]] \in E
  BY <1>2, ElementOfSeq
<1>5. AtPlaces(s, K) \in [1 .. n -> E]
  BY <1>3, <1>4
<1>6. AtPlaces(s, K) \in Seq(E) /\ Len(AtPlaces(s, K)) = n
  BY <1>2, <1>5, SeqDef, LenProperties
<1>7. \A i \in 1 .. n : l[i] \in K /\ AtPlaces(s, K)[i] = s[l[i]]
  BY <1>2, <1>3
<1>8. \A k \in K : \E i \in 1 .. n : AtPlaces(s, K)[i] = s[k]
  <2> SUFFICES ASSUME NEW k \in K PROVE \E i \in 1 .. n : AtPlaces(s, K)[i] = s[k]
    OBVIOUS
  <2> PICK i \in 1 .. n : l[i] = k
    BY <1>2
  <2> QED  BY <1>7
<1>9. \A i \in 1 .. n : \E k \in K : AtPlaces(s, K)[i] = s[k]
  BY <1>7
<1> QED  BY <1>2, <1>6, <1>7, <1>8, <1>9

LEMMA AtAllPlaces ==
    ASSUME NEW E, NEW s \in Seq(E)
    PROVE  AtPlaces(s, DOMAIN s) = s /\ AtPlaces(s, {}) = <<>>
<1> PICK n : n = Len(s)
  OBVIOUS
<1>1. n \in Nat /\ DOMAIN s = 1 .. n
  BY LenProperties
<1>2. Ascending(1 .. n) = [i \in 1 .. n |-> i] /\ Cardinality(1 .. n) = n
  BY <1>1, AscendingAll
<1>3. AtPlaces(s, 1 .. n) = [i \in 1 .. n |-> s[i]]
  BY <1>2 DEF AtPlaces
<1>4. s = [i \in 1 .. n |-> s[i]]
  BY <1>1
<1>5. Cardinality({}) = 0 /\ 1 .. 0 = {}
  BY FS_EmptySet
<1>6. AtPlaces(s, {}) = <<>>
  BY <1>5 DEF AtPlaces
<1> QED  BY <1>1, <1>3, <1>4, <1>6

-----------------------------------------------------------------------------
(* Folds.  A fold is defined by a function of the subsets of its domain D,  *)
(* which takes one element after the other, as ch chooses.                  *)

FoldGiven(D, V, base, st, ch) ==
    /\ IsFiniteSet(D) /\ base \in V /\ st \in [V \X D -> V]
    /\ \A s \in SUBSET D : s # {} => ch[s] \in s

FoldIs(it, D, base, st, ch) ==
    \A s \in SUBSET D : it[s] = IF s = {} THEN base ELSE st[<<it[s \ {ch[s]}], ch[s]>>]

\* There is such a function: by induction on the size of the subsets.
LEMMA FoldExists ==
    ASSUME NEW D, NEW V, NEW base, NEW st, NEW ch, FoldGiven(D, V, base, st, ch)
    PROVE  \E it \in [SUBSET D -> V] : FoldIs(it, D, base, st, ch)
<1> USE DEF FoldGiven
<1> DEFINE Following(it, s) == IF s = {} THEN base ELSE st[<<it[s \ {ch[s]}], ch[s]>>]
           Upto(it, k) == \A s \in SUBSET D : Cardinality(s) <= k => it[s] = Following(it, s)
           T == {k \in Nat : \E it \in [SUBSET D -> V] : Upto(it, k)}
<1>1. ASSUME NEW s \in SUBSET D PROVE IsFiniteSet(s) /\ Cardinality(s) \in Nat
  BY FS_Subset, FS_CardinalityType
<1>2. ASSUME NEW s \in SUBSET D, s # {}
      PROVE  /\ s \ {ch[s]} \in SUBSET D
             /\ Cardinality(s \ {ch[s]}) = Cardinality(s) - 1
  <2>1. ch[s] \in s
    BY <1>2
  <2>2. IsFiniteSet(s)
    BY <1>1
  <2>3. Cardinality(s \ {ch[s]}) =
           IF ch[s] \in s THEN Cardinality(s) - 1 ELSE Cardinality(s)
    BY <2>2, FS_RemoveElement
  <2> QED  BY <2>1, <2>3
<1>3. ASSUME NEW it \in [SUBSET D -> V], NEW s \in SUBSET D
      PROVE  Following(it, s) \in V
  <2>1. CASE s = {}
    BY <2>1
  <2>2. CASE s # {}
    <3>1. ch[s] \in D /\ s \ {ch[s]} \in SUBSET D
      BY <2>2
    <3>2. <<it[s \ {ch[s]}], ch[s]>> \in V \X D
      BY <3>1
    <3> QED  BY <2>2, <3>2
  <2> QED  BY <2>1, <2>2
<1>4. 0 \in T
  <2> DEFINE it == [s \in SUBSET D |-> base]
  <2>1. it \in [SUBSET D -> V]
    OBVIOUS
  <2>2. ASSUME NEW s \in SUBSET D, Cardinality(s) <= 0 PROVE it[s] = Following(it, s)
    <3>1. IsFiniteSet(s) /\ Cardinality(s) = 0
      BY <1>1, <2>2
    <3>2. s = {}
      BY <3>1, FS_EmptySet
    <3> QED  BY <3>2
  <2>3. Upto(it, 0)
    BY <2>2
  <2> HIDE DEF it, Upto
  <2> QED  BY <2>1, <2>3
<1>5. ASSUME NEW k \in T PROVE k + 1 \in T
  <2>1. PICK it \in [SUBSET D -> V] : Upto(it, k)
    BY <1>5
  <2> DEFINE more == [s \in SUBSET D |->
                         IF Cardinality(s) = k + 1 THEN Following(it, s) ELSE it[s]]
  <2>2. more \in [SUBSET D -> V]
    <3>1. \A s \in SUBSET D : Following(it, s) \in V /\ it[s] \in V
      BY <1>3
    <3> HIDE DEF Following
    <3> QED  BY <3>1
  <2>3. ASSUME NEW s \in SUBSET D, Cardinality(s) <= k
        PROVE  more[s] = it[s]
    BY <1>1, <2>3
  <2>4. ASSUME NEW s \in SUBSET D, Cardinality(s) <= k + 1
        PROVE  more[s] = Following(more, s)
    <3>1. more[s] = Following(it, s)
      <4>1. CASE Cardinality(s) = k + 1
        <5> HIDE DEF Following
        <5> QED  BY <4>1
      <4>2. CASE Cardinality(s) # k + 1
        <5>1. Cardinality(s) <= k
          BY <1>1, <2>4, <4>2
        <5>2. more[s] = it[s]
          BY <2>3, <5>1
        <5> QED  BY <2>1, <5>1, <5>2
      <4> QED  BY <4>1, <4>2
    <3>2. CASE s = {}
      BY <3>1, <3>2
    <3>3. CASE s # {}
      <4>1. s \ {ch[s]} \in SUBSET D /\ Cardinality(s \ {ch[s]}) <= k
        BY <1>1, <1>2, <2>4, <3>3
      <4>2. more[s \ {ch[s]}] = it[s \ {ch[s]}]
        BY <2>3, <4>1
      <4> QED  BY <3>1, <3>3, <4>2
    <3> QED  BY <3>2, <3>3
  <2>5. Upto(more, k + 1)
    BY <2>4
  <2> HIDE DEF more, Upto
  <2> QED  BY <2>2, <2>5
<1>6. T = Nat
  <2> HIDE DEF T
  <2>1. T \subseteq Nat
    BY DEF T
  <2> QED  BY <1>4, <1>5, <2>1, NatInductive
<1>7. Cardinality(D) \in T
  BY <1>6, FS_CardinalityType
<1>8. PICK it \in [SUBSET D -> V] : Upto(it, Cardinality(D))
  BY <1>7
<1>9. ASSUME NEW s \in SUBSET D PROVE Cardinality(s) <= Cardinality(D)
  BY FS_Subset
<1> QED  BY <1>8, <1>9 DEF FoldIs

-----------------------------------------------------------------------------
(* Sums.                                                                    *)

\* t is the sum of the weights w over each subset of D.
Totals(t, w, D) ==
    /\ t \in [SUBSET D -> Nat] /\ t[{}] = 0
    /\ \A s \in SUBSET D : \A x \in s : t[s] = w[x] + t[s \ {x}]

\* Whatever element ch takes next, the sum is the same: by induction on the
\* size of the subset.
LEMMA TotalsOfFold ==
    ASSUME NEW D, IsFiniteSet(D), NEW w \in [D -> Nat], NEW t \in [SUBSET D -> Nat],
           NEW ch, \A s \in SUBSET D : s # {} => ch[s] \in s,
           \A s \in SUBSET D : t[s] = IF s = {} THEN 0 ELSE w[ch[s]] + t[s \ {ch[s]}]
    PROVE  Totals(t, w, D)
<1> DEFINE Adds(s) == \A x \in s : t[s] = w[x] + t[s \ {x}]
           T == {k \in Nat : \A s \in SUBSET D : Cardinality(s) <= k => Adds(s)}
<1>1. ASSUME NEW s \in SUBSET D PROVE IsFiniteSet(s) /\ Cardinality(s) \in Nat
  BY FS_Subset, FS_CardinalityType
<1>2. 0 \in T
  <2>1. ASSUME NEW s \in SUBSET D, Cardinality(s) <= 0 PROVE Adds(s)
    <3>1. IsFiniteSet(s) /\ Cardinality(s) = 0
      BY <1>1, <2>1
    <3>2. s = {}
      BY <3>1, FS_EmptySet
    <3> QED  BY <3>2
  <2> QED  BY <2>1
<1>3. ASSUME NEW k \in T PROVE k + 1 \in T
  <2>1. ASSUME NEW s \in SUBSET D, Cardinality(s) <= k + 1, NEW x \in s
        PROVE  t[s] = w[x] + t[s \ {x}]
    <3>1. PICK c : c = ch[s]
      OBVIOUS
    <3>2. c \in s /\ t[s] = w[c] + t[s \ {c}]
      BY <3>1
    <3>3. CASE c = x
      BY <3>2, <3>3
    <3>4. CASE c # x
      <4> DEFINE a == s \ {c}
                 b == s \ {x}
                 both == s \ {c, x}
      <4>1. /\ a \in SUBSET D /\ b \in SUBSET D /\ both \in SUBSET D
            /\ x \in a /\ c \in b /\ a \ {x} = both /\ b \ {c} = both
        BY <3>2, <3>4
      <4>2. Cardinality(a) <= k /\ Cardinality(b) <= k
        <5>1. IsFiniteSet(s) /\ Cardinality(s) \in Nat /\ k \in Nat
          BY <1>1
        <5>2. Cardinality(a) = Cardinality(s) - 1 /\ Cardinality(b) = Cardinality(s) - 1
          BY <3>2, <5>1, FS_RemoveElement
        <5> QED  BY <2>1, <5>1, <5>2
      <4> HIDE DEF a, b, both
      <4>3. t[a] = w[x] + t[both]
        BY <4>1, <4>2
      <4>4. t[b] = w[c] + t[both]
        BY <4>1, <4>2
      <4>5. t[s] = w[c] + t[a]
        BY <3>2 DEF a
      <4>6. w[x] \in Nat /\ w[c] \in Nat /\ t[both] \in Nat
        BY <3>2, <4>1
      <4>7. t[s] = w[x] + t[b]
        <5> PICK wx, wc, tb : wx = w[x] /\ wc = w[c] /\ tb = t[both]
          OBVIOUS
        <5>1. wx \in Nat /\ wc \in Nat /\ tb \in Nat
          BY <4>6
        <5>2. t[s] = wc + (wx + tb) /\ t[b] = wc + tb
          BY <4>3, <4>4, <4>5
        <5>3. wc + (wx + tb) = wx + (wc + tb)
          BY <5>1
        <5> QED  BY <5>2, <5>3
      <4> QED  BY <4>7 DEF b
    <3> QED  BY <3>3, <3>4
  <2> QED  BY <2>1
<1>4. T = Nat
  <2> HIDE DEF T
  <2>1. T \subseteq Nat
    BY DEF T
  <2> QED  BY <1>2, <1>3, <2>1, NatInductive
<1>5. ASSUME NEW s \in SUBSET D PROVE Adds(s)
  <2>1. Cardinality(s) \in T
    BY <1>1, <1>4
  <2> QED  BY <2>1
<1>6. t[{}] = 0
  OBVIOUS
<1> QED  BY <1>5, <1>6 DEF Totals

\* More elements, no smaller sum.
LEMMA TotalsGrow ==
    ASSUME NEW D, IsFiniteSet(D), NEW w \in [D -> Nat], NEW t, Totals(t, w, D),
           NEW U \in SUBSET D, NEW S \in SUBSET U
    PROVE  t[S] \in Nat /\ t[U] \in Nat /\ t[S] <= t[U]
<1> DEFINE T == {k \in Nat : \A V \in SUBSET D : S \subseteq V /\ Cardinality(V \ S) = k
                                                    => t[S] <= t[V]}
<1>1. ASSUME NEW V \in SUBSET D PROVE t[V] \in Nat
  BY DEF Totals
<1>2. ASSUME NEW V \in SUBSET D PROVE IsFiniteSet(V \ S) /\ Cardinality(V \ S) \in Nat
  <2>1. V \ S \in SUBSET D
    OBVIOUS
  <2> QED  BY <2>1, FS_Subset, FS_CardinalityType
<1>3. 0 \in T
  <2>1. ASSUME NEW V \in SUBSET D, S \subseteq V, Cardinality(V \ S) = 0 PROVE t[S] <= t[V]
    <3>1. V \ S = {}
      BY <1>2, <2>1, FS_EmptySet
    <3>2. V = S
      BY <2>1, <3>1
    <3> QED  BY <1>1, <3>2
  <2> QED  BY <2>1
<1>4. ASSUME NEW k \in T PROVE k + 1 \in T
  <2>1. ASSUME NEW V \in SUBSET D, S \subseteq V, Cardinality(V \ S) = k + 1
        PROVE  t[S] <= t[V]
    <3> DEFINE rest == V \ S
    <3>0. k \in Nat /\ IsFiniteSet(rest) /\ Cardinality(rest) = k + 1
      BY <1>2, <2>1
    <3>1. rest # {}
      <4> HIDE DEF rest, T
      <4>1. Cardinality(rest) # 0
        BY <3>0
      <4> QED  BY <4>1, FS_EmptySet
    <3>2. PICK x : x \in V \ S
      BY <3>1
    <3>3. t[V] = w[x] + t[V \ {x}]
      BY <3>2 DEF Totals
    <3>4. Cardinality((V \ {x}) \ S) = k
      <4>1. (V \ {x}) \ S = rest \ {x} /\ x \in rest
        BY <3>2
      <4> HIDE DEF rest, T
      <4>2. Cardinality(rest \ {x}) = Cardinality(rest) - 1
        BY <3>0, <4>1, FS_RemoveElement
      <4>3. Cardinality(rest) - 1 = k
        BY <3>0
      <4> QED  BY <4>1, <4>2, <4>3
    <3>5. t[S] <= t[V \ {x}]
      BY <2>1, <3>2, <3>4
    <3>6. t[S] \in Nat /\ t[V \ {x}] \in Nat /\ w[x] \in Nat
      BY <1>1, <3>2
    <3> QED  BY <3>3, <3>5, <3>6
  <2> QED  BY <2>1
<1>5. T = Nat
  <2> HIDE DEF T
  <2>1. T \subseteq Nat
    BY DEF T
  <2> QED  BY <1>3, <1>4, <2>1, NatInductive
<1>6. Cardinality(U \ S) \in T
  BY <1>2, <1>5
<1> QED  BY <1>1, <1>6

\* MapThenSumSet of the weights in w.
Total(w, S) == MapThenSumSet(LAMBDA x : w[x], S)

LEMMA TotalIs ==
    ASSUME NEW D, IsFiniteSet(D), NEW w \in [D -> Nat]
    PROVE  \E t : Totals(t, w, D) /\ \A S \in SUBSET D : Total(w, S) = t[S]
<1> DEFINE Some(s) == CHOOSE x \in s : TRUE
           ch == [s \in SUBSET D |-> Some(s)]
           st == [e \in Nat \X D |-> w[e[2]] + e[1]]
<1>1. \A s \in SUBSET D : s # {} => ch[s] \in s
  OBVIOUS
<1>2. FoldGiven(D, Nat, 0, st, ch)
  <2>1. st \in [Nat \X D -> Nat]
    OBVIOUS
  <2> HIDE DEF st, ch
  <2> QED  BY <1>1, <2>1 DEF FoldGiven
<1>3. PICK t \in [SUBSET D -> Nat] : FoldIs(t, D, 0, st, ch)
  <2> HIDE DEF st, ch
  <2> QED  BY <1>2, FoldExists
<1>4. ASSUME NEW s \in SUBSET D
      PROVE  t[s] = IF s = {} THEN 0 ELSE w[Some(s)] + t[s \ {Some(s)}]
  <2>1. CASE s = {}
    BY <1>3, <2>1 DEF FoldIs
  <2>2. CASE s # {}
    <3>1. t[s] = st[<<t[s \ {ch[s]}], ch[s]>>]
      <4> HIDE DEF st, ch
      <4> QED  BY <1>3, <2>2 DEF FoldIs
    <3>2. ch[s] = Some(s) /\ Some(s) \in D /\ s \ {Some(s)} \in SUBSET D
      BY <1>1, <2>2
    <3> PICK x : x = Some(s)
      OBVIOUS
    <3>3. t[s \ {x}] \in Nat /\ x \in D
      BY <3>2
    <3>4. st[<<t[s \ {x}], x>>] = w[x] + t[s \ {x}]
      <4> PICK m : m = t[s \ {x}]
        OBVIOUS
      <4>1. m \in Nat
        BY <3>3
      <4> HIDE DEF Some, ch
      <4>2. st[<<m, x>>] = w[x] + m
        BY ONLY <3>3, <4>1 DEF st
      <4> QED  BY <4>2
    <3> QED  BY <2>2, <3>1, <3>2, <3>4
  <2> QED  BY <2>1, <2>2
<1>5. Totals(t, w, D)
  <2>1. \A s \in SUBSET D : t[s] = IF s = {} THEN 0 ELSE w[ch[s]] + t[s \ {ch[s]}]
    BY <1>4
  <2> HIDE DEF ch
  <2> QED  BY <1>1, <2>1, TotalsOfFold
<1>6. ASSUME NEW S \in SUBSET D PROVE Total(w, S) = t[S]
  <2> DEFINE Is(it) == it = [s \in SUBSET S |-> IF s = {} THEN 0
                                               ELSE w[Some(s)] + it[s \ {Some(s)}]]
             fold == CHOOSE it : Is(it)
             part == [s \in SUBSET S |-> t[s]]
  <2>1. Total(w, S) = fold[S]
    BY DEF Total, MapThenSumSet, MapThenFoldSet
  <2>2. Is(part)
    <3>1. ASSUME NEW s \in SUBSET S
          PROVE  part[s] = IF s = {} THEN 0 ELSE w[Some(s)] + part[s \ {Some(s)}]
      <4>1. s \in SUBSET D /\ s \ {Some(s)} \in SUBSET S
        OBVIOUS
      <4> QED  BY <1>4, <4>1
    <3> HIDE DEF Some
    <3> QED  BY <3>1
  <2>3. Is(fold)
    <3> HIDE DEF Is, part
    <3> QED  BY <2>2
  <2> HIDE DEF fold
  <2> DEFINE Same(s) == fold[s] = t[s]
             T == {k \in Nat : \A s \in SUBSET S : Cardinality(s) <= k => Same(s)}
  <2>4. ASSUME NEW s \in SUBSET S PROVE IsFiniteSet(s) /\ Cardinality(s) \in Nat
    <3>1. s \in SUBSET D
      OBVIOUS
    <3> QED  BY <3>1, FS_Subset, FS_CardinalityType
  <2>5. ASSUME NEW s \in SUBSET S
        PROVE  fold[s] = IF s = {} THEN 0 ELSE w[Some(s)] + fold[s \ {Some(s)}]
    <3> HIDE DEF Some
    <3> QED  BY <2>3
  <2>6. 0 \in T
    <3>1. ASSUME NEW s \in SUBSET S, Cardinality(s) <= 0 PROVE Same(s)
      <4>1. IsFiniteSet(s) /\ Cardinality(s) = 0
        BY <2>4, <3>1
      <4>2. s = {} /\ s \in SUBSET D
        BY <4>1, FS_EmptySet
      <4> HIDE DEF Some
      <4> QED  BY <1>4, <2>5, <4>2
    <3> QED  BY <3>1
  <2>7. ASSUME NEW k \in T PROVE k + 1 \in T
    <3>1. ASSUME NEW s \in SUBSET S, Cardinality(s) <= k + 1 PROVE Same(s)
      <4>1. CASE s = {}
        <5> HIDE DEF Some
        <5> QED  BY <1>4, <2>5, <4>1
      <4>2. CASE s # {}
        <5>1. Some(s) \in s
          BY <4>2
        <5> PICK x : x = Some(s)
          OBVIOUS
        <5>2. x \in s /\ s \ {x} \in SUBSET S /\ s \in SUBSET D
          BY <5>1
        <5>3. IsFiniteSet(s) /\ Cardinality(s) \in Nat /\ k \in Nat
          BY <2>4
        <5>4. Cardinality(s \ {x}) = Cardinality(s) - 1
          <6> HIDE DEF Some, T
          <6> QED  BY <5>2, <5>3, FS_RemoveElement
        <5>5. Cardinality(s \ {x}) <= k
          <6> HIDE DEF Some, T
          <6> QED  BY <3>1, <5>3, <5>4
        <5>6. fold[s \ {x}] = t[s \ {x}]
          BY <5>2, <5>5
        <5> HIDE DEF Some
        <5> QED  BY <1>4, <2>5, <4>2, <5>2, <5>6
      <4> QED  BY <4>1, <4>2
    <3> QED  BY <3>1
  <2>8. T = Nat
    <3> HIDE DEF T
    <3>1. T \subseteq Nat
      BY DEF T
    <3> QED  BY <2>6, <2>7, <3>1, NatInductive
  <2>9. Cardinality(S) \in T
    BY <2>4, <2>8
  <2>10. fold[S] = t[S]
    BY <2>9, <2>4
  <2> QED  BY <2>1, <2>10
<1> QED  BY <1>5, <1>6

LEMMA TotalSteps ==
    ASSUME NEW D, IsFiniteSet(D), NEW w \in [D -> Nat], NEW S \in SUBSET D
    PROVE  /\ Total(w, {}) = 0
           /\ Total(w, S) \in Nat
           /\ \A x \in D \ S : Total(w, S \cup {x}) = w[x] + Total(w, S)
           /\ \A U \in SUBSET S : Total(w, U) <= Total(w, S)
<1>1. PICK t : Totals(t, w, D) /\ \A s \in SUBSET D : Total(w, s) = t[s]
  BY TotalIs
<1>2. Total(w, {}) = 0 /\ Total(w, S) \in Nat
  BY <1>1 DEF Totals
<1>3. ASSUME NEW x \in D \ S PROVE Total(w, S \cup {x}) = w[x] + Total(w, S)
  <2>1. S \cup {x} \in SUBSET D /\ (S \cup {x}) \ {x} = S
    OBVIOUS
  <2>2. t[S \cup {x}] = w[x] + t[(S \cup {x}) \ {x}]
    BY <1>1, <2>1 DEF Totals
  <2> QED  BY <1>1, <2>1, <2>2
<1>4. ASSUME NEW U \in SUBSET S PROVE Total(w, U) <= Total(w, S)
  <2>1. t[U] <= t[S]
    BY <1>1, TotalsGrow
  <2>2. U \in SUBSET D
    OBVIOUS
  <2> QED  BY <1>1, <2>1, <2>2
<1> QED  BY <1>2, <1>3, <1>4

\* Larger weights, a larger sum.
LEMMA TotalMore ==
    ASSUME NEW D, IsFiniteSet(D), NEW w \in [D -> Nat], NEW v \in [D -> Nat],
           \A x \in D : w[x] <= v[x]
    PROVE  Total(w, D) <= Total(v, D) /\ (w # v => Total(w, D) < Total(v, D))
<1> DEFINE Good(s) == /\ Total(w, s) <= Total(v, s)
                      /\ (\E x \in s : w[x] # v[x]) => Total(w, s) < Total(v, s)
           T == {k \in Nat : \A s \in SUBSET D : Cardinality(s) = k => Good(s)}
<1>1. ASSUME NEW s \in SUBSET D
      PROVE  IsFiniteSet(s) /\ Cardinality(s) \in Nat /\ Total(w, s) \in Nat /\ Total(v, s) \in Nat
  BY FS_Subset, FS_CardinalityType, TotalSteps
<1>2. 0 \in T
  <2>1. ASSUME NEW s \in SUBSET D, Cardinality(s) = 0 PROVE Good(s)
    <3>1. s = {}
      BY <1>1, <2>1, FS_EmptySet
    <3>2. Total(w, {}) = 0 /\ Total(v, {}) = 0
      BY TotalSteps
    <3> QED  BY <3>1, <3>2
  <2> HIDE DEF Good
  <2> QED  BY <2>1
<1>3. ASSUME NEW k \in T PROVE k + 1 \in T
  <2>1. ASSUME NEW s \in SUBSET D, Cardinality(s) = k + 1 PROVE Good(s)
    <3>0. IsFiniteSet(s) /\ k \in Nat
      BY <1>1
    <3>1. s # {}
      <4> HIDE DEF T, Good
      <4>1. Cardinality(s) # 0
        BY <2>1, <3>0
      <4> QED  BY <4>1, FS_EmptySet
    <3>2. PICK x : x \in s
      BY <3>1
    <3>3. PICK r : r = s \ {x}
      OBVIOUS
    <3>4. r \in SUBSET D /\ r \cup {x} = s /\ x \in D \ r
      BY <3>2, <3>3
    <3>5. Cardinality(r) = k
      <4> HIDE DEF T, Good
      <4>1. Cardinality(s \ {x}) = Cardinality(s) - 1
        BY <3>0, <3>2, FS_RemoveElement
      <4> QED  BY <2>1, <3>0, <3>3, <4>1
    <3>6. Good(r)
      <4> HIDE DEF Good
      <4> QED  BY <3>4, <3>5
    <3>7. Total(w, s) = w[x] + Total(w, r) /\ Total(v, s) = v[x] + Total(v, r)
      <4> HIDE DEF T, Good
      <4>1. Total(w, r \cup {x}) = w[x] + Total(w, r)
        BY <3>4, TotalSteps
      <4>2. Total(v, r \cup {x}) = v[x] + Total(v, r)
        BY <3>4, TotalSteps
      <4> QED  BY <3>4, <4>1, <4>2
    <3>8. PICK wx, vx, wr, vr : wx = w[x] /\ vx = v[x] /\ wr = Total(w, r) /\ vr = Total(v, r)
      OBVIOUS
    <3>9. wx \in Nat /\ vx \in Nat /\ wr \in Nat /\ vr \in Nat /\ wx <= vx /\ wr <= vr
      BY <1>1, <3>4, <3>6, <3>8
    <3>10. Total(w, s) = wx + wr /\ Total(v, s) = vx + vr
      BY <3>7, <3>8
    <3>11. ASSUME NEW y \in s, w[y] # v[y] PROVE wx < vx \/ wr < vr
      <4>1. CASE y = x
        BY <3>8, <3>9, <3>11, <4>1
      <4>2. CASE y # x
        BY <3>3, <3>6, <3>8, <3>11, <4>2
      <4> QED  BY <4>1, <4>2
    <3>12. Total(w, s) <= Total(v, s)
      BY <3>9, <3>10
    <3>13. ASSUME wx < vx \/ wr < vr PROVE Total(w, s) < Total(v, s)
      BY <3>9, <3>10, <3>13
    <3> QED  BY <3>11, <3>12, <3>13
  <2> HIDE DEF Good
  <2> QED  BY <2>1
<1>4. T = Nat
  <2> HIDE DEF T
  <2>1. T \subseteq Nat
    BY DEF T
  <2> QED  BY <1>2, <1>3, <2>1, NatInductive
<1>5. Good(D)
  <2> HIDE DEF Good
  <2>1. Cardinality(D) \in T
    BY <1>1, <1>4
  <2> QED  BY <2>1
<1>6. ASSUME w # v PROVE \E x \in D : w[x] # v[x]
  BY <1>6
<1> QED  BY <1>5, <1>6

-----------------------------------------------------------------------------
(* FoldLeft: the places of a sequence, one after the other.                 *)

InTurns(fold, n, base, st) ==
    fold = [s \in SUBSET (1 .. n) |->
               IF s = {} THEN base ELSE st[<<fold[s \ {Max(s)}], Max(s)>>]]

LEMMA TurnsExist ==
    ASSUME NEW n \in Nat, NEW V, NEW base \in V, NEW st \in [V \X (1 .. n) -> V]
    PROVE  \E it \in [SUBSET (1 .. n) -> V] : InTurns(it, n, base, st)
<1> DEFINE D == 1 .. n
           ch == [s \in SUBSET D |-> Max(s)]
<1>1. \A s \in SUBSET D : s # {} => ch[s] \in s
  <2> SUFFICES ASSUME NEW s \in SUBSET D, s # {} PROVE Max(s) \in s
    OBVIOUS
  <2>1. s \subseteq 0 .. n
    OBVIOUS
  <2> QED  BY <2>1, MaxOf
<1>2. IsFiniteSet(D)
  BY FS_Interval
<1>3. FoldGiven(D, V, base, st, ch)
  <2> HIDE DEF ch
  <2> QED  BY <1>1, <1>2 DEF FoldGiven
<1>4. PICK it \in [SUBSET D -> V] : FoldIs(it, D, base, st, ch)
  <2> HIDE DEF ch, D
  <2> QED  BY <1>3, FoldExists
<1>5. \A s \in SUBSET D : it[s] = IF s = {} THEN base ELSE st[<<it[s \ {Max(s)}], Max(s)>>]
  BY <1>4 DEF FoldIs
<1>6. InTurns(it, n, base, st)
  <2> HIDE DEF ch
  <2> QED  BY <1>5 DEF InTurns
<1> QED  BY <1>6

LEMMA LastTurn ==
    ASSUME NEW n \in Nat, NEW k \in Nat, k < n
    PROVE  /\ 1 .. (k + 1) \in SUBSET (1 .. n) /\ 1 .. (k + 1) # {}
           /\ 1 .. k \in SUBSET (1 .. n)
           /\ Max(1 .. (k + 1)) = k + 1
           /\ (1 .. (k + 1)) \ {k + 1} = 1 .. k
<1>1. k + 1 \in 1 .. (k + 1) /\ 1 .. (k + 1) \subseteq 0 .. (k + 1) /\ k + 1 \in Nat
  OBVIOUS
<1> DEFINE S == 1 .. (k + 1)
<1>2. Max(S) \in S /\ \A m \in S : Max(S) >= m
  <2>1. S # {} /\ S \subseteq 0 .. (k + 1)
    BY <1>1
  <2> HIDE DEF S
  <2> QED  BY <1>1, <2>1, MaxOf
<1>3. Max(S) = k + 1
  BY <1>1, <1>2
<1> QED  BY <1>1, <1>3

=============================================================================
