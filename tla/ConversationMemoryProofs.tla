----------------------- MODULE ConversationMemoryProofs -----------------------
(***************************************************************************)
(* Safety of the conversation store for every number of requests,           *)
(* conversations and entry objects, and for every limit.                    *)
(***************************************************************************)
EXTENDS ConversationMemory, FiniteSetTheorems, WellFoundedInduction, TLAPS

-----------------------------------------------------------------------------
(* Operators. *)

(* The turns that are kept are the last ones of the sequence. *)
LEMMA NewestWithinIsSuffix ==
    ASSUME NEW turns \in Seq(Turn), NEW points
    PROVE  \E k \in 0..Len(turns) : NewestWithin(turns, points)
                                    = SubSeq(turns, k + 1, Len(turns))
<1> DEFINE TooLarge == {k \in 1..Len(turns) :
                            \/ Len(turns) + 1 - k > MaxTurns
                            \/ CodePoints(From(turns, k)) > points}
<1>1. IsFiniteSet(1..Len(turns)) /\ Cardinality(1..Len(turns)) = Len(turns)
  <2>1. Len(turns) \in Nat
    OBVIOUS
  <2> QED
    BY <2>1, FS_Interval
<1>2. IsFiniteSet(TooLarge) /\ Cardinality(TooLarge) <= Len(turns)
  <2>1. TooLarge \in SUBSET (1..Len(turns))
    OBVIOUS
  <2> HIDE DEF TooLarge
  <2> QED
    BY <1>1, <2>1, FS_Subset
<1>3. Cardinality(TooLarge) \in 0..Len(turns)
  <2> HIDE DEF TooLarge
  <2>1. Cardinality(TooLarge) \in Nat
    BY <1>2, FS_CardinalityType
  <2> QED
    BY <1>2, <2>1
<1>4. NewestWithin(turns, points)
      = SubSeq(turns, Cardinality(TooLarge) + 1, Len(turns))
  BY DEF NewestWithin, From
<1> HIDE DEF TooLarge
<1> QED
  BY <1>3, <1>4

(* Hence they are turns, each of them one of the sequence. *)
LEMMA NewestWithinKeepsTurns ==
    ASSUME NEW turns \in Seq(Turn), NEW points
    PROVE  /\ NewestWithin(turns, points) \in Seq(Turn)
           /\ \A i \in DOMAIN NewestWithin(turns, points) :
                \E j \in DOMAIN turns : NewestWithin(turns, points)[i] = turns[j]
<1>1. PICK k \in 0..Len(turns) : NewestWithin(turns, points)
                                 = SubSeq(turns, k + 1, Len(turns))
  BY NewestWithinIsSuffix
<1>2. SubSeq(turns, k + 1, Len(turns)) \in Seq(Turn)
  OBVIOUS
<1>3. ASSUME NEW i \in DOMAIN SubSeq(turns, k + 1, Len(turns))
      PROVE  \E j \in DOMAIN turns : SubSeq(turns, k + 1, Len(turns))[i] = turns[j]
  <2>1. /\ k + i \in DOMAIN turns
        /\ SubSeq(turns, k + 1, Len(turns))[i] = turns[k + i]
    OBVIOUS
  <2> QED
    BY <2>1
<1> QED
  BY <1>1, <1>2, <1>3

-----------------------------------------------------------------------------
(* Induction over the natural numbers, as a fact about sets: each use names  *)
(* the set of the numbers for which its claim holds.                         *)

LEMMA LeastNumber ==
    ASSUME NEW T, T \subseteq Nat, T # {} PROVE \E n \in T : \A m \in T : ~(m < n)
<1> DEFINE R == {ss \in Nat \X Nat : ss[1] < ss[2]}
<1>1. IsWellFoundedOn(R, Nat)
  BY NatLessThanWellFounded DEF OpToRel
<1>2. \A m, n \in Nat : <<m, n>> \in R <=> m < n
  OBVIOUS
<1> HIDE DEF R
<1>3. \E x \in T : \A y \in T : ~(<<y, x>> \in R)
  BY <1>1, WFMin
<1> QED
  BY <1>2, <1>3

LEMMA NatInductive ==
    ASSUME NEW T, 0 \in T, \A n \in Nat : n \in T => n + 1 \in T
    PROVE  Nat \subseteq T
<1> SUFFICES ASSUME Nat \ T # {} PROVE FALSE
  OBVIOUS
<1>1. PICK n \in Nat \ T : \A m \in Nat \ T : ~(m < n)
  BY LeastNumber
<1>2. n # 0 /\ n - 1 \in Nat /\ n - 1 < n /\ (n - 1) + 1 = n
  BY <1>1
<1> QED
  BY <1>1, <1>2

(* The largest of some numbers between 1 and n.                              *)
LEMMA MaxIsMember ==
    ASSUME NEW n \in Nat, NEW d \in SUBSET (1 .. n), d # {}
    PROVE  Max(d) \in d /\ \A x \in d : x <= Max(d)
<1> DEFINE below == {n - x : x \in d}
<1>1. below \subseteq Nat /\ below # {}
  <2>1. \A x \in d : n - x \in Nat
    OBVIOUS
  <2>2. PICK x : x \in d
    OBVIOUS
  <2> QED
    BY <2>1, <2>2
<1>2. PICK k \in below : \A m \in below : ~(m < k)
  BY <1>1, LeastNumber
<1>3. PICK x \in d : k = n - x
  BY <1>2
<1>4. \A y \in d : x >= y
  <2> SUFFICES ASSUME NEW y \in d PROVE x >= y
    OBVIOUS
  <2>1. n - y \in below /\ ~(n - y < n - x)
    BY <1>2, <1>3
  <2> QED
    BY <2>1
<1>5. \E m \in d : \A y \in d : m >= y
  BY <1>4
<1>6. Max(d) \in d /\ \A y \in d : Max(d) >= y
  BY <1>5 DEF Max
<1> QED
  BY <1>6

-----------------------------------------------------------------------------
(* The function of which CodePoints takes the value for all positions.       *)
Adds(turns, g, D) ==
    g = [d \in D |-> IF d = {} THEN 0 ELSE g[d \ {Max(d)}] + turns[Max(d)].size]

LEMMA CodePointsByAdding ==
    ASSUME NEW turns
    PROVE  CodePoints(turns) =
               (CHOOSE g : Adds(turns, g, SUBSET (DOMAIN turns)))[DOMAIN turns]
  BY DEF CodePoints, FoldLeft, MapThenFoldSet, Adds

LEMMA AddingExists ==
    ASSUME NEW turns \in Seq(Turn)
    PROVE  \E g : Adds(turns, g, SUBSET (DOMAIN turns))
<1> DEFINE Small(n) == {d \in SUBSET (1 .. Len(turns)) : Cardinality(d) <= n}
           T == {n \in Nat : \E g : Adds(turns, g, Small(n))}
<1>1. DOMAIN turns = 1 .. Len(turns) /\ Len(turns) \in Nat
  OBVIOUS
<1>2. \A d \in SUBSET (1 .. Len(turns)) :
          /\ IsFiniteSet(d) /\ Cardinality(d) \in Nat /\ Cardinality(d) <= Len(turns)
          /\ Cardinality(d) = 0 => d = {}
  <2>1. IsFiniteSet(1 .. Len(turns)) /\ Cardinality(1 .. Len(turns)) <= Len(turns)
    BY <1>1, FS_Interval
  <2>2. Cardinality(1 .. Len(turns)) \in Nat
    BY <2>1, FS_CardinalityType
  <2> SUFFICES ASSUME NEW d \in SUBSET (1 .. Len(turns))
               PROVE  /\ IsFiniteSet(d) /\ Cardinality(d) \in Nat
                      /\ Cardinality(d) <= Len(turns) /\ (Cardinality(d) = 0 => d = {})
    OBVIOUS
  <2>3. IsFiniteSet(d) /\ Cardinality(d) <= Cardinality(1 .. Len(turns))
    BY <2>1, FS_Subset
  <2>4. Cardinality(d) \in Nat /\ (Cardinality(d) = 0 => d = {})
    BY <2>3, FS_CardinalityType, FS_EmptySet
  <2> QED
    BY <1>1, <2>1, <2>2, <2>3, <2>4
<1>3. 0 \in T
  <2>1. \A d \in Small(0) : d = {}
    BY <1>2
  <2>2. Adds(turns, [d \in Small(0) |-> 0], Small(0))
    BY <2>1 DEF Adds
  <2> QED
    BY <2>2
<1>4. ASSUME NEW n \in T PROVE n + 1 \in T
  <2>1. PICK g : Adds(turns, g, Small(n))
    OBVIOUS
  <2> DEFINE Value(d) == IF d = {} THEN 0 ELSE g[d \ {Max(d)}] + turns[Max(d)].size
             f == [d \in Small(n + 1) |-> Value(d)]
  <2>2. ASSUME NEW d \in Small(n + 1), d # {}
        PROVE  d \ {Max(d)} \in Small(n) /\ d \ {Max(d)} \in Small(n + 1)
    <3>1. Max(d) \in d
      BY <1>1, <2>2, MaxIsMember
    <3>2. Cardinality(d \ {Max(d)}) = Cardinality(d) - 1
      BY <1>2, <3>1, FS_RemoveElement
    <3>3. Cardinality(d) \in Nat /\ Cardinality(d) <= n + 1
      BY <1>2
    <3>4. Cardinality(d) - 1 <= n /\ Cardinality(d) - 1 <= n + 1
      BY <3>3
    <3> QED
      BY <3>2, <3>4
  <2>3. \A d \in Small(n) : g[d] = Value(d)
    BY <2>1 DEF Adds
  <2>4. \A d \in Small(n + 1) : f[d] = Value(d)
    OBVIOUS
  <2>5. \A d \in Small(n + 1) : d # {} => f[d \ {Max(d)}] = g[d \ {Max(d)}]
    <3> HIDE DEF Value, f
    <3> QED BY <2>2, <2>3, <2>4
  <2>6. Adds(turns, f, Small(n + 1))
    <3>1. f = [d \in Small(n + 1) |->
                  IF d = {} THEN 0 ELSE f[d \ {Max(d)}] + turns[Max(d)].size]
      <4> HIDE DEF Small
      <4> QED BY <2>5
    <3> QED
      BY <3>1 DEF Adds
  <2>7. n + 1 \in Nat /\ \E h : Adds(turns, h, Small(n + 1))
    <3> HIDE DEF f, Small
    <3> QED BY <2>6
  <2> HIDE DEF Small
  <2> QED
    BY <2>7
<1>5. Len(turns) \in T
  <2> HIDE DEF T
  <2>1. Nat \subseteq T
    BY <1>3, <1>4, NatInductive
  <2> QED
    BY <1>1, <2>1
<1>6. Small(Len(turns)) = SUBSET (DOMAIN turns)
  BY <1>1, <1>2
<1> QED
  BY <1>5, <1>6

(* CodePoints adds the sizes of the turns from the first to the last.        *)
LEMMA PrefixSums ==
    ASSUME NEW turns \in Seq(Turn)
    PROVE  \E sum : /\ sum[0] = 0
                    /\ CodePoints(turns) = sum[Len(turns)]
                    /\ \A j \in 1 .. Len(turns) : sum[j] = sum[j - 1] + turns[j].size
<1> DEFINE g == CHOOSE h : Adds(turns, h, SUBSET (DOMAIN turns))
           sum == [j \in 0 .. Len(turns) |-> g[1 .. j]]
<1>1. Adds(turns, g, SUBSET (DOMAIN turns)) /\ CodePoints(turns) = g[DOMAIN turns]
  BY AddingExists, CodePointsByAdding
<1> HIDE DEF g
<1>2. DOMAIN turns = 1 .. Len(turns) /\ Len(turns) \in Nat
  OBVIOUS
<1>3. \A d \in SUBSET (1 .. Len(turns)) :
          g[d] = IF d = {} THEN 0 ELSE g[d \ {Max(d)}] + turns[Max(d)].size
  BY <1>1, <1>2 DEF Adds
<1>4. sum[0] = 0
  <2>1. 1 .. 0 = {} /\ 0 \in 0 .. Len(turns)
    BY <1>2
  <2> QED
    BY <1>3, <2>1
<1>5. ASSUME NEW j \in 1 .. Len(turns) PROVE sum[j] = sum[j - 1] + turns[j].size
  <2>1. 1 .. j \in SUBSET (1 .. Len(turns)) /\ j \in 1 .. j
    BY <1>2
  <2>2. Max(1 .. j) = j
    <3>1. Max(1 .. j) \in 1 .. j /\ \A x \in 1 .. j : x <= Max(1 .. j)
      BY <1>2, <2>1, MaxIsMember
    <3> QED
      BY <2>1, <3>1
  <2>3. (1 .. j) \ {j} = 1 .. (j - 1)
    BY <1>2
  <2>4. g[1 .. j] = g[1 .. (j - 1)] + turns[j].size
    BY <1>3, <2>1, <2>2, <2>3
  <2>5. j \in 0 .. Len(turns) /\ j - 1 \in 0 .. Len(turns)
    BY <1>2
  <2> QED
    BY <2>4, <2>5
<1>6. CodePoints(turns) = sum[Len(turns)]
  BY <1>1, <1>2
<1> QED
  BY <1>4, <1>5, <1>6

LEMMA SizeIsNat ==
    ASSUME NEW turns \in Seq(Turn) PROVE \A j \in 1 .. Len(turns) : turns[j].size \in Nat
<1> SUFFICES ASSUME NEW j \in 1 .. Len(turns) PROVE turns[j].size \in Nat
  OBVIOUS
<1>1. turns[j] \in Turn
  OBVIOUS
<1>2. turns[j].size \in TurnSizes
  BY <1>1 DEF Turn
<1> QED
  BY <1>2, LimitsAssumption

LEMMA CodePointsNat == ASSUME NEW turns \in Seq(Turn) PROVE CodePoints(turns) \in Nat
<1>1. PICK sum : /\ sum[0] = 0
                 /\ CodePoints(turns) = sum[Len(turns)]
                 /\ \A j \in 1 .. Len(turns) : sum[j] = sum[j - 1] + turns[j].size
  BY PrefixSums
<1> DEFINE T == {j \in Nat : j <= Len(turns) => sum[j] \in Nat}
<1>2. Len(turns) \in Nat
  OBVIOUS
<1>3. 0 \in T
  BY <1>1
<1>4. ASSUME NEW n \in Nat, n \in T PROVE n + 1 \in T
  <2> SUFFICES ASSUME n + 1 <= Len(turns) PROVE sum[n + 1] \in Nat
    OBVIOUS
  <2>1. n + 1 \in 1 .. Len(turns) /\ (n + 1) - 1 = n /\ sum[n] \in Nat
    BY <1>2, <1>4
  <2>2. sum[n + 1] = sum[n] + turns[n + 1].size /\ turns[n + 1].size \in Nat
    BY <1>1, <2>1, SizeIsNat
  <2> QED
    BY <2>1, <2>2
<1>5. Len(turns) \in T
  <2> HIDE DEF T
  <2> QED BY <1>2, <1>3, <1>4, NatInductive
<1> QED
  BY <1>1, <1>5

(* Taking the first turn away takes its size off.                            *)
LEMMA CodePointsOfTail ==
    ASSUME NEW turns \in Seq(Turn), turns # <<>>
    PROVE  CodePoints(turns) = turns[1].size + CodePoints(Tail(turns))
<1> DEFINE rest == Tail(turns)
<1>1. /\ rest \in Seq(Turn) /\ Len(turns) \in Nat \ {0} /\ Len(rest) = Len(turns) - 1
      /\ \A j \in 1 .. Len(rest) : rest[j] = turns[j + 1]
  OBVIOUS
<1> HIDE DEF rest
<1>2. PICK all : /\ all[0] = 0
                 /\ CodePoints(turns) = all[Len(turns)]
                 /\ \A j \in 1 .. Len(turns) : all[j] = all[j - 1] + turns[j].size
  BY PrefixSums
<1>3. PICK sum : /\ sum[0] = 0
                 /\ CodePoints(rest) = sum[Len(rest)]
                 /\ \A j \in 1 .. Len(rest) : sum[j] = sum[j - 1] + rest[j].size
  BY <1>1, PrefixSums
<1> DEFINE T == {j \in Nat : j <= Len(rest) =>
                                 all[j + 1] = turns[1].size + sum[j] /\ sum[j] \in Nat}
<1>4. \A j \in 1 .. Len(turns) : turns[j].size \in Nat
  BY SizeIsNat
<1>5. 0 \in T
  <2>1. 1 \in 1 .. Len(turns) /\ all[1] = all[0] + turns[1].size /\ turns[1].size \in Nat
    BY <1>1, <1>2, <1>4
  <2> QED
    BY <1>2, <1>3, <2>1
<1>6. ASSUME NEW n \in Nat, n \in T PROVE n + 1 \in T
  <2> SUFFICES ASSUME n + 1 <= Len(rest)
               PROVE  all[(n + 1) + 1] = turns[1].size + sum[n + 1] /\ sum[n + 1] \in Nat
    OBVIOUS
  <2>1. /\ n + 1 \in 1 .. Len(rest) /\ (n + 1) - 1 = n /\ n + 2 \in 1 .. Len(turns)
        /\ (n + 2) - 1 = n + 1 /\ (n + 1) + 1 = n + 2 /\ 1 \in 1 .. Len(turns)
    BY <1>1
  <2>2. all[n + 1] = turns[1].size + sum[n] /\ sum[n] \in Nat
    BY <1>1, <1>6, <2>1
  <2>3. /\ sum[n + 1] = sum[n] + turns[n + 2].size
        /\ all[n + 2] = all[n + 1] + turns[n + 2].size
        /\ turns[n + 2].size \in Nat /\ turns[1].size \in Nat
    BY <1>1, <1>2, <1>3, <1>4, <2>1
  <2> QED
    BY <2>1, <2>2, <2>3
<1>7. Len(rest) \in T
  <2> HIDE DEF T
  <2> QED BY <1>1, <1>5, <1>6, NatInductive
<1>8. all[Len(rest) + 1] = turns[1].size + sum[Len(rest)]
  BY <1>7
<1> QED
  BY <1>1, <1>2, <1>3, <1>8 DEF rest

LEMMA FromIsSuffix ==
    ASSUME NEW turns \in Seq(Turn), NEW k \in 1 .. (Len(turns) + 1)
    PROVE  /\ From(turns, k) \in Seq(Turn) /\ Len(From(turns, k)) = Len(turns) + 1 - k
           /\ k <= Len(turns) => Tail(From(turns, k)) = From(turns, k + 1)
<1>1. Len(turns) \in Nat
  OBVIOUS
<1>2. From(turns, k) \in Seq(Turn) /\ Len(From(turns, k)) = Len(turns) + 1 - k
  BY <1>1 DEF From
<1>3. ASSUME k <= Len(turns) PROVE Tail(From(turns, k)) = From(turns, k + 1)
  BY <1>1, <1>3 DEF From
<1> QED
  BY <1>2, <1>3

(* A longer suffix has at least the code points of a shorter one.            *)
LEMMA CodePointsGrow ==
    ASSUME NEW turns \in Seq(Turn), NEW i \in Nat \ {0}, NEW j \in Nat, i <= j,
           j <= Len(turns) + 1
    PROVE  CodePoints(From(turns, j)) <= CodePoints(From(turns, i))
<1> DEFINE T == {n \in Nat : i + n <= Len(turns) + 1 =>
                     CodePoints(From(turns, i + n)) <= CodePoints(From(turns, i))}
<1>1. Len(turns) \in Nat
  OBVIOUS
<1>2. \A k \in 1 .. (Len(turns) + 1) : CodePoints(From(turns, k)) \in Nat
  BY FromIsSuffix, CodePointsNat
<1>3. 0 \in T
  BY <1>1, <1>2
<1>4. ASSUME NEW n \in Nat, n \in T PROVE n + 1 \in T
  <2> SUFFICES ASSUME i + (n + 1) <= Len(turns) + 1
               PROVE  CodePoints(From(turns, i + (n + 1))) <= CodePoints(From(turns, i))
    OBVIOUS
  <2> DEFINE k == i + n
             s == From(turns, k)
  <2>1. /\ k \in 1 .. Len(turns) /\ i + (n + 1) = k + 1 /\ i \in 1 .. (Len(turns) + 1)
        /\ k + 1 \in 1 .. (Len(turns) + 1) /\ k \in 1 .. (Len(turns) + 1)
    BY <1>1
  <2> HIDE DEF k
  <2>2. s \in Seq(Turn) /\ Len(s) = Len(turns) + 1 - k /\ Tail(s) = From(turns, k + 1)
    BY <2>1, FromIsSuffix
  <2>3. s # <<>> /\ 1 \in 1 .. Len(s)
    BY <1>1, <2>1, <2>2
  <2> HIDE DEF s
  <2>4. CodePoints(s) = s[1].size + CodePoints(From(turns, k + 1)) /\ s[1].size \in Nat
    BY <2>2, <2>3, CodePointsOfTail, SizeIsNat
  <2>5. CodePoints(s) <= CodePoints(From(turns, i))
    BY <1>4, <2>1 DEF k, s
  <2>6. /\ CodePoints(s) \in Nat /\ CodePoints(From(turns, k + 1)) \in Nat
        /\ CodePoints(From(turns, i)) \in Nat
    BY <1>2, <2>1, <2>2, CodePointsNat
  <2> QED
    BY <2>1, <2>4, <2>5, <2>6
<1>5. j - i \in T
  <2> HIDE DEF T
  <2> QED BY <1>3, <1>4, NatInductive
<1> QED
  BY <1>1, <1>5

(* The newest turns that fit do fit: the suffixes that are too large are the *)
(* longest ones.                                                             *)
LEMMA NewestWithinFits ==
    ASSUME NEW turns \in Seq(Turn), NEW points \in Nat
    PROVE  /\ Len(NewestWithin(turns, points)) <= MaxTurns
           /\ CodePoints(NewestWithin(turns, points)) <= points
<1> DEFINE large == {k \in 1 .. Len(turns) : \/ Len(turns) + 1 - k > MaxTurns
                                             \/ CodePoints(From(turns, k)) > points}
           n == Cardinality(large)
<1>1. Len(turns) \in Nat /\ MaxTurns \in Nat
  BY LimitsAssumption
<1>2. IsFiniteSet(large) /\ n \in Nat /\ n <= Len(turns)
  <2>1. IsFiniteSet(1 .. Len(turns)) /\ Cardinality(1 .. Len(turns)) = Len(turns)
    BY <1>1, FS_Interval
  <2>2. large \in SUBSET (1 .. Len(turns))
    OBVIOUS
  <2> HIDE DEF large
  <2> QED
    BY <2>1, <2>2, FS_Subset, FS_CardinalityType
<1>3. ASSUME NEW k \in large, NEW i \in 1 .. k PROVE i \in large
  <2>1. k \in 1 .. Len(turns) /\ i \in 1 .. Len(turns) /\ i <= k
    BY <1>1
  <2>2. CASE Len(turns) + 1 - k > MaxTurns
    BY <1>1, <2>1, <2>2
  <2>3. CASE CodePoints(From(turns, k)) > points
    <3>1. CodePoints(From(turns, k)) <= CodePoints(From(turns, i))
      BY <1>1, <2>1, CodePointsGrow
    <3>2. CodePoints(From(turns, k)) \in Nat /\ CodePoints(From(turns, i)) \in Nat
      BY <1>1, <2>1, FromIsSuffix, CodePointsNat
    <3> QED
      BY <2>1, <2>3, <3>1, <3>2
  <2> QED
    BY <2>2, <2>3
<1>4. n + 1 \notin large
  <2> SUFFICES ASSUME n + 1 \in large PROVE FALSE
    OBVIOUS
  <2>1. 1 .. (n + 1) \in SUBSET large
    BY <1>3
  <2> HIDE DEF large
  <2>2. Cardinality(1 .. (n + 1)) = n + 1
    BY <1>2, FS_Interval
  <2>3. Cardinality(1 .. (n + 1)) <= n
    BY <1>2, <2>1, FS_Subset
  <2> QED
    BY <1>2, <2>2, <2>3
<1>5. NewestWithin(turns, points) = From(turns, n + 1)
  BY DEF NewestWithin
<1>6. n + 1 \in 1 .. (Len(turns) + 1)
  BY <1>1, <1>2
<1> DEFINE s == From(turns, n + 1)
<1>7. s \in Seq(Turn) /\ Len(s) = Len(turns) + 1 - (n + 1) /\ CodePoints(s) \in Nat
  BY <1>6, FromIsSuffix, CodePointsNat
<1> HIDE DEF n, s
<1>8. CASE n + 1 <= Len(turns)
  <2>1. n + 1 \in 1 .. Len(turns)
    BY <1>2, <1>8
  <2>2. ~(Len(turns) + 1 - (n + 1) > MaxTurns) /\ ~(CodePoints(s) > points)
    BY <1>4, <2>1 DEF s
  <2>3. Len(s) <= MaxTurns /\ CodePoints(s) <= points
    BY <1>1, <1>2, <1>7, <2>2
  <2> QED
    BY <1>5, <2>3 DEF s
<1>9. CASE n + 1 > Len(turns)
  <2>1. Len(s) = 0 /\ s = <<>>
    BY <1>1, <1>2, <1>7, <1>9
  <2>2. CodePoints(<<>>) = 0
    <3>1. <<>> \in Seq(Turn) /\ Len(<<>>) = 0
      OBVIOUS
    <3> QED
      BY <3>1, PrefixSums
  <2> QED
    BY <1>1, <1>5, <2>1, <2>2 DEF s
<1> QED
  BY <1>1, <1>2, <1>8, <1>9

-----------------------------------------------------------------------------
(* The operators on entries and leases. *)

LEMMA NewEntryType ==
    ASSUME NEW now \in Nat
    PROVE  NewEntry(now) \in Entry
BY DEF NewEntry, Entry

(* What the steps on an entry do to each of its fields. *)
LEMMA LeaseTakenFields ==
    ASSUME NEW e \in Entry
    PROVE  /\ LeaseTaken(e) \in Entry
           /\ LeaseTaken(e).leases = e.leases + 1
           /\ LeaseTaken(e).generation = e.generation
           /\ LeaseTaken(e).turns = e.turns
           /\ LeaseTaken(e).locked = e.locked
           /\ LeaseTaken(e).waiters = e.waiters
BY DEF LeaseTaken, Entry

LEMMA LeaseReturnedFields ==
    ASSUME NEW e \in Entry
    PROVE  /\ LeaseReturned(e) \in Entry
           /\ e.leases # 0 => LeaseReturned(e).leases = e.leases - 1
           /\ LeaseReturned(e).generation = e.generation
           /\ LeaseReturned(e).turns = e.turns
           /\ LeaseReturned(e).locked = e.locked
           /\ LeaseReturned(e).waiters = e.waiters
BY DEF LeaseReturned, Entry

LEMMA TouchedFields ==
    ASSUME NEW e \in Entry, clock \in Nat
    PROVE  /\ Touched(e) \in Entry
           /\ Touched(e).leases = e.leases
           /\ Touched(e).generation = e.generation
           /\ Touched(e).turns = e.turns
           /\ Touched(e).locked = e.locked
           /\ Touched(e).waiters = e.waiters
BY DEF Touched, Entry

LEMMA InvalidatedFields ==
    ASSUME NEW e \in Entry, clock \in Nat
    PROVE  /\ Invalidated(e) \in Entry
           /\ Invalidated(e).leases = e.leases
           /\ Invalidated(e).generation = e.generation + 1
           /\ Invalidated(e).turns = <<>>
           /\ Invalidated(e).locked = e.locked
           /\ Invalidated(e).waiters = e.waiters
BY DEF Invalidated, Entry

(* A stale entry is opened with its turns; one that is not either keeps      *)
(* generation and turns or starts a new generation without turns.            *)
LEMMA OpenedFields ==
    ASSUME NEW e \in Entry, NEW stale \in BOOLEAN, clock \in Nat
    PROVE  /\ Opened(e, stale) \in Entry
           /\ Opened(e, stale).locked = TRUE
           /\ Opened(e, stale).leases = e.leases
           /\ Opened(e, stale).waiters = e.waiters
           /\ \/ /\ Opened(e, stale).generation = e.generation
                 /\ Opened(e, stale).turns = e.turns
              \/ /\ ~stale
                 /\ Opened(e, stale).generation = e.generation + 1
                 /\ Opened(e, stale).turns = <<>>
<1> DEFINE base == IF ~stale /\ Expired(e) THEN Invalidated(e) ELSE Touched(e)
<1>1. /\ base \in Entry
      /\ base.leases = e.leases
      /\ base.waiters = e.waiters
      /\ \/ base.generation = e.generation /\ base.turns = e.turns
         \/ ~stale /\ base.generation = e.generation + 1 /\ base.turns = <<>>
  <2>1. CASE ~stale /\ Expired(e)
    BY <2>1, InvalidatedFields
  <2>2. CASE ~(~stale /\ Expired(e))
    BY <2>2, TouchedFields
  <2> QED
    BY <2>1, <2>2
<1>2. Opened(e, stale) = [base EXCEPT !.locked = TRUE]
  BY DEF Opened
<1> HIDE DEF base
<1> QED
  BY <1>1, <1>2 DEF Entry

(* A lease that is not stale carries the generation and the turns of the     *)
(* opened entry f.                                                           *)
FreshLease(l, c, o, arrived, f) ==
    /\ l \in Request
    /\ l.phase = "holding"
    /\ l.conv = c
    /\ l.entry = o
    /\ l.arrived = arrived
    /\ l.expected = f.generation
    /\ l.projection = Projection(f.turns)

(* A stale lease shows nothing and keeps the generation it expected. *)
StaleLease(l, c, o, arrived, expected) ==
    /\ l \in Request
    /\ l.phase = "holding"
    /\ l.conv = c
    /\ l.entry = o
    /\ l.arrived = arrived
    /\ l.expected = expected
    /\ l.projection = <<>>

LEMMA LeaseFields ==
    ASSUME NEW c \in Conversations, NEW o \in Objects, NEW e \in Entry,
           NEW expected \in Nat, NEW stale \in BOOLEAN, NEW arrived \in Nat,
           clock \in Nat
    PROVE  /\ stale => StaleLease(Lease(c, o, e, expected, stale, arrived),
                                  c, o, arrived, expected)
           /\ ~stale => FreshLease(Lease(c, o, e, expected, stale, arrived),
                                   c, o, arrived, Opened(e, stale))
<1> DEFINE opened == Opened(e, stale)
           seen == IF stale THEN <<>> ELSE Projection(opened.turns)
           status == IF ~stale /\ Expired(e) THEN "expired"
                     ELSE IF seen # <<>> THEN "hit" ELSE "new"
           number == IF stale THEN expected ELSE opened.generation
<1>1. opened.turns \in Seq(Turn) /\ opened.generation \in Nat
  BY OpenedFields DEF Entry
<1>2. seen \in Seq(Turn)
  BY <1>1, NewestWithinKeepsTurns DEF Projection
<1>3. Lease(c, o, e, expected, stale, arrived) =
        [phase |-> "holding", conv |-> c, entry |-> o, expected |-> number,
         projection |-> seen, status |-> status, arrived |-> arrived]
  BY DEF Lease
<1>4. number \in Nat /\ status \in Statuses
  BY <1>1 DEF Statuses
<1>5. /\ stale => number = expected /\ seen = <<>>
      /\ ~stale => number = opened.generation /\ seen = Projection(opened.turns)
  OBVIOUS
<1> HIDE DEF opened, seen, status, number
<1>6. [phase |-> "holding", conv |-> c, entry |-> o, expected |-> number,
       projection |-> seen, status |-> status, arrived |-> arrived] \in Request
  BY <1>2, <1>4 DEF Request
<1> QED
  BY <1>3, <1>5, <1>6 DEF opened, StaleLease, FreshLease

LEMMA FreshLeaseFields ==
    ASSUME NEW c \in Conversations, NEW o \in Objects, NEW e \in Entry,
           NEW expected \in Nat, NEW arrived \in Nat, clock \in Nat
    PROVE  FreshLease(Lease(c, o, e, expected, FALSE, arrived),
                      c, o, arrived, Opened(e, FALSE))
<1> DEFINE stale == FALSE
<1>1. stale \in BOOLEAN /\ ~stale
  OBVIOUS
<1>2. FreshLease(Lease(c, o, e, expected, stale, arrived),
                 c, o, arrived, Opened(e, stale))
  <2> HIDE DEF stale
  <2> QED
    BY <1>1, LeaseFields, Zenon
<1> QED
  BY <1>2

LEMMA StaleLeaseFields ==
    ASSUME NEW c \in Conversations, NEW o \in Objects, NEW e \in Entry,
           NEW expected \in Nat, NEW arrived \in Nat, clock \in Nat
    PROVE  StaleLease(Lease(c, o, e, expected, TRUE, arrived),
                      c, o, arrived, expected)
<1> DEFINE stale == TRUE
<1>1. stale \in BOOLEAN /\ stale
  OBVIOUS
<1>2. StaleLease(Lease(c, o, e, expected, stale, arrived),
                 c, o, arrived, expected)
  <2> HIDE DEF stale
  <2> QED
    BY <1>1, LeaseFields, Zenon
<1> QED
  BY <1>2

LEMMA DisabledType ==
    ASSUME NEW phase \in {"idle", "stateless"}
    PROVE  Disabled(phase) \in Request
BY DEF Disabled, Request, Statuses

LEMMA CollectedType ==
    ASSUME NEW dropped, heap \in [Objects -> Entry]
    PROVE  Collected(dropped) \in [Objects -> Entry]
BY NewEntryType DEF Collected

LEMMA WithoutType ==
    ASSUME NEW dropped, entries \in [Conversations -> Objects \cup {None}]
    PROVE  Without(dropped) \in [Conversations -> Objects \cup {None}]
BY DEF Without

(* A leased request names an entry object and a conversation. *)
LeaseNames ==
    \A r \in Requests : Leased(r) => /\ req[r].entry \in Objects
                                     /\ req[r].conv \in Conversations

TypeInv == TypeOK /\ LeaseNames

(* What a release makes of the entry before the lease is returned. *)
LEMMA CommittedFields ==
    ASSUME TypeInv, NEW r \in Requests, Leased(r), NEW turns \in Seq(Turn)
    PROVE  LET q == req[r]
               e == heap[q.entry]
               k == Committed(q, e, turns)
           IN  /\ k \in Entry
               /\ k.leases = e.leases
               /\ k.waiters = e.waiters
               /\ k.generation = e.generation
               /\ \/ k.turns = e.turns
                  \/ /\ entries[q.conv] = q.entry
                     /\ e.generation = q.expected
                     /\ k.turns = Trimmed(e.turns \o turns)
<1> DEFINE q == req[r]
           e == heap[q.entry]
<1>1. q.entry \in Objects /\ e \in Entry /\ clock \in Nat
  BY DEF TypeInv, TypeOK, LeaseNames
<1>2. e.turns \o turns \in Seq(Turn) /\ Trimmed(e.turns \o turns) \in Seq(Turn)
  <2>1. e.turns \o turns \in Seq(Turn)
    BY <1>1 DEF Entry
  <2> QED
    BY <2>1, NewestWithinKeepsTurns DEF Trimmed
<1> HIDE DEF q, e
<1>3. Touched(e) \in Entry /\ Touched(e).turns = e.turns
  BY <1>1, TouchedFields
<1>4. CASE ~(entries[q.conv] = q.entry /\ e.generation = q.expected)
  <2>1. Committed(q, e, turns) = e
    BY <1>4 DEF Committed
  <2> QED
    BY <1>1, <2>1 DEF q, e
<1>5. CASE entries[q.conv] = q.entry /\ e.generation = q.expected
  <2>1. CASE turns = <<>>
    <3>1. Committed(q, e, turns) = Touched(e)
      BY <1>5, <2>1 DEF Committed
    <3> QED
      BY <1>1, <3>1, TouchedFields DEF q, e
  <2>2. CASE turns # <<>>
    <3>1. Committed(q, e, turns)
          = [Touched(e) EXCEPT !.turns = Trimmed(e.turns \o turns)]
      BY <1>3, <1>5, <2>2 DEF Committed
    <3>2. /\ Committed(q, e, turns) \in Entry
          /\ Committed(q, e, turns).leases = e.leases
          /\ Committed(q, e, turns).waiters = e.waiters
          /\ Committed(q, e, turns).generation = e.generation
          /\ Committed(q, e, turns).turns = Trimmed(e.turns \o turns)
      <4> DEFINE t == Trimmed(e.turns \o turns)
                 d == Touched(e)
      <4>1. /\ d \in Entry /\ t \in Seq(Turn)
            /\ d.leases = e.leases
            /\ d.waiters = e.waiters
            /\ d.generation = e.generation
        BY <1>1, <1>2, TouchedFields
      <4> HIDE DEF t, d
      <4>2. Committed(q, e, turns) = [d EXCEPT !.turns = t]
        BY <3>1 DEF t, d
      <4>3. [d EXCEPT !.turns = t] \in Entry
        BY <4>1 DEF Entry
      <4>4. /\ [d EXCEPT !.turns = t].leases = e.leases
            /\ [d EXCEPT !.turns = t].waiters = e.waiters
            /\ [d EXCEPT !.turns = t].generation = e.generation
            /\ [d EXCEPT !.turns = t].turns = t
        BY <4>1 DEF Entry
      <4> QED
        BY <4>2, <4>3, <4>4 DEF t
    <3> QED
      BY <1>5, <3>2 DEF q, e
  <2> QED
    BY <2>1, <2>2
<1> QED
  BY <1>4, <1>5

(* What is left of the entry o of c, whose fields became those of e, when a  *)
(* lease is returned.                                                        *)
AfterReturn(c, o, e) ==
    /\ entries' \in [Conversations -> Objects \cup {None}]
    /\ heap' \in [Objects -> Entry]
    /\ \A p \in Objects \ {o} : heap'[p] = heap[p]
    /\ \/ /\ e.leases = 1
          /\ entries' = Without({c})
          /\ heap'[o] = NewEntry(0)
       \/ /\ entries' = entries
          /\ heap'[o].leases = e.leases - 1
          /\ heap'[o].generation = e.generation
          /\ heap'[o].turns = e.turns
          /\ heap'[o].locked = e.locked
          /\ entries[c] = o => heap'[o].leases # 0 \/ heap'[o].turns # <<>>

LEMMA ReturnedFields ==
    ASSUME TypeInv, NEW c, NEW o \in Objects, NEW e \in Entry,
           e.leases # 0, Returned(c, o, e)
    PROVE  AfterReturn(c, o, e)
<1> DEFINE left == LeaseReturned(e)
           gone == entries[c] = o /\ left.leases = 0 /\ left.turns = <<>>
<1>1. left \in Entry /\ NewEntry(0) \in Entry
  BY NewEntryType, LeaseReturnedFields
<1>2. /\ entries' = IF gone THEN Without({c}) ELSE entries
      /\ heap' = [heap EXCEPT ![o] = IF gone THEN NewEntry(0) ELSE left]
  BY DEF Returned
<1>3. /\ left.leases = e.leases - 1
      /\ left.generation = e.generation
      /\ left.turns = e.turns
      /\ left.locked = e.locked
      /\ left.waiters = e.waiters
  BY LeaseReturnedFields
<1>4. gone => entries[c] = o /\ e.leases = 1
  BY <1>3 DEF Entry
<1>5. heap \in [Objects -> Entry]
  BY DEF TypeInv, TypeOK
<1> HIDE DEF left, gone
<1>6. /\ entries' \in [Conversations -> Objects \cup {None}]
      /\ heap' \in [Objects -> Entry]
  BY <1>1, <1>2, <1>5, WithoutType DEF TypeInv, TypeOK
<1>7. \A p \in Objects \ {o} : heap'[p] = heap[p]
  BY <1>2, <1>5
<1>8. CASE gone
  BY <1>2, <1>4, <1>5, <1>6, <1>7, <1>8 DEF AfterReturn
<1>9. CASE ~gone
  <2>1. heap'[o] = left /\ entries' = entries
        /\ (entries[c] = o => left.leases # 0 \/ left.turns # <<>>)
    BY <1>2, <1>5, <1>9 DEF gone
  <2> QED
    BY <1>3, <1>6, <1>7, <2>1 DEF AfterReturn
<1> QED
  BY <1>8, <1>9

-----------------------------------------------------------------------------
(* Counting leases. *)

(* No two conversations share an entry object. *)
OwnEntry ==
    \A c, d \in Conversations : entries[c] = entries[d] /\ entries[c] # None => c = d

LeaseInv == TypeInv /\ LeaseAccounting /\ LeasedEntryIsLive /\ OwnEntry

LEMMA ReferersFinite ==
    ASSUME NEW o
    PROVE  IsFiniteSet(Referers(o)) /\ Cardinality(Referers(o)) \in Nat
<1>1. Referers(o) \in SUBSET Requests
  BY DEF Referers
<1> QED
  BY <1>1, IdentityAssumption, FS_Subset, FS_CardinalityType

LEMMA LeasedHasLease ==
    ASSUME LeaseInv, NEW r \in Requests, Leased(r)
    PROVE  /\ req[r].entry \in Objects
           /\ req[r].conv \in Conversations
           /\ entries[req[r].conv] = req[r].entry
           /\ heap[req[r].entry] \in Entry
           /\ heap[req[r].entry].leases # 0
<1>1. req[r].entry \in Objects /\ req[r].conv \in Conversations
  BY DEF LeaseInv, TypeInv, LeaseNames
<1>2. r \in Referers(req[r].entry)
  BY DEF Referers
<1>3. Cardinality(Referers(req[r].entry)) # 0
  BY <1>2, ReferersFinite, FS_EmptySet
<1> QED
  BY <1>1, <1>3 DEF LeaseInv, TypeInv, TypeOK, LeaseAccounting, LeasedEntryIsLive

(* A request that gets a lease on o. *)
LEMMA CountEnter ==
    ASSUME req \in [Requests -> Request], NEW r \in Requests, ~Leased(r),
           NEW q \in Request, q.phase \in {"waiting", "holding"},
           req' = [req EXCEPT ![r] = q]
    PROVE  \A o : Cardinality(Referers(o))' =
                    IF o = q.entry THEN Cardinality(Referers(o)) + 1
                                   ELSE Cardinality(Referers(o))
<1> SUFFICES ASSUME NEW o
             PROVE  Cardinality(Referers(o)') =
                      IF o = q.entry THEN Cardinality(Referers(o)) + 1
                                     ELSE Cardinality(Referers(o))
  OBVIOUS
<1>1. CASE o = q.entry
  <2>1. Referers(o)' = Referers(o) \cup {r} /\ r \notin Referers(o)
    BY <1>1 DEF Referers, Leased
  <2>2. IsFiniteSet(Referers(o))
    BY ReferersFinite
  <2>3. Cardinality(Referers(o) \cup {r}) = Cardinality(Referers(o)) + 1
    BY <2>1, <2>2, FS_AddElement
  <2> QED
    BY <1>1, <2>1, <2>3
<1>2. CASE o # q.entry
  <2>1. Referers(o)' = Referers(o)
    BY <1>2 DEF Referers, Leased
  <2> QED
    BY <1>2, <2>1
<1> QED
  BY <1>1, <1>2

(* A request that returns its lease. *)
LEMMA CountLeave ==
    ASSUME req \in [Requests -> Request], NEW r \in Requests, Leased(r),
           NEW q \in Request, q.phase \notin {"waiting", "holding"},
           req' = [req EXCEPT ![r] = q]
    PROVE  \A o : Cardinality(Referers(o))' =
                    IF o = req[r].entry THEN Cardinality(Referers(o)) - 1
                                        ELSE Cardinality(Referers(o))
<1> SUFFICES ASSUME NEW o
             PROVE  Cardinality(Referers(o)') =
                      IF o = req[r].entry THEN Cardinality(Referers(o)) - 1
                                          ELSE Cardinality(Referers(o))
  OBVIOUS
<1>1. CASE o = req[r].entry
  <2>1. Referers(o)' = Referers(o) \ {r} /\ r \in Referers(o)
    BY <1>1 DEF Referers, Leased
  <2>2. IsFiniteSet(Referers(o))
    BY ReferersFinite
  <2>3. Cardinality(Referers(o) \ {r}) = Cardinality(Referers(o)) - 1
    BY <2>1, <2>2, FS_RemoveElement
  <2> QED
    BY <1>1, <2>1, <2>3
<1>2. CASE o # req[r].entry
  <2>1. Referers(o)' = Referers(o)
    BY <1>2 DEF Referers, Leased
  <2> QED
    BY <1>2, <2>1
<1> QED
  BY <1>1, <1>2

-----------------------------------------------------------------------------
(* What the actions do, on a store whose leases are counted. *)

LEMMA JoinEffect ==
    ASSUME LeaseInv, NEW r \in Requests, NEW c \in Conversations, Join(r, c)
    PROVE  LET o == entries[c]
               e == heap[o]
               f == heap'[o]
               q == req'[r]
           IN  /\ o \in Objects /\ e \in Entry /\ ~Leased(r)
               /\ entries' = entries /\ clock' = clock /\ clears' = clears
               /\ req' = [req EXCEPT ![r] = q]
               /\ heap' = [heap EXCEPT ![o] = f]
               /\ q \in Request /\ q.entry = o /\ q.conv = c
               /\ q.arrived = clears[c]
               /\ f \in Entry /\ f.leases = e.leases + 1
               /\ \/ /\ q.phase = "holding" /\ ~e.locked /\ f.locked
                     /\ q.expected = f.generation
                     /\ q.projection = Projection(f.turns)
                     /\ \/ f.generation = e.generation /\ f.turns = e.turns
                        \/ f.generation = e.generation + 1 /\ f.turns = <<>>
                  \/ /\ q.phase = "waiting"
                     /\ q.expected = e.generation /\ q.projection = <<>>
                     /\ f.generation = e.generation /\ f.turns = e.turns
                     /\ f.locked = e.locked
<1> DEFINE o == entries[c]
           e == heap[o]
           d == LeaseTaken(e)
<1>1. /\ o \in Objects /\ e \in Entry /\ clock \in Nat /\ clears[c] \in Nat
      /\ heap \in [Objects -> Entry] /\ req \in [Requests -> Request]
  BY DEF LeaseInv, TypeInv, TypeOK, Join, Live
<1>2. ~Leased(r) /\ entries' = entries /\ clock' = clock /\ clears' = clears
  BY DEF Join, Leased
<1>3. /\ d \in Entry /\ d.leases = e.leases + 1 /\ d.generation = e.generation
      /\ d.turns = e.turns /\ d.locked = e.locked
  BY <1>1, LeaseTakenFields
<1>4. Stale(c, o, d, d.generation, entries) = FALSE
  BY DEF Stale
<1>5. CASE /\ ~d.locked
           /\ heap' = [heap EXCEPT ![o] = Opened(d, FALSE)]
           /\ req' = [req EXCEPT ![r] =
                        Lease(c, o, d, d.generation, FALSE, clears[c])]
  <2> DEFINE f == Opened(d, FALSE)
             q == Lease(c, o, d, d.generation, FALSE, clears[c])
  <2>1. /\ f \in Entry /\ f.locked = TRUE /\ f.leases = d.leases
        /\ \/ f.generation = d.generation /\ f.turns = d.turns
           \/ f.generation = d.generation + 1 /\ f.turns = <<>>
    BY <1>1, <1>3, OpenedFields
  <2>2. /\ q \in Request /\ q.phase = "holding" /\ q.conv = c /\ q.entry = o
        /\ q.arrived = clears[c] /\ q.expected = f.generation
        /\ q.projection = Projection(f.turns)
    <3>1. d.generation \in Nat
      BY <1>3 DEF Entry
    <3> HIDE DEF d, o
    <3>2. FreshLease(Lease(c, o, d, d.generation, FALSE, clears[c]),
                     c, o, clears[c], Opened(d, FALSE))
      BY <1>1, <1>3, <3>1, FreshLeaseFields, Zenon
    <3> QED
      BY <3>2 DEF FreshLease
  <2> HIDE DEF f, q, d
  <2>3. heap'[o] = f /\ req'[r] = q
    BY <1>1, <1>5 DEF f, q
  <2> QED
    BY <1>1, <1>2, <1>3, <1>5, <2>1, <2>2, <2>3 DEF f, q
<1>6. CASE /\ heap' = [heap EXCEPT ![o] = [d EXCEPT !.waiters = Append(@, r)]]
           /\ req' = [req EXCEPT ![r] = Queued(c, o, d)]
  <2> DEFINE w == Append(d.waiters, r)
             f == [d EXCEPT !.waiters = w]
             q == Queued(c, o, d)
  <2>1. /\ f \in Entry /\ f.leases = d.leases /\ f.turns = d.turns
        /\ f.generation = d.generation /\ f.locked = d.locked
    <3>1. w \in Seq(Requests)
      BY <1>3 DEF Entry
    <3> HIDE DEF w, d
    <3> QED
      BY <1>3, <3>1 DEF Entry
  <2>2. /\ q \in Request /\ q.phase = "waiting" /\ q.conv = c /\ q.entry = o
        /\ q.arrived = clears[c] /\ q.expected = d.generation
        /\ q.projection = <<>>
    <3>1. d.generation \in Nat
      BY <1>3 DEF Entry
    <3> HIDE DEF d
    <3> QED
      BY <1>1, <3>1 DEF Queued, Request, Statuses
  <2> HIDE DEF f, q, d
  <2>3. heap'[o] = f /\ req'[r] = q
    BY <1>1, <1>6 DEF f, q
  <2> QED
    BY <1>1, <1>2, <1>3, <1>6, <2>1, <2>2, <2>3 DEF f, q
<1>7. \/ /\ ~d.locked
         /\ heap' = [heap EXCEPT ![o] = Opened(d, FALSE)]
         /\ req' = [req EXCEPT ![r] =
                        Lease(c, o, d, d.generation, FALSE, clears[c])]
      \/ /\ heap' = [heap EXCEPT ![o] = [d EXCEPT !.waiters = Append(@, r)]]
         /\ req' = [req EXCEPT ![r] = Queued(c, o, d)]
  BY <1>4 DEF Join, EntryOf
<1> QED
  BY <1>5, <1>6, <1>7

LEMMA OpenEffect ==
    ASSUME LeaseInv, NEW r \in Requests, NEW c \in Conversations, Open(r, c)
    PROVE  \E dropped \in SUBSET Inactive, o \in Unused, f \in Entry :
             /\ c \notin Live /\ ~Leased(r)
             /\ entries' = [Without(dropped) EXCEPT ![c] = o]
             /\ heap' = [Collected(dropped) EXCEPT ![o] = f]
             /\ req' = [req EXCEPT ![r] = req'[r]]
             /\ clock' = clock /\ clears' = clears
             /\ FreshLease(req'[r], c, o, clears[c], f)
             /\ f.leases = 1 /\ f.turns = <<>> /\ f.locked
<1>1. /\ clock \in Nat /\ clears[c] \in Nat /\ req \in [Requests -> Request]
      /\ entries \in [Conversations -> Objects \cup {None}]
  BY DEF LeaseInv, TypeInv, TypeOK
<1>2. PICK evicted \in SUBSET OldestInactive, o \in Unused :
        LET dropped == ExpiredInactive \cup evicted
            e       == LeaseTaken(NewEntry(clock))
            table   == [Without(dropped) EXCEPT ![c] = o]
            stale   == Stale(c, o, e, 0, table)
        IN  /\ entries' = table
            /\ heap' = [Collected(dropped) EXCEPT ![o] = Opened(e, stale)]
            /\ req' = [req EXCEPT ![r] = Lease(c, o, e, 0, stale, clears[c])]
  BY DEF Open
<1> DEFINE dropped == ExpiredInactive \cup evicted
           e == LeaseTaken(NewEntry(clock))
           table == [Without(dropped) EXCEPT ![c] = o]
           f == Opened(e, FALSE)
           q == Lease(c, o, e, 0, FALSE, clears[c])
<1>3. dropped \in SUBSET Inactive
  BY DEF ExpiredInactive, OldestInactive
<1>4. /\ e \in Entry /\ e.leases = 1 /\ e.generation = 0 /\ e.turns = <<>>
  <2>1. /\ NewEntry(clock) \in Entry /\ NewEntry(clock).leases = 0
        /\ NewEntry(clock).generation = 0 /\ NewEntry(clock).turns = <<>>
    BY <1>1, NewEntryType DEF NewEntry
  <2> QED
    BY <2>1, LeaseTakenFields
<1>5. Stale(c, o, e, 0, table) = FALSE
  <2>1. table[c] = o
    BY DEF Without
  <2> HIDE DEF table, e
  <2> QED
    BY <1>4, <2>1 DEF Stale
<1>6. /\ f \in Entry /\ f.leases = 1 /\ f.turns = <<>> /\ f.locked
  <2> HIDE DEF e
  <2> QED
    BY <1>1, <1>4, OpenedFields
<1>7. FreshLease(q, c, o, clears[c], f)
  <2>1. o \in Objects /\ 0 \in Nat
    BY DEF Unused
  <2> HIDE DEF e
  <2> QED
    BY <1>1, <1>4, <2>1, FreshLeaseFields, Zenon
<1>8. /\ entries' = table
      /\ heap' = [Collected(dropped) EXCEPT ![o] = f]
      /\ req' = [req EXCEPT ![r] = q]
  BY <1>2, <1>5
<1>9. c \notin Live /\ ~Leased(r) /\ clock' = clock /\ clears' = clears
  BY DEF Open, Leased
<1> HIDE DEF q, f, e, dropped
<1>10. req'[r] = q
  BY <1>1, <1>8
<1> QED
  BY <1>3, <1>6, <1>7, <1>8, <1>9, <1>10

LEMMA WakeEffect ==
    ASSUME LeaseInv, NEW r \in Requests, Wake(r)
    PROVE  LET o == req[r].entry
               c == req[r].conv
               e == heap[o]
               f == heap'[o]
               q == req'[r]
           IN  /\ req[r].phase = "waiting" /\ ~e.locked
               /\ entries' = entries /\ clock' = clock /\ clears' = clears
               /\ req' = [req EXCEPT ![r] = q]
               /\ heap' = [heap EXCEPT ![o] = f]
               /\ f \in Entry /\ f.leases = e.leases /\ f.locked
               /\ \/ /\ e.generation # req[r].expected
                     /\ f.generation = e.generation /\ f.turns = e.turns
                     /\ StaleLease(q, c, o, req[r].arrived, req[r].expected)
                  \/ /\ e.generation = req[r].expected
                     /\ FreshLease(q, c, o, req[r].arrived, f)
                     /\ \/ f.generation = e.generation /\ f.turns = e.turns
                        \/ f.generation = e.generation + 1 /\ f.turns = <<>>
<1> DEFINE o == req[r].entry
           c == req[r].conv
           e == heap[o]
           stale == Stale(c, o, e, req[r].expected, entries)
           g == Opened(e, stale)
           q == Lease(c, o, e, req[r].expected, stale, req[r].arrived)
<1>1. req[r].phase = "waiting" /\ ~e.locked /\ e.waiters # <<>>
  BY DEF Wake
<1>2. /\ o \in Objects /\ c \in Conversations /\ e \in Entry
      /\ entries[c] = o
  BY <1>1, LeasedHasLease DEF Leased
<1>3. /\ clock \in Nat /\ heap \in [Objects -> Entry]
      /\ req \in [Requests -> Request]
      /\ req[r].expected \in Nat /\ req[r].arrived \in Nat
  BY DEF LeaseInv, TypeInv, TypeOK, Request
<1>4. /\ stale \in BOOLEAN
      /\ stale <=> e.generation # req[r].expected
  BY <1>2 DEF Stale
<1>5. /\ g \in Entry /\ g.locked = TRUE /\ g.leases = e.leases
      /\ g.waiters = e.waiters
      /\ \/ g.generation = e.generation /\ g.turns = e.turns
         \/ ~stale /\ g.generation = e.generation + 1 /\ g.turns = <<>>
  <2> HIDE DEF stale, e
  <2> QED
    BY <1>2, <1>3, <1>4, OpenedFields
<1> DEFINE f == [g EXCEPT !.waiters = Tail(@)]
<1>6. /\ f \in Entry /\ f.locked = TRUE /\ f.leases = e.leases
      /\ f.generation = g.generation /\ f.turns = g.turns
  <2> DEFINE w == Tail(g.waiters)
  <2> HIDE DEF g
  <2>1. w \in Seq(Requests)
    BY <1>1, <1>5 DEF Entry
  <2> HIDE DEF w
  <2>2. f = [g EXCEPT !.waiters = w]
    BY DEF w
  <2> HIDE DEF f
  <2> QED
    BY <1>5, <2>1, <2>2 DEF Entry
<1>7. /\ heap' = [heap EXCEPT ![o] = f]
      /\ req' = [req EXCEPT ![r] = q]
      /\ entries' = entries /\ clock' = clock /\ clears' = clears
  BY DEF Wake
<1>8. CASE stale
  <2>1. StaleLease(q, c, o, req[r].arrived, req[r].expected)
    <3>1. stale = TRUE
      BY <1>4, <1>8
    <3>2. StaleLease(Lease(c, o, e, req[r].expected, TRUE, req[r].arrived),
                     c, o, req[r].arrived, req[r].expected)
      <4> HIDE DEF e, o, c
      <4> QED
        BY <1>2, <1>3, StaleLeaseFields, Zenon
    <3> QED
      BY <3>1, <3>2
  <2>2. g.generation = e.generation /\ g.turns = e.turns
    BY <1>5, <1>8
  <2> HIDE DEF f, g, q, stale
  <2>3. heap'[o] = f /\ req'[r] = q
    BY <1>2, <1>3, <1>7
  <2> QED
    BY <1>1, <1>4, <1>6, <1>7, <1>8, <2>1, <2>2, <2>3
<1>9. CASE ~stale
  <2>1. FreshLease(q, c, o, req[r].arrived, g)
    <3>1. stale = FALSE
      BY <1>4, <1>9
    <3>2. FreshLease(Lease(c, o, e, req[r].expected, FALSE, req[r].arrived),
                     c, o, req[r].arrived, Opened(e, FALSE))
      <4> HIDE DEF e, o, c
      <4> QED
        BY <1>2, <1>3, FreshLeaseFields, Zenon
    <3> QED
      BY <3>1, <3>2
  <2> HIDE DEF f, g, q, stale
  <2>2. FreshLease(q, c, o, req[r].arrived, f)
    BY <1>6, <2>1 DEF FreshLease
  <2>3. heap'[o] = f /\ req'[r] = q
    BY <1>2, <1>3, <1>7
  <2> QED
    BY <1>1, <1>4, <1>5, <1>6, <1>7, <1>9, <2>2, <2>3
<1> QED
  BY <1>8, <1>9

(* A request that leaves: e is what it left the entry o of c as, before the  *)
(* count of leases went down.                                                *)
LeftEntry(c, o, e) ==
    \/ /\ entries' = Without({c})
       /\ heap[o].leases = 1
       /\ heap'[o] = NewEntry(0)
    \/ /\ entries' = entries
       /\ heap'[o].leases = heap[o].leases - 1
       /\ heap'[o].generation = heap[o].generation
       /\ heap'[o].turns = e.turns
       /\ heap'[o].locked = e.locked
       /\ heap'[o].leases # 0 \/ heap'[o].turns # <<>>

LEMMA CancelWaitEffect ==
    ASSUME LeaseInv, NEW r \in Requests, CancelWait(r)
    PROVE  LET o == req[r].entry
           IN  /\ req[r].phase = "waiting"
               /\ clock' = clock /\ clears' = clears
               /\ req' = [req EXCEPT ![r] = Disabled("idle")]
               /\ entries' \in [Conversations -> Objects \cup {None}]
               /\ heap' \in [Objects -> Entry]
               /\ \A p \in Objects \ {o} : heap'[p] = heap[p]
               /\ LeftEntry(req[r].conv, o, heap[o])
<1> DEFINE o == req[r].entry
           c == req[r].conv
           e == heap[o]
<1>1. /\ req[r].phase = "waiting" /\ clock' = clock /\ clears' = clears
      /\ req' = [req EXCEPT ![r] = Disabled("idle")]
  BY DEF CancelWait
<1>2. /\ o \in Objects /\ c \in Conversations /\ e \in Entry
      /\ entries[c] = o /\ e.leases # 0
  BY <1>1, LeasedHasLease DEF Leased
<1>3. PICK k \in 1..Len(e.waiters) :
        Returned(c, o, [e EXCEPT !.waiters = RemoveAt(@, k)])
  BY DEF CancelWait
<1> DEFINE w == RemoveAt(e.waiters, k)
           d == [e EXCEPT !.waiters = w]
<1>4. /\ d \in Entry /\ d.leases = e.leases /\ d.generation = e.generation
      /\ d.turns = e.turns /\ d.locked = e.locked
  <2>1. w \in Seq(Requests)
    <3>1. e.waiters \in Seq(Requests)
      BY <1>2 DEF Entry
    <3> HIDE DEF e
    <3> QED
      BY <3>1 DEF RemoveAt
  <2> HIDE DEF w, e
  <2> QED
    BY <1>2, <2>1 DEF Entry
<1>5. Returned(c, o, d)
  BY <1>3
<1> HIDE DEF d
<1>6. AfterReturn(c, o, d)
  <2> HIDE DEF o, e
  <2> QED
    BY <1>2, <1>4, <1>5, ReturnedFields DEF LeaseInv
<1> QED
  BY <1>1, <1>2, <1>4, <1>6 DEF LeftEntry, AfterReturn

LEMMA ReleaseEffect ==
    ASSUME LeaseInv, NEW r \in Requests, NEW turns \in Seq(Turn),
           Release(r, turns)
    PROVE  LET q == req[r]
               o == q.entry
           IN  /\ q.phase = "holding"
               /\ clock' = clock /\ clears' = clears
               /\ req' = [req EXCEPT ![r] = Disabled("idle")]
               /\ entries' \in [Conversations -> Objects \cup {None}]
               /\ heap' \in [Objects -> Entry]
               /\ \A p \in Objects \ {o} : heap'[p] = heap[p]
               /\ \E d \in Entry :
                    /\ LeftEntry(q.conv, o, d)
                    /\ ~d.locked
                    /\ \/ d.turns = heap[o].turns
                       \/ /\ heap[o].generation = q.expected
                          /\ d.turns = Trimmed(heap[o].turns \o turns)
<1> DEFINE q == req[r]
           o == q.entry
           c == q.conv
           e == heap[o]
           k == Committed(q, e, turns)
           d == [k EXCEPT !.locked = FALSE]
<1>1. /\ q.phase = "holding" /\ clock' = clock /\ clears' = clears
      /\ req' = [req EXCEPT ![r] = Disabled("idle")]
      /\ Returned(c, o, d)
  BY DEF Release
<1>2. /\ o \in Objects /\ c \in Conversations /\ e \in Entry
      /\ entries[c] = o /\ e.leases # 0
  BY <1>1, LeasedHasLease DEF Leased
<1>3. /\ k \in Entry /\ k.leases = e.leases /\ k.generation = e.generation
      /\ \/ k.turns = e.turns
         \/ /\ e.generation = q.expected
            /\ k.turns = Trimmed(e.turns \o turns)
  BY <1>1, CommittedFields DEF Leased, LeaseInv
<1>4. /\ d \in Entry /\ d.leases = k.leases /\ d.generation = k.generation
      /\ d.turns = k.turns /\ d.locked = FALSE
  <2> HIDE DEF k
  <2> QED
    BY <1>3 DEF Entry
<1> HIDE DEF d, k
<1>5. AfterReturn(c, o, d)
  <2> HIDE DEF o, e
  <2> QED
    BY <1>1, <1>2, <1>3, <1>4, ReturnedFields DEF LeaseInv
<1>6. LeftEntry(c, o, d)
  BY <1>2, <1>3, <1>4, <1>5 DEF LeftEntry, AfterReturn
<1> QED
  BY <1>1, <1>3, <1>4, <1>5, <1>6 DEF AfterReturn

-----------------------------------------------------------------------------
(* The counting invariant is inductive. *)

LEMMA InactiveUnleased ==
    ASSUME LeaseInv, NEW r \in Requests, Leased(r)
    PROVE  req[r].conv \in Live /\ req[r].conv \notin Inactive
<1>1. /\ req[r].entry \in Objects /\ req[r].conv \in Conversations
      /\ entries[req[r].conv] = req[r].entry
      /\ heap[req[r].entry].leases # 0
  BY LeasedHasLease
<1> QED
  BY <1>1, IdentityAssumption DEF Live, Inactive, EntryOf

LEMMA LeaseInvInit ==
    ASSUME Init
    PROVE  LeaseInv
<1>1. \A r \in Requests : ~Leased(r)
  BY DEF Init, Leased, Disabled
<1>2. TypeOK
  <2>1. NewEntry(0) \in Entry /\ Disabled("idle") \in Request
    BY NewEntryType, DisabledType
  <2> QED
    BY <2>1 DEF Init, TypeOK
<1>3. LeaseAccounting
  <2> SUFFICES ASSUME NEW o \in Objects
               PROVE  heap[o].leases = Cardinality(Referers(o))
    BY DEF LeaseAccounting
  <2>1. Referers(o) = {}
    BY <1>1 DEF Referers
  <2>2. heap[o].leases = 0
    BY DEF Init, NewEntry
  <2> QED
    BY <2>1, <2>2, FS_EmptySet
<1> QED
  BY <1>1, <1>2, <1>3 DEF LeaseInv, TypeInv, LeaseNames, LeasedEntryIsLive,
                          OwnEntry, Init

LEMMA JoinKeepsLeases ==
    ASSUME LeaseInv, NEW r \in Requests, NEW c \in Conversations, Join(r, c)
    PROVE  LeaseInv'
<1> DEFINE o == entries[c]
           f == heap'[o]
           q == req'[r]
<1>1. /\ o \in Objects /\ ~Leased(r)
      /\ entries' = entries /\ clock' = clock /\ clears' = clears
      /\ req' = [req EXCEPT ![r] = q]
      /\ heap' = [heap EXCEPT ![o] = f]
      /\ q \in Request /\ q.entry = o /\ q.conv = c
      /\ q.phase \in {"waiting", "holding"}
      /\ f \in Entry /\ f.leases = heap[o].leases + 1
  BY JoinEffect
<1>2. /\ heap \in [Objects -> Entry] /\ req \in [Requests -> Request]
      /\ TypeOK
  BY DEF LeaseInv, TypeInv, TypeOK
<1> HIDE DEF o, f, q
<1>3. TypeOK'
  BY <1>1, <1>2 DEF TypeOK
<1>4. /\ LeaseNames' /\ LeasedEntryIsLive'
  BY <1>1, <1>2 DEF LeaseInv, TypeInv, LeaseNames, LeasedEntryIsLive, Leased, o
<1>5. LeaseAccounting'
  <2>1. \A p : Cardinality(Referers(p))' =
                 IF p = o THEN Cardinality(Referers(p)) + 1
                          ELSE Cardinality(Referers(p))
    BY <1>1, <1>2, CountEnter
  <2> QED
    BY <1>1, <1>2, <2>1 DEF LeaseInv, LeaseAccounting
<1> QED
  BY <1>1, <1>3, <1>4, <1>5 DEF LeaseInv, TypeInv, OwnEntry

LEMMA OpenKeepsLeases ==
    ASSUME LeaseInv, NEW r \in Requests, NEW c \in Conversations, Open(r, c)
    PROVE  LeaseInv'
<1>1. PICK dropped \in SUBSET Inactive, o \in Unused, f \in Entry :
        /\ c \notin Live /\ ~Leased(r)
        /\ entries' = [Without(dropped) EXCEPT ![c] = o]
        /\ heap' = [Collected(dropped) EXCEPT ![o] = f]
        /\ req' = [req EXCEPT ![r] = req'[r]]
        /\ clock' = clock /\ clears' = clears
        /\ FreshLease(req'[r], c, o, clears[c], f)
        /\ f.leases = 1 /\ f.turns = <<>> /\ f.locked
  BY OpenEffect
<1> DEFINE q == req'[r]
<1>2. /\ q \in Request /\ q.entry = o /\ q.conv = c
      /\ q.phase \in {"waiting", "holding"}
      /\ req' = [req EXCEPT ![r] = q]
  BY <1>1 DEF FreshLease
<1>3. /\ heap \in [Objects -> Entry] /\ req \in [Requests -> Request]
      /\ entries \in [Conversations -> Objects \cup {None}]
      /\ clock \in Nat /\ clears \in [Conversations -> Nat]
  BY DEF LeaseInv, TypeInv, TypeOK
<1>4. /\ o \in Objects /\ Referers(o) = {}
      /\ \A d \in Conversations : entries[d] # o
  BY DEF Unused
<1> HIDE DEF q
<1>5. TypeOK'
  BY <1>1, <1>2, <1>3, <1>4, WithoutType, CollectedType DEF TypeOK
<1>6. LeaseNames'
  BY <1>2, <1>3, <1>4 DEF LeaseInv, TypeInv, LeaseNames, Leased
<1>7. LeasedEntryIsLive'
  <2> SUFFICES ASSUME NEW s \in Requests, Leased(s)'
               PROVE  entries'[req'[s].conv] = req'[s].entry
    BY DEF LeasedEntryIsLive
  <2>1. CASE s = r
    BY <1>1, <1>2, <1>3, <2>1 DEF Without
  <2>2. CASE s # r
    <3>1. Leased(s) /\ req'[s] = req[s]
      BY <1>2, <1>3, <2>2 DEF Leased
    <3>2. /\ req[s].conv \in Live /\ req[s].conv \notin Inactive
          /\ req[s].conv \in Conversations
          /\ entries[req[s].conv] = req[s].entry
      BY <3>1, InactiveUnleased, LeasedHasLease
    <3>3. entries'[req[s].conv] = entries[req[s].conv]
      BY <1>1, <3>2 DEF Without
    <3> QED
      BY <3>1, <3>2, <3>3
  <2> QED
    BY <2>1, <2>2
<1>8. LeaseAccounting'
  <2>1. \A p : Cardinality(Referers(p))' =
                 IF p = o THEN Cardinality(Referers(p)) + 1
                          ELSE Cardinality(Referers(p))
    BY <1>1, <1>2, <1>3, CountEnter
  <2> SUFFICES ASSUME NEW p \in Objects
               PROVE  heap'[p].leases = Cardinality(Referers(p))'
    BY DEF LeaseAccounting
  <2>2. CASE p = o
    <3>1. Cardinality(Referers(o)) = 0
      BY <1>4, FS_EmptySet
    <3>2. heap'[o] = f
      BY <1>1, <1>4 DEF Collected
    <3> QED
      BY <1>1, <2>1, <2>2, <3>1, <3>2
  <2>3. CASE p # o
    <3>1. heap'[p].leases = heap[p].leases
      <4>1. CASE \E d \in dropped : entries[d] = p
        <5>1. heap'[p] = NewEntry(0)
          BY <1>1, <2>3, <4>1 DEF Collected
        <5>2. heap[p].leases = 0
          BY <4>1 DEF Inactive, EntryOf
        <5> QED
          BY <5>1, <5>2 DEF NewEntry
      <4>2. CASE ~\E d \in dropped : entries[d] = p
        BY <1>1, <2>3, <4>2 DEF Collected
      <4> QED
        BY <4>1, <4>2
    <3> QED
      BY <2>1, <2>3, <3>1 DEF LeaseInv, LeaseAccounting
  <2> QED
    BY <2>2, <2>3
<1>9. OwnEntry'
  <2> SUFFICES ASSUME NEW d \in Conversations, NEW d2 \in Conversations,
                      entries'[d] = entries'[d2], entries'[d] # None
               PROVE  d = d2
    BY DEF OwnEntry
  <2>1. \A x \in Conversations \ {c} :
            entries'[x] = entries[x] \/ entries'[x] = None
    BY <1>1 DEF Without
  <2>2. entries'[c] = o
    BY <1>1 DEF Without
  <2> QED
    BY <1>4, <2>1, <2>2 DEF LeaseInv, OwnEntry
<1> QED
  BY <1>5, <1>6, <1>7, <1>8, <1>9 DEF LeaseInv, TypeInv

LEMMA WakeKeepsLeases ==
    ASSUME LeaseInv, NEW r \in Requests, Wake(r)
    PROVE  LeaseInv'
<1> DEFINE o == req[r].entry
           c == req[r].conv
           f == heap'[o]
           q == req'[r]
<1>1. /\ req[r].phase = "waiting"
      /\ entries' = entries /\ clock' = clock /\ clears' = clears
      /\ req' = [req EXCEPT ![r] = q]
      /\ heap' = [heap EXCEPT ![o] = f]
      /\ f \in Entry /\ f.leases = heap[o].leases
      /\ q \in Request /\ q.phase = "holding" /\ q.conv = c /\ q.entry = o
  BY WakeEffect DEF StaleLease, FreshLease
<1>2. /\ heap \in [Objects -> Entry] /\ req \in [Requests -> Request]
      /\ TypeOK
  BY DEF LeaseInv, TypeInv, TypeOK
<1>3. /\ o \in Objects /\ c \in Conversations /\ entries[c] = o
      /\ Leased(r)
  BY <1>1, LeasedHasLease DEF Leased
<1> HIDE DEF f, q
<1>4. TypeOK'
  BY <1>1, <1>2, <1>3 DEF TypeOK
<1>5. LeaseNames' /\ LeasedEntryIsLive'
  BY <1>1, <1>2, <1>3 DEF LeaseInv, TypeInv, LeaseNames, LeasedEntryIsLive,
                          Leased
<1>6. \A p : Referers(p)' = Referers(p)
  BY <1>1, <1>2, <1>3 DEF Referers, Leased
<1>7. LeaseAccounting'
  BY <1>1, <1>2, <1>3, <1>6 DEF LeaseInv, LeaseAccounting
<1> QED
  BY <1>1, <1>4, <1>5, <1>7 DEF LeaseInv, TypeInv, OwnEntry

(* Both ways to leave: a cancelled wait and a release. *)
LEMMA LeavingKeepsLeases ==
    ASSUME LeaseInv, NEW r \in Requests, Leased(r), NEW d,
           clock' = clock, clears' = clears,
           req' = [req EXCEPT ![r] = Disabled("idle")],
           entries' \in [Conversations -> Objects \cup {None}],
           heap' \in [Objects -> Entry],
           \A p \in Objects \ {req[r].entry} : heap'[p] = heap[p],
           LeftEntry(req[r].conv, req[r].entry, d)
    PROVE  LeaseInv'
<1> DEFINE o == req[r].entry
           c == req[r].conv
           q == Disabled("idle")
<1>1. /\ o \in Objects /\ c \in Conversations /\ entries[c] = o
      /\ heap[o].leases # 0
  BY LeasedHasLease
<1>2. /\ req \in [Requests -> Request] /\ clock \in Nat
      /\ clears \in [Conversations -> Nat] /\ heap \in [Objects -> Entry]
  BY DEF LeaseInv, TypeInv, TypeOK
<1>3. q \in Request /\ q.phase = "idle"
  BY DisabledType DEF Disabled
<1> HIDE DEF q
<1>4. \A s \in Requests : Leased(s)' => s # r /\ Leased(s) /\ req'[s] = req[s]
  BY <1>2, <1>3 DEF Leased, q
<1>5. TypeOK'
  BY <1>2, <1>3 DEF TypeOK, q
<1>6. LeaseNames'
  BY <1>4 DEF LeaseInv, TypeInv, LeaseNames
<1>7. \A p : Cardinality(Referers(p))' =
               IF p = o THEN Cardinality(Referers(p)) - 1
                        ELSE Cardinality(Referers(p))
  BY <1>2, <1>3, CountLeave DEF q
<1>8. heap'[o].leases = heap[o].leases - 1
  <2>1. NewEntry(0).leases = 0
    BY DEF NewEntry
  <2> QED
    BY <2>1 DEF LeftEntry
<1>9. LeaseAccounting'
  <2> SUFFICES ASSUME NEW p \in Objects
               PROVE  heap'[p].leases = Cardinality(Referers(p))'
    BY DEF LeaseAccounting
  <2>1. heap[p].leases = Cardinality(Referers(p))
    BY DEF LeaseInv, LeaseAccounting
  <2>2. CASE p = o
    BY <1>7, <1>8, <2>1, <2>2
  <2>3. CASE p # o
    BY <1>7, <2>1, <2>3
  <2> QED
    BY <2>2, <2>3
<1>10. LeasedEntryIsLive'
  <2> SUFFICES ASSUME NEW s \in Requests, Leased(s)'
               PROVE  entries'[req'[s].conv] = req'[s].entry
    BY DEF LeasedEntryIsLive
  <2>1. s # r /\ Leased(s) /\ req'[s] = req[s]
    BY <1>4
  <2>2. /\ req[s].conv \in Conversations /\ req[s].entry \in Objects
        /\ entries[req[s].conv] = req[s].entry
    BY <2>1, LeasedHasLease
  <2>3. CASE entries' = entries
    BY <2>1, <2>2, <2>3
  <2>4. CASE entries' = Without({c}) /\ heap[o].leases = 1
    <3>1. Cardinality(Referers(o)) = 1
      BY <1>1, <2>4 DEF LeaseInv, LeaseAccounting
    <3>2. PICK x : Referers(o) = {x}
      BY <3>1, ReferersFinite, FS_Singleton
    <3>3. r \in Referers(o)
      BY DEF Referers
    <3>4. req[s].entry # o
      BY <2>1, <3>2, <3>3 DEF Referers
    <3>5. req[s].conv # c
      BY <1>1, <2>2, <3>4
    <3> QED
      BY <2>1, <2>2, <2>4, <3>5 DEF Without
  <2> QED
    BY <2>3, <2>4 DEF LeftEntry
<1>11. OwnEntry'
  <2>1. \A x \in Conversations : entries'[x] = entries[x] \/ entries'[x] = None
    BY DEF LeftEntry, Without
  <2> QED
    BY <2>1 DEF LeaseInv, OwnEntry
<1> QED
  BY <1>5, <1>6, <1>9, <1>10, <1>11 DEF LeaseInv, TypeInv

(* Steps that leave every lease alone and drop unleased entries, or none. *)
LEMMA DroppingKeepsLeases ==
    ASSUME LeaseInv, NEW dropped \in SUBSET Inactive,
           entries' = Without(dropped), heap' = Collected(dropped),
           req' \in [Requests -> Request],
           \A s \in Requests : Leased(s)' <=> Leased(s),
           \A s \in Requests : Leased(s) => req'[s] = req[s],
           clock' \in Nat, clears' \in [Conversations -> Nat]
    PROVE  LeaseInv'
<1>1. /\ entries \in [Conversations -> Objects \cup {None}]
      /\ heap \in [Objects -> Entry]
  BY DEF LeaseInv, TypeInv, TypeOK
<1>2. TypeOK'
  BY <1>1, WithoutType, CollectedType DEF TypeOK
<1>3. LeaseNames'
  BY DEF LeaseInv, TypeInv, LeaseNames
<1>4. \A p : Referers(p)' = Referers(p)
  BY DEF Referers
<1>5. LeaseAccounting'
  <2> SUFFICES ASSUME NEW p \in Objects
               PROVE  heap'[p].leases = Cardinality(Referers(p))'
    BY DEF LeaseAccounting
  <2>1. heap'[p].leases = heap[p].leases
    <3>1. CASE \E d \in dropped : entries[d] = p
      <4>1. heap'[p] = NewEntry(0)
        BY <3>1 DEF Collected
      <4>2. heap[p].leases = 0
        BY <3>1 DEF Inactive, EntryOf
      <4> QED
        BY <4>1, <4>2 DEF NewEntry
    <3>2. CASE ~\E d \in dropped : entries[d] = p
      BY <3>2 DEF Collected
    <3> QED
      BY <3>1, <3>2
  <2> QED
    BY <1>4, <2>1 DEF LeaseInv, LeaseAccounting
<1>6. LeasedEntryIsLive'
  <2> SUFFICES ASSUME NEW s \in Requests, Leased(s)'
               PROVE  entries'[req'[s].conv] = req'[s].entry
    BY DEF LeasedEntryIsLive
  <2>1. Leased(s) /\ req'[s] = req[s]
    OBVIOUS
  <2>2. /\ req[s].conv \notin Inactive /\ req[s].conv \in Conversations
        /\ entries[req[s].conv] = req[s].entry
    BY <2>1, InactiveUnleased, LeasedHasLease
  <2> QED
    BY <2>1, <2>2 DEF Without
<1>7. OwnEntry'
  <2>1. \A x \in Conversations : entries'[x] = entries[x] \/ entries'[x] = None
    BY DEF Without
  <2> QED
    BY <2>1 DEF LeaseInv, OwnEntry
<1> QED
  BY <1>2, <1>3, <1>5, <1>6, <1>7 DEF LeaseInv, TypeInv

LEMMA NothingDropped ==
    ASSUME LeaseInv
    PROVE  Without({}) = entries /\ Collected({}) = heap
BY DEF LeaseInv, TypeInv, TypeOK, Without, Collected

LEMMA RefuseKeepsLeases ==
    ASSUME LeaseInv, NEW r \in Requests, NEW c, Refuse(r, c)
    PROVE  LeaseInv'
<1>1. PICK dropped \in SUBSET Inactive :
        entries' = Without(dropped) /\ heap' = Collected(dropped)
  BY NothingDropped DEF Refuse, ExpiredInactive
<1>2. /\ ~Leased(r) /\ clock' = clock /\ clears' = clears
      /\ req' = [req EXCEPT ![r] = Disabled("stateless")]
  BY DEF Refuse, Leased
<1>3. Disabled("stateless") \in Request /\ Disabled("stateless").phase = "stateless"
  BY DisabledType DEF Disabled
<1>4. /\ req \in [Requests -> Request]
      /\ clock \in Nat /\ clears \in [Conversations -> Nat]
  BY DEF LeaseInv, TypeInv, TypeOK
<1>5. /\ req' \in [Requests -> Request]
      /\ \A s \in Requests : Leased(s)' <=> Leased(s)
      /\ \A s \in Requests : Leased(s) => req'[s] = req[s]
  BY <1>2, <1>3, <1>4 DEF Leased
<1> QED
  BY <1>1, <1>2, <1>4, <1>5, DroppingKeepsLeases

LEMMA FinishKeepsLeases ==
    ASSUME LeaseInv, NEW r \in Requests, Finish(r)
    PROVE  LeaseInv'
<1>1. /\ ~Leased(r) /\ clock' = clock /\ clears' = clears
      /\ entries' = entries /\ heap' = heap
      /\ req' = [req EXCEPT ![r] = Disabled("idle")]
  BY DEF Finish, Leased
<1>2. Disabled("idle") \in Request /\ Disabled("idle").phase = "idle"
  BY DisabledType DEF Disabled
<1>3. /\ req \in [Requests -> Request]
      /\ clock \in Nat /\ clears \in [Conversations -> Nat]
  BY DEF LeaseInv, TypeInv, TypeOK
<1>4. /\ req' \in [Requests -> Request]
      /\ \A s \in Requests : Leased(s)' <=> Leased(s)
      /\ \A s \in Requests : Leased(s) => req'[s] = req[s]
  BY <1>1, <1>2, <1>3 DEF Leased
<1>5. {} \in SUBSET Inactive
  OBVIOUS
<1>6. entries' = Without({}) /\ heap' = Collected({})
  BY <1>1, NothingDropped
<1> QED
  BY <1>1, <1>3, <1>4, <1>5, <1>6, DroppingKeepsLeases

LEMMA ClearKeepsLeases ==
    ASSUME LeaseInv, NEW c \in Conversations, Clear(c)
    PROVE  LeaseInv'
<1>1. /\ clock' = clock /\ req' = req
      /\ clears' = [clears EXCEPT ![c] = @ + 1]
  BY DEF Clear
<1>2. /\ req \in [Requests -> Request]
      /\ clock \in Nat /\ clears \in [Conversations -> Nat]
      /\ heap \in [Objects -> Entry]
      /\ entries \in [Conversations -> Objects \cup {None}]
  BY DEF LeaseInv, TypeInv, TypeOK
<1>3. clears' \in [Conversations -> Nat]
  BY <1>1, <1>2
<1>4. \A s \in Requests : Leased(s)' <=> Leased(s)
  BY <1>1 DEF Leased
<1>5. CASE \E dropped \in SUBSET Inactive :
             entries' = Without(dropped) /\ heap' = Collected(dropped)
  BY <1>1, <1>2, <1>3, <1>4, <1>5, DroppingKeepsLeases
<1>6. CASE /\ c \in Live \ Inactive
           /\ heap' = [heap EXCEPT ![entries[c]] = Invalidated(@)]
           /\ entries' = entries
  <2> DEFINE o == entries[c]
             f == Invalidated(heap[o])
  <2>1. o \in Objects
    BY <1>2, <1>6 DEF Live
  <2>2. f \in Entry /\ f.leases = heap[o].leases
    BY <1>2, <2>1, InvalidatedFields
  <2> HIDE DEF f
  <2>3. heap' = [heap EXCEPT ![o] = f]
    BY <1>2, <1>6 DEF f
  <2>4. TypeOK'
    BY <1>1, <1>2, <1>3, <1>6, <2>1, <2>2, <2>3 DEF TypeOK
  <2>5. \A p : Referers(p)' = Referers(p)
    BY <1>1 DEF Referers, Leased
  <2>6. LeaseAccounting'
    BY <1>2, <2>1, <2>2, <2>3, <2>5 DEF LeaseInv, LeaseAccounting
  <2> QED
    BY <1>1, <1>6, <2>4, <2>6 DEF LeaseInv, TypeInv, LeaseNames,
                                  LeasedEntryIsLive, OwnEntry, Leased
<1>7. \/ \E dropped \in SUBSET Inactive :
            entries' = Without(dropped) /\ heap' = Collected(dropped)
      \/ /\ c \in Live \ Inactive
         /\ heap' = [heap EXCEPT ![entries[c]] = Invalidated(@)]
         /\ entries' = entries
  BY NothingDropped DEF Clear
<1> QED
  BY <1>5, <1>6, <1>7

LEMMA SteadyKeepsLeases ==
    ASSUME LeaseInv, UNCHANGED <<entries, heap, req, clears>>, clock' \in Nat
    PROVE  LeaseInv'
<1>1. \A p : Referers(p)' = Referers(p)
  BY DEF Referers, Leased
<1> QED
  BY <1>1 DEF LeaseInv, TypeInv, TypeOK, LeaseNames, LeaseAccounting,
              LeasedEntryIsLive, OwnEntry, Leased

LEMMA CompleteIsRelease ==
    ASSUME LeaseInv, NEW r \in Requests, Complete(r)
    PROVE  \E turns \in Seq(Turn) :
             /\ Release(r, turns)
             /\ turns = <<>> \/ (Len(turns) = 1 /\ turns[1].arrived = req[r].arrived)
<1>1. PICK size \in TurnSizes :
        Release(r, <<[size |-> size, arrived |-> req[r].arrived]>>)
  BY DEF Complete
<1>2. req[r].arrived \in Nat
  BY DEF LeaseInv, TypeInv, TypeOK, Request
<1>3. [size |-> size, arrived |-> req[r].arrived] \in Turn
  BY <1>2 DEF Turn
<1> DEFINE t == [size |-> size, arrived |-> req[r].arrived]
<1>4. t.arrived = req[r].arrived
  OBVIOUS
<1> HIDE DEF t
<1>5. <<t>> \in Seq(Turn) /\ Len(<<t>>) = 1 /\ <<t>>[1] = t
  BY <1>3 DEF t
<1>6. Release(r, <<t>>)
  BY <1>1 DEF t
<1> QED
  BY <1>4, <1>5, <1>6

LEMMA FailIsRelease ==
    ASSUME NEW r \in Requests, Fail(r)
    PROVE  <<>> \in Seq(Turn) /\ Release(r, <<>>)
BY DEF Fail

LEMMA LeaseInvStep ==
    ASSUME LeaseInv, [Next]_vars
    PROVE  LeaseInv'
<1>1. ASSUME NEW r \in Requests, NEW c \in Conversations, Join(r, c)
      PROVE  LeaseInv'
  BY <1>1, JoinKeepsLeases
<1>2. ASSUME NEW r \in Requests, NEW c \in Conversations, Open(r, c)
      PROVE  LeaseInv'
  BY <1>2, OpenKeepsLeases
<1>3. ASSUME NEW r \in Requests, NEW c \in Conversations \cup {None}, Refuse(r, c)
      PROVE  LeaseInv'
  BY <1>3, RefuseKeepsLeases
<1>4. ASSUME NEW r \in Requests, Wake(r)
      PROVE  LeaseInv'
  BY <1>4, WakeKeepsLeases
<1>5. ASSUME NEW r \in Requests, CancelWait(r)
      PROVE  LeaseInv'
  BY <1>5, CancelWaitEffect, LeavingKeepsLeases DEF Leased
<1>6. ASSUME NEW r \in Requests, NEW turns \in Seq(Turn), Release(r, turns)
      PROVE  LeaseInv'
  BY <1>6, ReleaseEffect, LeavingKeepsLeases DEF Leased
<1>7. ASSUME NEW r \in Requests, Complete(r)
      PROVE  LeaseInv'
  BY <1>6, <1>7, CompleteIsRelease
<1>8. ASSUME NEW r \in Requests, Fail(r)
      PROVE  LeaseInv'
  BY <1>6, <1>8, FailIsRelease
<1>9. ASSUME NEW r \in Requests, Finish(r)
      PROVE  LeaseInv'
  BY <1>9, FinishKeepsLeases
<1>10. ASSUME NEW c \in Conversations, Clear(c)
       PROVE  LeaseInv'
  BY <1>10, ClearKeepsLeases
<1>11. clock \in Nat
  BY DEF LeaseInv, TypeInv, TypeOK
<1>12. CASE Tick
  BY <1>11, <1>12, SteadyKeepsLeases DEF Tick
<1>13. CASE UNCHANGED vars
  BY <1>11, <1>13, SteadyKeepsLeases DEF vars
<1> QED
  BY <1>1, <1>2, <1>3, <1>4, <1>5, <1>7, <1>8, <1>9, <1>10, <1>12, <1>13
     DEF Next, Step

(* Leases are counted exactly, a leased entry stays in the dict, and every   *)
(* variable keeps its type, in every behaviour of the store.                 *)
THEOREM LeaseSafety == Spec => [](TypeOK /\ LeaseProtocol)
<1>1. Init => LeaseInv
  BY LeaseInvInit
<1>2. LeaseInv /\ [Next]_vars => LeaseInv'
  BY LeaseInvStep
<1>3. LeaseInv => TypeOK /\ LeaseProtocol
  BY DEF LeaseInv, TypeInv, LeaseProtocol
<1> QED
  BY <1>1, <1>2, <1>3, PTL DEF Spec

-----------------------------------------------------------------------------
(* Locks, generations and turns. *)

(* Whoever holds an entry's lease holds its lock, alone. *)
LockHeld ==
    \A r \in Requests : req[r].phase = "holding" => heap[req[r].entry].locked

OneHolder ==
    \A r, s \in Requests :
        /\ req[r].phase = "holding" /\ req[s].phase = "holding"
        /\ req[r].entry = req[s].entry
        => r = s

(* A lease of the current generation came in after the last clear. *)
CurrentLease ==
    \A r \in Requests :
        Leased(r) => /\ req[r].expected <= heap[req[r].entry].generation
                     /\ req[r].expected = heap[req[r].entry].generation
                        => req[r].arrived = clears[req[r].conv]

StoredTurns ==
    \A c \in Conversations : entries[c] # None =>
        \A i \in DOMAIN heap[entries[c]].turns :
            heap[entries[c]].turns[i].arrived = clears[c]

ShownTurns ==
    \A r \in Requests : \A i \in DOMAIN req[r].projection :
        req[r].projection[i].arrived >= req[r].arrived

ShownIsStored ==
    \A r \in Requests :
        /\ req[r].phase = "holding"
        /\ heap[req[r].entry].generation = req[r].expected
        => req[r].projection = Projection(heap[req[r].entry].turns)

TurnInv == /\ LockHeld /\ OneHolder /\ CurrentLease
           /\ StoredTurns /\ ShownTurns /\ ShownIsStored

LEMMA ProjectionArrived ==
    ASSUME NEW turns \in Seq(Turn), NEW n,
           \A i \in DOMAIN turns : turns[i].arrived = n
    PROVE  \A i \in DOMAIN Projection(turns) : Projection(turns)[i].arrived = n
<1> SUFFICES ASSUME NEW i \in DOMAIN Projection(turns)
             PROVE  Projection(turns)[i].arrived = n
  OBVIOUS
<1>1. PICK j \in DOMAIN turns : Projection(turns)[i] = turns[j]
  BY NewestWithinKeepsTurns DEF Projection
<1> QED
  BY <1>1

(* A request r gets the lease q of an entry o nobody holds; other leased     *)
(* entries keep their fields, and o may start a new generation.              *)
GrantStep(r, o, q) ==
    /\ clears' = clears
    /\ req' = [req EXCEPT ![r] = q]
    /\ q.phase = "holding" /\ q.entry = o /\ q.conv \in Conversations
    /\ heap'[o].locked
    /\ \A s \in Requests \ {r} : req[s].phase = "holding" => req[s].entry # o
    /\ \A s \in Requests \ {r} : Leased(s) /\ req[s].entry # o
          => heap'[req[s].entry] = heap[req[s].entry]
    /\ \A s \in Requests \ {r} : Leased(s) /\ req[s].entry = o
          => \/ heap'[o].generation = heap[o].generation
             \/ heap'[o].generation = heap[o].generation + 1
    /\ StoredTurns'
    /\ \/ /\ q.expected < heap'[o].generation
          /\ q.projection = <<>>
       \/ /\ q.expected = heap'[o].generation
          /\ q.projection = Projection(heap'[o].turns)
          /\ q.arrived = clears[q.conv]

LEMMA GrantKeepsTurns ==
    ASSUME LeaseInv, TurnInv, LeaseInv',
           NEW r \in Requests, NEW o \in Objects, NEW q, GrantStep(r, o, q)
    PROVE  TurnInv'
<1> USE DEF GrantStep
<1>1. /\ req \in [Requests -> Request] /\ req' \in [Requests -> Request]
      /\ heap \in [Objects -> Entry] /\ heap' \in [Objects -> Entry]
      /\ clears \in [Conversations -> Nat]
  BY DEF LeaseInv, TypeInv, TypeOK
<1>2. req'[r] = q /\ \A s \in Requests \ {r} : req'[s] = req[s]
  BY <1>1
<1>3. q \in Request /\ heap'[o] \in Entry /\ Leased(r)'
  BY <1>1, <1>2 DEF Leased
<1>4. entries'[q.conv] = o
  BY <1>2, <1>3 DEF LeaseInv, LeasedEntryIsLive
<1>5. LockHeld'
  BY <1>2 DEF TurnInv, LockHeld, Leased
<1>6. OneHolder'
  BY <1>2 DEF TurnInv, OneHolder
<1>7. CurrentLease'
  <2> SUFFICES ASSUME NEW s \in Requests, Leased(s)'
               PROVE  /\ req'[s].expected <= heap'[req'[s].entry].generation
                      /\ req'[s].expected = heap'[req'[s].entry].generation
                         => req'[s].arrived = clears[req'[s].conv]
    BY DEF CurrentLease
  <2>1. CASE s = r
    <3>1. q.expected \in Nat /\ heap'[o].generation \in Nat
      BY <1>3 DEF Request, Entry
    <3> QED
      BY <1>2, <2>1, <3>1
  <2>2. CASE s # r
    <3>1. req'[s] = req[s] /\ Leased(s)
      BY <1>2, <2>2 DEF Leased
    <3>2. /\ req[s].expected <= heap[req[s].entry].generation
          /\ req[s].expected = heap[req[s].entry].generation
             => req[s].arrived = clears[req[s].conv]
      BY <3>1 DEF TurnInv, CurrentLease
    <3>3. CASE req[s].entry # o
      BY <2>2, <3>1, <3>2, <3>3
    <3>4. CASE req[s].entry = o
      <4>1. req[s].expected \in Nat /\ heap[o].generation \in Nat
        BY <1>1 DEF Request, Entry
      <4> QED
        BY <2>2, <3>1, <3>2, <3>4, <4>1
    <3> QED
      BY <3>3, <3>4
  <2> QED
    BY <2>1, <2>2
<1>8. ShownTurns'
  <2> SUFFICES ASSUME NEW s \in Requests, NEW i \in DOMAIN req'[s].projection
               PROVE  req'[s].projection[i].arrived >= req'[s].arrived
    BY DEF ShownTurns
  <2>1. CASE s # r
    BY <1>2, <2>1 DEF TurnInv, ShownTurns
  <2>2. CASE s = r
    <3>1. q.projection # <<>>
      BY <1>2, <2>2
    <3>2. /\ q.projection = Projection(heap'[o].turns)
          /\ q.arrived = clears[q.conv]
      BY <3>1
    <3>3. heap'[o].turns \in Seq(Turn)
      BY <1>3 DEF Entry
    <3>4. \A j \in DOMAIN heap'[o].turns :
              heap'[o].turns[j].arrived = clears[q.conv]
      BY <1>4, IdentityAssumption DEF StoredTurns
    <3>5. q.projection[i].arrived = clears[q.conv]
      <4> DEFINE t == heap'[o].turns
                 n == clears[q.conv]
      <4> HIDE DEF t, n
      <4>1. t \in Seq(Turn) /\ \A j \in DOMAIN t : t[j].arrived = n
        BY <3>3, <3>4 DEF t, n
      <4>2. \A j \in DOMAIN Projection(t) : Projection(t)[j].arrived = n
        BY <4>1, ProjectionArrived
      <4>3. i \in DOMAIN Projection(t) /\ q.projection = Projection(t)
        BY <1>2, <2>2, <3>2 DEF t
      <4>4. q.projection[i].arrived = n
        BY <4>2, <4>3
      <4> QED
        BY <4>4 DEF n
    <3> QED
      BY <1>1, <1>2, <2>2, <3>2, <3>5
  <2> QED
    BY <2>1, <2>2
<1>9. ShownIsStored'
  <2> SUFFICES ASSUME NEW s \in Requests, req'[s].phase = "holding",
                      heap'[req'[s].entry].generation = req'[s].expected
               PROVE  req'[s].projection = Projection(heap'[req'[s].entry].turns)
    BY DEF ShownIsStored
  <2>1. CASE s = r
    <3>1. q.expected \in Nat /\ heap'[o].generation \in Nat
      BY <1>3 DEF Request, Entry
    <3> QED
      BY <1>2, <2>1, <3>1
  <2>2. CASE s # r
    BY <1>2, <2>2 DEF TurnInv, ShownIsStored, Leased
  <2> QED
    BY <2>1, <2>2
<1> QED
  BY <1>5, <1>6, <1>7, <1>8, <1>9 DEF TurnInv

LEMMA TurnInvInit ==
    ASSUME Init
    PROVE  TurnInv
BY DEF Init, Disabled, TurnInv, LockHeld, OneHolder, CurrentLease, Leased,
       StoredTurns, ShownTurns, ShownIsStored

LEMMA JoinKeepsTurns ==
    ASSUME LeaseInv, TurnInv, LeaseInv',
           NEW r \in Requests, NEW c \in Conversations, Join(r, c)
    PROVE  TurnInv'
<1> DEFINE o == entries[c]
           e == heap[o]
           f == heap'[o]
           q == req'[r]
<1>1. /\ o \in Objects /\ e \in Entry /\ f \in Entry /\ ~Leased(r)
      /\ entries' = entries /\ clears' = clears
      /\ req' = [req EXCEPT ![r] = q]
      /\ heap' = [heap EXCEPT ![o] = f]
      /\ q \in Request /\ q.entry = o /\ q.conv = c
      /\ q.arrived = clears[c]
  BY JoinEffect
<1>2. \/ /\ q.phase = "holding" /\ ~e.locked /\ f.locked
         /\ q.expected = f.generation
         /\ q.projection = Projection(f.turns)
         /\ \/ f.generation = e.generation /\ f.turns = e.turns
            \/ f.generation = e.generation + 1 /\ f.turns = <<>>
      \/ /\ q.phase = "waiting"
         /\ q.expected = e.generation /\ q.projection = <<>>
         /\ f.generation = e.generation /\ f.turns = e.turns
         /\ f.locked = e.locked
  BY JoinEffect
<1>3. /\ req \in [Requests -> Request] /\ heap \in [Objects -> Entry]
      /\ \A s \in Requests : Leased(s) => req[s].entry \in Objects
  BY DEF LeaseInv, TypeInv, TypeOK, LeaseNames
<1>4. /\ \A p \in Objects \ {o} : heap'[p] = heap[p]
      /\ req'[r] = q /\ \A s \in Requests \ {r} : req'[s] = req[s]
  BY <1>1, <1>3
<1>5. StoredTurns'
  <2> SUFFICES ASSUME NEW d \in Conversations, entries[d] # None,
                      NEW i \in DOMAIN heap'[entries[d]].turns
               PROVE  heap'[entries[d]].turns[i].arrived = clears[d]
    BY <1>1 DEF StoredTurns
  <2>1. entries[d] \in Objects
    BY DEF LeaseInv, TypeInv, TypeOK
  <2>2. CASE entries[d] = o
    <3>1. f.turns = e.turns
      BY <1>2, <2>2
    <3> QED
      BY <2>2, <3>1 DEF TurnInv, StoredTurns
  <2>3. CASE entries[d] # o
    BY <1>4, <2>1, <2>3 DEF TurnInv, StoredTurns
  <2> QED
    BY <2>2, <2>3
<1>6. CASE q.phase = "holding"
  <2>1. \A s \in Requests \ {r} : req[s].phase = "holding" => req[s].entry # o
    BY <1>2, <1>6 DEF TurnInv, LockHeld
  <2>2. \A s \in Requests \ {r} : Leased(s) /\ req[s].entry # o
            => heap'[req[s].entry] = heap[req[s].entry]
    BY <1>3, <1>4
  <2>3. /\ q.expected = heap'[o].generation
        /\ q.projection = Projection(heap'[o].turns)
        /\ heap'[o].locked
        /\ \/ heap'[o].generation = heap[o].generation
           \/ heap'[o].generation = heap[o].generation + 1
    BY <1>2, <1>6
  <2> HIDE DEF q, o, e, f
  <2>4. GrantStep(r, o, q)
    BY <1>1, <1>5, <1>6, <2>1, <2>2, <2>3 DEF GrantStep
  <2> QED
    BY <1>1, <2>4, GrantKeepsTurns
<1>7. CASE q.phase = "waiting"
  <2> HIDE DEF q
  <2>1. /\ q.expected = e.generation /\ q.projection = <<>>
        /\ f.generation = e.generation /\ f.turns = e.turns
        /\ f.locked = e.locked
    BY <1>2, <1>7
  <2>2. \A p \in Objects : /\ heap'[p].generation = heap[p].generation
                           /\ heap'[p].turns = heap[p].turns
                           /\ heap'[p].locked = heap[p].locked
    BY <1>4, <2>1
  <2>3. \A s \in Requests : Leased(s) => req[s].entry \in Objects
    BY <1>3
  <2>4. LockHeld' /\ OneHolder'
    BY <1>4, <1>7, <2>2, <2>3 DEF TurnInv, LockHeld, OneHolder, Leased
  <2>5. CurrentLease'
    <3> SUFFICES ASSUME NEW s \in Requests, Leased(s)'
                 PROVE  /\ req'[s].expected <= heap'[req'[s].entry].generation
                        /\ req'[s].expected = heap'[req'[s].entry].generation
                           => req'[s].arrived = clears[req'[s].conv]
      BY <1>1 DEF CurrentLease
    <3>1. CASE s = r
      <4>1. e.generation \in Nat
        BY <1>1 DEF Entry
      <4> QED
        BY <1>1, <1>4, <2>1, <3>1, <4>1
    <3>2. CASE s # r
      <4>1. Leased(s) /\ req'[s] = req[s] /\ req[s].entry \in Objects
        BY <1>4, <2>3, <3>2 DEF Leased
      <4> QED
        BY <2>2, <4>1 DEF TurnInv, CurrentLease
    <3> QED
      BY <3>1, <3>2
  <2>6. ShownTurns'
    BY <1>4, <2>1 DEF TurnInv, ShownTurns
  <2>7. ShownIsStored'
    BY <1>4, <1>7, <2>2, <2>3 DEF TurnInv, ShownIsStored, Leased
  <2> QED
    BY <1>5, <2>4, <2>5, <2>6, <2>7 DEF TurnInv
<1> QED
  BY <1>2, <1>6, <1>7

LEMMA OpenKeepsTurns ==
    ASSUME LeaseInv, TurnInv, LeaseInv',
           NEW r \in Requests, NEW c \in Conversations, Open(r, c)
    PROVE  TurnInv'
<1>1. PICK dropped \in SUBSET Inactive, o \in Unused, f \in Entry :
        /\ c \notin Live /\ ~Leased(r)
        /\ entries' = [Without(dropped) EXCEPT ![c] = o]
        /\ heap' = [Collected(dropped) EXCEPT ![o] = f]
        /\ req' = [req EXCEPT ![r] = req'[r]]
        /\ clock' = clock /\ clears' = clears
        /\ FreshLease(req'[r], c, o, clears[c], f)
        /\ f.leases = 1 /\ f.turns = <<>> /\ f.locked
  BY OpenEffect
<1> DEFINE q == req'[r]
<1>2. /\ q.entry = o /\ q.conv = c /\ q.phase = "holding"
      /\ q.expected = f.generation /\ q.projection = Projection(f.turns)
      /\ q.arrived = clears[c]
  BY <1>1 DEF FreshLease
<1>3. o \in Objects /\ \A s \in Requests : Leased(s) => req[s].entry # o
  BY DEF Unused, Referers
<1>4. heap'[o] = f
  BY <1>1, <1>3 DEF Collected
<1>5. \A p \in Objects \ {o} :
        heap'[p] = heap[p] \/ \E d \in dropped : entries[d] = p
  BY <1>1 DEF Collected
<1>6. \A s \in Requests \ {r} : Leased(s) => heap'[req[s].entry] = heap[req[s].entry]
  <2> SUFFICES ASSUME NEW s \in Requests, Leased(s)
               PROVE  heap'[req[s].entry] = heap[req[s].entry]
    OBVIOUS
  <2>1. /\ req[s].entry \in Objects \ {o} /\ heap[req[s].entry].leases # 0
    BY <1>3, LeasedHasLease
  <2> QED
    BY <1>5, <2>1 DEF Inactive, EntryOf
<1>7. StoredTurns'
  <2> SUFFICES ASSUME NEW d \in Conversations, entries'[d] # None,
                      NEW i \in DOMAIN heap'[entries'[d]].turns
               PROVE  heap'[entries'[d]].turns[i].arrived = clears[d]
    BY <1>1 DEF StoredTurns
  <2>1. entries'[d] # o
    BY <1>1, <1>4
  <2>2. d # c /\ d \notin dropped /\ entries'[d] = entries[d]
    BY <1>1, <2>1 DEF Without
  <2>3. entries[d] \in Objects \ {o} /\ ~\E x \in dropped : entries[x] = entries[d]
    <3>1. entries[d] \in Objects
      BY <2>2 DEF LeaseInv, TypeInv, TypeOK
    <3>2. \A x \in dropped : x \in Conversations
      BY DEF Inactive, Live
    <3> QED
      BY <2>1, <2>2, <3>1, <3>2 DEF LeaseInv, OwnEntry
  <2>4. heap'[entries[d]] = heap[entries[d]]
    BY <1>5, <2>3
  <2> QED
    BY <2>2, <2>4 DEF TurnInv, StoredTurns
<1>8. \A s \in Requests \ {r} : req[s].phase = "holding" => req[s].entry # o
  BY <1>3 DEF Leased
<1>9. req' = [req EXCEPT ![r] = q] /\ clears' = clears
  BY <1>1
<1> HIDE DEF q
<1>10. GrantStep(r, o, q)
  BY <1>1, <1>2, <1>3, <1>4, <1>6, <1>7, <1>8, <1>9 DEF GrantStep
<1> QED
  BY <1>3, <1>10, GrantKeepsTurns

LEMMA WakeKeepsTurns ==
    ASSUME LeaseInv, TurnInv, LeaseInv', NEW r \in Requests, Wake(r)
    PROVE  TurnInv'
<1> DEFINE o == req[r].entry
           c == req[r].conv
           e == heap[o]
           f == heap'[o]
           q == req'[r]
<1>1. /\ req[r].phase = "waiting" /\ ~e.locked
      /\ entries' = entries /\ clears' = clears
      /\ req' = [req EXCEPT ![r] = q]
      /\ heap' = [heap EXCEPT ![o] = f]
      /\ f \in Entry /\ f.locked
  BY WakeEffect
<1>2. \/ /\ e.generation # req[r].expected
         /\ f.generation = e.generation /\ f.turns = e.turns
         /\ StaleLease(q, c, o, req[r].arrived, req[r].expected)
      \/ /\ e.generation = req[r].expected
         /\ FreshLease(q, c, o, req[r].arrived, f)
         /\ \/ f.generation = e.generation /\ f.turns = e.turns
            \/ f.generation = e.generation + 1 /\ f.turns = <<>>
  BY WakeEffect
<1>3. /\ o \in Objects /\ c \in Conversations /\ e \in Entry /\ Leased(r)
  BY <1>1, LeasedHasLease DEF Leased
<1>4. /\ req \in [Requests -> Request] /\ heap \in [Objects -> Entry]
      /\ \A s \in Requests : Leased(s) => req[s].entry \in Objects
  BY DEF LeaseInv, TypeInv, TypeOK, LeaseNames
<1>5. \A p \in Objects \ {o} : heap'[p] = heap[p]
  BY <1>1, <1>4
<1>6. StoredTurns'
  <2> SUFFICES ASSUME NEW d \in Conversations, entries[d] # None,
                      NEW i \in DOMAIN heap'[entries[d]].turns
               PROVE  heap'[entries[d]].turns[i].arrived = clears[d]
    BY <1>1 DEF StoredTurns
  <2>1. entries[d] \in Objects
    BY DEF LeaseInv, TypeInv, TypeOK
  <2>2. CASE entries[d] = o
    <3>1. f.turns = e.turns
      BY <1>2, <2>2
    <3> QED
      BY <2>2, <3>1 DEF TurnInv, StoredTurns
  <2>3. CASE entries[d] # o
    BY <1>5, <2>1, <2>3 DEF TurnInv, StoredTurns
  <2> QED
    BY <2>2, <2>3
<1>7. /\ req[r].expected <= e.generation
      /\ req[r].expected = e.generation => req[r].arrived = clears[c]
  BY <1>3 DEF TurnInv, CurrentLease
<1>8. /\ q.phase = "holding" /\ q.entry = o /\ q.conv = c
      /\ \/ q.expected < f.generation /\ q.projection = <<>>
         \/ /\ q.expected = f.generation
            /\ q.projection = Projection(f.turns)
            /\ q.arrived = clears[c]
  <2>1. CASE /\ e.generation # req[r].expected
             /\ f.generation = e.generation
             /\ StaleLease(q, c, o, req[r].arrived, req[r].expected)
    <3>1. /\ q.phase = "holding" /\ q.entry = o /\ q.conv = c
          /\ q.expected = req[r].expected /\ q.projection = <<>>
      BY <2>1 DEF StaleLease
    <3>2. req[r].expected \in Nat /\ e.generation \in Nat
      BY <1>3, <1>4 DEF Request, Entry
    <3> HIDE DEF q, o, c, e, f
    <3> QED
      BY <1>7, <2>1, <3>1, <3>2
  <2>2. CASE /\ e.generation = req[r].expected
             /\ FreshLease(q, c, o, req[r].arrived, f)
    BY <1>7, <2>2 DEF FreshLease
  <2> QED
    BY <1>2, <2>1, <2>2
<1>9. /\ \A s \in Requests \ {r} : req[s].phase = "holding" => req[s].entry # o
      /\ \A s \in Requests \ {r} : Leased(s) /\ req[s].entry # o
            => heap'[req[s].entry] = heap[req[s].entry]
      /\ \/ f.generation = e.generation
         \/ f.generation = e.generation + 1
  BY <1>1, <1>2, <1>4, <1>5 DEF TurnInv, LockHeld
<1> HIDE DEF q, o, c
<1>10. GrantStep(r, o, q)
  BY <1>1, <1>3, <1>6, <1>8, <1>9 DEF GrantStep
<1> QED
  BY <1>3, <1>10, GrantKeepsTurns

(* What a leaving request r, cancelled or released, does to turns and locks. *)
LeaveStep(r, d) ==
    /\ clears' = clears
    /\ req' = [req EXCEPT ![r] = Disabled("idle")]
    /\ \A p \in Objects \ {req[r].entry} : heap'[p] = heap[p]
    /\ LeftEntry(req[r].conv, req[r].entry, d)
    /\ \A i \in DOMAIN d.turns : d.turns[i].arrived = clears[req[r].conv]
    /\ \/ req[r].phase = "holding"
       \/ d.locked = heap[req[r].entry].locked /\ d.turns = heap[req[r].entry].turns

LEMMA LeaveKeepsTurns ==
    ASSUME LeaseInv, TurnInv, LeaseInv',
           NEW r \in Requests, Leased(r), NEW d, LeaveStep(r, d)
    PROVE  TurnInv'
<1> DEFINE o == req[r].entry
           c == req[r].conv
<1>1. /\ o \in Objects /\ c \in Conversations /\ entries[c] = o
  BY LeasedHasLease
<1>2. /\ req \in [Requests -> Request] /\ heap \in [Objects -> Entry]
      /\ clears' = clears
      /\ \A p \in Objects \ {o} : heap'[p] = heap[p]
  BY DEF LeaseInv, TypeInv, TypeOK, LeaveStep
<1>3. /\ req'[r] = Disabled("idle") /\ \A s \in Requests \ {r} : req'[s] = req[s]
  BY <1>2 DEF LeaveStep
<1>4. req'[r].phase = "idle" /\ req'[r].projection = <<>>
  BY <1>3 DEF Disabled
<1>5. \A s \in Requests : Leased(s)' => s # r /\ Leased(s) /\ req'[s] = req[s]
  BY <1>3, <1>4 DEF Leased
(* Another request with a lease on o sees only the lock and the turns change. *)
<1>6. ASSUME NEW s \in Requests, s # r, Leased(s), req[s].entry = o
      PROVE  /\ heap'[o].generation = heap[o].generation
             /\ heap'[o].turns = d.turns
             /\ heap'[o].locked = d.locked
  <2>1. Leased(s)' /\ req'[s] = req[s]
    BY <1>3, <1>6 DEF Leased
  <2>2. heap'[o].leases # 0
    <3>1. PICK x \in Objects : x = o
      BY <1>1
    <3>2. s \in Referers(x)'
      BY <1>6, <2>1, <3>1 DEF Referers, Leased
    <3>3. Referers(x)' \in SUBSET Requests
      BY DEF Referers
    <3>4. IsFiniteSet(Referers(x)')
      BY <3>3, IdentityAssumption, FS_Subset
    <3>5. Cardinality(Referers(x)') # 0
      BY <3>2, <3>4, FS_EmptySet
    <3> QED
      BY <3>1, <3>5 DEF LeaseInv, LeaseAccounting
  <2>3. heap'[o] # NewEntry(0)
    BY <2>2 DEF NewEntry
  <2> QED
    BY <2>3 DEF LeaveStep, LeftEntry
(* Such a request waits when r holds the lease. *)
<1>7. ASSUME NEW s \in Requests, s # r, req[s].phase = "holding",
             req[s].entry = o
      PROVE  /\ d.locked = heap[o].locked /\ d.turns = heap[o].turns
  <2>1. req[r].phase # "holding"
    BY <1>7 DEF TurnInv, OneHolder
  <2> QED
    BY <2>1 DEF LeaveStep
<1>8. LockHeld'
  <2> SUFFICES ASSUME NEW s \in Requests, req'[s].phase = "holding"
               PROVE  heap'[req'[s].entry].locked
    BY DEF LockHeld
  <2>1. s # r /\ Leased(s) /\ req'[s] = req[s] /\ heap[req[s].entry].locked
    BY <1>5 DEF Leased, TurnInv, LockHeld
  <2>2. CASE req[s].entry = o
    BY <1>6, <1>7, <2>1, <2>2
  <2>3. CASE req[s].entry # o
    BY <1>2, <2>1, <2>3, LeasedHasLease
  <2> QED
    BY <2>2, <2>3
<1>9. OneHolder'
  BY <1>3, <1>4 DEF TurnInv, OneHolder
<1>10. CurrentLease'
  <2> SUFFICES ASSUME NEW s \in Requests, Leased(s)'
               PROVE  /\ req'[s].expected <= heap'[req'[s].entry].generation
                      /\ req'[s].expected = heap'[req'[s].entry].generation
                         => req'[s].arrived = clears'[req'[s].conv]
    BY DEF CurrentLease
  <2>1. s # r /\ Leased(s) /\ req'[s] = req[s]
    BY <1>5
  <2>2. heap'[req[s].entry].generation = heap[req[s].entry].generation
    <3>1. CASE req[s].entry = o
      BY <1>6, <2>1, <3>1
    <3>2. CASE req[s].entry # o
      BY <1>2, <2>1, <3>2, LeasedHasLease
    <3> QED
      BY <3>1, <3>2
  <2> QED
    BY <1>2, <2>1, <2>2 DEF TurnInv, CurrentLease
<1>11. StoredTurns'
  <2> SUFFICES ASSUME NEW x \in Conversations, entries'[x] # None,
                      NEW i \in DOMAIN heap'[entries'[x]].turns
               PROVE  heap'[entries'[x]].turns[i].arrived = clears[x]
    BY <1>2 DEF StoredTurns
  <2>1. entries'[x] = entries[x] /\ entries[x] \in Objects
    BY DEF LeaseInv, TypeInv, TypeOK, LeaveStep, LeftEntry, Without
  <2>2. CASE entries[x] = o
    <3>1. x = c
      BY <1>1, <2>2, IdentityAssumption DEF LeaseInv, OwnEntry
    <3>2. entries' = entries
      BY <2>1, <3>1, IdentityAssumption DEF LeaveStep, LeftEntry, Without
    <3>3. heap'[o].turns = d.turns
      <4>1. CASE heap'[o].turns = d.turns
        BY <4>1
      <4>2. CASE heap'[o] = NewEntry(0)
        BY <2>1, <2>2, <4>2 DEF NewEntry
      <4> QED
        BY <2>1, <2>2, <4>1, <4>2 DEF LeaveStep, LeftEntry
    <3> QED
      BY <2>1, <2>2, <3>1, <3>3 DEF LeaveStep
  <2>3. CASE entries[x] # o
    BY <1>2, <2>1, <2>3 DEF TurnInv, StoredTurns
  <2> QED
    BY <2>2, <2>3
<1>12. ShownTurns'
  BY <1>3, <1>4 DEF TurnInv, ShownTurns
<1>13. ShownIsStored'
  <2> SUFFICES ASSUME NEW s \in Requests, req'[s].phase = "holding",
                      heap'[req'[s].entry].generation = req'[s].expected
               PROVE  req'[s].projection = Projection(heap'[req'[s].entry].turns)
    BY DEF ShownIsStored
  <2>1. s # r /\ Leased(s) /\ req'[s] = req[s] /\ req[s].phase = "holding"
    BY <1>5 DEF Leased
  <2>2. /\ heap'[req[s].entry].generation = heap[req[s].entry].generation
        /\ heap'[req[s].entry].turns = heap[req[s].entry].turns
    <3>1. CASE req[s].entry = o
      BY <1>6, <1>7, <2>1, <3>1
    <3>2. CASE req[s].entry # o
      BY <1>2, <2>1, <3>2, LeasedHasLease
    <3> QED
      BY <3>1, <3>2
  <2> QED
    BY <2>1, <2>2 DEF TurnInv, ShownIsStored
<1> QED
  BY <1>8, <1>9, <1>10, <1>11, <1>12, <1>13 DEF TurnInv

LEMMA LeasedTurns ==
    ASSUME LeaseInv, TurnInv, NEW r \in Requests, Leased(r)
    PROVE  LET turns == heap[req[r].entry].turns
           IN  /\ turns \in Seq(Turn)
               /\ \A i \in DOMAIN turns : turns[i].arrived = clears[req[r].conv]
<1>1. /\ req[r].entry \in Objects /\ req[r].conv \in Conversations
      /\ entries[req[r].conv] = req[r].entry /\ heap[req[r].entry] \in Entry
  BY LeasedHasLease
<1>2. entries[req[r].conv] # None
  BY <1>1, IdentityAssumption
<1> QED
  BY <1>1, <1>2 DEF TurnInv, StoredTurns, Entry

LEMMA CancelWaitKeepsTurns ==
    ASSUME LeaseInv, TurnInv, LeaseInv', NEW r \in Requests, CancelWait(r)
    PROVE  TurnInv'
<1>1. /\ req[r].phase = "waiting" /\ clears' = clears
      /\ req' = [req EXCEPT ![r] = Disabled("idle")]
      /\ \A p \in Objects \ {req[r].entry} : heap'[p] = heap[p]
      /\ LeftEntry(req[r].conv, req[r].entry, heap[req[r].entry])
  BY CancelWaitEffect
<1>2. Leased(r)
  BY <1>1 DEF Leased
<1>3. \A i \in DOMAIN heap[req[r].entry].turns :
        heap[req[r].entry].turns[i].arrived = clears[req[r].conv]
  BY <1>2, LeasedTurns
<1>4. LeaveStep(r, heap[req[r].entry])
  BY <1>1, <1>3 DEF LeaveStep
<1> QED
  BY <1>2, <1>4, LeaveKeepsTurns

LEMMA ReleaseKeepsTurns ==
    ASSUME LeaseInv, TurnInv, LeaseInv', NEW r \in Requests,
           NEW turns \in Seq(Turn), Release(r, turns),
           \A i \in DOMAIN turns : turns[i].arrived = req[r].arrived
    PROVE  TurnInv'
<1> DEFINE o == req[r].entry
<1>1. /\ req[r].phase = "holding" /\ clears' = clears
      /\ req' = [req EXCEPT ![r] = Disabled("idle")]
      /\ \A p \in Objects \ {o} : heap'[p] = heap[p]
  BY ReleaseEffect
<1>2. PICK d \in Entry :
        /\ LeftEntry(req[r].conv, o, d)
        /\ \/ d.turns = heap[o].turns
           \/ /\ heap[o].generation = req[r].expected
              /\ d.turns = Trimmed(heap[o].turns \o turns)
  BY ReleaseEffect
<1>3. Leased(r)
  BY <1>1 DEF Leased
<1>4. /\ heap[o].turns \in Seq(Turn)
      /\ \A i \in DOMAIN heap[o].turns :
            heap[o].turns[i].arrived = clears[req[r].conv]
  BY <1>3, LeasedTurns
<1>5. \A i \in DOMAIN d.turns : d.turns[i].arrived = clears[req[r].conv]
  <2>1. CASE d.turns = heap[o].turns
    BY <1>4, <2>1
  <2>2. CASE /\ heap[o].generation = req[r].expected
             /\ d.turns = Trimmed(heap[o].turns \o turns)
    <3>1. req[r].arrived = clears[req[r].conv]
      BY <1>3, <2>2 DEF TurnInv, CurrentLease
    <3> DEFINE all == heap[o].turns \o turns
    <3>2. all \in Seq(Turn)
      BY <1>4
    <3>3. \A i \in DOMAIN all : all[i].arrived = clears[req[r].conv]
      <4> SUFFICES ASSUME NEW i \in DOMAIN all
                   PROVE  all[i].arrived = clears[req[r].conv]
        OBVIOUS
      <4>1. CASE i \in DOMAIN heap[o].turns
        <5>1. all[i] = heap[o].turns[i]
          BY <1>4, <4>1
        <5> QED
          BY <1>4, <4>1, <5>1
      <4>2. CASE i \notin DOMAIN heap[o].turns
        <5>1. /\ i - Len(heap[o].turns) \in DOMAIN turns
              /\ all[i] = turns[i - Len(heap[o].turns)]
          BY <1>4, <4>2
        <5> QED
          BY <3>1, <5>1
      <4> QED
        BY <4>1, <4>2
    <3> HIDE DEF all
    <3>4. \A i \in DOMAIN Trimmed(all) : \E j \in DOMAIN all : Trimmed(all)[i] = all[j]
      BY <3>2, NewestWithinKeepsTurns DEF Trimmed
    <3> QED
      BY <2>2, <3>3, <3>4 DEF all
  <2> QED
    BY <1>2, <2>1, <2>2
<1>6. LeaveStep(r, d)
  BY <1>1, <1>2, <1>5 DEF LeaveStep
<1> QED
  BY <1>3, <1>6, LeaveKeepsTurns

(* Steps that grant no lease and only drop unleased entries. *)
DropStep(dropped) ==
    /\ entries' = Without(dropped)
    /\ heap' = Collected(dropped)
    /\ \A s \in Requests :
          /\ Leased(s)' <=> Leased(s)
          /\ Leased(s) => req'[s] = req[s]
          /\ req'[s] = req[s] \/ req'[s].projection = <<>>
    /\ \A c \in Conversations :
          clears'[c] = clears[c] \/ (entries'[c] = None /\ c \notin Live \ Inactive)

LEMMA DropKeepsTurns ==
    ASSUME LeaseInv, TurnInv, LeaseInv',
           NEW dropped \in SUBSET Inactive, DropStep(dropped)
    PROVE  TurnInv'
<1>1. ASSUME NEW s \in Requests, Leased(s)'
      PROVE  /\ Leased(s) /\ req'[s] = req[s]
             /\ heap'[req[s].entry] = heap[req[s].entry]
             /\ clears'[req[s].conv] = clears[req[s].conv]
  <2>1. Leased(s) /\ req'[s] = req[s]
    BY <1>1 DEF DropStep
  <2>2. /\ req[s].entry \in Objects /\ heap[req[s].entry].leases # 0
        /\ req[s].conv \in Conversations
        /\ req[s].conv \in Live \ Inactive
    BY <2>1, LeasedHasLease, InactiveUnleased
  <2>3. heap'[req[s].entry] = heap[req[s].entry]
    BY <2>2 DEF DropStep, Collected, Inactive, EntryOf
  <2> QED
    BY <2>1, <2>2, <2>3 DEF DropStep
<1>2. LockHeld' /\ OneHolder'
  BY <1>1 DEF TurnInv, LockHeld, OneHolder, Leased
<1>3. CurrentLease'
  BY <1>1 DEF TurnInv, CurrentLease
<1>4. ShownIsStored'
  BY <1>1 DEF TurnInv, ShownIsStored, Leased
<1>5. ShownTurns'
  BY DEF TurnInv, ShownTurns, DropStep
<1>6. StoredTurns'
  <2> SUFFICES ASSUME NEW x \in Conversations, entries'[x] # None,
                      NEW i \in DOMAIN heap'[entries'[x]].turns
               PROVE  heap'[entries'[x]].turns[i].arrived = clears'[x]
    BY DEF StoredTurns
  <2>1. /\ entries'[x] = entries[x] /\ entries[x] \in Objects /\ x \notin dropped
        /\ clears'[x] = clears[x]
    BY DEF LeaseInv, TypeInv, TypeOK, DropStep, Without
  <2>2. ~\E y \in dropped : entries[y] = entries[x]
    <3>1. \A y \in dropped : y \in Conversations
      BY DEF Inactive, Live
    <3> QED
      BY <2>1, <3>1 DEF LeaseInv, OwnEntry
  <2>3. heap'[entries[x]] = heap[entries[x]]
    BY <2>1, <2>2 DEF DropStep, Collected
  <2> QED
    BY <2>1, <2>3 DEF TurnInv, StoredTurns
<1> QED
  BY <1>2, <1>3, <1>4, <1>5, <1>6 DEF TurnInv

LEMMA RefuseKeepsTurns ==
    ASSUME LeaseInv, TurnInv, LeaseInv', NEW r \in Requests, NEW c, Refuse(r, c)
    PROVE  TurnInv'
<1>1. PICK dropped \in SUBSET Inactive :
        entries' = Without(dropped) /\ heap' = Collected(dropped)
  BY NothingDropped DEF Refuse, ExpiredInactive
<1>2. /\ ~Leased(r) /\ clears' = clears
      /\ req' = [req EXCEPT ![r] = Disabled("stateless")]
      /\ req \in [Requests -> Request]
  BY DEF Refuse, Leased, LeaseInv, TypeInv, TypeOK
<1>3. DropStep(dropped)
  BY <1>1, <1>2 DEF DropStep, Leased, Disabled
<1> QED
  BY <1>3, DropKeepsTurns

LEMMA FinishKeepsTurns ==
    ASSUME LeaseInv, TurnInv, LeaseInv', NEW r \in Requests, Finish(r)
    PROVE  TurnInv'
<1>1. /\ ~Leased(r) /\ clears' = clears
      /\ entries' = Without({}) /\ heap' = Collected({})
      /\ req' = [req EXCEPT ![r] = Disabled("idle")]
      /\ req \in [Requests -> Request]
  BY NothingDropped DEF Finish, Leased, LeaseInv, TypeInv, TypeOK
<1>2. {} \in SUBSET Inactive
  OBVIOUS
<1>3. DropStep({})
  BY <1>1 DEF DropStep, Leased, Disabled
<1> QED
  BY <1>2, <1>3, DropKeepsTurns

LEMMA ClearKeepsTurns ==
    ASSUME LeaseInv, TurnInv, LeaseInv', NEW c \in Conversations, Clear(c)
    PROVE  TurnInv'
<1>1. /\ req' = req /\ clears' = [clears EXCEPT ![c] = @ + 1]
      /\ clears \in [Conversations -> Nat] /\ heap \in [Objects -> Entry]
      /\ entries \in [Conversations -> Objects \cup {None}]
  BY DEF Clear, LeaseInv, TypeInv, TypeOK
<1>2. CASE c \notin Live /\ UNCHANGED <<entries, heap>>
  <2>1. DropStep({})
    BY <1>1, <1>2, NothingDropped DEF DropStep, Leased, Live
  <2> QED
    BY <2>1, DropKeepsTurns
<1>3. CASE c \in Inactive /\ entries' = Without({c}) /\ heap' = Collected({c})
  <2>1. DropStep({c})
    BY <1>1, <1>3 DEF DropStep, Leased, Without
  <2> QED
    BY <1>3, <2>1, DropKeepsTurns
<1>4. CASE /\ c \in Live \ Inactive
           /\ heap' = [heap EXCEPT ![entries[c]] = Invalidated(@)]
           /\ entries' = entries
  <2>1. PICK o \in Objects : o = entries[c]
    BY <1>1, <1>4 DEF Live
  <2>2. /\ heap'[o].generation = heap[o].generation + 1
        /\ heap'[o].turns = <<>>
        /\ heap'[o].locked = heap[o].locked
    BY <1>1, <1>4, <2>1, InvalidatedFields DEF LeaseInv, TypeInv, TypeOK
  <2>3. \A p \in Objects \ {o} : heap'[p] = heap[p]
    BY <1>1, <1>4, <2>1
  <2>4. \A s \in Requests : Leased(s) => /\ req[s].entry \in Objects
                                         /\ req[s].conv \in Conversations
                                         /\ entries[req[s].conv] = req[s].entry
    BY LeasedHasLease
  <2>5. LockHeld' /\ OneHolder' /\ ShownTurns'
    BY <1>1, <2>2, <2>3, <2>4
       DEF TurnInv, LockHeld, OneHolder, ShownTurns, Leased
  <2>6. ASSUME NEW s \in Requests, Leased(s)
        PROVE  req[s].entry = o => req[s].expected < heap'[o].generation
    <3>1. req[s].expected \in Nat /\ heap[o].generation \in Nat
      BY <1>1 DEF LeaseInv, TypeInv, TypeOK, Request, Entry
    <3> QED
      BY <2>2, <2>6, <3>1 DEF TurnInv, CurrentLease
  <2>7. CurrentLease'
    <3> SUFFICES ASSUME NEW s \in Requests, Leased(s)
                 PROVE  /\ req[s].expected <= heap'[req[s].entry].generation
                        /\ req[s].expected = heap'[req[s].entry].generation
                           => req[s].arrived = clears'[req[s].conv]
      BY <1>1 DEF CurrentLease, Leased
    <3>1. CASE req[s].entry = o
      <4>1. req[s].expected \in Nat /\ heap[o].generation \in Nat
        BY <1>1 DEF LeaseInv, TypeInv, TypeOK, Request, Entry
      <4> QED
        BY <2>2, <2>6, <3>1, <4>1
    <3>2. CASE req[s].entry # o
      <4>1. clears'[req[s].conv] = clears[req[s].conv]
        BY <1>1, <2>1, <2>4, <3>2
      <4> QED
        BY <2>3, <2>4, <3>2, <4>1 DEF TurnInv, CurrentLease
    <3> QED
      BY <3>1, <3>2
  <2>8. ShownIsStored'
    <3> SUFFICES ASSUME NEW s \in Requests, req[s].phase = "holding",
                        heap'[req[s].entry].generation = req[s].expected
                 PROVE  req[s].projection = Projection(heap'[req[s].entry].turns)
      BY <1>1 DEF ShownIsStored
    <3>1. Leased(s)
      BY DEF Leased
    <3>2. CASE req[s].entry = o
      <4>1. req[s].expected \in Nat /\ heap[o].generation \in Nat
        BY <1>1 DEF LeaseInv, TypeInv, TypeOK, Request, Entry
      <4> QED
        BY <2>2, <2>6, <3>1, <3>2, <4>1
    <3>3. CASE req[s].entry # o
      BY <2>3, <2>4, <3>1, <3>3 DEF TurnInv, ShownIsStored
    <3> QED
      BY <3>2, <3>3
  <2>9. StoredTurns'
    <3> SUFFICES ASSUME NEW x \in Conversations, entries[x] # None,
                        NEW i \in DOMAIN heap'[entries[x]].turns
                 PROVE  heap'[entries[x]].turns[i].arrived = clears'[x]
      BY <1>4 DEF StoredTurns
    <3>1. entries[x] # o /\ entries[x] \in Objects
      BY <1>1, <2>2
    <3>2. clears'[x] = clears[x]
      BY <1>1, <2>1, <3>1
    <3> QED
      BY <2>3, <3>1, <3>2 DEF TurnInv, StoredTurns
  <2> QED
    BY <2>5, <2>7, <2>8, <2>9 DEF TurnInv
<1> QED
  BY <1>2, <1>3, <1>4 DEF Clear

LEMMA SteadyKeepsTurns ==
    ASSUME TurnInv, UNCHANGED <<entries, heap, req, clears>>
    PROVE  TurnInv'
BY DEF TurnInv, LockHeld, OneHolder, CurrentLease, StoredTurns, ShownTurns,
       ShownIsStored, Leased

StoreInv == LeaseInv /\ TurnInv

LEMMA StoreInvStep ==
    ASSUME StoreInv, [Next]_vars
    PROVE  StoreInv'
<1> USE DEF StoreInv
<1>1. LeaseInv'
  BY LeaseInvStep
<1>2. ASSUME NEW r \in Requests, NEW c \in Conversations, Join(r, c)
      PROVE  TurnInv'
  BY <1>1, <1>2, JoinKeepsTurns
<1>3. ASSUME NEW r \in Requests, NEW c \in Conversations, Open(r, c)
      PROVE  TurnInv'
  BY <1>1, <1>3, OpenKeepsTurns
<1>4. ASSUME NEW r \in Requests, NEW c \in Conversations \cup {None}, Refuse(r, c)
      PROVE  TurnInv'
  BY <1>1, <1>4, RefuseKeepsTurns
<1>5. ASSUME NEW r \in Requests, Wake(r)
      PROVE  TurnInv'
  BY <1>1, <1>5, WakeKeepsTurns
<1>6. ASSUME NEW r \in Requests, CancelWait(r)
      PROVE  TurnInv'
  BY <1>1, <1>6, CancelWaitKeepsTurns
<1>7. ASSUME NEW r \in Requests, Complete(r)
      PROVE  TurnInv'
  <2>1. PICK turns \in Seq(Turn) :
          /\ Release(r, turns)
          /\ turns = <<>> \/ (Len(turns) = 1 /\ turns[1].arrived = req[r].arrived)
    BY <1>7, CompleteIsRelease
  <2>2. \A i \in DOMAIN turns : turns[i].arrived = req[r].arrived
    <3>1. CASE turns = <<>>
      BY <3>1
    <3>2. CASE Len(turns) = 1 /\ turns[1].arrived = req[r].arrived
      BY <3>2
    <3> QED
      BY <2>1, <3>1, <3>2
  <2> QED
    BY <1>1, <2>1, <2>2, ReleaseKeepsTurns
<1>8. ASSUME NEW r \in Requests, Fail(r)
      PROVE  TurnInv'
  <2>1. /\ <<>> \in Seq(Turn) /\ Release(r, <<>>)
        /\ \A i \in DOMAIN <<>> : <<>>[i].arrived = req[r].arrived
    BY <1>8, FailIsRelease
  <2> QED
    BY <1>1, <2>1, ReleaseKeepsTurns
<1>9. ASSUME NEW r \in Requests, Finish(r)
      PROVE  TurnInv'
  BY <1>1, <1>9, FinishKeepsTurns
<1>10. ASSUME NEW c \in Conversations, Clear(c)
       PROVE  TurnInv'
  BY <1>1, <1>10, ClearKeepsTurns
<1>11. CASE Tick
  BY <1>1, <1>11, SteadyKeepsTurns DEF Tick
<1>12. CASE UNCHANGED vars
  BY <1>1, <1>12, SteadyKeepsTurns DEF vars
<1> QED
  BY <1>1, <1>2, <1>3, <1>4, <1>5, <1>6, <1>7, <1>8, <1>9, <1>10, <1>11, <1>12
     DEF Next, Step

LEMMA StoreInvImplies ==
    ASSUME StoreInv
    PROVE  SerialHolder /\ ClearedIsForgotten /\ ProjectionCurrent
<1> USE DEF StoreInv
<1>1. \A r \in Requests : req[r].phase = "holding" =>
            entries[req[r].conv] = req[r].entry
  BY LeasedHasLease DEF Leased
<1>2. SerialHolder
  BY <1>1 DEF SerialHolder, TurnInv, OneHolder
<1>3. ProjectionCurrent
  BY <1>1 DEF ProjectionCurrent, EntryOf, TurnInv, ShownIsStored
<1>4. ClearedIsForgotten
  BY DEF ClearedIsForgotten, Live, EntryOf, TurnInv, StoredTurns, ShownTurns
<1> QED
  BY <1>2, <1>3, <1>4

LEMMA StoreInvAlways == Spec => []StoreInv
<1>1. Init => StoreInv
  BY LeaseInvInit, TurnInvInit DEF StoreInv
<1>2. StoreInv /\ [Next]_vars => StoreInv'
  BY StoreInvStep
<1> QED
  BY <1>1, <1>2, PTL DEF Spec

(* No two requests ever answer in the same conversation. *)
THEOREM SerialSafety == Spec => []SerialHolder
<1>1. StoreInv => SerialHolder
  BY StoreInvImplies
<1> QED
  BY <1>1, StoreInvAlways, PTL

(* A cleared turn is never stored again nor shown to a later request. *)
THEOREM ClearSafety == Spec => []ClearedIsForgotten
<1>1. StoreInv => ClearedIsForgotten
  BY StoreInvImplies
<1> QED
  BY <1>1, StoreInvAlways, PTL

(* What a request with a valid lease was shown is what the entry holds. *)
THEOREM ProjectionSafety == Spec => []ProjectionCurrent
<1>1. StoreInv => ProjectionCurrent
  BY StoreInvImplies
<1> QED
  BY <1>1, StoreInvAlways, PTL

-----------------------------------------------------------------------------
(* Limits. *)

RoomKept == Cardinality(Live) <= MaxSessions

(* An entry stays in the dict for a lease or for a turn. *)
KeptForReason ==
    \A c \in Conversations : entries[c] # None =>
        heap[entries[c]].leases # 0 \/ heap[entries[c]].turns # <<>>

Fits(turns, points) == CodePoints(turns) <= points

TurnsFit == \A o \in Objects : /\ Len(heap[o].turns) <= MaxTurns
                               /\ Fits(heap[o].turns, MaxStored)

ShownFits == \A r \in Requests : Fits(req[r].projection, MaxProjected)

LimitInv == RoomKept /\ KeptForReason /\ TurnsFit /\ ShownFits

LEMMA EmptyFits ==
    Len(<<>>) <= MaxTurns /\ Fits(<<>>, MaxStored) /\ Fits(<<>>, MaxProjected)
<1>1. <<>> \in Seq(Turn) /\ Len(<<>>) = 0
  OBVIOUS
<1>2. CodePoints(<<>>) = 0
  BY <1>1, PrefixSums
<1> QED
  BY <1>1, <1>2, LimitsAssumption DEF Fits

LEMMA TrimmedFits ==
    ASSUME NEW turns \in Seq(Turn)
    PROVE  Len(Trimmed(turns)) <= MaxTurns /\ Fits(Trimmed(turns), MaxStored)
BY NewestWithinFits, LimitsAssumption DEF Trimmed, Fits

LEMMA ProjectionFits ==
    ASSUME NEW turns \in Seq(Turn) PROVE Fits(Projection(turns), MaxProjected)
BY NewestWithinFits, LimitsAssumption DEF Projection, Fits

(* What a request leaves or drops keeps what it was, or becomes empty.       *)
LEMMA FitsKept ==
    ASSUME TurnsFit, ShownFits,
           \A o \in Objects : \/ heap'[o].turns = heap[o].turns \/ heap'[o].turns = <<>>
                              \/ \E t \in Seq(Turn) : heap'[o].turns = Trimmed(t),
           \A r \in Requests : \/ req'[r].projection = req[r].projection
                               \/ req'[r].projection = <<>>
                               \/ \E t \in Seq(Turn) : req'[r].projection = Projection(t)
    PROVE  TurnsFit' /\ ShownFits'
<1>1. ASSUME NEW o \in Objects
      PROVE  Len(heap'[o].turns) <= MaxTurns /\ Fits(heap'[o].turns, MaxStored)
  BY EmptyFits, TrimmedFits DEF TurnsFit
<1>2. ASSUME NEW r \in Requests PROVE Fits(req'[r].projection, MaxProjected)
  BY EmptyFits, ProjectionFits DEF ShownFits
<1> QED
  BY <1>1, <1>2 DEF TurnsFit, ShownFits, Fits

LEMMA LiveFinite ==
    ASSUME NEW S \in SUBSET Conversations
    PROVE  /\ IsFiniteSet(S) /\ Cardinality(S) \in Nat
           /\ \A T \in SUBSET S : Cardinality(T) <= Cardinality(S)
BY IdentityAssumption, FS_Subset, FS_CardinalityType

LEMMA FewerKeepRoom ==
    ASSUME RoomKept, \A c \in Conversations : entries'[c] # None => entries[c] # None
    PROVE  RoomKept'
<1> DEFINE after == {c \in Conversations : entries'[c] # None}
<1>1. after \in SUBSET Live /\ Live \in SUBSET Conversations
  BY DEF Live
<1>2. Live' = after
  BY DEF Live
<1> HIDE DEF after
<1>3. Cardinality(after) <= Cardinality(Live) /\ Cardinality(Live) \in Nat
      /\ Cardinality(after) \in Nat
  BY <1>1, LiveFinite
<1> QED
  BY <1>2, <1>3, LimitsAssumption DEF RoomKept

(* No entry yet, and room for one more: the newest conversation takes it.    *)
LEMMA OpenKeepsRoom ==
    ASSUME LeaseInv, RoomKept, NEW r \in Requests, NEW c \in Conversations, Open(r, c)
    PROVE  RoomKept'
<1>1. PICK evicted \in SUBSET OldestInactive, o \in Unused :
          /\ Cardinality(evicted) =
                 IF Cardinality(Live \ ExpiredInactive) >= MaxSessions THEN 1 ELSE 0
          /\ entries' = [Without(ExpiredInactive \cup evicted) EXCEPT ![c] = o]
  BY DEF Open
<1> DEFINE left == Live \ ExpiredInactive
           kept == left \ evicted
<1>2. /\ left \in SUBSET Conversations /\ kept \in SUBSET Conversations
      /\ evicted \in SUBSET left
  BY DEF Live, OldestInactive, Inactive
<1>3. Live' \subseteq kept \cup {c}
  BY <1>1 DEF Live, Without
<1> HIDE DEF left, kept
<1>4. IsFiniteSet(kept) /\ Cardinality(kept) \in Nat /\ Cardinality(left) \in Nat
      /\ IsFiniteSet(left) /\ IsFiniteSet(evicted)
  BY <1>2, LiveFinite, FS_Subset
<1>5. Cardinality(kept) < MaxSessions
  <2>1. CASE Cardinality(left) >= MaxSessions
    <3>1. Cardinality(evicted) = 1
      BY <1>1, <2>1 DEF left
    <3>2. PICK d : evicted = {d}
      BY <1>4, <3>1, FS_Singleton
    <3>3. kept = left \ {d} /\ d \in left
      BY <1>2, <3>2 DEF kept
    <3>4. Cardinality(kept) = Cardinality(left) - 1
      BY <1>4, <3>3, FS_RemoveElement
    <3>5. Cardinality(left) <= Cardinality(Live) /\ Cardinality(Live) \in Nat
      <4>1. Live \in SUBSET Conversations /\ left \in SUBSET Live
        BY DEF Live, left
      <4> QED
        BY <4>1, LiveFinite
    <3> QED
      BY <1>4, <3>4, <3>5, LimitsAssumption DEF RoomKept
  <2>2. CASE ~(Cardinality(left) >= MaxSessions)
    <3>1. Cardinality(kept) <= Cardinality(left)
      BY <1>2, LiveFinite DEF kept
    <3> QED
      BY <1>4, <2>2, <3>1, LimitsAssumption
  <2> QED
    BY <2>1, <2>2
<1>6. /\ IsFiniteSet(kept \cup {c})
      /\ Cardinality(kept \cup {c}) <= Cardinality(kept) + 1
      /\ Cardinality(kept \cup {c}) \in Nat
  <2>1. /\ IsFiniteSet(kept \cup {c})
        /\ Cardinality(kept \cup {c}) =
               IF c \in kept THEN Cardinality(kept) ELSE Cardinality(kept) + 1
    BY <1>4, FS_AddElement
  <2> QED
    BY <1>4, <2>1
<1> DEFINE after == {x \in Conversations : entries'[x] # None}
<1>7. Live' = after
  BY DEF Live
<1>8. after \in SUBSET (kept \cup {c})
  BY <1>3, <1>7
<1> HIDE DEF after
<1>9. Cardinality(after) <= Cardinality(kept \cup {c}) /\ Cardinality(after) \in Nat
  BY <1>6, <1>8, FS_Subset, FS_CardinalityType
<1> QED
  BY <1>4, <1>5, <1>6, <1>7, <1>9, LimitsAssumption DEF RoomKept

LEMMA LimitInvInit == ASSUME Init PROVE LimitInv
<1>1. Live = {}
  BY DEF Init, Live
<1>2. RoomKept
  BY <1>1, FS_EmptySet, LimitsAssumption DEF RoomKept
<1>3. TurnsFit /\ ShownFits
  BY EmptyFits DEF Init, TurnsFit, ShownFits, NewEntry, Disabled
<1> QED
  BY <1>2, <1>3 DEF Init, KeptForReason, LimitInv

LEMMA JoinKeepsLimits ==
    ASSUME LeaseInv, LimitInv, NEW r \in Requests, NEW c \in Conversations, Join(r, c)
    PROVE  LimitInv'
<1> DEFINE o == entries[c]
           e == heap[o]
           f == heap'[o]
           q == req'[r]
<1>1. /\ o \in Objects /\ e \in Entry /\ entries' = entries
      /\ req' = [req EXCEPT ![r] = q] /\ heap' = [heap EXCEPT ![o] = f]
      /\ f \in Entry /\ f.leases = e.leases + 1
      /\ f.turns = e.turns \/ f.turns = <<>>
      /\ q.projection = Projection(f.turns) \/ q.projection = <<>>
  BY JoinEffect
<1>2. /\ heap \in [Objects -> Entry] /\ req \in [Requests -> Request]
      /\ f.turns \in Seq(Turn) /\ f.leases # 0
  BY <1>1 DEF LeaseInv, TypeInv, TypeOK, Entry
<1> HIDE DEF o, e, f, q
<1>3. \A p \in Objects : p = o \/ heap'[p] = heap[p]
  BY <1>1, <1>2
<1>4. \A p \in Objects : heap'[p].turns = heap[p].turns \/ heap'[p].turns = <<>>
  BY <1>1, <1>3 DEF e, f
<1>5. \A s \in Requests : \/ req'[s].projection = req[s].projection
                          \/ req'[s].projection = <<>>
                          \/ \E t \in Seq(Turn) : req'[s].projection = Projection(t)
  BY <1>1, <1>2 DEF q
<1>6. KeptForReason'
  <2> SUFFICES ASSUME NEW d \in Conversations, entries[d] # None
               PROVE  heap'[entries[d]].leases # 0 \/ heap'[entries[d]].turns # <<>>
    BY <1>1 DEF KeptForReason
  <2>1. entries[d] \in Objects
    BY DEF LeaseInv, TypeInv, TypeOK
  <2> QED
    BY <1>2, <1>3, <2>1 DEF f, LimitInv, KeptForReason
<1> QED
  BY <1>1, <1>4, <1>5, <1>6, FitsKept, FewerKeepRoom DEF LimitInv

LEMMA WakeKeepsLimits ==
    ASSUME LeaseInv, LimitInv, NEW r \in Requests, Wake(r) PROVE LimitInv'
<1> DEFINE o == req[r].entry
           e == heap[o]
           f == heap'[o]
           q == req'[r]
<1>1. Leased(r)
  BY WakeEffect DEF Leased
<1>2. /\ entries' = entries /\ req' = [req EXCEPT ![r] = q] /\ heap' = [heap EXCEPT ![o] = f]
      /\ f \in Entry /\ f.leases = e.leases
      /\ f.turns = e.turns \/ f.turns = <<>>
      /\ q.projection = Projection(f.turns) \/ q.projection = <<>>
  BY WakeEffect DEF StaleLease, FreshLease
<1>3. /\ heap \in [Objects -> Entry] /\ req \in [Requests -> Request] /\ o \in Objects
      /\ f.turns \in Seq(Turn) /\ f.leases # 0
  BY <1>1, <1>2, LeasedHasLease DEF LeaseInv, TypeInv, TypeOK, Entry
<1> HIDE DEF o, e, f, q
<1>4. \A p \in Objects : p = o \/ heap'[p] = heap[p]
  BY <1>2, <1>3
<1>5. \A p \in Objects : heap'[p].turns = heap[p].turns \/ heap'[p].turns = <<>>
  BY <1>2, <1>4 DEF e, f
<1>6. \A s \in Requests : \/ req'[s].projection = req[s].projection
                          \/ req'[s].projection = <<>>
                          \/ \E t \in Seq(Turn) : req'[s].projection = Projection(t)
  BY <1>2, <1>3 DEF q
<1>7. KeptForReason'
  <2> SUFFICES ASSUME NEW d \in Conversations, entries[d] # None
               PROVE  heap'[entries[d]].leases # 0 \/ heap'[entries[d]].turns # <<>>
    BY <1>2 DEF KeptForReason
  <2>1. entries[d] \in Objects
    BY DEF LeaseInv, TypeInv, TypeOK
  <2> QED
    BY <1>3, <1>4, <2>1 DEF f, LimitInv, KeptForReason
<1> QED
  BY <1>2, <1>5, <1>6, <1>7, FitsKept, FewerKeepRoom DEF LimitInv

(* A request that leaves takes an entry without turns along, or leaves one   *)
(* with a turn or another lease.                                             *)
LEMMA LeavingKeepsLimits ==
    ASSUME LeaseInv, LimitInv, NEW r \in Requests, Leased(r), NEW d,
           LeftEntry(req[r].conv, req[r].entry, d),
           \/ d.turns = heap[req[r].entry].turns
           \/ \E t \in Seq(Turn) : d.turns = Trimmed(t),
           req' = [req EXCEPT ![r] = Disabled("idle")],
           \A p \in Objects \ {req[r].entry} : heap'[p] = heap[p]
    PROVE  LimitInv'
<1> DEFINE o == req[r].entry
           c == req[r].conv
<1>1. o \in Objects /\ c \in Conversations /\ entries[c] = o
  BY LeasedHasLease
<1>2. \A x \in Conversations : entries'[x] = entries[x] \/ (x = c /\ entries'[x] = None)
  BY DEF LeftEntry, Without
<1>3. RoomKept'
  BY <1>2, FewerKeepRoom DEF LimitInv
<1>4. KeptForReason'
  <2> SUFFICES ASSUME NEW x \in Conversations, entries'[x] # None
               PROVE  heap'[entries'[x]].leases # 0 \/ heap'[entries'[x]].turns # <<>>
    BY DEF KeptForReason
  <2>1. entries'[x] = entries[x] /\ entries[x] \in Objects
    BY <1>2 DEF LeaseInv, TypeInv, TypeOK
  <2>2. CASE entries[x] # o
    BY <2>1, <2>2 DEF LimitInv, KeptForReason
  <2>3. CASE entries[x] = o
    <3>1. x = c
      BY <1>1, <2>1, <2>3, IdentityAssumption DEF LeaseInv, OwnEntry
    <3> QED
      BY <2>1, <2>3, <3>1 DEF LeftEntry, Without
  <2> QED
    BY <2>2, <2>3
<1>5. \A p \in Objects : \/ heap'[p].turns = heap[p].turns \/ heap'[p].turns = <<>>
                         \/ \E t \in Seq(Turn) : heap'[p].turns = Trimmed(t)
  <2>1. NewEntry(0).turns = <<>>
    BY DEF NewEntry
  <2> QED
    BY <2>1 DEF LeftEntry
<1>6. \A s \in Requests : req'[s].projection = req[s].projection \/ req'[s].projection = <<>>
  <2>1. Disabled("idle").projection = <<>> /\ req \in [Requests -> Request]
    BY DEF Disabled, LeaseInv, TypeInv, TypeOK
  <2> QED
    BY <2>1
<1>7. TurnsFit' /\ ShownFits'
  BY <1>5, <1>6, FitsKept DEF LimitInv
<1> QED
  BY <1>3, <1>4, <1>7 DEF LimitInv

(* Entries without leases are dropped, the others are left alone.            *)
LEMMA DroppingKeepsLimits ==
    ASSUME LeaseInv, LimitInv, NEW dropped \in SUBSET Inactive,
           entries' = Without(dropped), heap' = Collected(dropped),
           \A s \in Requests : req'[s] = req[s] \/ req'[s].projection = <<>>
    PROVE  LimitInv'
<1>1. NewEntry(0).turns = <<>>
  BY DEF NewEntry
<1>2. \A p \in Objects : heap'[p].turns = heap[p].turns \/ heap'[p].turns = <<>>
  BY <1>1 DEF Collected
<1>3. \A x \in Conversations : entries'[x] # None => entries'[x] = entries[x] /\ x \notin dropped
  BY DEF Without
<1>4. KeptForReason'
  <2> SUFFICES ASSUME NEW x \in Conversations, entries'[x] # None
               PROVE  heap'[entries'[x]].leases # 0 \/ heap'[entries'[x]].turns # <<>>
    BY DEF KeptForReason
  <2>1. /\ entries'[x] = entries[x] /\ entries[x] \in Objects /\ x \notin dropped
    BY <1>3 DEF LeaseInv, TypeInv, TypeOK
  <2>2. \A y \in dropped : entries[y] # entries[x]
    BY <2>1, IdentityAssumption DEF LeaseInv, OwnEntry, Inactive, Live
  <2>3. heap'[entries[x]] = heap[entries[x]]
    BY <2>1, <2>2 DEF Collected
  <2> QED
    BY <2>1, <2>3, IdentityAssumption DEF LimitInv, KeptForReason
<1>5. TurnsFit' /\ ShownFits'
  BY <1>2, FitsKept DEF LimitInv
<1> QED
  BY <1>3, <1>4, <1>5, FewerKeepRoom DEF LimitInv

LEMMA OpenKeepsLimits ==
    ASSUME LeaseInv, LimitInv, NEW r \in Requests, NEW c \in Conversations, Open(r, c)
    PROVE  LimitInv'
<1>1. PICK dropped \in SUBSET Inactive, o \in Unused, f \in Entry :
          /\ entries' = [Without(dropped) EXCEPT ![c] = o]
          /\ heap' = [Collected(dropped) EXCEPT ![o] = f]
          /\ req' = [req EXCEPT ![r] = req'[r]]
          /\ FreshLease(req'[r], c, o, clears[c], f)
          /\ f.leases = 1 /\ f.turns = <<>>
  BY OpenEffect
<1>2. /\ o \in Objects /\ \A x \in Conversations : entries[x] # o
      /\ req \in [Requests -> Request]
  BY DEF Unused, LeaseInv, TypeInv, TypeOK
<1>3. /\ heap'[o] = f /\ \A p \in Objects \ {o} : heap'[p] = Collected(dropped)[p]
      /\ entries'[c] = o /\ \A x \in Conversations \ {c} : entries'[x] = Without(dropped)[x]
  BY <1>1, <1>2 DEF Collected, Without
<1>4. RoomKept'
  BY OpenKeepsRoom DEF LimitInv
<1>5. KeptForReason'
  <2> SUFFICES ASSUME NEW x \in Conversations, entries'[x] # None
               PROVE  heap'[entries'[x]].leases # 0 \/ heap'[entries'[x]].turns # <<>>
    BY DEF KeptForReason
  <2>1. CASE x = c
    BY <1>1, <1>3, <2>1
  <2>2. CASE x # c
    <3>1. /\ entries'[x] = entries[x] /\ entries[x] \in Objects \ {o} /\ x \notin dropped
      BY <1>2, <1>3, <2>2 DEF Without, LeaseInv, TypeInv, TypeOK
    <3>2. \A y \in dropped : entries[y] # entries[x]
      BY <2>2, <3>1, IdentityAssumption DEF LeaseInv, OwnEntry, Inactive, Live
    <3>3. heap'[entries[x]] = heap[entries[x]]
      BY <1>3, <3>1, <3>2 DEF Collected
    <3> QED
      BY <3>1, <3>3, IdentityAssumption DEF LimitInv, KeptForReason
  <2> QED
    BY <2>1, <2>2
<1>6. \A p \in Objects : heap'[p].turns = heap[p].turns \/ heap'[p].turns = <<>>
  <2>1. NewEntry(0).turns = <<>>
    BY DEF NewEntry
  <2> QED
    BY <1>1, <1>3, <2>1 DEF Collected
<1>7. \A s \in Requests : \/ req'[s].projection = req[s].projection
                          \/ req'[s].projection = <<>>
                          \/ \E t \in Seq(Turn) : req'[s].projection = Projection(t)
  <2>1. req'[r].projection = Projection(f.turns) /\ f.turns \in Seq(Turn)
    BY <1>1 DEF FreshLease, Entry
  <2> QED
    BY <1>1, <1>2, <2>1
<1> QED
  BY <1>4, <1>5, <1>6, <1>7, FitsKept DEF LimitInv

LEMMA RefuseKeepsLimits ==
    ASSUME LeaseInv, LimitInv, NEW r \in Requests, NEW c, Refuse(r, c)
    PROVE  LimitInv'
<1>1. PICK dropped \in SUBSET Inactive :
        entries' = Without(dropped) /\ heap' = Collected(dropped)
  BY NothingDropped DEF Refuse, ExpiredInactive
<1>2. \A s \in Requests : req'[s] = req[s] \/ req'[s].projection = <<>>
  BY DEF Refuse, Disabled, LeaseInv, TypeInv, TypeOK
<1> QED
  BY <1>1, <1>2, DroppingKeepsLimits

LEMMA FinishKeepsLimits ==
    ASSUME LeaseInv, LimitInv, NEW r \in Requests, Finish(r)
    PROVE  LimitInv'
<1>1. entries' = Without({}) /\ heap' = Collected({})
  BY NothingDropped DEF Finish
<1>2. \A s \in Requests : req'[s] = req[s] \/ req'[s].projection = <<>>
  BY DEF Finish, Disabled, LeaseInv, TypeInv, TypeOK
<1>3. {} \in SUBSET Inactive
  OBVIOUS
<1> QED
  BY <1>1, <1>2, <1>3, DroppingKeepsLimits

LEMMA ClearKeepsLimits ==
    ASSUME LeaseInv, LimitInv, NEW c \in Conversations, Clear(c)
    PROVE  LimitInv'
<1>1. req' = req
  BY DEF Clear
<1>2. CASE c \notin Live /\ UNCHANGED <<entries, heap>>
  <2>1. entries' = Without({}) /\ heap' = Collected({}) /\ {} \in SUBSET Inactive
    BY <1>2, NothingDropped
  <2> QED
    BY <1>1, <2>1, DroppingKeepsLimits
<1>3. CASE c \in Inactive /\ entries' = Without({c}) /\ heap' = Collected({c})
  BY <1>1, <1>3, DroppingKeepsLimits
<1>4. CASE /\ c \in Live \ Inactive
           /\ heap' = [heap EXCEPT ![entries[c]] = Invalidated(@)]
           /\ entries' = entries
  <2>1. PICK o \in Objects : o = entries[c] /\ heap[o] \in Entry /\ heap[o].leases # 0
    BY <1>4 DEF Live, Inactive, EntryOf, LeaseInv, TypeInv, TypeOK
  <2>2. /\ heap'[o].turns = <<>> /\ heap'[o].leases = heap[o].leases
        /\ \A p \in Objects \ {o} : heap'[p] = heap[p]
    BY <1>4, <2>1, InvalidatedFields DEF LeaseInv, TypeInv, TypeOK
  <2>3. KeptForReason'
    <3> SUFFICES ASSUME NEW x \in Conversations, entries[x] # None
                 PROVE  heap'[entries[x]].leases # 0 \/ heap'[entries[x]].turns # <<>>
      BY <1>4 DEF KeptForReason
    <3>1. entries[x] \in Objects
      BY DEF LeaseInv, TypeInv, TypeOK
    <3> QED
      BY <2>1, <2>2, <3>1 DEF LimitInv, KeptForReason
  <2>4. \A p \in Objects : heap'[p].turns = heap[p].turns \/ heap'[p].turns = <<>>
    BY <2>2
  <2> QED
    BY <1>1, <1>4, <2>3, <2>4, FitsKept, FewerKeepRoom DEF LimitInv
<1> QED
  BY <1>2, <1>3, <1>4 DEF Clear

LEMMA ReleaseKeepsLimits ==
    ASSUME LeaseInv, LimitInv, NEW r \in Requests, NEW turns \in Seq(Turn), Release(r, turns)
    PROVE  LimitInv'
<1>1. PICK d \in Entry :
          /\ LeftEntry(req[r].conv, req[r].entry, d)
          /\ \/ d.turns = heap[req[r].entry].turns
             \/ d.turns = Trimmed(heap[req[r].entry].turns \o turns)
  BY ReleaseEffect
<1>2. /\ req[r].phase = "holding" /\ req' = [req EXCEPT ![r] = Disabled("idle")]
      /\ \A p \in Objects \ {req[r].entry} : heap'[p] = heap[p]
  BY ReleaseEffect
<1>3. Leased(r)
  BY <1>2 DEF Leased
<1>4. heap[req[r].entry].turns \o turns \in Seq(Turn)
  <2>1. heap[req[r].entry].turns \in Seq(Turn)
    BY <1>3, LeasedHasLease DEF Entry
  <2> QED
    BY <2>1
<1> QED
  BY <1>1, <1>2, <1>3, <1>4, LeavingKeepsLimits

LEMMA LimitInvStep ==
    ASSUME LeaseInv, LimitInv, [Next]_vars PROVE LimitInv'
<1>1. ASSUME NEW r \in Requests, NEW c \in Conversations, Join(r, c) \/ Open(r, c)
      PROVE  LimitInv'
  BY <1>1, JoinKeepsLimits, OpenKeepsLimits
<1>2. ASSUME NEW r \in Requests, NEW c \in Conversations \cup {None}, Refuse(r, c)
      PROVE  LimitInv'
  BY <1>2, RefuseKeepsLimits
<1>3. ASSUME NEW r \in Requests, Wake(r)
      PROVE  LimitInv'
  BY <1>3, WakeKeepsLimits
<1>4. ASSUME NEW r \in Requests, CancelWait(r)
      PROVE  LimitInv'
  BY <1>4, CancelWaitEffect, LeavingKeepsLimits DEF Leased
<1>5. ASSUME NEW r \in Requests, Complete(r) \/ Fail(r)
      PROVE  LimitInv'
  BY <1>5, CompleteIsRelease, FailIsRelease, ReleaseKeepsLimits
<1>6. ASSUME NEW r \in Requests, Finish(r)
      PROVE  LimitInv'
  BY <1>6, FinishKeepsLimits
<1>7. ASSUME NEW c \in Conversations, Clear(c)
      PROVE  LimitInv'
  BY <1>7, ClearKeepsLimits
<1>8. CASE UNCHANGED <<entries, heap, req>>
  BY <1>8 DEF LimitInv, RoomKept, Live, KeptForReason, TurnsFit, ShownFits
<1> QED
  BY <1>1, <1>2, <1>3, <1>4, <1>5, <1>6, <1>7, <1>8 DEF Next, Step, Tick, vars

(* The store never grows past its limits, whoever asks, leaves or clears: at *)
(* most MaxSessions conversations, none without a lease or a turn, and no    *)
(* more turns and code points stored or shown than configured.               *)
THEOREM BoundSafety == Spec => []StoreBounded
<1>1. Init => LeaseInv /\ LimitInv
  BY LeaseInvInit, LimitInvInit
<1>2. LeaseInv /\ LimitInv /\ [Next]_vars => (LeaseInv /\ LimitInv)'
  BY LeaseInvStep, LimitInvStep
<1>3. LimitInv => StoreBounded
  BY DEF LimitInv, RoomKept, KeptForReason, TurnsFit, ShownFits, Fits, StoreBounded,
     Inactive, Live, EntryOf
<1> QED
  BY <1>1, <1>2, <1>3, PTL DEF Spec
=============================================================================
