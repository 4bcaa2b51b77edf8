--------------------------- MODULE RadarIO_proofs ---------------------------
(***************************************************************************)
(* Facts about the operators of RadarIO: what a sweep of a volume is, and  *)
(* that a header read always selects one.                                  *)
(***************************************************************************)
EXTENDS RadarIO, IntegerSets, SequenceTheorems

----------------------------------------------------------------------------
(* Every rank below the size of a finite set of integers is the rank of    *)
(* one of its elements: the least of those that have at least so many      *)
(* below them has exactly so many.                                         *)
LEMMA RankExists ==
  ASSUME NEW S \in SUBSET Int, IsFiniteSet(S),
         NEW k \in Nat, k < Cardinality(S)
  PROVE  \E i \in S : Cardinality({j \in S : j < i}) = k
<1> DEFINE Below(i) == {j \in S : j < i}
           T == {i \in S : Cardinality(Below(i)) >= k}
<1>0. \A x \in S : x \in Int
  OBVIOUS
<1>1. \A i \in S : IsFiniteSet(Below(i)) /\ Cardinality(Below(i)) \in Nat
  <2>1. \A i \in S : Below(i) \in SUBSET S
    OBVIOUS
  <2>2. QED
    BY <2>1, FS_Subset, FS_CardinalityType
<1>2. T # {}
  <2>1. S # {} /\ Cardinality(S) \in Nat
    BY FS_EmptySet, FS_CardinalityType
  <2>2. PICK m \in S : \A x \in S : x <= m
    BY <2>1, GreatestElement
  <2>3. Below(m) = S \ {m}
    <3>1. \A y \in S : y < m <=> y # m
      BY <1>0, <2>2
    <3>2. QED
      BY <3>1
  <2>4. Cardinality(Below(m)) = Cardinality(S) - 1
    BY <2>3, FS_RemoveElement
  <2>5. QED
    BY <2>1, <2>4
<1>3. PICK i \in T : \A x \in T : i <= x
  <2>1. T \in SUBSET Int /\ T \in SUBSET S
    OBVIOUS
  <2>2. IsFiniteSet(T)
    BY <2>1, FS_Subset
  <2> HIDE DEF T
  <2>3. QED
    BY <1>2, <2>1, <2>2, LeastElement
<1>4. i \in S /\ i \in Int /\ Cardinality(Below(i)) >= k
  OBVIOUS
<1>5. CASE Cardinality(Below(i)) > k
  <2>1. IsFiniteSet(Below(i)) /\ Cardinality(Below(i)) \in Nat
    BY <1>1, <1>4
  <2>2. Below(i) # {}
    <3> HIDE DEF Below
    <3>1. QED
      BY <1>5, <2>1, FS_EmptySet
  <2>3. Below(i) \in SUBSET Int
    BY <1>0
  <2>4. PICK p \in Below(i) : \A x \in Below(i) : x <= p
    <3> HIDE DEF Below
    <3>1. QED
      BY <2>1, <2>2, <2>3, GreatestElement
  <2>5. p \in S /\ p < i /\ p \in Int
    BY <1>0
  <2>6. Below(p) = Below(i) \ {p}
    <3>1. \A y \in S : y < p <=> y < i /\ y # p
      BY <1>0, <1>4, <2>4, <2>5
    <3>2. QED
      BY <3>1
  <2>7. Cardinality(Below(p)) = Cardinality(Below(i)) - 1
    <3> HIDE DEF Below
    <3>1. QED
      BY <2>1, <2>4, <2>6, FS_RemoveElement
  <2>8. Cardinality(Below(p)) >= k
    <3> HIDE DEF Below
    <3>1. QED
      BY <1>5, <2>1, <2>7
  <2>9. p \in T
    BY <2>5, <2>8
  <2>10. QED
    BY <1>3, <1>4, <2>5, <2>9
<1>6. QED
  BY <1>1, <1>4, <1>5

----------------------------------------------------------------------------
(* Sweeps of a volume.                                                     *)

Rank(vol, i) == Cardinality({j \in SweepStarts(vol) : j < i})

LEMMA CountedSweeps ==
  /\ NSweeps(NoVolume) = 0
  /\ \A vol : SweepStarts(vol) = {1} => NSweeps(vol) = 1
<1>1. SweepStarts(NoVolume) = {}
  BY DEF SweepStarts, NoVolume
<1>2. Cardinality({}) = 0 /\ Cardinality({1}) = 1
  BY FS_EmptySet, FS_Singleton
<1>3. QED
  BY <1>1, <1>2 DEF NSweeps

(* A volume with a ray has a sweep.                                        *)
LEMMA StartsOfVolume ==
  ASSUME NEW R, NEW vol \in Seq(R)
  PROVE  /\ SweepStarts(vol) \in SUBSET (1 .. Len(vol))
         /\ IsFiniteSet(SweepStarts(vol))
         /\ NSweeps(vol) \in Nat
         /\ vol # NoVolume => NSweeps(vol) >= 1
<1>1. SweepStarts(vol) \in SUBSET (1 .. Len(vol))
  BY DEF SweepStarts
<1>2. IsFiniteSet(SweepStarts(vol)) /\ NSweeps(vol) \in Nat
  <2>1. IsFiniteSet(1 .. Len(vol))
    BY FS_Interval, LenProperties
  <2>2. IsFiniteSet(SweepStarts(vol))
    BY <1>1, <2>1, FS_Subset
  <2>3. QED
    BY <2>2, FS_CardinalityType DEF NSweeps
<1>3. ASSUME vol # NoVolume
      PROVE  NSweeps(vol) >= 1
  <2>1. 1 \in SweepStarts(vol)
    BY <1>3, EmptySeq DEF SweepStarts, NoVolume
  <2>2. Cardinality(SweepStarts(vol)) # 0
    BY <1>2, <2>1, FS_EmptySet
  <2>3. QED
    BY <1>2, <2>2 DEF NSweeps
<1>4. QED
  BY <1>1, <1>2, <1>3

(* Later starts have more starts before them.                              *)
LEMMA RankIncreases ==
  ASSUME NEW R, NEW vol \in Seq(R), NEW i \in SweepStarts(vol), NEW j \in SweepStarts(vol),
         i < j
  PROVE  Rank(vol, i) \in Nat /\ Rank(vol, j) \in Nat /\ Rank(vol, i) < Rank(vol, j)
<1> DEFINE Before(n) == {s \in SweepStarts(vol) : s < n}
<1>0. \A n \in SweepStarts(vol) : n \in Int
  BY StartsOfVolume
<1>1. \A n \in SweepStarts(vol) : IsFiniteSet(Before(n)) /\ Cardinality(Before(n)) \in Nat
  <2>1. \A n \in SweepStarts(vol) : Before(n) \in SUBSET SweepStarts(vol)
    OBVIOUS
  <2>2. QED
    BY <2>1, StartsOfVolume, FS_Subset, FS_CardinalityType
<1>2. Before(i) \in SUBSET Before(j)
  <2>1. \A s \in SweepStarts(vol) : s < i => s < j
    BY <1>0
  <2>2. QED
    BY <2>1
<1>3. i \in Before(j) /\ i \notin Before(i)
  BY <1>0
<1>4. Cardinality(Before(i)) <= Cardinality(Before(j))
      /\ Cardinality(Before(i)) # Cardinality(Before(j))
  <2>1. IsFiniteSet(Before(j)) /\ Before(i) # Before(j)
    BY <1>1, <1>3
  <2> HIDE DEF Before
  <2>2. QED
    BY <1>2, <2>1, FS_Subset
<1>5. Rank(vol, i) = Cardinality(Before(i)) /\ Rank(vol, j) = Cardinality(Before(j))
  BY DEF Rank
<1> HIDE DEF Before
<1>6. QED
  BY <1>1, <1>4, <1>5

(* SweepStart(vol, k) is the start with k starts before it.                *)
LEMMA StartOfSweep ==
  ASSUME NEW R, NEW vol \in Seq(R), NEW k \in Nat, k < NSweeps(vol)
  PROVE  /\ SweepStart(vol, k) \in SweepStarts(vol)
         /\ Rank(vol, SweepStart(vol, k)) = k
<1>1. SweepStarts(vol) \in SUBSET Int /\ IsFiniteSet(SweepStarts(vol))
  BY StartsOfVolume
<1>2. \E i \in SweepStarts(vol) : Cardinality({j \in SweepStarts(vol) : j < i}) = k
  BY <1>1, RankExists DEF NSweeps
<1>3. QED
  BY <1>2 DEF SweepStart, Rank

(* A sweep is a nonempty run of its volume's rays.                         *)
LEMMA SweepIsRun ==
  ASSUME NEW R, NEW vol \in Seq(R), NEW k \in Nat, k < NSweeps(vol)
  PROVE  /\ SweepStart(vol, k) \in 1 .. Len(vol)
         /\ SweepEnd(vol, k) \in SweepStart(vol, k) .. Len(vol)
<1>1. SweepStart(vol, k) \in SweepStarts(vol) /\ Rank(vol, SweepStart(vol, k)) = k
  BY StartOfSweep
<1>2. \A i \in SweepStarts(vol) : i \in 1 .. Len(vol)
  BY StartsOfVolume
<1>3. CASE k + 1 < NSweeps(vol)
  <2>1. SweepStart(vol, k + 1) \in SweepStarts(vol)
        /\ Rank(vol, SweepStart(vol, k + 1)) = k + 1
    BY <1>3, StartOfSweep
  <2>2. ~ (SweepStart(vol, k + 1) < SweepStart(vol, k))
    BY <1>1, <2>1, RankIncreases
  <2>3. SweepStart(vol, k + 1) # SweepStart(vol, k)
    BY <1>1, <2>1
  <2>4. SweepStart(vol, k) < SweepStart(vol, k + 1)
    BY <1>1, <1>2, <2>1, <2>2, <2>3
  <2>5. SweepEnd(vol, k) = SweepStart(vol, k + 1) - 1
    BY <1>3 DEF SweepEnd
  <2>6. QED
    BY <1>1, <1>2, <2>1, <2>4, <2>5, LenProperties
<1>4. CASE ~ (k + 1 < NSweeps(vol))
  <2>1. SweepEnd(vol, k) = Len(vol)
    BY <1>4 DEF SweepEnd
  <2>2. QED
    BY <1>1, <1>2, <2>1, LenProperties
<1>5. QED
  BY <1>3, <1>4

(* No sweep starts inside another one.                                     *)
LEMMA NoStartInside ==
  ASSUME NEW R, NEW vol \in Seq(R), NEW k \in Nat, k < NSweeps(vol),
         NEW i \in SweepStarts(vol), SweepStart(vol, k) < i
  PROVE  SweepEnd(vol, k) < i
<1>1. SweepStart(vol, k) \in SweepStarts(vol) /\ Rank(vol, SweepStart(vol, k)) = k
  BY StartOfSweep
<1>2. \A n \in SweepStarts(vol) : n \in Int
  BY StartsOfVolume
<1>3. Rank(vol, i) \in Nat /\ k < Rank(vol, i)
  BY <1>1, RankIncreases
<1>4. Rank(vol, i) < NSweeps(vol)
  <2> DEFINE Before == {j \in SweepStarts(vol) : j < i}
  <2>1. Before \in SUBSET SweepStarts(vol) /\ i \notin Before
    BY <1>2
  <2>2. IsFiniteSet(SweepStarts(vol)) /\ NSweeps(vol) = Cardinality(SweepStarts(vol))
    BY StartsOfVolume DEF NSweeps
  <2>3. Rank(vol, i) = Cardinality(Before)
    BY DEF Rank
  <2> HIDE DEF Before
  <2>4. Cardinality(Before) <= Cardinality(SweepStarts(vol))
        /\ Cardinality(Before) # Cardinality(SweepStarts(vol))
    BY <2>1, <2>2, FS_Subset
  <2>5. QED
    BY <1>3, <2>2, <2>3, <2>4, StartsOfVolume
<1>5. k + 1 < NSweeps(vol)
  BY <1>3, <1>4, StartsOfVolume
<1>6. SweepStart(vol, k + 1) \in SweepStarts(vol)
      /\ Rank(vol, SweepStart(vol, k + 1)) = k + 1
  BY <1>5, StartOfSweep
<1>7. ~ (i < SweepStart(vol, k + 1))
  BY <1>3, <1>6, RankIncreases
<1>8. SweepEnd(vol, k) = SweepStart(vol, k + 1) - 1
  BY <1>5 DEF SweepEnd
<1>9. QED
  BY <1>2, <1>6, <1>7, <1>8

(* The rays of a sweep carry the same sweep number.  The first one that    *)
(* did not would start a sweep.                                            *)
LEMMA SweepHasOneNumber ==
  ASSUME NEW R, NEW vol \in Seq(R), NEW k \in Nat, k < NSweeps(vol),
         NEW i \in SweepStart(vol, k) .. SweepEnd(vol, k)
  PROVE  SweepOf(vol[i]) = SweepOf(vol[SweepStart(vol, k)])
<1> DEFINE a == SweepStart(vol, k)
           b == SweepEnd(vol, k)
           Other == {n \in a .. b : SweepOf(vol[n]) # SweepOf(vol[a])}
<1>1. a \in 1 .. Len(vol) /\ b \in a .. Len(vol) /\ Len(vol) \in Nat
  BY SweepIsRun, LenProperties
<1>2. SUFFICES ASSUME Other # {} PROVE FALSE
  OBVIOUS
<1>3. PICK n \in Other : \A m \in Other : n <= m
  <2>1. Other \in SUBSET Int /\ Other \in SUBSET (a .. b)
    BY <1>1
  <2>2. IsFiniteSet(a .. b)
    BY <1>1, FS_Interval
  <2> HIDE DEF Other
  <2>3. QED
    BY <1>2, <2>1, <2>2, FS_Subset, LeastElement
<1>4. n \in a .. b /\ n # a /\ SweepOf(vol[n]) # SweepOf(vol[a])
  OBVIOUS
<1>5. n - 1 \in a .. b /\ n \in 1 .. Len(vol) /\ n # 1 /\ a < n /\ n <= b
  BY <1>1, <1>4
<1>6. n - 1 \notin Other
  BY <1>3, <1>5
<1>7. SweepOf(vol[n - 1]) = SweepOf(vol[a])
  BY <1>5, <1>6
<1>8. n \in SweepStarts(vol)
  BY <1>4, <1>5, <1>7 DEF SweepStarts
<1>9. b < n
  BY <1>5, <1>8, NoStartInside
<1>10. QED
  BY <1>1, <1>5, <1>9

(* A volume of one sweep is that sweep.                                    *)
LEMMA OneSweep ==
  ASSUME NEW R, NEW vol \in Seq(R), NSweeps(vol) = 1
  PROVE  /\ vol # NoVolume /\ Len(vol) \in Nat /\ Len(vol) >= 1
         /\ SweepStarts(vol) = {1}
         /\ SweepStart(vol, 0) = 1 /\ SweepEnd(vol, 0) = Len(vol)
<1>1. vol # NoVolume
  BY CountedSweeps
<1>2. Len(vol) \in Nat /\ Len(vol) >= 1
  BY <1>1, LenProperties, EmptySeq DEF NoVolume
<1>3. 1 \in SweepStarts(vol)
  BY <1>2 DEF SweepStarts
<1>4. SweepStart(vol, 0) \in SweepStarts(vol)
  BY StartOfSweep
<1>5. SweepStarts(vol) \ {1} = {}
  <2> DEFINE S == SweepStarts(vol)
             T == S \ {1}
  <2>1. IsFiniteSet(S) /\ Cardinality(S) = 1
    BY StartsOfVolume DEF NSweeps
  <2>2. IsFiniteSet(T) /\ Cardinality(T) = 1 - 1
    BY <1>3, <2>1, FS_RemoveElement
  <2> HIDE DEF T
  <2>3. T = {}
    BY <2>2, FS_EmptySet
  <2>4. QED
    BY <2>3 DEF T
<1>6. SweepStart(vol, 0) = 1
  BY <1>4, <1>5
<1>7. SweepEnd(vol, 0) = Len(vol)
  BY DEF SweepEnd
<1>8. QED
  BY <1>1, <1>2, <1>3, <1>5, <1>6, <1>7
=============================================================================
