---------------------------- MODULE IntegerSets ----------------------------
(***************************************************************************)
(* Least and greatest elements, for the proofs.                            *)
(***************************************************************************)
EXTENDS Integers, FiniteSets, TLAPS, FiniteSetTheorems, WellFoundedInduction

(* Finite sets of integers have a least and a greatest element.  Counting  *)
(* the elements below each one orders them as strict inclusion does, which *)
(* is well founded.                                                        *)

LEMMA LeastElement ==
  ASSUME NEW S \in SUBSET Int, IsFiniteSet(S), S # {}
  PROVE  \E m \in S : \A x \in S : m <= x
<1> DEFINE Below(i) == {j \in S : j < i}
           F == {Below(i) : i \in S}
<1>0. \A x \in S : x \in Int
  OBVIOUS
<1>1. F \subseteq FiniteSubsetsOf(S) /\ F # {}
  <2>1. \A i \in S : Below(i) \in SUBSET S /\ IsFiniteSet(Below(i))
    BY FS_Subset
  <2>2. QED
    BY <2>1 DEF FiniteSubsetsOf
<1>2. PICK T \in F : \A U \in F : <<U, T>> \notin StrictSubsetOrdering(S)
  <2>1. IsWellFoundedOn(StrictSubsetOrdering(S), FiniteSubsetsOf(S))
    BY FS_StrictSubsetOrderingWellFounded
  <2> HIDE DEF F
  <2>2. QED
    BY <1>1, <2>1, WFMin
<1>3. PICK m \in S : T = Below(m)
  BY <1>2
<1>4. ASSUME NEW x \in S, x < m
      PROVE  FALSE
  <2>1. Below(x) \in F /\ Below(x) \in SUBSET S /\ Below(m) \in SUBSET S
    OBVIOUS
  <2>2. Below(x) \subseteq Below(m)
    <3>1. \A y \in S : y < x => y < m
      BY <1>0, <1>4
    <3>2. QED
      BY <3>1
  <2>3. x \in Below(m) /\ x \notin Below(x)
    BY <1>4
  <2>4. <<Below(x), Below(m)>> \in StrictSubsetOrdering(S)
    BY <2>1, <2>2, <2>3 DEF StrictSubsetOrdering
  <2>5. QED
    BY <1>2, <1>3, <2>1, <2>4
<1>5. QED
  BY <1>4

LEMMA GreatestElement ==
  ASSUME NEW S \in SUBSET Int, IsFiniteSet(S), S # {}
  PROVE  \E m \in S : \A x \in S : x <= m
<1> DEFINE Above(i) == {j \in S : j > i}
           F == {Above(i) : i \in S}
<1>0. \A x \in S : x \in Int
  OBVIOUS
<1>1. F \subseteq FiniteSubsetsOf(S) /\ F # {}
  <2>1. \A i \in S : Above(i) \in SUBSET S /\ IsFiniteSet(Above(i))
    BY FS_Subset
  <2>2. QED
    BY <2>1 DEF FiniteSubsetsOf
<1>2. PICK T \in F : \A U \in F : <<U, T>> \notin StrictSubsetOrdering(S)
  <2>1. IsWellFoundedOn(StrictSubsetOrdering(S), FiniteSubsetsOf(S))
    BY FS_StrictSubsetOrderingWellFounded
  <2> HIDE DEF F
  <2>2. QED
    BY <1>1, <2>1, WFMin
<1>3. PICK m \in S : T = Above(m)
  BY <1>2
<1>4. ASSUME NEW x \in S, x > m
      PROVE  FALSE
  <2>1. Above(x) \in F /\ Above(x) \in SUBSET S /\ Above(m) \in SUBSET S
    OBVIOUS
  <2>2. Above(x) \subseteq Above(m)
    <3>1. \A y \in S : y > x => y > m
      BY <1>0, <1>4
    <3>2. QED
      BY <3>1
  <2>3. x \in Above(m) /\ x \notin Above(x)
    BY <1>4
  <2>4. <<Above(x), Above(m)>> \in StrictSubsetOrdering(S)
    BY <2>1, <2>2, <2>3 DEF StrictSubsetOrdering
  <2>5. QED
    BY <1>2, <1>3, <2>1, <2>4
<1>5. QED
  BY <1>4

(* A map between finite sets of one size that takes no value twice takes   *)
(* every value.                                                            *)
LEMMA EveryValueTaken ==
  ASSUME NEW S, NEW T, IsFiniteSet(T), Cardinality(S) = Cardinality(T),
         NEW f \in [S -> T], \A x, y \in S : f[x] = f[y] => x = y
  PROVE  \A t \in T : \E x \in S : f[x] = t
<1>1. f \in Injection(S, T)
  BY DEF Injection, IsInjective
<1>2. f \in Surjection(S, T)
  BY <1>1, FS_Injection, SMT
<1>3. QED
  BY <1>2 DEF Surjection

(* The values of a finite map are finitely many.                           *)
LEMMA ImageFinite ==
  ASSUME NEW D, IsFiniteSet(D), NEW f, f = [x \in D |-> f[x]]
  PROVE  IsFiniteSet({f[x] : x \in D})
<1> DEFINE T == {f[x] : x \in D}
<1>1. f \in Surjection(D, T)
  <2>1. f \in [D -> T] /\ \A t \in T : \E x \in D : f[x] = t
    OBVIOUS
  <2> HIDE DEF T
  <2>2. QED
    BY <2>1 DEF Surjection
<1> HIDE DEF T
<1>2. IsFiniteSet(T)
  BY <1>1, FS_Surjection
<1>3. QED
  BY <1>2 DEF T

(* Things that bear different names are no more than the names.            *)
LEMMA NoMoreThanNames ==
  ASSUME NEW S, NEW T, IsFiniteSet(T),
         NEW f \in [S -> T], \A x, y \in S : f[x] = f[y] => x = y
  PROVE  Cardinality(S) <= Cardinality(T)
<1>1. f \in Injection(S, T)
  BY DEF Injection, IsInjective
<1>2. QED
  BY <1>1, FS_Injection, SMT
=============================================================================
