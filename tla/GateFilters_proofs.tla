------------------------- MODULE GateFilters_proofs -------------------------
(***************************************************************************)
(* That no filter reaches outside the boundary, that despeckle leaves no   *)
(* speckle, that do-defreckling deletes what flag-freckles flags, and that *)
(* only good gates inside are flagged: for rays of any length and data,    *)
(* any boundary and any parameters of the commands.                        *)
(***************************************************************************)
EXTENDS GateFilters, IntegerSets

(* While the leading average is compared, the gates from the one compared  *)
(* to the last one averaged are inside, and that last one is still good.   *)
LeadsInside ==
  pc = "lead" => /\ ahead \in GoodInside /\ at <= ahead
                 /\ \A g \in Gates : at <= g /\ g <= ahead => g \in bnd

(* The inductive invariant.  OutsideUntouched alone is not inductive: the  *)
(* loops over the leading average do not look at the boundary again.       *)
IInv ==
  /\ bnd \subseteq 0 .. NGates
  /\ ss = [g \in Gates |-> ss[g]]
  /\ at \in Nat
  /\ LeadsInside
  /\ OutsideUntouched

----------------------------------------------------------------------------
(* The first gate of a set, from some gate on.                             *)
LEMMA NextInFirst ==
  ASSUME NEW S \in SUBSET Gates, NEW from \in Nat
  PROVE  /\ NextIn(S, from) \in Nat /\ NextIn(S, from) <= NGates
         /\ NextIn(S, from) # NGates => NextIn(S, from) \in S /\ NextIn(S, from) >= from
         /\ \A g \in S : g >= from => NextIn(S, from) <= g
<1> DEFINE T == {g \in S : g >= from} \cup {NGates}
<1>1. NGates \in Nat
  BY FiltersAssumption
<1>2. \A g \in S : g \in 0 .. NGates
  BY <1>1 DEF Gates
<1>3. T \subseteq 0 .. NGates
  <2>1. NGates \in 0 .. NGates
    BY <1>1
  <2>2. QED
    BY <1>2, <2>1, Zenon
<1>4. \A g \in T : g \in Nat /\ g <= NGates
  BY <1>1, <1>3
<1>5. \E m \in T : \A x \in T : m <= x
  <2>1. IsFiniteSet(0 .. NGates)
    BY <1>1, FS_Interval
  <2>2. T \in SUBSET Int /\ IsFiniteSet(T) /\ T # {}
    BY <1>3, <1>4, <2>1, FS_Subset
  <2> HIDE DEF T
  <2>3. QED
    BY <2>2, LeastElement
<1>6. Min(T) \in T /\ \A x \in T : Min(T) <= x
  BY <1>5 DEF Min
<1>7. NextIn(S, from) = Min(T)
  BY DEF NextIn
<1>8. QED
  BY <1>4, <1>6, <1>7

(* The sets of gates that the scans look through.                          *)
LEMMA SetsOfGates == /\ GoodInside \in SUBSET Gates
                     /\ Outside \in SUBSET Gates
                     /\ Outside \cup GoodInside \in SUBSET Gates
                     /\ Gates \ GoodInside \in SUBSET Gates
BY DEF GoodInside, Outside

(* Deleting or flagging a gate that is not outside keeps what is.          *)
LEMMA MarkedInside ==
  ASSUME IInv, NEW g, g \notin Outside, Marked(g), UNCHANGED <<raw, bnd>>
  PROVE  /\ OutsideUntouched' /\ (ss = [h \in Gates |-> ss[h]])'
         /\ \A h \in Gates : h # g => ss'[h] = ss[h]
<1>1. CASE filter = "flag-freckles"
  BY <1>1 DEF IInv, Marked, OutsideUntouched
<1>2. CASE filter # "flag-freckles"
  <2>1. ss' = [ss EXCEPT ![g] = Bad]
    BY <1>2 DEF Marked
  <2>2. ss' = [h \in Gates |-> IF h = g THEN Bad ELSE ss[h]]
    BY <2>1 DEF IInv
  <2>3. QED
    BY <2>2 DEF IInv, OutsideUntouched, Outside
<1>3. QED
  BY <1>1, <1>2

----------------------------------------------------------------------------
(* One lemma for each loop.                                                *)

LEMMA DespeckleInside == IInv /\ Despeckle => IInv'
<1> SUFFICES ASSUME IInv, Despeckle
             PROVE  IInv'
  OBVIOUS
<1> DEFINE start == NextIn(GoodInside, at)
           stop  == NextIn(Gates \ GoodInside, start)
<1>1. start \in Nat /\ stop \in Nat
  BY SetsOfGates, NextInFirst DEF IInv
<1>2. pc' # "lead" /\ bnd' = bnd /\ raw' = raw
  <2>1. pc' \in {"done", "find"}
    BY DEF Despeckle
  <2>2. QED
    BY <2>1 DEF Despeckle
<1>3. CASE start = NGates
  BY <1>2, <1>3 DEF Despeckle, IInv, LeadsInside, OutsideUntouched
<1>4. CASE start # NGates
  <2>1. /\ ss' = [g \in Gates |-> IF Speckle(start, stop) /\ start <= g /\ g < stop
                                  THEN Bad ELSE ss[g]]
        /\ at' = stop + 1
    BY <1>4 DEF Despeckle
  <2>2. ASSUME NEW g \in Gates, start <= g, g < stop
        PROVE  g \in bnd
    <3>1. ~(stop <= g) /\ g >= start
      BY <1>1, <2>2, FiltersAssumption DEF Gates
    <3>2. g \in GoodInside
      BY <1>1, <3>1, SetsOfGates, NextInFirst
    <3>3. QED
      BY <3>2 DEF GoodInside
  <2> HIDE DEF start, stop
  <2>3. OutsideUntouched'
    BY <1>2, <2>1, <2>2 DEF IInv, OutsideUntouched
  <2>4. QED
    BY <1>1, <1>2, <2>1, <2>3 DEF IInv, LeadsInside
<1>5. QED
  BY <1>3, <1>4

LEMMA FindFrecklesInside == IInv /\ FindFreckles => IInv'
<1> SUFFICES ASSUME IInv, FindFreckles
             PROVE  IInv'
  OBVIOUS
<1> DEFINE start == NextIn(GoodInside, at)
           last  == Kth(Reach(start), freckle_avg_count + 1)
<1>1. start \in Nat /\ NextIn(Outside, start) \in Nat
  BY SetsOfGates, NextInFirst DEF IInv
<1>2. /\ UNCHANGED <<raw, bnd, ss>>
      /\ OutsideUntouched'
  BY DEF FindFreckles, IInv, OutsideUntouched
<1>3. CASE at >= NGates \/ last = {}
  <2>1. at' \in Nat /\ pc' # "lead"
    BY <1>1, <1>3 DEF FindFreckles, NextFilter, Resume, IInv
  <2>2. QED
    BY <1>2, <2>1 DEF IInv, LeadsInside
<1>4. CASE ~(at >= NGates) /\ last # {}
  <2>1. at' = start /\ pc' = "lead" /\ ahead' = Min(last) /\ filter' = filter
    BY <1>4 DEF FindFreckles
  <2>2. last \in SUBSET Gates /\ last \subseteq Reach(start)
    BY SetsOfGates DEF Kth, Reach
  <2>3. Min(last) \in last
    <3>1. NGates \in Nat /\ IsFiniteSet(0 .. NGates - 1)
      BY FiltersAssumption, FS_Interval
    <3>2. IsFiniteSet(last) /\ last \in SUBSET Int
      BY <2>2, <3>1, FS_Subset DEF Gates
    <3> HIDE DEF last
    <3>3. \E m \in last : \A x \in last : m <= x
      BY <1>4, <3>2, LeastElement
    <3>4. QED
      BY <3>3 DEF Min
  <2>4. /\ ahead' \in GoodInside /\ start <= ahead'
        /\ ahead' < NextIn(Outside, start)
    BY <2>1, <2>2, <2>3 DEF Reach
  <2>5. GoodInside' = GoodInside
    BY <1>2, <2>1 DEF GoodInside, Scanned
  <2>6. ASSUME NEW g \in Gates, start <= g, g <= ahead'
        PROVE  g \in bnd
    <3>1. g \in Nat /\ ahead' \in Nat
      BY <2>4, SetsOfGates, FiltersAssumption DEF Gates
    <3>2. ~(NextIn(Outside, start) <= g)
      BY <1>1, <2>4, <2>6, <3>1
    <3>3. g \notin Outside
      BY <1>1, <2>6, <3>1, <3>2, SetsOfGates, NextInFirst
    <3>4. QED
      BY <3>3 DEF Outside
  <2> HIDE DEF start, last
  <2>7. QED
    BY <1>1, <1>2, <2>1, <2>4, <2>5, <2>6 DEF IInv, LeadsInside
<1>5. QED
  BY <1>3, <1>4

LEMMA LeadingAverageInside == IInv /\ LeadingAverage => IInv'
<1> SUFFICES ASSUME IInv, LeadingAverage
             PROVE  IInv'
  OBVIOUS
<1> DEFINE freckle == Distance(Scanned[at], Mean(lead)) > freckle_threshold
           next == NextIn(Outside \cup GoodInside, ahead + 1)
<1>1. /\ UNCHANGED <<filter, raw, bnd>>
      /\ pc = "lead" /\ at \in Nat /\ NGates \in Nat
      /\ ahead \in GoodInside /\ at <= ahead
      /\ \A g \in Gates : at <= g /\ g <= ahead => g \in bnd
  BY FiltersAssumption DEF LeadingAverage, IInv, LeadsInside
<1>2. ahead \in Nat /\ ahead < NGates /\ at \in Gates /\ at \in bnd
  BY <1>1, SetsOfGates DEF Gates
<1>3. CASE Scanned[at] = Bad
  <2>1. at' = at + 1 /\ UNCHANGED <<ss, flag, pc, ahead, lead, trail>>
    BY <1>3 DEF LeadingAverage
  <2>2. at # ahead
    BY <1>1, <1>3 DEF GoodInside
  <2>3. at' \in Nat /\ at' <= ahead
    BY <1>1, <1>2, <2>1, <2>2
  <2>4. GoodInside' = GoodInside
    BY <1>1, <2>1 DEF GoodInside, Scanned
  <2>5. \A g \in Gates : at' <= g => at <= g
    BY <1>1, <2>1 DEF Gates
  <2>6. OutsideUntouched'
    BY <1>1, <2>1 DEF IInv, OutsideUntouched
  <2>7. QED
    BY <1>1, <2>1, <2>3, <2>4, <2>5, <2>6 DEF IInv, LeadsInside
<1>4. CASE Scanned[at] # Bad
  <2>1. /\ OutsideUntouched' /\ (ss = [h \in Gates |-> ss[h]])'
        /\ \A h \in Gates : h # at => ss'[h] = ss[h]
    <3>1. CASE freckle
      <4>1. Marked(at)
        BY <1>4, <3>1 DEF LeadingAverage
      <4>2. QED
        BY <1>1, <1>2, <4>1, MarkedInside DEF Outside
    <3>2. CASE ~freckle
      <4>1. ss' = ss
        BY <1>4, <3>2 DEF LeadingAverage
      <4>2. QED
        BY <1>1, <4>1 DEF IInv, OutsideUntouched
    <3>3. QED
      BY <3>1, <3>2
  <2>2. \/ at' = at + 1 /\ pc' = "trail" /\ ahead' = ahead
        \/ Leads(freckle)
    BY <1>4 DEF LeadingAverage
  <2>3. next \in Nat
    BY <1>2, SetsOfGates, NextInFirst
  <2>4. CASE next \notin GoodInside \/ pc' = "trail"
    <3>1. at' \in Nat /\ pc' # "lead"
      BY <1>1, <2>2, <2>3, <2>4 DEF Leads
    <3>2. QED
      BY <1>1, <2>1, <3>1 DEF IInv, LeadsInside
  <2>5. CASE next \in GoodInside /\ pc' # "trail"
    <3>1. at' = at + 1 /\ pc' = "lead" /\ ahead' = next
      BY <2>2, <2>5 DEF Leads
    <3>2. next \in Gates /\ next # NGates /\ next >= ahead + 1
      BY <1>1, <1>2, <2>5, SetsOfGates, NextInFirst DEF Gates
    <3>3. next \in GoodInside'
      BY <1>1, <1>2, <2>1, <2>3, <2>5, <3>2 DEF GoodInside, Scanned
    <3>4. ASSUME NEW g \in Gates, at' <= g, g <= next
          PROVE  g \in bnd
      <4>1. g \in Nat
        BY <1>1 DEF Gates
      <4>2. CASE g <= ahead
        BY <1>1, <3>1, <3>4, <4>1, <4>2
      <4>3. CASE g = next
        BY <2>5, <4>3 DEF GoodInside
      <4>4. CASE g > ahead /\ g # next
        <5>1. g >= ahead + 1 /\ ~(next <= g)
          BY <1>2, <2>3, <3>4, <4>1, <4>4
        <5>2. g \notin Outside \cup GoodInside
          BY <1>2, <5>1, SetsOfGates, NextInFirst
        <5>3. QED
          BY <5>2 DEF Outside
      <4>5. QED
        BY <1>2, <4>1, <4>2, <4>3, <4>4
    <3>5. at' \in Nat /\ at' <= next
      BY <1>1, <1>2, <2>3, <3>1, <3>2
    <3> HIDE DEF next, freckle
    <3>6. QED
      BY <1>1, <2>1, <3>1, <3>3, <3>4, <3>5 DEF IInv, LeadsInside
  <2>6. QED
    BY <2>4, <2>5
<1>5. QED
  BY <1>3, <1>4

LEMMA TrailingAverageInside == IInv /\ TrailingAverage => IInv'
<1> SUFFICES ASSUME IInv, TrailingAverage
             PROVE  IInv'
  OBVIOUS
<1>1. UNCHANGED <<filter, raw, bnd>> /\ pc' # "lead" /\ at' \in Nat
  BY DEF TrailingAverage, IInv
<1>2. OutsideUntouched' /\ (ss = [h \in Gates |-> ss[h]])'
  <2>1. CASE ss' = ss
    BY <1>1, <2>1 DEF IInv, OutsideUntouched
  <2>2. CASE ss' # ss
    <3>1. Marked(at) /\ at \notin Outside
      BY <2>2 DEF TrailingAverage
    <3>2. QED
      BY <1>1, <3>1, MarkedInside
  <2>3. QED
    BY <2>1, <2>2
<1>3. QED
  BY <1>1, <1>2 DEF IInv, LeadsInside

(* Flagging glitches changes no data, nor does the start of an unfolding.  *)
LEMMA DataKept ==
  IInv /\ (FindWindow \/ MoveWindow \/ StartUnfolding) => IInv'
<1> SUFFICES ASSUME IInv, FindWindow \/ MoveWindow \/ StartUnfolding
             PROVE  IInv'
  OBVIOUS
<1>1. UNCHANGED <<raw, bnd, ss>>
  BY DEF FindWindow, MoveWindow, StartUnfolding
<1>2. at' \in Nat
  <2>1. bnd \cap Gates \in SUBSET Gates
    OBVIOUS
  <2>2. CASE FindWindow
    BY <2>1, <2>2, NextInFirst DEF FindWindow, IInv
  <2>3. CASE MoveWindow
    BY <2>3 DEF MoveWindow, IInv
  <2>4. CASE StartUnfolding
    BY <2>4 DEF StartUnfolding, IInv
  <2>5. QED
    BY <2>2, <2>3, <2>4
<1>3. pc' # "lead"
  BY DEF FindWindow, MoveWindow, StartUnfolding
<1>4. QED
  BY <1>1, <1>2, <1>3 DEF IInv, LeadsInside, OutsideUntouched

LEMMA UnfoldInside == IInv /\ Unfold => IInv'
<1> SUFFICES ASSUME IInv, Unfold
             PROVE  IInv'
  OBVIOUS
<1> DEFINE g == NextIn(GoodInside, at)
           v == ss[g] + Folds(Mean(trail) - ss[g]) * nyqi
<1>1. UNCHANGED <<raw, bnd>> /\ pc' # "lead"
  BY DEF Unfold
<1>2. g \in Nat /\ (g # NGates => g \in GoodInside)
  BY SetsOfGates, NextInFirst DEF IInv
<1>3. CASE g = NGates
  BY <1>1, <1>3 DEF Unfold, IInv, LeadsInside, OutsideUntouched
<1>4. CASE g # NGates
  <2>1. ss' = [ss EXCEPT ![g] = v] /\ at' = g + 1
    BY <1>4 DEF Unfold
  <2>2. g \in bnd
    BY <1>2, <1>4 DEF GoodInside
  <2> HIDE DEF g, v
  <2>3. ss' = [h \in Gates |-> IF h = g THEN v ELSE ss[h]]
    BY <2>1 DEF IInv
  <2>4. OutsideUntouched'
    BY <1>1, <2>2, <2>3 DEF IInv, OutsideUntouched
  <2>5. QED
    BY <1>1, <1>2, <2>1, <2>3, <2>4 DEF IInv, LeadsInside
<1>5. QED
  BY <1>3, <1>4

----------------------------------------------------------------------------
LEMMA InsideInvariant == Spec => []IInv
<1>1. Init => IInv
  <2> SUFFICES ASSUME Init
               PROVE  IInv
    OBVIOUS
  <2>1. bnd \subseteq 0 .. NGates
    BY FiltersAssumption DEF Init
  <2>2. raw = [g \in Gates |-> raw[g]] /\ ss = raw /\ pc = "find" /\ at = 0
    BY DEF Init
  <2>3. QED
    BY <2>1, <2>2 DEF IInv, LeadsInside, OutsideUntouched
<1>2. IInv /\ [Scan]_vars => IInv'
  <2> SUFFICES ASSUME IInv, [Scan]_vars
               PROVE  IInv'
    OBVIOUS
  <2>1. CASE Despeckle
    BY <2>1, DespeckleInside
  <2>2. CASE FindFreckles
    BY <2>2, FindFrecklesInside
  <2>3. CASE LeadingAverage
    BY <2>3, LeadingAverageInside
  <2>4. CASE TrailingAverage
    BY <2>4, TrailingAverageInside
  <2>5. CASE FindWindow \/ MoveWindow \/ StartUnfolding
    BY <2>5, DataKept
  <2>6. CASE Unfold
    BY <2>6, UnfoldInside
  <2>7. CASE UNCHANGED vars
    BY <2>7 DEF vars, IInv, LeadsInside, OutsideUntouched, GoodInside, Scanned
  <2>8. QED
    BY <2>1, <2>2, <2>3, <2>4, <2>5, <2>6, <2>7 DEF Scan
<1>3. QED
  BY <1>1, <1>2, PTL DEF Spec

(* No filter changes a gate outside the boundary (se_despeckle,            *)
(* se_defrekl, se_flag_freckles, se_flag_glitches, se_BB_ac_unfold).       *)
THEOREM FiltersStayInside == Spec => []OutsideUntouched
<1>1. IInv => OutsideUntouched
  BY DEF IInv
<1>2. QED
  BY <1>1, InsideInvariant, PTL

----------------------------------------------------------------------------
(* despeckle.  The gates behind the scan are final, those ahead of it as   *)
(* they were, and it stands after a gate at which no run goes on.          *)
GoodRaw(g) == RawGood(g) /\ g \in bnd

Despeckled(g) == ss[g] = IF InSpeckle(g) THEN Bad ELSE raw[g]

SpeckleInv ==
  filter = "despeckle" =>
    /\ pc \in {"find", "done"}
    /\ \A g \in Gates : g >= at => ss[g] = raw[g]
    /\ \A g \in Gates : g < at => Despeckled(g)
    /\ ~GoodRaw(at - 1)
    /\ pc = "done" => \A g \in Gates : g >= at => ~GoodRaw(g)

(* A run of good gates, from one that none precedes to the first that is   *)
(* not good, is a speckle or not as a whole.                               *)
LEMMA SpeckleOfRun ==
  ASSUME FiltersAssumption, NEW start \in Nat, NEW stop \in Nat,
         start < stop, stop <= NGates, ~GoodRaw(start - 1), ~GoodRaw(stop),
         \A g \in Nat : start <= g /\ g < stop => GoodRaw(g)
  PROVE  \A g \in Gates : start <= g /\ g < stop =>
           (InSpeckle(g) <=> Speckle(start, stop))
<1>0. NGates \in Nat /\ a_speckle \in Nat
  BY DEF FiltersAssumption
<1>1. ASSUME NEW g \in Gates, start <= g, g < stop, Speckle(start, stop)
      PROVE  InSpeckle(g)
  <2>1. g \in Nat /\ start \in 0 .. g /\ stop - 1 \in g .. NGates - 1
    BY <1>0, <1>1 DEF Gates
  <2>2. \A k \in start .. stop - 1 : RawGood(k) /\ k \in bnd
    BY DEF GoodRaw
  <2>3. (stop - 1) - start < a_speckle
    BY <1>0, <1>1 DEF Speckle
  <2>4. ~(RawGood(start - 1) /\ start - 1 \in bnd)
    BY DEF GoodRaw
  <2>5. (stop - 1) + 1 = stop /\ stop \in bnd /\ ~RawGood(stop)
    BY <1>1 DEF Speckle, GoodRaw
  <2>6. ~RawGood((stop - 1) + 1) /\ (stop - 1) + 1 \in bnd
    BY <2>5
  <2> DEFINE j == stop - 1
  <2> HIDE DEF j
  <2>7. \E i \in 0 .. g : \E l \in g .. NGates - 1 :
          /\ \A k \in i .. l : RawGood(k) /\ k \in bnd
          /\ l - i < a_speckle
          /\ ~(RawGood(i - 1) /\ i - 1 \in bnd)
          /\ ~RawGood(l + 1) /\ l + 1 \in bnd
    BY <2>1, <2>2, <2>3, <2>4, <2>6 DEF j
  <2>8. QED
    BY <2>7 DEF InSpeckle
<1>2. ASSUME NEW g \in Gates, start <= g, g < stop, InSpeckle(g)
      PROVE  Speckle(start, stop)
  <2>1. g \in Nat
    BY <1>0 DEF Gates
  <2>2. PICK i \in 0 .. g, j \in g .. NGates - 1 :
          /\ \A k \in i .. j : RawGood(k) /\ k \in bnd
          /\ j - i < a_speckle
          /\ ~(RawGood(i - 1) /\ i - 1 \in bnd)
          /\ ~RawGood(j + 1) /\ j + 1 \in bnd
    BY <1>2 DEF InSpeckle
  <2>3. i \in Nat /\ j \in Nat /\ i <= g /\ g <= j
    BY <1>0, <2>1
  <2>4. \A k \in i .. j : GoodRaw(k)
    BY <2>2 DEF GoodRaw
  <2>5. ~GoodRaw(i - 1) /\ ~RawGood(j + 1) /\ j + 1 \in bnd
    BY <2>2 DEF GoodRaw
  <2>6. i = start
    <3>1. ~(start - 1 \in i .. j)
      BY <2>4
    <3>2. ~(start <= i - 1)
      BY <1>2, <2>1, <2>3, <2>5
    <3>3. QED
      BY <1>2, <2>1, <2>3, <3>1, <3>2
  <2>7. j + 1 = stop
    <3>1. ~(stop \in i .. j)
      BY <2>4
    <3>2. ~(j + 1 < stop)
      BY <1>2, <2>1, <2>3, <2>5 DEF GoodRaw
    <3>3. QED
      BY <1>2, <2>1, <2>3, <3>1, <3>2
  <2>8. stop - start <= a_speckle
    BY <1>0, <2>2, <2>3, <2>6, <2>7
  <2>9. QED
    BY <2>5, <2>7, <2>8 DEF Speckle
<1>3. QED
  BY <1>1, <1>2

(* Only good gates are in a speckle.                                       *)
LEMMA SpecklesAreGood ==
  ASSUME FiltersAssumption, NEW g \in Gates, InSpeckle(g)
  PROVE  GoodRaw(g)
<1>1. g \in Nat /\ NGates \in Nat
  BY DEF FiltersAssumption, Gates
<1>2. PICK i \in 0 .. g, j \in g .. NGates - 1 :
        \A k \in i .. j : RawGood(k) /\ k \in bnd
  BY DEF InSpeckle
<1>3. g \in i .. j
  BY <1>1
<1>4. QED
  BY <1>2, <1>3 DEF GoodRaw

LEMMA DespeckleSpeckles == IInv /\ SpeckleInv /\ Despeckle => SpeckleInv'
<1> SUFFICES ASSUME IInv, SpeckleInv, Despeckle
             PROVE  SpeckleInv'
  OBVIOUS
<1> DEFINE start == NextIn(GoodInside, at)
           stop  == NextIn(Gates \ GoodInside, start)
<1>1. /\ filter = "despeckle" /\ pc = "find"
      /\ UNCHANGED <<filter, raw, bnd>>
      /\ at \in Nat /\ NGates \in Nat
  BY FiltersAssumption DEF Despeckle, IInv
<1>2. /\ \A g \in Gates : g >= at => ss[g] = raw[g]
      /\ \A g \in Gates : g < at => Despeckled(g)
      /\ ~GoodRaw(at - 1)
  BY <1>1 DEF SpeckleInv
<1>3. \A g \in Gates : g >= at => (g \in GoodInside <=> GoodRaw(g))
  BY <1>1, <1>2 DEF GoodInside, Scanned, GoodRaw, RawGood
<1>4. /\ start \in Nat /\ start <= NGates
      /\ start # NGates => start \in GoodInside /\ start >= at
      /\ \A g \in GoodInside : g >= at => start <= g
  BY <1>1, SetsOfGates, NextInFirst
<1>5. /\ \A g : GoodRaw(g)' <=> GoodRaw(g)
      /\ \A g : InSpeckle(g)' <=> InSpeckle(g)
  BY <1>1 DEF GoodRaw, RawGood, InSpeckle
<1>6. \A g \in Gates : g \in Nat
  BY <1>1 DEF Gates
<1>7. ASSUME NEW g \in Gates, g >= at, g < start
      PROVE  ~GoodRaw(g)
  BY <1>3, <1>4, <1>6, <1>7
<1>8. CASE start = NGates
  <2>1. pc' = "done" /\ UNCHANGED <<ss, at>>
    BY <1>8 DEF Despeckle
  <2>2. \A g \in Gates : g < NGates
    BY <1>1 DEF Gates
  <2> HIDE DEF start, stop
  <2>3. QED
    BY <1>1, <1>2, <1>5, <1>7, <1>8, <2>1, <2>2 DEF SpeckleInv, Despeckled
<1>9. CASE start # NGates
  <2>1. /\ ss' = [g \in Gates |-> IF Speckle(start, stop) /\ start <= g /\ g < stop
                                  THEN Bad ELSE ss[g]]
        /\ at' = stop + 1
        /\ pc' = IF at' < NGates THEN "find" ELSE "done"
    BY <1>9 DEF Despeckle
  <2>2. /\ stop \in Nat /\ stop <= NGates
        /\ stop # NGates => stop \in Gates \ GoodInside /\ stop >= start
        /\ \A g \in Gates \ GoodInside : g >= start => stop <= g
    BY <1>4, SetsOfGates, NextInFirst
  <2>3. start \in Gates /\ GoodRaw(start) /\ start >= at
    BY <1>3, <1>4, <1>9 DEF GoodInside
  <2>4. ~GoodRaw(stop)
    <3>1. CASE stop = NGates
      BY <1>1, <3>1 DEF GoodRaw, RawGood, Gates
    <3>2. CASE stop # NGates
      BY <1>1, <1>3, <1>4, <2>2, <2>3, <3>2
    <3>3. QED
      BY <3>1, <3>2
  <2>5. start < stop
    BY <1>1, <1>3, <1>4, <1>9, <2>2, <2>3
  <2>6. ASSUME NEW g \in Nat, start <= g, g < stop
        PROVE  GoodRaw(g)
    <3>1. g \in Gates /\ g >= start /\ g >= at
      BY <1>1, <2>2, <2>3, <2>6 DEF Gates
    <3>2. g \in GoodInside
      BY <2>2, <2>6, <3>1
    <3>3. QED
      BY <1>3, <3>1, <3>2
  <2>7. ~GoodRaw(start - 1)
    <3>1. CASE start = at
      BY <1>2, <3>1
    <3>2. CASE start # at /\ start - 1 \in Gates
      BY <1>1, <1>4, <1>7, <2>3, <3>2
    <3>3. CASE start - 1 \notin Gates
      BY <3>3 DEF GoodRaw, RawGood
    <3>4. QED
      BY <3>1, <3>2, <3>3
  <2>8. \A g \in Gates : start <= g /\ g < stop => (InSpeckle(g) <=> Speckle(start, stop))
    BY <1>4, <2>2, <2>4, <2>5, <2>6, <2>7, SpeckleOfRun, FiltersAssumption
  <2> HIDE DEF start, stop
  <2>9. ASSUME NEW g \in Gates, g >= at'
        PROVE  ss'[g] = raw'[g]
    <3>1. g \in Nat /\ g > stop /\ g >= at
      BY <1>1, <1>4, <1>6, <2>1, <2>2, <2>3, <2>5, <2>9
    <3>2. ss'[g] = ss[g]
      BY <2>1, <2>2, <3>1
    <3>3. QED
      BY <1>1, <1>2, <3>1, <3>2
  <2>10. ASSUME NEW g \in Gates, g < at'
         PROVE  Despeckled(g)'
    <3>1. CASE g < at
      <4>1. ss'[g] = ss[g]
        BY <1>1, <1>4, <1>6, <2>1, <2>3, <3>1
      <4>2. QED
        BY <1>1, <1>2, <1>5, <3>1, <4>1 DEF Despeckled
    <3>2. CASE g >= at /\ g < start
      <4>1. ss'[g] = raw[g]
        BY <1>2, <1>4, <1>6, <2>1, <3>2
      <4>2. ~InSpeckle(g)
        BY <1>7, <3>2, SpecklesAreGood, FiltersAssumption
      <4>3. QED
        BY <1>1, <1>5, <4>1, <4>2 DEF Despeckled
    <3>3. CASE start <= g /\ g < stop
      <4>1. ss'[g] = IF Speckle(start, stop) THEN Bad ELSE raw[g]
        BY <1>1, <1>2, <1>4, <1>6, <2>1, <2>3, <3>3
      <4>2. QED
        BY <1>1, <1>5, <2>8, <3>3, <4>1 DEF Despeckled
    <3>4. CASE g = stop
      <4>1. ss'[g] = raw[g]
        BY <1>1, <1>2, <1>4, <1>6, <2>1, <2>2, <2>3, <2>5, <3>4
      <4>2. ~InSpeckle(g)
        BY <2>4, <3>4, SpecklesAreGood, FiltersAssumption
      <4>3. QED
        BY <1>1, <1>5, <4>1, <4>2 DEF Despeckled
    <3>5. QED
      BY <1>1, <1>4, <1>6, <2>1, <2>2, <2>10, <3>1, <3>2, <3>3, <3>4
  <2>11. ~GoodRaw(at - 1)'
    <3>1. at' - 1 = stop
      BY <2>1, <2>2
    <3>2. QED
      BY <1>1, <2>4, <3>1 DEF GoodRaw, RawGood
  <2>12. pc' = "done" => \A g \in Gates : ~(g >= at')
    BY <1>1, <2>1, <2>2 DEF Gates
  <2>13. pc' \in {"find", "done"}
    BY <2>1
  <2>14. QED
    BY <2>9, <2>10, <2>11, <2>12, <2>13 DEF SpeckleInv
<1>10. QED
  BY <1>8, <1>9

LEMMA SpeckleStep == IInv /\ SpeckleInv /\ [Scan]_vars => SpeckleInv'
<1> SUFFICES ASSUME IInv, SpeckleInv, [Scan]_vars
             PROVE  SpeckleInv'
  OBVIOUS
<1>1. CASE Despeckle
  BY <1>1, DespeckleSpeckles
<1>2. CASE filter # "despeckle"
  <2>1. filter' # "despeckle"
    BY <1>2 DEF Scan, vars, Despeckle, FindFreckles, NextFilter, LeadingAverage,
                TrailingAverage, FindWindow, MoveWindow, StartUnfolding, Unfold
  <2>2. QED
    BY <2>1 DEF SpeckleInv
<1>3. CASE UNCHANGED vars
  BY <1>3 DEF vars, SpeckleInv, Despeckled, InSpeckle, GoodRaw, RawGood
<1>4. filter = "despeckle" /\ Scan => Despeckle
  BY DEF SpeckleInv, Scan, FindFreckles, LeadingAverage, TrailingAverage, Freckling,
         FindWindow, MoveWindow, StartUnfolding, Unfold
<1>5. QED
  BY <1>1, <1>2, <1>3, <1>4

(* despeckle removes every speckle and nothing else (se_despeckle).        *)
THEOREM DespeckleRemovesSpeckles == Spec => []SpecklesRemoved
<1>1. Init => SpeckleInv
  <2> SUFFICES ASSUME Init
               PROVE  SpeckleInv
    OBVIOUS
  <2>1. ss = raw /\ pc = "find" /\ at = 0 /\ NGates \in Nat
    BY FiltersAssumption DEF Init
  <2>2. \A g \in Gates : g \in Nat
    BY <2>1 DEF Gates
  <2>3. ~RawGood(at - 1)
    BY <2>1 DEF RawGood, Gates
  <2>4. QED
    BY <2>1, <2>2, <2>3 DEF SpeckleInv, GoodRaw
<1>2. IInv /\ SpeckleInv => SpecklesRemoved
  <2> SUFFICES ASSUME IInv, SpeckleInv, pc = "done", filter = "despeckle", NEW g \in Gates
               PROVE  ss[g] = IF InSpeckle(g) THEN Bad ELSE raw[g]
    BY DEF SpecklesRemoved
  <2>1. at \in Nat /\ g \in Nat
    BY FiltersAssumption DEF IInv, Gates
  <2>2. CASE g < at
    BY <2>2 DEF SpeckleInv, Despeckled
  <2>3. CASE g >= at
    <3>1. ss[g] = raw[g] /\ ~GoodRaw(g)
      BY <2>3 DEF SpeckleInv
    <3>2. ~InSpeckle(g)
      BY <3>1, SpecklesAreGood, FiltersAssumption
    <3>3. QED
      BY <3>1, <3>2
  <2>4. QED
    BY <2>1, <2>2, <2>3
<1>3. QED
  BY <1>1, <1>2, SpeckleStep, InsideInvariant, PTL DEF Spec

----------------------------------------------------------------------------
(* The freckle commands.  One turn of their scan, of the ray as it was     *)
(* given: where it stands, its averages, and the gates found to be         *)
(* freckles.  An average that the scan will not look at again is left out. *)
RawInside       == {g \in Gates : raw[g] # Bad /\ g \in bnd}
RawReach(start) == {g \in RawInside : g >= start /\ g < NextIn(Outside, start)}
Freckle(g, q)   == Distance(raw[g], Mean(q)) > freckle_threshold

Standing(loop, g, last, q, r, found) ==
  [pc |-> loop, at |-> g,
   ahead |-> IF loop = "lead" THEN last ELSE 0,
   lead  |-> IF loop = "lead" THEN q ELSE << >>,
   trail |-> IF loop = "find" THEN << >> ELSE r,
   found |-> found]

FindTurn(s) ==
  LET start == NextIn(RawInside, s.at)
      last  == Kth(RawReach(start), freckle_avg_count + 1)
  IN  IF last = {}
      THEN Standing("find", Resume(start), 0, << >>, << >>, s.found)
      ELSE Standing("lead", start, Min(last),
                    [k \in 1 .. freckle_avg_count |->
                       raw[Min(Kth(RawReach(start), k + 1))]], << >>, s.found)

LeadTurn(s) ==
  LET freckle == Freckle(s.at, s.lead)
      found   == IF freckle THEN s.found \cup {s.at} ELSE s.found
      kept    == IF freckle THEN s.trail ELSE Append(s.trail, raw[s.at])
      next    == NextIn(Outside \cup RawInside, s.ahead + 1)
  IN  IF raw[s.at] = Bad THEN Standing("lead", s.at + 1, s.ahead, s.lead, s.trail, s.found)
      ELSE IF ~freckle /\ Len(s.trail) + 1 = freckle_avg_count
      THEN Standing("trail", s.at + 1, 0, << >>, kept, found)
      ELSE IF next \notin RawInside THEN Standing("find", next, 0, << >>, << >>, found)
      ELSE Standing("lead", s.at + 1, next, Append(Tail(s.lead), raw[next]), kept, found)

TrailTurn(s) ==
  IF s.at = NGates \/ s.at \in Outside
  THEN Standing("find", s.at, 0, << >>, << >>, s.found)
  ELSE IF raw[s.at] = Bad THEN Standing("trail", s.at + 1, 0, << >>, s.trail, s.found)
  ELSE IF Freckle(s.at, s.trail)
  THEN Standing("trail", s.at + 1, 0, << >>, s.trail, s.found \cup {s.at})
  ELSE Standing("trail", s.at + 1, 0, << >>, Append(Tail(s.trail), raw[s.at]), s.found)

Turn(s) == CASE s.pc = "find"  -> FindTurn(s)
             [] s.pc = "lead"  -> LeadTurn(s)
             [] s.pc = "trail" -> TrailTurn(s)

Over(s) == s.pc = "find" /\ s.at >= NGates

(* From s the scan comes to t: t is in every set with s in it that the     *)
(* scan does not leave.                                                    *)
Comes(s, t) ==
  \A R : s \in R /\ (\A x \in R : ~Over(x) => Turn(x) \in R) => t \in R

(* Where the command stands, and the gates it has deleted or flagged.      *)
Changed == {g \in Gates : ss[g] # raw[g]}
Found   == IF filter = "flag-freckles" THEN flag ELSE Changed
Here    == Standing(pc, at, ahead, lead, trail, Found)
AtStart == Standing("find", 0, 0, << >>, << >>, {})

(* Both passes go the same way: the first, because what it has deleted     *)
(* lies behind it; the second is on its way to where the first one ended.  *)
FreckleInv ==
  Freckling =>
    /\ pc \in {"find", "lead", "trail", "done"} /\ at <= NGates
    /\ filter = "do-defreckling" =>
         /\ pc # "done" /\ flag = {}
         /\ \A g \in Gates : g >= at => ss[g] = raw[g]
         /\ Comes(AtStart, Here)
    /\ filter = "flag-freckles" =>
         IF pc = "done" THEN flag = Changed
         ELSE \E t : Over(t) /\ t.found = Changed /\ Comes(Here, t)

----------------------------------------------------------------------------
(* The scan comes to where it is, goes on to its next turn, does not miss  *)
(* on its way where it comes to, and stays where it is over.               *)
LEMMA ComesHere == \A s : Comes(s, s)
BY DEF Comes

LEMMA ComesFurther ==
  ASSUME NEW s, NEW t, Comes(s, t), ~Over(t)
  PROVE  Comes(s, Turn(t))
BY DEF Comes

LEMMA ComesFromNext ==
  ASSUME NEW s, NEW t, Comes(s, t), ~Over(s), Over(t)
  PROVE  Comes(Turn(s), t)
<1> SUFFICES ASSUME NEW R, Turn(s) \in R, \A x \in R : ~Over(x) => Turn(x) \in R
             PROVE  t \in R
  BY DEF Comes
<1> DEFINE Q == R \cup {s}
<1>1. s \in Q /\ \A x \in Q : ~Over(x) => Turn(x) \in Q
  OBVIOUS
<1>2. t \in Q
  <2> HIDE DEF Q
  <2>1. QED
    BY <1>1 DEF Comes
<1>3. t # s
  OBVIOUS
<1>4. QED
  BY <1>2, <1>3

LEMMA OverThere ==
  ASSUME NEW s, NEW t, Comes(s, t), Over(s)
  PROVE  t = s
<1>1. \A x \in {s} : ~Over(x) => Turn(x) \in {s}
  OBVIOUS
<1>2. t \in {s}
  BY <1>1 DEF Comes
<1>3. QED
  BY <1>2

(* It depends on the ray and its boundary alone.                           *)
LEMMA SameScan ==
  ASSUME UNCHANGED <<raw, bnd>>
  PROVE  \A s, t : Comes(s, t)' <=> Comes(s, t)
<1>1. RawInside' = RawInside /\ Outside' = Outside
  BY DEF RawInside, Outside
<1>2. \A g : RawReach(g)' = RawReach(g)
  BY <1>1 DEF RawReach
<1>3. \A g, q : Freckle(g, q)' <=> Freckle(g, q)
  BY DEF Freckle
<1>4. \A s : FindTurn(s)' = FindTurn(s)
  BY <1>1, <1>2 DEF FindTurn, Resume
<1>5. \A s : LeadTurn(s)' = LeadTurn(s)
  BY <1>1, <1>3 DEF LeadTurn
<1>6. \A s : TrailTurn(s)' = TrailTurn(s)
  BY <1>1, <1>3 DEF TrailTurn
<1>7. \A s : Turn(s)' = Turn(s)
  BY <1>4, <1>5, <1>6 DEF Turn
<1>8. QED
  BY <1>7 DEF Comes

----------------------------------------------------------------------------
(* A set with a k-th element has all those before.                         *)
LEMMA KthOfMany ==
  ASSUME NEW S \in SUBSET Int, IsFiniteSet(S), NEW n \in Nat, Kth(S, n) # {},
         NEW k \in 1 .. n
  PROVE  Kth(S, k) # {}
<1> DEFINE UpTo(y) == {h \in S : h <= y}
           T == {y \in S : Cardinality(UpTo(y)) >= k}
<1>1. \A y \in S : IsFiniteSet(UpTo(y)) /\ Cardinality(UpTo(y)) \in Nat
  BY FS_Subset, FS_CardinalityType
<1>2. T # {}
  <2>1. PICK x \in S : Cardinality(UpTo(x)) = n
    BY DEF Kth
  <2>2. n >= k
    OBVIOUS
  <2>3. x \in T
    BY <2>1, <2>2
  <2>4. QED
    BY <2>3
<1>3. PICK y \in T : \A z \in T : y <= z
  <2>1. T \in SUBSET Int /\ IsFiniteSet(T)
    BY FS_Subset
  <2> HIDE DEF T
  <2>2. QED
    BY <1>2, <2>1, LeastElement
<1>4. y \in S /\ y \in Int /\ Cardinality(UpTo(y)) >= k /\ y \in UpTo(y)
  BY <1>3
<1>5. CASE Cardinality(UpTo(y)) = k
  BY <1>4, <1>5 DEF Kth
<1>6. CASE Cardinality(UpTo(y)) > k
  <2> DEFINE U == UpTo(y) \ {y}
  <2>1. IsFiniteSet(U) /\ Cardinality(U) = Cardinality(UpTo(y)) - 1
    BY <1>1, <1>4, FS_RemoveElement
  <2>2. Cardinality(U) >= k /\ k >= 1
    BY <1>1, <1>4, <1>6, <2>1
  <2>3. U # {}
    BY <2>1, <2>2, FS_EmptySet
  <2>4. U \in SUBSET Int
    OBVIOUS
  <2>5. PICK z \in U : \A x \in U : x <= z
    <3> HIDE DEF U
    <3>1. QED
      BY <2>1, <2>3, <2>4, GreatestElement
  <2>6. z \in S /\ z \in Int /\ z < y
    BY <1>4, <2>5
  <2>7. UpTo(z) = U
    <3>1. \A x \in UpTo(z) : x \in U
      BY <1>4, <2>6
    <3>2. \A x \in U : x \in UpTo(z)
      BY <2>5
    <3> HIDE DEF U
    <3>3. QED
      BY <3>1, <3>2
  <2>8. z \in T
    <3> HIDE DEF U
    <3>1. QED
      BY <2>2, <2>6, <2>7
  <2>9. QED
    BY <1>3, <1>4, <2>6, <2>8
<1>7. QED
  BY <1>1, <1>4, <1>5, <1>6

----------------------------------------------------------------------------
(* Where the gates ahead are read as they were given, the command takes    *)
(* the turn above.                                                         *)
AsGiven == \A g \in Gates : g >= at => Scanned[g] = raw[g]

LEMMA GoodAhead ==
  ASSUME FiltersAssumption, AsGiven, at \in Nat
  PROVE  /\ \A g \in Gates : g >= at => (g \in GoodInside <=> g \in RawInside)
         /\ \A from \in Nat : from >= at =>
              NextIn(GoodInside, from) = NextIn(RawInside, from)
         /\ \A from \in Nat : from >= at =>
              NextIn(Outside \cup GoodInside, from) = NextIn(Outside \cup RawInside, from)
         /\ \A from \in Nat : from >= at => Reach(from) = RawReach(from)
<1>1. \A g \in Gates : g >= at => (g \in GoodInside <=> g \in RawInside)
  BY DEF AsGiven, GoodInside, RawInside
<1>2. GoodInside \in SUBSET Gates /\ RawInside \in SUBSET Gates
  BY DEF GoodInside, RawInside
<1>3. \A g \in Gates : g \in Nat
  BY DEF FiltersAssumption, Gates
<1>4. ASSUME NEW from \in Nat, from >= at
      PROVE  /\ NextIn(GoodInside, from) = NextIn(RawInside, from)
             /\ NextIn(Outside \cup GoodInside, from) = NextIn(Outside \cup RawInside, from)
             /\ Reach(from) = RawReach(from)
  <2>1. \A g : g \in GoodInside /\ g >= from <=> g \in RawInside /\ g >= from
    BY <1>1, <1>2, <1>3, <1>4
  <2>2. /\ {g \in GoodInside : g >= from} = {g \in RawInside : g >= from}
        /\ {g \in Outside \cup GoodInside : g >= from}
           = {g \in Outside \cup RawInside : g >= from}
    BY <2>1
  <2>3. Reach(from) = RawReach(from)
    BY <2>1 DEF Reach, RawReach
  <2>4. QED
    BY <2>2, <2>3 DEF NextIn
<1>5. QED
  BY <1>1, <1>4

LEMMA FoundMarked ==
  ASSUME IInv, NEW g \in Gates, raw[g] # Bad, Marked(g), UNCHANGED <<filter, raw>>
  PROVE  Found' = Found \cup {g}
<1>1. CASE filter = "flag-freckles"
  BY <1>1 DEF Marked, Found
<1>2. CASE filter # "flag-freckles"
  <2>1. ss' = [h \in Gates |-> IF h = g THEN Bad ELSE ss[h]]
    BY <1>2 DEF Marked, IInv
  <2>2. Changed' = Changed \cup {g}
    BY <2>1 DEF Changed
  <2>3. QED
    BY <1>2, <2>2 DEF Found
<1>3. QED
  BY <1>1, <1>2

LEMMA FoundKept ==
  ASSUME UNCHANGED <<filter, raw, ss, flag>>
  PROVE  Found' = Found
BY DEF Found, Changed

LEMMA FindTurns ==
  ASSUME IInv, AsGiven, FindFreckles, at < NGates
  PROVE  /\ Here' = Turn(Here) /\ pc' \in {"find", "lead"}
         /\ at' >= at /\ at' <= NGates /\ UNCHANGED <<filter, raw, bnd, ss, flag>>
<1> DEFINE start == NextIn(GoodInside, at)
           last  == Kth(Reach(start), freckle_avg_count + 1)
<1>1. /\ pc = "find" /\ at \in Nat /\ NGates \in Nat /\ freckle_avg_count \in Nat
      /\ ~(at >= NGates)
  BY FiltersAssumption DEF FindFreckles, IInv
<1>2. UNCHANGED <<filter, raw, bnd, ss, flag>>
  BY <1>1 DEF FindFreckles
<1>3. /\ start \in Nat /\ start <= NGates /\ start >= at
      /\ NextIn(Outside, start) \in Nat /\ NextIn(Outside, start) <= NGates
      /\ NextIn(Outside, start) # NGates => NextIn(Outside, start) >= start
  BY <1>1, SetsOfGates, NextInFirst
<1>4. start = NextIn(RawInside, at) /\ Reach(start) = RawReach(start)
  BY <1>1, <1>3, GoodAhead, FiltersAssumption
<1>5. Turn(Here) = FindTurn(Here) /\ Here.at = at /\ Here.found = Found
  BY <1>1 DEF Turn, Here, Standing
<1>6. Found' = Found
  BY <1>2, FoundKept
<1>7. CASE last = {}
  <2>1. at' = Resume(start) /\ pc' = "find"
    BY <1>1, <1>7 DEF FindFreckles
  <2>2. Here' = Standing("find", Resume(start), 0, << >>, << >>, Found)
    BY <1>6, <2>1 DEF Here, Standing
  <2>3. Turn(Here) = Standing("find", Resume(start), 0, << >>, << >>, Found)
    BY <1>4, <1>5, <1>7 DEF FindTurn
  <2> HIDE DEF start
  <2>4. QED
    BY <1>1, <1>2, <1>3, <2>1, <2>2, <2>3 DEF Resume
<1>8. CASE last # {}
  <2> DEFINE n == freckle_avg_count
             ahead1 == [k \in 1 .. n |-> raw[Min(Kth(RawReach(start), k + 1))]]
  <2>1. /\ at' = start /\ pc' = "lead" /\ ahead' = Min(last) /\ trail' = << >>
        /\ lead' = [k \in 1 .. n |-> Scanned[Min(Kth(Reach(start), k + 1))]]
    BY <1>1, <1>8 DEF FindFreckles
  <2>2. Reach(start) \in SUBSET Int /\ IsFiniteSet(Reach(start))
    <3>1. IsFiniteSet(0 .. NGates - 1)
      BY <1>1, FS_Interval
    <3>2. Reach(start) \subseteq 0 .. NGates - 1
      BY SetsOfGates DEF Reach, Gates
    <3>3. QED
      BY <1>1, <3>1, <3>2, FS_Subset
  <2>3. ASSUME NEW k \in 1 .. n
        PROVE  Scanned[Min(Kth(Reach(start), k + 1))] = raw[Min(Kth(RawReach(start), k + 1))]
    <3> DEFINE K == Kth(Reach(start), k + 1)
    <3>1. k + 1 \in 1 .. n + 1 /\ n + 1 \in Nat
      BY <1>1
    <3>2. K # {}
      BY <1>8, <2>2, <3>1, KthOfMany
    <3>3. K \subseteq Reach(start)
      BY DEF Kth
    <3>4. Min(K) \in K
      <4>1. K \in SUBSET Int /\ IsFiniteSet(K)
        BY <2>2, <3>3, FS_Subset
      <4> HIDE DEF K
      <4>2. \E m \in K : \A x \in K : m <= x
        BY <3>2, <4>1, LeastElement
      <4>3. QED
        BY <4>2 DEF Min
    <3>5. Min(K) \in Gates /\ Min(K) >= start
      BY <3>3, <3>4, SetsOfGates DEF Reach
    <3>6. Min(K) \in Nat
      BY <1>1, <3>5 DEF Gates
    <3> HIDE DEF K, start
    <3>7. Min(K) >= at
      BY <1>1, <1>3, <3>5, <3>6
    <3>8. Scanned[Min(K)] = raw[Min(K)]
      BY <3>5, <3>7 DEF AsGiven
    <3>9. QED
      BY <1>4, <3>8 DEF K
  <2>4. lead' = ahead1
    <3> HIDE DEF start
    <3>1. QED
      BY <2>1, <2>3
  <2>5. Here' = Standing("lead", start, Min(last), ahead1, << >>, Found)
    BY <1>6, <2>1, <2>4 DEF Here, Standing
  <2>6. Turn(Here) = Standing("lead", start, Min(last), ahead1, << >>, Found)
    <3>1. Kth(RawReach(start), n + 1) # {}
      BY <1>4, <1>8
    <3>2. QED
      BY <1>4, <1>5, <3>1 DEF FindTurn
  <2> HIDE DEF start
  <2>7. QED
    BY <1>2, <1>3, <2>1, <2>5, <2>6
<1>9. QED
  BY <1>7, <1>8

LEMMA LeadTurns ==
  ASSUME IInv, AsGiven, LeadingAverage
  PROVE  /\ Here' = Turn(Here) /\ pc' \in {"find", "lead", "trail"}
         /\ at' > at /\ at' <= NGates /\ UNCHANGED <<filter, raw, bnd>>
         /\ UNCHANGED <<ss, flag>> \/ Marked(at)
         /\ at \in Gates
<1> DEFINE freckle == Distance(Scanned[at], Mean(lead)) > freckle_threshold
           next == NextIn(Outside \cup GoodInside, ahead + 1)
           found1 == IF freckle THEN Found \cup {at} ELSE Found
           kept1  == IF freckle THEN trail ELSE Append(trail, raw[at])
<1>1. /\ UNCHANGED <<filter, raw, bnd>>
      /\ pc = "lead" /\ at \in Nat /\ NGates \in Nat
      /\ ahead \in GoodInside /\ at <= ahead
  BY FiltersAssumption DEF LeadingAverage, IInv, LeadsInside
<1>2. at \in Gates /\ ahead \in Gates /\ ahead \in Nat /\ ahead < NGates /\ at < NGates
  BY <1>1, SetsOfGates DEF Gates
<1>3. Scanned[at] = raw[at] /\ (freckle <=> Freckle(at, lead))
  BY <1>1, <1>2 DEF AsGiven, Freckle
<1>4. /\ Turn(Here) = LeadTurn(Here) /\ Here.at = at /\ Here.ahead = ahead
      /\ Here.lead = lead /\ Here.trail = trail /\ Here.found = Found
  BY <1>1 DEF Turn, Here, Standing
<1>5. /\ next \in Nat /\ next <= NGates
      /\ next # NGates => next >= ahead + 1
      /\ next = NextIn(Outside \cup RawInside, ahead + 1)
      /\ next \in GoodInside <=> next \in RawInside
  <2>1. ahead + 1 \in Nat /\ ahead + 1 >= at
    BY <1>1, <1>2
  <2>2. /\ next \in Nat /\ next <= NGates
        /\ next # NGates => next >= ahead + 1
    BY <2>1, SetsOfGates, NextInFirst
  <2>3. next = NextIn(Outside \cup RawInside, ahead + 1)
    BY <1>1, <2>1, GoodAhead, FiltersAssumption
  <2>4. next > at
    BY <1>1, <1>2, <2>2
  <2>5. next \in GoodInside <=> next \in RawInside
    <3>1. CASE next \in Gates
      <4>1. next >= at
        BY <1>1, <2>2, <2>4
      <4> HIDE DEF next
      <4>2. QED
        BY <1>1, <3>1, <4>1, GoodAhead, FiltersAssumption
    <3>2. CASE next \notin Gates
      BY <3>2 DEF GoodInside, RawInside
    <3>3. QED
      BY <3>1, <3>2
  <2>6. QED
    BY <2>2, <2>3, <2>5
<1>6. CASE Scanned[at] = Bad
  <2>1. at' = at + 1 /\ UNCHANGED <<ss, flag, pc, ahead, lead, trail>>
    BY <1>6 DEF LeadingAverage
  <2>2. Found' = Found
    BY <1>1, <2>1, FoundKept
  <2>3. Here' = Standing("lead", at + 1, ahead, lead, trail, Found)
    BY <1>1, <2>1, <2>2 DEF Here
  <2>4. Turn(Here) = Standing("lead", at + 1, ahead, lead, trail, Found)
    BY <1>3, <1>4, <1>6 DEF LeadTurn
  <2>5. QED
    BY <1>1, <1>2, <2>1, <2>3, <2>4
<1>7. CASE Scanned[at] # Bad
  <2>1. Found' = found1 /\ (UNCHANGED <<ss, flag>> \/ Marked(at)) /\ trail' = kept1
    <3>1. CASE freckle
      <4>1. Marked(at) /\ UNCHANGED trail
        BY <1>7, <3>1 DEF LeadingAverage
      <4>2. Found' = Found \cup {at}
        BY <1>1, <1>2, <1>3, <1>7, <4>1, FoundMarked
      <4>3. QED
        BY <3>1, <4>1, <4>2
    <3>2. CASE ~freckle
      <4>1. UNCHANGED <<ss, flag>> /\ trail' = Append(trail, raw[at])
        BY <1>3, <1>7, <3>2 DEF LeadingAverage
      <4>2. Found' = Found
        BY <1>1, <4>1, FoundKept
      <4>3. QED
        BY <3>2, <4>1, <4>2
    <3>3. QED
      BY <3>1, <3>2
  <2>2. Turn(Here) =
          IF ~freckle /\ Len(trail) + 1 = freckle_avg_count
          THEN Standing("trail", at + 1, 0, << >>, kept1, found1)
          ELSE IF next \notin RawInside
          THEN Standing("find", next, 0, << >>, << >>, found1)
          ELSE Standing("lead", at + 1, next, Append(Tail(lead), raw[next]), kept1, found1)
    <3>1. /\ Here.found = Found /\ Here.trail = trail /\ Here.at = at
          /\ Here.lead = lead /\ raw[at] # Bad
          /\ NextIn(Outside \cup RawInside, Here.ahead + 1) = next
          /\ Freckle(Here.at, Here.lead) <=> freckle
      BY <1>3, <1>4, <1>5, <1>7
    <3> HIDE DEF freckle, next
    <3>2. QED
      BY <1>4, <3>1 DEF LeadTurn
  <2>3. CASE ~freckle /\ Len(trail) + 1 = freckle_avg_count
    <3>1. at' = at + 1 /\ pc' = "trail"
      BY <1>7, <2>3 DEF LeadingAverage
    <3>2. Here' = Standing("trail", at + 1, 0, << >>, kept1, found1)
      BY <2>1, <3>1 DEF Here, Standing
    <3> HIDE DEF freckle, next, found1, kept1
    <3>3. QED
      BY <1>1, <1>2, <2>1, <2>2, <2>3, <3>1, <3>2
  <2>4. CASE ~(~freckle /\ Len(trail) + 1 = freckle_avg_count)
    <3>1. Leads(freckle)
      BY <1>7, <2>4 DEF LeadingAverage
    <3>2. CASE next \notin GoodInside
      <4>1. at' = next /\ pc' = "find"
        BY <3>1, <3>2 DEF Leads
      <4>2. Here' = Standing("find", next, 0, << >>, << >>, found1)
        BY <2>1, <4>1 DEF Here, Standing
      <4>3. next > at
        BY <1>1, <1>2, <1>5
      <4> HIDE DEF freckle, next, found1, kept1
      <4>4. QED
        BY <1>1, <1>2, <1>5, <2>1, <2>2, <2>4, <3>2, <4>1, <4>2, <4>3
    <3>3. CASE next \in GoodInside
      <4>1. /\ at' = at + 1 /\ pc' = "lead" /\ ahead' = next
            /\ lead' = Append(Tail(lead), Scanned[next])
        BY <3>1, <3>3 DEF Leads
      <4>2. Scanned[next] = raw[next]
        <5>1. next \in Gates /\ next # NGates
          <6>1. next \in Gates
            BY <3>3, SetsOfGates
          <6> HIDE DEF next
          <6>2. QED
            BY <1>1, <6>1 DEF Gates
        <5>2. next >= at
          BY <1>1, <1>2, <1>5, <5>1
        <5>3. QED
          BY <5>1, <5>2 DEF AsGiven
      <4>3. Here' = Standing("lead", at + 1, next, Append(Tail(lead), raw[next]), kept1, found1)
        BY <2>1, <4>1, <4>2 DEF Here
      <4> HIDE DEF freckle, next, found1, kept1
      <4>4. QED
        BY <1>1, <1>2, <1>5, <2>1, <2>2, <2>4, <3>3, <4>1, <4>3
    <3>4. QED
      BY <3>2, <3>3
  <2>5. QED
    BY <2>3, <2>4
<1>8. QED
  BY <1>6, <1>7

LEMMA TrailTurns ==
  ASSUME IInv, AsGiven, TrailingAverage, at <= NGates
  PROVE  /\ Here' = Turn(Here) /\ pc' \in {"find", "trail"}
         /\ at' >= at /\ at' <= NGates /\ UNCHANGED <<filter, raw, bnd>>
         /\ UNCHANGED <<ss, flag>> \/ (Marked(at) /\ at \in Gates /\ at' > at)
<1> DEFINE freckle == Distance(Scanned[at], Mean(trail)) > freckle_threshold
<1>1. UNCHANGED <<filter, raw, bnd>> /\ pc = "trail" /\ at \in Nat /\ NGates \in Nat
  BY FiltersAssumption DEF TrailingAverage, IInv
<1>2. /\ Turn(Here) = TrailTurn(Here) /\ Here.at = at
      /\ Here.trail = trail /\ Here.found = Found
  BY <1>1 DEF Turn, Here, Standing
<1>3. CASE at = NGates \/ at \in Outside
  <2>1. pc' = "find" /\ UNCHANGED <<ss, flag, at, trail>>
    BY <1>3 DEF TrailingAverage
  <2>2. Found' = Found
    BY <1>1, <2>1, FoundKept
  <2>3. Here' = Standing("find", at, 0, << >>, << >>, Found)
    BY <2>1, <2>2 DEF Here, Standing
  <2>4. Turn(Here) = Standing("find", at, 0, << >>, << >>, Found)
    BY <1>2, <1>3 DEF TrailTurn
  <2>5. QED
    BY <1>1, <2>1, <2>3, <2>4
<1>4. CASE ~(at = NGates \/ at \in Outside)
  <2>1. at' = at + 1 /\ pc' = "trail" /\ at' > at /\ at' <= NGates
    BY <1>1, <1>4 DEF TrailingAverage
  <2>2. at \in Gates
    BY <1>1, <1>4 DEF Gates
  <2>3. Scanned[at] = raw[at] /\ (freckle <=> Freckle(at, trail))
    BY <1>1, <2>2 DEF AsGiven, Freckle
  <2>4. ASSUME NEW r, NEW f, trail' = r, Found' = f
        PROVE  Here' = Standing("trail", at + 1, 0, << >>, r, f)
    BY <2>1, <2>4 DEF Here, Standing
  <2>5. CASE Scanned[at] = Bad
    <3>1. UNCHANGED <<ss, flag, trail>>
      BY <1>4, <2>5 DEF TrailingAverage
    <3>2. Here' = Standing("trail", at + 1, 0, << >>, trail, Found)
      BY <1>1, <2>4, <3>1, FoundKept
    <3>3. Turn(Here) = Standing("trail", at + 1, 0, << >>, trail, Found)
      BY <1>2, <1>4, <2>3, <2>5 DEF TrailTurn
    <3>4. QED
      BY <1>1, <2>1, <3>1, <3>2, <3>3
  <2>6. CASE Scanned[at] # Bad /\ freckle
    <3>1. Marked(at) /\ UNCHANGED trail
      BY <1>4, <2>6 DEF TrailingAverage
    <3>2. Found' = Found \cup {at}
      BY <1>1, <2>2, <2>3, <2>6, <3>1, FoundMarked
    <3>3. Here' = Standing("trail", at + 1, 0, << >>, trail, Found \cup {at})
      BY <2>4, <3>1, <3>2
    <3>4. Turn(Here) = Standing("trail", at + 1, 0, << >>, trail, Found \cup {at})
      BY <1>2, <1>4, <2>3, <2>6 DEF TrailTurn
    <3>5. QED
      BY <1>1, <2>1, <2>2, <3>1, <3>3, <3>4
  <2>7. CASE Scanned[at] # Bad /\ ~freckle
    <3>1. UNCHANGED <<ss, flag>> /\ trail' = Append(Tail(trail), raw[at])
      BY <1>4, <2>3, <2>7 DEF TrailingAverage
    <3>2. Found' = Found
      BY <1>1, <3>1, FoundKept
    <3>3. Here' = Standing("trail", at + 1, 0, << >>, Append(Tail(trail), raw[at]), Found)
      BY <2>4, <3>1, <3>2
    <3>4. Turn(Here) = Standing("trail", at + 1, 0, << >>, Append(Tail(trail), raw[at]), Found)
      BY <1>2, <1>4, <2>3, <2>7 DEF TrailTurn
    <3>5. QED
      BY <1>1, <2>1, <3>1, <3>3, <3>4
  <2>8. QED
    BY <2>5, <2>6, <2>7
<1>5. QED
  BY <1>3, <1>4

----------------------------------------------------------------------------
LEMMA FreckleStart == Init => FreckleInv
<1> SUFFICES ASSUME Init, Freckling
             PROVE  FreckleInv
  BY DEF FreckleInv
<1>1. /\ filter = "do-defreckling" /\ ss = raw /\ flag = {}
      /\ pc = "find" /\ at = 0 /\ ahead = 0 /\ lead = << >> /\ trail = << >>
      /\ at <= NGates
  BY FiltersAssumption DEF Init, Freckling
<1>2. Here = AtStart
  BY <1>1 DEF Here, AtStart, Found, Changed
<1>3. QED
  BY <1>1, <1>2, ComesHere DEF FreckleInv

(* A turn of either pass.                                                  *)
LEMMA FreckleTurn ==
  ASSUME IInv, FreckleInv, Freckling, pc # "done", ~Over(Here),
         Here' = Turn(Here), pc' \in {"find", "lead", "trail"},
         at' >= at, at' \in Nat, at' <= NGates, UNCHANGED <<filter, raw, bnd>>,
         UNCHANGED <<ss, flag>> \/ (Marked(at) /\ at' > at)
  PROVE  FreckleInv'
<1>1. at \in Nat /\ (\A g \in Gates : g \in Nat) /\ ss = [g \in Gates |-> ss[g]]
  BY FiltersAssumption DEF IInv, Gates
<1>2. PICK h : h = Here'
  OBVIOUS
<1>3. AtStart' = AtStart
  BY DEF AtStart, Standing
<1>4. CASE filter = "do-defreckling"
  <2>1. flag = {} /\ Comes(AtStart, Here) /\ \A g \in Gates : g >= at => ss[g] = raw[g]
    BY <1>4 DEF FreckleInv
  <2>2. flag' = {} /\ \A g \in Gates : g >= at' => ss'[g] = ss[g]
    <3>1. CASE UNCHANGED <<ss, flag>>
      BY <2>1, <3>1
    <3>2. CASE Marked(at) /\ at' > at
      BY <1>1, <1>4, <2>1, <3>2 DEF Marked
    <3>3. QED
      BY <3>1, <3>2
  <2>3. \A g \in Gates : g >= at' => ss'[g] = raw'[g]
    BY <1>1, <2>1, <2>2
  <2>4. Comes(AtStart, h)
    BY <1>2, <2>1, ComesFurther
  <2>5. Comes(AtStart, Here)'
    BY <1>2, <1>3, <2>4, SameScan
  <2>6. QED
    BY <1>4, <2>2, <2>3, <2>5 DEF FreckleInv
<1>5. CASE filter = "flag-freckles"
  <2>1. PICK t : Over(t) /\ t.found = Changed /\ Comes(Here, t)
    BY <1>5 DEF FreckleInv
  <2>2. Changed' = Changed
    BY <1>5 DEF Changed, Marked
  <2>3. Comes(h, t)
    BY <1>2, <2>1, ComesFromNext
  <2>4. Comes(Here, t)'
    BY <1>2, <2>3, SameScan
  <2>5. Over(t)'
    BY <2>1 DEF Over
  <2>6. (\E u : Over(u) /\ u.found = Changed /\ Comes(Here, u))'
    BY <2>1, <2>2, <2>4, <2>5
  <2>7. QED
    BY <1>5, <2>6 DEF FreckleInv
<1>6. QED
  BY <1>4, <1>5 DEF Freckling

LEMMA FreckleStep == IInv /\ FreckleInv /\ [Scan]_vars => FreckleInv'
<1> SUFFICES ASSUME IInv, FreckleInv, [Scan]_vars
             PROVE  FreckleInv'
  OBVIOUS
<1>0. at \in Nat /\ NGates \in Nat
  BY FiltersAssumption DEF IInv
<1>1. CASE ~Freckling
  <2>1. ~Freckling'
    BY <1>1 DEF Scan, vars, Freckling, Despeckle, FindFreckles, LeadingAverage,
                TrailingAverage, FindWindow, MoveWindow, StartUnfolding, Unfold
  <2>2. QED
    BY <2>1 DEF FreckleInv
<1>2. CASE Freckling /\ UNCHANGED vars
  <2>1. PICK h : h = Here
    OBVIOUS
  <2>2. Here' = h /\ AtStart' = AtStart /\ Changed' = Changed /\ Freckling' = Freckling
    BY <1>2, <2>1 DEF vars, Here, Found, Changed, Standing, AtStart, Freckling
  <2>3. UNCHANGED <<filter, raw, bnd, ss, flag, pc, at>>
    BY <1>2 DEF vars
  <2>4. Comes(AtStart, Here) => Comes(AtStart, Here)'
    BY <2>1, <2>2, <2>3, SameScan
  <2>5. ASSUME NEW t, Over(t), t.found = Changed, Comes(Here, t)
        PROVE  (\E u : Over(u) /\ u.found = Changed /\ Comes(Here, u))'
    <3>1. Comes(Here, t)'
      BY <2>1, <2>2, <2>3, <2>5, SameScan
    <3>2. Over(t)'
      BY <2>5 DEF Over
    <3>3. QED
      BY <2>2, <2>5, <3>1, <3>2
  <2>6. QED
    BY <1>2, <2>2, <2>3, <2>4, <2>5 DEF FreckleInv
<1>3. CASE Freckling /\ Scan
  <2>1. /\ pc \in {"find", "lead", "trail", "done"} /\ at <= NGates
        /\ filter \in {"do-defreckling", "flag-freckles"}
    BY <1>3 DEF FreckleInv, Freckling
  <2>2. AsGiven
    <3>1. CASE filter = "flag-freckles"
      BY <3>1 DEF AsGiven, Scanned
    <3>2. CASE filter = "do-defreckling"
      BY <1>3, <3>2 DEF AsGiven, Scanned, FreckleInv
    <3>3. QED
      BY <2>1, <3>1, <3>2
  <2>3. pc \in {"find", "lead", "trail"} /\ (FindFreckles \/ LeadingAverage \/ TrailingAverage)
    BY <2>1, <1>3 DEF Scan, Despeckle, FindFreckles, LeadingAverage,
                      TrailingAverage, FindWindow, MoveWindow, StartUnfolding, Unfold
  <2>4. CASE LeadingAverage
    <3>1. pc = "lead"
      BY <2>4 DEF LeadingAverage
    <3>2. ~Over(Here)
      BY <3>1 DEF Over, Here, Standing
    <3>3. at' \in Nat
      BY <2>4, LeadingAverageInside DEF IInv
    <3>4. at' >= at
      BY <1>0, <2>2, <2>4, <3>3, LeadTurns
    <3>5. QED
      BY <1>3, <2>2, <2>4, <3>1, <3>2, <3>3, <3>4, LeadTurns, FreckleTurn
  <2>5. CASE TrailingAverage
    <3>1. pc = "trail"
      BY <2>5 DEF TrailingAverage
    <3>2. ~Over(Here)
      BY <3>1 DEF Over, Here, Standing
    <3>3. at' \in Nat
      BY <2>5, TrailingAverageInside DEF IInv
    <3>4. QED
      BY <1>3, <2>1, <2>2, <2>5, <3>1, <3>2, <3>3, TrailTurns, FreckleTurn
  <2>6. CASE FindFreckles /\ at < NGates
    <3>1. pc = "find"
      BY <2>6 DEF FindFreckles
    <3>2. ~Over(Here)
      BY <1>0, <2>6, <3>1 DEF Over, Here, Standing
    <3>3. at' \in Nat
      BY <2>6, FindFrecklesInside DEF IInv
    <3>4. QED
      BY <1>3, <2>2, <2>6, <3>1, <3>2, <3>3, FindTurns, FreckleTurn
  <2>7. CASE FindFreckles /\ ~(at < NGates)
    <3>1. /\ NextFilter /\ pc = "find"
          /\ UNCHANGED <<raw, bnd, ss, flag>>
      BY <1>0, <2>7 DEF FindFreckles
    <3>2. /\ filter' = "flag-freckles" /\ at' = 0
          /\ pc' = IF filter = "flag-freckles" THEN "done" ELSE "find"
      BY <3>1 DEF NextFilter
    <3>3. Changed' = Changed
      BY <3>1 DEF Changed
    <3>4. Over(Here) /\ Here.found = Found
      BY <1>0, <2>7, <3>1 DEF Over, Here, Standing
    <3>5. at' <= NGates
      BY <1>0, <3>2
    <3>6. CASE filter = "flag-freckles"
      <4>1. PICK t : t.found = Changed /\ Comes(Here, t)
        BY <1>3, <3>1, <3>6 DEF FreckleInv
      <4>2. flag = Changed
        BY <3>4, <3>6, <4>1, OverThere DEF Found
      <4>3. QED
        BY <3>1, <3>2, <3>3, <3>5, <3>6, <4>2 DEF FreckleInv
    <3>7. CASE filter = "do-defreckling"
      <4>1. flag = {} /\ Comes(AtStart, Here) /\ Found = Changed
        BY <1>3, <3>7 DEF FreckleInv, Found
      <4>2. Here' = AtStart
        BY <3>1, <3>2, <3>7, <4>1 DEF Here, AtStart, Standing, Found
      <4>3. PICK t : t = Here
        OBVIOUS
      <4>4. Over(t)' /\ t.found = Changed'
        BY <3>3, <3>4, <4>1, <4>3 DEF Over
      <4>5. Comes(Here, t)'
        BY <3>1, <4>1, <4>2, <4>3, SameScan
      <4>6. (\E u : Over(u) /\ u.found = Changed /\ Comes(Here, u))'
        BY <4>4, <4>5
      <4>7. QED
        BY <3>2, <3>5, <3>7, <4>6 DEF FreckleInv
    <3>8. QED
      BY <2>1, <3>6, <3>7
  <2>8. QED
    BY <2>3, <2>4, <2>5, <2>6, <2>7
<1>4. QED
  BY <1>1, <1>2, <1>3

LEMMA FrecklesFollowed == Spec => []FreckleInv
BY FreckleStart, FreckleStep, InsideInvariant, PTL DEF Spec

(* do-defreckling, which deletes in place and reads its own deletions,     *)
(* deletes what flag-freckles, which reads the ray as it was, flags        *)
(* (se_defrekl, se_flag_freckles).                                         *)
THEOREM DefrecklingDeletesFlagged == Spec => []DeletesWhatItWouldFlag
<1>1. FreckleInv => DeletesWhatItWouldFlag
  BY DEF FreckleInv, DeletesWhatItWouldFlag, Freckling, Changed
<1>2. QED
  BY <1>1, FrecklesFollowed, PTL

----------------------------------------------------------------------------
(* What is flagged.  flag-glitches flags behind where it reads; what it    *)
(* flags is in its window when the window cannot hold enough good gates    *)
(* before it is past its middle, and the queue is as wide as the window:   *)
(* so it is with the counts of the editor's help (radius 3 and 6 gates, 5  *)
(* and 9), and without a count.                                            *)
WindowFills == deglitch_min_bins > deglitch_radius /\ que_size = navg

(* Where the queue holds the gate read k gates ago.                        *)
Back(i, k, n) == IF i >= k THEN i - k ELSE i - k + n
Slot(k)       == Back(win.qend, k, navg)

HeldInside ==
  /\ at <= NGates
  /\ win.good <= win.mm /\ win.mm <= at
  /\ \A g \in Gates : at - win.mm <= g /\ g < at => g \in bnd
  /\ \A k \in 1 .. navg : k <= win.mm => win.que[Slot(k)] \in {Bad, raw[at - k]}

WindowInv ==
  filter = "flag-glitches" =>
    /\ ss = raw /\ raw \in [Gates -> Int] /\ pc \in {"find", "window", "done"}
    /\ win \in [que : [0 .. navg - 1 -> Int], qend : 0 .. navg - 1,
                mm : Nat, good : Int, sum : Int]
    /\ pc = "window" => HeldInside

FlagInv ==
  /\ FlagsGoodGatesInside
  /\ pc = "window" => filter = "flag-glitches"
  /\ WindowInv
  /\ filter \notin {"flag-freckles", "flag-glitches"} => flag = {}

----------------------------------------------------------------------------
(* The queue goes round; quotients are not needed where it is only as wide *)
(* as its window.                                                          *)
LEMMA RoundTheQueue ==
  ASSUME NEW n \in Nat, NEW i \in 0 .. n - 1
  PROVE  /\ (i + 1) % n = IF i + 1 = n THEN 0 ELSE i + 1
         /\ (i + 1) % n \in 0 .. n - 1
         /\ Back((i + 1) % n, 1, n) = i
<1>1. n > 0
  OBVIOUS
<1>2. \A j \in 0 .. n - 1 : j % n = j /\ (j + n) % n = j
  BY <1>1
<1>3. (i + 1) % n = IF i + 1 = n THEN 0 ELSE i + 1
  BY <1>1, <1>2
<1>4. PICK e : e = (i + 1) % n
  OBVIOUS
<1>5. e \in 0 .. n - 1 /\ Back(e, 1, n) = i
  BY <1>3, <1>4 DEF Back
<1>6. QED
  BY <1>3, <1>4, <1>5

LEMMA BackInTheQueue ==
  ASSUME NEW n \in Nat, NEW i \in 0 .. n - 1, NEW k \in 1 .. n - 1
  PROVE  /\ (i - k + n) % n = Back(i, k, n)
         /\ Back(i, k, n) \in 0 .. n - 1 /\ Back(i, k, n) # i
         /\ Back((i + 1) % n, k + 1, n) = Back(i, k, n)
<1>1. \A j \in 0 .. n - 1 : j % n = j /\ (j + n) % n = j
  OBVIOUS
<1>2. (i - k + n) % n = Back(i, k, n)
  BY <1>1 DEF Back
<1>3. Back(i, k, n) \in 0 .. n - 1 /\ Back(i, k, n) # i
  BY DEF Back
<1>4. PICK e : e = (i + 1) % n
  OBVIOUS
<1>5. e = IF i + 1 = n THEN 0 ELSE i + 1
  BY <1>4, RoundTheQueue
<1>6. Back(e, k + 1, n) = Back(i, k, n)
  BY <1>5 DEF Back
<1>7. QED
  BY <1>2, <1>3, <1>4, <1>6

LEMMA ShiftedWindow ==
  ASSUME NEW q, NEW e, NEW m, NEW n, NEW s, NEW x
  PROVE  LET leaves == m >= navg /\ q[e] # Bad
         IN  Shifted([que |-> q, qend |-> e, mm |-> m, good |-> n, sum |-> s], x)
             = [que |-> [q EXCEPT ![e] = x], qend |-> e, mm |-> m + 1,
                good |-> n + (IF x # Bad THEN 1 ELSE 0) - (IF leaves THEN 1 ELSE 0),
                sum |-> s + (IF x # Bad THEN x ELSE 0) - (IF leaves THEN q[e] ELSE 0)]
<1> DEFINE w == [que |-> q, qend |-> e, mm |-> m, good |-> n, sum |-> s]
           leaves == m >= navg /\ q[e] # Bad
           good == n + (IF x # Bad THEN 1 ELSE 0) - (IF leaves THEN 1 ELSE 0)
           sum == s + (IF x # Bad THEN x ELSE 0) - (IF leaves THEN q[e] ELSE 0)
<1>1. w.que = q /\ w.qend = e /\ w.mm = m /\ w.good = n /\ w.sum = s
  OBVIOUS
<1>2. Shifted(w, x) = [w EXCEPT !.que[e] = x, !.mm = m + 1, !.good = good, !.sum = sum]
  <2> HIDE DEF w
  <2>1. QED
    BY <1>1 DEF Shifted
<1> HIDE DEF good, sum
<1>3. [w EXCEPT !.que[e] = x, !.mm = m + 1, !.good = good, !.sum = sum]
      = [w EXCEPT !.que = [q EXCEPT ![e] = x], !.mm = m + 1, !.good = good, !.sum = sum]
  OBVIOUS
<1>4. Shifted(w, x) = [que |-> [q EXCEPT ![e] = x], qend |-> e, mm |-> m + 1,
                       good |-> good, sum |-> sum]
  BY <1>2, <1>3
<1>5. QED
  BY <1>4 DEF good, sum
(* A gate enters the window, and the one in its middle is looked at.       *)
LEMMA WindowMoves ==
  ASSUME WindowFills, IInv, FlagInv, MoveWindow
  PROVE  WindowInv' /\ FlagsGoodGatesInside'
<1> DEFINE w   == Shifted(win, ss[at])
           ctr == (win.qend - deglitch_radius + navg) % que_size
           end == (win.qend + 1) % que_size
           r   == deglitch_radius
<1>1. /\ pc = "window" /\ filter = "flag-glitches"
      /\ UNCHANGED <<filter, raw, bnd, ss>>
      /\ at \in Nat /\ NGates \in Nat /\ r \in Nat /\ r >= 1
      /\ deglitch_min_bins \in Nat /\ deglitch_min_bins > r /\ que_size = navg
  BY FiltersAssumption DEF MoveWindow, IInv, WindowFills, FlagInv
<1>2. navg = 2 * r + 1 /\ navg \in Nat
  BY <1>1 DEF navg
<1>3. /\ ss = raw /\ raw \in [Gates -> Int] /\ HeldInside
      /\ win \in [que : [0 .. navg - 1 -> Int], qend : 0 .. navg - 1,
                  mm : Nat, good : Int, sum : Int]
  BY <1>1 DEF FlagInv, WindowInv
<1>4. CASE at = NGates \/ at \in Outside
  <2>1. pc' = "find" /\ UNCHANGED <<at, win, flag>>
    BY <1>4 DEF MoveWindow
  <2>2. QED
    BY <1>1, <1>3, <2>1 DEF WindowInv, FlagInv, FlagsGoodGatesInside, RawGood
<1>5. CASE ~(at = NGates \/ at \in Outside)
  <2>1. /\ at' = at + 1 /\ pc' = "window"
        /\ IF Glitch(w, ctr)
           THEN /\ win' = [w EXCEPT !.que[ctr] = Bad, !.qend = end,
                                    !.good = @ - 1, !.sum = @ - w.que[ctr]]
                /\ flag' = flag \cup {at - r}
           ELSE win' = [w EXCEPT !.qend = end] /\ UNCHANGED flag
    BY <1>5 DEF MoveWindow
  <2>2. /\ at <= NGates /\ win.good <= win.mm /\ win.mm <= at
        /\ \A g \in Gates : at - win.mm <= g /\ g < at => g \in bnd
        /\ \A k \in 1 .. navg : k <= win.mm => win.que[Slot(k)] \in {Bad, raw[at - k]}
    BY <1>3 DEF HeldInside
  <2>3. at \in Gates /\ at \in bnd /\ at < NGates
    BY <1>1, <1>5, <2>2 DEF Gates, Outside
  <2>4. ss[at] \in Int /\ ss[at] = raw[at] /\ Bad \in Int
    <3>1. Bad \in Int
      BY FiltersAssumption
    <3>2. QED
      BY <1>3, <2>3, <3>1
  <2>5. /\ win.qend \in 0 .. navg - 1 /\ win.mm \in Nat /\ win.good \in Int
        /\ win.sum \in Int /\ win.que \in [0 .. navg - 1 -> Int]
    BY <1>3
  <2> DEFINE q == [i \in 0 .. navg - 1 |-> IF i = win.qend THEN ss[at] ELSE win.que[i]]
             leaves == win.mm >= navg /\ win.que[win.qend] # Bad
             good == win.good + (IF ss[at] # Bad THEN 1 ELSE 0) - (IF leaves THEN 1 ELSE 0)
             sum == win.sum + (IF ss[at] # Bad THEN ss[at] ELSE 0)
                      - (IF leaves THEN win.que[win.qend] ELSE 0)
  <2>6. w = [que |-> q, qend |-> win.qend, mm |-> win.mm + 1, good |-> good, sum |-> sum]
    <3>1. win = [que |-> win.que, qend |-> win.qend, mm |-> win.mm,
                 good |-> win.good, sum |-> win.sum]
      BY <1>3
    <3>2. [win.que EXCEPT ![win.qend] = ss[at]] = q
      BY <2>5
    <3>3. w = Shifted([que |-> win.que, qend |-> win.qend, mm |-> win.mm,
                       good |-> win.good, sum |-> win.sum], ss[at])
      BY <3>1
    <3> HIDE DEF w, q
    <3>4. QED
      BY <3>2, <3>3, ShiftedWindow
  <2>7. good \in Int /\ sum \in Int /\ good <= win.mm + 1 /\ q \in [0 .. navg - 1 -> Int]
    <3>1. win.que[win.qend] \in Int
      BY <2>5
    <3>2. good \in Int /\ good <= win.mm + 1
      BY <2>2, <2>5
    <3>3. sum \in Int
      BY <2>4, <2>5, <3>1
    <3>4. q \in [0 .. navg - 1 -> Int]
      BY <2>4, <2>5
    <3>5. QED
      BY <3>2, <3>3, <3>4
  <2>8. /\ end = (win.qend + 1) % navg /\ end \in 0 .. navg - 1
        /\ ctr = Slot(r) /\ Slot(r) \in 0 .. navg - 1 /\ Slot(r) # win.qend
    <3>1. r \in 1 .. navg - 1
      BY <1>1, <1>2
    <3>2. PICK i \in 0 .. navg - 1 : i = win.qend
      BY <2>5
    <3>3. /\ (i + 1) % navg \in 0 .. navg - 1
          /\ (i - r + navg) % navg = Back(i, r, navg)
          /\ Back(i, r, navg) \in 0 .. navg - 1 /\ Back(i, r, navg) # i
      BY <1>2, <3>1, RoundTheQueue, BackInTheQueue
    <3>4. QED
      BY <1>1, <3>2, <3>3 DEF Slot
  <2>9. end \in 0 .. navg - 1 /\ ctr \in 0 .. navg - 1
    BY <2>8
  <2> DEFINE glitch == Glitch(w, ctr)
             q1 == [i \in 0 .. navg - 1 |-> IF glitch /\ i = ctr THEN Bad ELSE q[i]]
             good1 == IF glitch THEN good - 1 ELSE good
             sum1  == IF glitch THEN sum - q[ctr] ELSE sum
  <2>10. win' = [que |-> q1, qend |-> end, mm |-> win.mm + 1, good |-> good1, sum |-> sum1]
    <3> HIDE DEF w, ctr, end, good, sum, glitch
    <3>1. CASE glitch
      <4>1. win' = [w EXCEPT !.que[ctr] = Bad, !.qend = end, !.good = @ - 1,
                             !.sum = @ - w.que[ctr]]
        BY <2>1, <3>1 DEF glitch
      <4>2. PICK old : old = q
        OBVIOUS
      <4>3. q1 = [old EXCEPT ![ctr] = Bad]
        BY <2>9, <3>1, <4>2
      <4> HIDE DEF q, q1
      <4>4. win' = [que |-> [old EXCEPT ![ctr] = Bad], qend |-> end, mm |-> win.mm + 1,
                    good |-> good - 1, sum |-> sum - old[ctr]]
        BY <2>6, <4>1, <4>2
      <4>5. QED
        BY <3>1, <4>2, <4>3, <4>4
    <3>2. CASE ~glitch
      <4>1. q1 = q
        BY <3>2
      <4>2. win' = [w EXCEPT !.qend = end]
        BY <2>1, <3>2 DEF glitch
      <4> HIDE DEF q, q1
      <4>3. QED
        BY <2>6, <3>2, <4>1, <4>2
    <3>3. QED
      BY <3>1, <3>2
  <2>11. q1 \in [0 .. navg - 1 -> Int] /\ good1 \in Int /\ sum1 \in Int /\ good1 <= win.mm + 1
    <3> HIDE DEF q, good, sum, glitch, ctr
    <3>1. q[ctr] \in Int /\ q1 \in [0 .. navg - 1 -> Int]
      BY <2>4, <2>7, <2>9
    <3>2. good1 \in Int /\ good1 <= win.mm + 1
      BY <2>5, <2>7
    <3>3. sum1 \in Int
      BY <2>7, <3>1
    <3>4. QED
      BY <3>1, <3>2, <3>3
  <2>12. \A i \in 0 .. navg - 1 : q1[i] \in {Bad, IF i = win.qend THEN raw[at] ELSE win.que[i]}
    <3> HIDE DEF glitch, ctr
    <3>1. QED
      BY <2>4
  <2>13. ASSUME NEW k \in 1 .. navg, k <= win.mm + 1
         PROVE  q1[Slot(k)'] \in {Bad, raw[at' - k]}
    <3>1. Slot(k)' = Back(end, k, navg)
      BY <2>10 DEF Slot, navg
    <3> HIDE DEF q1, end, ctr
    <3>2. CASE k = 1
      <4>1. Slot(k)' = win.qend
        BY <1>2, <2>5, <2>8, <3>1, <3>2, RoundTheQueue
      <4>2. at' - k = at
        BY <1>1, <2>1, <3>2
      <4>3. QED
        BY <2>5, <2>12, <4>1, <4>2
    <3>3. CASE k # 1
      <4>1. k - 1 \in 1 .. navg - 1 /\ k - 1 \in 1 .. navg /\ k - 1 <= win.mm
        BY <1>2, <2>5, <2>13, <3>3
      <4>2. /\ Back(end, (k - 1) + 1, navg) = Slot(k - 1)
            /\ Slot(k - 1) \in 0 .. navg - 1 /\ Slot(k - 1) # win.qend
        <5>1. PICK i \in 0 .. navg - 1 : i = win.qend
          BY <2>5
        <5>2. PICK l \in 1 .. navg - 1 : l = k - 1
          BY <4>1
        <5>3. /\ Back((i + 1) % navg, l + 1, navg) = Back(i, l, navg)
              /\ Back(i, l, navg) \in 0 .. navg - 1 /\ Back(i, l, navg) # i
          BY <1>2, BackInTheQueue
        <5>4. QED
          BY <2>8, <5>1, <5>2, <5>3 DEF Slot
      <4>3. k = (k - 1) + 1
        BY <4>1
      <4>4. Slot(k)' = Slot(k - 1)
        BY <3>1, <4>2, <4>3
      <4>5. at' - k = at - (k - 1)
        BY <1>1, <2>1
      <4>6. win.que[Slot(k - 1)] \in {Bad, raw[at - (k - 1)]}
        BY <2>2, <4>1
      <4>7. QED
        BY <2>12, <4>2, <4>4, <4>5, <4>6
    <3>4. QED
      BY <3>2, <3>3
  <2>14. HeldInside'
    <3>1. win'.mm = win.mm + 1 /\ win'.good = good1 /\ win'.que = q1 /\ at' = at + 1
      BY <2>1, <2>10
    <3> HIDE DEF q1, good1
    <3>2. at' <= NGates /\ win'.good <= win'.mm /\ win'.mm <= at'
      <4>1. PICK m \in Nat : m = win.mm /\ m <= at
        BY <2>2, <2>5
      <4>2. m + 1 <= at' /\ at' <= NGates
        BY <1>1, <2>3, <3>1, <4>1
      <4>3. QED
        BY <2>11, <3>1, <4>1, <4>2
    <3>3. ASSUME NEW g \in Gates, at' - win'.mm <= g, g < at'
          PROVE  g \in bnd'
      <4>1. g \in Nat
        BY <1>1 DEF Gates
      <4>2. at - win.mm <= g /\ (g < at \/ g = at)
        <5>1. PICK m \in Nat : m = win.mm
          BY <2>5
        <5>2. (at + 1) - (m + 1) <= g /\ g < at + 1
          BY <3>1, <3>3, <5>1
        <5>3. QED
          BY <1>1, <4>1, <5>1, <5>2
      <4>3. QED
        BY <1>1, <2>2, <2>3, <4>2
    <3>4. \A k \in 1 .. navg : k <= win'.mm => win'.que[Slot(k)'] \in {Bad, raw'[at' - k]}
      BY <1>1, <2>13, <3>1
    <3>5. QED
      BY <3>2, <3>3, <3>4 DEF HeldInside
  <2>15. WindowInv'
    <3>1. win' \in [que : [0 .. navg - 1 -> Int], qend : 0 .. navg - 1,
                    mm : Nat, good : Int, sum : Int]
      <4> HIDE DEF q1, good1, sum1, end
      <4>1. win.mm + 1 \in Nat
        BY <2>5
      <4>2. QED
        BY <2>9, <2>10, <2>11, <4>1
    <3>2. QED
      BY <1>1, <1>3, <2>1, <2>14, <3>1 DEF WindowInv
  <2>16. FlagsGoodGatesInside'
    <3>1. CASE ~glitch
      BY <1>1, <2>1, <3>1 DEF FlagInv, FlagsGoodGatesInside, RawGood
    <3>2. CASE glitch
      <4>1. good >= deglitch_min_bins /\ q[ctr] # Bad
        BY <2>6, <3>2 DEF Glitch
      <4> HIDE DEF good
      <4>2. r <= win.mm
        BY <1>1, <2>5, <2>7, <4>1
      <4>3. win.que[Slot(r)] # Bad
        BY <2>8, <4>1
      <4>4. win.que[Slot(r)] \in {Bad, raw[at - r]}
        <5>1. r \in 1 .. navg
          BY <1>1, <1>2
        <5>2. QED
          BY <2>2, <4>2, <5>1
      <4>5. at - r \in Gates /\ at - win.mm <= at - r /\ at - r < at
        BY <1>1, <2>2, <2>3, <2>5, <4>2 DEF Gates
      <4>6. RawGood(at - r) /\ at - r \in bnd
        BY <2>2, <4>3, <4>4, <4>5 DEF RawGood
      <4>7. flag' = flag \cup {at - r}
        BY <2>1, <3>2
      <4>8. QED
        BY <1>1, <4>6, <4>7 DEF FlagInv, FlagsGoodGatesInside, RawGood
    <3>3. QED
      BY <3>1, <3>2
  <2>17. QED
    BY <2>15, <2>16
<1>6. QED
  BY <1>4, <1>5

(* A freckle that is flagged is a good gate inside.                        *)
LEMMA FreckleFlagged ==
  ASSUME IInv, FlagsGoodGatesInside, NEW g \in Gates, g \in bnd, Scanned[g] # Bad,
         Marked(g) \/ UNCHANGED flag, UNCHANGED <<raw, bnd>>
  PROVE  FlagsGoodGatesInside' /\ (filter # "flag-freckles" => flag' = flag)
<1>1. CASE filter = "flag-freckles"
  <2>1. RawGood(g) /\ flag' \subseteq flag \cup {g}
    BY <1>1 DEF Marked, Scanned, RawGood
  <2>2. QED
    BY <1>1, <2>1 DEF FlagsGoodGatesInside, RawGood
<1>2. CASE filter # "flag-freckles"
  BY <1>2 DEF Marked, FlagsGoodGatesInside, RawGood
<1>3. QED
  BY <1>1, <1>2

LEMMA FlagStep ==
  WindowFills /\ IInv /\ FreckleInv /\ FlagInv /\ [Scan]_vars => FlagInv'
<1> SUFFICES ASSUME WindowFills, IInv, FreckleInv, FlagInv, [Scan]_vars
             PROVE  FlagInv'
  OBVIOUS
<1>1. CASE Despeckle \/ FindFreckles \/ StartUnfolding \/ Unfold
  <2>1. /\ UNCHANGED <<raw, bnd, flag>> /\ pc' # "window"
        /\ filter # "flag-glitches" /\ filter' # "flag-glitches"
    BY <1>1 DEF Despeckle, FindFreckles, NextFilter, StartUnfolding, Unfold,
                Freckling, FlagInv, WindowInv
  <2>2. filter' \in {filter, "flag-freckles"}
    BY <1>1 DEF Despeckle, FindFreckles, NextFilter, StartUnfolding, Unfold
  <2>3. filter = "flag-freckles" => filter' = "flag-freckles"
    BY <2>2
  <2>4. QED
    BY <2>1, <2>2, <2>3 DEF FlagInv, FlagsGoodGatesInside, RawGood, WindowInv
<1>2. CASE LeadingAverage \/ TrailingAverage
  <2>1. /\ UNCHANGED <<filter, raw, bnd>> /\ Freckling /\ filter # "flag-glitches"
        /\ pc' # "window" /\ at \in Nat /\ NGates \in Nat /\ at <= NGates
    BY <1>2, FiltersAssumption DEF LeadingAverage, Leads, TrailingAverage, Freckling,
                                   IInv, FreckleInv
  <2>2. CASE UNCHANGED flag
    BY <2>1, <2>2 DEF FlagInv, FlagsGoodGatesInside, RawGood, WindowInv
  <2>3. CASE flag' # flag
    <3>1. Scanned[at] # Bad /\ Marked(at)
      BY <1>2, <2>3 DEF LeadingAverage, TrailingAverage
    <3>2. at \in Gates /\ at \in bnd
      <4>1. CASE LeadingAverage
        <5>1. ahead \in Gates /\ at <= ahead /\ \A g \in Gates : at <= g /\ g <= ahead => g \in bnd
          BY <4>1, SetsOfGates DEF LeadingAverage, IInv, LeadsInside
        <5>2. at \in Gates
          BY <2>1, <5>1 DEF Gates
        <5>3. QED
          BY <2>1, <5>1, <5>2
      <4>2. CASE TrailingAverage
        <5>1. at # NGates /\ at \notin Outside
          BY <2>3, <4>2 DEF TrailingAverage
        <5>2. QED
          BY <2>1, <5>1 DEF Gates, Outside
      <4>3. QED
        BY <1>2, <4>1, <4>2
    <3>3. FlagsGoodGatesInside' /\ (filter # "flag-freckles" => flag' = flag)
      BY <2>1, <3>1, <3>2, FreckleFlagged DEF FlagInv
    <3>4. QED
      BY <2>1, <3>3 DEF FlagInv, WindowInv
  <2>4. QED
    BY <2>2, <2>3
<1>3. CASE FindWindow
  <2>1. /\ UNCHANGED <<filter, raw, bnd, ss, flag>> /\ filter = "flag-glitches"
        /\ at' = NextIn(bnd \cap Gates, at)
        /\ win' = [win EXCEPT !.qend = 0, !.mm = 0, !.good = 0, !.sum = 0]
        /\ pc' \in {"done", "window"}
    BY <1>3 DEF FindWindow
  <2>2. /\ ss = raw /\ raw \in [Gates -> Int]
        /\ win \in [que : [0 .. navg - 1 -> Int], qend : 0 .. navg - 1,
                    mm : Nat, good : Int, sum : Int]
    BY <2>1 DEF FlagInv, WindowInv
  <2>3. navg \in Nat /\ navg > 0
    BY FiltersAssumption DEF navg
  <2>4. /\ win' \in [que : [0 .. navg - 1 -> Int], qend : 0 .. navg - 1,
                     mm : Nat, good : Int, sum : Int]
        /\ win'.mm = 0 /\ win'.good = 0
    <3>1. win = [que |-> win.que, qend |-> win.qend, mm |-> win.mm,
                 good |-> win.good, sum |-> win.sum]
      BY <2>2
    <3>2. win' = [que |-> win.que, qend |-> 0, mm |-> 0, good |-> 0, sum |-> 0]
      BY <2>1, <3>1
    <3>3. win.que \in [0 .. navg - 1 -> Int] /\ 0 \in 0 .. navg - 1
      BY <2>2, <2>3
    <3>4. QED
      BY <3>2, <3>3
  <2>5. at' \in Nat /\ at' <= NGates
    <3>1. bnd \cap Gates \in SUBSET Gates
      OBVIOUS
    <3>2. QED
      BY <2>1, <3>1, NextInFirst DEF IInv
  <2>6. HeldInside'
    <3>1. \A g \in Gates : g \in Nat
      BY FiltersAssumption DEF Gates
    <3>2. \A g \in Gates : ~(at' - win'.mm <= g /\ g < at')
      BY <2>4, <2>5, <3>1
    <3>3. \A k \in 1 .. navg : ~(k <= win'.mm)
      BY <2>3, <2>4
    <3>4. QED
      BY <2>4, <2>5, <3>2, <3>3 DEF HeldInside, navg
  <2>7. QED
    BY <2>1, <2>2, <2>4, <2>6 DEF FlagInv, WindowInv, FlagsGoodGatesInside, RawGood, navg
<1>4. CASE MoveWindow
  <2>1. filter = "flag-glitches" /\ filter' = filter
    BY <1>4 DEF MoveWindow, FlagInv
  <2>2. QED
    BY <1>4, <2>1, WindowMoves DEF FlagInv
<1>5. CASE UNCHANGED vars
  BY <1>5 DEF vars, FlagInv, FlagsGoodGatesInside, RawGood, WindowInv, HeldInside, Slot, navg
<1>6. QED
  BY <1>1, <1>2, <1>3, <1>4, <1>5 DEF Scan

(* Only good gates inside the boundary are flagged, for rays of any length *)
(* and data and any boundary (se_flag_freckles, se_flag_glitches); by      *)
(* flag-glitches, where the window fills before its middle is looked at.   *)
THEOREM FlagsAreGoodGatesInside == ASSUME WindowFills PROVE Spec => []FlagsGoodGatesInside
<1>1. Init => FlagInv
  <2> SUFFICES ASSUME Init
               PROVE  FlagInv
    OBVIOUS
  <2>1. /\ flag = {} /\ pc = "find" /\ ss = raw /\ raw \in [Gates -> Int]
        /\ filter # "flag-freckles"
    BY FiltersAssumption DEF Init
  <2>2. win \in [que : [0 .. navg - 1 -> Int], qend : 0 .. navg - 1,
                mm : Nat, good : Int, sum : Int]
    <3>1. navg \in Nat /\ navg > 0 /\ que_size = navg
      BY FiltersAssumption DEF navg, WindowFills
    <3>2. PICK left \in Int : win = [que |-> [i \in 0 .. que_size - 1 |-> left],
                                    qend |-> 0, mm |-> 0, good |-> 0, sum |-> 0]
      BY FiltersAssumption DEF Init
    <3>3. QED
      BY <3>1, <3>2
  <2>3. QED
    BY <2>1, <2>2 DEF FlagInv, FlagsGoodGatesInside, WindowInv
<1>2. FlagInv => FlagsGoodGatesInside
  BY DEF FlagInv
<1>3. WindowFills /\ IInv /\ FreckleInv /\ FlagInv /\ [Scan]_vars => FlagInv'
  BY FlagStep
<1>4. IInv /\ FreckleInv /\ FlagInv /\ [Scan]_vars => FlagInv'
  BY <1>3
<1>5. QED
  BY <1>1, <1>2, <1>4, InsideInvariant, FrecklesFollowed, PTL DEF Spec
=============================================================================
