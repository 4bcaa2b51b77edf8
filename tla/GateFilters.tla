---------------------------- MODULE GateFilters ----------------------------
(***************************************************************************)
(* The editor's filters: the for-each-ray commands that decide about a     *)
(* gate from the gates around it.  A ray is scanned by index, inside the   *)
(* boundary only, with queues of running averages that are dropped and     *)
(* filled again wherever the scan leaves the boundary; each action below   *)
(* is one turn of such a loop.                                             *)
(*                                                                         *)
(* A ray of any data with any boundary is given to one filter.  The two    *)
(* freckle commands are given the same ray one after the other, so that    *)
(* what one deletes can be compared with what the other flags.             *)
(***************************************************************************)
EXTENDS Integers, Sequences, FiniteSets, SequencesExt, FiniteSetsExt

CONSTANTS
  NGates,             \* gates up to the clip gate
  Bad,                \* the bad-data value of the field
  Values,             \* the values a gate may hold at first, Bad included
  Masks,              \* the boundary masks: sets of gates inside
  Filters,            \* the commands given first
  a_speckle,          \* a-speckle
  freckle_avg_count,  \* freckle-average
  freckle_threshold,  \* freckle-threshold, scaled
  deglitch_radius, deglitch_threshold, deglitch_min_bins,
  que_size,           \* of the glitch queue: the largest window so far
  nyqv,               \* Nyquist velocity, scaled
  BB_avg_count, BB_max_pos_folds, BB_max_neg_folds

ASSUME FiltersAssumption ==
  /\ NGates \in Nat \ {0} /\ Bad \in Values /\ Values \subseteq Int
  /\ Masks \subseteq SUBSET (0 .. NGates)
  /\ Filters \subseteq {"despeckle", "do-defreckling", "flag-glitches", "BB-unfolding"}
  /\ a_speckle \in Nat /\ freckle_avg_count \in Nat \ {0}
  /\ freckle_threshold \in Nat /\ deglitch_threshold \in Nat
  /\ deglitch_radius \in Nat \ {0}
  /\ deglitch_min_bins \in 2 .. 2 * deglitch_radius + 1
  /\ que_size >= 2 * deglitch_radius + 1 /\ que_size \in Nat
  /\ nyqv \in Nat \ {0} /\ BB_avg_count \in Nat \ {0}
  /\ BB_max_pos_folds \in Nat /\ BB_max_neg_folds \in Nat

Gates == 0 .. NGates - 1

VARIABLES
  filter,   \* the command
  raw,      \* the gates it was given
  bnd,      \* the boundary mask, which has one entry more than the ray
  ss,       \* the gates
  flag,     \* the gates flagged bad
  pc,       \* the loop the scan is in
  at,       \* ndx_ss, the gate it has come to
  ahead,    \* ndx_q0, the last gate of the leading average
  lead,     \* the leading, and
  trail,    \* the trailing running average, oldest value first
  win       \* the glitch window: queue, its end, values, good ones, sum

vars == <<filter, raw, bnd, ss, flag, pc, at, ahead, lead, trail, win>>

----------------------------------------------------------------------------
(* C's quotient, cut off toward zero, and the mean of a queue.             *)
TruncDiv(a, b) == IF a < 0 THEN -((-a) \div b) ELSE a \div b

Total(q) == FoldLeft(+, 0, q)
Mean(q)  == TruncDiv(Total(q), Len(q))

Distance(a, b) == IF a < b THEN b - a ELSE a - b

(* The first gate of S from "from" on, the end of the ray if there is none.*)
NextIn(S, from) == Min({g \in S : g >= from} \cup {NGates})

(* Mutant of Scanned: both passes read the gates as they are now.          *)
ScannedAsEdited == ss

(* The flagging pass of the freckle filters leaves the data alone.         *)
Scanned == IF filter = "flag-freckles" THEN raw ELSE ss

(* Mutant of GoodInside: the boundary is not asked for.                    *)
GoodAnywhere == {g \in Gates : Scanned[g] # Bad}

GoodInside == {g \in Gates : Scanned[g] # Bad /\ g \in bnd}
Outside    == Gates \ bnd

(* Mutant of Marked: the mark is put on the gate after.                   *)
MarkedLate(g) ==
  IF filter = "flag-freckles"
  THEN flag' = flag \cup {g + 1} /\ UNCHANGED ss
  ELSE ss' = [ss EXCEPT ![g] = Bad] /\ UNCHANGED flag

Marked(g) ==
  IF filter = "flag-freckles"
  THEN flag' = flag \cup {g} /\ UNCHANGED ss
  ELSE ss' = [ss EXCEPT ![g] = Bad] /\ UNCHANGED flag

----------------------------------------------------------------------------
(* despeckle: one run of good gates inside the boundary is looked at, and  *)
(* removed if it is short.  A run that ends where the boundary does is     *)
(* not; at the end of the ray the mask's extra entry says which it is.     *)
(* The mutant does not ask why a run ended.                                *)
SpeckleAnyEnd(start, stop) == stop - start <= a_speckle

Speckle(start, stop) == stop \in bnd /\ stop - start <= a_speckle

Despeckle ==
  LET start == NextIn(GoodInside, at)
      stop  == NextIn(Gates \ GoodInside, start)
  IN  /\ filter = "despeckle" /\ pc = "find"
      /\ IF start = NGates
         THEN pc' = "done" /\ UNCHANGED <<ss, at>>
         ELSE /\ ss' = [g \in Gates |-> IF /\ Speckle(start, stop)
                                           /\ start <= g /\ g < stop
                                        THEN Bad ELSE ss[g]]
              /\ at' = stop + 1
              /\ pc' = IF at' < NGates THEN "find" ELSE "done"
      /\ UNCHANGED <<filter, raw, bnd, flag, ahead, lead, trail, win>>

----------------------------------------------------------------------------
(* do-defreckling and flag-freckles.                                       *)

Freckling == filter \in {"do-defreckling", "flag-freckles"}

(* The k-th of the good gates that can be reached from "start" without     *)
(* leaving the boundary, if there are so many.                             *)
Reach(start) == {g \in GoodInside : g >= start /\ g < NextIn(Outside, start)}
Kth(S, k)    == {g \in S : Cardinality({h \in S : h <= g}) = k}

(* Where the scan goes on when there are too few: where the boundary ends. *)
(* The mutant tries the same gate again.                                   *)
ResumeAtSame(start) == start

Resume(start) == NextIn(Outside, start)

(* The scan is over: flag-freckles follows do-defreckling.                 *)
NextFilter ==
  /\ filter' = "flag-freckles"
  /\ at' = 0
  /\ pc' = IF filter = "flag-freckles" THEN "done" ELSE "find"

(* The scan looks for a good gate inside the boundary with enough others   *)
(* ahead of it for the leading average.                                    *)
FindFreckles ==
  LET start == NextIn(GoodInside, at)
      last  == Kth(Reach(start), freckle_avg_count + 1)
  IN  /\ Freckling /\ pc = "find"
      /\ IF at >= NGates
         THEN NextFilter /\ UNCHANGED <<ahead, lead, trail>>
         ELSE IF last = {}
         THEN /\ at' = Resume(start)
              /\ UNCHANGED <<filter, pc, ahead, lead, trail>>
         ELSE /\ at' = start /\ pc' = "lead" /\ ahead' = Min(last)
              /\ lead' = [k \in 1 .. freckle_avg_count |->
                            Scanned[Min(Kth(Reach(start), k + 1))]]
              /\ trail' = << >>
              /\ UNCHANGED filter
      /\ UNCHANGED <<raw, bnd, ss, flag, win>>

(* Mutant of Leads: the leading average is not moved past a freckle.       *)
LeadsUnlessFreckle(freckle) ==
  LET next == NextIn(Outside \cup GoodInside, ahead + 1)
  IN  IF next \notin GoodInside
      THEN at' = next /\ pc' = "find" /\ UNCHANGED <<ahead, lead>>
      ELSE /\ at' = at + 1 /\ pc' = "lead"
           /\ ahead' = IF freckle THEN ahead ELSE next
           /\ lead' = IF freckle THEN lead ELSE Append(Tail(lead), Scanned[next])

(* The leading average takes in the next good gate; if the boundary or the *)
(* ray ends first, the scan goes on from there.                            *)
Leads(freckle) ==
  LET next == NextIn(Outside \cup GoodInside, ahead + 1)
  IN  IF next \notin GoodInside
      THEN at' = next /\ pc' = "find" /\ UNCHANGED <<ahead, lead>>
      ELSE /\ at' = at + 1 /\ pc' = "lead"
           /\ ahead' = next
           /\ lead' = Append(Tail(lead), Scanned[next])

(* A gate is compared with the average of those ahead of it.               *)
LeadingAverage ==
  LET freckle == Distance(Scanned[at], Mean(lead)) > freckle_threshold
      enough  == ~freckle /\ Len(trail) + 1 = freckle_avg_count
  IN  /\ Freckling /\ pc = "lead"
      /\ IF Scanned[at] = Bad
         THEN at' = at + 1 /\ UNCHANGED <<ss, flag, pc, ahead, lead, trail>>
         ELSE /\ IF freckle THEN Marked(at) /\ UNCHANGED trail
                 ELSE trail' = Append(trail, Scanned[at]) /\ UNCHANGED <<ss, flag>>
              /\ IF enough THEN at' = at + 1 /\ pc' = "trail" /\ UNCHANGED <<ahead, lead>>
                 ELSE Leads(freckle)
      /\ UNCHANGED <<filter, raw, bnd, win>>

(* A gate is compared with the average of the last ones that were kept.    *)
TrailingAverage ==
  LET freckle == Distance(Scanned[at], Mean(trail)) > freckle_threshold
  IN  /\ Freckling /\ pc = "trail"
      /\ IF at = NGates \/ at \in Outside
         THEN pc' = "find" /\ UNCHANGED <<ss, flag, at, trail>>
         ELSE /\ at' = at + 1 /\ pc' = "trail"
              /\ CASE Scanned[at] = Bad -> UNCHANGED <<ss, flag, trail>>
                   [] Scanned[at] # Bad /\ freckle -> Marked(at) /\ UNCHANGED trail
                   [] OTHER -> /\ trail' = Append(Tail(trail), Scanned[at])
                               /\ UNCHANGED <<ss, flag>>
      /\ UNCHANGED <<filter, raw, bnd, ahead, lead, win>>

----------------------------------------------------------------------------
(* flag-glitches: the middle of a window of 2 deglitch_radius + 1 gates is *)
(* compared with the mean of the others, as soon as the window holds       *)
(* enough good gates.  The queue is as large as the largest window since   *)
(* the program started, and holds what was last put into it.               *)

navg == 2 * deglitch_radius + 1

FindWindow ==
  /\ filter = "flag-glitches" /\ pc = "find"
  /\ at' = NextIn(bnd \cap Gates, at)
  /\ win' = [win EXCEPT !.qend = 0, !.mm = 0, !.good = 0, !.sum = 0]
  /\ pc' = IF at' = NGates THEN "done" ELSE "window"
  /\ UNCHANGED <<filter, raw, bnd, ss, flag, ahead, lead, trail>>

(* Mutant of Shifted: the value that leaves the window stays in its sum.   *)
ShiftedKeepingOld(w, x) ==
  [w EXCEPT !.que[w.qend] = x, !.mm = @ + 1,
            !.good = @ + (IF x # Bad THEN 1 ELSE 0)
                       - (IF w.mm >= navg /\ w.que[w.qend] # Bad THEN 1 ELSE 0),
            !.sum  = @ + (IF x # Bad THEN x ELSE 0)]

(* The window moves on by a gate of value x.                               *)
Shifted(w, x) ==
  LET leaves == w.mm >= navg /\ w.que[w.qend] # Bad
  IN  [w EXCEPT !.que[w.qend] = x, !.mm = @ + 1,
                !.good = @ + (IF x # Bad THEN 1 ELSE 0) - (IF leaves THEN 1 ELSE 0),
                !.sum  = @ + (IF x # Bad THEN x ELSE 0)
                           - (IF leaves THEN w.que[w.qend] ELSE 0)]

(* It then holds a glitch at position ctr.                                 *)
Glitch(w, ctr) ==
  LET others == w.good - 1
  IN  /\ w.good >= deglitch_min_bins /\ w.que[ctr] # Bad
      /\ Distance(w.sum - w.que[ctr], w.que[ctr] * others) > deglitch_threshold * others

MoveWindow ==
  LET w   == Shifted(win, ss[at])
      ctr == (win.qend - deglitch_radius + navg) % que_size
      end == (win.qend + 1) % que_size
  IN  /\ pc = "window"
      /\ IF at = NGates \/ at \in Outside
         THEN pc' = "find" /\ UNCHANGED <<at, win, flag>>
         ELSE /\ at' = at + 1 /\ pc' = "window"
              /\ IF Glitch(w, ctr)
                 THEN /\ win' = [w EXCEPT !.que[ctr] = Bad, !.qend = end,
                                          !.good = @ - 1, !.sum = @ - w.que[ctr]]
                      /\ flag' = flag \cup {at - deglitch_radius}
                 ELSE win' = [w EXCEPT !.qend = end] /\ UNCHANGED flag
      /\ UNCHANGED <<filter, raw, bnd, ss, ahead, lead, trail>>

----------------------------------------------------------------------------
(* BB-unfolding: a gate is moved by whole Nyquist intervals next to the    *)
(* average of those unfolded before it.                                    *)

nyqi == 2 * nyqv

(* The folds nearest to d, and no more of them than allowed.  The mutant   *)
(* cuts them off instead of rounding them.                                 *)
FoldsCutOff(d) == TruncDiv(d, nyqi)

Folds(d) ==
  LET nearest == TruncDiv(2 * d + (IF d < 0 THEN -nyqi ELSE nyqi), 2 * nyqi)
  IN  Max({-BB_max_neg_folds, Min({BB_max_pos_folds, nearest})})

(* BB_USE_FGG: the first ray of a sweep starts on its first good gate,     *)
(* inside the boundary or not.                                             *)
StartUnfolding ==
  LET good == {g \in Gates : ss[g] # Bad}
  IN  /\ filter = "BB-unfolding" /\ pc = "find"
      /\ pc' = IF good = {} THEN "done" ELSE "unfold"
      /\ trail' = [k \in 1 .. BB_avg_count |-> IF good = {} THEN 0 ELSE ss[Min(good)]]
      /\ UNCHANGED <<filter, raw, bnd, ss, flag, at, ahead, lead, win>>

Unfold ==
  LET g == NextIn(GoodInside, at)
      v == ss[g] + Folds(Mean(trail) - ss[g]) * nyqi
  IN  /\ pc = "unfold"
      /\ IF g = NGates
         THEN pc' = "done" /\ UNCHANGED <<ss, trail, at>>
         ELSE /\ ss' = [ss EXCEPT ![g] = v]
              /\ trail' = Append(Tail(trail), v)
              /\ at' = g + 1 /\ pc' = "unfold"
      /\ UNCHANGED <<filter, raw, bnd, flag, ahead, lead, win>>

----------------------------------------------------------------------------
Init ==
  /\ filter \in Filters
  /\ raw \in [Gates -> Values]
  /\ bnd \in Masks
  /\ ss = raw /\ flag = {} /\ pc = "find" /\ at = 0 /\ ahead = 0
  /\ lead = << >> /\ trail = << >>
  /\ \E left \in IF filter = "flag-glitches" THEN Values ELSE {Bad} :
       win = [que |-> [i \in 0 .. que_size - 1 |-> left],
              qend |-> 0, mm |-> 0, good |-> 0, sum |-> 0]

Scan ==
  \/ Despeckle
  \/ FindFreckles \/ LeadingAverage \/ TrailingAverage
  \/ FindWindow \/ MoveWindow
  \/ StartUnfolding \/ Unfold

Spec     == Init /\ [][Scan]_vars
FairSpec == Spec /\ WF_vars(Scan)

----------------------------------------------------------------------------
RawGood(g) == g \in Gates /\ raw[g] # Bad

(* Every variable has its type.                                            *)
TypeOK ==
  /\ filter \in Filters \cup {"flag-freckles"}
  /\ raw \in [Gates -> Values] /\ ss \in [Gates -> Int]
  /\ bnd \subseteq Gates \cup {NGates} /\ flag \subseteq Int
  /\ pc \in {"find", "lead", "trail", "window", "unfold", "done"}
  /\ at \in 0 .. NGates + 1 /\ ahead \in 0 .. NGates
  /\ lead \in Seq(Int) /\ trail \in Seq(Int)
  /\ win \in [que : [0 .. que_size - 1 -> Int], qend : 0 .. que_size - 1,
              mm : Nat, good : 0 .. navg, sum : Int]

(* No filter changes a gate outside the boundary, whatever it does inside: *)
(* the queues run over gates on both sides of it (se_defrekl, se_despeckle,*)
(* se_flag_glitches, se_BB_ac_unfold).                                     *)
OutsideUntouched == \A g \in Gates \ bnd : ss[g] = raw[g]

(* Only good gates inside the boundary are flagged, although a gate is     *)
(* flagged deglitch_radius gates after it was read (se_flag_glitches).     *)
FlagsGoodGatesInside == \A g \in flag : RawGood(g) /\ g \in bnd

(* A speckle is a run of good gates, as long as it gets inside the         *)
(* boundary, of a-speckle gates or less, with a bad gate or the end of the *)
(* ray after it; despeckle removes all of them and nothing else.           *)
InSpeckle(g) ==
  \E i \in 0 .. g, j \in g .. NGates - 1 :
    /\ \A k \in i .. j : RawGood(k) /\ k \in bnd
    /\ j - i < a_speckle
    /\ ~(RawGood(i - 1) /\ i - 1 \in bnd)
    /\ ~RawGood(j + 1) /\ j + 1 \in bnd

SpecklesRemoved ==
  pc = "done" /\ filter = "despeckle" =>
    \A g \in Gates : ss[g] = IF InSpeckle(g) THEN Bad ELSE raw[g]

(* "We start out averaging n gates ahead": while it leads, the average is  *)
(* that of the n good gates after the one compared, though bad gates lie   *)
(* between them and deleted ones behind (se_defrekl, se_flag_freckles).    *)
AveragesGatesAhead ==
  pc = "lead" /\ RawGood(at) =>
    LET next == SetToSortSeq({g \in at + 1 .. ahead : RawGood(g)}, <)
    IN  lead = [k \in DOMAIN next |-> raw[next[k]]] /\ Len(lead) = freckle_avg_count

(* do-defreckling deletes in place the gates that flag-freckles, which     *)
(* reads the ray as it was, flags: no deleted gate is read again.          *)
DeletesWhatItWouldFlag ==
  pc = "done" /\ filter = "flag-freckles" =>
    flag = {g \in Gates : ss[g] # raw[g]}

(* The window of flag-glitches holds the last gates, as many as it is      *)
(* wide, and its sum is theirs without the glitches found in it: nothing   *)
(* stays behind in the queue from before ("after the que is full").        *)
WindowOfLastGates ==
  pc = "window" =>
    LET held == {g \in at - Min({win.mm, navg}) .. at - 1 : RawGood(g) /\ g \notin flag}
    IN  /\ win.good = Cardinality(held)
        /\ win.sum = MapThenSumSet(LAMBDA g : raw[g], held)

(* Unfolding moves gates by whole Nyquist intervals, each to within the    *)
(* Nyquist velocity of the running average it was compared with, as long   *)
(* as the folds allowed suffice (se_BB_ac_unfold).                         *)
UnfoldsNextToAverage ==
  [][pc = "unfold" /\ at' # at =>
       /\ (ss'[at' - 1] - raw[at' - 1]) % nyqi = 0
       /\ Distance(ss'[at' - 1], Mean(trail)) <= nyqv]_vars

(* Every scan comes to the end of its ray, wherever it starts over.  No    *)
(* other event is handled before, hence the fairness (dd_edd).             *)
FiltersFinish == <>(pc = "done")
=============================================================================
