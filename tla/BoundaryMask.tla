----------------------------- MODULE BoundaryMask -----------------------------
(***************************************************************************)
(* Which gates a set of boundaries encloses: editor/se_bnd.c and the part  *)
(* of the ray loop that uses it (editor/se_proc_data.c:237-322).           *)
(*                                                                         *)
(* For every boundary, rays to four far corners decide whether the radar   *)
(* is inside; the intersections of the ray being edited with the lines of  *)
(* the boundary, in order of range, then cut the ray into stretches that   *)
(* are alternately inside and outside, and the gates of the stretches      *)
(* inside are flagged.  In a time series the ray is vertical, at the time  *)
(* of the ray, and the number of its intersections says where the radar    *)
(* is.  (A boundary forced in or out by command is not modelled.)          *)
(*                                                                         *)
(* Points are whole; ranges are fractions <<p, q>>, q > 0, in gates.  The  *)
(* directions of rays are floating-point: a corner that lies on the ray    *)
(* may be computed on it or on either side, as if the ray were tilted.     *)
(***************************************************************************)
EXTENDS Integers, Sequences, SequencesExt, FiniteSets

CONSTANTS
  Sets,      \* the sets of boundaries: sequences of sequences of points
  Rays,      \* [from, to, series]: the radar, the last gate, a time series?
  NumGates   \* cells of a ray; the first is at the radar

ASSUME GatesAssumption == NumGates \in Nat /\ NumGates > 1

VARIABLES
  set,       \* the boundaries
  ray,       \* the ray being edited
  outside,   \* sebs->operate_outside_bnd
  which,     \* the boundary being worked on
  corner,    \* corners looked at
  odd,       \* of which so many with an odd number of intersections
  inside,    \* ob->radar_inside_boundary
  stage,     \* "corners", "flag" or "done"
  mask       \* seds->boundary_mask: 1 for the gates to be edited

vars == <<set, ray, outside, which, corner, odd, inside, stage, mask>>

Gates == 0..(NumGates - 1)
LastGate == NumGates - 1

----------------------------------------------------------------------------
(* Geometry.                                                               *)

Minus(p, q) == <<p[1] - q[1], p[2] - q[2]>>
Cross(p, q) == p[1] * q[2] - p[2] * q[1]
Dot(p, q) == p[1] * q[1] + p[2] * q[2]
Sign(n) == IF n > 0 THEN 1 ELSE IF n < 0 THEN -1 ELSE 0
Size(n) == IF n < 0 THEN -n ELSE n

Frac(p, q) == IF q > 0 THEN <<p, q>> ELSE <<-p, -q>>
Less(r, s) == r[1] * s[2] < s[1] * r[2]

(* The side of the ray to d on which p is, the ray being tilted a little.  *)
Ccw(p, d, tilt) ==
  LET side == Sign(Cross(d, p))
  IN  IF side # 0 THEN side ELSE tilt * Sign(Dot(d, p))

Tilts(b, d) == IF \E i \in 1..Len(b) : Cross(d, b[i]) = 0 THEN {-1, 0, 1} ELSE {0}

(* The next point along the "last" pointers. *)
Before(b, i) == IF i = 1 THEN Len(b) ELSE i - 1

(* In the order of range, equal ones in the order they are found. *)
Inserted(xs, r) ==
  LET nearer == SelectSeq(xs, LAMBDA x : ~Less(r, x))
  IN  nearer \o <<r>> \o SelectSeq(xs, LAMBDA x : Less(r, x))

(* The intersection of the ray to d with the line from p to q, if it is    *)
(* neither behind the radar nor beyond the end of the ray.                 *)
SetIntxn(xs, d, p, q) ==
  LET e == Minus(q, p)
      s == Frac(Cross(p, e) * LastGate, Cross(d, e))
  IN  IF s[1] < 0 \/ s[1] > LastGate * s[2] THEN xs ELSE Inserted(xs, s)

(* Mutant of FindIntxns: compares with the point before, on the ray or not. *)
FindIntxnsOfNeighbours(b, d, tilt) ==
  LET side(i) == Ccw(b[i], d, tilt)
      crosses(i) == side(i) # 0 /\ side(Before(b, i)) # 0 /\ side(i) # side(Before(b, i))
  IN  FoldLeftDomain(LAMBDA xs, i : IF crosses(i) THEN SetIntxn(xs, d, b[i], b[Before(b, i)])
                                    ELSE xs, <<>>, b)

(* Around the boundary from the first point not on the ray.  The side      *)
(* compared with is that of the last point that was not on it.             *)
FindIntxns(b, d, tilt) ==
  LET side(i) == Ccw(b[i], d, tilt)
      off == {i \in 1..Len(b) : side(i) # 0}
      start == CHOOSE i \in off : \A j \in off : i <= j
      at(k) == ((start - 1 - k + Len(b)) % Len(b)) + 1
      step(acc, k) ==
        LET i == at(k - 1)
            j == Before(b, i)
        IN  IF side(j) = 0 THEN acc
            ELSE [last |-> side(j),
                  xs |-> IF side(j) # acc.last THEN SetIntxn(acc.xs, d, b[i], b[j]) ELSE acc.xs]
  IN  IF off = {} THEN <<>>
      ELSE FoldLeftDomain(step, [last |-> side(start), xs |-> <<>>], b).xs

Spans(ta, tb, t) == ta <= t /\ t < tb

(* A time series: the lines above (or below) the radar at the ray's time.  *)
TsFindIntxns(b, from, up) ==
  LET line(i) == IF b[Before(b, i)][1] < b[i][1] THEN <<b[Before(b, i)], b[i]>>
                 ELSE <<b[i], b[Before(b, i)]>>
      height(l) == Frac(Cross(Minus(from, l[1]), Minus(l[2], l[1])), l[2][1] - l[1][1])
      step(xs, i) ==
        LET l == line(i)
            z == height(l)
        IN  IF Spans(l[1][1], l[2][1], from[1]) /\ Sign(z[1]) = up
            THEN Inserted(xs, <<Size(z[1]), z[2]>>) ELSE xs
  IN  FoldLeftDomain(step, <<>>, b)

----------------------------------------------------------------------------
(* The stretches inside.                                                   *)

FarAway == <<1000000, 1>>
AtRadar == <<0, 1>>

(* Mutant of NumSegments: a ray that ends inside is cut at the last line.  *)
NumSegmentsClosed(nx, in) == IF in THEN (nx + 1) \div 2 ELSE nx \div 2

NumSegments(nx, in) ==
  IF in THEN IF nx = 0 THEN 1 ELSE IF nx % 2 = 1 THEN (nx + 1) \div 2 ELSE nx \div 2 + 1
  ELSE IF nx % 2 = 1 THEN (nx + 1) \div 2 ELSE nx \div 2

(* The first starts at the radar if that is inside; each ends at the next  *)
(* line, or never.                                                         *)
Segment(xs, in, n) ==
  LET first == IF in THEN 2 * n - 2 ELSE 2 * n - 1
      at(k) == IF k = 0 THEN AtRadar ELSE IF k > Len(xs) THEN FarAway ELSE xs[k]
  IN  <<at(first), at(first + 1)>>

(* The nearest cell, no further than the last. *)
CellNum(r) ==
  LET cell == (2 * r[1] + r[2]) \div (2 * r[2])
  IN  IF cell > LastGate THEN LastGate ELSE cell

Enclosed(xs, in) ==
  {g \in Gates : \E n \in 1..NumSegments(Len(xs), in) :
     LET s == Segment(xs, in, n)
     IN  s[2][1] > 0 /\ CellNum(s[1]) <= g /\ g <= CellNum(s[2])}

----------------------------------------------------------------------------
Init ==
  /\ set \in Sets /\ ray \in Rays
  /\ outside \in BOOLEAN
  /\ which = 1 /\ corner = 0 /\ odd = 0 /\ inside = FALSE
  /\ stage = IF ray.series THEN "flag" ELSE "corners"
  /\ mask = [g \in Gates |-> IF outside THEN 1 ELSE 0]

(* Beyond every point of the boundary: eleven metres, here one step. *)
Corner(b, n) ==
  LET beyond(k) == 1 + CHOOSE m \in {Size(b[i][k]) : i \in 1..Len(b)} :
                         \A i \in 1..Len(b) : Size(b[i][k]) <= m
  IN  <<IF n \in {1, 2} THEN -beyond(1) ELSE beyond(1),
        IF n \in {2, 3} THEN -beyond(2) ELSE beyond(2)>>

(* se_radar_inside_bnd, one corner after the other. *)
LookAtCorner ==
  /\ stage = "corners" /\ corner < 4
  /\ LET d == Corner(set[which], corner) IN
     \E tilt \in Tilts(set[which], d) :
       odd' = odd + (Len(FindIntxns(set[which], d, tilt)) % 2)
  /\ corner' = corner + 1
  /\ UNCHANGED <<set, ray, outside, which, inside, stage, mask>>

PlaceRadar ==
  /\ stage = "corners" /\ corner = 4
  /\ inside' = (odd > 2)
  /\ stage' = "flag"
  /\ UNCHANGED <<set, ray, outside, which, corner, odd, mask>>

StartCorners == corner' = 0 /\ odd' = 0

(* The gates of the boundary's stretches get the flag; then the next one. *)
FlagGates ==
  /\ stage = "flag"
  /\ LET b == set[which]
         d == Minus(ray.to, ray.from)
         found == IF ray.series THEN {TsFindIntxns(b, ray.from, Sign(d[2]))}
                  ELSE {FindIntxns(b, d, tilt) : tilt \in Tilts(b, d)}
         flag == IF outside THEN 0 ELSE 1
     IN  \E xs \in found :
           LET in == IF ray.series THEN Len(xs) % 2 = 1 ELSE inside
           IN  mask' = [g \in Gates |-> IF g \in Enclosed(xs, in) THEN flag ELSE mask[g]]
  /\ IF which < Len(set)
     THEN /\ which' = which + 1 /\ StartCorners
          /\ stage' = IF ray.series THEN "flag" ELSE "corners"
     ELSE stage' = "done" /\ UNCHANGED <<which, corner, odd>>
  /\ UNCHANGED <<set, ray, outside, inside>>

Next == LookAtCorner \/ PlaceRadar \/ FlagGates

Spec == Init /\ [][Next]_vars

----------------------------------------------------------------------------
(* The reference, by other means: a point is enclosed by a closed line     *)
(* when a level line from it to the right crosses that an odd number of    *)
(* times.  Points here are enlarged 2 * LastGate times.                    *)

Enlarged(p) == <<2 * LastGate * p[1], 2 * LastGate * p[2]>>

(* The place k half gates along the ray. *)
Along(k) == LET d == Minus(ray.to, ray.from) IN
  <<2 * LastGate * ray.from[1] + k * d[1], 2 * LastGate * ray.from[2] + k * d[2]>>

Lines(b) == {<<Enlarged(b[Before(b, i)]), Enlarged(b[i])>> : i \in 1..Len(b)}

CrossedToTheRight(p, l) ==
  LET up == l[2][2] > l[1][2]
      turn == Cross(Minus(l[2], l[1]), Minus(p, l[1]))
  IN  (l[1][2] > p[2]) # (l[2][2] > p[2]) /\ IF up THEN turn > 0 ELSE turn < 0

EvenOdd(b, p) ==
  Cardinality({i \in 1..Len(b) :
    CrossedToTheRight(p, <<Enlarged(b[Before(b, i)]), Enlarged(b[i])>>)}) % 2 = 1

(* The lines l and m touch or cross. *)
Meet(l, m) ==
  LET turn(p, q, r) == Sign(Cross(Minus(q, p), Minus(r, p)))
      on(p, q, r) == turn(p, q, r) = 0 /\ Dot(Minus(p, r), Minus(q, r)) <= 0
      a == turn(l[1], l[2], m[1]) * turn(l[1], l[2], m[2])
      c == turn(m[1], m[2], l[1]) * turn(m[1], m[2], l[2])
  IN  \/ a < 0 /\ c < 0
      \/ on(l[1], l[2], m[1]) \/ on(l[1], l[2], m[2])
      \/ on(m[1], m[2], l[1]) \/ on(m[1], m[2], l[2])

(* The line of the boundary passes within half a gate, or through p. *)
PassesNear(b, g) == \E l \in Lines(b) : Meet(l, <<Along(2 * g - 1), Along(2 * g + 1)>>)
PassesThrough(b, p) == \E l \in Lines(b) : Meet(l, <<p, p>>)

----------------------------------------------------------------------------
TypeOK ==
  /\ outside \in BOOLEAN /\ inside \in BOOLEAN
  /\ which \in 1..Len(set) /\ corner \in 0..4 /\ odd \in 0..corner
  /\ stage \in {"corners", "flag", "done"}
  /\ mask \in [Gates -> {0, 1}]

(* Whatever shape is drawn, crossing itself, running along a ray or        *)
(* touching it, and however the directions round: the four corners agree   *)
(* on which side of it the radar is, and they are right                    *)
(* (se_radar_inside_bnd, xse_find_intxns).                                 *)
CornersAgree ==
  stage = "corners" =>
    odd = IF EvenOdd(set[which], Enlarged(ray.from)) THEN corner ELSE 0

(* When all boundaries are done the gates flagged are those enclosed by    *)
(* any of them: every gate in the middle of which a boundary encloses, and *)
(* no gate further than half a gate from one; outside, the others.         *)
(* (xse_set_intxn, xse_num_segments, se_nab_segment, dd_edd.)              *)
FlagsEnclosedGates ==
  stage = "done" =>
    \A g \in Gates :
      LET inAny == \E i \in 1..Len(set) : EvenOdd(set[i], Along(2 * g))
          nearAny == \E i \in 1..Len(set) : PassesNear(set[i], g)
          onAny == \E i \in 1..Len(set) : PassesThrough(set[i], Along(2 * g))
          flagged == mask[g] = IF outside THEN 0 ELSE 1
      IN  /\ inAny /\ ~onAny => flagged
          /\ flagged => inAny \/ nearAny

=============================================================================
