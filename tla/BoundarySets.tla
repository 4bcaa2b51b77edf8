----------------------------- MODULE BoundarySets -----------------------------
(***************************************************************************)
(* What the boundary buttons of the edit window do, said without pointers: *)
(* a sequence of boundaries, each a sequence of points, is drawn at one    *)
(* place of the sequence; the sets used last are remembered in the order   *)
(* of their use and "Prev Bnd Set" goes back through them, one press at a  *)
(* time, from the last one.  Boundaries implements this.                   *)
(***************************************************************************)
EXTENDS Integers, Sequences, SequencesExt

CONSTANTS
  Points, NoPoint,  \* the places that can be clicked; no origin yet
  SetsKept,         \* sets remembered
  ImportFiles       \* the boundaries that can be imported

VARIABLES
  drawn,          \* the boundaries being drawn
  here,           \* the one that clicks go to
  origin,         \* the first point of the boundary begun last
  lastOperation,  \* "cleared", "prev" or "other"
  used,           \* the sets used, the oldest first
  looking,        \* the one retrieved last, 0 if another button came after
  file            \* the set saved last

avars == <<drawn, here, origin, lastOperation, used, looking, file>>

----------------------------------------------------------------------------
Extended(b, p) == IF b # <<>> /\ Last(b) = p THEN b ELSE Append(b, p)

Shown == SelectSeq(drawn, LAMBDA b : Len(b) > 1)
ShownSet == [i \in 1..Len(Shown) |-> [origin |-> origin, points |-> Shown[i]]]

Emptied == [i \in 1..Len(drawn) |-> <<>>]

(* The boundaries of the set, in front of what stays of the others. *)
Over(set, others) ==
  LET longer == IF Len(set) > Len(others) THEN Len(set) ELSE Len(others)
  IN  [i \in 1..longer |-> IF i <= Len(set) THEN FoldLeft(Extended, <<>>, set[i].points)
                           ELSE others[i]]

Draw(set, others) ==
  /\ drawn' = Over(set, others)
  /\ here' = Len(set)
  /\ origin' = Last(set).origin

----------------------------------------------------------------------------
Init ==
  /\ drawn = <<<<>>>> /\ here = 1
  /\ origin = NoPoint
  /\ lastOperation = "other"
  /\ used = <<>> /\ looking = 0
  /\ file = <<>>

Click(p) ==
  /\ lastOperation' = "other" /\ looking' = 0
  /\ UNCHANGED file
  /\ drawn' = [drawn EXCEPT ![here] = Extended(@, p)]
  /\ origin' = IF drawn[here] = <<>> THEN p ELSE origin
  /\ UNCHANGED <<here, used>>

ZapLast ==
  /\ lastOperation' = "other" /\ looking' = 0
  /\ UNCHANGED <<origin, file>>
  /\ drawn' = [drawn EXCEPT ![here] = IF @ = <<>> THEN @ ELSE Front(@)]
  /\ UNCHANGED <<here, used>>

(* On to the next boundary; from a cleared one in front of another, to     *)
(* that one, the cleared one going to the end; from any other empty one,   *)
(* to the first.                                                           *)
AddNextBnd ==
  /\ lastOperation' = "other" /\ looking' = 0
  /\ UNCHANGED <<origin, file>>
  /\ IF drawn[here] # <<>>
     THEN /\ here' = here + 1
          /\ drawn' = IF here = Len(drawn) THEN Append(drawn, <<>>) ELSE drawn
     ELSE IF here < Len(drawn) /\ drawn[here + 1] # <<>>
          THEN drawn' = Append(RemoveAt(drawn, here), <<>>) /\ UNCHANGED here
     ELSE here' = 1 /\ UNCHANGED drawn
  /\ UNCHANGED used

ClearBnd ==
  /\ lastOperation' = "cleared" /\ looking' = 0
  /\ UNCHANGED <<origin, file>>
  /\ drawn' = [drawn EXCEPT ![here] = <<>>]
  /\ UNCHANGED <<here, used>>

ClearAgain ==
  /\ lastOperation = "cleared"
  /\ lastOperation' = "other" /\ looking' = 0
  /\ UNCHANGED <<origin, file>>
  /\ drawn' = Emptied /\ here' = 1
  /\ UNCHANGED used

Redraw ==
  /\ lastOperation' = "other" /\ looking' = 0
  /\ UNCHANGED <<origin, file, drawn, here, used>>

(* The last set, then the ones before it, and after the oldest the last. *)
PrevBndSet ==
  /\ lastOperation' = "prev"
  /\ UNCHANGED file
  /\ looking' = IF looking > 1 THEN looking - 1 ELSE Len(used)
  /\ IF used = <<>> THEN UNCHANGED <<drawn, here, origin>>
     ELSE Draw(used[looking'], Emptied)
  /\ UNCHANGED used

NabBoundary ==
  /\ lastOperation' = "other" /\ looking' = 0
  /\ file # <<>> /\ UNCHANGED file
  /\ Draw(file, Emptied)
  /\ UNCHANGED used

ImportBnd(f) ==
  /\ Draw(<<f>>, drawn)
  /\ UNCHANGED <<lastOperation, used, looking, file>>

SaveBoundary ==
  /\ lastOperation' = "other" /\ looking' = 0
  /\ IF ShownSet # <<>>
     THEN file' = ShownSet /\ UNCHANGED <<drawn, here, origin>>
     ELSE IF used = <<>> THEN UNCHANGED <<drawn, here, origin, file>>
     ELSE /\ file' = Last(used)
          /\ drawn' = [b \in DOMAIN Over(Last(used), Emptied) |-> <<>>]
          /\ here' = 1
          /\ origin' = Last(Last(used)).origin
  /\ UNCHANGED used

(* The set is used, remembered if it is not the last one again, and gone. *)
Use ==
  /\ lastOperation' = "other" /\ looking' = 0
  /\ UNCHANGED <<origin, file>>
  /\ \E i \in 1..Len(drawn) : Len(drawn[i]) > 2
  /\ drawn' = Emptied /\ here' = 1
  /\ used' = IF used # <<>> /\ Last(used) = ShownSet THEN used
             ELSE Append(IF Len(used) < SetsKept THEN used ELSE Tail(used), ShownSet)

(* A Do It that punts, is refused, or finds nothing enclosed. *)
UseNothing ==
  /\ here' \in {here, 1}
  /\ lastOperation' = "other" /\ looking' = 0
  /\ UNCHANGED <<origin, file, drawn, used>>

Next ==
  \/ \E p \in Points : Click(p)
  \/ ZapLast \/ AddNextBnd \/ ClearBnd \/ ClearAgain \/ Redraw
  \/ PrevBndSet \/ NabBoundary \/ SaveBoundary
  \/ \E f \in ImportFiles : ImportBnd(f)
  \/ Use \/ UseNothing

Spec == Init /\ [][Next]_avars

=============================================================================
