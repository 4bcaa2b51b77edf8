----------------------------- MODULE MCBoundaries -----------------------------
(* Two places, points for two boundaries of which one encloses something,  *)
(* and imported files that repeat their last point.                        *)
EXTENDS BoundaryProperties

CONSTANTS north, south

MCPoints == {north, south}
MCImportFiles ==
  {[origin |-> north, points |-> <<south, north, north>>],
   [origin |-> south, points |-> <<north, south, south>>]}

(* Bound: the file saved is the only set remembered, or none is yet.      *)
FewSaved == file # <<>> => numPrev = 0 \/ (numPrev = 1 /\ file = prev[1].at)

(* States alike but for the addresses of points, boundaries and sets.      *)
Shape == <<Promise!avars, job, store.obs, Len(Follow(store.pt, store.spairs, NumBpms)),
           lastPbs # Nil, numPrev>>

=============================================================================
