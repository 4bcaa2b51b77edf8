----------------------------- MODULE MCFilters -----------------------------
(* Small rays for TLC.                                                     *)
EXTENDS GateFilters

(* Low enough never to be the value of a good gate.                        *)
DELETE_FLAG == -9
ThreeValues == {DELETE_FLAG, 0, 3}

(* The inside, and the outside, of one stretch of a ray.                   *)
OneStretch ==
  LET inside == {a .. b : a, b \in 0 .. NGates}
  IN  inside \cup {(0 .. NGates) \ s : s \in inside}
=============================================================================
