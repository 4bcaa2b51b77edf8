---------------------------- MODULE MCBoundaryMask ----------------------------
(* Every boundary of three or four of these places, crossing itself or     *)
(* not, alone or around and beside a triangle; rays that pass through      *)
(* corners, run along lines, or end inside.  The radar is on no line.      *)
EXTENDS BoundaryMask

Places == {<<2, 2>>, <<4, 0>>, <<-2, 3>>, <<-3, -2>>, <<2, -2>>, <<1, 1>>, <<0, -3>>}

Closable(b) == \A i \in 1..Len(b) : b[i] # b[Before(b, i)] \/ i = 1

OffRadar(b) == \A i \in 1..Len(b) :
  LET p == b[i]
      q == b[Before(b, i)]
  IN  ~(Cross(p, q) = 0 /\ Dot(p, q) <= 0)

Drawn == {b \in [1..3 -> Places] \union [1..4 -> Places] : Closable(b) /\ OffRadar(b)}

Triangle == <<<<3, -1>>, <<4, 3>>, <<1, 3>>>>

MCSets == {<<b>> : b \in Drawn} \union {<<b, Triangle>> : b \in {c \in Drawn : Len(c) = 3}}

MCRays ==
  {[from |-> <<0, 0>>, to |-> d, series |-> FALSE] :
     d \in {<<4, 4>>, <<2, 1>>, <<5, 1>>, <<-2, -1>>, <<-4, -2>>, <<0, 4>>, <<-3, 5>>}}
  \union {[from |-> <<t, 0>>, to |-> <<t, z>>, series |-> TRUE] : t \in {-1, 1}, z \in {-4, 4}}

=============================================================================
