----------------------------- MODULE MCDgiCalls -----------------------------
(* DgiCalls for TLC: one volume of two sweeps, one editing dgi and one that *)
(* only reads.                                                              *)
EXTENDS DgiCalls

MCFiles == {[i \in 1 .. 3 |-> [time |-> i, gen |-> 0]]}
MCNames == {<<1, 3>>, <<2, 2>>}
MCRequests == {-1, 5}
MCSought == {-1, LastTime + 1}
=============================================================================
