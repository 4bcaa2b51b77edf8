-------------------------- MODULE BoundaryProperties --------------------------
(***************************************************************************)
(* What holds of the lists of boundaries, and what the buttons promise.    *)
(***************************************************************************)
EXTENDS Boundaries, FiniteSets

(* Every pointer leads to a point or boundary that exists, or nowhere. *)
TypeOK ==
  /\ store.pt \in [Bpms -> [at : Points \union {NoPoint}, last : Bpms \union {Nil},
                            next : Bpms \union {Nil}]]
  /\ store.ob \in [Obs -> [top : Bpms \union {Nil}, num : 0..NumBpms,
                           last : Obs \union {Nil}, next : Obs \union {Nil}]]
  /\ store.spairs \in Bpms \union {Nil}
  /\ store.obs \in Obs /\ store.first \in Obs /\ store.current \in 1..store.obs
  /\ origin \in Points \union {NoPoint}
  /\ lastOperation \in {"cleared", "prev", "other"}
  /\ numPrev \in 0..SetsKept
  /\ lastPbs \in 0..numPrev /\ pbs \in 0..numPrev
  /\ job \in {"idle", "unpacking", "comparing"}

(* A list closed through "last": the first element leads to the last one,  *)
(* every other one to the element before it.                               *)
Closed(list, last) ==
  \A i \in 1..Len(list) : last[list[i]] = IF i = 1 THEN list[Len(list)] ELSE list[i - 1]

(* Adding, deleting, clearing, cycling and unpacking move points and       *)
(* boundaries between lists that are linked both ways by hand              *)
(* (se_append_bpm, se_delete_bnd_pt, se_push_all_bpms, se_zap_last_bpm,    *)
(* se_cycle_bnd): no point is on two lists or twice on one, every list is  *)
(* closed, the count of a boundary is the length of its list, and no       *)
(* boundary is lost.                                                       *)
ListsIntact ==
  LET obs == Boundaries(store)
      last == [b \in Bpms |-> store.pt[b].last]
      lists == [i \in DOMAIN obs |-> Bound(store, obs[i])]
      spares == Follow(store.pt, store.spairs, NumBpms + 1)
      all == FoldLeft(LAMBDA s, l : s \o l, spares, lists)
  IN  /\ TypeOK
      /\ IsInjective(all)
      /\ \A i \in 1..Len(obs) : /\ Closed(lists[i], last)
                               /\ store.ob[obs[i]].num = Len(lists[i])
      /\ ToSet(obs) = 1..store.obs /\ Len(obs) = store.obs
      /\ Closed(obs, [o \in Obs |-> store.ob[o].last])

RECURSIVE OldestFirst(_, _)
OldestFirst(s, n) == IF n = 0 THEN <<>> ELSE <<prev[s].at>> \o OldestFirst(prev[s].next, n - 1)

Used == IF lastPbs = Nil THEN <<>> ELSE OldestFirst(prev[lastPbs].next, numPrev)

(* The place of s in that order. *)
RECURSIVE Steps(_, _)
Steps(from, s) == IF from = s THEN 1 ELSE 1 + Steps(prev[from].next, s)

Drawn ==
  LET obs == Boundaries(store)
      n == Len(obs)
  IN  [i \in 1..n |-> PointsOf(store, obs[i])]

Here == LET obs == Boundaries(store) IN CHOOSE i \in DOMAIN obs : obs[i] = store.current

Promise == INSTANCE BoundarySets WITH
  drawn <- Drawn,
  here <- Here,
  used <- Used,
  looking <- IF lastOperation = "prev" /\ lastPbs # Nil
             THEN Steps(prev[lastPbs].next, pbs) ELSE 0

(* The pointers do what the buttons promise: points go where they are      *)
(* drawn, the sets used last, up to the length of the ring, are kept in    *)
(* their order whatever is drawn, cleared, saved or imported meanwhile,    *)
(* and "Prev Bnd Set" brings each of them back whole.                      *)
ButtonsKeepPromises == Promise!Spec

(* Once used the boundary set is added to a queue of boundary sets that    *)
(* can be retrieved with the "Prev Bnd Set" button (help_edit.h:118-120):  *)
(* that button comes back from reading the packed set.                     *)
SetsComeBack == [](job = "unpacking" /\ lastOperation = "prev" => <>(job = "idle"))

=============================================================================
