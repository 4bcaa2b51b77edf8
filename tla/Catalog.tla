------------------------------ MODULE Catalog ------------------------------
(***************************************************************************)
(* The sweep-file catalog of translate/dd_files.c, by what its lookups     *)
(* answer.  A catalog is the sequence of the directory's entries in the    *)
(* order readdir gave them, each a record with the stamp (start time) and  *)
(* the version its name carries.  CatalogTree has the trees the program    *)
(* searches; TLC checks there that they answer as the operators below say. *)
(***************************************************************************)
EXTENDS Integers, Sequences, FiniteSets
LOCAL INSTANCE FiniteSetsExt

(* The request types, with the integers include/dd_files.h gives them.     *)
TIME_NEAREST == 0
TIME_AFTER   == 1
TIME_BEFORE  == 2

(* The version numbers d_mddir_file_info_v3 searches for when it is asked  *)
(* for the latest or the earliest version.                                 *)
LatestVersion   == 99999
EarliestVersion == -1

Stamps(cat) == {cat[i].stamp : i \in DOMAIN cat}

Highest(S) == {x \in S : \A y \in S : y <= x}
Lowest(S)  == {x \in S : \A y \in S : x <= y}

(* The time a request names, as a set of at most one.  TIME_NEAREST takes  *)
(* the closer of the two neighbours, the later one when they are equally   *)
(* close.                                                                  *)
TimeRequested(cat, target, request) ==
  LET before == Highest({t \in Stamps(cat) : t < target})
      after  == Lowest({t \in Stamps(cat) : t > target})
      Closer(l, f) == target - l < f - target
  IN  IF request = TIME_AFTER THEN after
      ELSE IF request = TIME_BEFORE THEN before
      ELSE IF target \in Stamps(cat) THEN {target}
      ELSE IF after = {} \/ \E l \in before, f \in after : Closer(l, f) THEN before
      ELSE after

(* Among the entries of one time, the first one read that has the version, *)
(* else, of its neighbours in version, the one read later: the last of     *)
(* those just below and the first of those just above.                     *)
VersionRequested(cat, t, version) ==
  LET Of(P(_)) == {i \in DOMAIN cat : cat[i].stamp = t /\ P(cat[i].version)}
      exact == Of(LAMBDA v : v = version)
      below == Of(LAMBDA v : v < version)
      above == Of(LAMBDA v : v > version)
      pred  == {i \in below : \A j \in below : cat[j].version <= cat[i].version}
      succ  == {i \in above : \A j \in above : cat[j].version >= cat[i].version}
  IN  IF exact # {} THEN Min(exact)
      ELSE Max(Highest(pred) \cup Lowest(succ))

(* ddfn_search: the entries (at most one) a request finds.                 *)
Search(cat, target, request, version) ==
  {VersionRequested(cat, t, version) : t \in TimeRequested(cat, target, request)}

(* The elements of S in the order "precedes", which is strict and total on *)
(* S: SetToSortSeq, in a form that can be reasoned about.                  *)
Ordered(S, precedes(_, _)) ==
  [k \in 1 .. Cardinality(S) |->
     CHOOSE x \in S : Cardinality({y \in S : precedes(y, x)}) = k - 1]

(* The sweep list (one entry per time: the first one read), and the        *)
(* exhaustive list (every version, in version order), both as entry        *)
(* numbers in time order.                                                  *)
Precedes(cat, i, j) ==
  \/ cat[i].stamp < cat[j].stamp
  \/ cat[i].stamp = cat[j].stamp /\ cat[i].version < cat[j].version
  \/ cat[i].stamp = cat[j].stamp /\ cat[i].version = cat[j].version /\ i < j

EntireList(cat) == Ordered(DOMAIN cat, LAMBDA i, j : Precedes(cat, i, j))

SweepList(cat) ==
  Ordered({i \in DOMAIN cat : \A j \in 1 .. i - 1 : cat[j].stamp # cat[i].stamp},
          LAMBDA i, j : cat[i].stamp < cat[j].stamp)
=============================================================================
