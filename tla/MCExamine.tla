------------------------------ MODULE MCExamine -------------------------------
(* A sweep of two rays and one of one ray, three gates each, one missing.  *)
EXTENDS ExamineProperties

MCMissing == -32
Ray(time, gates) == [time |-> time, gates |-> gates]
MCInitDir == <<<<1, 2>>, <<5, 5>>>>
MCInitFiles == <<1, 2>> :> <<Ray(1, <<2, -1, -32>>), Ray(2, <<1, -32, -2>>)>>
               @@ <<5, 5>> :> <<Ray(5, <<0, 1, -1>>)>>
MCNewValues == {-3}
MCOperations == {"delete", "-fold", "ignore", "-fold ray", "+fold rest"}

(* For two commits (MaxCommits = 2) with two changes pending. *)
MCFewOperations == {"delete", "ignore"}

(* States alike but for the addresses of the changes. *)
Shape ==
  LET p == Pending
  IN  <<disk, frame, from, data, shown, list.count,
        [i \in DOMAIN p |-> change[p[i]]],
        [i \in DOMAIN p |-> {j \in DOMAIN p : p[j] = list.last[p[i]]}]>>

(* Bound: the states after the last commit are checked, not gone on from. *)
BeforeLast == commits < MaxCommits

=============================================================================
