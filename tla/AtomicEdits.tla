---------------------------- MODULE AtomicEdits ----------------------------
(***************************************************************************)
(* What the editing window promises its user, without rays, caches or      *)
(* snapshots: a Do It rewrites one sweep file in a single step, wholly or  *)
(* not at all, and the last Depth of them can be taken back, the latest    *)
(* first.                                                                  *)
(***************************************************************************)
EXTENDS Sequences, Naturals

CONSTANTS InitFiles,   \* what the files hold at the start
          Depth        \* Do Its that can be taken back

VARIABLES files,       \* what each file holds
          saved        \* path and former contents, oldest first

Edited(image) == [i \in DOMAIN image |-> [image[i] EXCEPT !.gen = @ + 1]]

Remembered(p) == Append(saved, [path |-> p, image |-> files[p]])

(* A Do It in the sweep of file p.                                         *)
Edit(p) ==
  /\ Len(saved) < Depth
  /\ files' = [files EXCEPT ![p] = Edited(@)]
  /\ saved' = Remembered(p)

(* One whose write failed; it still has an entry of its own.               *)
FailedEdit(p) ==
  /\ Len(saved) < Depth
  /\ files' = files
  /\ saved' = Remembered(p)

(* The oldest entry makes room.                                            *)
Forget ==
  /\ Len(saved) = Depth
  /\ saved' = Tail(saved)
  /\ files' = files

TakeBack ==
  /\ saved # << >>
  /\ LET top == saved[Len(saved)] IN files' = [files EXCEPT ![top.path] = top.image]
  /\ saved' = SubSeq(saved, 1, Len(saved) - 1)

Init == files = InitFiles /\ saved = << >>

Next ==
  \/ \E p \in DOMAIN files : Edit(p) \/ FailedEdit(p)
  \/ Forget
  \/ TakeBack

Spec == Init /\ [][Next]_<<files, saved>>
=============================================================================
