-------------------------- MODULE ExamineProperties ---------------------------
(***************************************************************************)
(* What the examine window shows, keeps and writes.                        *)
(***************************************************************************)
EXTENDS Examine

Counts == -(ShortValues \div 2) .. (ShortValues \div 2) - 1
Cells == (Counts \ {Missing}) \union {Dashes}

(* Everything has its type; a cell holds a count that fits or is missing,  *)
(* and a file bears the times of the rays it holds.                        *)
TypeOK ==
  /\ \A f \in DOMAIN files :
       /\ files[f] \in Seq([time : Nat, gates : Seq(Counts)])
       /\ f = PathOf(files[f])
  /\ ToSet(dir) = DOMAIN files /\ IsInjective(dir)
  /\ {plotted, from} \subseteq DOMAIN files /\ written \in DOMAIN files \union {NoPath}
  /\ rat \in Nat \ {0} /\ sweep_file_modified \in BOOLEAN
  /\ data \in Seq(Seq(Cells)) /\ shown \in Seq(Seq(Cells))
  /\ DOMAIN data = DOMAIN shown
  /\ list.top \in Nodes \union {Nil} /\ list.count \in 0..MaxChanges
  /\ list.next \in [Nodes -> Nodes \union {Nil}]
  /\ list.last \in [Nodes -> Nodes \union {Nil}]
  /\ commits \in 0..MaxCommits

(* Clicks push, undo pops and a commit takes changes out of the middle in  *)
(* the order it meets their rays (sxm_push_change, sxm_pop_change,         *)
(* sxm_remove_change): the list stays closed, without a repetition, as     *)
(* long as the count says, so that the next commit, which counts its steps *)
(* along "last" and does not look for an end, meets every change once.     *)
ListIntact ==
  LET p == Pending
      n == Len(p)
  IN  /\ TypeOK
      /\ IsInjective(p) /\ n = list.count
      /\ \A i \in 1..n : list.last[p[i]] = IF i = 1 THEN p[n] ELSE p[i - 1]

(* When every change has been taken back, by undo in turn or by clear, the *)
(* list holds and shows what it held when it was read, whatever runs,      *)
(* folds and deletions were on top of each other: nothing is kept but the  *)
(* old value of single cells, rays are shifted back.  (A commit that       *)
(* leaves changes pending has written others that the list still shows.)   *)
TakenBackIsUntouched ==
  ~sweep_file_modified /\ list.count = 0 =>
    data = Listed(files[from], Len(data)) /\ shown = data

(* A commit goes through the file and applies changes to what is stored;   *)
(* it does not store what is shown.                                        *)
Ignored(r) == \E i \in DOMAIN Pending : change[Pending[i]].ray = r /\ DropsRay(change[Pending[i]])
UnderRun(r, g) ==
  \E i \in DOMAIN Pending : LET c == change[Pending[i]]
                            IN  /\ c.ray = r /\ c.op = "ignore"
                                /\ g \in Rows(c, Len(data[r]))
Kept == SelectSeq([r \in DOMAIN shown |-> r], LAMBDA r : ~Ignored(r))

Near(x, y) == x - y \in -MaxChanges .. MaxChanges

(* Apply Edits of a sweep that is listed whole, and as it is on disk,      *)
(* writes the rays that are not deleted, each with its time and each gate  *)
(* as the list shows it, one count off at most for each change (negative   *)
(* values lose one), to the file of their times (rio_wvol_write_path), and *)
(* takes every change off the list.  A gate in a deleted run may be        *)
(* missing though the list shows a value again after a later fold.         *)
AsShown(r, gates) ==
  \A g \in DOMAIN gates :
    \/ gates[g] = Missing /\ (shown[r][g] = Dashes \/ UnderRun(r, g))
    \/ gates[g] # Missing /\ shown[r][g] # Dashes /\ Near(shown[r][g], gates[g])

ListIsTheSweep ==
  /\ ~sweep_file_modified /\ from = Latest(dir, plotted)
  /\ Len(shown) = Len(files[from])

WritesTheList ==
  LET kept    == Kept
      Time(i) == files[from][kept[i]].time
      out     == files'[<<Time(1), Time(Len(kept))>>]
  IN  ListIsTheSweep /\ kept # <<>> =>
        /\ list'.count = 0
        /\ Len(out) = Len(kept)
        /\ \A i \in DOMAIN kept :
             out[i].time = Time(i) /\ AsShown(kept[i], out[i].gates)

(* Of whatever sweep, it changes no file but the one it writes, which is   *)
(* another than the one edited once the first or the last ray is deleted;  *)
(* and the frame, and with no change left the list, go on with what was    *)
(* written.  That much is said where the start times in the directory are  *)
(* distinct: see EditsStayShown.                                           *)
Writes == Rewritten(files[Latest(dir, plotted)]).out # <<>>
DistinctStarts(names) == \A f, g \in names : f[1] = g[1] => f = g

GoesOnWithIt ==
  Writes =>
    /\ \A f \in DOMAIN files \ {written'} : files'[f] = files[f]
    /\ DistinctStarts(DOMAIN files') =>
         plotted' = written' /\ (list'.count = 0 => from' = written')

(* A commit writes what the list shows, where nothing is lost by it, and   *)
(* the window goes on with what was written (sxm_apply_changez,            *)
(* rio_wvol_write_path, se_point_frame_at_written).                        *)
WrittenAsShown ==
  [][commits' > commits => WritesTheList /\ GoesOnWithIt]_vars

(* What sxm_apply_changez says it moves the frame and drops the cache for  *)
(* (editor/sxm_examine.c:292-296): "without this the refresh re-reads the  *)
(* unedited data and the changes appear to revert".  The list that follows *)
(* a commit is the one of the file it wrote.  The deletion of the last ray *)
(* of a sweep leaves two files of one start time, and the reload takes the *)
(* last of them in readdir order.                                          *)
EditsStayShown ==
  [][commits' > commits /\ Writes /\ list'.count = 0 => from' = written']_vars

=============================================================================
