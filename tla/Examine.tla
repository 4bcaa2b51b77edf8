------------------------------- MODULE Examine --------------------------------
(***************************************************************************)
(* The examine window of one frame (editor/sxm_examine.c, reached from     *)
(* perusal/sii_exam_widgets.c): a list of the gates of a sweep, clicks in  *)
(* it that change them, and the list of those changes, which can be taken  *)
(* back one by one or applied to the sweep the frame plots.                *)
(*                                                                         *)
(* "data" is what data_ptrs reach, "shown" the text of the list, which is  *)
(* rewritten a cell at a time.  Values are counted in units of the last    *)
(* stored digit: a file holds whole counts in a short, a displayed value   *)
(* is a count and a missing gate is displayed as the missing value itself, *)
(* which is Scale times as many counts.  One field is shown and every ray  *)
(* of the sweep is in the list.                                            *)
(*                                                                         *)
(* Plots do not refresh the list (only the gestures of the examine window  *)
(* do) and changes name rays by number, so "from" and "plotted" differ     *)
(* until the next refresh, which pending changes forbid.                   *)
(*                                                                         *)
(* A file is named by the times of its first and its last ray and holds    *)
(* one sweep of one radar; a ray is [time, gates].                         *)
(***************************************************************************)
EXTENDS Catalog, SequencesExt

CONSTANTS
  InitDir,      \* the sweep files at the start, in readdir order
  InitFiles,    \* what they hold: a sequence of rays each
  Missing,      \* bad_data
  Scale,        \* parameter_scale
  ShortValues,  \* the number of values of a short
  Interval,     \* the Nyquist interval, in counts
  AircraftVel,  \* the aircraft's motion along a ray, in counts
  NewValues,    \* the values that can be typed for a replacement
  Operations,   \* the operations that are used
  FoldsMissing, \* whether the user folds single gates that hold nothing
  MaxChanges,   \* bound: changes pending at a time
  MaxCommits    \* bound: commits

CellOps == {"delete", "replace", "-fold", "+fold", "air motion"}
RunOps == {"ignore", "-fold ray", "+fold ray"}
RestOps == {"-fold rest", "+fold rest"}

ASSUME OperationsAssumption == Operations \subseteq CellOps \union RunOps \union RestOps
ASSUME FilesAssumption == InitDir # << >> /\ DOMAIN InitFiles = ToSet(InitDir)
ASSUME ValuesAssumption == /\ Scale \in Nat \ {0} /\ Interval \in Nat \ {0}
                           /\ ShortValues \in Nat \ {0} /\ Missing \in Int
ASSUME BoundsAssumption == MaxChanges \in Nat \ {0} /\ MaxCommits \in Nat

VARIABLES
  files,    \* what the sweep files hold
  dir,      \* their names, in readdir order
  plotted,  \* the file of the frame's sweep info
  rat,      \* rays in the rotation table: of the file the frame read last
  sweep_file_modified,
  from,     \* the file the list was read from
  data,     \* ecs->data_ptrs
  shown,    \* the cells of the list; a missing gate shows as dashes
  change,   \* struct se_changez
  list,     \* changez_list (top), change_count, and the links
  written,  \* rio_last_written_path of the editor
  commits   \* how many commits there were

disk == <<files, dir, written, commits>>
frame == <<plotted, rat, sweep_file_modified>>
vars == <<disk, frame, from, data, shown, change, list>>

Nodes == 1..MaxChanges
Nil == 0
Dashes == Missing * Scale

----------------------------------------------------------------------------
(* What is stored and what is read back.                                   *)

(* A short holds what fits. *)
Short(v) == ((v + ShortValues \div 2) % ShortValues) - ShortValues \div 2

(* Half is added and the fraction dropped, toward zero. *)
Scaled(v) == IF v >= 0 THEN v ELSE v + 1

Displayed(raw) == IF raw = Missing THEN Dashes ELSE raw

(* The list of n columns.  Where the file ends before them nothing is read *)
(* and the ray before is taken once more.                                  *)
Listed(rays, n) ==
  [r \in 1..n |-> LET gates == rays[IF r < Len(rays) THEN r ELSE Len(rays)].gates
                  IN  [g \in DOMAIN gates |-> Displayed(gates[g])]]

Unfolded(v) == LET nyquist == Interval \div 2 IN ((v + nyquist) % Interval) - nyquist

----------------------------------------------------------------------------
(* The list of changes: newest on top, closed through "last".              *)

Pushed(l, c) ==
  LET tail == IF l.top = Nil THEN c ELSE l.last[l.top]
      linked == IF l.top = Nil THEN l.last ELSE [l.last EXCEPT ![l.top] = c]
  IN  [top |-> c, count |-> l.count + 1,
       next |-> [l.next EXCEPT ![c] = l.top], last |-> [linked EXCEPT ![c] = tail]]

Popped(l) ==
  LET below == l.next[l.top]
  IN  [l EXCEPT !.top = below, !.count = @ - 1,
                !.last = IF below = Nil THEN @ ELSE [@ EXCEPT ![below] = l.last[l.top]]]

(* Mutant of Removed: the link that closes the list keeps the oldest.      *)
RemovedInside(l, c) ==
  IF c = l.top THEN Popped(l)
  ELSE [l EXCEPT !.count = @ - 1, !.next[l.last[c]] = l.next[c],
                 !.last[IF l.next[c] = Nil THEN c ELSE l.next[c]] = l.last[c]]

Removed(l, c) ==
  IF c = l.top THEN Popped(l)
  ELSE [l EXCEPT !.count = @ - 1, !.next[l.last[c]] = l.next[c],
                 !.last[IF l.next[c] = Nil THEN l.top ELSE l.next[c]] = l.last[c]]

(* The changes, newest first. *)
Pending ==
  LET nth[i \in Nodes] == IF i = 1 THEN list.top
                          ELSE LET above == nth[i - 1]
                               IN  IF above = Nil THEN Nil ELSE list.next[above]
  IN  SelectSeq([i \in Nodes |-> nth[i]], LAMBDA c : c # Nil)

(* A struct that is in no list: a spare one or a new one. *)
Fresh == CHOOSE c \in Nodes \ ToSet(Pending) : TRUE

----------------------------------------------------------------------------
(* Clicks in the list.                                                     *)

Amount(op) == IF op \in {"-fold", "-fold ray", "-fold rest"} THEN -Interval ELSE Interval

Moved(v, by) == IF v = Dashes THEN v ELSE v + by

(* The rows a change of a ray covers. *)
Rows(c, cells) ==
  IF c.to # Nil THEN c.row .. c.to - 1
  ELSE IF c.op \in RestOps THEN c.row .. cells ELSE 1..cells

(* The cells of ray r in "rows" change by "by", and are shown again.       *)
Shifted(d, r, rows, by) ==
  LET new(g) == IF g \in rows THEN Moved(d.data[r][g], by) ELSE d.data[r][g]
  IN  [d EXCEPT !.data[r] = [g \in DOMAIN @ |-> new(g)],
                !.shown[r] = [g \in DOMAIN @ |-> IF g \in rows THEN new(g) ELSE @[g]]]

Shift(r, rows, by) ==
  LET d == Shifted([data |-> data, shown |-> shown], r, rows, by)
  IN  data' = d.data /\ shown' = d.shown

NewCell(op, old, value) ==
  CASE op = "delete" -> Dashes
    [] op = "replace" -> value
    [] op \in {"-fold", "+fold"} -> old + Amount(op)
    [] op = "air motion" -> Unfolded(old + AircraftVel)

(* A second click in the ray ends a run that the first one began. *)
SecondClick(op, r, row) ==
  LET c == change[list.top]
  IN  op \in RunOps /\ list.top # Nil /\ c.op = op /\ c.ray = r /\ c.to = Nil /\ row # c.row

MarkRun(op, r, row) ==
  LET first == change[list.top].row
      lo == IF row < first THEN row ELSE first
      hi == IF row < first THEN first ELSE row
      outside == DOMAIN data[r] \ (lo..hi)
  IN  /\ change' = [change EXCEPT ![list.top].row = lo, ![list.top].to = hi + 1]
      /\ Shift(r, outside, IF op = "ignore" THEN 0 ELSE -Amount(op))
      /\ UNCHANGED list

ChangeCell(op, r, row, value) ==
  LET old == data[r][row]
      new == NewCell(op, old, value)
      c == Fresh
  IN  /\ op \in CellOps
      /\ op # "replace" => value = CHOOSE v \in NewValues : TRUE
      /\ op \in {"-fold", "+fold", "air motion"} /\ old = Dashes => FoldsMissing
      /\ change' = [change EXCEPT ![c] =
           [op |-> op, ray |-> r, row |-> row, to |-> Nil, old |-> old, new |-> new]]
      /\ list' = Pushed(list, c)
      /\ data' = [data EXCEPT ![r][row] = new]
      /\ shown' = [shown EXCEPT ![r][row] = new]

ChangeRay(op, r, row) ==
  LET new == IF op = "ignore" THEN Dashes ELSE Amount(op)
      c == Fresh
      made == [op |-> op, ray |-> r, row |-> row, to |-> Nil, old |-> 0, new |-> new]
  IN  /\ op \notin CellOps /\ ~SecondClick(op, r, row)
      /\ change' = [change EXCEPT ![c] = made]
      /\ list' = Pushed(list, c)
      /\ IF op = "ignore"
         THEN /\ UNCHANGED data
              /\ shown' = [shown EXCEPT ![r] = [g \in DOMAIN @ |-> Dashes]]
         ELSE Shift(r, Rows(made, Len(data[r])), new)

(* sxm_click_in_list *)
ClickInList ==
  /\ UNCHANGED <<disk, frame, from>>
  /\ \E op \in Operations, r \in DOMAIN data : \E row \in DOMAIN data[r] :
       \/ SecondClick(op, r, row) /\ MarkRun(op, r, row)
       \/ list.count < MaxChanges /\ ChangeRay(op, r, row)
       \/ list.count < MaxChanges /\ \E value \in NewValues : ChangeCell(op, r, row, value)

(* Mutant of TakenBack: the whole ray is shifted back, not the run. *)
TakenBackWhole(c, cells) == 1..cells

(* The rows sxm_undo_last goes over. *)
TakenBack(c, cells) == Rows(c, cells)

(* sxm_undo_last *)
Undone(d) ==
  LET c == change[d.list.top]
      r == c.ray
      popped == [d EXCEPT !.list = Popped(@)]
  IN  IF c.op \in CellOps
      THEN [popped EXCEPT !.data[r][c.row] = c.old, !.shown[r][c.row] = c.old]
      ELSE Shifted(popped, r, TakenBack(c, Len(d.data[r])), IF c.op = "ignore" THEN 0 ELSE -c.new)

TakeBack(n) ==
  LET d == FoldLeft(LAMBDA e, i : Undone(e), [data |-> data, shown |-> shown, list |-> list],
                    [i \in 1..n |-> i])
  IN  /\ data' = d.data /\ shown' = d.shown /\ list' = d.list
      /\ UNCHANGED <<disk, frame, from, change>>

Undo == list.top # Nil /\ TakeBack(1)

(* sxm_clear_changes *)
Clear == list.top # Nil /\ TakeBack(Len(Pending))

----------------------------------------------------------------------------
(* Apply Edits: sxm_apply_changez, then the list is read again if it can.  *)

Folded(raw, by) == IF raw = Missing THEN raw ELSE Short(raw + Scaled(by))

(* What one change does to the gates of its ray in the file. *)
Applied(c, ray) ==
  CASE c.op = "delete" -> [ray EXCEPT ![c.row] = Missing]
    [] c.op \in {"replace", "-fold", "+fold"} -> [ray EXCEPT ![c.row] = Short(Scaled(c.new))]
    [] c.op = "ignore" ->
         [g \in DOMAIN ray |-> IF c.to # Nil /\ g \in Rows(c, Len(ray)) THEN Missing ELSE ray[g]]
    [] c.op \in {"-fold ray", "+fold ray"} \union RestOps ->
         [g \in DOMAIN ray |-> IF g \in Rows(c, Len(ray)) THEN Folded(ray[g], c.new) ELSE ray[g]]
    [] c.op = "air motion" -> ray

DropsRay(c) == c.op = "ignore" /\ c.to = Nil

(* One turn of the loop over the changes, oldest first. *)
Visit(w, r) ==
  LET c == change[w.at]
  IN  IF c.ray # r THEN [w EXCEPT !.at = w.list.last[@]]
      ELSE [at |-> Removed(w.list, w.at).last[w.at], list |-> Removed(w.list, w.at),
            ray |-> Applied(c, w.ray), drop |-> w.drop \/ DropsRay(c)]

(* Ray r passes by: the changes it meets are applied and leave the list. *)
Passed(l, r, ray) ==
  LET start == [at |-> IF l.top = Nil THEN Nil ELSE l.last[l.top], list |-> l,
                ray |-> ray, drop |-> FALSE]
  IN  FoldLeft(LAMBDA w, i : Visit(w, r), start, [i \in 1..l.count |-> i])

(* The sweep passes by; rays that are not dropped are written. *)
Rewritten(rays) ==
  FoldLeft(LAMBDA s, r : LET w == Passed(s.list, r, rays[r].gates)
                         IN  [list |-> w.list,
                              out |-> IF w.drop THEN s.out
                                      ELSE Append(s.out, [rays[r] EXCEPT !.gates = w.ray])],
           [list |-> list, out |-> <<>>], [r \in DOMAIN rays |-> r])

----------------------------------------------------------------------------
(* The directory, as the display's catalog and the editor see it.          *)

NoPath == <<0, 0>>
PathOf(rays) == <<rays[1].time, rays[Len(rays)].time>>

(* All files carry version 1. *)
Listing(names) ==
  [i \in DOMAIN names |-> [stamp |-> names[i][1], version |-> 1, file |-> names[i]]]

FileAt(names, stamp, version) ==
  LET c == Listing(names) IN c[VersionRequested(c, stamp, version)].file

(* The file that is read for a sweep by its start time: the editor's       *)
(* se_gen_sweep_list and the display's solo_nab_next_file ask for the      *)
(* latest version, which of files of one start time is the last in dir.    *)
Latest(names, sweep) == FileAt(names, sweep[1], LatestVersion)

(* Mutant of PointedAtWritten: the frame stays where it is. *)
NotPointed(names, path) == plotted

(* se_point_frame_at_written, which looks through as many entries of all   *)
(* versions as there are start times.                                      *)
PointedAtWritten(names, path) ==
  LET c        == Listing(names)
      entire   == EntireList(c)
      lookedAt == {c[entire[k]].file : k \in 1..Cardinality(Stamps(c))}
  IN  IF path # plotted /\ path \in lookedAt THEN path ELSE plotted

(* A sweep goes to the file named after what is left of it. *)
Write(rays) ==
  IF rays = <<>> THEN UNCHANGED <<files, dir, written>>
  ELSE LET out == PathOf(rays)
       IN  /\ written' = out
           /\ files' = [f \in DOMAIN files \union {out} |->
                          IF f = out THEN rays ELSE files[f]]
           /\ IF out \in DOMAIN files THEN UNCHANGED dir
              ELSE \E at \in 1..Len(dir) + 1 : dir' = InsertAt(dir, at, out)

(* sxm_update_examine_data with the frame at "sweep": not while changes    *)
(* are pending.  The columns are counted by the rotation table of before;  *)
(* then a file that was modified is found and opened again.                *)
ReadAgain(sweep, modified, pending) ==
  LET found == IF modified THEN Latest(dir', sweep) ELSE sweep
  IN  IF pending > 0
      THEN /\ plotted' = sweep /\ sweep_file_modified' = modified
           /\ UNCHANGED <<rat, from, data, shown>>
      ELSE /\ plotted' = found /\ from' = found
           /\ data' = Listed(files'[found], rat) /\ shown' = data'
           /\ rat' = Len(files'[found]) /\ sweep_file_modified' = FALSE

(* Apply Edits.  Where nothing is written, the frame goes to what was      *)
(* written before.                                                         *)
Commit ==
  LET result == Rewritten(files[Latest(dir, plotted)])
  IN  /\ list.count > 0 /\ commits < MaxCommits
      /\ commits' = commits + 1
      /\ list' = result.list
      /\ Write(result.out)
      /\ ReadAgain(PointedAtWritten(dir', written'), TRUE, list'.count)
      /\ UNCHANGED change

(* The list is asked for again: the window, a refresh, a scroll. *)
Refresh ==
  /\ UNCHANGED <<disk, change, list>>
  /\ ReadAgain(plotted, sweep_file_modified, list.count)

(* The frame moves to another sweep, or the other file of one start time:  *)
(* steps take the latest version, picks from the list of sweeps version 1. *)
Plot ==
  /\ plotted' \in {FileAt(dir, t, version) :
                     t \in Stamps(Listing(dir)), version \in {1, LatestVersion}}
  /\ rat' = Len(files[plotted'])
  /\ UNCHANGED <<disk, sweep_file_modified, from, data, shown, change, list>>

Blank == [op |-> "delete", ray |-> 1, row |-> 1, to |-> Nil, old |-> 0, new |-> 0]

Init ==
  /\ files = InitFiles /\ dir = InitDir
  /\ plotted \in DOMAIN files /\ from = plotted
  /\ rat = Len(files[from]) /\ sweep_file_modified = FALSE
  /\ data = Listed(files[from], rat) /\ shown = data
  /\ change = [c \in Nodes |-> Blank]
  /\ list = [top |-> Nil, count |-> 0, next |-> [c \in Nodes |-> Nil],
             last |-> [c \in Nodes |-> Nil]]
  /\ written = NoPath /\ commits = 0

Next == ClickInList \/ Undo \/ Clear \/ Commit \/ Refresh \/ Plot

Spec == Init /\ [][Next]_vars

=============================================================================
