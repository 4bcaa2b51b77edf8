---------------------------- MODULE SoloSession ----------------------------
(***************************************************************************)
(* A session: frames that plot sweeps, the editor that rewrites their      *)
(* files, and the directory they share.                                    *)
(*                                                                         *)
(* The program has one thread and handles one event to its end, so an      *)
(* event of the display (plot, click, selection, undo) is one action.      *)
(* A Do It is several, as many as its loop has iterations, and no other    *)
(* event is handled until it is over; "pc" says how far it has come.       *)
(*                                                                         *)
(* All files are of one radar, in one directory, read and written through  *)
(* radar_io.c; plots are of a single time; NEXRAD mode is off, as it is by *)
(* default.                                                                *)
(***************************************************************************)
EXTENDS RadarIO, Catalog
LOCAL INSTANCE FiniteSetsExt
LOCAL INSTANCE SequencesExt

CONSTANTS
  Frames,         \* the frames of the display, numbered
  SE_FRAME,       \* the window the editor reads and writes through
  Lock, Link,     \* frames in lockstep with, and sharing the sweep of, each
  EditFrames,     \* the frames whose editing window is used
  InitDir,        \* the file names at the start, in readdir order
  InitFiles,      \* what they hold
  Commands,       \* the for-each-ray command lists the user may type
  PlotCommands,   \* the plots the user may ask for
  Gestures,       \* the other things the user may do
  WriteResults,   \* whether the library may fail to write a file
  SE_UNDO_DEPTH,
  MaxDoIts        \* bound: Do Its in a session

ASSUME SessionAssumption ==
  /\ Frames \subseteq Nat /\ SE_FRAME \in Nat \ Frames
  /\ EditFrames \subseteq Frames
  /\ Lock \in [Frames -> SUBSET Frames] /\ Link \in [Frames -> SUBSET Frames]
  /\ \A f \in Frames : f \in Link[f] /\ Link[f] \subseteq Lock[f]
  /\ \A f \in Frames : \A g \in Link[f] : Link[g] = Link[f]
  /\ \A f \in Frames : \A g \in Lock[f] : Lock[g] = Lock[f]
  /\ InitDir \in Seq(Paths) \ {<< >>} /\ InitFiles \in [Paths -> Seq(Ray)]
  /\ \A p \in Paths : InitFiles[p] # NoVolume <=> p \in {InitDir[i] : i \in DOMAIN InitDir}
  /\ WriteResults \subseteq BOOLEAN
  /\ SE_UNDO_DEPTH \in Nat \ {0} /\ MaxDoIts \in Nat

(* A directory has no name twice.                                          *)
ASSUME DirectoryAssumption ==
  \A i, j \in DOMAIN InitDir : InitDir[i] = InitDir[j] => i = j

Windows == Frames \cup {SE_FRAME}

VARIABLES
  disk,     \* what each file name holds
  dir,      \* the file names in the directory, in readdir order
  io,       \* read state of each window's dgi
  wio,      \* write state of the editor's dgi
  name,     \* sweep_file_name of each frame's dgi
  req,      \* rio_req_sweep of each window's dgi
  cat,      \* each frame's catalog of the directory
  urgent,   \* rescan_urgent of each frame's catalog
  sweep,    \* each frame's sweep info: file, stamp, version_num, changed
  file_modified,  \* each frame's sweep_file_modified
  span,     \* start and stop time in each frame's editing window
  screen,   \* the rays each frame shows
  halt,     \* the halt flag
  undo,     \* the undo stack: path and saved contents
  se        \* the editor: see EditorIdle

frameVars == <<io, name, req, cat, urgent, sweep, file_modified, span, screen>>
vars == <<disk, dir, io, wio, name, req, cat, urgent, sweep, file_modified,
          span, screen, halt, undo, se>>

----------------------------------------------------------------------------
(* The plots, and the gestures besides plotting and Do It.                 *)
REPLOT_LOCK_STEP  == "replot_lock_step"
REPLOT_THIS_FRAME == "replot_this_frame"
FORWARD_ONCE      == "forward_once"
BACKWARDS_ONCE    == "backwards_once"

ASSUME PlotAssumption ==
  PlotCommands \subseteq {REPLOT_LOCK_STEP, REPLOT_THIS_FRAME, FORWARD_ONCE, BACKWARDS_ONCE}

LATEST_VERSION == -1      \* as d_mddir_file_info_v3 is asked for it
FORWARD  == 1             \* as include/dd_defines.h numbers them
BACKWARD == -1

(* Files of the Radx backend all carry version 1; a version picked from a  *)
(* list counts in thousands (ddfnp_list_entry, d_mddir_file_info_v3).      *)
Listing(names) == [i \in DOMAIN names |-> [stamp |-> names[i][1], version |-> 1,
                                           file |-> names[i]]]
ListedVersion(v) == v * 1000
SearchVersion(v) == IF v = LATEST_VERSION THEN LatestVersion ELSE v \div 1000

(* solo_worksheet: the frame of lowest number among those that share a     *)
(* sweep leads them; only its dgi is read.                                 *)
Lead(f) == Min(Link[f])

----------------------------------------------------------------------------
(* The sweep of the volume a step goes to, as a set of at most one: none   *)
(* when the volume has no other sweep that way.  The mutant is off by one. *)
StepWithinShort(action, cur, nsw) ==
  IF action = FORWARD /\ cur < nsw - 2 THEN {cur + 1}
  ELSE IF action = BACKWARD /\ cur > 0 THEN {cur - 1} ELSE {}

StepWithin(action, cur, nsw) ==
  IF action = FORWARD /\ cur < nsw - 1 THEN {cur + 1}
  ELSE IF action = BACKWARD /\ cur > 0 THEN {cur - 1} ELSE {}

(* The sweep asked of the file that is read: "a move to a different file   *)
(* starts at that file's first sweep".  The mutant keeps the request.      *)
RequestKept(f, stepTo) ==
  IF stepTo # {} THEN CHOOSE k \in stepTo : TRUE ELSE req[f]

Request(f, stepTo) ==
  IF stepTo # {} THEN CHOOSE k \in stepTo : TRUE ELSE 0

(* solo_nab_next_file for lead frame f, whose sweep info is s0.  "rescan"  *)
(* says whether the catalog has been used often enough to be read again.   *)
NabNextFile(f, s0, action, version, replot, rescan) ==
  LET reread == \/ rescan \/ urgent[f] \/ s0.changed
                \/ replot /\ version = LATEST_VERSION /\ file_modified[f]
      c      == IF reread THEN Listing(dir) ELSE cat[f]
      nsw    == NSweeps(io[f].vol)
      cur    == io[f].swp_index
      stepTo == IF nsw > 1 THEN StepWithin(action, cur, nsw) ELSE {}
      within == stepTo # {}
      found  == Search(c, s0.stamp, action, SearchVersion(version))
      s1     == IF within \/ found = {} THEN [s0 EXCEPT !.changed = FALSE]
                ELSE LET e == c[CHOOSE i \in found : TRUE]
                     IN  [s0 EXCEPT !.file = e.file, !.stamp = e.stamp,
                                    !.changed = FALSE]
      same   == ~within /\ ~replot /\ s1.stamp = s0.stamp
      r      == Request(f, stepTo)
  IN  IF same      \* "Sweep list exhausted"
      THEN [ok |-> FALSE, cat |-> c, sweep |-> s1,
            name |-> name[f], req |-> req[f], io |-> io[f]]
      ELSE [ok |-> TRUE, cat |-> c, sweep |-> s1, name |-> s1.file, req |-> r,
            io |-> RayRead(HeaderRead(io[f], s1.file, r, disk))]

(* displayq.  Every sweep set of the lockstep finds its file first; when   *)
(* one cannot, nothing is plotted.  The sweep info of each lead is then    *)
(* copied to the frames that share its sweep.  A halt that was asked for   *)
(* beforehand takes the place of the plot.                                 *)
Plot(f, command, rescan) ==
  LET replot  == command \in {REPLOT_LOCK_STEP, REPLOT_THIS_FRAME}
      action  == CASE replot -> TIME_NEAREST
                   [] command = FORWARD_ONCE -> TIME_AFTER
                   [] command = BACKWARDS_ONCE -> TIME_BEFORE
      version == IF replot THEN sweep[f].version ELSE LATEST_VERSION
      info    == [sweep EXCEPT ![f].version = version]
      plotted == IF command = REPLOT_THIS_FRAME THEN {f} ELSE Lock[f]
      leads   == {Lead(g) : g \in plotted}
      nab     == [l \in leads |-> NabNextFile(l, info[l], action, version, replot,
                                              l \in rescan)]
      drawn   == \A l \in leads : nab[l].ok
      AllRead(st) == [st EXCEPT !.cursor = st.nrays]
  IN  IF halt
      THEN /\ halt' = FALSE
           /\ UNCHANGED frameVars
      ELSE /\ io' = [w \in Windows |->
                       IF w \in leads
                       THEN IF drawn THEN AllRead(nab[w].io) ELSE nab[w].io
                       ELSE io[w]]
           /\ name' = [g \in Frames |-> IF g \in leads THEN nab[g].name ELSE name[g]]
           /\ req' = [w \in Windows |-> IF w \in leads THEN nab[w].req ELSE req[w]]
           /\ cat' = [g \in Frames |-> IF g \in leads THEN nab[g].cat ELSE cat[g]]
           /\ urgent' = [g \in Frames |->
                           urgent[g] /\ ~(g \in leads)]
           /\ sweep' = [g \in Frames |->
                          IF g \in leads THEN nab[g].sweep
                          ELSE IF g \in plotted
                               THEN [nab[Lead(g)].sweep EXCEPT !.changed = TRUE]
                               ELSE info[g]]
           /\ span' = [g \in Frames |->
                         IF g \in plotted
                         THEN [start |-> sweep'[g].stamp, stop |-> sweep'[g].stamp]
                         ELSE span[g]]
           /\ screen' = [g \in Frames |->
                           IF g \in plotted /\ drawn
                           THEN SelectedRays(nab[Lead(g)].io) ELSE screen[g]]
           /\ UNCHANGED <<file_modified, halt>>

----------------------------------------------------------------------------
(* Mutants of DropReadCaches: the editor's own cache is forgotten; only    *)
(* the editor's is dropped.                                                *)
DropDisplayCaches(f) ==
  io' = [w \in Windows |->
           IF w \in {f, Lead(f)} \cup Link[f] THEN InvalidateRead(io[w]) ELSE io[w]]

DropEditorCache(f) == io' = [io EXCEPT ![SE_FRAME] = InvalidateRead(@)]

(* se_invalidate_read_caches and what follows it after a Do It or an Undo  *)
(* in frame f: the caches dropped, the frames marked.                      *)
DropReadCaches(f) ==
  io' = [w \in Windows |->
           IF w \in {f, Lead(f), SE_FRAME} \cup Link[f]
           THEN InvalidateRead(io[w]) ELSE io[w]]

MarkModified(f) ==
  file_modified' = [file_modified EXCEPT ![f] = TRUE, ![Lead(f)] = TRUE]

----------------------------------------------------------------------------
(* What the user does to a frame between Do Its.                           *)

Idle == se.pc = "idle"

PlotFrames(f, command) ==
  /\ Idle
  /\ \E rescan \in SUBSET {Lead(g) : g \in Frames} : Plot(f, command, rescan)
  /\ UNCHANGED <<disk, dir, wio, undo, se>>

(* The Escape key, between two events of the frame.                        *)
Escape ==
  /\ Idle /\ "escape" \in Gestures
  /\ halt' = TRUE
  /\ UNCHANGED <<frameVars, disk, dir, wio, undo, se>>

(* sp_seek_field_vals: a click shows the values of the rays around it,     *)
(* read through the lead frame, which first reloads a file it knows to be  *)
(* modified.  Which ray it leaves the cursor at makes no difference later  *)
(* (every pass starts with a header or a seek): take the last one.         *)
Click(f) ==
  LET l   == Lead(f)
      nab == NabNextFile(l, sweep[l], TIME_NEAREST, LATEST_VERSION, TRUE, FALSE)
      st  == IF file_modified[l] THEN nab.io ELSE io[l]
  IN  /\ Idle /\ "click" \in Gestures
      /\ name[l] # NoPath
      /\ LET at == SeekRay(st, st.nrays - 1)
         IN  io' = [io EXCEPT ![l] = IF HasRay(at) THEN RayRead(at) ELSE at]
      /\ IF file_modified[l]
         THEN /\ name' = [name EXCEPT ![l] = nab.name]
              /\ req' = [req EXCEPT ![l] = nab.req]
              /\ cat' = [cat EXCEPT ![l] = nab.cat]
              /\ urgent' = [urgent EXCEPT ![l] = FALSE]
              /\ sweep' = [sweep EXCEPT ![l] = nab.sweep]
              /\ file_modified' = [file_modified EXCEPT ![l] = FALSE]
         ELSE UNCHANGED <<name, req, cat, urgent, sweep, file_modified>>
      /\ UNCHANGED <<disk, dir, wio, span, screen, halt, undo, se>>

(* solo_set_sweep_info: entry k of the Sweepfiles list is picked in frame  *)
(* f, for f and the frames that share its sweep.                           *)
SelectFile(f, k) ==
  LET c      == Listing(dir)
      picked == c[EntireList(c)[k]]
      info   == [file |-> picked.file, stamp |-> picked.stamp,
                 version |-> ListedVersion(picked.version), changed |-> TRUE]
  IN  /\ Idle /\ "select" \in Gestures
      /\ sweep' = [g \in Frames |-> IF g \in Link[f] THEN info ELSE sweep[g]]
      /\ cat' = [cat EXCEPT ![f] = c]
      /\ urgent' = [g \in Frames |-> g # f]
      /\ UNCHANGED <<disk, dir, io, wio, name, req, file_modified, span, screen,
                     halt, undo, se>>

(* The Reset Times button of frame f's editing window.                     *)
ResetTimes(f) ==
  /\ Idle /\ "reset_times" \in Gestures /\ f \in EditFrames
  /\ span' = [span EXCEPT ![f] = [start |-> sweep[f].stamp, stop |-> sweep[f].stamp]]
  /\ UNCHANGED <<disk, dir, io, wio, name, req, cat, urgent, sweep, file_modified,
                 screen, halt, undo, se>>

(* The First and the Last button: the span reaches to either end of the    *)
(* directory.                                                              *)
FirstSweep(f) ==
  /\ Idle /\ "first_sweep" \in Gestures /\ f \in EditFrames
  /\ span' = [span EXCEPT ![f].start = 0]
  /\ UNCHANGED <<disk, dir, io, wio, name, req, cat, urgent, sweep, file_modified,
                 screen, halt, undo, se>>

LastSweep(f) ==
  /\ Idle /\ "last_sweep" \in Gestures /\ f \in EditFrames
  /\ span' = [span EXCEPT ![f].stop = LastTime]
  /\ UNCHANGED <<disk, dir, io, wio, name, req, cat, urgent, sweep, file_modified,
                 screen, halt, undo, se>>

----------------------------------------------------------------------------
(* Do It.                                                                  *)

(* The editor between Do Its.  What is left of the one before is of no     *)
(* consequence, except for seds->modified.  "wrote" is history: the files  *)
(* this Do It has written.                                                 *)
EditorIdle ==
  [pc |-> "idle", frame |-> Min(Frames), command |-> "empty", auto |-> FALSE,
   snapshot |-> FALSE, modified |-> FALSE, list |-> << >>,
   swp_count |-> 0, ray_num |-> 0, num_rays |-> 0, count |-> 0, wrote |-> {}]

(* What a command list does at ray n of a sweep: whether it marks the      *)
(* sweep modified, and whether it then gives up ("punt").                  *)
(*   edit          changes the data of a field                             *)
(*   survey        only looks at the data                                  *)
(*   no_such_field changes a field the sweep does not have: it marks the   *)
(*                 sweep modified before it looks for the field            *)
(*   no_such_const sets, or adds a constant to, a field the sweep does not *)
(*                 have: it looks for the field first                      *)
(*   use_then_drop changes a field, then ignore-fields it: the field is    *)
(*                 gone until the next header is read                      *)
Modifies(command) == command \notin {"survey", "no_such_const"}
Punts(command, n) == \/ command \in {"no_such_field", "no_such_const"}
                     \/ command = "use_then_drop" /\ n > 1

(* Mutant of SweepsToEdit: the end of the span is not looked at.           *)
SweepsToTheEnd(c, from, to) ==
  LET times == {t \in Stamps(c) : t >= from}
  IN  [i \in 1 .. Cardinality(times) |->
         c[VersionRequested(c, Ordered(times, <)[i], LatestVersion)].file]

(* dd_sweepfile_list_v3: the times of the span, or the first one after it  *)
(* starts when it has none, and the latest version of each.                *)
SweepsToEdit(c, from, to) ==
  LET started == {t \in Stamps(c) : t >= from}
      inside  == {t \in started : t <= to}
      times   == IF inside = {} THEN Lowest(started) ELSE inside
  IN  [i \in 1 .. Cardinality(times) |->
         c[VersionRequested(c, Ordered(times, <)[i], LatestVersion)].file]

(* The snapshot taken before a Do It, of the file the frame's own dgi has  *)
(* (se_undo_push).  The oldest one makes room.                             *)
Pushed(path) ==
  Append(IF Len(undo) = SE_UNDO_DEPTH THEN Tail(undo) ELSE undo,
         [path |-> path, image |-> disk[path]])

(* Do It is pressed in frame f (EDIT_DO_IT, se_process_data up to the loop *)
(* of dd_edd).  An empty command list, or a span without sweeps, returns   *)
(* before "modified" is reset.                                             *)
DoIt(f, command, auto) ==
  LET todo    == SweepsToEdit(Listing(dir), span[f].start, span[f].stop)
      entered == command # "empty" /\ todo # << >>
  IN  /\ Idle /\ f \in EditFrames /\ se.count < MaxDoIts
      /\ undo' = IF name[f] = NoPath THEN undo ELSE Pushed(name[f])
      /\ se' = [pc |-> IF entered THEN "loop" ELSE "post",
                frame |-> f, command |-> command, auto |-> auto,
                snapshot |-> name[f] # NoPath,
                modified |-> IF entered THEN FALSE ELSE se.modified,
                list |-> IF entered THEN todo ELSE << >>,
                swp_count |-> 0, ray_num |-> 0, num_rays |-> 0,
                count |-> se.count + 1, wrote |-> {}]
      /\ UNCHANGED <<frameVars, disk, dir, wio, halt>>

(* Mutant of AllSweepsRead: one sweep more is waited for.                  *)
OneSweepTooMany == se.swp_count > Len(se.list)

(* ddswp_new_sweep_v3's END_OF_TIME_SPAN.                                  *)
AllSweepsRead == se.swp_count >= Len(se.list)

(* One iteration of the loop of dd_edd that gets a ray: the next of the    *)
(* sweep, or the first of the next sweep (ddswp_next_ray_v3); the          *)
(* commands; and, when they mark the sweep modified and do not give up,    *)
(* the ray written and the sweep completed at its last ray.                *)
EditRay(ok) ==
  LET opens  == se.ray_num >= se.num_rays
      swp    == IF opens THEN se.swp_count + 1 ELSE se.swp_count
      file   == se.list[swp]
      st     == IF opens THEN HeaderRead(io[SE_FRAME], file, req[SE_FRAME], disk)
                ELSE io[SE_FRAME]
      n      == IF opens THEN 1 ELSE se.ray_num + 1
      total  == IF opens THEN st.nrays ELSE se.num_rays
      punt   == Punts(se.command, n)
      dumps  == (se.modified \/ Modifies(se.command)) /\ ~punt
      ws     == IF dumps THEN RayWritten(wio, [NextRay(st) EXCEPT !.gen = @ + 1]) ELSE wio
      ends   == dumps /\ n >= total
      out    == PathOf(ws.wvol)
  IN  /\ se.pc = "loop" /\ ~halt
      /\ opens => swp <= Len(se.list)
      /\ HasRay(st)
      /\ io' = [io EXCEPT ![SE_FRAME] = RayRead(st)]
      /\ wio' = IF ends THEN SweepEnded(ws, ok) ELSE ws
      /\ disk' = IF ends THEN DiskAfterSweepEnd(ws, ok, disk) ELSE disk
      /\ IF ends /\ ok /\ disk[out] = NoVolume
         THEN \E at \in 1 .. Len(dir) + 1 : dir' = InsertAt(dir, at, out)
         ELSE UNCHANGED dir
      /\ file_modified' =
           [g \in Frames |-> \/ file_modified[g]
                             \/ dumps /\ n <= 1 /\ Lead(g) = g /\ sweep[g].file = file]
      /\ se' = [se EXCEPT !.pc = IF punt THEN "post" ELSE "loop",
                          !.modified = @ \/ Modifies(se.command),
                          !.swp_count = swp, !.ray_num = n, !.num_rays = total,
                          !.wrote = IF ends /\ ok THEN @ \cup {out} ELSE @]
      /\ UNCHANGED <<name, req, cat, urgent, sweep, span, screen, halt, undo>>

(* The iteration that finds the halt flag set, or no more rays.            *)
EndOfRays ==
  /\ se.pc = "loop"
  /\ \/ halt
     \/ se.ray_num >= se.num_rays /\ AllSweepsRead
  /\ se' = [se EXCEPT !.pc = "post"]
  /\ UNCHANGED <<frameVars, disk, dir, wio, halt, undo>>

(* The entries se_point_frame_at_written looks at: as many as the sweep    *)
(* list has, of the list of all versions.  The mutant looks at one less.   *)
LookedAtShort(c) == {EntireList(c)[k] : k \in 1 .. Len(SweepList(c)) - 1}

LookedAt(c) == {EntireList(c)[k] : k \in 1 .. Len(SweepList(c))}

(* se_point_frame_at_written: the frame is moved onto the file written     *)
(* last, if that is another one and one of those entries names it.         *)
PointFrameAtWritten(f) ==
  LET written == wio.last_path
      c       == Listing(dir)
      entry   == {i \in LookedAt(c) : c[i].file = written}
      tries   == written # NoPath /\ written # sweep[f].file
      moves   == tries /\ entry # {}
  IN  /\ sweep' = IF moves
                  THEN [sweep EXCEPT ![f] = [file |-> written, stamp |-> written[1],
                                             version |-> ListedVersion(1),
                                             changed |-> TRUE]]
                  ELSE sweep
      /\ req' = IF moves THEN [req EXCEPT ![f] = 0] ELSE req
      /\ cat' = IF tries THEN [cat EXCEPT ![f] = c] ELSE cat
      /\ urgent' = IF tries THEN [urgent EXCEPT ![f] = FALSE] ELSE urgent

(* Mutant of KeptSnapshots: the snapshot of every Do It is discarded.      *)
DiscardEverySnapshot == IF se.snapshot THEN Front(undo) ELSE undo

(* "A Do It that changed nothing should not leave an undo entry."          *)
KeptSnapshots == IF se.snapshot /\ ~se.modified THEN Front(undo) ELSE undo

(* The rest of EDIT_DO_IT, after se_process_data has returned.             *)
EndDoIt ==
  LET f == se.frame
  IN  /\ se.pc = "post"
      /\ span' = [span EXCEPT ![f] = [start |-> sweep[f].stamp, stop |-> sweep[f].stamp]]
      /\ undo' = KeptSnapshots
      /\ IF se.modified
         THEN PointFrameAtWritten(f) /\ DropReadCaches(f) /\ MarkModified(f)
         ELSE UNCHANGED <<sweep, req, cat, urgent, io, file_modified>>
      /\ se' = [EditorIdle EXCEPT !.pc = IF se.auto THEN "replot" ELSE "idle",
                                  !.frame = f, !.modified = se.modified,
                                  !.count = se.count]
      /\ UNCHANGED <<disk, dir, wio, name, screen, halt>>

(* The replot that ends a Do It with Auto Replot set, and an Undo.         *)
Replot ==
  /\ se.pc = "replot"
  /\ \E rescan \in SUBSET {Lead(g) : g \in Frames} :
       Plot(se.frame, REPLOT_LOCK_STEP, rescan)
  /\ se' = [se EXCEPT !.pc = "idle"]
  /\ UNCHANGED <<disk, dir, wio, undo>>

(* EDIT_UNDO, se_undo_pop_restore.                                         *)
Undo(f) ==
  /\ Idle /\ f \in EditFrames /\ undo # << >>
  /\ disk' = [disk EXCEPT ![Last(undo).path] = Last(undo).image]
  /\ undo' = Front(undo)
  /\ DropReadCaches(f) /\ MarkModified(f)
  /\ se' = [se EXCEPT !.pc = "replot", !.frame = f]
  /\ UNCHANGED <<dir, wio, name, req, cat, urgent, sweep, span, screen, halt>>

----------------------------------------------------------------------------
(* Every frame has been plotted once: it shows the first file.             *)
Init ==
  LET c     == Listing(InitDir)
      first == c[CHOOSE i \in DOMAIN c : i \in Search(c, 0, TIME_NEAREST, LatestVersion)]
      st    == HeaderRead(ClosedState, first.file, 0, InitFiles)
      read  == [st EXCEPT !.cursor = st.nrays]
  IN  /\ disk = InitFiles /\ dir = InitDir
      /\ io = [w \in Windows |-> IF w \in {Lead(f) : f \in Frames} THEN read ELSE ClosedState]
      /\ wio = ClosedWrite
      /\ name = [f \in Frames |-> IF Lead(f) = f THEN first.file ELSE NoPath]
      /\ req = [w \in Windows |-> 0]
      /\ cat = [f \in Frames |-> IF Lead(f) = f THEN c ELSE << >>]
      /\ urgent = [f \in Frames |-> FALSE]
      /\ sweep = [f \in Frames |-> [file |-> first.file, stamp |-> first.stamp,
                                    version |-> LATEST_VERSION, changed |-> Lead(f) # f]]
      /\ file_modified = [f \in Frames |-> FALSE]
      /\ span = [f \in Frames |-> [start |-> first.stamp, stop |-> first.stamp]]
      /\ screen = [f \in Frames |-> SelectedRays(st)]
      /\ halt = FALSE /\ undo = << >>
      /\ se = EditorIdle

Processing == (\E ok \in WriteResults : EditRay(ok)) \/ EndOfRays \/ EndDoIt

Gesture ==
  \/ Escape
  \/ \E f \in Frames :
       \/ \E command \in PlotCommands : PlotFrames(f, command)
       \/ Click(f)
       \/ \E k \in DOMAIN dir : SelectFile(f, k)
       \/ ResetTimes(f)
       \/ FirstSweep(f)
       \/ LastSweep(f)
       \/ \E command \in Commands, auto \in BOOLEAN : DoIt(f, command, auto)
       \/ Undo(f)

Next == Processing \/ Replot \/ Gesture

Spec     == Init /\ [][Next]_vars
FairSpec == Spec /\ WF_vars(Processing)
=============================================================================
