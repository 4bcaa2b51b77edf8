------------------------- MODULE SessionProperties -------------------------
(* What a session must never do, whatever the user does in it.             *)
EXTENDS SoloSession
LOCAL INSTANCE FiniteSetsExt
LOCAL INSTANCE SequencesExt

----------------------------------------------------------------------------
State(volumes) ==
  [vol : volumes, path : Paths \cup {NoPath}, swp_index : Nat,
   start : Nat \ {0}, nrays : Nat, cursor : Nat]

Entry == [stamp : Times, version : {1}, file : Paths]

(* Every variable has its type.                                            *)
TypeOK ==
  /\ disk \in [Paths -> Seq(Ray)] /\ dir \in Seq(Paths)
  /\ io \in [Windows -> State(Seq(Ray))]
  /\ wio \in [wvol : Seq(Ray), last_path : Paths \cup {NoPath}]
  /\ name \in [Frames -> Paths \cup {NoPath}] /\ req \in [Windows -> Nat]
  /\ cat \in [Frames -> Seq(Entry)] /\ urgent \in [Frames -> BOOLEAN]
  /\ sweep \in [Frames -> [file : Paths, stamp : Times, version : Int,
                           changed : BOOLEAN]]
  /\ file_modified \in [Frames -> BOOLEAN]
  /\ span \in [Frames -> [start : 0 .. LastTime, stop : 0 .. LastTime]]
  /\ screen \in [Frames -> Seq(Ray)]
  /\ halt \in BOOLEAN
  /\ undo \in Seq([path : Paths, image : Seq(Ray)]) /\ Len(undo) <= SE_UNDO_DEPTH
  /\ se.pc \in {"idle", "loop", "post", "replot"} /\ se.frame \in Frames
  /\ se.list \in Seq(Paths) /\ se.wrote \subseteq Paths
  /\ se.modified \in BOOLEAN /\ se.count \in 0 .. MaxDoIts

----------------------------------------------------------------------------
(* The files.                                                              *)

(* A file on disk is whole: it holds every ray of the time its name spans, *)
(* once and in order, from the first ray of a sweep to the last ray of     *)
(* one, and no sweep of it is edited in part.  Rays are written one by     *)
(* one, by a loop that can stop, give up, meet a failed write, or cross    *)
(* from one file to the next (dd_edd, rio_write_ray, rio_write_sweep_end). *)
WholeSweeps ==
  \A p \in Paths : disk[p] # NoVolume =>
    /\ p[1] % RaysPerSweep = 1 % RaysPerSweep /\ p[2] % RaysPerSweep = 0
    /\ Len(disk[p]) = p[2] - p[1] + 1
    /\ \A i \in DOMAIN disk[p] : disk[p][i].time = p[1] + i - 1
    /\ \A i, j \in DOMAIN disk[p] :
         SweepOf(disk[p][i]) = SweepOf(disk[p][j]) => disk[p][i].gen = disk[p][j].gen

(* "The previous sweep's volume is finalized + freed by                    *)
(* rio_write_sweep_end (dd_flush), so a NULL wvol reliably marks the first *)
(* ray of the next output sweep" (rio_write_ray): no ray waits in the      *)
(* write state when a Do It starts.                                        *)
FreshVolumePerSweep == Idle => wio.wvol = NoVolume

(* The rays of a sweep are being collected; the commands give up at a ray. *)
SweepOver  == se.ray_num >= se.num_rays
Collecting == se.pc = "loop" /\ se.modified /\ ~SweepOver
GivesUp    == se'.pc = "post" /\ Punts(se.command, se'.ray_num)

(* A halt, a failed write, the end of a sweep and the end of the span      *)
(* leave no ray behind in the write state: rays can only be left there by  *)
(* a command list that gives up, and then for as long as no later sweep    *)
(* takes them up (dd_edd, which leaves its loop without a dd_flush; every  *)
(* other way out of it finds the last sweep flushed).                      *)
OnlyGivingUpLeavesRays ==
  [][~Collecting' /\ wio'.wvol # NoVolume =>
       GivesUp \/ (~Collecting /\ UNCHANGED wio)]_vars

(* A chain of Do Its builds up: what the editor writes under the name of a *)
(* file is one edit further than that file was, never one edit further     *)
(* than some older image a cache held (rio_read_header's cache,            *)
(* se_invalidate_read_caches, the choice of file in dd_sweepfile_list_v3). *)
EditsStack ==
  [][\A p \in se'.wrote \ se.wrote : disk[p] # NoVolume =>
       /\ Len(disk'[p]) = Len(disk[p])
       /\ \A i \in DOMAIN disk[p] : disk'[p][i].gen = disk[p][i].gen + 1]_vars

(* The files of volumes stay as they are: an edited sweep of one goes to a *)
(* file of its own (rio_wvol_write_path names a file after what is in it,  *)
(* tests/test_multisweep_edit_safe.c).                                     *)
VolumesUntouched ==
  \A p \in Paths : NSweeps(InitFiles[p]) > 1 => disk[p] = InitFiles[p]

----------------------------------------------------------------------------
(* Undo.                                                                   *)

(* "A Do It that changed nothing should not leave an undo entry":          *)
(* EDIT_DO_IT takes its snapshot off the stack again when nothing was      *)
(* written.                                                                *)
NoEntryForNothing ==
  [][se.pc = "post" /\ se.snapshot /\ se.wrote = {} => undo' = Front(undo)]_vars

(* "Snapshot the sweep file before editing so this Do It can be undone":   *)
(* a Do It that has written a file has taken a snapshot (se_undo_push).    *)
EveryEditUndoable == se.pc = "post" /\ se.wrote # {} => se.snapshot

(* To its user a Do It over one sweep is a single step, from the file as   *)
(* the snapshot taken before it has it (AtomicEdits): until se_undo_push's *)
(* entry is kept or discarded (EDIT_DO_IT), that entry stands for the file *)
(* however far dd_edd has rewritten it, and an Undo takes back all of the  *)
(* last Do It and nothing else.                                            *)
Underway == se.pc \in {"loop", "post"} /\ se.snapshot

AsPromised ==
  INSTANCE AtomicEdits WITH
    Depth <- SE_UNDO_DEPTH,
    files <- IF Underway THEN [disk EXCEPT ![Last(undo).path] = Last(undo).image]
             ELSE disk,
    saved <- IF Underway THEN Front(undo) ELSE undo

DoItsAreAtomic == AsPromised!Spec

----------------------------------------------------------------------------
(* What the frames show.                                                   *)

(* Between events no window holds a volume that is no longer what its file *)
(* holds: an edit or an undo dropped every cache of the files it rewrote   *)
(* (se_invalidate_read_caches).                                            *)
CachesFresh ==
  Idle => \A w \in Windows : io[w].vol # NoVolume => io[w].vol = disk[io[w].path]

(* The replot after a Do It or an Undo leaves each frame of the lockstep   *)
(* showing its sweep as it is on disk, edited or restored: "Every dgi that *)
(* the replot will read through has to drop its cached volume"             *)
(* (EDIT_DO_IT, se_invalidate_read_caches, displayq).                      *)
ReplotShowsDisk ==
  [][se.pc = "replot" /\ ~halt =>
       \A g \in Lock[se.frame] : screen'[g] = disk[sweep'[g].file]]_vars

(* The frame "has to be looking at the file the edit actually wrote" when  *)
(* a Do It over one sweep is over, if it wrote any                         *)
(* (se_point_frame_at_written).                                            *)
FrameFollowsEdit ==
  [][se.pc = "post" /\ se.wrote # {} /\ Len(se.list) = 1 =>
       sweep'[se.frame].file \in se.wrote]_vars

(* "The editor will operate on the sweep plotted in this frame"            *)
(* (se_set_sfic_from_frame): what a Do It writes are the times of the      *)
(* sweep its frame shows.                                                  *)
EditsPlottedSweep ==
  se.pc = "post" => \A p \in se.wrote : p = PathOf(screen[se.frame])

----------------------------------------------------------------------------
(* Moving through the sweeps.                                              *)

(* The first times of the sweeps on disk.                                  *)
SweepTimes ==
  UNION {{disk[p][i].time : i \in SweepStarts(disk[p])} : p \in Paths}

Shown(f) == screen[f][1].time

(* A step forward that changes what a frame shows shows the sweep that     *)
(* comes next in time, within the volume or in the next file: none is      *)
(* passed over (displayq, solo_nab_next_file).  Of the files as they were  *)
(* recorded: the editor puts copies of a volume's sweeps beside it.        *)
ForwardShowsNext ==
  [][\A f \in Frames :
       LET later == {t \in SweepTimes : t > Shown(f)}
       IN  se.count = 0 /\ screen'[f] # screen[f] /\ PlotFrames(f, FORWARD_ONCE) =>
             later # {} /\ Shown(f)' = Min(later)]_vars

(* "Step to the next/previous sweep within it instead of advancing to      *)
(* another file" (solo_nab_next_file): a step backward from a later sweep  *)
(* of a volume shows the sweep before it.                                  *)
BackwardStepsWithin ==
  [][\A f \in Frames :
       PlotFrames(f, BACKWARDS_ONCE) /\ ~halt /\ io[Lead(f)].swp_index > 0 =>
         /\ name'[Lead(f)] = name[Lead(f)]
         /\ io'[Lead(f)].swp_index = io[Lead(f)].swp_index - 1]_vars

(* "A move to a different file starts at that file's first sweep"          *)
(* (solo_nab_next_file).                                                   *)
NewFileFromItsStart ==
  [][\A f \in Frames : name'[f] # name[f] => io'[f].swp_index = 0]_vars

----------------------------------------------------------------------------
(* A Do It is over at some time, whatever it was asked to do and whatever  *)
(* was left behind: all that can then follow is its replot (dd_edd,        *)
(* ddswp_next_ray_v3).  Fairness: no other event is handled before it      *)
(* returns.                                                                *)
DoItReturns == se.pc \in {"loop", "post"} ~> se.pc \in {"replot", "idle"}
=============================================================================
